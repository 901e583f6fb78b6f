----------------------------- MODULE LogStreams -----------------------------
(***************************************************************************)
(* The log viewer's streams (src/internal/app/commands_logs.go,            *)
(* update_exec_log_msgs.go): a goroutine per stream runs kubectl logs and  *)
(* sends its lines to a channel; one-shot readers turn them into messages. *)
(* Each tab has its stream, which goes on while another tab is in front.   *)
(*                                                                         *)
(* Goroutines: the Update loop, one per stream, one per armed reader.  The *)
(* text of the lines, filters, offsets and the older lines fetched on      *)
(* request are left out.                                                   *)
(***************************************************************************)
EXTENDS Naturals

CONSTANTS
    MaxStreams,   \* BOUND: streams started in a behaviour
    MaxLines,     \* BOUND: lines of a stream
    LogTabs,      \* tabs
    FirstTab,     \* the one that is open at the start
    MaxReaders,   \* BOUND: readers of one channel
    MaxRestarts   \* BOUND: restarts scheduled for one stream

ASSUME LogStreamsAssumption ==
    /\ MaxStreams \in Nat /\ MaxLines \in Nat /\ FirstTab \in LogTabs
    /\ MaxReaders \in Nat \ {0} /\ MaxRestarts \in Nat

LogStreams == 1 .. MaxStreams
NoStream == 0                  \* a nil channel, a nil cancel function

VARIABLES
    stream,    \* stream -> its goroutine, its lines and its context
    reader,    \* stream -> logReaderInFlight, its readers and their messages
    logView,   \* m.logView and m.mode
    logTab,    \* tab -> the TabState it was last saved to
    openTabs,  \* the open tabs
    frontTab,  \* m.activeTab
    restarts,  \* stream -> logStreamRestartMsg scheduled for it
    asking,    \* the answer that \ or P waits for; BOUND: one at a time
    leaving,   \* shuttingDown
    logSession, \* pendingSession, until the contexts are loaded
    lost,      \* history: streams whose cancel function a late answer dropped
    forsaken   \* history: streams whose tab a switch of the session dropped

logVars == <<stream, reader, logView, logTab, openTabs, frontTab, restarts, asking,
             leaving, logSession, lost, forsaken>>

Views == [mode : {"explorer", "logs"}, ch : LogStreams \cup {NoStream},
          cancel : LogStreams \cup {NoStream}]
Explorer == [mode |-> "explorer", ch |-> NoStream, cancel |-> NoStream]

StreamStates == [pc : {"none", "live", "closed"}, left : 0 .. MaxLines,
                 buffered : 0 .. MaxLines, cancelled : BOOLEAN]
ReaderStates == [armed : BOOLEAN, waiting : 0 .. MaxReaders, lines : 0 .. MaxReaders,
                 dones : 0 .. MaxReaders, over : BOOLEAN]

LogStreamsTypeOK ==
    /\ stream \in [LogStreams -> StreamStates]
    /\ reader \in [LogStreams -> ReaderStates]
    /\ logView \in Views /\ logTab \in [LogTabs -> Views]
    /\ openTabs \subseteq LogTabs /\ frontTab \in openTabs
    /\ restarts \in [LogStreams -> 0 .. MaxRestarts]
    /\ asking \in {"nothing", "containers", "pods"}
    /\ leaving \in BOOLEAN /\ logSession \in BOOLEAN
    /\ lost \subseteq LogStreams /\ forsaken \subseteq LogStreams

LogStreamsInit ==
    /\ stream = [s \in LogStreams |-> [pc |-> "none", left |-> MaxLines, buffered |-> 0,
                                       cancelled |-> FALSE]]
    /\ reader = [s \in LogStreams |-> [armed |-> FALSE, waiting |-> 0, lines |-> 0,
                                       dones |-> 0, over |-> FALSE]]
    /\ logView = Explorer /\ logTab = [t \in LogTabs |-> Explorer]
    /\ openTabs = {FirstTab} /\ frontTab = FirstTab
    /\ restarts = [s \in LogStreams |-> 0]
    /\ asking = "nothing" /\ leaving = FALSE /\ logSession = FALSE
    /\ lost = {} /\ forsaken = {}

-----------------------------------------------------------------------------
(* The goroutine of a stream, and a reader of its channel.                 *)

Emit(s) ==
    /\ stream[s].pc = "live" /\ stream[s].left > 0
    /\ stream' = [stream EXCEPT ![s].left = @ - 1, ![s].buffered = @ + 1]
    /\ UNCHANGED <<reader, logView, logTab, openTabs, frontTab, restarts, asking,
                   leaving, logSession, lost, forsaken>>

\* kubectl ends, or the context is cancelled: the channel is closed.
CloseStream(s) ==
    /\ stream[s].pc = "live"
    /\ stream' = [stream EXCEPT ![s].pc = "closed"]
    /\ UNCHANGED <<reader, logView, logTab, openTabs, frontTab, restarts, asking,
                   leaving, logSession, lost, forsaken>>

Receive(s) ==
    /\ reader[s].waiting > 0
    /\ \/ /\ stream[s].buffered > 0
          /\ stream' = [stream EXCEPT ![s].buffered = @ - 1]
          /\ reader' = [reader EXCEPT ![s].waiting = @ - 1, ![s].lines = @ + 1]
       \/ /\ stream[s].buffered = 0 /\ stream[s].pc = "closed"
          /\ reader' = [reader EXCEPT ![s].waiting = @ - 1, ![s].dones = @ + 1]
          /\ UNCHANGED stream
    /\ UNCHANGED <<logView, logTab, openTabs, frontTab, restarts, asking, leaving,
                   logSession, lost, forsaken>>

-----------------------------------------------------------------------------
(* What the handlers share.                                                *)

\* readLogChannel, and waitForLogLineIfIdle.
Armed(r) == [r EXCEPT !.armed = TRUE, !.waiting = @ + 1]
ArmedIfIdle_always(r) == Armed(r)
ArmedIfIdle(r) == IF r.armed THEN r ELSE Armed(r)

Unheld(v) == IF v.cancel = NoStream THEN {} ELSE {v.cancel}
Cancelled(set) == [s \in LogStreams |-> [stream[s] EXCEPT !.cancelled = @ \/ s \in set]]

Unstarted == {s \in LogStreams : stream[s].pc = "none"}
NextStream == CHOOSE s \in Unstarted : TRUE

\* startLogStream, in a view of this mode, after the streams in set were
\* cancelled.  It overwrites the cancel function of the view.
StartStream(mode, set) ==
    LET n == NextStream IN
    /\ Unstarted # {}
    /\ stream' = [Cancelled(set) EXCEPT ![n].pc = "live"]
    /\ reader' = [reader EXCEPT ![n] = Armed(@)]
    /\ logView' = [mode |-> mode, ch |-> n, cancel |-> n]

-----------------------------------------------------------------------------
(* Messages.                                                               *)

\* updateLogLine with a line: into the view, or into the tab that was saved
\* with the channel, and the next reader; a channel nobody knows is dropped.
KnownTo(s) == {t \in openTabs : logTab[t].ch = s}
Rearms_frontOnly(s) == s = logView.ch
Rearms(s) == s = logView.ch \/ KnownTo(s) # {}

HandleLine(s) ==
    /\ ~leaving /\ reader[s].lines > 0
    /\ LET idle == [reader[s] EXCEPT !.lines = @ - 1, !.armed = FALSE] IN
       reader' = [reader EXCEPT ![s] = IF Rearms(s) THEN Armed(idle) ELSE idle]
    /\ UNCHANGED <<stream, logView, logTab, openTabs, frontTab, restarts, asking,
                   leaving, logSession, lost, forsaken>>

\* updateLogLine with the end of the stream: shouldAutoReconnectLogs depends
\* on what is shown and whether it is followed, and the attempts are limited.
HandleDone(s) ==
    /\ ~leaving /\ reader[s].dones > 0
    /\ reader' = [reader EXCEPT ![s].dones = @ - 1, ![s].armed = FALSE, ![s].over = TRUE]
    /\ \/ /\ s = logView.ch /\ logView.mode = "logs" /\ restarts[s] < MaxRestarts
          /\ restarts' = [restarts EXCEPT ![s] = @ + 1]
       \/ UNCHANGED restarts
    /\ UNCHANGED <<stream, logView, logTab, openTabs, frontTab, asking, leaving,
                   logSession, lost, forsaken>>

\* updateLogStreamRestart: only the stream it was scheduled for.
IsForView(s) == logView.ch = s

HandleRestart(s) ==
    /\ ~leaving /\ restarts[s] > 0
    /\ restarts' = [restarts EXCEPT ![s] = @ - 1]
    /\ \/ /\ logView.mode = "logs" /\ IsForView(s)
          /\ StartStream("logs", {})
       \/ UNCHANGED <<stream, reader, logView>>
    /\ UNCHANGED <<logTab, openTabs, frontTab, asking, leaving, logSession, lost,
                   forsaken>>

\* The streams that a start from an answer leaves without a cancel function:
\* the one it replaces, and its own when the viewer is not on the screen.
LostBy(mode) ==
    {s \in Unheld(logView) : ~stream[s].cancelled}
    \cup (IF mode = "logs" THEN {} ELSE {NextStream})

\* updateLogContainersLoaded: the only container at once, one of several when
\* the overlay is answered (restartLogStreamForContainerFilter), or none.  The
\* tab in front may be another than the one that asked.
ContainersAnswered ==
    /\ ~leaving /\ asking = "containers" /\ asking' = "nothing"
    /\ \/ /\ StartStream(logView.mode, {})
          /\ lost' = lost \cup LostBy(logView.mode)
       \/ /\ StartStream(logView.mode, Unheld(logView))
          /\ lost' = IF logView.mode = "logs" THEN lost ELSE lost \cup {NextStream}
       \/ UNCHANGED <<stream, reader, logView, lost>>
    /\ UNCHANGED <<logTab, openTabs, frontTab, restarts, leaving, logSession, forsaken>>

\* updatePodLogSelect: in the viewer it starts a stream, at once or when the
\* overlay is answered; in the explorer it opens the viewer.
PodsAnswered ==
    /\ ~leaving /\ asking = "pods" /\ asking' = "nothing"
    /\ \/ /\ StartStream("logs", {})
          /\ lost' = lost \cup LostBy("logs")
       \/ UNCHANGED <<stream, reader, logView, lost>>
    /\ UNCHANGED <<logTab, openTabs, frontTab, restarts, leaving, logSession, forsaken>>

-----------------------------------------------------------------------------
(* Keys.                                                                   *)

\* executeActionLogs, from the explorer.
OpenLogs ==
    /\ ~leaving /\ logView.mode = "explorer"
    /\ StartStream("logs", {})
    /\ UNCHANGED <<logTab, openTabs, frontTab, restarts, asking, leaving, logSession,
                   lost, forsaken>>

\* q.
CancelledByQ_none == {}
CancelledByQ == Unheld(logView)
QuitLogs ==
    /\ ~leaving /\ logView.mode = "logs"
    /\ stream' = Cancelled(CancelledByQ)
    /\ logView' = Explorer
    /\ UNCHANGED <<reader, logTab, openTabs, frontTab, restarts, asking, leaving,
                   logSession, lost, forsaken>>

\* c, and the container filter once the containers are known.
RestartLogs ==
    /\ ~leaving /\ logView.mode = "logs"
    /\ StartStream("logs", Unheld(logView))
    /\ UNCHANGED <<logTab, openTabs, frontTab, restarts, asking, leaving, logSession,
                   lost, forsaken>>

\* \ on a single Pod: loadContainersForLogFilter.
AskContainers ==
    /\ ~leaving /\ logView.mode = "logs" /\ asking = "nothing"
    /\ asking' = "containers"
    /\ UNCHANGED <<stream, reader, logView, logTab, openTabs, frontTab, restarts,
                   leaving, logSession, lost, forsaken>>

\* \ on a group: loadPodsForLogAction.
AskPods ==
    /\ ~leaving /\ logView.mode = "logs" /\ asking = "nothing"
    /\ asking' = "pods"
    /\ stream' = Cancelled(Unheld(logView))
    /\ logView' = [logView EXCEPT !.ch = NoStream, !.cancel = NoStream]
    /\ UNCHANGED <<reader, logTab, openTabs, frontTab, restarts, leaving, logSession,
                   lost, forsaken>>

Saved == [logTab EXCEPT ![frontTab] = logView]

\* saveCurrentTab and loadTab; the switch arms a reader in the viewer, but for
\* the explorer's own key (handleExplorerActionKeyNextTab).
SwitchTab(t) ==
    /\ ~leaving /\ t \in openTabs \ {frontTab}
    /\ logTab' = Saved /\ frontTab' = t /\ logView' = logTab[t]
    /\ \/ /\ logTab[t].mode = "logs" /\ logTab[t].ch # NoStream
          /\ reader' = [reader EXCEPT ![logTab[t].ch] = ArmedIfIdle(@)]
       \/ /\ logTab[t].ch = NoStream \/ logView.mode = "explorer"
          /\ UNCHANGED reader
    /\ UNCHANGED <<stream, openTabs, restarts, asking, leaving, logSession, lost,
                   forsaken>>

\* saveCurrentSession, with most steps of the explorer: until then the saved
\* state of the tab in front is an older one.
SaveSession ==
    /\ ~leaving /\ logView.mode = "explorer"
    /\ logTab' = Saved
    /\ UNCHANGED <<stream, reader, logView, openTabs, frontTab, restarts, asking,
                   leaving, logSession, lost, forsaken>>

\* switchToSession, from the explorer: saved as well, and the session that was
\* chosen is restored once the contexts have been loaded again.
AskSession ==
    /\ ~leaving /\ logView.mode = "explorer"
    /\ logTab' = Saved /\ logSession' = TRUE
    /\ UNCHANGED <<stream, reader, logView, openTabs, frontTab, restarts, asking,
                   leaving, lost, forsaken>>

\* restoreMultiTabSession, in whatever mode the tab in front is by then: it gets
\* tabs of its own, what is on the screen stays, and so do the streams of the
\* tabs that are gone.  A session without tabs, or whose context is missing,
\* leaves them all.
HeldBehind == UNION {Unheld(logTab[t]) : t \in openTabs \ {frontTab}}
RestoreSession ==
    /\ ~leaving /\ logSession /\ logSession' = FALSE
    /\ \/ /\ openTabs' \in SUBSET LogTabs /\ frontTab' \in openTabs'
          /\ logTab' = [t \in LogTabs |-> Explorer]
          /\ forsaken' = forsaken \cup {s \in HeldBehind : ~stream[s].cancelled}
       \/ UNCHANGED <<logTab, openTabs, frontTab, forsaken>>
    /\ UNCHANGED <<stream, reader, logView, restarts, asking, leaving, lost>>

\* A new tab starts in the explorer, with no stream of its own.
NewTab(t) ==
    /\ ~leaving /\ t \notin openTabs
    /\ openTabs' = openTabs \cup {t} /\ frontTab' = t
    /\ logTab' = [Saved EXCEPT ![t] = Explorer] /\ logView' = Explorer
    /\ UNCHANGED <<stream, reader, restarts, asking, leaving, logSession, lost,
                   forsaken>>

\* closeTabOrQuit with another tab: cancelActiveTabLogStreams and loadTab.
CancelledByClose == Unheld(logView)
CloseTab(t) ==
    /\ ~leaving /\ t \in openTabs \ {frontTab}
    /\ stream' = Cancelled(CancelledByClose)
    /\ openTabs' = openTabs \ {frontTab} /\ frontTab' = t /\ logView' = logTab[t]
    /\ logTab' = [logTab EXCEPT ![frontTab] = Explorer]
    /\ UNCHANGED <<reader, restarts, asking, leaving, logSession, lost, forsaken>>

\* Ctrl+C in the viewer of the last tab: the stream is cancelled before the
\* user is asked, who may stay.
InterruptLast ==
    /\ ~leaving /\ logView.mode = "logs" /\ openTabs = {frontTab}
    /\ stream' = Cancelled(Unheld(logView))
    /\ UNCHANGED <<reader, logView, logTab, openTabs, frontTab, restarts, asking,
                   leaving, logSession, lost, forsaken>>

\* beginShutdown: cancelAllTabLogStreams, and the model is frozen.
Leave ==
    /\ ~leaving /\ leaving' = TRUE
    /\ stream' = Cancelled(Unheld(logView) \cup UNION {Unheld(logTab[t]) : t \in openTabs})
    /\ logView' = [logView EXCEPT !.cancel = NoStream]
    /\ logTab' = [t \in LogTabs |-> [logTab[t] EXCEPT !.cancel = NoStream]]
    /\ UNCHANGED <<reader, openTabs, frontTab, restarts, asking, logSession, lost,
                   forsaken>>

LogStreamsNext ==
    \/ \E s \in LogStreams : \/ Emit(s) \/ CloseStream(s) \/ Receive(s) \/ HandleLine(s)
                             \/ HandleDone(s) \/ HandleRestart(s)
    \/ \E t \in LogTabs : SwitchTab(t) \/ NewTab(t) \/ CloseTab(t)
    \/ OpenLogs \/ QuitLogs \/ RestartLogs \/ AskContainers \/ AskPods
    \/ ContainersAnswered \/ PodsAnswered \/ SaveSession \/ AskSession \/ RestoreSession
    \/ InterruptLast \/ Leave

LogStreamsSpec == LogStreamsInit /\ [][LogStreamsNext]_logVars

-----------------------------------------------------------------------------
(* Properties.                                                             *)

Outstanding(s) == reader[s].waiting + reader[s].lines + reader[s].dones

\* A channel has one reader at most, and logReaderInFlight says when: the
\* lines of a stream are handled in the order in which they were sent, however
\* the user switches tabs (app.go:312-319, commands_logs.go:367-377).
SingleReader ==
    \A s \in LogStreams : Outstanding(s) = IF reader[s].armed THEN 1 ELSE 0

\* The stream a tab shows, or will show again, is read to its end: without a
\* reader its goroutine blocks on the full channel and the view stands still
\* (update_exec_log_msgs.go:96-117).
ShownBy(t) == IF t = frontTab THEN logView.ch ELSE logTab[t].ch
NoStreamStalls ==
    \A t \in openTabs : ShownBy(t) # NoStream =>
        Outstanding(ShownBy(t)) > 0 \/ reader[ShownBy(t)].over

\* A kubectl that runs can be stopped, or has been: the tab that shows the
\* stream has its cancel function, and closing the tab or the program uses it
\* (update_actions_misc.go:95-123).  There are two exceptions.  An answer to \
\* that comes late, or names one container only, starts a stream over one that
\* runs (update_pod_msgs.go:178-195): those are in lost.  A switch of the session
\* drops the tabs behind with what they hold (update_bookmarks_session.go:243):
\* those are in forsaken.  The end of the program does not reach either, though
\* its comment says that none outlives it (update_actions_misc.go:110-113).
HasHolder(s) == logView.cancel = s \/ \E t \in openTabs \ {frontTab} : logTab[t].cancel = s
NoStreamLeaks ==
    \A s \in LogStreams \ (lost \cup forsaken) :
        stream[s].pc = "live" => stream[s].cancelled \/ HasHolder(s)
=============================================================================
