------------------------------ MODULE LogPreview ------------------------------
(***************************************************************************)
(* The live-log preview of the right pane (src/internal/app/previewlog.go):*)
(* one stream for the row under the cursor, whose buffer is kept for each  *)
(* pod while other rows are looked at, and older lines on request.         *)
(*                                                                         *)
(* Goroutines: the Update loop, one per stream, one per armed reader, one  *)
(* per fetch of older lines.  Of the lines only whose they are is kept.  A *)
(* reader is armed by a start and by its own line, and readerInFlight is   *)
(* reset before both; its read and its message are one step, for the       *)
(* handler asks only which stream it was of.  A tick of the debounce may be*)
(* due at any time: the cursor may have been moved and moved back.  BOUND: *)
(* one cluster, no union view, kubectl is installed.                       *)
(***************************************************************************)
EXTENDS Naturals, Sequences, Lanes

CONSTANTS
    Pods,          \* rows with a podRef: pods, or containers of one
    NoPod,         \* podKey = "", and a row that is neither
    MaxPreviews,   \* BOUND: streams that exist at a time
    MaxFetches,    \* BOUND: fetches of older lines of one pod under way
    MaxAttempts,   \* logAutoReconnectMaxAttempts
    PreviewCacheMax \* previewLogCacheMax

ASSUME LogPreviewAssumption ==
    /\ NoPod \notin Pods
    /\ MaxPreviews \in Nat /\ MaxFetches \in Nat
    /\ MaxAttempts \in Nat /\ PreviewCacheMax \in Nat \ {0}

Previews == 1 .. MaxPreviews
NoPreview == 0                 \* a nil channel

VARIABLES
    previewOn,    \* m.fullLogPreview
    cursorPod,    \* selectedPodForLogPreview
    preview,      \* m.previewLog: the cancel function goes with ch
    previewCache, \* previewLogCache in the order of previewLogCacheOrder
    tail,         \* stream -> its goroutine, its channel and its reader
    older,        \* pod -> fetches of older lines under way
    inherited     \* history: the pane took loadingHistory over from another pod

previewVars == <<previewOn, cursorPod, preview, previewCache, tail, older, inherited>>

Rows == Pods \cup {NoPod}
CacheEntries == [pod : Pods, lines : SUBSET Pods, more : BOOLEAN]

LogPreviewTypeOK ==
    /\ previewOn \in BOOLEAN /\ cursorPod \in Rows
    /\ preview \in [ch : Previews \cup {NoPreview}, key : Rows, lines : SUBSET Pods,
                    more : BOOLEAN, loading : BOOLEAN, attempts : 0 .. MaxAttempts]
    /\ previewCache \in Seq(CacheEntries)
    /\ tail \in [Previews -> [pc : {"none", "live", "closed"}, pod : Rows,
                              cancelled : BOOLEAN,
                              reader : {"none", "waiting", "due", "over"}]]
    /\ older \in [Pods -> 0 .. MaxFetches]
    /\ inherited \in BOOLEAN

Blank == [ch |-> NoPreview, key |-> NoPod, lines |-> {}, more |-> FALSE,
          loading |-> FALSE, attempts |-> 0]

LogPreviewInit ==
    /\ previewOn \in BOOLEAN /\ cursorPod \in Rows
    /\ preview = Blank /\ previewCache = <<>>
    /\ tail = [s \in Previews |-> [pc |-> "none", pod |-> NoPod, cancelled |-> FALSE,
                                   reader |-> "none"]]
    /\ older = [p \in Pods |-> 0] /\ inherited = FALSE

-----------------------------------------------------------------------------
(* The goroutine of a stream.                                              *)

TailEnds(s) ==
    /\ tail[s].pc = "live"
    /\ tail' = [tail EXCEPT ![s].pc = "closed"]
    /\ UNCHANGED <<previewOn, cursorPod, preview, previewCache, older, inherited>>

-----------------------------------------------------------------------------
(* What the handlers share.                                                *)

KeptIn(c) == {c[i] : i \in 1 .. Len(c)}
Refreshed(c, e) == Append(Without(c, {x \in KeptIn(c) : x.pod = e.pod}), e)

\* cachePreviewLog.
CacheWithPreview ==
    IF preview.key = NoPod \/ preview.lines = {} THEN previewCache
    ELSE LET c == Refreshed(previewCache, [pod |-> preview.key, lines |-> preview.lines,
                                           more |-> preview.more])
         IN  IF Len(c) > PreviewCacheMax THEN Tail(c) ELSE c

\* stopPreviewStream, on the streams as t has them.
Stopped(t) == [s \in Previews |-> [t[s] EXCEPT !.cancelled = @ \/ s = preview.ch]]

\* cancelPreviewLogStream.
AfterCancel_keepsKey == [Blank EXCEPT !.key = preview.key]
AfterCancel == Blank
CancelPreview ==
    /\ tail' = Stopped(tail) /\ preview' = AfterCancel /\ inherited' = FALSE

\* A number is given again when nothing is left of the stream that had it.
FreeTails == {s \in Previews : \/ tail[s].pc = "none"
                                \/ /\ tail[s].pc = "closed" /\ tail[s].reader = "over"
                                   /\ s # preview.ch}

\* startPreviewLogStream for p, on the streams of t, in a pane that shows this.
StartTail(p, pane, t) ==
    LET n == CHOOSE s \in FreeTails : TRUE IN
    /\ FreeTails # {}
    /\ tail' = [Stopped(t) EXCEPT ![n] = [pc |-> "live", pod |-> p, cancelled |-> FALSE,
                                          reader |-> "waiting"]]
    /\ preview' = [pane EXCEPT !.ch = n, !.key = p]

\* A start that resets nothing hands loadingHistory on to the pod it is for.
Inherits(p, pane) == pane.loading /\ (inherited \/ p # pane.key)

\* enterPreviewLogPod: a buffer that was kept is restored, and the stream gives
\* the lines that follow; or a fresh start.
EnterPod(p, pane) ==
    LET c == CacheWithPreview IN
    \/ \E e \in KeptIn(c) :
        /\ e.pod = p
        /\ StartTail(p, [pane EXCEPT !.lines = e.lines, !.more = e.more], tail)
        /\ previewCache' = Refreshed(c, e) /\ inherited' = Inherits(p, pane)
    \/ /\ \A e \in KeptIn(c) : e.pod # p
       /\ StartTail(p, [Blank EXCEPT !.more = TRUE], tail)
       /\ previewCache' = c /\ inherited' = FALSE

\* maybeRestartOrCancelPreviewLog, with this row and pane.
Settle(row, pane) ==
    \/ /\ row = NoPod
       /\ CancelPreview /\ previewCache' = CacheWithPreview
    \/ /\ row # NoPod /\ row # pane.key
       /\ EnterPod(row, pane)

-----------------------------------------------------------------------------
(* Messages.                                                               *)

\* updatePreviewLogLine with a line, which the reader took from the channel at
\* some time before: after the end of the stream there may be some left in it.
LineArrives(s) ==
    /\ tail[s].reader = "waiting"
    /\ \/ /\ s = preview.ch
          /\ preview' = [preview EXCEPT !.lines = @ \cup {tail[s].pod}, !.attempts = 0]
          /\ UNCHANGED tail
       \/ /\ s # preview.ch
          /\ tail' = [tail EXCEPT ![s].reader = "over"]
          /\ UNCHANGED preview
    /\ UNCHANGED <<previewOn, cursorPod, previewCache, older, inherited>>

\* updatePreviewLogLine with the end of the stream.
Reconnects(s) ==
    /\ s = preview.ch /\ previewOn /\ preview.attempts < MaxAttempts
    /\ cursorPod # NoPod /\ cursorPod = preview.key

EndArrives(s) ==
    /\ tail[s].pc = "closed" /\ tail[s].reader = "waiting"
    /\ \/ /\ Reconnects(s)
          /\ preview' = [preview EXCEPT !.attempts = @ + 1]
          /\ tail' = [tail EXCEPT ![s].reader = "due"]
       \/ /\ ~Reconnects(s)
          /\ tail' = [tail EXCEPT ![s].reader = "over"]
          /\ UNCHANGED preview
    /\ UNCHANGED <<previewOn, cursorPod, previewCache, older, inherited>>

\* updatePreviewLogRestart: the stream is the one that ended, the row is
\* whichever the cursor is on by now.
Restarts(s) == previewOn /\ s = preview.ch /\ cursorPod # NoPod

RestartDue(s) ==
    /\ tail[s].reader = "due"
    /\ \/ /\ Restarts(s)
          /\ StartTail(cursorPod, preview, [tail EXCEPT ![s].reader = "over"])
          /\ inherited' = Inherits(cursorPod, preview)
       \/ /\ ~Restarts(s)
          /\ tail' = [tail EXCEPT ![s].reader = "over"]
          /\ UNCHANGED <<preview, inherited>>
    /\ UNCHANGED <<previewOn, cursorPod, previewCache, older>>

\* updatePreviewLogHistory: an error or nothing older, some older lines, or the
\* last there are or may be kept.
WithOlder(p, more) == [preview EXCEPT !.loading = FALSE, !.more = more, !.lines = @ \cup {p}]
WithoutOlder_loading == [preview EXCEPT !.more = FALSE]
WithoutOlder == [preview EXCEPT !.loading = FALSE, !.more = FALSE]
IsOfPane(p) == previewOn /\ p = preview.key

OlderArrive(p) ==
    /\ older[p] > 0 /\ older' = [older EXCEPT ![p] = @ - 1]
    /\ \/ /\ IsOfPane(p)
          /\ \/ preview' = WithoutOlder
             \/ \E more \in {FALSE, preview.more} : preview' = WithOlder(p, more)
          /\ inherited' = FALSE
       \/ /\ ~IsOfPane(p)
          /\ UNCHANGED <<preview, inherited>>
    /\ UNCHANGED <<previewOn, cursorPod, previewCache, tail>>

-----------------------------------------------------------------------------
(* Keys, clicks and refreshes.                                             *)

\* j, k and the wheel; pages, clicks, search and filter; a refresh, or a session
\* that is restored (restoreSingleTabSession), that puts another row under the
\* cursor.
MoveCursor(row) ==
    /\ row # cursorPod /\ cursorPod' = row
    /\ UNCHANGED <<previewOn, preview, previewCache, tail, older, inherited>>

\* updatePreviewDebounceTick, a while after the last j, k or wheel.
CursorRests ==
    /\ previewOn /\ Settle(cursorPod, preview)
    /\ UNCHANGED <<previewOn, cursorPod, older>>

\* handleExplorerToggleLogPreview.
ToggleLogs ==
    /\ previewOn' = ~previewOn
    /\ \/ /\ previewOn
          /\ CancelPreview /\ previewCache' = CacheWithPreview
       \/ /\ ~previewOn /\ cursorPod # NoPod
          /\ EnterPod(cursorPod, preview)
       \/ /\ ~previewOn /\ cursorPod = NoPod
          /\ UNCHANGED <<preview, previewCache, tail, inherited>>
    /\ UNCHANGED <<cursorPod, older>>

\* handleExplorerTogglePreview and handleExplorerResourceMap.
OtherPreview ==
    /\ previewOn' = FALSE /\ CancelPreview
    /\ UNCHANGED <<cursorPod, previewCache, older>>

\* K and the wheel at the top: maybeLoadMorePreviewHistory.
ScrollToTop ==
    /\ previewOn /\ preview.more /\ ~preview.loading
    /\ cursorPod # NoPod /\ cursorPod = preview.key /\ older[cursorPod] < MaxFetches
    /\ preview' = [preview EXCEPT !.loading = TRUE]
    /\ older' = [older EXCEPT ![cursorPod] = @ + 1]
    /\ UNCHANGED <<previewOn, cursorPod, previewCache, tail, inherited>>

\* saveCurrentTab and loadTab of a tab with this flag and row: the switch
\* settles the pane in the full-screen views (handleTabSwitchKey), and does not
\* in the explorer and the terminal, with the mouse or on a close.  A drill or
\* a change of namespace saves the tab as well (saveCurrentSession) and puts
\* the cursor on a row of the new list; switchToSession saves it and no more.
ChangeTab(on, row) ==
    /\ previewOn' = on /\ cursorPod' = row
    /\ \/ CancelPreview /\ previewCache' = CacheWithPreview
       \/ on /\ Settle(row, AfterCancel)
    /\ UNCHANGED older

\* navigateChildCluster: the buffers are of the cluster that is left.
EnterCluster ==
    /\ previewOn' = FALSE /\ CancelPreview /\ previewCache' = <<>>
    /\ cursorPod' = NoPod
    /\ UNCHANGED older

LogPreviewNext ==
    \/ \E s \in Previews : \/ TailEnds(s) \/ LineArrives(s)
                           \/ EndArrives(s) \/ RestartDue(s)
    \/ \E row \in Rows : MoveCursor(row) \/ \E on \in BOOLEAN : ChangeTab(on, row)
    \/ \E p \in Pods : OlderArrive(p)
    \/ CursorRests \/ ToggleLogs \/ OtherPreview \/ ScrollToTop \/ EnterCluster

LogPreviewSpec == LogPreviewInit /\ [][LogPreviewNext]_previewVars

-----------------------------------------------------------------------------
(* Properties.                                                             *)

\* A pane that has a pod has a stream for it, which is read until it has ended,
\* and no other runs: the dedup by podKey leaves a pane alone whose key is that
\* of the row, so a key without a reader would stay still for good
\* (previewlog.go:384-390, update_dispatch_msgs.go:183-188).
PreviewIsRead ==
    /\ preview.key = NoPod <=> preview.ch = NoPreview
    /\ preview.ch # NoPreview =>
         \/ tail[preview.ch].reader = "waiting"
         \/ tail[preview.ch].pc = "closed"
    /\ \A s \in Previews : tail[s].pc = "live" => tail[s].cancelled \/ s = preview.ch

\* A pane that waits for older lines of its pod has a fetch under way, or it
\* asks for no others ever (maybeLoadMorePreviewHistory).  What it took over
\* from another pod with a restored buffer or a late restart is an exception:
\* the answer to that pod's fetch is dropped (previewlog.go:662-668).
LoadingIsAwaited ==
    preview.loading /\ ~inherited => preview.key # NoPod /\ older[preview.key] > 0

\* The lines that are shown, and those that are kept for later, are of the pod
\* they are shown and kept for.
PreviewShowsItsPod ==
    /\ preview.lines \subseteq {preview.key}
    /\ \A e \in KeptIn(previewCache) : e.lines \subseteq {e.pod}
=============================================================================
