------------------------------ MODULE PaneProofs ------------------------------
(***************************************************************************)
(* Proofs about the embedded terminals and the log preview, for any number *)
(* of tabs, terminals, rows, streams and fetches.                          *)
(*                                                                         *)
(* Terminals: that every open one is held by one tab is inductive with the *)
(* types.  That the one on the screen is refreshed needs that a view in    *)
(* exec mode has a PTY, or the tick would be armed for none (ModesMatch).  *)
(*                                                                         *)
(* The preview: a reader waits for its restart only when its stream has    *)
(* ended (DueIsOver), and a pane that is off waits for nothing (OffIsIdle),*)
(* for an answer that comes while it is off is dropped.                    *)
(***************************************************************************)
EXTENDS ExecTerminals, LogPreview, LaneProofs

-----------------------------------------------------------------------------
(* Terminals.                                                              *)

\* A view is in exec mode when it has a PTY, until the program ends.
Matches(v) == v.mode = "exec" <=> v.pty # NoPty
ModesMatch == ~ended => Matches(term) /\ \A t \in TermTabs : Matches(termTab[t])

TermInv == TermTypeOK /\ ModesMatch /\ TerminalsStayUsable

LEMMA NoPtyIsNone == NoPty \notin Ptys
  BY DEF NoPty, Ptys

LEMMA TermInitial == TermInit => TermInv
  <1> SUFFICES ASSUME TermInit PROVE TermInv
    OBVIOUS
  <1> USE ExecTerminalsAssumption, NoPtyIsNone DEF TermInit, NoTerminal
  <1>1. TermTypeOK
    BY DEF TermTypeOK, TermViews
  <1>2. ModesMatch
    BY DEF ModesMatch, Matches
  <1>3. TerminalsStayUsable
    BY DEF TerminalsStayUsable, TerminalsAreHeld, ScreenIsRefreshed, ShownTerm
  <1> QED
    BY <1>1, <1>2, <1>3 DEF TermInv

\* Every step keeps the types.
LEMMA TermTypes ==
  ASSUME TermTypeOK, TermNext
  PROVE  TermTypeOK'
  <1> USE NoPtyIsNone DEF TermTypeOK, TermViews, NoTerminal
  <1>1. ASSUME NEW p \in Ptys, AskTerminal(p) \/ StartPty(p) \/ ProcessEnds(p)
        PROVE  TermTypeOK'
    <2>1. CASE AskTerminal(p)
      BY <2>1 DEF AskTerminal
    <2>2. CASE StartPty(p)
      BY <2>2 DEF StartPty
    <2>3. CASE ProcessEnds(p)
      BY <2>3 DEF ProcessEnds
    <2> QED
      BY <1>1, <2>1, <2>2, <2>3
  <1>2. ASSUME NEW p \in Ptys, HandleStart(p)
        PROVE  TermTypeOK'
    <2>1. HeldBy(term) \subseteq Ptys
      BY DEF HeldBy
    <2> QED
      BY <1>2, <2>1 DEF HandleStart
  <1>3. CASE HandleTick \/ TypeFilter \/ SaveTerms
    BY <1>3 DEF HandleTick, TypeFilter, SaveTerms, SavedTerms
  <1>4. CASE ExitTerminal
    BY <1>4 DEF ExitTerminal, Closed
  <1>5. ASSUME NEW t \in TermTabs, SwitchTerm(t) \/ OpenTermTab(t)
        PROVE  TermTypeOK'
    <2>1. SavedTerms \in [TermTabs -> TermViews]
      BY DEF SavedTerms
    <2>2. CASE SwitchTerm(t)
      <3>1. tick' \in Ptys \cup {NoPty}
        BY <2>2 DEF SwitchTerm, Tick
      <3> QED
        BY <2>1, <2>2, <3>1 DEF SwitchTerm
    <2>3. CASE OpenTermTab(t)
      BY <2>1, <2>3 DEF OpenTermTab
    <2> QED
      BY <1>5, <2>2, <2>3
  <1>6. ASSUME NEW t \in TermTabs, CloseTermTab(t)
        PROVE  TermTypeOK'
    <2>1. HeldBy(term) \subseteq Ptys
      BY DEF HeldBy
    <2> QED
      BY <1>6, <2>1 DEF CloseTermTab
  <1>7. CASE EndTerms
    BY <1>7 DEF EndTerms, Closed
  <1>8. CASE AskTermSession
    BY <1>8 DEF AskTermSession, SavedTerms
  <1>9. CASE RestoreTermSession
    <2>1. HeldInTabsBehind \subseteq Ptys
      BY DEF HeldInTabsBehind, HeldBy
    <2>2. [t \in TermTabs |-> NoTerminal] \in [TermTabs -> TermViews]
      BY DEF TermViews, NoTerminal
    <2>3. /\ termTab' \in [TermTabs -> TermViews] /\ dropped' \subseteq Ptys
          /\ termOpen' \subseteq TermTabs /\ termFront' \in termOpen'
          /\ typing' \in BOOLEAN
      BY <1>9, <2>1, <2>2 DEF RestoreTermSession
    <2> QED
      BY <1>9, <2>3 DEF RestoreTermSession
  <1> QED
    BY <1>1, <1>2, <1>3, <1>4, <1>5, <1>6, <1>7, <1>8, <1>9 DEF TermNext

\* A PTY goes with the mode, in front and behind.
LEMMA ModesStep ==
  ASSUME TermTypeOK, ModesMatch, TermNext
  PROVE  ModesMatch'
  <1> USE NoPtyIsNone DEF ModesMatch, Matches
  <1>1. CASE \E p \in Ptys : AskTerminal(p) \/ StartPty(p) \/ ProcessEnds(p)
    BY <1>1 DEF AskTerminal, StartPty, ProcessEnds
  <1>2. CASE HandleTick \/ TypeFilter \/ ExitTerminal \/ \E p \in Ptys : HandleStart(p)
    BY <1>2 DEF HandleTick, TypeFilter, ExitTerminal, HandleStart, NoTerminal
  <1>3. CASE SaveTerms \/ \E t \in TermTabs : SwitchTerm(t)
    BY <1>3 DEF SaveTerms, SwitchTerm, SavedTerms, TermTypeOK
  <1>4. CASE \E t \in TermTabs : OpenTermTab(t) \/ CloseTermTab(t)
    BY <1>4 DEF OpenTermTab, CloseTermTab, SavedTerms, NoTerminal, TermTypeOK
  <1>5. CASE EndTerms
    BY <1>5 DEF EndTerms
  <1>6. CASE AskTermSession
    BY <1>6 DEF AskTermSession, SavedTerms, TermTypeOK
  <1>7. CASE RestoreTermSession
    <2>1. term' = term /\ ended' = ended
      BY <1>7 DEF RestoreTermSession
    <2>2. CASE UNCHANGED termTab
      BY <2>1, <2>2
    <2>3. CASE termTab' = [t \in TermTabs |-> NoTerminal]
      BY <2>1, <2>3 DEF NoTerminal
    <2> QED
      BY <1>7, <2>2, <2>3 DEF RestoreTermSession
  <1> QED
    BY <1>1, <1>2, <1>3, <1>4, <1>5, <1>6, <1>7 DEF TermNext

\* An open terminal stays in one open tab, and no tab shows a closed one.
LEMMA HeldStep ==
  ASSUME TermTypeOK, TerminalsAreHeld, TermNext
  PROVE  TerminalsAreHeld'
  <1> USE NoPtyIsNone DEF TerminalsAreHeld, ShownTerm
  <1>1. ASSUME NEW p \in Ptys, AskTerminal(p) \/ StartPty(p) \/ ProcessEnds(p)
        PROVE  TerminalsAreHeld'
    <2>1. UNCHANGED <<term, termTab, termOpen, termFront, dropped>>
      BY <1>1 DEF AskTerminal, StartPty, ProcessEnds
    <2>2. \A q \in Ptys : pty'[q].pc = "open" <=> pty[q].pc = "open"
      BY <1>1 DEF AskTerminal, StartPty, ProcessEnds, TermTypeOK
    <2>3. \A t \in termOpen : ShownTerm(t).pty # NoPty => ShownTerm(t).pty \in Ptys
      BY DEF TermTypeOK, TermViews
    <2> QED
      BY <2>1, <2>2, <2>3
  <1>2. ASSUME NEW p \in Ptys, HandleStart(p)
        PROVE  TerminalsAreHeld'
    <2>1. \A t \in termOpen : ShownTerm(t).pty # p
      BY <1>2 DEF HandleStart
    <2>2. \A t \in termOpen : ShownTerm(t).pty # NoPty => ShownTerm(t).pty \in Ptys
      BY DEF TermTypeOK, TermViews
    <2>3. \A q \in Ptys : pty'[q].pc = IF q = p THEN "open" ELSE pty[q].pc
      BY <1>2 DEF HandleStart, TermTypeOK
    <2> QED
      BY <1>2, <2>1, <2>2, <2>3 DEF HandleStart, HeldBy, TermTypeOK
  <1>3. CASE HandleTick \/ TypeFilter
    BY <1>3 DEF HandleTick, TypeFilter
  <1>4. CASE SaveTerms \/ AskTermSession
    BY <1>4 DEF SaveTerms, AskTermSession, SavedTerms, TermTypeOK
  <1>5. CASE ExitTerminal
    <2>1. \A q \in Ptys : pty'[q].pc = IF q = term.pty THEN "closed" ELSE pty[q].pc
      BY <1>5 DEF ExitTerminal, Closed, HeldBy, TermTypeOK
    <2>2. \A t \in termOpen : ShownTerm(t).pty # NoPty => ShownTerm(t).pty \in Ptys
      BY DEF TermTypeOK, TermViews
    <2> QED
      BY <1>5, <2>1, <2>2 DEF ExitTerminal, NoTerminal, TermTypeOK
  <1>6. ASSUME NEW t \in TermTabs, SwitchTerm(t)
        PROVE  TerminalsAreHeld'
    <2>1. \A u \in termOpen : ShownTerm(u)' = ShownTerm(u)
      BY <1>6 DEF SwitchTerm, SavedTerms, TermTypeOK
    <2> QED
      BY <1>6, <2>1 DEF SwitchTerm
  <1>7. ASSUME NEW t \in TermTabs, OpenTermTab(t)
        PROVE  TerminalsAreHeld'
    <2>1. \A u \in termOpen : ShownTerm(u)' = ShownTerm(u)
      BY <1>7 DEF OpenTermTab, SavedTerms, TermTypeOK
    <2>2. ShownTerm(t)'.pty = NoPty
      BY <1>7 DEF OpenTermTab, NoTerminal
    <2> QED
      BY <1>7, <2>1, <2>2 DEF OpenTermTab
  <1>8. ASSUME NEW t \in TermTabs, CloseTermTab(t)
        PROVE  TerminalsAreHeld'
    <2>1. \A u \in termOpen' : u \in termOpen /\ ShownTerm(u)' = ShownTerm(u)
      BY <1>8 DEF CloseTermTab, TermTypeOK
    <2>2. dropped' = dropped \cup HeldBy(ShownTerm(termFront))
      BY <1>8 DEF CloseTermTab
    <2> QED
      BY <1>8, <2>1, <2>2 DEF CloseTermTab, HeldBy
  <1>9. CASE EndTerms
    <2>1. \A q \in Ptys : pty'[q].pc = "open" => pty[q].pc = "open" /\ q \notin ClosedAtEnd
      BY <1>9 DEF EndTerms, Closed, TermTypeOK
    <2>2. \A t \in termOpen, q \in Ptys : ShownTerm(t).pty = q => q \in ClosedAtEnd
      BY DEF ClosedAtEnd, HeldBy
    <2>3. \A t \in termOpen : ShownTerm(t)'.pty = NoPty
      BY <1>9 DEF EndTerms, TermTypeOK, TermViews
    <2>4. \A q \in Ptys \ dropped : pty'[q].pc # "open"
      BY <2>1, <2>2
    <2> QED
      BY <1>9, <2>3, <2>4 DEF EndTerms
  <1>10. CASE RestoreTermSession
    <2>1. CASE UNCHANGED <<termTab, termOpen, termFront, dropped>>
      BY <1>10, <2>1 DEF RestoreTermSession
    <2>2. CASE /\ termOpen' \in SUBSET TermTabs /\ termFront' \in termOpen'
               /\ termTab' = [t \in TermTabs |-> NoTerminal]
               /\ dropped' = dropped \cup HeldInTabsBehind
      <3>1. UNCHANGED <<pty, term>>
        BY <1>10 DEF RestoreTermSession
      <3>2. \A t \in termOpen' :
              ShownTerm(t)' = IF t = termFront' THEN term ELSE NoTerminal
        BY <2>2, <3>1 DEF ShownTerm
      <3>3. NoTerminal.pty = NoPty
        BY DEF NoTerminal
      <3>4. \A p \in Ptys \ dropped' : \A t \in termOpen :
              ShownTerm(t).pty = p => t = termFront
        BY <2>2 DEF HeldInTabsBehind, HeldBy
      <3>5. \A p \in Ptys \ dropped' : pty'[p].pc = "open" => term.pty = p
        BY <2>2, <3>1, <3>4
      <3>6. termFront \in termOpen /\ ShownTerm(termFront) = term
        BY DEF TermTypeOK
      <3>7. term.pty # NoPty => pty'[term.pty].pc = "open"
        BY <3>1, <3>6
      <3>8. termFront' \in termOpen'
        BY <2>2
      <3> HIDE DEF ShownTerm
      <3> QED
        BY <3>2, <3>3, <3>5, <3>7, <3>8
    <2> QED
      BY <1>10, <2>1, <2>2 DEF RestoreTermSession
  <1> QED
    BY <1>1, <1>2, <1>3, <1>4, <1>5, <1>6, <1>7, <1>8, <1>9, <1>10 DEF TermNext

\* The newest tick is for the terminal in front.
LEMMA RefreshStep ==
  ASSUME TermTypeOK, ModesMatch, ScreenIsRefreshed, TermNext
  PROVE  ScreenIsRefreshed'
  <1> USE NoPtyIsNone DEF ScreenIsRefreshed
  <1>1. CASE \E p \in Ptys : \/ AskTerminal(p) \/ StartPty(p) \/ ProcessEnds(p)
                             \/ HandleStart(p)
    BY <1>1 DEF AskTerminal, StartPty, ProcessEnds, HandleStart
  <1>2. CASE HandleTick \/ ExitTerminal \/ TypeFilter \/ SaveTerms \/ EndTerms
    BY <1>2 DEF HandleTick, TickIsFor, ExitTerminal, NoTerminal, TypeFilter, SaveTerms,
                EndTerms
  <1>3. ASSUME NEW t \in TermTabs, SwitchTerm(t)
        PROVE  ScreenIsRefreshed'
    BY <1>3 DEF SwitchTerm, Tick, ModesMatch, Matches
  <1>4. ASSUME NEW t \in TermTabs, OpenTermTab(t)
        PROVE  ScreenIsRefreshed'
    BY <1>4 DEF OpenTermTab, NoTerminal
  <1>5. ASSUME NEW t \in TermTabs, CloseTermTab(t)
        PROVE  ScreenIsRefreshed'
    <2>1. term'.mode = "exec" => still'
      BY <1>5 DEF CloseTermTab
    <2> QED
      BY <2>1
  <1>6. CASE AskTermSession \/ RestoreTermSession
    BY <1>6 DEF AskTermSession, RestoreTermSession
  <1> QED
    BY <1>1, <1>2, <1>3, <1>4, <1>5, <1>6 DEF TermNext

THEOREM TermAlwaysInv == TermSpec => []TermInv
  <1>1. TermInv /\ [TermNext]_termVars => TermInv'
    <2>1. ASSUME TermInv, TermNext PROVE TermInv'
      BY <2>1, TermTypes, ModesStep, HeldStep, RefreshStep
      DEF TermInv, TerminalsStayUsable
    <2>2. ASSUME TermInv, UNCHANGED termVars PROVE TermInv'
      BY <2>2 DEF termVars, TermInv, TermTypeOK, ModesMatch, Matches,
                  TerminalsStayUsable, TerminalsAreHeld, ScreenIsRefreshed, ShownTerm
    <2> QED
      BY <2>1, <2>2
  <1> QED
    BY TermInitial, <1>1, PTL DEF TermSpec

\* A terminal that was opened can be used and is closed with the program: it is
\* in one open tab until it is closed, or dropped by a late start, the close of a
\* tab or a switch of the session (update_bookmarks_session.go:243); and the one on the screen is refreshed (ptyexec.go,
\* update_exec_log_msgs.go:23-25).
THEOREM TerminalsAreUsable == TermSpec => []TerminalsStayUsable
  <1>1. TermInv => TerminalsStayUsable
    BY DEF TermInv
  <1> QED
    BY <1>1, TermAlwaysInv, PTL

-----------------------------------------------------------------------------
(* The log preview.                                                        *)

PreviewStates == [ch : Previews \cup {NoPreview}, key : Rows, lines : SUBSET Pods,
                  more : BOOLEAN, loading : BOOLEAN, attempts : 0 .. MaxAttempts]
TailStates == [pc : {"none", "live", "closed"}, pod : Rows, cancelled : BOOLEAN,
               reader : {"none", "waiting", "due", "over"}]

\* A restart is scheduled when a stream has ended.
DueIsOver == \A s \in Previews : tail[s].reader = "due" => tail[s].pc = "closed"

\* What is read is read for a pod.
ReadForAPod == \A s \in Previews : tail[s].reader # "none" => tail[s].pod \in Pods

\* A pane that is off waits for no older lines.
OffIsIdle == ~previewOn => ~preview.loading

PreviewInv ==
    /\ LogPreviewTypeOK /\ DueIsOver /\ ReadForAPod /\ OffIsIdle
    /\ PreviewIsRead /\ LoadingIsAwaited

LEMMA NoPreviewIsNone == NoPreview \notin Previews
  BY DEF NoPreview, Previews

LEMMA BlankState == Blank \in PreviewStates
  BY LogPreviewAssumption DEF Blank, PreviewStates, Rows

LEMMA PreviewInitial == LogPreviewInit => PreviewInv
  <1> SUFFICES ASSUME LogPreviewInit PROVE PreviewInv
    OBVIOUS
  <1> USE LogPreviewAssumption, NoPreviewIsNone DEF LogPreviewInit
  <1>1. LogPreviewTypeOK
    <2>1. preview \in PreviewStates
      BY BlankState
    <2>2. previewCache \in Seq(CacheEntries)
      OBVIOUS
    <2>3. tail \in [Previews -> TailStates]
      BY DEF TailStates, Rows
    <2>4. older \in [Pods -> 0 .. MaxFetches]
      OBVIOUS
    <2> QED
      BY <2>1, <2>2, <2>3, <2>4 DEF LogPreviewTypeOK, PreviewStates, TailStates
  <1>2. DueIsOver /\ ReadForAPod /\ OffIsIdle /\ PreviewIsRead /\ LoadingIsAwaited
    BY DEF DueIsOver, ReadForAPod, OffIsIdle, PreviewIsRead, LoadingIsAwaited, Blank
  <1> QED
    BY <1>1, <1>2 DEF PreviewInv

\* The buffers that are kept, with one more and without the oldest.
LEMMA RefreshedType ==
  ASSUME NEW c \in Seq(CacheEntries), NEW e \in CacheEntries
  PROVE  Refreshed(c, e) \in Seq(CacheEntries) /\ Refreshed(c, e) # << >>
  <1> DEFINE K == {x \in KeptIn(c) : x.pod = e.pod}
  <1>1. Without(c, K) \in Seq(CacheEntries)
    BY WithoutProperties
  <1>2. Append(Without(c, K), e) \in Seq(CacheEntries) /\ Append(Without(c, K), e) # << >>
    <2> HIDE DEF K
    <2> QED
      BY <1>1
  <1> QED
    BY <1>2 DEF Refreshed

LEMMA CacheType ==
  ASSUME LogPreviewTypeOK
  PROVE  CacheWithPreview \in Seq(CacheEntries)
  <1> DEFINE e == [pod |-> preview.key, lines |-> preview.lines, more |-> preview.more]
             c == Refreshed(previewCache, e)
  <1>1. CASE preview.key = NoPod \/ preview.lines = {}
    BY <1>1 DEF CacheWithPreview, LogPreviewTypeOK
  <1>2. CASE ~(preview.key = NoPod \/ preview.lines = {})
    <2>1. e \in CacheEntries
      BY <1>2 DEF CacheEntries, LogPreviewTypeOK, Rows
    <2>2. c \in Seq(CacheEntries) /\ c # << >>
      BY <2>1, RefreshedType DEF LogPreviewTypeOK
    <2>3. CacheWithPreview = IF Len(c) > PreviewCacheMax THEN Tail(c) ELSE c
      BY <1>2 DEF CacheWithPreview
    <2> HIDE DEF c
    <2>4. Tail(c) \in Seq(CacheEntries)
      BY <2>2
    <2> QED
      BY <2>2, <2>3, <2>4
  <1> QED
    BY <1>1, <1>2

\* What a step does to the streams and to the stream of the pane.
PreviewKeeps ==
    /\ tail' \in [Previews -> TailStates] /\ preview' \in PreviewStates
    /\ DueIsOver' /\ ReadForAPod' /\ PreviewIsRead'

\* stopPreviewStream cancels the stream of the pane and nothing else.
LEMMA StoppedStreams ==
  ASSUME NEW t \in [Previews -> TailStates]
  PROVE  /\ Stopped(t) \in [Previews -> TailStates]
         /\ \A s \in Previews :
              /\ Stopped(t)[s].pc = t[s].pc /\ Stopped(t)[s].reader = t[s].reader
              /\ Stopped(t)[s].pod = t[s].pod
              /\ Stopped(t)[s].cancelled <=> (t[s].cancelled \/ s = preview.ch)
  BY DEF Stopped, TailStates

\* The pane is emptied and its stream cancelled.
LEMMA CancelKeeps ==
  ASSUME PreviewInv, CancelPreview
  PROVE  PreviewKeeps /\ ~preview'.loading /\ inherited' = FALSE
  <1>1. tail \in [Previews -> TailStates]
    BY DEF PreviewInv, LogPreviewTypeOK, TailStates
  <1>2. tail' = Stopped(tail)
    BY DEF CancelPreview
  <1>3. /\ tail' \in [Previews -> TailStates]
        /\ \A s \in Previews :
             /\ tail'[s].pc = tail[s].pc /\ tail'[s].reader = tail[s].reader
             /\ tail'[s].pod = tail[s].pod
             /\ tail'[s].cancelled <=> (tail[s].cancelled \/ s = preview.ch)
    BY <1>1, <1>2, StoppedStreams
  <1>4. preview' = Blank
    BY DEF CancelPreview, AfterCancel
  <1>5. DueIsOver' /\ ReadForAPod' /\ PreviewIsRead'
    BY <1>3, <1>4 DEF PreviewInv, DueIsOver, ReadForAPod, PreviewIsRead, Blank
  <1> QED
    BY <1>3, <1>4, <1>5, BlankState DEF PreviewKeeps, CancelPreview, Blank

\* A stream is started for a pod, and the one of the pane cancelled; the reader
\* of some stream may have been given up just before.
LEMMA StartKeeps ==
  ASSUME PreviewInv, NEW p \in Pods, NEW pane \in PreviewStates,
         NEW t \in [Previews -> TailStates],
         \A s \in Previews : /\ t[s].pc = tail[s].pc /\ t[s].cancelled = tail[s].cancelled
                             /\ t[s].pod = tail[s].pod
                             /\ \/ t[s].reader = tail[s].reader
                                \/ t[s].reader = "over" /\ tail[s].reader # "none",
         StartTail(p, pane, t)
  PROVE  PreviewKeeps /\ preview'.loading = pane.loading /\ preview'.key = p
  <1> USE NoPreviewIsNone
  <1>1. PICK n \in Previews :
           /\ tail' = [Stopped(t) EXCEPT ![n] = [pc |-> "live", pod |-> p,
                                    cancelled |-> FALSE, reader |-> "waiting"]]
           /\ preview' = [pane EXCEPT !.ch = n, !.key = p]
    <2>1. PICK n \in FreeTails : n = CHOOSE s \in FreeTails : TRUE
      BY DEF StartTail
    <2> QED
      BY <2>1 DEF StartTail, FreeTails
  <1>2. /\ tail' \in [Previews -> TailStates]
        /\ tail'[n].pc = "live" /\ tail'[n].reader = "waiting" /\ ~tail'[n].cancelled
        /\ tail'[n].pod = p
        /\ \A s \in Previews \ {n} :
             /\ tail'[s].pc = t[s].pc /\ tail'[s].reader = t[s].reader
             /\ tail'[s].pod = t[s].pod
             /\ tail'[s].cancelled <=> (t[s].cancelled \/ s = preview.ch)
    <2>1. [pc |-> "live", pod |-> p, cancelled |-> FALSE, reader |-> "waiting"]
             \in TailStates
      BY DEF TailStates, Rows
    <2> QED
      BY <1>1, <2>1, StoppedStreams
  <1>3. preview' \in PreviewStates /\ preview'.ch = n /\ preview'.key = p
        /\ preview'.loading = pane.loading
    BY <1>1 DEF PreviewStates, Rows
  <1>4. DueIsOver' /\ ReadForAPod'
    BY <1>2 DEF PreviewInv, DueIsOver, ReadForAPod
  <1>5. PreviewIsRead'
    BY <1>2, <1>3, LogPreviewAssumption DEF PreviewInv, PreviewIsRead
  <1> QED
    BY <1>2, <1>3, <1>4, <1>5 DEF PreviewKeeps

\* A pod is entered with the pane as it is or emptied: what it waits for is its
\* own, or was inherited.
LEMMA EnterKeeps ==
  ASSUME PreviewInv, NEW p \in Pods, NEW pane \in {preview, AfterCancel},
         EnterPod(p, pane), UNCHANGED older
  PROVE  /\ PreviewKeeps /\ LoadingIsAwaited'
         /\ previewCache' \in Seq(CacheEntries) /\ inherited' \in BOOLEAN
  <1>1. pane \in PreviewStates /\ tail \in [Previews -> TailStates]
    BY BlankState DEF PreviewInv, LogPreviewTypeOK, PreviewStates, TailStates, AfterCancel
  <1>2. CacheWithPreview \in Seq(CacheEntries)
    BY CacheType DEF PreviewInv
  <1>3. CASE \E e \in KeptIn(CacheWithPreview) :
               /\ e.pod = p
               /\ StartTail(p, [pane EXCEPT !.lines = e.lines, !.more = e.more], tail)
               /\ previewCache' = Refreshed(CacheWithPreview, e)
               /\ inherited' = Inherits(p, pane)
    <2>1. PICK e \in KeptIn(CacheWithPreview) :
            /\ StartTail(p, [pane EXCEPT !.lines = e.lines, !.more = e.more], tail)
            /\ previewCache' = Refreshed(CacheWithPreview, e)
            /\ inherited' = Inherits(p, pane)
      BY <1>3
    <2>2. e \in CacheEntries
      BY <1>2, <2>1 DEF KeptIn
    <2>3. previewCache' \in Seq(CacheEntries)
      BY <1>2, <2>1, <2>2, RefreshedType
    <2> DEFINE restored == [pane EXCEPT !.lines = e.lines, !.more = e.more]
    <2>4. restored \in PreviewStates /\ restored.loading = pane.loading
      BY <1>1, <2>2 DEF PreviewStates, CacheEntries
    <2>5. PreviewKeeps /\ preview'.loading = pane.loading /\ preview'.key = p
      <3>1. StartTail(p, restored, tail)
        BY <2>1
      <3> HIDE DEF restored
      <3> QED
        BY <1>1, <2>4, <3>1, StartKeeps
    <2>6. LoadingIsAwaited'
      <3> SUFFICES ASSUME pane.loading, ~inherited' PROVE p \in Pods /\ older[p] > 0
        BY <2>5, LogPreviewAssumption DEF LoadingIsAwaited
      <3>1. ~inherited /\ p = pane.key
        BY <2>1 DEF Inherits
      <3>2. pane = preview
        BY DEF AfterCancel, Blank
      <3> QED
        BY <3>1, <3>2 DEF PreviewInv, LoadingIsAwaited
    <2> QED
      BY <2>1, <2>3, <2>5, <2>6 DEF Inherits
  <1>4. CASE /\ StartTail(p, [Blank EXCEPT !.more = TRUE], tail)
             /\ previewCache' = CacheWithPreview /\ inherited' = FALSE
    <2> DEFINE fresh == [Blank EXCEPT !.more = TRUE]
    <2>1. fresh \in PreviewStates /\ ~fresh.loading
      BY BlankState DEF PreviewStates, Blank
    <2>2. PreviewKeeps /\ ~preview'.loading
      <3>1. StartTail(p, fresh, tail)
        BY <1>4
      <3> HIDE DEF fresh
      <3> QED
        BY <1>1, <2>1, <3>1, StartKeeps
    <2> QED
      BY <1>2, <1>4, <2>2 DEF LoadingIsAwaited
  <1> QED
    BY <1>3, <1>4 DEF EnterPod

\* The pane is settled on a row.
LEMMA SettleKeeps ==
  ASSUME PreviewInv, NEW row \in Rows, NEW pane \in {preview, AfterCancel},
         Settle(row, pane), UNCHANGED older
  PROVE  /\ PreviewKeeps /\ LoadingIsAwaited'
         /\ previewCache' \in Seq(CacheEntries) /\ inherited' \in BOOLEAN
  <1>1. CASE row = NoPod /\ CancelPreview /\ previewCache' = CacheWithPreview
    BY <1>1, CancelKeeps, CacheType DEF PreviewInv, LoadingIsAwaited
  <1>2. CASE row # NoPod /\ EnterPod(row, pane)
    BY <1>2, EnterKeeps DEF Rows
  <1> QED
    BY <1>1, <1>2 DEF Settle

\* What the steps below keep, with the variables that no lemma above is about.
LEMMA PreviewParts ==
  ASSUME PreviewKeeps, LoadingIsAwaited', OffIsIdle', previewOn' \in BOOLEAN,
         cursorPod' \in Rows, previewCache' \in Seq(CacheEntries),
         older' \in [Pods -> 0 .. MaxFetches], inherited' \in BOOLEAN
  PROVE  PreviewInv'
  BY DEF PreviewKeeps, PreviewInv, LogPreviewTypeOK, PreviewStates, TailStates

\* Steps that leave the stream of the pane alone.
LEMMA SameStream ==
  ASSUME PreviewInv, preview' \in PreviewStates, tail' \in [Previews -> TailStates],
         preview'.ch = preview.ch, preview'.key = preview.key,
         \A s \in Previews :
            /\ tail'[s].cancelled = tail[s].cancelled /\ tail'[s].pod = tail[s].pod
            /\ tail'[s].pc = tail[s].pc \/ tail'[s].pc = "closed"
            /\ tail'[s].reader # "none" => tail[s].reader # "none"
            /\ \/ tail'[s].reader = tail[s].reader
               \/ tail'[s].pc = "closed"
               \/ s # preview.ch /\ tail'[s].reader # "due"
  PROVE  PreviewKeeps
  <1>1. DueIsOver' /\ ReadForAPod'
    BY DEF PreviewInv, DueIsOver, ReadForAPod
  <1>2. PreviewIsRead'
    BY NoPreviewIsNone DEF PreviewInv, PreviewIsRead, PreviewStates
  <1> QED
    BY <1>1, <1>2 DEF PreviewKeeps

LEMMA PreviewStep ==
  ASSUME PreviewInv, LogPreviewNext
  PROVE  PreviewInv'
  <1> USE NoPreviewIsNone
  <1>1. /\ preview \in PreviewStates /\ tail \in [Previews -> TailStates]
        /\ previewOn \in BOOLEAN /\ cursorPod \in Rows
        /\ previewCache \in Seq(CacheEntries) /\ inherited \in BOOLEAN
        /\ older \in [Pods -> 0 .. MaxFetches]
    BY DEF PreviewInv, LogPreviewTypeOK, PreviewStates, TailStates
  <1>2. OffIsIdle /\ LoadingIsAwaited
    BY DEF PreviewInv
  <1>3. ASSUME NEW s \in Previews, TailEnds(s)
        PROVE  PreviewInv'
    <2>1. PreviewKeeps
      BY <1>1, <1>3, SameStream DEF TailEnds, TailStates
    <2> QED
      BY <1>1, <1>2, <1>3, <2>1, PreviewParts DEF TailEnds, OffIsIdle, LoadingIsAwaited
  <1>4. ASSUME NEW s \in Previews, LineArrives(s)
        PROVE  PreviewInv'
    <2>1. preview' \in PreviewStates /\ preview'.ch = preview.ch
          /\ preview'.key = preview.key /\ preview'.loading = preview.loading
      <3>1. CASE s = preview.ch
        <4>1. preview.lines \cup {tail[s].pod} \in SUBSET Pods
          BY <1>1, <1>4 DEF LineArrives, PreviewInv, ReadForAPod, PreviewStates
        <4> QED
          <5>1. preview' = [preview EXCEPT !.lines = preview.lines \cup {tail[s].pod},
                                           !.attempts = 0]
            BY <1>4, <3>1 DEF LineArrives
          <5>2. 0 \in 0 .. MaxAttempts
            BY LogPreviewAssumption
          <5> QED
            BY <1>1, <4>1, <5>1, <5>2 DEF PreviewStates
      <3>2. CASE s # preview.ch
        BY <1>1, <1>4, <3>2 DEF LineArrives
      <3> QED
        BY <3>1, <3>2
    <2>2. PreviewKeeps
      <3>1. \/ UNCHANGED tail
            \/ s # preview.ch /\ tail' = [tail EXCEPT ![s].reader = "over"]
        BY <1>4 DEF LineArrives
      <3>2. tail' \in [Previews -> TailStates]
        BY <1>1, <3>1 DEF TailStates
      <3> QED
        BY <1>1, <1>4, <2>1, <3>1, <3>2, SameStream DEF LineArrives, TailStates
    <2> QED
      BY <1>1, <1>2, <1>4, <2>1, <2>2, PreviewParts
      DEF LineArrives, OffIsIdle, LoadingIsAwaited
  <1>5. ASSUME NEW s \in Previews, EndArrives(s)
        PROVE  PreviewInv'
    <2>1. preview' \in PreviewStates /\ preview'.ch = preview.ch
          /\ preview'.key = preview.key /\ preview'.loading = preview.loading
      <3>1. CASE /\ preview.attempts < MaxAttempts
                 /\ preview' = [preview EXCEPT !.attempts = preview.attempts + 1]
        <4>1. preview.attempts + 1 \in 0 .. MaxAttempts
          BY <1>1, <3>1, LogPreviewAssumption DEF PreviewStates
        <4> QED
          BY <1>1, <3>1, <4>1 DEF PreviewStates
      <3>2. CASE UNCHANGED preview
        BY <1>1, <3>2
      <3> QED
        BY <1>5, <3>1, <3>2 DEF EndArrives, Reconnects
    <2>2. PreviewKeeps
      <3>1. \E r \in {"due", "over"} : tail' = [tail EXCEPT ![s].reader = r]
        BY <1>5 DEF EndArrives
      <3>2. tail' \in [Previews -> TailStates]
        BY <1>1, <3>1 DEF TailStates
      <3> QED
        BY <1>1, <1>5, <2>1, <3>1, <3>2, SameStream DEF EndArrives
    <2> QED
      BY <1>1, <1>2, <1>5, <2>1, <2>2, PreviewParts
      DEF EndArrives, OffIsIdle, LoadingIsAwaited
  <1>6. ASSUME NEW s \in Previews, RestartDue(s)
        PROVE  PreviewInv'
    <2> DEFINE t == [tail EXCEPT ![s].reader = "over"]
    <2>1. CASE Restarts(s) /\ StartTail(cursorPod, preview, t)
               /\ inherited' = Inherits(cursorPod, preview)
      <3>1. /\ t \in [Previews -> TailStates]
            /\ \A u \in Previews :
                 /\ t[u].pc = tail[u].pc /\ t[u].cancelled = tail[u].cancelled
                 /\ t[u].pod = tail[u].pod
                 /\ \/ t[u].reader = tail[u].reader
                    \/ t[u].reader = "over" /\ tail[u].reader # "none"
        BY <1>1, <1>6 DEF RestartDue, TailStates
      <3>2. cursorPod \in Pods
        BY <1>1, <2>1 DEF Restarts, Rows
      <3>3. PreviewKeeps /\ preview'.loading = preview.loading /\ preview'.key = cursorPod
        <4>1. StartTail(cursorPod, preview, t)
          BY <2>1
        <4> HIDE DEF t
        <4> QED
          BY <1>1, <3>1, <3>2, <4>1, StartKeeps
      <3>4. LoadingIsAwaited'
        BY <1>2, <1>6, <2>1, <3>2, <3>3, LogPreviewAssumption
        DEF RestartDue, Inherits, LoadingIsAwaited
      <3> QED
        BY <1>1, <1>2, <1>6, <2>1, <3>3, <3>4, PreviewParts
        DEF RestartDue, Inherits, OffIsIdle
    <2>2. CASE ~Restarts(s) /\ tail' = t /\ UNCHANGED <<preview, inherited>>
      <3>1. tail[s].pc = "closed"
        BY <1>6 DEF RestartDue, PreviewInv, DueIsOver
      <3>2. PreviewKeeps
        BY <1>1, <1>6, <2>2, <3>1, SameStream DEF RestartDue, TailStates
      <3> QED
        BY <1>1, <1>2, <1>6, <2>2, <3>2, PreviewParts
        DEF RestartDue, OffIsIdle, LoadingIsAwaited
    <2> QED
      BY <1>6, <2>1, <2>2 DEF RestartDue
  <1>7. ASSUME NEW p \in Pods, OlderArrive(p)
        PROVE  PreviewInv'
    <2>1. older' \in [Pods -> 0 .. MaxFetches]
          /\ \A q \in Pods \ {p} : older'[q] = older[q]
      BY <1>1, <1>7, LogPreviewAssumption DEF OlderArrive
    <2>2. CASE IsOfPane(p) /\ inherited' = FALSE
               /\ \/ preview' = WithoutOlder
                  \/ \E more \in {FALSE, preview.more} : preview' = WithOlder(p, more)
      <3>1. preview' \in PreviewStates /\ preview'.ch = preview.ch
            /\ preview'.key = preview.key /\ ~preview'.loading
        <4>1. CASE preview' = WithoutOlder
          BY <1>1, <4>1 DEF WithoutOlder, PreviewStates
        <4>2. CASE \E more \in {FALSE, preview.more} : preview' = WithOlder(p, more)
          <5>1. PICK more \in BOOLEAN : preview' = WithOlder(p, more)
            BY <1>1, <4>2 DEF PreviewStates
          <5>2. preview.lines \cup {p} \in SUBSET Pods
            BY <1>1 DEF PreviewStates
          <5> QED
            BY <1>1, <5>1, <5>2 DEF WithOlder, PreviewStates
        <4> QED
          BY <2>2, <4>1, <4>2
      <3>2. PreviewKeeps
        BY <1>1, <1>7, <3>1, SameStream DEF OlderArrive
      <3> QED
        BY <1>1, <1>7, <2>1, <2>2, <3>1, <3>2, PreviewParts
        DEF OlderArrive, OffIsIdle, LoadingIsAwaited
    <2>3. CASE ~IsOfPane(p) /\ UNCHANGED <<preview, inherited>>
      <3>1. PreviewKeeps
        BY <1>1, <1>7, <2>3, SameStream DEF OlderArrive
      <3>2. LoadingIsAwaited'
        <4>1. preview.loading => previewOn /\ preview.key # p
          BY <1>2, <2>3 DEF IsOfPane, OffIsIdle
        <4>2. preview.key \in Pods \cup {NoPod}
          BY <1>1 DEF PreviewStates, Rows
        <4> QED
          BY <1>2, <2>1, <2>3, <4>1, <4>2 DEF LoadingIsAwaited
      <3> QED
        BY <1>1, <1>2, <1>7, <2>1, <2>3, <3>1, <3>2, PreviewParts
        DEF OlderArrive, OffIsIdle
    <2> QED
      BY <1>7, <2>2, <2>3 DEF OlderArrive
  <1>8. ASSUME NEW row \in Rows, MoveCursor(row)
        PROVE  PreviewInv'
    <2>1. PreviewKeeps
      BY <1>1, <1>8, SameStream DEF MoveCursor
    <2> QED
      BY <1>1, <1>2, <1>8, <2>1, PreviewParts DEF MoveCursor, OffIsIdle, LoadingIsAwaited
  <1>9. CASE CursorRests
    BY <1>1, <1>9, SettleKeeps, PreviewParts DEF CursorRests, OffIsIdle
  <1>10. CASE ToggleLogs
    <2>1. CASE previewOn /\ CancelPreview /\ previewCache' = CacheWithPreview
      BY <1>1, <1>10, <2>1, CancelKeeps, CacheType, PreviewParts
      DEF ToggleLogs, OffIsIdle, LoadingIsAwaited, PreviewInv
    <2>2. CASE ~previewOn /\ cursorPod # NoPod /\ EnterPod(cursorPod, preview)
      BY <1>1, <1>10, <2>2, EnterKeeps, PreviewParts DEF ToggleLogs, OffIsIdle, Rows
    <2>3. CASE /\ ~previewOn /\ cursorPod = NoPod
               /\ UNCHANGED <<preview, previewCache, tail, inherited>>
      <3>1. PreviewKeeps
        BY <1>1, <2>3, SameStream
      <3> QED
        BY <1>1, <1>2, <1>10, <2>3, <3>1, PreviewParts
        DEF ToggleLogs, OffIsIdle, LoadingIsAwaited
    <2> QED
      BY <1>10, <2>1, <2>2, <2>3 DEF ToggleLogs
  <1>11. CASE OtherPreview \/ EnterCluster
    <2>1. previewCache' \in Seq(CacheEntries)
      <3>1. << >> \in Seq(CacheEntries)
        OBVIOUS
      <3> QED
        BY <1>1, <1>11, <3>1 DEF OtherPreview, EnterCluster
    <2>2. cursorPod' \in Rows /\ previewOn' = FALSE /\ CancelPreview /\ UNCHANGED older
      BY <1>1, <1>11 DEF OtherPreview, EnterCluster, Rows
    <2> QED
      BY <1>1, <2>1, <2>2, CancelKeeps, PreviewParts DEF OffIsIdle, LoadingIsAwaited
  <1>12. CASE ScrollToTop
    <2>1. cursorPod \in Pods /\ cursorPod = preview.key
      BY <1>1, <1>12, LogPreviewAssumption
      DEF ScrollToTop, Rows
    <2>2. older' \in [Pods -> 0 .. MaxFetches] /\ older'[cursorPod] > 0
      BY <1>1, <1>12, <2>1, LogPreviewAssumption DEF ScrollToTop
    <2>3. preview' \in PreviewStates /\ preview'.ch = preview.ch
          /\ preview'.key = preview.key
      BY <1>1, <1>12 DEF ScrollToTop, PreviewStates
    <2>4. PreviewKeeps
      BY <1>1, <1>12, <2>3, SameStream DEF ScrollToTop
    <2> QED
      BY <1>1, <1>12, <2>1, <2>2, <2>3, <2>4, PreviewParts
      DEF ScrollToTop, OffIsIdle, LoadingIsAwaited
  <1>13. ASSUME NEW on \in BOOLEAN, NEW row \in Rows, ChangeTab(on, row)
         PROVE  PreviewInv'
    <2>1. CASE CancelPreview /\ previewCache' = CacheWithPreview
      BY <1>1, <1>13, <2>1, CancelKeeps, CacheType, PreviewParts
      DEF ChangeTab, OffIsIdle, LoadingIsAwaited, PreviewInv
    <2>2. CASE on /\ Settle(row, AfterCancel)
      BY <1>1, <1>13, <2>2, SettleKeeps, PreviewParts DEF ChangeTab, OffIsIdle
    <2> QED
      BY <1>13, <2>1, <2>2 DEF ChangeTab
  <1> QED
    BY <1>3, <1>4, <1>5, <1>6, <1>7, <1>8, <1>9, <1>10, <1>11, <1>12, <1>13
    DEF LogPreviewNext

THEOREM PreviewAlwaysInv == LogPreviewSpec => []PreviewInv
  <1>1. PreviewInv /\ [LogPreviewNext]_previewVars => PreviewInv'
    <2>1. PreviewInv /\ UNCHANGED previewVars => PreviewInv'
      BY DEF previewVars, PreviewInv, LogPreviewTypeOK, DueIsOver, ReadForAPod,
             OffIsIdle, PreviewIsRead, LoadingIsAwaited
    <2> QED
      BY <2>1, PreviewStep
  <1> QED
    BY PreviewInitial, <1>1, PTL DEF LogPreviewSpec

\* A pane that has a pod reads its stream until it ends, and no other kubectl
\* runs uncancelled (previewlog.go:384-390, update_dispatch_msgs.go:183-188).
THEOREM ThePreviewIsRead == LogPreviewSpec => []PreviewIsRead
  <1>1. PreviewInv => PreviewIsRead
    BY DEF PreviewInv
  <1> QED
    BY <1>1, PreviewAlwaysInv, PTL

\* A pane that waits for older lines has a fetch of its pod under way, unless it
\* took the wait over from another pod (previewlog.go:662-668).
THEOREM OlderLinesAreAwaited == LogPreviewSpec => []LoadingIsAwaited
  <1>1. PreviewInv => LoadingIsAwaited
    BY DEF PreviewInv
  <1> QED
    BY <1>1, PreviewAlwaysInv, PTL
=============================================================================
