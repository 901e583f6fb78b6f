---------------------------- MODULE InformerProofs ----------------------------
(***************************************************************************)
(* Proofs about the informer cache, for any number of resource types, calls*)
(* and informers: no watch leaks, no stop channel is closed twice, Stop is *)
(* final, and a watch that was refused comes to an end.                    *)
(*                                                                         *)
(* The invariant follows an entry: it is in the map, or an actor took it   *)
(* out and is to close it (Dooms), or Stop is (StopOwns), or it is closed; *)
(* and never two of these, or its channel would be closed twice.  A handler*)
(* that gives up its own watch has only that one to stop (StopsItsOwn).    *)
(***************************************************************************)
EXTENDS InformerCache, TLAPS

\* A generation is used up by a sweep that was due.
GensAreDue == \A g \in Gvrs : gen[g] + (IF sweepDue THEN 1 ELSE 0) <= sweeps

\* The map has the entry of each resource, open until Stop.
MapIsOpen ==
    \A g \in Gvrs : entry[g] # None =>
        gvrOf[entry[g]] = g /\ (~stopped => closes[entry[g]] = 0)

\* What was taken out is closed once, by the one who took it out.
Dooms ==
    /\ \A a \in Actors : doomed[a] # None <=> at[a] = "closing"
    /\ \A a \in Actors : doomed[a] # None =>
         /\ gvrOf[doomed[a]] # None /\ closes[doomed[a]] = 0
         /\ doomed[a] \notin stopSet
         /\ \A g \in Gvrs : entry[g] # doomed[a]
         /\ \A b \in Actors : doomed[b] = doomed[a] => a = b

\* Stop closes what was in the map when it began.
StopOwns ==
    /\ stopAt # "none" <=> stopped
    /\ \A e \in stopSet : stopped /\ gvrOf[e] # None /\ closes[e] = 0

\* An entry that does not exist yet does nothing.
UnbornIsIdle ==
    \A e \in Entries : gvrOf[e] = None => at[e] = "watching" /\ closes[e] = 0

\* The watch error handler stops the informers of its own resource.
StopsItsOwn ==
    \A e \in Entries : /\ at[e] = "stopOne" => todo[e] = {gvrOf[e]}
                       /\ at[e] = "closing" => todo[e] = {} /\ Leaving(e)

InformerInv ==
    /\ TypeOK /\ GensAreDue /\ MapIsOpen /\ Dooms /\ StopOwns /\ UnbornIsIdle
    /\ StopsItsOwn /\ NoWatchLeaks /\ StopIsFinal

-----------------------------------------------------------------------------
(* Helpers.                                                                *)

LEMMA Names == /\ None \notin Entries /\ None \notin Gvrs
               /\ \A c \in Callers : c \notin Entries /\ c \in Actors
               /\ \A e \in Entries : e \in Actors
  BY NamesAssumption DEF Actors

LEMMA ForgetCount ==
  ASSUME NEW s \in AutoState
  PROVE  \A b \in BOOLEAN : [s EXCEPT !.promoted = b, !.small = 0] \in AutoState
  <1>1. 0 \in 0 .. DemoteAfterN
    BY LimitsAssumption
  <1> QED
    BY <1>1 DEF AutoState

\* An actor with a resource goes on.
LEMMA GotoMoves ==
  ASSUME TypeOK, NEW a \in Actors, NEW label \in Labels, Goto(a, label),
         label \in Writing => Gvr(a) \in Gvrs
  PROVE  /\ at' \in [Actors -> Labels] /\ ptr' \in [Actors -> Objects]
         /\ at'[a] = label /\ \A b \in Actors \ {a} : at'[b] = at[b]
  <1>1. at' \in [Actors -> Labels]
    BY DEF TypeOK, Goto
  <1>2. (IF label \in Writing THEN gen[Gvr(a)] ELSE 0) \in Objects
    BY LimitsAssumption DEF TypeOK, Objects
  <1> QED
    BY <1>1, <1>2 DEF TypeOK, Goto

LEMMA WriteType ==
  ASSUME TypeOK, NEW a \in Actors, NEW s \in AutoState, Write(a, s)
  PROVE  states' \in [Gvrs -> [Objects -> AutoState]]
  BY DEF TypeOK, Write

LEMMA HeldType ==
  ASSUME TypeOK, NEW a \in Actors, Gvr(a) \in Gvrs
  PROVE  Held(a) \in AutoState
  BY DEF TypeOK, Held

LEMMA CurrentType ==
  ASSUME TypeOK, NEW g \in Gvrs
  PROVE  Current(g) \in AutoState
  BY DEF TypeOK, Current

LEMMA CallerGvr == \A c \in Callers : Gvr(c) = Call[c].gvr /\ Gvr(c) \in Gvrs
  BY CallAssumption DEF Gvr, Calls

LEMMA EntryGvr ==
  ASSUME TypeOK, NEW e \in Entries
  PROVE  Gvr(e) = gvrOf[e] /\ (gvrOf[e] # None => Gvr(e) \in Gvrs)
  BY Names DEF Gvr, TypeOK

LEMMA InformerInitial == Init => InformerInv
  <1> SUFFICES ASSUME Init PROVE InformerInv
    OBVIOUS
  <1> USE Names
  <1>1. TypeOK
    <2>1. ZeroState \in AutoState
      BY LimitsAssumption DEF ZeroState, AutoState
    <2>2. 0 \in Objects
      BY LimitsAssumption DEF Objects
    <2>3. states \in [Gvrs -> [Objects -> AutoState]]
      BY <2>1 DEF Init
    <2>4. at \in [Actors -> Labels]
      BY DEF Init, Labels
    <2>5. sweeps \in 0 .. MaxSweeps /\ breaks \in 0 .. MaxBreaks
      BY LimitsAssumption DEF Init
    <2>6. /\ entry \in [Gvrs -> Entries \cup {None}] /\ gen \in [Gvrs -> Objects]
          /\ sweepDue \in BOOLEAN /\ stopped \in BOOLEAN
      BY <2>2 DEF Init
    <2>7. gvrOf \in [Entries -> Gvrs \cup {None}] /\ claimed \in [Entries -> BOOLEAN]
      BY DEF Init
    <2>8. closes \in [Entries -> 0 .. 1]
          /\ syncAt \in [Entries -> {"waiting", "synced", "stopped"}]
      BY DEF Init
    <2>9. /\ ptr \in [Actors -> Objects] /\ todo \in [Actors -> SUBSET Gvrs]
          /\ doomed \in [Actors -> Entries \cup {None}]
          /\ defers \in [Callers -> BOOLEAN] /\ ent \in [Callers -> Entries \cup {None}]
          /\ stopAt \in {"none", "closing", "returned"} /\ stopSet \subseteq Entries
      BY <2>2 DEF Init
    <2> QED
      BY <2>3, <2>4, <2>5, <2>6, <2>7, <2>8, <2>9 DEF TypeOK
  <1>2. GensAreDue /\ MapIsOpen /\ StopOwns /\ UnbornIsIdle
    BY DEF Init, GensAreDue, MapIsOpen, StopOwns, UnbornIsIdle
  <1>3. Dooms /\ StopsItsOwn /\ NoWatchLeaks /\ StopIsFinal
    BY DEF Init, Dooms, StopsItsOwn, NoWatchLeaks, StopIsFinal, Actors
  <1> QED
    BY <1>1, <1>2, <1>3 DEF InformerInv

-----------------------------------------------------------------------------
(* Steps that start, take out and close no informer.                       *)

mapVars == <<entry, gvrOf, closes, doomed, stopped, stopSet>>

\* What such a step leaves of the rest: its types, and the moves of one actor
\* that is neither about to close nor, if it is an entry, leaves the reflector
\* with another thing to stop than itself.
LEMMA QuietStep ==
  ASSUME InformerInv, TypeOK', GensAreDue', UNCHANGED mapVars, stopAt' = stopAt,
         NEW a \in Actors, at[a] \notin {"closing", "exited"}, at'[a] # "closing",
         \A b \in Actors \ {a} : at'[b] = at[b] /\ todo'[b] = todo[b],
         a \in Entries =>
            /\ gvrOf[a] # None
            /\ at'[a] = "stopOne" => todo'[a] = {gvrOf[a]},
         UNCHANGED syncAt
  PROVE  InformerInv'
  <1> USE Names DEF InformerInv, mapVars
  <1>1. MapIsOpen' /\ StopOwns'
    BY DEF MapIsOpen, StopOwns
  <1>2. Dooms'
    BY DEF Dooms
  <1>3. \A e \in Entries : Leaving(e)' <=> Leaving(e)
    BY DEF Leaving
  <1>4. NoWatchLeaks'
    BY <1>3 DEF NoWatchLeaks
  <1>5. UnbornIsIdle'
    BY DEF UnbornIsIdle
  <1>6. StopsItsOwn'
    BY <1>3 DEF StopsItsOwn
  <1>7. StopIsFinal'
    <2>1. \A e \in Entries : Ended(e) => Ended(e)'
      BY DEF Ended
    <2> QED
      BY <2>1 DEF StopIsFinal
  <1> QED
    BY <1>1, <1>2, <1>4, <1>5, <1>6, <1>7

\* The steps of a call that are no stopOne and start nothing.
LEMMA CallerQuiet ==
  ASSUME InformerInv, NEW c \in Callers, UNCHANGED mapVars,
         UNCHANGED <<gen, sweepDue, sweeps, breaks, stopAt, syncAt>>,
         NEW label \in Labels \ {"closing"}, Goto(c, label), at[c] \notin {"closing", "exited"},
         states' \in [Gvrs -> [Objects -> AutoState]],
         claimed' \in [Entries -> BOOLEAN], defers' \in [Callers -> BOOLEAN],
         ent' \in [Callers -> Entries \cup {None}],
         todo' \in [Actors -> SUBSET Gvrs],
         \A b \in Actors \ {c} : todo'[b] = todo[b]
  PROVE  InformerInv'
  <1>1. c \in Actors /\ c \notin Entries
    BY Names
  <1>2. /\ at' \in [Actors -> Labels] /\ ptr' \in [Actors -> Objects]
        /\ at'[c] = label /\ \A b \in Actors \ {c} : at'[b] = at[b]
    BY <1>1, GotoMoves, CallerGvr DEF InformerInv
  <1>3. TypeOK'
    BY <1>2 DEF InformerInv, TypeOK, mapVars
  <1>4. GensAreDue'
    BY DEF InformerInv, GensAreDue
  <1> QED
    BY <1>1, <1>2, <1>3, <1>4, QuietStep

\* The labels a call goes on at.
LEMMA Onwards ==
  \A c \in Callers : /\ Route(c) \in {"direct", "routing"}
                     /\ AfterHot(c) \in {"done", "direct", "routing"}
                     /\ AfterList(c) \in {"marking", "done"}
  BY DEF Route, AfterHot, AfterList

LEMMA CallerSteps ==
  ASSUME InformerInv, NEW c \in Callers,
         \/ Begin(c) \/ MarkHot(c) \/ RouteCall(c) \/ ClaimWait(c) \/ EndWait(c)
         \/ ObserveCached(c) \/ ListDirect(c) \/ ObserveDirect(c)
  PROVE  InformerInv'
  <1> USE DEF entryVars, autoVars, doomVars, callVars, stopVars, clockVars
  <1>1. TypeOK /\ c \in Actors /\ Gvr(c) \in Gvrs
    BY Names, CallerGvr DEF InformerInv
  <1>2. /\ states \in [Gvrs -> [Objects -> AutoState]]
        /\ claimed \in [Entries -> BOOLEAN] /\ defers \in [Callers -> BOOLEAN]
        /\ ent \in [Callers -> Entries \cup {None}]
        /\ todo \in [Actors -> SUBSET Gvrs]
    BY <1>1 DEF TypeOK
  <1>3. CASE Begin(c)
    <2>1. \E label \in {"direct", "routing", "marking"} : Goto(c, label)
      BY <1>3, Onwards DEF Begin
    <2>2. PICK label \in Labels \ {"closing"} : Goto(c, label)
      BY <2>1 DEF Labels, Writing
    <2>3. defers' \in [Callers -> BOOLEAN]
      BY <1>2, <1>3 DEF Begin
    <2> QED
      BY <1>2, <1>3, <2>2, <2>3, CallerQuiet DEF Begin, mapVars
  <1>4. CASE MarkHot(c)
    <2>1. \E label \in {"done", "direct", "routing", "sweeping"} : Goto(c, label)
      BY <1>4, Onwards DEF MarkHot
    <2>2. PICK label \in Labels \ {"closing"} : Goto(c, label)
      BY <2>1 DEF Labels, Writing
    <2>3. states' \in [Gvrs -> [Objects -> AutoState]]
      <3>1. [Held(c) EXCEPT !.hot = "used"] \in AutoState
        BY <1>1, HeldType DEF AutoState
      <3> QED
        BY <1>1, <1>2, <1>4, <3>1, WriteType DEF MarkHot
    <2> QED
      BY <1>2, <1>4, <2>2, <2>3, CallerQuiet DEF MarkHot, mapVars
  <1>5. CASE RouteCall(c)
    <2>1. PICK label \in Labels \ {"closing"} : Goto(c, label)
      BY <1>5 DEF RouteCall, Labels
    <2> QED
      BY <1>2, <1>5, <2>1, CallerQuiet DEF RouteCall, mapVars
  <1>6. CASE ClaimWait(c)
    <2>1. \E label \in {"observing", "direct", "waiting"} : Goto(c, label)
      BY <1>6 DEF ClaimWait
    <2>2. PICK label \in Labels \ {"closing"} : Goto(c, label)
      BY <2>1 DEF Labels
    <2>3. claimed' \in [Entries -> BOOLEAN]
      BY <1>2, <1>6 DEF ClaimWait
    <2> QED
      BY <1>2, <1>6, <2>2, <2>3, CallerQuiet DEF ClaimWait, mapVars
  <1>7. CASE EndWait(c)
    <2>1. \E label \in {"observing", "direct"} : Goto(c, label)
      BY <1>7 DEF EndWait
    <2>2. PICK label \in Labels \ {"closing"} : Goto(c, label)
      BY <2>1 DEF Labels
    <2> QED
      BY <1>2, <1>7, <2>2, CallerQuiet DEF EndWait, mapVars
  <1>8. CASE ObserveCached(c)
    <2> DEFINE g == Gvr(c)
               s == Current(g)
    <2>1. PICK n \in Sizes :
            LET small  == Observed(s, n)
                demote == s.hot = "no" /\ s.promoted /\ small = DemoteAfterN
            IN  /\ states' = [states EXCEPT ![g][gen[g]] =
                     IF s.hot # "no" THEN s
                     ELSE IF demote THEN [s EXCEPT !.promoted = FALSE, !.small = 0]
                     ELSE [s EXCEPT !.small = small]]
                /\ todo' = [todo EXCEPT ![c] = IF demote THEN {g} ELSE {}]
                /\ Goto(c, IF demote THEN "stopOne" ELSE "done")
      BY <1>8 DEF ObserveCached
    <2>2. s \in AutoState
      BY <1>1, CurrentType
    <2>3. Observed(s, n) \in 0 .. DemoteAfterN
      BY <2>2, LimitsAssumption DEF AutoState, Observed
    <2>4. PICK x \in AutoState : states' = [states EXCEPT ![g][gen[g]] = x]
      <3>1. s \in AutoState /\ [s EXCEPT !.promoted = FALSE, !.small = 0] \in AutoState
            /\ [s EXCEPT !.small = Observed(s, n)] \in AutoState
        <4> HIDE DEF s
        <4>1. [s EXCEPT !.small = Observed(s, n)] \in AutoState
          BY <2>2, <2>3 DEF AutoState
        <4> QED
          BY <2>2, <4>1, ForgetCount
      <3> HIDE DEF s
      <3> QED
        BY <2>1, <3>1
    <2>5. states' \in [Gvrs -> [Objects -> AutoState]]
      BY <1>2, <2>4
    <2>6. todo' \in [Actors -> SUBSET Gvrs] /\ \A b \in Actors \ {c} : todo'[b] = todo[b]
      BY <1>1, <1>2, <2>1
    <2>7. \E label \in {"stopOne", "done"} : Goto(c, label)
      BY <2>1
    <2>8. PICK label \in Labels \ {"closing"} : Goto(c, label)
      BY <2>7 DEF Labels
    <2> QED
      BY <1>2, <1>8, <2>5, <2>6, <2>8, CallerQuiet DEF ObserveCached, mapVars
  <1>9. CASE ListDirect(c)
    <2>1. \E label \in {"promoting", "marking", "done"} : Goto(c, label)
      BY <1>9, Onwards DEF ListDirect
    <2>2. PICK label \in Labels \ {"closing"} : Goto(c, label)
      BY <2>1 DEF Labels, Writing
    <2> QED
      BY <1>2, <1>9, <2>2, CallerQuiet DEF ListDirect, mapVars
  <1>10. CASE ObserveDirect(c)
    <2>1. \E label \in {"marking", "done"} : Goto(c, label)
      BY <1>10, Onwards DEF ObserveDirect
    <2>2. PICK label \in Labels \ {"closing"} : Goto(c, label)
      BY <2>1 DEF Labels, Writing
    <2>3. states' \in [Gvrs -> [Objects -> AutoState]]
      <3>1. [Held(c) EXCEPT !.promoted = TRUE, !.small = 0] \in AutoState
        BY <1>1, HeldType, ForgetCount
      <3> QED
        BY <1>1, <1>10, <3>1, WriteType DEF ObserveDirect
    <2> QED
      BY <1>2, <1>10, <2>2, <2>3, CallerQuiet DEF ObserveDirect, mapVars
  <1> QED
    BY <1>3, <1>4, <1>5, <1>6, <1>7, <1>8, <1>9, <1>10

\* The steps of an informer that are no stopOne.
LEMMA EntryQuiet ==
  ASSUME InformerInv, NEW e \in Entries, gvrOf[e] # None, UNCHANGED mapVars,
         UNCHANGED <<gen, sweepDue, sweeps, stopAt, claimed, syncAt, defers, ent>>,
         NEW label \in Labels \ {"closing"}, Goto(e, label), at[e] \notin {"closing", "exited"},
         states' \in [Gvrs -> [Objects -> AutoState]], breaks' \in 0 .. MaxBreaks,
         todo' \in [Actors -> SUBSET Gvrs],
         \A b \in Actors \ {e} : todo'[b] = todo[b],
         label = "stopOne" => todo'[e] = {gvrOf[e]}
  PROVE  InformerInv'
  <1>1. e \in Actors /\ Gvr(e) \in Gvrs
    BY Names, EntryGvr DEF InformerInv
  <1>2. /\ at' \in [Actors -> Labels] /\ ptr' \in [Actors -> Objects]
        /\ at'[e] = label /\ \A b \in Actors \ {e} : at'[b] = at[b]
    BY <1>1, GotoMoves DEF InformerInv
  <1>3. TypeOK'
    BY <1>2 DEF InformerInv, TypeOK, mapVars
  <1>4. GensAreDue'
    BY DEF InformerInv, GensAreDue
  <1> QED
    BY <1>1, <1>2, <1>3, <1>4, QuietStep

LEMMA EntrySteps ==
  ASSUME InformerInv, NEW e \in Entries,
         Refuse(e) \/ Break(e) \/ DenyGVR(e) \/ NoteWatchFailure(e) \/ Exit(e)
  PROVE  InformerInv'
  <1> USE DEF entryVars, autoVars, doomVars, callVars, stopVars, clockVars
  <1>1. /\ TypeOK /\ e \in Actors
        /\ states \in [Gvrs -> [Objects -> AutoState]] /\ breaks \in 0 .. MaxBreaks
        /\ todo \in [Actors -> SUBSET Gvrs]
    BY Names DEF InformerInv, TypeOK
  <1>2. gvrOf[e] # None
    BY DEF Refuse, Break, DenyGVR, NoteWatchFailure, Exit, Watching, InformerInv,
           UnbornIsIdle
  <1>3. gvrOf[e] \in Gvrs /\ Gvr(e) \in Gvrs
    BY <1>1, <1>2, EntryGvr
  <1>4. CASE Refuse(e) \/ Exit(e)
    <2>1. \E label \in {"denying", "exited"} : Goto(e, label)
      BY <1>4 DEF Refuse, Exit
    <2>2. PICK label \in Labels \ {"closing", "stopOne"} : Goto(e, label)
      BY <2>1 DEF Labels, Writing
    <2> QED
      BY <1>1, <1>2, <1>4, <2>2, EntryQuiet DEF Refuse, Exit, Watching, mapVars
  <1>5. CASE Break(e)
    <2>1. PICK label \in Labels \ {"closing", "stopOne"} : Goto(e, label)
      BY <1>5 DEF Break, Labels, Writing
    <2>2. breaks' \in 0 .. MaxBreaks
      BY <1>1, <1>5, LimitsAssumption DEF Break
    <2> QED
      BY <1>1, <1>2, <1>5, <2>1, <2>2, EntryQuiet DEF Break, Watching, mapVars
  <1>6. CASE DenyGVR(e)
    <2>1. Goto(e, "stopOne") /\ "stopOne" \in Labels
      BY <1>6 DEF DenyGVR, Labels
    <2>2. states' \in [Gvrs -> [Objects -> AutoState]]
      <3>1. [Held(e) EXCEPT !.denied = TRUE, !.hot = "no", !.promoted = FALSE] \in AutoState
        BY <1>1, <1>3, HeldType DEF AutoState
      <3> QED
        BY <1>1, <1>6, <3>1, WriteType DEF DenyGVR
    <2>3. /\ todo' \in [Actors -> SUBSET Gvrs] /\ todo'[e] = {gvrOf[e]}
          /\ \A b \in Actors \ {e} : todo'[b] = todo[b]
      BY <1>1, <1>3, <1>6 DEF DenyGVR
    <2> QED
      BY <1>1, <1>2, <1>6, <2>1, <2>2, <2>3, EntryQuiet DEF DenyGVR, mapVars
  <1>7. CASE NoteWatchFailure(e)
    <2> DEFINE s == Held(e)
               trip == ~Blocked(s) /\ s.failures + 1 >= MaxWatchFailures
               counted == IF Blocked(s) THEN s
                          ELSE IF trip
                          THEN [s EXCEPT !.failures = 0, !.hot = "no",
                                         !.promoted = FALSE, !.blocked = TRUE]
                          ELSE [s EXCEPT !.failures = @ + 1]
    <2>1. /\ Write(e, counted)
          /\ todo' = [todo EXCEPT ![e] = IF trip THEN {gvrOf[e]} ELSE {}]
          /\ Goto(e, IF trip THEN "stopOne" ELSE "watching")
      BY <1>7 DEF NoteWatchFailure
    <2>2. s \in AutoState
      BY <1>1, <1>3, HeldType
    <2>3. counted \in AutoState
      <3>1. CASE Blocked(s)
        BY <2>2, <3>1
      <3>2. CASE ~Blocked(s) /\ trip
        <4>1. 0 \in 0 .. MaxWatchFailures - 1
          BY LimitsAssumption
        <4>2. counted = [s EXCEPT !.failures = 0, !.hot = "no",
                                  !.promoted = FALSE, !.blocked = TRUE]
          BY <3>2
        <4> HIDE DEF s
        <4> QED
          BY <2>2, <4>1, <4>2 DEF AutoState
      <3>3. CASE ~Blocked(s) /\ ~trip
        <4>1. counted = [s EXCEPT !.failures = s.failures + 1]
          BY <3>3
        <4>2. s.failures + 1 \in 0 .. MaxWatchFailures - 1
          <5> HIDE DEF s
          <5> QED
            BY <2>2, <3>3, LimitsAssumption DEF AutoState
        <4> HIDE DEF s
        <4> QED
          BY <2>2, <4>1, <4>2 DEF AutoState
      <3> QED
        BY <3>1, <3>2, <3>3
    <2> HIDE DEF counted, trip
    <2>4. states' \in [Gvrs -> [Objects -> AutoState]]
      BY <1>1, <2>1, <2>3, WriteType
    <2>5. /\ todo' \in [Actors -> SUBSET Gvrs]
          /\ trip => todo'[e] = {gvrOf[e]}
          /\ \A b \in Actors \ {e} : todo'[b] = todo[b]
      BY <1>1, <1>3, <2>1
    <2>6. PICK label \in Labels \ {"closing"} : Goto(e, label) /\ (label = "stopOne" => trip)
      <3>1. trip => Goto(e, "stopOne")
        BY <2>1
      <3>2. ~trip => Goto(e, "watching")
        BY <2>1
      <3>3. {"stopOne", "watching"} \subseteq Labels \ {"closing"}
        BY DEF Labels
      <3> QED
        BY <3>1, <3>2, <3>3
    <2> QED
      <3>1. /\ at[e] = "failing" /\ UNCHANGED mapVars /\ UNCHANGED breaks
            /\ UNCHANGED <<gen, sweepDue, sweeps, stopAt, claimed, syncAt, defers, ent>>
        BY <1>7 DEF NoteWatchFailure, mapVars
      <3>2. breaks' \in 0 .. MaxBreaks /\ at[e] \notin {"closing", "exited"}
        BY <1>1, <3>1
      <3>3. label = "stopOne" => todo'[e] = {gvrOf[e]}
        BY <2>5, <2>6
      <3>4. Goto(e, label)
        BY <2>6
      <3> QED
        BY <1>2, <2>4, <2>5, <3>1, <3>2, <3>3, <3>4, EntryQuiet
  <1> QED
    BY <1>4, <1>5, <1>6, <1>7

\* Steps of no actor that has a pc: the goroutine that awaits the first list,
\* and the clock.
LEMMA StillStep ==
  ASSUME InformerInv, TypeOK', GensAreDue', UNCHANGED mapVars, UNCHANGED <<stopAt, at, todo>>,
         \A e \in Entries : syncAt[e] # "waiting" => syncAt'[e] # "waiting"
  PROVE  InformerInv'
  <1> USE DEF InformerInv, mapVars
  <1>1. MapIsOpen' /\ StopOwns' /\ Dooms' /\ UnbornIsIdle'
    BY DEF MapIsOpen, StopOwns, Dooms, UnbornIsIdle
  <1>2. \A e \in Entries : Leaving(e)' <=> Leaving(e)
    BY DEF Leaving
  <1>3. NoWatchLeaks' /\ StopsItsOwn'
    BY <1>2 DEF NoWatchLeaks, StopsItsOwn
  <1>4. StopIsFinal'
    <2>1. \A e \in Entries : Ended(e) => Ended(e)'
      BY DEF Ended
    <2> QED
      BY <2>1 DEF StopIsFinal
  <1> QED
    BY <1>1, <1>3, <1>4

LEMMA ClockSteps ==
  ASSUME InformerInv,
         \/ SweepDue \/ Forget
         \/ \E e \in Entries : NoteWatchSuccess(e) \/ SyncStopped(e)
  PROVE  InformerInv'
  <1> USE DEF entryVars, autoVars, doomVars, callVars, stopVars, clockVars
  <1>1. TypeOK /\ GensAreDue
    BY DEF InformerInv
  <1>2. /\ states \in [Gvrs -> [Objects -> AutoState]]
        /\ syncAt \in [Entries -> {"waiting", "synced", "stopped"}]
    BY <1>1 DEF TypeOK
  <1>3. ASSUME NEW g \in Gvrs, NEW s \in AutoState,
               states' = [states EXCEPT ![g][gen[g]] = s]
        PROVE  states' \in [Gvrs -> [Objects -> AutoState]]
    BY <1>2, <1>3
  <1>4. 0 \in 0 .. MaxWatchFailures - 1
    BY LimitsAssumption
  <1>5. ASSUME NEW g \in Gvrs
        PROVE  /\ [Current(g) EXCEPT !.failures = 0] \in AutoState
               /\ [Current(g) EXCEPT !.blocked = FALSE] \in AutoState
               /\ [Current(g) EXCEPT !.hot = "idle"] \in AutoState
    BY <1>1, <1>4, CurrentType DEF AutoState
  <1>6. CASE SweepDue
    <2>1. PICK I \in SUBSET {g \in Gvrs : Current(g).hot = "used"} :
            states' = [g \in Gvrs |->
               IF g \in I THEN [states[g] EXCEPT ![gen[g]].hot = "idle"] ELSE states[g]]
      BY <1>6 DEF SweepDue
    <2>2. \A g \in Gvrs : [states[g] EXCEPT ![gen[g]].hot = "idle"] \in [Objects -> AutoState]
      BY <1>2, <1>5 DEF Current
    <2>3. states' \in [Gvrs -> [Objects -> AutoState]]
      BY <1>2, <2>1, <2>2
    <2>4. sweeps' \in 0 .. MaxSweeps /\ sweepDue' = TRUE /\ sweeps' = sweeps + 1
      BY <1>1, <1>6, LimitsAssumption DEF SweepDue, TypeOK
    <2>5. TypeOK'
      BY <1>1, <1>6, <2>3, <2>4 DEF TypeOK, SweepDue
    <2>6. GensAreDue'
      <3> SUFFICES ASSUME NEW g \in Gvrs
                   PROVE  gen'[g] + (IF sweepDue' THEN 1 ELSE 0) <= sweeps'
        BY DEF GensAreDue
      <3>1. gen[g] \in Nat /\ sweeps \in Nat /\ gen' = gen
        BY <1>1, <1>6, LimitsAssumption DEF SweepDue, TypeOK, Objects
      <3>2. gen[g] <= sweeps
        BY <1>1, <3>1 DEF GensAreDue
      <3> QED
        BY <2>4, <3>1, <3>2
    <2> QED
      BY <1>6, <2>5, <2>6, StillStep DEF SweepDue, mapVars
  <1>7. CASE Forget
    <2>1. PICK g \in Gvrs :
            \/ states' = [states EXCEPT ![g][gen[g]].failures = 0]
            \/ states' = [states EXCEPT ![g][gen[g]].blocked = FALSE]
      BY <1>7 DEF Forget
    <2>2. \/ states' = [states EXCEPT ![g][gen[g]] = [Current(g) EXCEPT !.failures = 0]]
          \/ states' = [states EXCEPT ![g][gen[g]] = [Current(g) EXCEPT !.blocked = FALSE]]
      BY <1>2, <2>1 DEF Current
    <2>3. states' \in [Gvrs -> [Objects -> AutoState]]
      BY <1>3, <1>5, <2>2
    <2>4. TypeOK' /\ GensAreDue'
      BY <1>1, <1>7, <2>3 DEF TypeOK, GensAreDue, Forget
    <2> QED
      BY <1>7, <2>4, StillStep DEF Forget, mapVars
  <1>8. ASSUME NEW e \in Entries, NoteWatchSuccess(e) \/ SyncStopped(e)
        PROVE  InformerInv'
    <2>1. gvrOf[e] \in Gvrs
      BY <1>1, <1>8 DEF NoteWatchSuccess, SyncStopped, TypeOK
    <2>2. states' \in [Gvrs -> [Objects -> AutoState]]
      <3>1. CASE NoteWatchSuccess(e)
        <4> DEFINE g == gvrOf[e]
        <4>1. states' = [states EXCEPT ![g][gen[g]].failures = 0]
          BY <3>1 DEF NoteWatchSuccess
        <4>2. states' = [states EXCEPT ![g][gen[g]] = [Current(g) EXCEPT !.failures = 0]]
          BY <1>2, <4>1 DEF Current
        <4> QED
          BY <1>3, <1>5, <2>1, <4>2
      <3>2. CASE SyncStopped(e)
        BY <1>2, <3>2 DEF SyncStopped
      <3> QED
        BY <1>8, <3>1, <3>2
    <2>3. PICK how \in {"synced", "stopped"} : syncAt' = [syncAt EXCEPT ![e] = how]
      BY <1>8 DEF NoteWatchSuccess, SyncStopped
    <2>4. syncAt' \in [Entries -> {"waiting", "synced", "stopped"}]
          /\ \A x \in Entries : syncAt[x] # "waiting" => syncAt'[x] # "waiting"
      BY <1>2, <2>3
    <2>5. TypeOK' /\ GensAreDue'
      BY <1>1, <1>8, <2>2, <2>4 DEF TypeOK, GensAreDue, NoteWatchSuccess, SyncStopped
    <2> QED
      BY <1>8, <2>4, <2>5, StillStep DEF NoteWatchSuccess, SyncStopped, mapVars
  <1> QED
    BY <1>6, <1>7, <1>8

\* sweepStaleHot drops and cools down what is in the map, and names what it is
\* to stop.
LEMMA SweepStep ==
  ASSUME InformerInv, NEW c \in Callers, Sweep(c)
  PROVE  InformerInv'
  <1> USE DEF entryVars, callVars, stopVars
  <1>1. TypeOK /\ GensAreDue /\ c \in Actors /\ c \notin Entries /\ Gvr(c) \in Gvrs
    BY Names, CallerGvr DEF InformerInv
  <1>2. CASE ~sweepDue /\ Goto(c, "starting") /\ UNCHANGED <<autoVars, todo>>
    <2>1. "starting" \in Labels \ {"closing"}
      BY DEF Labels
    <2> QED
      BY <1>1, <1>2, <2>1, CallerQuiet DEF Sweep, autoVars, TypeOK, mapVars
  <1>3. CASE sweepDue
    <2> DEFINE stale == {g \in Gvrs : Current(g).hot = "idle"}
    <2>1. /\ states' = [g \in Gvrs |-> [states[g] EXCEPT ![gen[g]] = Swept(@)]]
          /\ gen' = [g \in Gvrs |-> IF Cold(Current(g)) THEN gen[g] + 1 ELSE gen[g]]
          /\ todo' = [todo EXCEPT ![c] = stale]
          /\ Goto(c, IF stale = {} THEN "starting" ELSE "stopOne")
          /\ sweepDue' = FALSE
      BY <1>3 DEF Sweep
    <2>2. states' \in [Gvrs -> [Objects -> AutoState]]
      <3>1. \A s \in AutoState : Swept(s) \in AutoState
        BY DEF Swept, AutoState
      <3>2. states \in [Gvrs -> [Objects -> AutoState]] /\ gen \in [Gvrs -> Objects]
        BY <1>1 DEF TypeOK
      <3> QED
        BY <2>1, <3>1, <3>2
    <2>3. ASSUME NEW g \in Gvrs
          PROVE  gen'[g] \in Objects /\ gen'[g] <= sweeps
      <3>1. gen[g] \in Nat /\ sweeps \in Nat /\ sweeps <= MaxSweeps /\ MaxSweeps \in Nat
        BY <1>1, LimitsAssumption DEF TypeOK, Objects
      <3>2. gen[g] + 1 <= sweeps
        BY <1>1, <1>3 DEF GensAreDue
      <3>3. gen'[g] = gen[g] \/ gen'[g] = gen[g] + 1
        BY <2>1
      <3> QED
        BY <3>1, <3>2, <3>3 DEF Objects
    <2>4. GensAreDue'
      <3>1. sweeps' = sweeps /\ sweeps \in Nat
        BY <1>1, LimitsAssumption DEF Sweep, TypeOK
      <3>2. \A g \in Gvrs : gen'[g] \in Nat
        BY <2>3, LimitsAssumption DEF Objects
      <3> QED
        BY <2>1, <2>3, <3>1, <3>2 DEF GensAreDue
    <2>5. /\ at' \in [Actors -> Labels] /\ ptr' \in [Actors -> Objects]
          /\ at'[c] # "closing" /\ \A b \in Actors \ {c} : at'[b] = at[b]
      <3>1. PICK label \in Labels \ {"closing"} : Goto(c, label)
        BY <2>1 DEF Labels
      <3> QED
        BY <1>1, <3>1, GotoMoves
    <2>6. /\ todo' \in [Actors -> SUBSET Gvrs]
          /\ \A b \in Actors \ {c} : todo'[b] = todo[b]
      BY <1>1, <2>1 DEF TypeOK
    <2>7. gen' \in [Gvrs -> Objects]
      BY <2>1, <2>3
    <2>8. TypeOK'
      BY <1>1, <2>1, <2>2, <2>5, <2>6, <2>7 DEF TypeOK, Sweep
    <2> QED
      BY <1>1, <2>4, <2>5, <2>6, <2>8, QuietStep DEF Sweep, mapVars
  <1> QED
    BY <1>2, <1>3 DEF Sweep

-----------------------------------------------------------------------------
(* Steps that start, take out and close informers.                         *)

\* A new informer is in the map at once, under ic.mu.
LEMMA SpawnStep ==
  ASSUME InformerInv, TypeOK', GensAreDue', NEW c \in Callers, NEW g \in Gvrs, NEW e,
         ~stopped, entry[g] = None, Spawn(g, e),
         at[c] \notin {"closing", "exited"}, at'[c] # "closing",
         \A b \in Actors \ {c} : at'[b] = at[b],
         UNCHANGED <<closes, doomed, todo, stopped, stopSet, stopAt, syncAt>>
  PROVE  InformerInv'
  <1> USE Names
  <1>1. /\ e \in Entries /\ gvrOf[e] = None
        /\ entry' = [entry EXCEPT ![g] = e] /\ gvrOf' = [gvrOf EXCEPT ![e] = g]
    BY DEF Spawn
  <1>2. /\ entry \in [Gvrs -> Entries \cup {None}]
        /\ gvrOf \in [Entries -> Gvrs \cup {None}]
        /\ doomed \in [Actors -> Entries \cup {None}]
    BY DEF InformerInv, TypeOK
  <1>3. closes[e] = 0 /\ at[e] = "watching" /\ stopSet = {} /\ stopAt = "none"
    BY <1>1 DEF InformerInv, UnbornIsIdle, StopOwns
  <1>4. MapIsOpen'
    BY <1>1, <1>2, <1>3 DEF InformerInv, MapIsOpen
  <1>5. Dooms'
    <2>1. \A a \in Actors : doomed[a] # None => doomed[a] \in Entries \ {e}
      BY <1>1, <1>2 DEF InformerInv, Dooms
    <2> QED
      BY <1>1, <1>2, <1>3, <2>1 DEF InformerInv, Dooms
  <1>6. StopOwns' /\ UnbornIsIdle' /\ StopIsFinal'
    BY <1>1, <1>2, <1>3 DEF InformerInv, StopOwns, UnbornIsIdle, StopIsFinal
  <1>7. \A x \in Entries : Leaving(x)' <=> Leaving(x)
    BY DEF Leaving
  <1>8. StopsItsOwn'
    BY <1>1, <1>2, <1>3, <1>7 DEF InformerInv, StopsItsOwn
  <1>9. NoWatchLeaks'
    BY <1>1, <1>2, <1>7 DEF InformerInv, NoWatchLeaks
  <1> QED
    BY <1>4, <1>5, <1>6, <1>8, <1>9 DEF InformerInv

LEMMA StartStep ==
  ASSUME InformerInv, NEW c \in Callers, StartHot(c) \/ ListCached(c)
  PROVE  InformerInv'
  <1> USE DEF entryVars, autoVars, doomVars, callVars, stopVars, clockVars
  <1>1. TypeOK /\ c \in Actors /\ Gvr(c) \in Gvrs
    BY Names, CallerGvr DEF InformerInv
  <1>2. PICK e \in Entries \cup {None} : GetOrStart(Gvr(c), e)
    BY DEF StartHot, ListCached
  <1>3. PICK label \in Labels \ {"closing"} : Goto(c, label)
    <2>1. \E label \in {"done", "direct", "routing", "syncing"} : Goto(c, label)
      BY Onwards DEF StartHot, ListCached
    <2> QED
      BY <2>1 DEF Labels
  <1>4. ent' \in [Callers -> Entries \cup {None}]
    BY <1>1 DEF StartHot, ListCached, TypeOK
  <1>5. CASE UNCHANGED <<entry, gvrOf>>
    BY <1>1, <1>3, <1>4, <1>5, CallerQuiet DEF StartHot, ListCached, TypeOK, mapVars
  <1>6. CASE ~stopped /\ entry[Gvr(c)] = None /\ Spawn(Gvr(c), e)
    <2>1. /\ entry' \in [Gvrs -> Entries \cup {None}]
          /\ gvrOf' \in [Entries -> Gvrs \cup {None}]
      BY <1>1, <1>6 DEF Spawn, TypeOK
    <2>2. /\ at' \in [Actors -> Labels] /\ ptr' \in [Actors -> Objects]
          /\ at'[c] # "closing" /\ \A b \in Actors \ {c} : at'[b] = at[b]
      BY <1>1, <1>3, GotoMoves
    <2>3. TypeOK' /\ GensAreDue'
      BY <1>1, <1>4, <2>1, <2>2 DEF InformerInv, StartHot, ListCached, TypeOK, GensAreDue
    <2> QED
      BY <1>1, <1>6, <2>2, <2>3, SpawnStep DEF StartHot, ListCached
  <1> QED
    BY <1>2, <1>5, <1>6 DEF GetOrStart

\* stopOne takes the informer of a resource out of the map, or finds nothing to
\* stop.
LEMMA TakeOutStep ==
  ASSUME InformerInv, NEW a \in Actors, TakeOut(a)
  PROVE  InformerInv' /\ (a \in Entries /\ at'[a] = "watching" => Leaving(a)')
  <1> USE Names DEF entryVars, autoVars, callVars, stopVars, clockVars
  <1>1. /\ TypeOK /\ GensAreDue /\ at[a] = "stopOne" /\ doomed[a] = None
        /\ entry \in [Gvrs -> Entries \cup {None}]
        /\ gvrOf \in [Entries -> Gvrs \cup {None}]
        /\ doomed \in [Actors -> Entries \cup {None}]
        /\ todo \in [Actors -> SUBSET Gvrs]
    BY DEF InformerInv, TypeOK, TakeOut, Dooms
  <1>2. PICK g \in todo[a] :
          /\ todo' = [todo EXCEPT ![a] = @ \ {g}]
          /\ IF NothingToStop(g)
             THEN /\ Goto(a, IF todo[a] = {g} THEN AfterStops(a) ELSE "stopOne")
                  /\ UNCHANGED <<entry, doomed>>
             ELSE /\ doomed' = [doomed EXCEPT ![a] = entry[g]]
                  /\ entry' = [entry EXCEPT ![g] = None]
                  /\ Goto(a, "closing")
    BY DEF TakeOut
  <1>3. g \in Gvrs
    BY <1>1, <1>2
  <1>4. /\ todo' \in [Actors -> SUBSET Gvrs] /\ todo'[a] = todo[a] \ {g}
        /\ \A b \in Actors \ {a} : todo'[b] = todo[b]
    BY <1>1, <1>2
  <1>5. a \in Entries => gvrOf[a] # None /\ g = gvrOf[a] /\ todo[a] = {g} /\ todo'[a] = {}
    <2>1. a \in Entries => gvrOf[a] # None /\ todo[a] = {gvrOf[a]}
      BY <1>1 DEF InformerInv, UnbornIsIdle, StopsItsOwn
    <2> QED
      BY <1>2, <1>4, <2>1
  <1>6. GensAreDue'
    BY <1>1 DEF TakeOut, GensAreDue
  <1>7. UNCHANGED <<gvrOf, closes, stopSet, stopped, stopAt, syncAt>>
    BY DEF TakeOut
  <1>8. CASE NothingToStop(g)
    <2>1. PICK label \in Labels \ ({"closing"} \cup Writing) :
            /\ Goto(a, label)
            /\ a \in Entries => label = "watching"
      <3>1. AfterStops(a) \in Labels \ ({"closing"} \cup Writing)
        BY DEF AfterStops, Labels, Writing
      <3>2. "stopOne" \in Labels \ ({"closing"} \cup Writing)
        BY DEF Labels, Writing
      <3>3. a \in Entries => AfterStops(a) = "watching"
        BY DEF AfterStops
      <3>4. todo[a] = {g} => Goto(a, AfterStops(a))
        BY <1>2, <1>8
      <3>5. todo[a] # {g} => Goto(a, "stopOne")
        BY <1>2, <1>8
      <3> QED
        BY <1>5, <3>1, <3>2, <3>3, <3>4, <3>5
    <2>2. /\ at' \in [Actors -> Labels] /\ ptr' \in [Actors -> Objects]
          /\ at'[a] = label /\ \A b \in Actors \ {a} : at'[b] = at[b]
      BY <1>1, <2>1, GotoMoves
    <2>3. UNCHANGED <<entry, doomed>>
      BY <1>2, <1>8
    <2>4. TypeOK'
      BY <1>1, <1>4, <2>2, <2>3 DEF TakeOut, TypeOK
    <2>5. InformerInv'
      BY <1>1, <1>4, <1>5, <1>6, <1>7, <2>1, <2>2, <2>3, <2>4, QuietStep DEF mapVars
    <2>6. a \in Entries => Leaving(a)
      BY <1>5, <1>8 DEF NothingToStop, InformerInv, NoWatchLeaks
    <2>7. a \in Entries => Leaving(a)'
      BY <1>7, <2>3, <2>6 DEF Leaving
    <2> QED
      BY <2>5, <2>7
  <1>9. CASE ~NothingToStop(g)
    <2>1. PICK d \in Entries :
             /\ d = entry[g] /\ ~stopped /\ gvrOf[d] = g /\ closes[d] = 0
             /\ stopSet = {} /\ stopAt = "none"
      BY <1>1, <1>3, <1>9 DEF NothingToStop, InformerInv, MapIsOpen, StopOwns
    <2>2. /\ doomed' = [doomed EXCEPT ![a] = d] /\ entry' = [entry EXCEPT ![g] = None]
          /\ Goto(a, "closing")
      BY <1>2, <1>9, <2>1
    <2>3. /\ at' \in [Actors -> Labels] /\ ptr' \in [Actors -> Objects]
          /\ at'[a] = "closing" /\ \A b \in Actors \ {a} : at'[b] = at[b]
      <3>1. "closing" \in Labels /\ "closing" \notin Writing
        BY DEF Labels, Writing
      <3> QED
        BY <1>1, <2>2, <3>1, GotoMoves
    <2>4. TypeOK'
      <3>1. /\ doomed' \in [Actors -> Entries \cup {None}]
            /\ entry' \in [Gvrs -> Entries \cup {None}]
        BY <1>1, <2>1, <2>2
      <3> QED
        BY <1>1, <1>4, <2>3, <3>1 DEF TakeOut, TypeOK
    <2>5. /\ \A h \in Gvrs : entry'[h] # None => h # g /\ entry'[h] = entry[h]
          /\ \A h \in Gvrs \ {g} : entry'[h] = entry[h]
          /\ entry'[g] = None /\ entry[g] = d
      BY <1>1, <1>3, <2>1, <2>2
    <2>6. /\ doomed'[a] = d /\ \A b \in Actors \ {a} : doomed'[b] = doomed[b]
          /\ \A b \in Actors : doomed[b] # d
      BY <1>1, <1>3, <2>1, <2>2, <2>5 DEF InformerInv, Dooms
    <2>7. MapIsOpen' /\ StopOwns'
      BY <1>7, <2>5 DEF InformerInv, MapIsOpen, StopOwns
    <2>8. Dooms'
      <3>1. \A h \in Gvrs : entry'[h] # d
        BY <2>1, <2>5 DEF InformerInv, MapIsOpen
      <3> QED
        BY <1>1, <1>7, <2>1, <2>3, <2>5, <2>6, <3>1 DEF InformerInv, Dooms
    <2>9. UnbornIsIdle' /\ StopIsFinal'
      BY <1>5, <1>7, <2>1, <2>3 DEF InformerInv, UnbornIsIdle, StopIsFinal
    <2>10. \A e \in Entries : Leaving(e) => Leaving(e)'
      BY <1>1, <1>7, <2>6 DEF Leaving
    <2>11. NoWatchLeaks'
      <3>1. Leaving(d)'
        BY <2>6 DEF Leaving
      <3> QED
        BY <1>1, <1>7, <2>1, <2>5, <2>10, <3>1 DEF InformerInv, NoWatchLeaks
    <2>12. StopsItsOwn'
      <3>1. a \in Entries => Leaving(a)'
        BY <1>5, <1>7, <2>5, <2>11 DEF NoWatchLeaks
      <3> QED
        BY <1>4, <1>5, <1>7, <2>3, <2>10, <3>1 DEF InformerInv, StopsItsOwn
    <2> QED
      BY <1>6, <2>3, <2>4, <2>7, <2>8, <2>9, <2>11, <2>12 DEF InformerInv
  <1> QED
    BY <1>8, <1>9

\* The channel that was taken out is closed: it was not before.
LEMMA CloseStep ==
  ASSUME InformerInv, NEW a \in Actors, CloseEntry(a)
  PROVE  InformerInv' /\ (a \in Entries => Leaving(a)')
  <1> USE Names DEF entryVars, autoVars, callVars, stopVars, clockVars
  <1>1. /\ TypeOK /\ GensAreDue /\ at[a] = "closing"
        /\ doomed \in [Actors -> Entries \cup {None}]
        /\ closes \in [Entries -> 0 .. 1]
        /\ entry \in [Gvrs -> Entries \cup {None}]
    BY DEF InformerInv, TypeOK, CloseEntry
  <1>2. PICK d \in Entries :
           /\ d = doomed[a] /\ gvrOf[d] # None /\ closes[d] = 0 /\ d \notin stopSet
           /\ \A g \in Gvrs : entry[g] # d
           /\ \A b \in Actors : doomed[b] = d => b = a
    BY <1>1 DEF InformerInv, Dooms
  <1>3. /\ closes' = [closes EXCEPT ![d] = 1] /\ doomed' = [doomed EXCEPT ![a] = None]
        /\ UNCHANGED <<entry, gvrOf, stopSet, stopped, stopAt, syncAt, todo>>
    BY <1>1, <1>2 DEF CloseEntry
  <1>4. /\ closes' \in [Entries -> 0 .. 1] /\ closes'[d] = 1
        /\ \A e \in Entries \ {d} : closes'[e] = closes[e]
        /\ doomed' \in [Actors -> Entries \cup {None}] /\ doomed'[a] = None
        /\ \A b \in Actors \ {a} : doomed'[b] = doomed[b]
    BY <1>1, <1>2, <1>3
  <1>5. a \in Entries => gvrOf[a] # None /\ todo[a] = {} /\ Leaving(a)
    BY <1>1 DEF InformerInv, UnbornIsIdle, StopsItsOwn
  <1>6. PICK label \in Labels \ ({"closing"} \cup Writing) :
          /\ Goto(a, label)
          /\ a \in Entries => label = "watching"
    <2>1. AfterStops(a) \in Labels \ ({"closing"} \cup Writing)
      BY DEF AfterStops, Labels, Writing
    <2>2. "stopOne" \in Labels \ ({"closing"} \cup Writing)
      BY DEF Labels, Writing
    <2>3. a \in Entries => AfterStops(a) = "watching"
      BY DEF AfterStops
    <2>4. todo[a] = {} => Goto(a, AfterStops(a))
      BY DEF CloseEntry
    <2>5. todo[a] # {} => Goto(a, "stopOne")
      BY DEF CloseEntry
    <2> QED
      BY <1>5, <2>1, <2>2, <2>3, <2>4, <2>5
  <1>7. /\ at' \in [Actors -> Labels] /\ ptr' \in [Actors -> Objects]
        /\ at'[a] = label /\ \A b \in Actors \ {a} : at'[b] = at[b]
    BY <1>1, <1>6, GotoMoves
  <1>8. TypeOK' /\ GensAreDue'
    BY <1>1, <1>4, <1>7 DEF CloseEntry, TypeOK, GensAreDue
  <1>9. MapIsOpen' /\ StopOwns'
    BY <1>1, <1>2, <1>3, <1>4 DEF InformerInv, MapIsOpen, StopOwns, TypeOK
  <1>10. Dooms'
    BY <1>1, <1>2, <1>3, <1>4, <1>6, <1>7 DEF InformerInv, Dooms
  <1>11. \A e \in Entries : Leaving(e) => Leaving(e)'
    <2> SUFFICES ASSUME NEW e \in Entries, Leaving(e) PROVE Leaving(e)'
      OBVIOUS
    <2>1. CASE e = d
      BY <1>4, <2>1 DEF Leaving
    <2>2. CASE e # d
      BY <1>2, <1>3, <1>4, <2>2 DEF Leaving
    <2> QED
      BY <2>1, <2>2
  <1>12. NoWatchLeaks'
    BY <1>3, <1>11 DEF InformerInv, NoWatchLeaks
  <1>13. UnbornIsIdle'
    BY <1>2, <1>3, <1>4, <1>5, <1>7 DEF InformerInv, UnbornIsIdle
  <1>14. StopsItsOwn'
    BY <1>3, <1>6, <1>7, <1>11 DEF InformerInv, StopsItsOwn
  <1>15. StopIsFinal'
    <2>1. \A e \in Entries : Ended(e) => Ended(e)'
      BY <1>1, <1>3, <1>5, <1>7 DEF Ended
    <2> QED
      BY <1>3, <2>1 DEF InformerInv, StopIsFinal
  <1> QED
    BY <1>5, <1>8, <1>9, <1>10, <1>11, <1>12, <1>13, <1>14, <1>15 DEF InformerInv

\* Stop owns the channels of the map, closes them and waits.
LEMMA StopSteps ==
  ASSUME InformerInv, Stop \/ CloseAll \/ StopReturn
  PROVE  InformerInv'
  <1> USE Names DEF entryVars, autoVars, callVars, clockVars
  <1>1. /\ TypeOK /\ GensAreDue
        /\ entry \in [Gvrs -> Entries \cup {None}]
        /\ closes \in [Entries -> 0 .. 1] /\ stopSet \subseteq Entries
    BY DEF InformerInv, TypeOK
  <1>2. CASE Stop
    <2>1. /\ ~stopped /\ stopSet = {} /\ stopped' = TRUE /\ stopAt' = "closing"
          /\ stopSet' = {entry[g] : g \in Gvrs} \ {None}
          /\ UNCHANGED <<entry, gvrOf, closes, doomed, at, todo, syncAt>>
      BY <1>2 DEF Stop, InformerInv, StopOwns, doomVars
    <2>2. TypeOK' /\ GensAreDue'
      BY <1>1, <1>2, <2>1 DEF TypeOK, GensAreDue, Stop, doomVars
    <2>3. MapIsOpen' /\ StopOwns' /\ UnbornIsIdle' /\ StopIsFinal'
      BY <2>1 DEF InformerInv, MapIsOpen, StopOwns, UnbornIsIdle, StopIsFinal
    <2>4. Dooms'
      BY <2>1 DEF InformerInv, Dooms
    <2>5. \A e \in Entries : Leaving(e) => Leaving(e)'
      BY <2>1 DEF Leaving
    <2>6. NoWatchLeaks'
      <3>1. \A e \in Entries : gvrOf[e] # None /\ entry[gvrOf[e]] = e => e \in stopSet'
        BY <1>1, <2>1 DEF TypeOK
      <3> QED
        BY <2>1, <2>5, <3>1 DEF InformerInv, NoWatchLeaks, Leaving
    <2>7. StopsItsOwn'
      BY <2>1, <2>5 DEF InformerInv, StopsItsOwn
    <2> QED
      BY <2>2, <2>3, <2>4, <2>6, <2>7 DEF InformerInv
  <1>3. CASE CloseAll
    <2>1. PICK d \in stopSet :
            closes' = [closes EXCEPT ![d] = @ + 1] /\ stopSet' = stopSet \ {d}
      BY <1>3 DEF CloseAll
    <2>2. /\ stopAt = "closing" /\ stopped /\ d \in Entries /\ gvrOf[d] # None
          /\ closes[d] = 0
          /\ UNCHANGED <<entry, gvrOf, doomed, at, todo, syncAt, stopped, stopAt>>
      BY <1>1, <1>3, <2>1 DEF CloseAll, InformerInv, StopOwns, doomVars
    <2>3. /\ closes' \in [Entries -> 0 .. 1] /\ closes'[d] = 1
          /\ \A e \in Entries \ {d} : closes'[e] = closes[e]
      BY <1>1, <2>1, <2>2
    <2>4. TypeOK' /\ GensAreDue'
      BY <1>1, <1>3, <2>1, <2>3 DEF TypeOK, GensAreDue, CloseAll, doomVars
    <2>5. MapIsOpen' /\ StopOwns' /\ UnbornIsIdle' /\ StopIsFinal'
      BY <1>1, <2>1, <2>2, <2>3
      DEF InformerInv, MapIsOpen, StopOwns, UnbornIsIdle, StopIsFinal
    <2>6. Dooms'
      BY <1>1, <2>1, <2>2, <2>3 DEF InformerInv, Dooms, TypeOK
    <2>7. \A e \in Entries : Leaving(e) => Leaving(e)'
      BY <2>1, <2>2, <2>3 DEF Leaving
    <2>8. NoWatchLeaks' /\ StopsItsOwn'
      BY <2>2, <2>7 DEF InformerInv, NoWatchLeaks, StopsItsOwn
    <2> QED
      BY <2>4, <2>5, <2>6, <2>8 DEF InformerInv
  <1>4. CASE StopReturn
    <2>1. /\ stopAt = "closing" /\ stopAt' = "returned" /\ \A e \in Entries : Ended(e)
          /\ UNCHANGED <<entry, gvrOf, closes, doomed, at, todo, syncAt, stopped, stopSet>>
      BY <1>4 DEF StopReturn, doomVars
    <2>2. TypeOK' /\ GensAreDue'
      BY <1>1, <1>4, <2>1 DEF TypeOK, GensAreDue, StopReturn, doomVars
    <2>3. MapIsOpen' /\ StopOwns' /\ UnbornIsIdle' /\ Dooms'
      BY <2>1 DEF InformerInv, MapIsOpen, StopOwns, UnbornIsIdle, Dooms
    <2>4. \A e \in Entries : (Leaving(e)' <=> Leaving(e)) /\ Ended(e)'
      BY <2>1 DEF Leaving, Ended
    <2>5. NoWatchLeaks' /\ StopsItsOwn' /\ StopIsFinal'
      BY <2>1, <2>4 DEF InformerInv, NoWatchLeaks, StopsItsOwn, StopIsFinal
    <2> QED
      BY <2>2, <2>3, <2>5 DEF InformerInv
  <1> QED
    BY <1>2, <1>3, <1>4

-----------------------------------------------------------------------------
(* The theorems.                                                           *)

\* Every step keeps the invariant, and a refused watch that is let go on is one
\* that somebody closes or has closed.
RefusedEnds ==
    \A e \in Entries :
        at[e] \in {"denying", "stopOne", "closing"} /\ at'[e] = "watching" => Leaving(e)'

LEMMA InformerStep ==
  ASSUME InformerInv, Next
  PROVE  InformerInv' /\ RefusedEnds
  <1> USE Names
  <1>1. at \in [Actors -> Labels]
    BY DEF InformerInv, TypeOK
  <1>2. ASSUME NEW c \in Callers, Begin(c) \/ CallStep(c)
        PROVE  InformerInv' /\ RefusedEnds
    <2>1. InformerInv'
      BY <1>2, CallerSteps, SweepStep, StartStep, TakeOutStep, CloseStep DEF CallStep
    <2>2. \A b \in Actors \ {c} : at'[b] = at[b]
      BY <1>1, <1>2
      DEF Begin, CallStep, TakeOut, CloseEntry, MarkHot, Sweep, StartHot, RouteCall,
          ListCached, ClaimWait, EndWait, ObserveCached, ListDirect, ObserveDirect, Goto
    <2> QED
      BY <2>1, <2>2 DEF RefusedEnds
  <1>3. ASSUME NEW e \in Entries,
               \/ Refuse(e) \/ Break(e) \/ DenyGVR(e) \/ NoteWatchFailure(e) \/ Exit(e)
        PROVE  InformerInv' /\ RefusedEnds
    <2>1. InformerInv'
      BY <1>3, EntrySteps
    <2>2. /\ \A b \in Actors \ {e} : at'[b] = at[b]
          /\ at[e] \in {"denying", "stopOne", "closing"} => at'[e] # "watching"
      BY <1>1, <1>3
      DEF Refuse, Break, DenyGVR, NoteWatchFailure, Exit, Watching, Goto
    <2> QED
      BY <2>1, <2>2 DEF RefusedEnds
  <1>4. ASSUME NEW e \in Entries, TakeOut(e) \/ CloseEntry(e)
        PROVE  InformerInv' /\ RefusedEnds
    <2>1. InformerInv' /\ (at'[e] = "watching" => Leaving(e)')
      BY <1>4, TakeOutStep, CloseStep
    <2>2. \A b \in Actors \ {e} : at'[b] = at[b]
      BY <1>1, <1>4 DEF TakeOut, CloseEntry, Goto
    <2> QED
      BY <2>1, <2>2 DEF RefusedEnds
  <1>5. CASE \/ SweepDue \/ Forget \/ Stop \/ CloseAll \/ StopReturn
             \/ \E e \in Entries : NoteWatchSuccess(e) \/ SyncStopped(e)
    <2>1. InformerInv'
      BY <1>5, ClockSteps, StopSteps
    <2>2. at' = at
      BY <1>5 DEF SweepDue, Forget, Stop, CloseAll, StopReturn, NoteWatchSuccess, SyncStopped
    <2> QED
      BY <2>1, <2>2 DEF RefusedEnds
  <1> QED
    BY <1>2, <1>3, <1>4, <1>5 DEF Next, WatchStep

LEMMA InformerStutter ==
  ASSUME InformerInv, UNCHANGED vars
  PROVE  InformerInv'
  <1> USE DEF vars, entryVars, autoVars, doomVars, callVars, stopVars, clockVars
  <1>1. TypeOK' /\ GensAreDue'
    BY DEF InformerInv, TypeOK, GensAreDue
  <1> QED
    BY <1>1, StillStep DEF mapVars

THEOREM InformerAlwaysInv == Spec => []InformerInv
  <1>1. InformerInv /\ [Next]_vars => InformerInv'
    BY InformerStep, InformerStutter
  <1> QED
    BY InformerInitial, <1>1, PTL DEF Spec

\* The types; in particular no stopCh is closed twice, which would panic,
\* whoever stops a resource while Stop closes what is left
\* (informer_cache.go, stopOne and Stop).
THEOREM NoChannelIsClosedTwice == Spec => []TypeOK
  <1>1. InformerInv => TypeOK
    BY DEF InformerInv
  <1> QED
    BY <1>1, InformerAlwaysInv, PTL

\* An informer that runs can be reached through ic.entries, or somebody is about
\* to close it, however many calls, sweeps and refusals run together.
THEOREM EveryWatchIsReachable == Spec => []NoWatchLeaks
  <1>1. InformerInv => NoWatchLeaks
    BY DEF InformerInv
  <1> QED
    BY <1>1, InformerAlwaysInv, PTL

\* After Stop has returned no informer runs, nor ever will.
THEOREM StoppedForGood == Spec => []StopIsFinal
  <1>1. InformerInv => StopIsFinal
    BY DEF InformerInv
  <1> QED
    BY <1>1, InformerAlwaysInv, PTL

\* The handler of a refused watch does not return to the reflector before
\* somebody closes or has closed its stopCh (informer_watchfail.go, denyGVR).
THEOREM RefusedWatchesEnd == Spec => RefusedWatchEnds
  <1>1. InformerInv /\ [Next]_vars => [RefusedEnds]_vars
    BY InformerStep
  <1> QED
    BY <1>1, InformerAlwaysInv, PTL DEF Spec, RefusedWatchEnds, RefusedEnds
=============================================================================
