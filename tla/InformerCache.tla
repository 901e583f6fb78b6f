--------------------------- MODULE InformerCache ---------------------------
(***************************************************************************)
(* The informer cache of lfk (src/internal/k8s/informer_cache.go,          *)
(* informer_watchfail.go) and the list calls routed through it             *)
(* (GetResources): which lists are served by a watch, when a watch starts, *)
(* and how it ends.                                                        *)
(*                                                                         *)
(* Goroutines, by pc `at':                                                 *)
(*   - callers: one GetResources each;                                     *)
(*   - entries: one informer each.  at[e] is its reflector with the watch  *)
(*     error handler, syncAt[e] the goroutine that awaits its first list;  *)
(*   - Stop (stopAt) and the clock.                                        *)
(* The reflector (client-go) and the API server are external: they may     *)
(* list, fail or refuse at any moment.                                     *)
(*                                                                         *)
(* Grain of atomicity: one critical section of ic.mu or of a state's mu,   *)
(* one channel operation, one API call.  The auto state of a resource is   *)
(* an object: goroutines get a pointer to it under ic.mu and write to it   *)
(* later, under its own mu, and the sweep may take it out of the map in    *)
(* between.  states[g][n] is the n-th object of g, gen[g] the one in the   *)
(* map; an absent key is a new object, for getAutoState allocates a zero   *)
(* one.  Sections are joined where no other goroutine can tell: a pointer  *)
(* is got at the end of the step before the one that writes through it,    *)
(* and getting it is one step with a mere read.                            *)
(*                                                                         *)
(* A definition X_y is X with the mistake y.                               *)
(***************************************************************************)
EXTENDS Integers, FiniteSets

CONSTANTS
    Gvrs,             \* resource types, of one cluster context each
    Forbidden,        \* those whose watch the API server refuses
    Callers,          \* calls of GetResources
    Call,             \* what each asks for, see Calls
    Entries,          \* the informers there can be
    None,             \* nil
    Mode,             \* "auto" or "always"
    DemoteAfterN,     \* ic.demoteAfterN
    MaxWatchFailures, \* ic.maxWatchFailures
    MaxBreaks,        \* BOUND: watches that break
    MaxSweeps         \* BOUND: how often the sweep falls due

\* filtered is rt.FieldSelector # "".
Calls == [gvr : Gvrs, prefer : BOOLEAN, filtered : BOOLEAN]

ASSUME CallAssumption  == Call \in [Callers -> Calls] /\ Forbidden \subseteq Gvrs
ASSUME NamesAssumption == /\ Callers \cap Entries = {}
                          /\ None \notin Entries \cup Gvrs /\ IsFiniteSet(Entries)
ASSUME LimitsAssumption ==
    /\ Mode \in {"auto", "always"}
    /\ DemoteAfterN \in Nat \ {0} /\ MaxWatchFailures \in Nat \ {0}
    /\ MaxBreaks \in Nat /\ MaxSweeps \in Nat

VARIABLES
    \* informerCache
    entry,    \* resource -> its entry in ic.entries, or None
    gen,      \* resource -> its object in ic.auto
    states,   \* resource -> its auto states, one per object
    sweepDue, \* sweepInterval has passed since lastSweep
    stopped,
    \* informerEntry
    gvrOf,    \* the resource it watches, None before it exists
    closes,   \* how often stopCh was closed
    claimed,  \* syncWaitClaimed
    syncAt,   \* "synced" also says that the channel synced is closed
    \* callers and reflectors
    at, ptr,  \* pc, and the auto state to write to
    todo,     \* the resources to stopOne
    doomed,   \* the entry stopOne took out and is to close, or None
    \* callers
    defers,   \* markHot runs when the call returns
    ent,      \* the entry listItems got, or None
    \* the call of Stop, and what the bounds count
    stopAt, stopSet, breaks, sweeps

autoVars  == <<gen, states>>
entryVars == <<gvrOf, closes, claimed, syncAt>>
doomVars  == <<todo, doomed>>
callVars  == <<defers, ent>>
stopVars  == <<stopped, stopAt, stopSet>>
clockVars == <<sweepDue, sweeps, breaks>>
vars == <<entry, autoVars, entryVars, at, ptr, doomVars, callVars, stopVars,
          clockVars>>

Actors  == Callers \cup Entries
Objects == 0 .. MaxSweeps
\* Below demoteBelow, in between, from promoteAt.
Sizes   == {"small", "medium", "large"}

\* gvrAutoState.  hot and lastUse: not hot, used within hotTTL, idle for longer.
\* small is cut off at the value that demotes, failures are those within
\* watchFailureWindow, blocked: cooldownUntil lies ahead.
AutoState == [hot : {"no", "used", "idle"}, promoted : BOOLEAN,
              small : 0 .. DemoteAfterN, denied : BOOLEAN,
              failures : 0 .. MaxWatchFailures - 1, blocked : BOOLEAN]
ZeroState == [hot |-> "no", promoted |-> FALSE, small |-> 0, denied |-> FALSE,
              failures |-> 0, blocked |-> FALSE]

\* denied || blockedLocked()
Blocked(s) == s.denied \/ s.blocked
Current(g) == states[g][gen[g]]
Gvr(a)     == IF a \in Callers THEN Call[a].gvr ELSE gvrOf[a]

\* The auto state that actor a has a pointer to.
Held(a)     == states[Gvr(a)][ptr[a]]
Write(a, s) == states' = [states EXCEPT ![Gvr(a)][ptr[a]] = s]

\* Actor a goes on at label, with a pointer to the auto state if it needs one.
Writing == {"marking", "promoting", "denying", "failing"}
Goto(a, label) ==
    /\ at' = [at EXCEPT ![a] = label]
    /\ ptr' = [ptr EXCEPT ![a] = IF label \in Writing THEN gen[Gvr(a)] ELSE 0]
-----------------------------------------------------------------------------
Init ==
    /\ entry = [g \in Gvrs |-> None]
    /\ gen = [g \in Gvrs |-> 0]
    /\ states = [g \in Gvrs |-> [n \in Objects |-> ZeroState]]
    /\ sweepDue = FALSE /\ stopped = FALSE
    /\ gvrOf = [e \in Entries |-> None]
    /\ closes = [e \in Entries |-> 0]
    /\ claimed = [e \in Entries |-> FALSE]
    /\ syncAt = [e \in Entries |-> "waiting"]
    /\ at = [a \in Actors |-> IF a \in Callers THEN "idle" ELSE "watching"]
    /\ ptr = [a \in Actors |-> 0]
    /\ todo = [a \in Actors |-> {}]
    /\ doomed = [a \in Actors |-> None]
    /\ defers = [c \in Callers |-> FALSE]
    /\ ent = [c \in Callers |-> None]
    /\ stopAt = "none" /\ stopSet = {} /\ breaks = 0 /\ sweeps = 0
-----------------------------------------------------------------------------
(* getOrStart and stopOne *)

\* A new entry, of those there can be.
Spawn(g, e) == /\ \E x \in Entries : gvrOf[x] = None
               /\ e = CHOOSE x \in Entries : gvrOf[x] = None
               /\ entry' = [entry EXCEPT ![g] = e]
               /\ gvrOf' = [gvrOf EXCEPT ![e] = g]

\* Under ic.mu: e is None (an error) once ic is stopped, else the entry of g,
\* or a new one, whose two goroutines start.
GetOrStart_afterStop(g, e) ==
    \/ entry[g] # None /\ e = entry[g] /\ UNCHANGED <<entry, gvrOf>>
    \/ entry[g] = None /\ Spawn(g, e)
GetOrStart(g, e) ==
    \/ stopped /\ e = None /\ UNCHANGED <<entry, gvrOf>>
    \/ ~stopped /\ entry[g] # None /\ e = entry[g] /\ UNCHANGED <<entry, gvrOf>>
    \/ ~stopped /\ entry[g] = None /\ Spawn(g, e)

\* Where an actor goes on after its stopOne calls: a caller that observed a
\* cached list is done, one that swept is inside markHot.
AfterStops(a) == IF a \in Entries THEN "watching"
                 ELSE IF ent[a] # None THEN "done" ELSE "starting"

\* Once Stop has begun the channels are its to close.
NothingToStop_afterStop(g) == entry[g] = None
NothingToStop(g) == stopped \/ entry[g] = None

\* stopOne under ic.mu, for one of the resources a has to stop.
TakeOut(a) ==
    /\ at[a] = "stopOne"
    /\ \E g \in todo[a] :
         /\ todo' = [todo EXCEPT ![a] = @ \ {g}]
         /\ IF NothingToStop(g)
            THEN /\ Goto(a, IF todo[a] = {g} THEN AfterStops(a) ELSE "stopOne")
                 /\ UNCHANGED <<entry, doomed>>
            ELSE /\ doomed' = [doomed EXCEPT ![a] = entry[g]]
                 /\ entry' = [entry EXCEPT ![g] = None]
                 /\ Goto(a, "closing")
    /\ UNCHANGED <<autoVars, entryVars, callVars, stopVars, clockVars>>

\* stopOne after ic.mu is released: close(entry.stopCh).
CloseEntry_notAfterStop(a) ==
    /\ at[a] = "closing"
    /\ closes' = IF stopped THEN closes
                 ELSE [closes EXCEPT ![doomed[a]] = @ + 1]
    /\ doomed' = [doomed EXCEPT ![a] = None]
    /\ Goto(a, IF todo[a] = {} THEN AfterStops(a) ELSE "stopOne")
    /\ UNCHANGED <<entry, autoVars, gvrOf, claimed, syncAt, todo, callVars,
                   stopVars, clockVars>>
CloseEntry(a) ==
    /\ at[a] = "closing"
    /\ closes' = [closes EXCEPT ![doomed[a]] = @ + 1]
    /\ doomed' = [doomed EXCEPT ![a] = None]
    /\ Goto(a, IF todo[a] = {} THEN AfterStops(a) ELSE "stopOne")
    /\ UNCHANGED <<entry, autoVars, gvrOf, claimed, syncAt, todo, callVars,
                   stopVars, clockVars>>
-----------------------------------------------------------------------------
(* GetResources *)

Route(c)     == IF Call[c].filtered THEN "direct" ELSE "routing"
AfterHot(c)  == IF defers[c] THEN "done" ELSE Route(c)
AfterList(c) == IF defers[c] THEN "marking" ELSE "done"

\* informerRunning, under ic.mu: a call that prefers the cache marks its
\* resource hot before it is routed, or after a direct list if nothing runs.
Begin(c) ==
    /\ at[c] = "idle"
    /\ LET g == Call[c].gvr
       IN  /\ defers' = [defers EXCEPT ![c] = Call[c].prefer /\ entry[g] = None]
           /\ Goto(c, IF ~Call[c].prefer THEN Route(c)
                      ELSE IF entry[g] = None THEN "direct" ELSE "marking")
    /\ UNCHANGED <<entry, autoVars, entryVars, doomVars, ent, stopVars,
                   clockVars>>

\* markHot, under the state's mu.
MarkHot(c) ==
    /\ at[c] = "marking"
    /\ IF Blocked(Held(c))
       THEN Goto(c, AfterHot(c)) /\ UNCHANGED states
       ELSE Goto(c, "sweeping") /\ Write(c, [Held(c) EXCEPT !.hot = "used"])
    /\ UNCHANGED <<entry, gen, entryVars, doomVars, callVars, stopVars,
                   clockVars>>

\* sweepStaleHot, on one state: an idle one is no longer hot, and one with no
\* live decision leaves the map.
Swept(s) == [s EXCEPT !.hot = IF @ = "idle" THEN "no" ELSE @]
Cold(s)  == s.hot # "used" /\ ~s.promoted /\ ~s.denied /\ s.small = 0

\* maybeSweepStaleHot and, if it is due, sweepStaleHot under ic.mu.
Sweep(c) ==
    /\ at[c] = "sweeping"
    /\ \/ /\ ~sweepDue
          /\ Goto(c, "starting")
          /\ UNCHANGED <<autoVars, todo>>
       \/ LET stale == {g \in Gvrs : Current(g).hot = "idle"}
          IN  /\ sweepDue
              /\ states' = [g \in Gvrs |->
                              [states[g] EXCEPT ![gen[g]] = Swept(@)]]
              /\ gen' = [g \in Gvrs |-> IF Cold(Current(g)) THEN gen[g] + 1
                                        ELSE gen[g]]
              /\ todo' = [todo EXCEPT ![c] = stale]
              /\ Goto(c, IF stale = {} THEN "starting" ELSE "stopOne")
    /\ sweepDue' = FALSE
    /\ UNCHANGED <<entry, entryVars, doomed, callVars, stopVars, sweeps, breaks>>

\* The end of markHot: getOrStart, whose error it ignores.
StartHot(c) ==
    /\ at[c] = "starting"
    /\ \E e \in Entries \cup {None} : GetOrStart(Gvr(c), e)
    /\ Goto(c, AfterHot(c))
    /\ UNCHANGED <<autoVars, closes, claimed, syncAt, doomVars, callVars,
                   stopVars, clockVars>>

\* shouldUseCache: cacheBlocked and, in mode auto, isPromoted.
UseCache(s) ==
    ~Blocked(s) /\ (Mode = "always" \/ s.hot # "no" \/ s.promoted)
RouteCall(c) ==
    /\ at[c] = "routing"
    /\ Goto(c, IF UseCache(Current(Gvr(c))) THEN "listing" ELSE "direct")
    /\ UNCHANGED <<entry, autoVars, entryVars, doomVars, callVars, stopVars,
                   clockVars>>

\* listItems gets its entry.
ListCached(c) ==
    /\ at[c] = "listing"
    /\ \E e \in Entries \cup {None} :
         /\ GetOrStart(Gvr(c), e)
         /\ ent' = [ent EXCEPT ![c] = e]
         /\ Goto(c, IF e = None THEN "direct" ELSE "syncing")
    /\ UNCHANGED <<autoVars, closes, claimed, syncAt, doomVars, defers,
                   stopVars, clockVars>>

\* waitForSync: a synced entry is read; else one call may wait for it.
ClaimWait(c) ==
    /\ at[c] = "syncing"
    /\ \/ /\ syncAt[ent[c]] = "synced"
          /\ Goto(c, "observing")
          /\ UNCHANGED claimed
       \/ /\ syncAt[ent[c]] # "synced"
          /\ Goto(c, IF claimed[ent[c]] THEN "direct" ELSE "waiting")
          /\ claimed' = [claimed EXCEPT ![ent[c]] = TRUE]
    /\ UNCHANGED <<entry, autoVars, gvrOf, closes, syncAt, doomVars, callVars,
                   stopVars, clockVars>>

\* The wait ends with the sync, or with an error: stopCh, the timeout or ctx.
EndWait(c) ==
    /\ at[c] = "waiting"
    /\ \/ syncAt[ent[c]] = "synced" /\ Goto(c, "observing")
       \/ Goto(c, "direct")
    /\ UNCHANGED <<entry, autoVars, entryVars, doomVars, callVars, stopVars,
                   clockVars>>

\* observeCachedListSize of a list of size n, under the state's mu, for a
\* resource that is not hot: the state it leaves, and whether it demotes.
Observed(s, n) == IF n # "small" THEN 0
                  ELSE IF s.small < DemoteAfterN THEN s.small + 1 ELSE s.small
ObserveCached(c) ==
    /\ at[c] = "observing"
    /\ \E n \in Sizes :
         LET g      == Gvr(c)
             s      == Current(g)
             small  == Observed(s, n)
             demote == s.hot = "no" /\ s.promoted /\ small = DemoteAfterN
         IN  /\ states' = [states EXCEPT ![g][gen[g]] =
                  IF s.hot # "no" THEN s
                  ELSE IF demote THEN [s EXCEPT !.promoted = FALSE, !.small = 0]
                  ELSE [s EXCEPT !.small = small]]
             /\ todo' = [todo EXCEPT ![c] = IF demote THEN {g} ELSE {}]
             /\ Goto(c, IF demote THEN "stopOne" ELSE "done")
    /\ UNCHANGED <<entry, gen, entryVars, doomed, callVars, stopVars, clockVars>>

\* The list from the API server.  A large one promotes the resource, unless it
\* is filtered or fails.
ListDirect(c) ==
    /\ at[c] = "direct"
    /\ \E n \in Sizes \cup {"error"} :
         Goto(c, IF n = "large" /\ Mode = "auto" /\ ~Call[c].filtered
                 THEN "promoting" ELSE AfterList(c))
    /\ UNCHANGED <<entry, autoVars, entryVars, doomVars, callVars, stopVars,
                   clockVars>>

\* observeDirectListSize, under the state's mu.
ObserveDirect(c) ==
    /\ at[c] = "promoting"
    /\ Write(c, [Held(c) EXCEPT !.promoted = TRUE, !.small = 0])
    /\ Goto(c, AfterList(c))
    /\ UNCHANGED <<entry, gen, entryVars, doomVars, callVars, stopVars,
                   clockVars>>

CallStep(c) ==
    \/ TakeOut(c) \/ CloseEntry(c) \/ MarkHot(c) \/ Sweep(c) \/ StartHot(c)
    \/ RouteCall(c) \/ ListCached(c) \/ ClaimWait(c) \/ EndWait(c)
    \/ ObserveCached(c) \/ ListDirect(c) \/ ObserveDirect(c)
-----------------------------------------------------------------------------
(* The informer of entry e *)

Watching(e) == gvrOf[e] # None /\ at[e] = "watching"

\* The watch error handler runs: the server refused the watch, or it broke.
Refuse(e) ==
    /\ Watching(e) /\ gvrOf[e] \in Forbidden
    /\ Goto(e, "denying")
    /\ UNCHANGED <<entry, autoVars, entryVars, doomVars, callVars, stopVars,
                   clockVars>>
Break(e) ==
    /\ Watching(e) /\ breaks < MaxBreaks /\ breaks' = breaks + 1
    /\ Goto(e, "failing")
    /\ UNCHANGED <<entry, autoVars, entryVars, doomVars, callVars, stopVars,
                   sweepDue, sweeps>>

\* denyGVR, under the state's mu.
DenyGVR_once(e) ==
    /\ at[e] = "denying"
    /\ Write(e, [Held(e) EXCEPT !.denied = TRUE, !.hot = "no",
                                !.promoted = FALSE])
    /\ todo' = [todo EXCEPT ![e] = IF Held(e).denied THEN {} ELSE {gvrOf[e]}]
    /\ Goto(e, IF Held(e).denied THEN "watching" ELSE "stopOne")
    /\ UNCHANGED <<entry, gen, entryVars, doomed, callVars, stopVars, clockVars>>
DenyGVR(e) ==
    /\ at[e] = "denying"
    /\ Write(e, [Held(e) EXCEPT !.denied = TRUE, !.hot = "no",
                                !.promoted = FALSE])
    /\ todo' = [todo EXCEPT ![e] = {gvrOf[e]}]
    /\ Goto(e, "stopOne")
    /\ UNCHANGED <<entry, gen, entryVars, doomed, callVars, stopVars, clockVars>>

\* noteWatchFailure, under the state's mu: nothing while blocked, else count,
\* and give up at the limit.
NoteWatchFailure(e) ==
    /\ at[e] = "failing"
    /\ LET s    == Held(e)
           trip == ~Blocked(s) /\ s.failures + 1 >= MaxWatchFailures
       IN  /\ Write(e, IF Blocked(s) THEN s
                       ELSE IF trip
                       THEN [s EXCEPT !.failures = 0, !.hot = "no",
                                      !.promoted = FALSE, !.blocked = TRUE]
                       ELSE [s EXCEPT !.failures = @ + 1])
           /\ todo' = [todo EXCEPT ![e] = IF trip THEN {gvrOf[e]} ELSE {}]
           /\ Goto(e, IF trip THEN "stopOne" ELSE "watching")
    /\ UNCHANGED <<entry, gen, entryVars, doomed, callVars, stopVars, clockVars>>

\* inf.Run returns once stopCh is closed.
Exit(e) ==
    /\ Watching(e) /\ closes[e] > 0
    /\ Goto(e, "exited")
    /\ UNCHANGED <<entry, autoVars, entryVars, doomVars, callVars, stopVars,
                   clockVars>>

\* WaitForCacheSync found the first list complete: noteWatchSuccess and
\* close(synced), or it found stopCh closed.
NoteWatchSuccess(e) ==
    /\ gvrOf[e] # None /\ syncAt[e] = "waiting"
    /\ states' = [states EXCEPT ![gvrOf[e]][gen[gvrOf[e]]].failures = 0]
    /\ syncAt' = [syncAt EXCEPT ![e] = "synced"]
    /\ UNCHANGED <<entry, gen, gvrOf, closes, claimed, at, ptr, doomVars,
                   callVars, stopVars, clockVars>>
SyncStopped(e) ==
    /\ gvrOf[e] # None /\ syncAt[e] = "waiting" /\ closes[e] > 0
    /\ syncAt' = [syncAt EXCEPT ![e] = "stopped"]
    /\ UNCHANGED <<entry, autoVars, gvrOf, closes, claimed, at, ptr, doomVars,
                   callVars, stopVars, clockVars>>

WatchStep(e) == \/ TakeOut(e) \/ CloseEntry(e) \/ DenyGVR(e)
                \/ NoteWatchFailure(e) \/ Exit(e)
-----------------------------------------------------------------------------
(* Stop and the clock *)

Stop ==
    /\ stopAt = "none"
    /\ stopped' = TRUE
    /\ stopSet' = {entry[g] : g \in Gvrs} \ {None}
    /\ stopAt' = "closing"
    /\ UNCHANGED <<entry, autoVars, entryVars, at, ptr, doomVars, callVars,
                   clockVars>>

CloseAll ==
    /\ stopAt = "closing"
    /\ \E e \in stopSet : /\ closes' = [closes EXCEPT ![e] = @ + 1]
                          /\ stopSet' = stopSet \ {e}
    /\ UNCHANGED <<entry, autoVars, gvrOf, claimed, syncAt, at, ptr, doomVars,
                   callVars, stopped, stopAt, clockVars>>

\* ic.wg.Wait()
Ended(e) == \/ gvrOf[e] = None
            \/ at[e] = "exited" /\ syncAt[e] # "waiting"
StopReturn ==
    /\ stopAt = "closing" /\ stopSet = {}
    /\ \A e \in Entries : Ended(e)
    /\ stopAt' = "returned"
    /\ UNCHANGED <<entry, autoVars, entryVars, at, ptr, doomVars, callVars,
                   stopped, stopSet, clockVars>>

\* Time passes: the sweep falls due, with some of the hot resources idle by
\* then; or failures fall out of the window, or a cooldown ends.
SweepDue ==
    /\ sweeps < MaxSweeps
    /\ sweepDue' = TRUE /\ sweeps' = sweeps + 1
    /\ \E I \in SUBSET {g \in Gvrs : Current(g).hot = "used"} :
         states' = [g \in Gvrs |->
             IF g \in I THEN [states[g] EXCEPT ![gen[g]].hot = "idle"]
             ELSE states[g]]
    /\ UNCHANGED <<entry, gen, entryVars, at, ptr, doomVars, callVars, stopVars,
                   breaks>>
Forget ==
    /\ \E g \in Gvrs :
         \/ states' = [states EXCEPT ![g][gen[g]].failures = 0]
         \/ states' = [states EXCEPT ![g][gen[g]].blocked = FALSE]
    /\ UNCHANGED <<entry, gen, entryVars, at, ptr, doomVars, callVars, stopVars,
                   clockVars>>
-----------------------------------------------------------------------------
Next == \/ \E c \in Callers : Begin(c) \/ CallStep(c)
        \/ \E e \in Entries : \/ Refuse(e) \/ Break(e) \/ WatchStep(e)
                              \/ NoteWatchSuccess(e) \/ SyncStopped(e)
        \/ Stop \/ CloseAll \/ StopReturn \/ SweepDue \/ Forget

Spec == Init /\ [][Next]_vars
-----------------------------------------------------------------------------
Labels == Writing \cup {"idle", "sweeping", "starting", "stopOne", "closing",
                        "routing", "listing", "syncing", "waiting", "observing",
                        "direct", "done", "watching", "exited"}

\* The type invariant.  No stopCh is closed twice, which would panic.
TypeOK ==
    /\ entry \in [Gvrs -> Entries \cup {None}]
    /\ gen \in [Gvrs -> Objects]
    /\ states \in [Gvrs -> [Objects -> AutoState]]
    /\ sweepDue \in BOOLEAN /\ stopped \in BOOLEAN
    /\ gvrOf \in [Entries -> Gvrs \cup {None}]
    /\ closes \in [Entries -> 0 .. 1]
    /\ claimed \in [Entries -> BOOLEAN]
    /\ syncAt \in [Entries -> {"waiting", "synced", "stopped"}]
    /\ at \in [Actors -> Labels]
    /\ ptr \in [Actors -> Objects]
    /\ todo \in [Actors -> SUBSET Gvrs]
    /\ doomed \in [Actors -> Entries \cup {None}]
    /\ defers \in [Callers -> BOOLEAN]
    /\ ent \in [Callers -> Entries \cup {None}]
    /\ stopAt \in {"none", "closing", "returned"}
    /\ stopSet \subseteq Entries
    /\ sweeps \in 0 .. MaxSweeps /\ breaks \in 0 .. MaxBreaks

\* No watch leaks: an informer whose stopCh is open can be reached through
\* ic.entries as long as the cache is open, or somebody is about to close it.
\* In particular Stop does not wait for one that nobody stops.
Leaving(e) == \/ closes[e] > 0 \/ e \in stopSet
              \/ \E a \in Actors : doomed[a] = e
NoWatchLeaks ==
    \A e \in Entries : gvrOf[e] # None =>
        Leaving(e) \/ (~stopped /\ entry[gvrOf[e]] = e)

\* After Stop has returned no goroutine of an informer runs, nor ever will.
StopIsFinal == stopAt = "returned" => \A e \in Entries : Ended(e)

\* A watch that the API server has refused comes to an end, also one that a
\* call routed before an earlier refusal has started after it: the handler does
\* not return to the reflector before somebody closes or has closed its stopCh.
RefusedWatchEnds ==
    [][\A e \in Entries :
         at[e] \in {"denying", "stopOne", "closing"} /\ at'[e] = "watching"
           => Leaving(e)']_vars

Quiet == /\ \A c \in Callers : at[c] \in {"idle", "done"}
         /\ \A e \in Entries : at[e] \in {"watching", "exited"}

\* informer_cache.go:64: the watch is closed again once lists are small, "so a
\* one-off large list does not strand a permanent watch": with no call in
\* progress, a resource with an informer is hot or promoted, so that something
\* can demote it.
NoStrandedWatch ==
    Mode = "auto" /\ Quiet /\ ~stopped =>
        \A g \in Gvrs : entry[g] # None =>
            Current(g).hot # "no" \/ Current(g).promoted

\* informer_cache.go:381: a state that the sweep drops "routes like a freshly
\* allocated one": a sweep does not unblock a resource.
SweepKeepsBlocked ==
    [][\A c \in Callers, g \in Gvrs :
         Sweep(c) /\ Blocked(Current(g)) => Blocked(Current(g)')]_vars
=============================================================================
