---------------------------- MODULE PortForwards ----------------------------
(***************************************************************************)
(* The port-forward manager (src/internal/k8s/portforward.go), the Update  *)
(* loop that drives it (src/internal/app) and the file the forwards of the *)
(* last session are restored from.                                         *)
(*                                                                         *)
(* Goroutines: the Update loop (one message at a time), a command per      *)
(* Start and per Stop, and a monitor per kubectl process.  A step is one   *)
(* critical section of m.mu, or one handler of the Update loop.  How a     *)
(* change reaches the loop is UpdateWaiters: here news says that a message *)
(* is on its way.  The file is replaced by a rename (StateFiles), so that  *)
(* a save is one step, and every state is one the program may die in.      *)
(***************************************************************************)
EXTENDS Integers, FiniteSets, SequencesExt

CONSTANTS
    Targets,      \* what is forwarded: kind, name, namespace, context
    RandomPort,   \* the targets forwarded from local port 0
    MaxForwards,  \* BOUND: calls of Start
    MaxStops      \* BOUND: calls of Stop whose message is not handled

ASSUME ForwardsAssumption == /\ IsFiniteSet(Targets) /\ RandomPort \subseteq Targets
                             /\ MaxForwards \in Nat /\ MaxStops \in Nat

Ids   == 1 .. MaxForwards
Saved == [target : Targets, port : {"0", "set"}]

VARIABLES
    pf,        \* id -> the call of Start, its entry and its kubectl process
    nextID,    \* the last id given out
    news,      \* portForwardUpdateMsg is on its way
    started,   \* ids whose portForwardStartedMsg is not handled yet
    stopped,   \* ids whose portForwardStoppedMsg is not handled yet
    ui,        \* the Update loop
    pending,   \* pendingPortForwards
    file,      \* portforwards.yaml
    owed       \* history: the forwards the next session has to bring back

forwardVars == <<pf, nextID, news, started, stopped, ui, pending, file, owed>>

Unused == [call |-> "unused", target |-> "none", port |-> "0", by |-> "none",
           listed |-> FALSE, status |-> "none", shown |-> FALSE, ready |-> FALSE,
           proc |-> "none", stop |-> FALSE]

IsLive(e)     == e.status \in {"Starting", "Running"}
IsTerminal(e) == e.status = "Ended"

ForwardsTypeOK ==
    /\ pf \in [Ids -> [call : {"unused", "requested", "launched", "returned"},
                       target : Targets \cup {"none"}, port : {"0", "set"},
                       by : {"none", "user", "restore"}, listed : BOOLEAN,
                       status : {"none", "Starting", "Running", "Ended"},
                       shown : BOOLEAN, ready : BOOLEAN,
                       proc : {"none", "alive", "killed", "gone"}, stop : BOOLEAN]]
    /\ nextID \in 0 .. MaxForwards
    /\ news \in BOOLEAN
    /\ started \subseteq Ids /\ stopped \subseteq Ids
    /\ ui \in [last : 0 .. MaxForwards, listening : BOOLEAN, quitting : BOOLEAN]
    /\ pending \subseteq Saved /\ file \subseteq Saved
    /\ owed \subseteq Ids

\* A new session: the file is what another session left, once its forwards
\* had their ports.
ForwardsInit ==
    /\ pf = [i \in Ids |-> Unused]
    /\ nextID = 0
    /\ news = FALSE /\ started = {} /\ stopped = {}
    /\ ui = [last |-> 0, listening |-> FALSE, quitting |-> FALSE]
    /\ file \in SUBSET [target : Targets, port : {"set"}]
    /\ pending = file
    /\ owed = {}

-----------------------------------------------------------------------------
(* The manager, its commands and its monitors.                             *)

\* notifyLocked: nobody hears it before the first waiter is made.
Tell == news' = (news \/ (ui.listening /\ ~ui.quitting))

\* EntriesForDisplay: some of the ended entries that were shown before are past
\* their grace period and leave; those not shown before now are.
ShownEnded(P) == {i \in Ids : P[i].listed /\ IsTerminal(P[i]) /\ P[i].shown}
Show(P) ==
    \E old \in SUBSET ShownEnded(P) :
        pf' = [i \in Ids |->
                 [P[i] EXCEPT !.listed = @ /\ i \notin old,
                              !.shown  = P[i].listed /\ IsTerminal(P[i]) /\ i \notin old]]

\* Where the user is when a message comes is left to chance.
ShowIfThere == Show(pf) \/ UNCHANGED pf

\* Start, first part: the id is taken, and kubectl is started or fails to.
Launch(i) ==
    /\ pf[i].call = "requested"
    /\ \/ /\ pf' = [pf EXCEPT ![i].call = "launched", ![i].proc = "alive"]
          /\ UNCHANGED news
       \/ /\ pf' = [pf EXCEPT ![i] = [Unused EXCEPT !.call = "returned"]]
          /\ news' = (news \/ pf[i].by = "restore")
    /\ UNCHANGED <<nextID, started, stopped, ui, pending, file, owed>>

\* Start, second part: the entry is listed, and the caller gets its message.
AppendEntry(i) ==
    /\ pf[i].call = "launched"
    /\ pf' = [pf EXCEPT ![i].call = "returned", ![i].by = "none",
                        ![i].listed = TRUE, ![i].status = "Starting"]
    /\ IF pf[i].by = "user"
       THEN Tell /\ started' = started \cup {i}
       ELSE news' = TRUE /\ UNCHANGED started
    /\ UNCHANGED <<nextID, stopped, ui, pending, file, owed>>

\* The monitor reads "Forwarding from": perhaps after the entry was retired.
Ready(i) ==
    /\ pf[i].call = "returned" /\ ~pf[i].ready /\ pf[i].proc # "gone"
    /\ pf' = [pf EXCEPT ![i].ready = TRUE, ![i].port = "set",
                        ![i].status = IF @ = "Starting" THEN "Running" ELSE @]
    /\ Tell
    /\ UNCHANGED <<nextID, started, stopped, ui, pending, file, owed>>

\* The process has ended, by itself or killed: recordProcessExit.
Exit(i) ==
    /\ pf[i].call = "returned" /\ pf[i].proc \in {"alive", "killed"}
    /\ pf' = [pf EXCEPT ![i].proc = "gone",
                        ![i].status = IF IsLive(pf[i]) THEN "Ended" ELSE @]
    /\ IF IsLive(pf[i])
       THEN Tell /\ owed' = owed \ {i} ELSE UNCHANGED <<news, owed>>
    /\ UNCHANGED <<nextID, started, stopped, ui, pending, file>>

Cancelled(e) == [e EXCEPT !.proc = IF @ = "alive" THEN "killed" ELSE @]

\* Stop, run by the command stopPortForward returned.
StopForward(i) ==
    /\ pf[i].stop
    /\ stopped' = stopped \cup {i}
    /\ IF pf[i].listed /\ IsLive(pf[i])
       THEN /\ pf' = [pf EXCEPT ![i] = [Cancelled(@) EXCEPT !.status = "Ended",
                                                            !.stop = FALSE]]
            /\ owed' = owed \ {i}
            /\ Tell
       ELSE pf' = [pf EXCEPT ![i].stop = FALSE] /\ UNCHANGED <<news, owed>>
    /\ UNCHANGED <<nextID, started, ui, pending, file>>

\* Remove, of a listed entry.
Removed_keepsStarting(i) ==
    [(IF pf[i].status = "Running" THEN Cancelled(pf[i]) ELSE pf[i])
        EXCEPT !.listed = FALSE, !.shown = FALSE]
Removed(i) ==
    [(IF IsLive(pf[i]) THEN Cancelled(pf[i]) ELSE pf[i])
        EXCEPT !.listed = FALSE, !.shown = FALSE]

-----------------------------------------------------------------------------
(* The Update loop.  From Quit on it drops every message but the drain's.  *)

\* What saveCurrentPortForwards writes.
ToSave(P) == {[target |-> P[i].target, port |-> P[i].port] :
                i \in {j \in Ids : P[j].listed /\ IsLive(P[j])}}

Requested(t, port, by) ==
    [Unused EXCEPT !.call = "requested", !.target = t, !.port = port, !.by = by]

\* execKubectlPortForward.
UserStart(t) ==
    /\ ~ui.quitting /\ nextID < MaxForwards
    /\ nextID' = nextID + 1
    /\ pf' = [pf EXCEPT ![nextID'] =
                Requested(t, IF t \in RandomPort THEN "0" ELSE "set", "user")]
    /\ UNCHANGED <<news, started, stopped, ui, pending, file, owed>>

\* updatePortForwardStarted: the list is shown, unless the contexts cannot be
\* loaded, the file saved, a waiter made.
HandleStarted(i) ==
    /\ ~ui.quitting /\ i \in started
    /\ started' = started \ {i}
    /\ ShowIfThere
    /\ ui' = [ui EXCEPT !.last = i, !.listening = TRUE]
    /\ file' = ToSave(pf)
    /\ owed' = IF pf[i].listed /\ IsLive(pf[i]) THEN owed \cup {i} ELSE owed
    /\ UNCHANGED <<nextID, news, stopped, pending>>

\* The list is built: the user opens it, with a waiter, or a watch tick, shift+r
\* or the preview of its row rebuilds it, without one.
OpenForwards ==
    /\ ~ui.quitting
    /\ ui' = [ui EXCEPT !.listening = TRUE]
    /\ Show(pf)
    /\ UNCHANGED <<nextID, news, started, stopped, pending, file, owed>>

RefreshForwards ==
    /\ ~ui.quitting
    /\ Show(pf)
    /\ UNCHANGED <<nextID, news, started, stopped, ui, pending, file, owed>>

\* updatePortForwardUpdate: of a change, or of an entry past its grace period.
HandleForwardUpdate ==
    /\ ~ui.quitting
    /\ news \/ (ui.listening /\ ShownEnded(pf) # {})
    /\ news' = FALSE
    /\ IF ui.last # 0 /\ pf[ui.last].listed /\ pf[ui.last].port = "set"
       THEN /\ ui' = [ui EXCEPT !.last = 0, !.listening = TRUE]
            /\ file' = ToSave(pf)
       ELSE ui' = [ui EXCEPT !.listening = TRUE] /\ UNCHANGED file
    /\ ShowIfThere
    /\ UNCHANGED <<nextID, started, stopped, pending, owed>>

\* The action Stop on a row: the forward may end before its command runs.
UserStop(i) ==
    /\ ~ui.quitting /\ pf[i].listed /\ IsLive(pf[i])
    /\ Cardinality({j \in Ids : pf[j].stop} \cup stopped) < MaxStops
    /\ pf' = [pf EXCEPT ![i].stop = TRUE]
    /\ UNCHANGED <<nextID, news, started, stopped, ui, pending, file, owed>>

\* updatePortForwardStopped.
HandleStopped_whileQuitting(i) ==
    /\ i \in stopped
    /\ stopped' = stopped \ {i}
    /\ file' = ToSave(pf)
    /\ ShowIfThere
    /\ UNCHANGED <<nextID, news, started, ui, pending, owed>>
HandleStopped(i) ==
    /\ ~ui.quitting /\ i \in stopped
    /\ stopped' = stopped \ {i}
    /\ file' = ToSave(pf)
    /\ ShowIfThere
    /\ UNCHANGED <<nextID, news, started, ui, pending, owed>>

\* executeActionRemove and removeSelectedPortForward: the list is rebuilt and
\* the file saved on the same turn.
UserRemove(i) ==
    /\ ~ui.quitting /\ pf[i].listed
    /\ LET P == [pf EXCEPT ![i] = Removed(i)] IN Show(P) /\ file' = ToSave(P)
    /\ owed' = owed \ {i}
    /\ Tell
    /\ UNCHANGED <<nextID, started, stopped, ui, pending>>

\* restartPortForward: Remove, and a Start of the same target and port, which
\* is saved when its message is handled.
UserRestart(i) ==
    /\ ~ui.quitting /\ pf[i].listed /\ nextID < MaxForwards
    /\ nextID' = nextID + 1
    /\ pf' = [pf EXCEPT ![i] = Removed(i),
                        ![nextID'] = Requested(pf[i].target, pf[i].port, "user")]
    /\ owed' = owed \ {i}
    /\ Tell
    /\ UNCHANGED <<started, stopped, ui, pending, file>>

\* restorePortForwards, when the contexts are loaded: one Start per forward, and
\* a waiter.
RestoreForwards ==
    /\ ~ui.quitting /\ pending # {} /\ nextID + Cardinality(pending) <= MaxForwards
    /\ LET todo == SetToSeq(pending) IN
       /\ pf' = [i \in Ids |->
            IF i - nextID \in DOMAIN todo
            THEN Requested(todo[i - nextID].target, todo[i - nextID].port, "restore")
            ELSE pf[i]]
       /\ nextID' = nextID + Len(todo)
    /\ pending' = {}
    /\ ui' = [ui EXCEPT !.listening = TRUE]
    /\ UNCHANGED <<news, started, stopped, file, owed>>

\* beginShutdown: signalShutdown calls StopAll, and the loop is frozen.
Quit ==
    /\ ~ui.quitting
    /\ ui' = [ui EXCEPT !.quitting = TRUE]
    /\ pf' = [i \in Ids |->
         IF pf[i].listed /\ IsLive(pf[i])
         THEN [Cancelled(pf[i]) EXCEPT !.status = "Ended"] ELSE pf[i]]
    /\ news' = FALSE
    /\ UNCHANGED <<nextID, started, stopped, pending, file, owed>>

-----------------------------------------------------------------------------
ForwardsNext ==
    \/ \E i \in Ids : \/ Launch(i) \/ AppendEntry(i) \/ Ready(i) \/ Exit(i)
                      \/ StopForward(i)
                      \/ HandleStarted(i) \/ HandleStopped(i)
                      \/ UserStop(i) \/ UserRemove(i) \/ UserRestart(i)
    \/ \E t \in Targets : UserStart(t)
    \/ HandleForwardUpdate \/ OpenForwards \/ RefreshForwards
    \/ RestoreForwards \/ Quit

ForwardsSpec == ForwardsInit /\ [][ForwardsNext]_forwardVars

\* A forward that Stop, StopAll or the end of its process retired stays as it
\* is, whatever its monitor still reads from kubectl.
RetiredStays ==
    [][\A i \in Ids : IsTerminal(pf[i]) => pf'[i].status = pf[i].status]_forwardVars

\* Every kubectl process that nobody cancelled can still be reached: its entry
\* is listed and live, or its Start is about to list it.
NoProcessLost ==
    \A i \in Ids : pf[i].proc = "alive" =>
        pf[i].call = "launched" \/ (pf[i].listed /\ IsLive(pf[i]))

\* A forward the user was told is up, and that he has not stopped, removed or
\* lost since, is in the file in every state the program may die in, and after
\* he quits, which stops it.
ForwardsSurvive == \A i \in owed : \E s \in file : s.target = pf[i].target
=============================================================================
