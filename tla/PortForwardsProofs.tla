-------------------------- MODULE PortForwardsProofs --------------------------
(***************************************************************************)
(* Proofs about the port-forward manager: for any number of forwards, of   *)
(* targets and of commands under way, no kubectl process is lost, what was *)
(* retired stays so, and the next session gets the forwards it is owed.    *)
(*                                                                         *)
(* The invariant follows a call of Start: its id is new, its entry gets a  *)
(* status and is listed when it returns and not before (CallsInOrder).     *)
(* The forwards owed to the next session are listed and live until the     *)
(* user quits (OwedAreUp), which is why every save writes them.  That what *)
(* a save writes has a target needs the call of Start to keep its target   *)
(* until the entry is listed (Targeted).                                   *)
(*                                                                         *)
(* The second half is about the commands that wait on one listener of the  *)
(* managers (UpdateWaiters): no change is lost, and a deadline that is     *)
(* armed is held by one command that waits for it.                         *)
(***************************************************************************)
EXTENDS PortForwards, UpdateWaiters, FiniteSetTheorems, SequenceTheorems,
        WellFoundedInduction, TLAPS

ForwardEntry ==
    [call : {"unused", "requested", "launched", "returned"},
     target : Targets \cup {"none"}, port : {"0", "set"},
     by : {"none", "user", "restore"}, listed : BOOLEAN,
     status : {"none", "Starting", "Running", "Ended"},
     shown : BOOLEAN, ready : BOOLEAN,
     proc : {"none", "alive", "killed", "gone"}, stop : BOOLEAN]

\* The types the proofs need: the file, which nothing is read from, and the
\* messages have theirs from SavesTypeOK.
EntriesTypeOK ==
    /\ pf \in [Ids -> ForwardEntry]
    /\ nextID \in 0 .. MaxForwards
    /\ ui \in [last : 0 .. MaxForwards, listening : BOOLEAN, quitting : BOOLEAN]
    /\ pending \subseteq Saved
    /\ owed \subseteq Ids

\* Ids are given out in order, and an entry is nothing before its Start returns.
CallsInOrder ==
    /\ \A i \in Ids : i > nextID => pf[i].call = "unused"
    /\ \A i \in Ids : pf[i].status # "none" => pf[i].call = "returned"
    /\ \A i \in Ids : pf[i].listed => pf[i].call = "returned"

\* What is owed was listed, and is until the loop is frozen.
OwedAreUp ==
    \A i \in owed : /\ pf[i].call = "returned"
                    /\ ~ui.quitting => pf[i].listed /\ IsLive(pf[i])

ForwardsInv ==
    /\ EntriesTypeOK /\ CallsInOrder /\ OwedAreUp
    /\ NoProcessLost /\ ForwardsSurvive

-----------------------------------------------------------------------------
\* There are finitely many forwards to save.
LEMMA SavedIsFinite == IsFiniteSet(Saved)
  <1> DEFINE P == Targets \X {"0", "set"}
             f == [x \in P |-> [target |-> x[1], port |-> x[2]]]
  <1>1. IsFiniteSet({"0", "set"})
    <2>1. IsFiniteSet({"0"}) /\ {"0", "set"} = {"0"} \cup {"set"}
      BY FS_Singleton
    <2> QED
      BY <2>1, FS_AddElement
  <1>2. IsFiniteSet(P)
    BY <1>1, ForwardsAssumption, FS_Product
  <1>3. f \in Surjection(P, Saved)
    <2>1. f \in [P -> Saved]
      BY DEF Saved
    <2>2. ASSUME NEW s \in Saved PROVE \E x \in P : f[x] = s
      <3>1. <<s.target, s.port>> \in P /\ s = [target |-> s.target, port |-> s.port]
        BY DEF Saved
      <3> QED
        BY <3>1
    <2> QED
      BY <2>1, <2>2 DEF Surjection
  <1> QED
    BY <1>2, <1>3, FS_Surjection DEF ExistsSurjection

\* The order they are restored in is an enumeration of them.
LEMMA TodoIsPending ==
    ASSUME NEW S, S \subseteq Saved
    PROVE  /\ SetToSeq(S) \in [1 .. Cardinality(S) -> S]
           /\ Len(SetToSeq(S)) = Cardinality(S) /\ Cardinality(S) \in Nat
  <1>1. IsFiniteSet(S)
    BY SavedIsFinite, FS_Subset
  <1>2. Cardinality(S) \in Nat /\ ExistsBijection(1 .. Cardinality(S), S)
    BY <1>1, FS_CardinalityType
  <1>3. \E f \in [1 .. Cardinality(S) -> S] : IsInjective(f)
    BY <1>2 DEF ExistsBijection, Bijection, Injection, IsInjective
  <1>4. SetToSeq(S) \in [1 .. Cardinality(S) -> S]
    BY <1>3 DEF SetToSeq
  <1> QED
    BY <1>2, <1>4

-----------------------------------------------------------------------------
(* What becomes of an entry.                                               *)

\* A new call of Start.
LEMMA RequestedIs ==
    ASSUME NEW t \in Targets, NEW port \in {"0", "set"}, NEW by \in {"user", "restore"}
    PROVE  /\ Requested(t, port, by) \in ForwardEntry
           /\ Requested(t, port, by).call = "requested"
           /\ Requested(t, port, by).status = "none"
           /\ Requested(t, port, by).listed = FALSE
           /\ Requested(t, port, by).proc = "none"
  BY DEF Requested, Unused, ForwardEntry

\* The context of its process is done.
LEMMA CancelledIs ==
    ASSUME NEW e \in ForwardEntry
    PROVE  /\ Cancelled(e) \in ForwardEntry /\ Cancelled(e).proc # "alive"
           /\ Cancelled(e).call = e.call /\ Cancelled(e).status = e.status
           /\ Cancelled(e).target = e.target /\ Cancelled(e).listed = e.listed
  BY DEF Cancelled, ForwardEntry

\* It is off the list.
LEMMA RemovedIs ==
    ASSUME pf \in [Ids -> ForwardEntry], NEW i \in Ids
    PROVE  /\ Removed(i) \in ForwardEntry
           /\ Removed(i).listed = FALSE /\ Removed(i).call = pf[i].call
           /\ Removed(i).status = pf[i].status /\ Removed(i).target = pf[i].target
           /\ IsLive(pf[i]) => Removed(i).proc # "alive"
           /\ ~IsLive(pf[i]) => Removed(i).proc = pf[i].proc
  <1> DEFINE e == IF IsLive(pf[i]) THEN Cancelled(pf[i]) ELSE pf[i]
  <1>1. /\ e \in ForwardEntry /\ e.call = pf[i].call /\ e.status = pf[i].status
        /\ e.target = pf[i].target /\ (IsLive(pf[i]) => e.proc # "alive")
        /\ (~IsLive(pf[i]) => e.proc = pf[i].proc)
    BY CancelledIs
  <1>2. Removed(i) = [e EXCEPT !.listed = FALSE, !.shown = FALSE]
    BY DEF Removed
  <1> HIDE DEF e
  <1> QED
    BY <1>1, <1>2 DEF ForwardEntry

\* One entry changes.
LEMMA OneChanges ==
    ASSUME pf \in [Ids -> ForwardEntry], NEW i \in Ids, NEW r \in ForwardEntry,
           pf' = [pf EXCEPT ![i] = r]
    PROVE  /\ pf' \in [Ids -> ForwardEntry]
           /\ pf'[i] = r
           /\ \A j \in Ids : j # i => pf'[j] = pf[j]
  <1>1. pf' \in [Ids -> ForwardEntry]
    OBVIOUS
  <1>2. pf'[i] = r
    OBVIOUS
  <1>3. \A j \in Ids : j # i => pf'[j] = pf[j]
    OBVIOUS
  <1> QED
    BY <1>1, <1>2, <1>3

\* Building the list only drops and stamps ended entries.
LEMMA ShowKeeps ==
    ASSUME NEW P \in [Ids -> ForwardEntry], Show(P)
    PROVE  /\ pf' \in [Ids -> ForwardEntry]
           /\ \A j \in Ids :
                /\ pf'[j].call = P[j].call /\ pf'[j].status = P[j].status
                /\ pf'[j].proc = P[j].proc /\ pf'[j].target = P[j].target
                /\ pf'[j].listed => P[j].listed
                /\ P[j].listed /\ ~IsTerminal(P[j]) => pf'[j].listed
  <1>1. PICK old \in SUBSET ShownEnded(P) :
          pf' = [j \in Ids |->
                  [P[j] EXCEPT !.listed = @ /\ j \notin old,
                               !.shown  = P[j].listed /\ IsTerminal(P[j]) /\ j \notin old]]
    BY DEF Show
  <1>2. ASSUME NEW j \in Ids
        PROVE  /\ pf'[j] \in ForwardEntry
               /\ pf'[j].call = P[j].call /\ pf'[j].status = P[j].status
               /\ pf'[j].proc = P[j].proc /\ pf'[j].target = P[j].target
               /\ pf'[j].listed = (P[j].listed /\ j \notin old)
    <2> DEFINE l == P[j].listed /\ j \notin old
               s == P[j].listed /\ IsTerminal(P[j]) /\ j \notin old
    <2>1. P[j] \in ForwardEntry /\ l \in BOOLEAN /\ s \in BOOLEAN
      OBVIOUS
    <2>2. pf'[j] = [P[j] EXCEPT !.listed = l, !.shown = s]
      BY <1>1
    <2> HIDE DEF l, s
    <2>3. /\ pf'[j] \in ForwardEntry /\ pf'[j].listed = l
          /\ pf'[j].call = P[j].call /\ pf'[j].status = P[j].status
          /\ pf'[j].proc = P[j].proc /\ pf'[j].target = P[j].target
      BY <2>1, <2>2 DEF ForwardEntry
    <2> QED
      BY <2>3 DEF l
  <1>3. pf' \in [Ids -> ForwardEntry]
    BY <1>1, <1>2
  <1>4. \A j \in Ids : j \in old => IsTerminal(P[j])
    BY DEF ShownEnded
  <1> QED
    BY <1>2, <1>3, <1>4

\* The list may be built or not.
LEMMA MaybeShowKeeps ==
    ASSUME pf \in [Ids -> ForwardEntry], ShowIfThere
    PROVE  /\ pf' \in [Ids -> ForwardEntry]
           /\ \A j \in Ids :
                /\ pf'[j].call = pf[j].call /\ pf'[j].status = pf[j].status
                /\ pf'[j].proc = pf[j].proc /\ pf'[j].target = pf[j].target
                /\ pf'[j].listed => pf[j].listed
                /\ pf[j].listed /\ ~IsTerminal(pf[j]) => pf'[j].listed
  <1>1. CASE Show(pf)
    BY <1>1, ShowKeeps
  <1>2. CASE UNCHANGED pf
    BY <1>2
  <1> QED
    BY <1>1, <1>2 DEF ShowIfThere

\* kubectl is started, or fails to.
LEMMA LaunchEffect ==
    ASSUME pf \in [Ids -> ForwardEntry], NEW i \in Ids, Launch(i)
    PROVE  /\ pf' \in [Ids -> ForwardEntry]
           /\ \A j \in Ids : j # i => pf'[j] = pf[j]
           /\ \/ pf'[i].call = "launched" /\ pf'[i].status = pf[i].status
                 /\ pf'[i].listed = pf[i].listed /\ pf'[i].target = pf[i].target
                 /\ pf[i].call = "requested"
              \/ pf'[i].call = "returned" /\ pf'[i].proc = "none"
                 /\ pf'[i].status = "none" /\ pf'[i].listed = FALSE
  <1>1. CASE pf' = [pf EXCEPT ![i].call = "launched", ![i].proc = "alive"]
    <2> DEFINE r == [pf[i] EXCEPT !.call = "launched", !.proc = "alive"]
    <2>1. r \in ForwardEntry
      <3>1. pf[i] \in ForwardEntry
        OBVIOUS
      <3> QED
        BY <3>1 DEF ForwardEntry
    <2>2. pf' = [pf EXCEPT ![i] = r]
      BY <1>1
    <2>3. pf' \in [Ids -> ForwardEntry] /\ pf'[i] = r /\ \A j \in Ids : j # i => pf'[j] = pf[j]
      BY <2>1, <2>2, OneChanges
    <2>4. pf[i].call = "requested"
      BY DEF Launch
    <2> QED
      BY <2>3, <2>4 DEF ForwardEntry
  <1>2. CASE pf' = [pf EXCEPT ![i] = [Unused EXCEPT !.call = "returned"]]
    <2> DEFINE r == [Unused EXCEPT !.call = "returned"]
    <2>1. r \in ForwardEntry /\ r.call = "returned" /\ r.proc = "none" /\ r.status = "none"
          /\ r.listed = FALSE
      BY DEF Unused, ForwardEntry
    <2>2. pf' = [pf EXCEPT ![i] = r]
      BY <1>2
    <2> HIDE DEF r
    <2> QED
      BY <2>1, <2>2, OneChanges
  <1> QED
    BY <1>1, <1>2 DEF Launch

\* The entry is listed.
LEMMA AppendEntryEffect ==
    ASSUME pf \in [Ids -> ForwardEntry], NEW i \in Ids, AppendEntry(i)
    PROVE  /\ pf' \in [Ids -> ForwardEntry]
           /\ \A j \in Ids : j # i => pf'[j] = pf[j]
           /\ pf'[i].call = "returned" /\ pf'[i].status = "Starting" /\ pf'[i].listed = TRUE
           /\ pf'[i].target = pf[i].target /\ pf'[i].proc = pf[i].proc
           /\ pf[i].call = "launched"
  <1> DEFINE r == [pf[i] EXCEPT !.call = "returned", !.by = "none", !.listed = TRUE, !.status = "Starting"]
  <1>1. r \in ForwardEntry
    <2>1. pf[i] \in ForwardEntry
      OBVIOUS
    <2> QED
      BY <2>1 DEF ForwardEntry
  <1>2. pf' = [pf EXCEPT ![i] = r]
    BY DEF AppendEntry
  <1>3. pf' \in [Ids -> ForwardEntry] /\ pf'[i] = r /\ \A j \in Ids : j # i => pf'[j] = pf[j]
    BY <1>1, <1>2, OneChanges
  <1> QED
    BY <1>3 DEF AppendEntry, ForwardEntry

\* A retired forward stays retired.
LEMMA ReadyEffect ==
    ASSUME pf \in [Ids -> ForwardEntry], NEW i \in Ids, Ready(i)
    PROVE  /\ pf' \in [Ids -> ForwardEntry]
           /\ \A j \in Ids : j # i => pf'[j] = pf[j]
           /\ pf'[i].call = pf[i].call /\ pf'[i].target = pf[i].target
           /\ pf'[i].listed = pf[i].listed /\ pf'[i].proc = pf[i].proc
           /\ IsLive(pf'[i]) = IsLive(pf[i]) /\ (~IsLive(pf[i]) => pf'[i].status = pf[i].status)
  <1> DEFINE r == [pf[i] EXCEPT !.ready = TRUE, !.port = "set",
                            !.status = IF pf[i].status = "Starting" THEN "Running" ELSE pf[i].status]
  <1>1. r \in ForwardEntry
    <2>1. pf[i] \in ForwardEntry
      OBVIOUS
    <2> QED
      BY <2>1 DEF ForwardEntry
  <1>2. pf' = [pf EXCEPT ![i] = r]
    BY DEF Ready
  <1>3. pf' \in [Ids -> ForwardEntry] /\ pf'[i] = r /\ \A j \in Ids : j # i => pf'[j] = pf[j]
    BY <1>1, <1>2, OneChanges
  <1> QED
    BY <1>3 DEF Ready, ForwardEntry, IsLive

\* Only a live entry ends with its process.
LEMMA ExitEffect ==
    ASSUME pf \in [Ids -> ForwardEntry], NEW i \in Ids, Exit(i)
    PROVE  /\ pf' \in [Ids -> ForwardEntry]
           /\ \A j \in Ids : j # i => pf'[j] = pf[j]
           /\ pf'[i].call = pf[i].call /\ pf'[i].target = pf[i].target /\ pf'[i].listed = pf[i].listed
           /\ pf'[i].proc = "gone" /\ (~IsLive(pf[i]) => pf'[i].status = pf[i].status)
  <1> DEFINE r == [pf[i] EXCEPT !.proc = "gone", !.status = IF IsLive(pf[i]) THEN "Ended" ELSE pf[i].status]
  <1>1. r \in ForwardEntry
    <2>1. pf[i] \in ForwardEntry
      OBVIOUS
    <2> QED
      BY <2>1 DEF ForwardEntry
  <1>2. pf' = [pf EXCEPT ![i] = r]
    BY DEF Exit
  <1>3. pf' \in [Ids -> ForwardEntry] /\ pf'[i] = r /\ \A j \in Ids : j # i => pf'[j] = pf[j]
    BY <1>1, <1>2, OneChanges
  <1> QED
    BY <1>3 DEF Exit, ForwardEntry

\* The command of Stop is on its way.
LEMMA UserStopEffect ==
    ASSUME pf \in [Ids -> ForwardEntry], NEW i \in Ids, UserStop(i)
    PROVE  /\ pf' \in [Ids -> ForwardEntry]
           /\ \A j \in Ids : j # i => pf'[j] = pf[j]
           /\ pf'[i].call = pf[i].call /\ pf'[i].target = pf[i].target /\ pf'[i].listed = pf[i].listed
           /\ pf'[i].proc = pf[i].proc /\ pf'[i].status = pf[i].status
  <1> DEFINE r == [pf[i] EXCEPT !.stop = TRUE]
  <1>1. r \in ForwardEntry
    <2>1. pf[i] \in ForwardEntry
      OBVIOUS
    <2> QED
      BY <2>1 DEF ForwardEntry
  <1>2. pf' = [pf EXCEPT ![i] = r]
    BY DEF UserStop
  <1>3. pf' \in [Ids -> ForwardEntry] /\ pf'[i] = r /\ \A j \in Ids : j # i => pf'[j] = pf[j]
    BY <1>1, <1>2, OneChanges
  <1> QED
    BY <1>3 DEF ForwardEntry

\* Stop cancels what is listed and live, and leaves the rest alone.
LEMMA StopForwardEffect ==
    ASSUME pf \in [Ids -> ForwardEntry], NEW i \in Ids, StopForward(i)
    PROVE  /\ pf' \in [Ids -> ForwardEntry]
           /\ \A j \in Ids : j # i => pf'[j] = pf[j]
           /\ pf'[i].call = pf[i].call /\ pf'[i].target = pf[i].target
              /\ pf'[i].listed = pf[i].listed
           /\ pf[i].listed /\ IsLive(pf[i]) => pf'[i].proc # "alive"
           /\ ~(pf[i].listed /\ IsLive(pf[i])) =>
                 pf'[i].proc = pf[i].proc /\ pf'[i].status = pf[i].status
  <1>1. CASE pf[i].listed /\ IsLive(pf[i])
    <2> DEFINE c == Cancelled(pf[i])
               r == [c EXCEPT !.status = "Ended", !.stop = FALSE]
    <2>1. c \in ForwardEntry /\ c.proc # "alive" /\ c.call = pf[i].call
          /\ c.target = pf[i].target /\ c.listed = pf[i].listed
      BY CancelledIs
    <2>2. pf' = [pf EXCEPT ![i] = r]
      BY <1>1 DEF StopForward
    <2> HIDE DEF c
    <2>3. r \in ForwardEntry /\ r.proc = c.proc /\ r.call = c.call /\ r.target = c.target
          /\ r.listed = c.listed
      BY <2>1 DEF ForwardEntry
    <2> HIDE DEF r
    <2> QED
      BY <1>1, <2>1, <2>2, <2>3, OneChanges
  <1>2. CASE ~(pf[i].listed /\ IsLive(pf[i]))
    <2> DEFINE r == [pf[i] EXCEPT !.stop = FALSE]
    <2>1. r \in ForwardEntry
      <3>1. pf[i] \in ForwardEntry
        OBVIOUS
      <3> QED
        BY <3>1 DEF ForwardEntry
    <2>2. pf' = [pf EXCEPT ![i] = r]
      BY <1>2 DEF StopForward
    <2>3. pf' \in [Ids -> ForwardEntry] /\ pf'[i] = r /\ \A j \in Ids : j # i => pf'[j] = pf[j]
      BY <2>1, <2>2, OneChanges
    <2> QED
      BY <1>2, <2>3 DEF ForwardEntry
  <1> QED
    BY <1>1, <1>2

\* Remove takes the entry off the list and rebuilds it.
LEMMA UserRemoveEffect ==
    ASSUME pf \in [Ids -> ForwardEntry], NEW i \in Ids, UserRemove(i)
    PROVE  /\ pf' \in [Ids -> ForwardEntry]
           /\ \A j \in Ids :
                /\ pf'[j].call = pf[j].call /\ pf'[j].status = pf[j].status
                /\ pf'[j].target = pf[j].target
                /\ pf'[j].listed => pf[j].listed
                /\ j # i => pf'[j].proc = pf[j].proc
                /\ j # i /\ pf[j].listed /\ ~IsTerminal(pf[j]) => pf'[j].listed
           /\ pf'[i].proc = "alive" => ~IsLive(pf[i]) /\ pf[i].proc = "alive"
           /\ file' = ToSave([pf EXCEPT ![i] = Removed(i)])
  <1> DEFINE P == [pf EXCEPT ![i] = Removed(i)]
  <1>1. P \in [Ids -> ForwardEntry] /\ P[i] = Removed(i) /\ \A j \in Ids : j # i => P[j] = pf[j]
    BY RemovedIs
  <1>2. Show(P) /\ file' = ToSave(P) /\ pf[i].listed
    BY DEF UserRemove
  <1> HIDE DEF P
  <1>3. /\ pf' \in [Ids -> ForwardEntry]
        /\ \A j \in Ids :
             /\ pf'[j].call = P[j].call /\ pf'[j].status = P[j].status
             /\ pf'[j].proc = P[j].proc /\ pf'[j].target = P[j].target
             /\ pf'[j].listed => P[j].listed
             /\ P[j].listed /\ ~IsTerminal(P[j]) => pf'[j].listed
    BY <1>1, <1>2, ShowKeeps
  <1>4. /\ Removed(i).listed = FALSE /\ Removed(i).call = pf[i].call
        /\ Removed(i).status = pf[i].status /\ Removed(i).target = pf[i].target
        /\ (IsLive(pf[i]) => Removed(i).proc # "alive")
        /\ (~IsLive(pf[i]) => Removed(i).proc = pf[i].proc)
    BY RemovedIs
  <1>5. \A j \in Ids : j # i =>
           /\ pf'[j].call = pf[j].call /\ pf'[j].status = pf[j].status
           /\ pf'[j].target = pf[j].target /\ pf'[j].proc = pf[j].proc
           /\ pf'[j].listed => pf[j].listed
           /\ pf[j].listed /\ ~IsTerminal(pf[j]) => pf'[j].listed
    BY <1>1, <1>3
  <1>6. /\ pf'[i].call = pf[i].call /\ pf'[i].status = pf[i].status
        /\ pf'[i].target = pf[i].target /\ (pf'[i].listed => pf[i].listed)
        /\ (pf'[i].proc = "alive" => ~IsLive(pf[i]) /\ pf[i].proc = "alive")
    BY <1>1, <1>2, <1>3, <1>4
  <1>7. file' = ToSave([pf EXCEPT ![i] = Removed(i)])
    BY <1>2 DEF P
  <1> QED
    BY <1>3, <1>5, <1>6, <1>7

\* Whoever calls Start takes ids that were not in use.
NewCall(j) ==
    /\ pf'[j].call = "requested" /\ pf'[j].status = "none"
    /\ pf'[j].listed = FALSE /\ pf'[j].proc = "none"

\* A step that takes new ids, and lists nothing else, keeps the order.
LEMMA NewCallsInOrder ==
    ASSUME CallsInOrder, nextID \in 0 .. MaxForwards, nextID' \in 0 .. MaxForwards,
           nextID' >= nextID,
           \A j \in Ids : IF j > nextID /\ j <= nextID' THEN NewCall(j)
                         ELSE /\ pf'[j].call = pf[j].call /\ pf'[j].status = pf[j].status
                              /\ pf'[j].listed => pf[j].listed
    PROVE  CallsInOrder'
  <1> USE ForwardsAssumption
  <1>1. ASSUME NEW j \in Ids PROVE j > nextID' => pf'[j].call = "unused"
    <2> SUFFICES ASSUME j > nextID' PROVE pf'[j].call = "unused"
      OBVIOUS
    <2>1. j > nextID /\ ~(j <= nextID')
      BY DEF Ids
    <2> QED
      BY <2>1 DEF CallsInOrder
  <1>2. ASSUME NEW j \in Ids PROVE pf'[j].status # "none" => pf'[j].call = "returned"
    BY DEF CallsInOrder, NewCall
  <1>3. ASSUME NEW j \in Ids PROVE pf'[j].listed => pf'[j].call = "returned"
    BY DEF CallsInOrder, NewCall
  <1> QED
    BY <1>1, <1>2, <1>3 DEF CallsInOrder

\* A new forward.
LEMMA UserStartEffect ==
    ASSUME pf \in [Ids -> ForwardEntry], nextID \in 0 .. MaxForwards,
           NEW t \in Targets, UserStart(t)
    PROVE  /\ pf' \in [Ids -> ForwardEntry] /\ nextID' \in 0 .. MaxForwards /\ nextID' > nextID
           /\ \A j \in Ids : IF j > nextID /\ j <= nextID' THEN NewCall(j) ELSE pf'[j] = pf[j]
           /\ \A j \in Ids : j > nextID /\ j <= nextID' => pf'[j].target \in Targets
  <1> DEFINE port == IF t \in RandomPort THEN "0" ELSE "set"
             r == Requested(t, port, "user")
  <1>1. nextID' = nextID + 1 /\ nextID' \in Ids /\ nextID' \in 0 .. MaxForwards
    BY ForwardsAssumption DEF UserStart, Ids
  <1>2. r \in ForwardEntry /\ r.call = "requested" /\ r.status = "none"
        /\ r.listed = FALSE /\ r.proc = "none" /\ r.target = t
    <2>1. port \in {"0", "set"} /\ "user" \in {"user", "restore"}
      OBVIOUS
    <2>2. r.target = t
      BY DEF Requested, Unused
    <2> HIDE DEF port
    <2>3. r \in ForwardEntry /\ r.call = "requested" /\ r.status = "none"
          /\ r.listed = FALSE /\ r.proc = "none"
      BY <2>1, RequestedIs
    <2> QED
      BY <2>2, <2>3
  <1>3. pf' = [pf EXCEPT ![nextID'] = r]
    BY DEF UserStart
  <1> HIDE DEF r
  <1>4. pf' \in [Ids -> ForwardEntry] /\ pf'[nextID'] = r
        /\ \A j \in Ids : j # nextID' => pf'[j] = pf[j]
    <2>1. PICK k \in Ids : k = nextID'
      BY <1>1
    <2> QED
      BY <1>2, <1>3, <2>1, OneChanges
  <1>5. \A j \in Ids : j > nextID /\ j <= nextID' <=> j = nextID'
    BY <1>1 DEF Ids
  <1> QED
    BY <1>1, <1>2, <1>4, <1>5 DEF NewCall

\* A restart: the old entry is removed, and a new call made.
LEMMA UserRestartEffect ==
    ASSUME pf \in [Ids -> ForwardEntry], nextID \in 0 .. MaxForwards, CallsInOrder,
           NEW i \in Ids, UserRestart(i)
    PROVE  /\ pf' \in [Ids -> ForwardEntry] /\ nextID' \in 0 .. MaxForwards /\ nextID' > nextID
           /\ i <= nextID /\ pf[i].listed
           /\ \A j \in Ids : j > nextID /\ j <= nextID' => pf'[j].target = pf[i].target
           /\ pf'[i].call = pf[i].call /\ pf'[i].status = pf[i].status
              /\ pf'[i].target = pf[i].target /\ pf'[i].listed = FALSE
           /\ pf'[i].proc = "alive" => ~IsLive(pf[i]) /\ pf[i].proc = "alive"
           /\ \A j \in Ids : j # i =>
                IF j > nextID /\ j <= nextID' THEN NewCall(j) ELSE pf'[j] = pf[j]
  <1> DEFINE q == Requested(pf[i].target, pf[i].port, "user")
             s == Removed(i)
  <1>1. nextID' = nextID + 1 /\ nextID' \in Ids /\ nextID' \in 0 .. MaxForwards
    BY ForwardsAssumption DEF UserRestart, Ids
  <1>2. pf[i].listed /\ i <= nextID
    <2>1. pf[i].listed
      BY DEF UserRestart
    <2>2. pf[i].call = "returned"
      BY <2>1 DEF CallsInOrder
    <2>3. ~(i > nextID)
      BY <2>2 DEF CallsInOrder
    <2> QED
      BY <2>1, <2>3 DEF Ids
  <1>3. s \in ForwardEntry /\ s.call = pf[i].call /\ s.status = pf[i].status
        /\ s.target = pf[i].target /\ s.listed = FALSE
        /\ (s.proc = "alive" => ~IsLive(pf[i]) /\ pf[i].proc = "alive")
    BY RemovedIs
  <1>4. q \in ForwardEntry /\ q.call = "requested" /\ q.status = "none"
        /\ q.listed = FALSE /\ q.proc = "none" /\ q.target = pf[i].target
    <2>1. pf[i] \in ForwardEntry
      OBVIOUS
    <2> QED
      BY <2>1 DEF Requested, Unused, ForwardEntry
  <1>5. pf' = [pf EXCEPT ![i] = s, ![nextID'] = q]
    BY DEF UserRestart
  <1> HIDE DEF q, s
  <1>6. i # nextID'
    BY <1>1, <1>2 DEF Ids
  <1>7. pf' \in [Ids -> ForwardEntry] /\ pf'[nextID'] = q /\ pf'[i] = s
        /\ \A j \in Ids : j # nextID' /\ j # i => pf'[j] = pf[j]
    BY <1>1, <1>3, <1>4, <1>5, <1>6
  <1>8. \A j \in Ids : j > nextID /\ j <= nextID' <=> j = nextID'
    BY <1>1 DEF Ids
  <1> QED
    BY <1>1, <1>2, <1>3, <1>4, <1>7, <1>8 DEF NewCall

\* The forwards of the last session.
LEMMA RestoreEffect ==
    ASSUME pf \in [Ids -> ForwardEntry], nextID \in 0 .. MaxForwards,
           pending \subseteq Saved, RestoreForwards
    PROVE  /\ pf' \in [Ids -> ForwardEntry] /\ nextID' \in 0 .. MaxForwards /\ nextID' >= nextID
           /\ \A j \in Ids : IF j > nextID /\ j <= nextID' THEN NewCall(j) ELSE pf'[j] = pf[j]
           /\ \A j \in Ids : j > nextID /\ j <= nextID' => pf'[j].target \in Targets
  <1> DEFINE todo == SetToSeq(pending)
             n == Cardinality(pending)
  <1>1. todo \in [1 .. n -> pending] /\ Len(todo) = n /\ n \in Nat
    BY TodoIsPending
  <1>2. /\ nextID + n <= MaxForwards /\ nextID' = nextID + Len(todo)
        /\ pf' = [j \in Ids |->
              IF j - nextID \in DOMAIN todo
              THEN Requested(todo[j - nextID].target, todo[j - nextID].port, "restore")
              ELSE pf[j]]
    BY DEF RestoreForwards
  <1> HIDE DEF todo, n
  <1>3. nextID' = nextID + n /\ nextID' \in 0 .. MaxForwards /\ nextID' >= nextID
    BY <1>1, <1>2, ForwardsAssumption
  <1>4. ASSUME NEW j \in Ids
        PROVE  /\ pf'[j] \in ForwardEntry
               /\ IF j > nextID /\ j <= nextID' THEN NewCall(j) ELSE pf'[j] = pf[j]
               /\ j > nextID /\ j <= nextID' => pf'[j].target \in Targets
    <2>1. j - nextID \in DOMAIN todo <=> j > nextID /\ j <= nextID'
      BY <1>1, <1>3 DEF Ids
    <2>2. CASE j - nextID \in DOMAIN todo
      <3> DEFINE x == todo[j - nextID]
                 q == Requested(x.target, x.port, "restore")
      <3>1. x \in Saved
        BY <1>1, <2>2
      <3>2. x.target \in Targets /\ x.port \in {"0", "set"}
        BY <3>1 DEF Saved
      <3>3. q \in ForwardEntry /\ q.call = "requested" /\ q.status = "none"
            /\ q.listed = FALSE /\ q.proc = "none" /\ q.target = x.target
        <4>1. "restore" \in {"user", "restore"}
          OBVIOUS
        <4> HIDE DEF x
        <4>2. q.target = x.target
          BY DEF Requested, Unused
        <4>3. q \in ForwardEntry /\ q.call = "requested" /\ q.status = "none"
              /\ q.listed = FALSE /\ q.proc = "none"
          BY <3>2, <4>1, RequestedIs
        <4> QED
          BY <4>2, <4>3
      <3>4. pf'[j] = q
        BY <1>2, <2>2
      <3> QED
        BY <2>1, <2>2, <3>2, <3>3, <3>4 DEF NewCall
    <2>3. CASE j - nextID \notin DOMAIN todo
      BY <1>2, <2>1, <2>3
    <2> QED
      BY <2>2, <2>3
  <1>5. pf' \in [Ids -> ForwardEntry]
    BY <1>2, <1>4
  <1> QED
    BY <1>3, <1>4, <1>5

\* StopAll ends what is listed and live.
LEMMA QuitEffect ==
    ASSUME pf \in [Ids -> ForwardEntry], Quit
    PROVE  /\ pf' \in [Ids -> ForwardEntry]
           /\ \A j \in Ids :
                /\ pf'[j].call = pf[j].call /\ pf'[j].target = pf[j].target
                /\ pf'[j].listed = pf[j].listed
                /\ pf[j].listed /\ IsLive(pf[j]) =>
                     pf'[j].status = "Ended" /\ pf'[j].proc # "alive"
                /\ ~(pf[j].listed /\ IsLive(pf[j])) => pf'[j] = pf[j]
  <1>1. pf' = [j \in Ids |-> IF pf[j].listed /\ IsLive(pf[j])
                            THEN [Cancelled(pf[j]) EXCEPT !.status = "Ended"] ELSE pf[j]]
    BY DEF Quit
  <1>2. ASSUME NEW j \in Ids
        PROVE  /\ pf'[j] \in ForwardEntry
               /\ pf'[j].call = pf[j].call /\ pf'[j].target = pf[j].target
               /\ pf'[j].listed = pf[j].listed
               /\ pf[j].listed /\ IsLive(pf[j]) =>
                    pf'[j].status = "Ended" /\ pf'[j].proc # "alive"
               /\ ~(pf[j].listed /\ IsLive(pf[j])) => pf'[j] = pf[j]
    <2>1. CASE pf[j].listed /\ IsLive(pf[j])
      <3> DEFINE c == Cancelled(pf[j])
                 r == [c EXCEPT !.status = "Ended"]
      <3>1. c \in ForwardEntry /\ c.proc # "alive" /\ c.call = pf[j].call
            /\ c.target = pf[j].target /\ c.listed = pf[j].listed
        BY CancelledIs
      <3> HIDE DEF c
      <3>2. r \in ForwardEntry /\ r.proc = c.proc /\ r.call = c.call /\ r.target = c.target
            /\ r.listed = c.listed /\ r.status = "Ended"
        BY <3>1 DEF ForwardEntry
      <3>3. pf'[j] = r
        BY <1>1, <2>1 DEF c
      <3> HIDE DEF r
      <3> QED
        BY <2>1, <3>1, <3>2, <3>3
    <2>2. CASE ~(pf[j].listed /\ IsLive(pf[j]))
      BY <1>1, <2>2
    <2> QED
      BY <2>1, <2>2
  <1>3. pf' \in [Ids -> ForwardEntry]
    BY <1>1, <1>2
  <1> QED
    BY <1>2, <1>3

-----------------------------------------------------------------------------
(* The parts of the invariant.                                             *)

\* The invariant holds at the start of a session.
LEMMA ForwardsInitial == ForwardsInit => ForwardsInv
  <1> USE ForwardsAssumption
  <1> SUFFICES ASSUME ForwardsInit PROVE ForwardsInv
    OBVIOUS
  <1>1. Unused \in ForwardEntry
    BY DEF Unused, ForwardEntry
  <1>2. pf \in [Ids -> ForwardEntry]
    BY <1>1 DEF ForwardsInit
  <1>3. pending \subseteq Saved
    BY DEF ForwardsInit, Saved
  <1>4. nextID \in 0 .. MaxForwards /\ ui \in [last : 0 .. MaxForwards, listening : BOOLEAN, quitting : BOOLEAN]
    BY DEF ForwardsInit
  <1>5. EntriesTypeOK
    BY <1>2, <1>3, <1>4 DEF ForwardsInit, EntriesTypeOK
  <1>6. \A i \in Ids : pf[i].call = "unused" /\ pf[i].status = "none" /\ pf[i].listed = FALSE
                      /\ pf[i].proc = "none"
    BY DEF ForwardsInit, Unused
  <1>7. owed = {}
    BY DEF ForwardsInit
  <1> QED
    BY <1>5, <1>6, <1>7 DEF ForwardsInv, CallsInOrder, OwedAreUp, NoProcessLost, ForwardsSurvive

\* Every entry keeps its type.
LEMMA EntriesStep ==
    ASSUME EntriesTypeOK, CallsInOrder, [ForwardsNext]_forwardVars
    PROVE  pf' \in [Ids -> ForwardEntry]
  <1> USE ForwardsAssumption
  <1>0. /\ pf \in [Ids -> ForwardEntry] /\ nextID \in 0 .. MaxForwards /\ owed \subseteq Ids
        /\ pending \subseteq Saved
    BY DEF EntriesTypeOK
  <1>1. ASSUME NEW i \in Ids, Launch(i) PROVE pf' \in [Ids -> ForwardEntry]
    BY <1>0, <1>1, LaunchEffect
  <1>2. ASSUME NEW i \in Ids, AppendEntry(i) PROVE pf' \in [Ids -> ForwardEntry]
    BY <1>0, <1>2, AppendEntryEffect
  <1>3. ASSUME NEW i \in Ids, Ready(i) PROVE pf' \in [Ids -> ForwardEntry]
    BY <1>0, <1>3, ReadyEffect
  <1>4. ASSUME NEW i \in Ids, Exit(i) PROVE pf' \in [Ids -> ForwardEntry]
    BY <1>0, <1>4, ExitEffect
  <1>5. ASSUME NEW i \in Ids, StopForward(i) PROVE pf' \in [Ids -> ForwardEntry]
    BY <1>0, <1>5, StopForwardEffect
  <1>6. ASSUME NEW i \in Ids, HandleStarted(i) PROVE pf' \in [Ids -> ForwardEntry]
    BY <1>0, <1>6, MaybeShowKeeps DEF HandleStarted
  <1>7. ASSUME NEW i \in Ids, HandleStopped(i) PROVE pf' \in [Ids -> ForwardEntry]
    BY <1>0, <1>7, MaybeShowKeeps DEF HandleStopped
  <1>8. ASSUME NEW i \in Ids, UserStop(i) PROVE pf' \in [Ids -> ForwardEntry]
    BY <1>0, <1>8, UserStopEffect
  <1>9. ASSUME NEW i \in Ids, UserRemove(i) PROVE pf' \in [Ids -> ForwardEntry]
    BY <1>0, <1>9, UserRemoveEffect
  <1>10. ASSUME NEW i \in Ids, UserRestart(i) PROVE pf' \in [Ids -> ForwardEntry]
    BY <1>0, <1>10, UserRestartEffect
  <1>11. ASSUME NEW t \in Targets, UserStart(t) PROVE pf' \in [Ids -> ForwardEntry]
    BY <1>0, <1>11, UserStartEffect
  <1>12. CASE HandleForwardUpdate
    BY <1>0, <1>12, MaybeShowKeeps DEF HandleForwardUpdate
  <1>13. CASE OpenForwards
    BY <1>0, <1>13, ShowKeeps DEF OpenForwards
  <1>14. CASE RefreshForwards
    BY <1>0, <1>14, ShowKeeps DEF RefreshForwards
  <1>15. CASE RestoreForwards
    BY <1>0, <1>15, RestoreEffect
  <1>16. CASE Quit
    BY <1>0, <1>16, QuitEffect
  <1>17. CASE UNCHANGED forwardVars
    BY <1>0, <1>17 DEF forwardVars
  <1> QED
    BY <1>1, <1>2, <1>3, <1>4, <1>5, <1>6, <1>7, <1>8, <1>9, <1>10, <1>11,
       <1>12, <1>13, <1>14, <1>15, <1>16, <1>17
       DEF ForwardsNext

\* The other steps: a call goes on, or the entry keeps its status and place.
LEMMA KeptInOrder ==
    ASSUME CallsInOrder, nextID' = nextID,
           \A j \in Ids : \/ /\ pf'[j].call = pf[j].call /\ pf'[j].status = pf[j].status
                             /\ pf'[j].listed => pf[j].listed
                          \/ pf[j].call # "unused" /\ pf'[j].call = "returned"
                          \/ /\ pf[j].call # "unused" /\ pf'[j].status = "none"
                             /\ ~pf'[j].listed
    PROVE  CallsInOrder'
  <1>1. ASSUME NEW j \in Ids PROVE j > nextID' => pf'[j].call = "unused"
    BY DEF CallsInOrder
  <1>2. ASSUME NEW j \in Ids PROVE pf'[j].status # "none" => pf'[j].call = "returned"
    BY DEF CallsInOrder
  <1>3. ASSUME NEW j \in Ids PROVE pf'[j].listed => pf'[j].call = "returned"
    BY DEF CallsInOrder
  <1> QED
    BY <1>1, <1>2, <1>3 DEF CallsInOrder

\* Every Start has an id of its own.
LEMMA CallsStep ==
    ASSUME EntriesTypeOK, CallsInOrder, [ForwardsNext]_forwardVars
    PROVE  CallsInOrder'
  <1> USE ForwardsAssumption
  <1>0. pf \in [Ids -> ForwardEntry] /\ nextID \in 0 .. MaxForwards /\ pending \subseteq Saved
    BY DEF EntriesTypeOK
  <1>1. ASSUME NEW i \in Ids, Launch(i) PROVE CallsInOrder'
    <2>1. nextID' = nextID /\ pf[i].call = "requested"
      BY <1>1 DEF Launch
    <2>2. pf[i].status = "none" /\ ~pf[i].listed
      BY <2>1 DEF CallsInOrder
    <2>3. /\ \A j \in Ids : j # i => pf'[j] = pf[j]
          /\ \/ pf'[i].status = pf[i].status /\ pf'[i].listed = pf[i].listed
             \/ pf'[i].status = "none" /\ pf'[i].listed = FALSE
      BY <1>0, <1>1, LaunchEffect
    <2> QED
      BY <2>1, <2>2, <2>3, KeptInOrder
  <1>2. ASSUME NEW i \in Ids, AppendEntry(i) PROVE CallsInOrder'
    <2>1. nextID' = nextID /\ pf[i].call = "launched"
      BY <1>2 DEF AppendEntry
    <2> QED
      BY <1>0, <1>2, <2>1, AppendEntryEffect, KeptInOrder
  <1>3. ASSUME NEW i \in Ids, Ready(i) PROVE CallsInOrder'
    <2>1. nextID' = nextID /\ pf[i].call = "returned"
      BY <1>3 DEF Ready
    <2> QED
      BY <1>0, <1>3, <2>1, ReadyEffect, KeptInOrder
  <1>4. ASSUME NEW i \in Ids, Exit(i) PROVE CallsInOrder'
    <2>1. nextID' = nextID /\ pf[i].call = "returned"
      BY <1>4 DEF Exit
    <2> QED
      BY <1>0, <1>4, <2>1, ExitEffect, KeptInOrder
  <1>5. ASSUME NEW i \in Ids, StopForward(i) PROVE CallsInOrder'
    <2>1. nextID' = nextID /\ (pf[i].listed => pf[i].call = "returned")
      BY <1>5 DEF StopForward, CallsInOrder
    <2> QED
      BY <1>0, <1>5, <2>1, StopForwardEffect, KeptInOrder
  <1>6. ASSUME NEW i \in Ids, HandleStarted(i) \/ HandleStopped(i) PROVE CallsInOrder'
    <2>1. nextID' = nextID /\ ShowIfThere
      BY <1>6 DEF HandleStarted, HandleStopped
    <2> QED
      BY <1>0, <2>1, MaybeShowKeeps, KeptInOrder
  <1>7. ASSUME NEW i \in Ids, UserStop(i) PROVE CallsInOrder'
    <2>1. nextID' = nextID
      BY <1>7 DEF UserStop
    <2> QED
      BY <1>0, <1>7, <2>1, UserStopEffect, KeptInOrder
  <1>8. ASSUME NEW i \in Ids, UserRemove(i) PROVE CallsInOrder'
    <2>1. nextID' = nextID
      BY <1>8 DEF UserRemove
    <2> QED
      BY <1>0, <1>8, <2>1, UserRemoveEffect, KeptInOrder
  <1>9. ASSUME NEW i \in Ids, UserRestart(i) PROVE CallsInOrder'
    <2>1. /\ nextID' \in 0 .. MaxForwards /\ nextID' > nextID /\ i <= nextID
          /\ pf'[i].call = pf[i].call /\ pf'[i].status = pf[i].status /\ pf'[i].listed = FALSE
          /\ \A j \in Ids : j # i =>
               IF j > nextID /\ j <= nextID' THEN NewCall(j) ELSE pf'[j] = pf[j]
      BY <1>0, <1>9, UserRestartEffect
    <2>2. ~(i > nextID) /\ nextID' >= nextID
      BY <1>0, <2>1 DEF Ids
    <2> QED
      BY <1>0, <2>1, <2>2, NewCallsInOrder
  <1>10. ASSUME NEW t \in Targets, UserStart(t) PROVE CallsInOrder'
    <2>1. /\ nextID' \in 0 .. MaxForwards /\ nextID' > nextID
          /\ \A j \in Ids : IF j > nextID /\ j <= nextID' THEN NewCall(j) ELSE pf'[j] = pf[j]
      BY <1>0, <1>10, UserStartEffect
    <2>2. nextID' >= nextID
      BY <1>0, <2>1
    <2> QED
      BY <1>0, <2>1, <2>2, NewCallsInOrder
  <1>11. CASE RestoreForwards
    BY <1>0, <1>11, RestoreEffect, NewCallsInOrder
  <1>12. CASE HandleForwardUpdate \/ OpenForwards \/ RefreshForwards
    <2>1. nextID' = nextID /\ (ShowIfThere \/ Show(pf))
      BY <1>12 DEF HandleForwardUpdate, OpenForwards, RefreshForwards
    <2> QED
      BY <1>0, <2>1, MaybeShowKeeps, KeptInOrder DEF ShowIfThere
  <1>13. CASE Quit
    <2>1. nextID' = nextID /\ \A j \in Ids : pf[j].listed => pf[j].call = "returned"
      BY <1>13 DEF Quit, CallsInOrder
    <2> QED
      BY <1>0, <1>13, <2>1, QuitEffect, KeptInOrder
  <1>14. CASE UNCHANGED forwardVars
    BY <1>14 DEF forwardVars, CallsInOrder
  <1> QED
    BY <1>1, <1>2, <1>3, <1>4, <1>5, <1>6, <1>7, <1>8, <1>9, <1>10, <1>11, <1>12,
       <1>13, <1>14 DEF ForwardsNext

\* Who forgets an entry cancels its process.
LEMMA ProcessStep ==
    ASSUME EntriesTypeOK, CallsInOrder, NoProcessLost, [ForwardsNext]_forwardVars
    PROVE  NoProcessLost'
  <1> USE ForwardsAssumption
  <1>0. /\ pf \in [Ids -> ForwardEntry] /\ nextID \in 0 .. MaxForwards /\ owed \subseteq Ids
        /\ pending \subseteq Saved
    BY DEF EntriesTypeOK
  <1>1. ASSUME NEW i \in Ids, Launch(i) PROVE NoProcessLost'
    BY <1>0, <1>1, LaunchEffect DEF NoProcessLost, IsLive, IsTerminal, Launch
  <1>2. ASSUME NEW i \in Ids, AppendEntry(i) PROVE NoProcessLost'
    <2>1. /\ \A j \in Ids : j # i => pf'[j] = pf[j]
          /\ pf'[i].status = "Starting" /\ pf'[i].listed = TRUE
      BY <1>0, <1>2, AppendEntryEffect
    <2> QED
      BY <2>1 DEF NoProcessLost, IsLive
  <1>3. ASSUME NEW i \in Ids, Ready(i) PROVE NoProcessLost'
    BY <1>0, <1>3, ReadyEffect DEF NoProcessLost, IsLive, IsTerminal
  <1>4. ASSUME NEW i \in Ids, Exit(i) PROVE NoProcessLost'
    BY <1>0, <1>4, ExitEffect DEF NoProcessLost, IsLive, IsTerminal, Exit
  <1>5. ASSUME NEW i \in Ids, StopForward(i) PROVE NoProcessLost'
    BY <1>0, <1>5, StopForwardEffect DEF NoProcessLost, IsLive, IsTerminal
  <1>6. ASSUME NEW i \in Ids, HandleStarted(i) PROVE NoProcessLost'
    BY <1>0, <1>6, MaybeShowKeeps DEF NoProcessLost, IsLive, IsTerminal, HandleStarted
  <1>7. ASSUME NEW i \in Ids, HandleStopped(i) PROVE NoProcessLost'
    BY <1>0, <1>7, MaybeShowKeeps DEF NoProcessLost, IsLive, IsTerminal, HandleStopped
  <1>8. ASSUME NEW i \in Ids, UserStop(i) PROVE NoProcessLost'
    BY <1>0, <1>8, UserStopEffect DEF NoProcessLost, IsLive, IsTerminal
  <1>9. ASSUME NEW i \in Ids, UserRemove(i) PROVE NoProcessLost'
    BY <1>0, <1>9, UserRemoveEffect DEF NoProcessLost, IsLive, IsTerminal
  <1>10. ASSUME NEW i \in Ids, UserRestart(i) PROVE NoProcessLost'
    BY <1>0, <1>10, UserRestartEffect DEF NoProcessLost, IsLive, IsTerminal, NewCall
  <1>11. ASSUME NEW t \in Targets, UserStart(t) PROVE NoProcessLost'
    BY <1>0, <1>11, UserStartEffect DEF NoProcessLost, IsLive, IsTerminal, NewCall
  <1>12. CASE HandleForwardUpdate
    BY <1>0, <1>12, MaybeShowKeeps DEF NoProcessLost, IsLive, IsTerminal, HandleForwardUpdate
  <1>13. CASE OpenForwards
    BY <1>0, <1>13, ShowKeeps DEF NoProcessLost, IsLive, IsTerminal, OpenForwards
  <1>14. CASE RefreshForwards
    BY <1>0, <1>14, ShowKeeps DEF NoProcessLost, IsLive, IsTerminal, RefreshForwards
  <1>15. CASE RestoreForwards
    BY <1>0, <1>15, RestoreEffect DEF NoProcessLost, IsLive, IsTerminal, NewCall
  <1>16. CASE Quit
    BY <1>0, <1>16, QuitEffect DEF NoProcessLost, IsLive, IsTerminal
  <1>17. CASE UNCHANGED forwardVars
    BY <1>0, <1>17 DEF NoProcessLost, IsLive, IsTerminal, forwardVars
  <1> QED
    BY <1>1, <1>2, <1>3, <1>4, <1>5, <1>6, <1>7, <1>8, <1>9, <1>10, <1>11,
       <1>12, <1>13, <1>14, <1>15, <1>16, <1>17
       DEF ForwardsNext

\* A step that takes nothing that is owed off the list, or that freezes the loop.
LEMMA OwedKept ==
    ASSUME OwedAreUp, owed' \subseteq owed,
           \A j \in owed' :
               /\ pf[j].call = "returned" => pf'[j].call = "returned"
               /\ ~ui'.quitting =>
                    /\ ~ui.quitting
                    /\ pf[j].listed /\ IsLive(pf[j]) => pf'[j].listed /\ IsLive(pf'[j])
    PROVE  OwedAreUp'
  <1>1. ASSUME NEW j \in owed' PROVE pf'[j].call = "returned"
    BY DEF OwedAreUp
  <1>2. ASSUME NEW j \in owed', ~ui'.quitting PROVE pf'[j].listed /\ IsLive(pf'[j])
    <2>1. ~ui.quitting /\ (pf[j].listed /\ IsLive(pf[j]) => pf'[j].listed /\ IsLive(pf'[j]))
      BY <1>2
    <2>2. pf[j].listed /\ IsLive(pf[j])
      BY <2>1 DEF OwedAreUp
    <2> QED
      BY <2>1, <2>2
  <1> QED
    BY <1>1, <1>2 DEF OwedAreUp

\* What ends, is stopped or removed is no longer owed.
LEMMA OwedStep ==
    ASSUME EntriesTypeOK, CallsInOrder, OwedAreUp, [ForwardsNext]_forwardVars
    PROVE  OwedAreUp'
  <1> USE ForwardsAssumption
  <1>0. /\ pf \in [Ids -> ForwardEntry] /\ nextID \in 0 .. MaxForwards /\ pending \subseteq Saved
        /\ ui \in [last : 0 .. MaxForwards, listening : BOOLEAN, quitting : BOOLEAN]
        /\ owed \subseteq Ids
    BY DEF EntriesTypeOK
  <1>a. \A j \in owed : pf[j].call = "returned" /\ ~(j > nextID)
    <2>1. \A j \in owed : pf[j].call = "returned"
      BY DEF OwedAreUp
    <2>2. \A j \in Ids : j > nextID => pf[j].call = "unused"
      BY DEF CallsInOrder
    <2> QED
      BY <1>0, <2>1, <2>2
  <1>1. ASSUME NEW i \in Ids, Launch(i) PROVE OwedAreUp'
    <2>1. ui' = ui /\ owed' = owed /\ pf[i].call = "requested"
      BY <1>1 DEF Launch
    <2>2. \A j \in owed : j # i
      BY <1>a, <2>1
    <2>3. \A j \in Ids : j # i => pf'[j] = pf[j]
      BY <1>0, <1>1, LaunchEffect
    <2> QED
      BY <1>0, <2>1, <2>2, <2>3, OwedKept
  <1>2. ASSUME NEW i \in Ids, AppendEntry(i) PROVE OwedAreUp'
    <2>1. ui' = ui /\ owed' = owed /\ pf[i].call = "launched"
      BY <1>2 DEF AppendEntry
    <2>2. \A j \in owed : j # i
      BY <1>a, <2>1
    <2>3. \A j \in Ids : j # i => pf'[j] = pf[j]
      BY <1>0, <1>2, AppendEntryEffect
    <2> QED
      BY <1>0, <2>1, <2>2, <2>3, OwedKept
  <1>3. ASSUME NEW i \in Ids, Ready(i) PROVE OwedAreUp'
    <2>1. ui' = ui /\ owed' = owed
      BY <1>3 DEF Ready
    <2> QED
      BY <1>0, <1>3, <2>1, ReadyEffect, OwedKept
  <1>4. ASSUME NEW i \in Ids, Exit(i) PROVE OwedAreUp'
    <2>1. ui' = ui /\ owed' = IF IsLive(pf[i]) THEN owed \ {i} ELSE owed
      BY <1>4 DEF Exit
    <2>2. /\ \A j \in Ids : j # i => pf'[j] = pf[j]
          /\ pf'[i].call = pf[i].call /\ pf'[i].listed = pf[i].listed
          /\ ~IsLive(pf[i]) => pf'[i].status = pf[i].status
      BY <1>0, <1>4, ExitEffect
    <2> QED
      BY <1>0, <2>1, <2>2, OwedKept
  <1>5. ASSUME NEW i \in Ids, StopForward(i) PROVE OwedAreUp'
    <2>1. ui' = ui /\ owed' = IF pf[i].listed /\ IsLive(pf[i]) THEN owed \ {i} ELSE owed
      BY <1>5 DEF StopForward
    <2>2. /\ \A j \in Ids : j # i => pf'[j] = pf[j]
          /\ pf'[i].call = pf[i].call
      BY <1>0, <1>5, StopForwardEffect
    <2> QED
      BY <1>0, <2>1, <2>2, OwedKept
  <1>6. ASSUME NEW i \in Ids, HandleStarted(i) PROVE OwedAreUp'
    <2>1. /\ ui'.quitting = ui.quitting /\ ShowIfThere
          /\ owed' = IF pf[i].listed /\ IsLive(pf[i]) THEN owed \cup {i} ELSE owed
      BY <1>0, <1>6 DEF HandleStarted
    <2>2. \A j \in Ids : /\ pf'[j].call = pf[j].call
                         /\ pf[j].listed /\ IsLive(pf[j]) => pf'[j].listed /\ IsLive(pf'[j])
      BY <1>0, <2>1, MaybeShowKeeps DEF IsLive, IsTerminal
    <2>3. \A j \in owed' : /\ pf[j].call = "returned"
                           /\ ~ui.quitting => pf[j].listed /\ IsLive(pf[j])
      <3>1. CASE pf[i].listed /\ IsLive(pf[i])
        <4>1. pf[i].call = "returned" /\ owed' = owed \cup {i}
          BY <2>1, <3>1 DEF CallsInOrder
        <4> QED
          BY <3>1, <4>1 DEF OwedAreUp
      <3>2. CASE ~(pf[i].listed /\ IsLive(pf[i]))
        <4>1. owed' = owed
          BY <2>1, <3>2
        <4> QED
          BY <4>1 DEF OwedAreUp
      <3> QED
        BY <3>1, <3>2
    <2> QED
      BY <1>0, <2>1, <2>2, <2>3 DEF OwedAreUp
  <1>7. CASE HandleForwardUpdate \/ OpenForwards \/ RefreshForwards
                 \/ \E i \in Ids : HandleStopped(i)
    <2>1. ui'.quitting = ui.quitting /\ (ShowIfThere \/ Show(pf)) /\ owed' = owed
      BY <1>0, <1>7 DEF HandleForwardUpdate, OpenForwards, RefreshForwards, HandleStopped
    <2>2. \A j \in Ids : /\ pf'[j].call = pf[j].call
                         /\ pf[j].listed /\ IsLive(pf[j]) => pf'[j].listed /\ IsLive(pf'[j])
      BY <1>0, <2>1, MaybeShowKeeps DEF IsLive, IsTerminal, ShowIfThere
    <2> QED
      BY <1>0, <2>1, <2>2, OwedKept
  <1>8. ASSUME NEW i \in Ids, UserStop(i) PROVE OwedAreUp'
    <2>1. ui' = ui /\ owed' = owed
      BY <1>8 DEF UserStop
    <2>2. \A j \in Ids : /\ pf'[j].call = pf[j].call
                         /\ pf[j].listed /\ IsLive(pf[j]) => pf'[j].listed /\ IsLive(pf'[j])
      BY <1>0, <1>8, UserStopEffect DEF IsLive
    <2> QED
      BY <1>0, <2>1, <2>2, OwedKept
  <1>9. ASSUME NEW i \in Ids, UserRemove(i) PROVE OwedAreUp'
    <2>1. ui' = ui /\ owed' = owed \ {i}
      BY <1>9 DEF UserRemove
    <2>2. \A j \in Ids : /\ pf'[j].call = pf[j].call
                         /\ j # i /\ pf[j].listed /\ IsLive(pf[j]) => pf'[j].listed /\ IsLive(pf'[j])
      BY <1>0, <1>9, UserRemoveEffect DEF IsLive, IsTerminal
    <2> QED
      BY <1>0, <2>1, <2>2, OwedKept
  <1>10. ASSUME NEW i \in Ids, UserRestart(i) PROVE OwedAreUp'
    <2>1. ui' = ui /\ owed' = owed \ {i}
      BY <1>10 DEF UserRestart
    <2>2. \A j \in Ids : j # i =>
             IF j > nextID /\ j <= nextID' THEN NewCall(j) ELSE pf'[j] = pf[j]
      BY <1>0, <1>10, UserRestartEffect
    <2>3. \A j \in owed' : pf'[j] = pf[j]
      BY <1>0, <1>a, <2>1, <2>2
    <2> QED
      BY <2>1, <2>3, OwedKept
  <1>11. CASE RestoreForwards \/ \E t \in Targets : UserStart(t)
    <2>1. ui'.quitting = ui.quitting /\ owed' = owed
      BY <1>0, <1>11 DEF UserStart, RestoreForwards
    <2>2. \A j \in Ids : IF j > nextID /\ j <= nextID' THEN NewCall(j) ELSE pf'[j] = pf[j]
      BY <1>0, <1>11, UserStartEffect, RestoreEffect
    <2>3. \A j \in owed' : pf'[j] = pf[j]
      BY <1>0, <1>a, <2>1, <2>2
    <2> QED
      BY <2>1, <2>3, OwedKept
  <1>12. CASE Quit
    <2>1. ui'.quitting = TRUE /\ owed' = owed
      BY <1>0, <1>12 DEF Quit
    <2> QED
      BY <1>0, <1>12, <2>1, QuitEffect, OwedKept
  <1>13. CASE UNCHANGED forwardVars
    BY <1>13 DEF forwardVars, OwedAreUp
  <1> QED
    BY <1>1, <1>2, <1>3, <1>4, <1>5, <1>6, <1>7, <1>8, <1>9, <1>10, <1>11, <1>12, <1>13
       DEF ForwardsNext

\* What a save writes.
LEMMA SaveWrites ==
    ASSUME NEW P, NEW i \in Ids, P[i].listed, IsLive(P[i])
    PROVE  \E s \in ToSave(P) : s.target = P[i].target
  <1>1. [target |-> P[i].target, port |-> P[i].port] \in ToSave(P)
    BY DEF ToSave
  <1> QED
    BY <1>1

\* A step that leaves the file and the targets of what is owed alone.
LEMMA FileKept ==
    ASSUME ForwardsSurvive, file' = file, owed' \subseteq owed,
           \A j \in owed' : pf'[j].target = pf[j].target
    PROVE  ForwardsSurvive'
  BY DEF ForwardsSurvive

\* Every save writes what is owed, and nothing is saved after the loop froze.
LEMMA SurviveStep ==
    ASSUME EntriesTypeOK, CallsInOrder, OwedAreUp, ForwardsSurvive,
           [ForwardsNext]_forwardVars
    PROVE  ForwardsSurvive'
  <1> USE ForwardsAssumption
  <1>0. /\ pf \in [Ids -> ForwardEntry] /\ nextID \in 0 .. MaxForwards /\ pending \subseteq Saved
        /\ owed \subseteq Ids
    BY DEF EntriesTypeOK
  <1>a. \A j \in owed : pf[j].call = "returned" /\ ~(j > nextID)
    <2>1. \A j \in owed : pf[j].call = "returned"
      BY DEF OwedAreUp
    <2>2. \A j \in Ids : j > nextID => pf[j].call = "unused"
      BY DEF CallsInOrder
    <2> QED
      BY <1>0, <2>1, <2>2
  <1>b. ~ui.quitting => \A j \in owed : pf[j].listed /\ IsLive(pf[j])
    BY DEF OwedAreUp
  <1>1. ASSUME NEW i \in Ids, Launch(i) PROVE ForwardsSurvive'
    <2>1. file' = file /\ owed' = owed /\ pf[i].call = "requested"
      BY <1>1 DEF Launch
    <2>2. \A j \in owed : j # i
      BY <1>a, <2>1
    <2>3. \A j \in Ids : j # i => pf'[j] = pf[j]
      BY <1>0, <1>1, LaunchEffect
    <2> QED
      BY <1>0, <2>1, <2>2, <2>3, FileKept
  <1>2. ASSUME NEW i \in Ids, AppendEntry(i) \/ Ready(i) \/ UserStop(i) PROVE ForwardsSurvive'
    <2>1. file' = file /\ owed' = owed
      BY <1>2 DEF AppendEntry, Ready, UserStop
    <2>2. \A j \in Ids : pf'[j].target = pf[j].target
      BY <1>0, <1>2, AppendEntryEffect, ReadyEffect, UserStopEffect
    <2> QED
      BY <1>0, <2>1, <2>2, FileKept
  <1>3. ASSUME NEW i \in Ids, Exit(i) \/ StopForward(i) PROVE ForwardsSurvive'
    <2>1. file' = file /\ owed' \subseteq owed
      BY <1>3 DEF Exit, StopForward
    <2>2. \A j \in Ids : pf'[j].target = pf[j].target
      BY <1>0, <1>3, ExitEffect, StopForwardEffect
    <2> QED
      BY <1>0, <2>1, <2>2, FileKept
  <1>4. ASSUME NEW i \in Ids, HandleStarted(i) PROVE ForwardsSurvive'
    <2>1. /\ ~ui.quitting /\ ShowIfThere /\ file' = ToSave(pf)
          /\ owed' = IF pf[i].listed /\ IsLive(pf[i]) THEN owed \cup {i} ELSE owed
      BY <1>4 DEF HandleStarted
    <2>2. \A j \in owed' : j \in Ids /\ pf[j].listed /\ IsLive(pf[j])
      BY <1>0, <1>b, <2>1
    <2>3. \A j \in Ids : pf'[j].target = pf[j].target
      BY <1>0, <2>1, MaybeShowKeeps
    <2> QED
      BY <2>1, <2>2, <2>3, SaveWrites DEF ForwardsSurvive
  <1>5. ASSUME NEW i \in Ids, HandleStopped(i) PROVE ForwardsSurvive'
    <2>1. ~ui.quitting /\ ShowIfThere /\ file' = ToSave(pf) /\ owed' = owed
      BY <1>5 DEF HandleStopped
    <2>2. \A j \in Ids : pf'[j].target = pf[j].target
      BY <1>0, <2>1, MaybeShowKeeps
    <2> QED
      BY <1>0, <1>b, <2>1, <2>2, SaveWrites DEF ForwardsSurvive
  <1>6. CASE HandleForwardUpdate
    <2>1. ~ui.quitting /\ ShowIfThere /\ owed' = owed /\ (file' = ToSave(pf) \/ file' = file)
      BY <1>6 DEF HandleForwardUpdate
    <2>2. \A j \in Ids : pf'[j].target = pf[j].target
      BY <1>0, <2>1, MaybeShowKeeps
    <2>3. CASE file' = file
      BY <1>0, <2>1, <2>2, <2>3, FileKept
    <2>4. CASE file' = ToSave(pf)
      BY <1>0, <1>b, <2>1, <2>2, <2>4, SaveWrites DEF ForwardsSurvive
    <2> QED
      BY <2>1, <2>3, <2>4
  <1>7. CASE OpenForwards \/ RefreshForwards
    <2>1. file' = file /\ owed' = owed /\ Show(pf)
      BY <1>7 DEF OpenForwards, RefreshForwards
    <2>2. \A j \in Ids : pf'[j].target = pf[j].target
      BY <1>0, <2>1, ShowKeeps
    <2> QED
      BY <1>0, <2>1, <2>2, FileKept
  <1>8. ASSUME NEW i \in Ids, UserRemove(i) PROVE ForwardsSurvive'
    <2> DEFINE P == [pf EXCEPT ![i] = Removed(i)]
    <2>1. ~ui.quitting /\ owed' = owed \ {i}
      BY <1>8 DEF UserRemove
    <2>2. file' = ToSave(P) /\ \A j \in Ids : pf'[j].target = pf[j].target
      BY <1>0, <1>8, UserRemoveEffect
    <2>3. \A j \in owed' : j \in Ids /\ P[j] = pf[j] /\ pf[j].listed /\ IsLive(pf[j])
      BY <1>0, <1>b, <2>1
    <2> HIDE DEF P
    <2>4. ASSUME NEW j \in owed' PROVE \E s \in file' : s.target = pf'[j].target
      <3>1. j \in Ids /\ P[j].listed /\ IsLive(P[j]) /\ P[j].target = pf'[j].target
        BY <2>2, <2>3
      <3>2. \E s \in ToSave(P) : s.target = P[j].target
        BY <3>1, SaveWrites
      <3> QED
        BY <2>2, <3>1, <3>2
    <2> QED
      BY <2>4 DEF ForwardsSurvive
  <1>9. ASSUME NEW i \in Ids, UserRestart(i) PROVE ForwardsSurvive'
    <2>1. file' = file /\ owed' = owed \ {i}
      BY <1>9 DEF UserRestart
    <2>2. \A j \in Ids : j # i =>
             IF j > nextID /\ j <= nextID' THEN NewCall(j) ELSE pf'[j] = pf[j]
      BY <1>0, <1>9, UserRestartEffect
    <2>3. \A j \in owed' : pf'[j] = pf[j]
      BY <1>0, <1>a, <2>1, <2>2
    <2> QED
      BY <2>1, <2>3, FileKept
  <1>10. CASE RestoreForwards \/ \E t \in Targets : UserStart(t)
    <2>1. file' = file /\ owed' = owed
      BY <1>0, <1>10 DEF UserStart, RestoreForwards
    <2>2. \A j \in Ids : IF j > nextID /\ j <= nextID' THEN NewCall(j) ELSE pf'[j] = pf[j]
      BY <1>0, <1>10, UserStartEffect, RestoreEffect
    <2>3. \A j \in owed' : pf'[j] = pf[j]
      BY <1>0, <1>a, <2>1, <2>2
    <2> QED
      BY <2>1, <2>3, FileKept
  <1>11. CASE Quit
    <2>1. file' = file /\ owed' = owed
      BY <1>11 DEF Quit
    <2> QED
      BY <1>0, <1>11, <2>1, QuitEffect, FileKept
  <1>12. CASE UNCHANGED forwardVars
    BY <1>12 DEF forwardVars, ForwardsSurvive
  <1> QED
    BY <1>1, <1>2, <1>3, <1>4, <1>5, <1>6, <1>7, <1>8, <1>9, <1>10, <1>11, <1>12
       DEF ForwardsNext

\* Types are kept by the commands, the monitors and the handlers.
LEMMA EntriesTypeStep ==
    ASSUME EntriesTypeOK, CallsInOrder, [ForwardsNext]_forwardVars
    PROVE  EntriesTypeOK'
  <1> USE ForwardsAssumption
  <1>0. /\ pf \in [Ids -> ForwardEntry] /\ nextID \in 0 .. MaxForwards
        /\ pending \subseteq Saved /\ owed \subseteq Ids
        /\ ui \in [last : 0 .. MaxForwards, listening : BOOLEAN, quitting : BOOLEAN]
    BY DEF EntriesTypeOK
  <1>1. pf' \in [Ids -> ForwardEntry]
    BY EntriesStep
  <1>2. nextID' \in 0 .. MaxForwards
    <2>1. CASE UNCHANGED nextID
      BY <1>0, <2>1
    <2>2. CASE RestoreForwards \/ \E t \in Targets : UserStart(t)
      BY <1>0, <2>2, RestoreEffect, UserStartEffect
    <2>3. ASSUME NEW i \in Ids, UserRestart(i) PROVE nextID' \in 0 .. MaxForwards
      BY <1>0, <2>3, UserRestartEffect
    <2> QED
      BY <2>1, <2>2, <2>3 DEF ForwardsNext, Launch, AppendEntry, Ready, Exit, StopForward,
         HandleStarted, HandleStopped, UserStop, UserRemove, HandleForwardUpdate,
         OpenForwards, RefreshForwards, Quit, forwardVars
  <1>3. pending' \subseteq Saved
    <2>1. pending' = pending \/ pending' = {}
      BY DEF ForwardsNext, Launch, AppendEntry, Ready, Exit, StopForward,
         HandleStarted, HandleStopped, UserStop, UserRemove, UserRestart, UserStart,
         HandleForwardUpdate, OpenForwards, RefreshForwards, RestoreForwards, Quit, forwardVars
    <2> QED
      BY <1>0, <2>1
  <1>4. owed' \subseteq Ids
    <2>1. ASSUME NEW i \in Ids, HandleStarted(i) \/ Exit(i) \/ StopForward(i)
                                    \/ UserRemove(i) \/ UserRestart(i)
          PROVE  owed' \subseteq Ids
      BY <1>0, <2>1 DEF HandleStarted, Exit, StopForward, UserRemove, UserRestart
    <2>2. CASE UNCHANGED owed
      BY <1>0, <2>2
    <2> QED
      BY <2>1, <2>2 DEF ForwardsNext, Launch, AppendEntry, Ready, HandleStopped, UserStop,
         UserStart, HandleForwardUpdate, OpenForwards, RefreshForwards, RestoreForwards,
         Quit, forwardVars
  <1>5. ui' \in [last : 0 .. MaxForwards, listening : BOOLEAN, quitting : BOOLEAN]
    <2>1. ASSUME NEW i \in Ids, HandleStarted(i)
          PROVE  ui' \in [last : 0 .. MaxForwards, listening : BOOLEAN, quitting : BOOLEAN]
      <3>1. ui' = [ui EXCEPT !.last = i, !.listening = TRUE] /\ i \in 0 .. MaxForwards
        BY <2>1 DEF HandleStarted, Ids
      <3> QED
        BY <1>0, <3>1
    <2>2. CASE HandleForwardUpdate
      <3>1. ui' = [ui EXCEPT !.last = 0, !.listening = TRUE]
              \/ ui' = [ui EXCEPT !.listening = TRUE]
        BY <2>2 DEF HandleForwardUpdate
      <3>2. 0 \in 0 .. MaxForwards
        BY DEF ForwardsAssumption
      <3>3. CASE ui' = [ui EXCEPT !.last = 0, !.listening = TRUE]
        BY <1>0, <3>2, <3>3
      <3>4. CASE ui' = [ui EXCEPT !.listening = TRUE]
        BY <1>0, <3>4
      <3> QED
        BY <3>1, <3>3, <3>4
    <2>3. CASE OpenForwards \/ RestoreForwards
      <3>1. ui' = [ui EXCEPT !.listening = TRUE]
        BY <2>3 DEF OpenForwards, RestoreForwards
      <3> QED
        BY <1>0, <3>1
    <2>4. CASE Quit
      <3>1. ui' = [ui EXCEPT !.quitting = TRUE]
        BY <2>4 DEF Quit
      <3> QED
        BY <1>0, <3>1
    <2>5. CASE UNCHANGED ui
      BY <1>0, <2>5
    <2> QED
      BY <2>1, <2>2, <2>3, <2>4, <2>5 DEF ForwardsNext, Launch, AppendEntry, Ready, Exit,
         StopForward, HandleStopped, UserStop, UserRemove, UserRestart, UserStart,
         RefreshForwards, forwardVars
  <1> QED
    BY <1>1, <1>2, <1>3, <1>4, <1>5 DEF EntriesTypeOK

\* All the parts together.
LEMMA ForwardsInductive == ForwardsInv /\ [ForwardsNext]_forwardVars => ForwardsInv'
  BY EntriesTypeStep, CallsStep, OwedStep, ProcessStep, SurviveStep DEF ForwardsInv

-----------------------------------------------------------------------------
\* The invariant of every behaviour of the manager.
THEOREM ForwardsAlwaysInv == ForwardsSpec => []ForwardsInv
  BY ForwardsInitial, ForwardsInductive, PTL DEF ForwardsSpec

\* What a listed entry forwards is known, from the call of Start on that lists
\* it.
Targeted ==
    \A i \in Ids : pf[i].call \in {"requested", "launched"} \/ pf[i].listed =>
                      pf[i].target \in Targets

\* The rest of the types: what is saved is a target and a port.
SavesTypeOK ==
    /\ news \in BOOLEAN /\ started \subseteq Ids /\ stopped \subseteq Ids
    /\ file \subseteq Saved

\* What is saved of listed entries.
LEMMA ToSaveIsSaved ==
    ASSUME NEW P \in [Ids -> ForwardEntry],
           \A i \in Ids : P[i].listed => P[i].target \in Targets
    PROVE  ToSave(P) \subseteq Saved
  <1>1. ASSUME NEW i \in Ids, P[i].listed
        PROVE  [target |-> P[i].target, port |-> P[i].port] \in Saved
    <2>1. P[i] \in ForwardEntry /\ P[i].target \in Targets
      BY <1>1
    <2> QED
      BY <2>1 DEF ForwardEntry, Saved
  <1> QED
    BY <1>1 DEF ToSave

\* Every call of Start has a target.
LEMMA TargetedStep ==
    ASSUME EntriesTypeOK, CallsInOrder, Targeted, [ForwardsNext]_forwardVars
    PROVE  Targeted'
  <1> USE ForwardsAssumption
  <1>0. /\ pf \in [Ids -> ForwardEntry] /\ nextID \in 0 .. MaxForwards
        /\ pending \subseteq Saved
    BY DEF EntriesTypeOK
  <1>a. \A j \in Ids : pf[j].call \in {"requested", "launched"} \/ pf[j].listed =>
                          pf[j].target \in Targets
    BY DEF Targeted
  <1>1. ASSUME \A j \in Ids : /\ pf'[j].call = pf[j].call /\ pf'[j].target = pf[j].target
                              /\ pf'[j].listed => pf[j].listed
        PROVE  Targeted'
    BY <1>a, <1>1 DEF Targeted
  <1>2. ASSUME NEW i \in Ids, Launch(i) PROVE Targeted'
    <2>1. /\ \A j \in Ids : j # i => pf'[j] = pf[j]
          /\ \/ pf'[i].target = pf[i].target /\ pf[i].call = "requested"
             \/ pf'[i].call = "returned" /\ pf'[i].listed = FALSE
      BY <1>0, <1>2, LaunchEffect
    <2> QED
      BY <1>a, <2>1 DEF Targeted
  <1>3. ASSUME NEW i \in Ids, AppendEntry(i) PROVE Targeted'
    <2>1. /\ \A j \in Ids : j # i => pf'[j] = pf[j]
          /\ pf'[i].target = pf[i].target /\ pf[i].call = "launched"
      BY <1>0, <1>3, AppendEntryEffect
    <2> QED
      BY <1>a, <2>1 DEF Targeted
  <1>4. ASSUME NEW i \in Ids, Ready(i) PROVE Targeted'
    BY <1>0, <1>1, <1>4, ReadyEffect
  <1>5. ASSUME NEW i \in Ids, Exit(i) PROVE Targeted'
    BY <1>0, <1>1, <1>5, ExitEffect
  <1>6. ASSUME NEW i \in Ids, StopForward(i) PROVE Targeted'
    BY <1>0, <1>1, <1>6, StopForwardEffect
  <1>7. ASSUME NEW i \in Ids, HandleStarted(i) \/ HandleStopped(i) PROVE Targeted'
    BY <1>0, <1>1, <1>7, MaybeShowKeeps DEF HandleStarted, HandleStopped
  <1>8. ASSUME NEW i \in Ids, UserStop(i) PROVE Targeted'
    BY <1>0, <1>1, <1>8, UserStopEffect
  <1>9. ASSUME NEW i \in Ids, UserRemove(i) PROVE Targeted'
    BY <1>0, <1>1, <1>9, UserRemoveEffect
  <1>10. ASSUME NEW i \in Ids, UserRestart(i) PROVE Targeted'
    <2>1. /\ i <= nextID /\ pf[i].listed
          /\ \A j \in Ids : j > nextID /\ j <= nextID' => pf'[j].target = pf[i].target
          /\ pf'[i].target = pf[i].target
          /\ \A j \in Ids : j # i =>
               IF j > nextID /\ j <= nextID' THEN NewCall(j) ELSE pf'[j] = pf[j]
      BY <1>0, <1>10, UserRestartEffect
    <2>2. pf[i].target \in Targets
      BY <1>a, <2>1
    <2>3. ASSUME NEW j \in Ids, j # i
          PROVE  pf'[j].call \in {"requested", "launched"} \/ pf'[j].listed =>
                    pf'[j].target \in Targets
      BY <1>a, <2>1, <2>2, <2>3
    <2> QED
      BY <2>1, <2>2, <2>3 DEF Targeted
  <1>11. ASSUME NEW t \in Targets, UserStart(t) PROVE Targeted'
    <2>1. \A j \in Ids : IF j > nextID /\ j <= nextID' THEN pf'[j].target \in Targets
                         ELSE pf'[j] = pf[j]
      BY <1>0, <1>11, UserStartEffect
    <2> QED
      BY <1>a, <2>1 DEF Targeted
  <1>12. CASE RestoreForwards
    <2>1. \A j \in Ids : IF j > nextID /\ j <= nextID' THEN pf'[j].target \in Targets
                         ELSE pf'[j] = pf[j]
      BY <1>0, <1>12, RestoreEffect
    <2> QED
      BY <1>a, <2>1 DEF Targeted
  <1>13. CASE HandleForwardUpdate
    BY <1>0, <1>1, <1>13, MaybeShowKeeps DEF HandleForwardUpdate
  <1>14. CASE OpenForwards \/ RefreshForwards
    BY <1>0, <1>1, <1>14, ShowKeeps DEF OpenForwards, RefreshForwards
  <1>15. CASE Quit
    BY <1>0, <1>1, <1>15, QuitEffect
  <1>16. CASE UNCHANGED forwardVars
    BY <1>1, <1>16 DEF forwardVars
  <1> QED
    BY <1>2, <1>3, <1>4, <1>5, <1>6, <1>7, <1>8, <1>9, <1>10, <1>11, <1>12, <1>13,
       <1>14, <1>15, <1>16 DEF ForwardsNext

\* The messages are of calls that were made, and the file has forwards in it.
LEMMA SavesStep ==
    ASSUME EntriesTypeOK, Targeted, SavesTypeOK, [ForwardsNext]_forwardVars
    PROVE  SavesTypeOK'
  <1> USE ForwardsAssumption
  <1>0. pf \in [Ids -> ForwardEntry]
    BY DEF EntriesTypeOK
  <1>1. ToSave(pf) \subseteq Saved
    BY <1>0, ToSaveIsSaved DEF Targeted
  <1>2. file' \subseteq Saved
    <2>1. ASSUME NEW i \in Ids, UserRemove(i) PROVE file' \subseteq Saved
      <3> DEFINE P == [pf EXCEPT ![i] = Removed(i)]
      <3>1. P \in [Ids -> ForwardEntry] /\ P[i] = Removed(i) /\ P[i].listed = FALSE
            /\ \A j \in Ids : j # i => P[j] = pf[j]
        BY <1>0, RemovedIs
      <3>2. file' = ToSave(P)
        BY <2>1 DEF UserRemove
      <3> HIDE DEF P
      <3>3. \A j \in Ids : P[j].listed => P[j].target \in Targets
        BY <3>1 DEF Targeted
      <3> QED
        BY <3>1, <3>2, <3>3, ToSaveIsSaved
    <2>2. file' = file \/ file' = ToSave(pf) \/ \E i \in Ids : UserRemove(i)
      BY DEF ForwardsNext, Launch, AppendEntry, Ready, Exit, StopForward, HandleStarted,
         HandleStopped, UserStop, UserRestart, UserStart, HandleForwardUpdate,
         OpenForwards, RefreshForwards, RestoreForwards, Quit, forwardVars
    <2> QED
      BY <1>1, <2>1, <2>2 DEF SavesTypeOK
  <1>3. started' \subseteq Ids /\ stopped' \subseteq Ids
    BY DEF SavesTypeOK, ForwardsNext, Launch, AppendEntry, Ready, Exit, StopForward,
       HandleStarted, HandleStopped, UserStop, UserRemove, UserRestart, UserStart,
       HandleForwardUpdate, OpenForwards, RefreshForwards, RestoreForwards, Quit, forwardVars
  <1>4. news' \in BOOLEAN
    BY DEF SavesTypeOK, ForwardsNext, Launch, AppendEntry, Ready, Exit, StopForward, Tell,
       HandleStarted, HandleStopped, UserStop, UserRemove, UserRestart, UserStart,
       HandleForwardUpdate, OpenForwards, RefreshForwards, RestoreForwards, Quit, forwardVars
  <1> QED
    BY <1>2, <1>3, <1>4 DEF SavesTypeOK

\* Every variable of the manager keeps its type.
THEOREM ForwardsKeepTypes == ForwardsSpec => []ForwardsTypeOK
  <1> DEFINE Typed == ForwardsInv /\ Targeted /\ SavesTypeOK
  <1>1. ForwardsInit => Typed
    <2> SUFFICES ASSUME ForwardsInit PROVE Targeted /\ SavesTypeOK
      BY ForwardsInitial
    <2>1. \A i \in Ids : pf[i].call = "unused" /\ pf[i].listed = FALSE
      BY DEF ForwardsInit, Unused
    <2> QED
      BY <2>1 DEF ForwardsInit, Targeted, SavesTypeOK, Saved
  <1>2. Typed /\ [ForwardsNext]_forwardVars => Typed'
    BY ForwardsInductive, TargetedStep, SavesStep DEF ForwardsInv
  <1>3. Typed => ForwardsTypeOK
    BY DEF ForwardsInv, EntriesTypeOK, SavesTypeOK, ForwardsTypeOK, ForwardEntry
  <1> HIDE DEF Typed
  <1> QED
    BY <1>1, <1>2, <1>3, PTL DEF ForwardsSpec

\* A kubectl process runs only while its entry is listed and live, or its Start
\* is about to list it: Stop, Remove and StopAll can still reach it.
THEOREM NoProcessIsLost == ForwardsSpec => []NoProcessLost
  <1>1. ForwardsInv => NoProcessLost
    BY DEF ForwardsInv
  <1> QED
    BY <1>1, ForwardsAlwaysInv, PTL

\* A forward the user was told is up is in portforwards.yaml in every state the
\* program may die in, until it ends, is stopped or is removed.
THEOREM OwedForwardsSurvive == ForwardsSpec => []ForwardsSurvive
  <1>1. ForwardsInv => ForwardsSurvive
    BY DEF ForwardsInv
  <1> QED
    BY <1>1, ForwardsAlwaysInv, PTL

\* A forward that was retired stays as it is, whatever its monitor still reads.
THEOREM RetiredIsFinal == ForwardsSpec => RetiredStays
  <1> DEFINE Kept == \A i \in Ids : IsTerminal(pf[i]) => pf'[i].status = pf[i].status
  <1>1. ForwardsInv /\ [ForwardsNext]_forwardVars => [Kept]_forwardVars
    <2> SUFFICES ASSUME ForwardsInv, ForwardsNext, NEW j \in Ids, pf[j].status = "Ended"
                 PROVE  pf'[j].status = pf[j].status
      BY DEF IsTerminal
    <2> USE ForwardsAssumption
    <2>0. /\ pf \in [Ids -> ForwardEntry] /\ nextID \in 0 .. MaxForwards
          /\ pending \subseteq Saved /\ CallsInOrder
      BY DEF ForwardsInv, EntriesTypeOK
    <2>1. pf[j].call = "returned" /\ ~IsLive(pf[j]) /\ ~(j > nextID)
      <3>1. pf[j].call = "returned"
        BY <2>0 DEF CallsInOrder
      <3>2. j > nextID => pf[j].call = "unused"
        BY <2>0 DEF CallsInOrder
      <3> QED
        BY <3>1, <3>2 DEF IsLive
    <2>2. ASSUME NEW i \in Ids, Launch(i) \/ AppendEntry(i) PROVE pf'[j].status = pf[j].status
      <3>1. j # i
        BY <2>1, <2>2 DEF Launch, AppendEntry
      <3>2. pf'[j] = pf[j]
        BY <2>0, <2>2, <3>1, LaunchEffect, AppendEntryEffect
      <3> QED
        BY <3>2
    <2>3. ASSUME NEW i \in Ids, Ready(i) \/ Exit(i) \/ UserStop(i) PROVE pf'[j].status = pf[j].status
      BY <2>0, <2>1, <2>3, ReadyEffect, ExitEffect, UserStopEffect
    <2>4. ASSUME NEW i \in Ids, StopForward(i) \/ UserRemove(i) PROVE pf'[j].status = pf[j].status
      BY <2>0, <2>1, <2>4, StopForwardEffect, UserRemoveEffect
    <2>5. ASSUME NEW i \in Ids, UserRestart(i) PROVE pf'[j].status = pf[j].status
      <3>1. /\ pf'[i].status = pf[i].status
            /\ \A k \in Ids : k # i =>
                 IF k > nextID /\ k <= nextID' THEN NewCall(k) ELSE pf'[k] = pf[k]
        BY <2>0, <2>5, UserRestartEffect
      <3> QED
        BY <2>1, <3>1
    <2>6. CASE RestoreForwards \/ \E t \in Targets : UserStart(t)
      <3>1. \A k \in Ids : IF k > nextID /\ k <= nextID' THEN NewCall(k) ELSE pf'[k] = pf[k]
        BY <2>0, <2>6, RestoreEffect, UserStartEffect
      <3> QED
        BY <2>1, <3>1
    <2>7. CASE HandleForwardUpdate \/ OpenForwards \/ RefreshForwards
                   \/ \E i \in Ids : HandleStarted(i) \/ HandleStopped(i)
      <3>1. ShowIfThere
        BY <2>7 DEF HandleForwardUpdate, OpenForwards, RefreshForwards, HandleStarted,
           HandleStopped, ShowIfThere
      <3> QED
        BY <2>0, <3>1, MaybeShowKeeps
    <2>8. CASE Quit
      BY <2>0, <2>1, <2>8, QuitEffect
    <2> QED
      BY <2>2, <2>3, <2>4, <2>5, <2>6, <2>7, <2>8 DEF ForwardsNext
  <1> QED
    BY <1>1, ForwardsAlwaysInv, PTL DEF ForwardsSpec, RetiredStays

-----------------------------------------------------------------------------
(***************************************************************************)
(* The listeners and the eviction timer, for any entries and any number of *)
(* waiters.  Arming a deadline looks at the entries, holding it is between *)
(* the waiters: the armed deadline is the earliest of the list             *)
(* (ArmIsEarliest), so that a listener that holds one is never made stale, *)
(* and of all the waiters at most one may release it (OneHeld).            *)
(***************************************************************************)
ListedEntry == [state : {"new", "starting", "running", "ended", "gone"}, shown : Nat]
Waiter == [pc : {"created", "waiting", "returned"}, ch : BOOLEAN, timer : Nat,
           arm : {"none", "held", "stale"}]

\* The types, with those of functions and sequences spelt out.
WaitersShape ==
    /\ entry \in [Listed -> ListedEntry]
    /\ waiters \in Seq(Waiter)
    /\ stamped \in Nat /\ expired \in 0 .. stamped /\ armedAt \in 0 .. stamped
    /\ updates \in Nat
    /\ view \in [onList : BOOLEAN, step : {"idle", "listen"}]
    /\ missed \in BOOLEAN
EntriesAreStamped ==
    \A e \in Listed : /\ entry[e].shown <= stamped
                      /\ entry[e].shown # 0 => entry[e].state \in {"ended", "gone"}
TimersAreStamped == \A w \in 1 .. Len(waiters) : waiters[w].timer <= stamped

\* A listener that returned is the last waiter until its message is handled.
OnlyLastReturned ==
    \A w \in 1 .. Len(waiters) :
        waiters[w].pc = "returned" => w = Len(waiters) /\ updates > 0
CreatedIsIdle ==
    \A w \in 1 .. Len(waiters) :
        waiters[w].pc = "created" => waiters[w].timer = 0 /\ waiters[w].arm = "none"
OneHeld ==
    \A v, w \in 1 .. Len(waiters) :
        waiters[v].arm = "held" /\ waiters[w].arm = "held" => v = w
HeldWaits ==
    \A w \in 1 .. Len(waiters) :
        waiters[w].arm = "held" => /\ waiters[w].pc = "waiting"
                                   /\ armedAt # 0 => waiters[w].timer = armedAt
LastHolds ==
    \A w \in 1 .. Len(waiters) :
        w = Len(waiters) /\ waiters[w].timer # 0 =>
            waiters[w].arm = "held" /\ armedAt = waiters[w].timer
SomeoneHolds ==
    armedAt # 0 => \E w \in 1 .. Len(waiters) : waiters[w].arm = "held"
ArmIsEarliest == \A d \in Deadlines : armedAt <= d

HoldersInv == /\ OnlyLastReturned /\ CreatedIsIdle /\ OneHeld /\ HeldWaits /\ LastHolds
              /\ SomeoneHolds
WaitersInv ==
    /\ WaitersShape /\ EntriesAreStamped /\ TimersAreStamped /\ ArmIsEarliest
    /\ HoldersInv /\ UpdateNotLost

-----------------------------------------------------------------------------
\* The earliest deadline is one of them.
LEMMA EarliestDeadline ==
  ASSUME Deadlines # {}, Deadlines \subseteq Nat
  PROVE  Earliest \in Deadlines /\ \A d \in Deadlines : Earliest <= d
<1> DEFINE Less == {ss \in Nat \X Nat : ss[1] < ss[2]}
<1>1. IsWellFoundedOn(Less, Nat)
  BY NatLessThanWellFounded DEF OpToRel
<1>2. PICK m \in Deadlines : \A d \in Deadlines : <<d, m>> \notin Less
  <2> HIDE DEF Less
  <2> QED
    BY <1>1, WFMin
<1>3. ASSUME NEW d \in Deadlines PROVE m <= d
  <2>1. <<d, m>> \notin Less
    BY <1>2
  <2>2. d \in Nat /\ m \in Nat
    OBVIOUS
  <2> QED
    BY <2>1, <2>2
<1> QED
  BY <1>2, <1>3, Zenon DEF Earliest

\* Deadlines are batches displayed.
LEMMA DeadlinesAreBatches ==
  ASSUME WaitersShape, EntriesAreStamped
  PROVE  /\ Deadlines \subseteq 1 .. stamped
         /\ \A e \in Listed : entry[e].state = "ended" /\ entry[e].shown # 0 =>
                                entry[e].shown \in Deadlines
         /\ \A d \in Deadlines :
               \E e \in Listed : entry[e].state = "ended" /\ entry[e].shown = d /\ d # 0
BY DEF WaitersShape, EntriesAreStamped, Deadlines, ListedEntry

\* The deadlines stay when the list does.
LEMMA DeadlinesStay ==
  ASSUME WaitersShape, EntriesAreStamped, UNCHANGED entry
  PROVE  \A d \in Deadlines' : d \in Nat
<1>1. Deadlines' = Deadlines
  BY DEF Deadlines
<1>2. ASSUME NEW d \in Deadlines PROVE d \in Nat
  <2>1. d \in 1 .. stamped
    BY DeadlinesAreBatches
  <2> QED
    BY <2>1 DEF WaitersShape
<1> QED
  BY <1>1, <1>2

\* Taking one element out of a sequence.
LEMMA RemoveAtProperties ==
  ASSUME NEW S, NEW s \in Seq(S), NEW i \in 1 .. Len(s)
  PROVE  /\ RemoveAt(s, i) \in Seq(S)
         /\ Len(RemoveAt(s, i)) = Len(s) - 1
         /\ \A j \in 1 .. Len(s) - 1 :
               RemoveAt(s, i)[j] = IF j < i THEN s[j] ELSE s[j + 1]
<1> DEFINE a == SubSeq(s, 1, i - 1)
           b == SubSeq(s, i + 1, Len(s))
<1>0. Len(s) \in Nat /\ i \in Nat /\ i >= 1 /\ i <= Len(s) /\ \A j \in 1 .. Len(s) : s[j] \in S
  BY LenProperties, ElementOfSeq
<1>1. /\ a \in Seq(S) /\ Len(a) = i - 1
      /\ \A j \in 1 .. i - 1 : a[j] = s[j]
  <2>1. \A j \in 1 .. i - 1 : s[j] \in S
    BY <1>0
  <2>2. /\ a \in Seq(S) /\ Len(a) = IF 1 <= i - 1 THEN (i - 1) - 1 + 1 ELSE 0
        /\ \A j \in 1 .. (i - 1) - 1 + 1 : a[j] = s[1 + j - 1]
    BY <1>0, <2>1, SubSeqProperties
  <2> HIDE DEF a
  <2> QED
    BY <1>0, <2>2
<1>2. /\ b \in Seq(S) /\ Len(b) = Len(s) - i
      /\ \A j \in 1 .. Len(s) - i : b[j] = s[j + i]
  <2>1. \A j \in i + 1 .. Len(s) : s[j] \in S
    BY <1>0
  <2>2. /\ b \in Seq(S) /\ Len(b) = IF i + 1 <= Len(s) THEN Len(s) - (i + 1) + 1 ELSE 0
        /\ \A j \in 1 .. Len(s) - (i + 1) + 1 : b[j] = s[(i + 1) + j - 1]
    BY <1>0, <2>1, SubSeqProperties
  <2> HIDE DEF b
  <2> QED
    BY <1>0, <2>2
<1>3. RemoveAt(s, i) = a \o b
  BY DEF RemoveAt
<1> HIDE DEF a, b
<1>4. /\ a \o b \in Seq(S) /\ Len(a \o b) = Len(a) + Len(b)
      /\ \A j \in 1 .. Len(a) + Len(b) :
            (a \o b)[j] = IF j <= Len(a) THEN a[j] ELSE b[j - Len(a)]
  BY <1>1, <1>2, ConcatProperties
<1> QED
  BY <1>0, <1>1, <1>2, <1>3, <1>4

\* Taking its last element off a sequence.
LEMMA FrontKeeps ==
  ASSUME NEW S, NEW s \in Seq(S), Len(s) # 0
  PROVE  /\ Front(s) \in Seq(S)
         /\ Len(Front(s)) = Len(s) - 1
         /\ \A j \in 1 .. Len(s) - 1 : Front(s)[j] = s[j]
<1>0. PICK n \in Nat : n = Len(s) - 1
  <2>1. Len(s) \in Nat
    BY LenProperties
  <2> QED
    BY <2>1
<1>1. Len(s) = n + 1 /\ \A j \in 1 .. n : s[j] \in S
  BY <1>0, LenProperties, ElementOfSeq
<1> DEFINE a == SubSeq(s, 1, n)
<1>2. /\ a \in Seq(S) /\ Len(a) = IF 1 <= n THEN n - 1 + 1 ELSE 0
      /\ \A j \in 1 .. n - 1 + 1 : a[j] = s[1 + j - 1]
  BY <1>1, SubSeqProperties
<1>3. Front(s) = a
  BY <1>0 DEF Front
<1> HIDE DEF a
<1>4. Len(a) = n /\ \A j \in 1 .. n : a[j] = s[j]
  BY <1>2
<1> QED
  BY <1>0, <1>2, <1>3, <1>4

\* The waiters that are left, and the new one after them.
NewWaiter == [pc |-> "created", ch |-> FALSE, timer |-> 0, arm |-> "none"]
ListensAfter(r) ==
    /\ Len(waiters') = r + 1 /\ waiters'[r + 1] = NewWaiter
    /\ \A w \in 1 .. r : waiters'[w] = waiters[w] /\ waiters[w].pc # "returned"
    /\ r # Len(waiters) => /\ r = Len(waiters) - 1
                           /\ waiters[Len(waiters)].pc = "returned"
LEMMA ListenEffect ==
  ASSUME waiters \in Seq(Waiter), OnlyLastReturned, Listen
  PROVE  /\ armedAt' = 0
         /\ waiters' \in Seq(Waiter)
         /\ \E r \in 0 .. Len(waiters) : ListensAfter(r)
<1>0. NewWaiter \in Waiter /\ Len(waiters) \in Nat
  BY DEF NewWaiter, Waiter
<1>1. armedAt' = 0 /\ waiters' = Append(Remaining, NewWaiter)
  BY DEF Listen, NewWaiter
<1>2. CASE waiters # << >> /\ waiters[Len(waiters)].pc = "returned"
  <2>1. Remaining = SubSeq(waiters, 1, Len(waiters) - 1)
    BY <1>2 DEF Remaining, Last, Front
  <2>2. Len(waiters) \in Nat \ {0} /\ \A j \in 1 .. Len(waiters) - 1 : waiters[j] \in Waiter
    BY <1>2, EmptySeq, ElementOfSeq
  <2>3. /\ Remaining \in Seq(Waiter) /\ Len(Remaining) = Len(waiters) - 1
        /\ \A j \in 1 .. Len(waiters) - 1 : Remaining[j] = waiters[j]
    <3>1. Remaining = Front(waiters)
      BY <2>1 DEF Front
    <3> QED
      BY <2>2, <3>1, FrontKeeps
  <2>4. /\ waiters' \in Seq(Waiter) /\ Len(waiters') = Len(Remaining) + 1
        /\ \A j \in 1 .. Len(Remaining) : waiters'[j] = Remaining[j]
        /\ waiters'[Len(Remaining) + 1] = NewWaiter
    BY <1>0, <1>1, <2>3, AppendProperties
  <2>5. \A w \in 1 .. Len(waiters) - 1 : waiters[w].pc # "returned"
    BY <2>2 DEF OnlyLastReturned
  <2>6. /\ Len(waiters) - 1 \in 0 .. Len(waiters)
        /\ Len(waiters') = (Len(waiters) - 1) + 1 /\ waiters'[(Len(waiters) - 1) + 1] = NewWaiter
        /\ \A w \in 1 .. Len(waiters) - 1 : waiters'[w] = waiters[w]
    BY <2>2, <2>3, <2>4
  <2>7. ListensAfter(Len(waiters) - 1)
    BY <1>2, <2>5, <2>6 DEF ListensAfter
  <2> QED
    BY <1>1, <2>4, <2>6, <2>7
<1>3. CASE ~(waiters # << >> /\ waiters[Len(waiters)].pc = "returned")
  <2>1. Remaining = waiters
    BY <1>3 DEF Remaining, Last
  <2>2. \A w \in 1 .. Len(waiters) : waiters[w].pc # "returned"
    BY <1>0, <1>3, EmptySeq DEF OnlyLastReturned
  <2>3. /\ waiters' \in Seq(Waiter) /\ Len(waiters') = Len(waiters) + 1
        /\ \A j \in 1 .. Len(waiters) : waiters'[j] = waiters[j]
        /\ waiters'[Len(waiters) + 1] = NewWaiter
    BY <1>0, <1>1, <2>1, AppendProperties
  <2>4. ListensAfter(Len(waiters))
    BY <2>2, <2>3 DEF ListensAfter
  <2> QED
    BY <1>0, <1>1, <2>3, <2>4
<1> QED
  BY <1>2, <1>3

-----------------------------------------------------------------------------
(* The entries *)

\* What building the list does to the entries: their new deadlines are later
\* than any armed one.
EntriesInv == /\ entry \in [Listed -> ListedEntry] /\ stamped \in Nat /\ armedAt \in 0 .. stamped
              /\ EntriesAreStamped /\ ArmIsEarliest

LEMMA DisplayKeeps ==
  ASSUME NEW E, E \in [Listed -> ListedEntry], stamped \in Nat, expired \in 0 .. stamped,
         armedAt \in 0 .. stamped, armedAt' \in {0, armedAt},
         \A e \in Listed : /\ E[e].shown <= stamped
                           /\ E[e].shown # 0 => E[e].state \in {"ended", "gone"}
                           /\ E[e].state = "ended" /\ E[e].shown # 0 => armedAt <= E[e].shown,
         DisplayEntries(E)
  PROVE  EntriesInv' /\ stamped' >= stamped
<1>1. stamped' \in {stamped, stamped + 1} /\ (Unseen(E) # {} => stamped' = stamped + 1)
  BY DEF DisplayEntries
<1>2. ASSUME NEW e \in Listed
      PROVE  /\ entry'[e] \in ListedEntry /\ entry'[e].shown <= stamped'
             /\ entry'[e].shown # 0 => entry'[e].state \in {"ended", "gone"}
             /\ entry'[e].state = "ended" /\ entry'[e].shown # 0 => armedAt' <= entry'[e].shown
  <2>0. E[e] \in ListedEntry
    OBVIOUS
  <2>1. CASE e \in Unseen(E)
    <3>1. entry'[e] = [E[e] EXCEPT !.shown = stamped + 1] /\ stamped' = stamped + 1
      BY <2>1, <1>1 DEF DisplayEntries
    <3>2. E[e].state = "ended"
      BY <2>1 DEF Unseen
    <3>3. /\ entry'[e] \in ListedEntry /\ entry'[e].shown = stamped + 1
          /\ entry'[e].state = E[e].state
      BY <2>0, <3>1 DEF ListedEntry
    <3> QED
      BY <3>1, <3>2, <3>3
  <2>2. CASE e \notin Unseen(E)
    <3>1. \/ entry'[e] = [E[e] EXCEPT !.state = "gone"]
          \/ entry'[e] = E[e]
      BY <2>2 DEF DisplayEntries
    <3>2. /\ entry'[e] \in ListedEntry /\ entry'[e].shown = E[e].shown
          /\ entry'[e].state \in {E[e].state, "gone"}
      BY <2>0, <3>1 DEF ListedEntry
    <3> QED
      BY <1>1, <2>0, <3>2 DEF ListedEntry
  <2> QED
    BY <2>1, <2>2
<1>3. entry' = [e \in Listed |-> entry'[e]]
  BY DEF DisplayEntries
<1>4. entry' \in [Listed -> ListedEntry]
  BY <1>2, <1>3
<1>5. stamped' \in Nat /\ stamped' >= stamped /\ armedAt' \in 0 .. stamped'
  BY <1>1
<1>6. EntriesAreStamped'
  BY <1>2 DEF EntriesAreStamped
<1>7. ArmIsEarliest'
  BY <1>2 DEF ArmIsEarliest, Deadlines
<1> QED
  BY <1>4, <1>5, <1>6, <1>7 DEF EntriesInv

\* The same for the entries as they are.
LEMMA ListIsBuilt ==
  ASSUME WaitersShape, EntriesAreStamped, ArmIsEarliest, DisplayEntries(entry),
         armedAt' \in {0, armedAt}
  PROVE  EntriesInv' /\ stamped' >= stamped
<1>1. \A e \in Listed : /\ entry[e].shown <= stamped
                        /\ entry[e].shown # 0 => entry[e].state \in {"ended", "gone"}
                        /\ entry[e].state = "ended" /\ entry[e].shown # 0 =>
                             armedAt <= entry[e].shown
  BY DEF EntriesAreStamped, ArmIsEarliest, Deadlines
<1> QED
  BY <1>1, DisplayKeeps DEF WaitersShape

\* A change of state leaves what was shown.
LEMMA ChangeKeeps ==
  ASSUME WaitersInv, NEW e \in Listed, ChangeEntry(e)
  PROVE  EntriesInv'
<1>0. entry \in [Listed -> ListedEntry] /\ EntriesAreStamped /\ ArmIsEarliest
  BY DEF WaitersInv, WaitersShape
<1>1. PICK s \in {"starting", "running", "ended"} :
         entry[e].state \in {"new", "starting", "running"} /\ entry' = [entry EXCEPT ![e].state = s]
  BY DEF ChangeEntry
<1>2. entry[e].shown = 0
  BY <1>0, <1>1 DEF EntriesAreStamped, ListedEntry
<1>3. /\ entry' \in [Listed -> ListedEntry]
      /\ \A d \in Listed : entry'[d].shown = entry[d].shown
                           /\ (d # e => entry'[d].state = entry[d].state)
  BY <1>0, <1>1 DEF ListedEntry
<1>4. UNCHANGED <<stamped, armedAt>>
  BY DEF ChangeEntry
<1>5. EntriesAreStamped'
  BY <1>0, <1>2, <1>3, <1>4 DEF EntriesAreStamped
<1>6. ArmIsEarliest'
  BY <1>0, <1>2, <1>3, <1>4 DEF ArmIsEarliest, Deadlines
<1> QED
  BY <1>3, <1>4, <1>5, <1>6 DEF EntriesInv, WaitersInv, WaitersShape

LEMMA RemoveKeeps ==
  ASSUME WaitersInv, NEW e \in Listed, RemoveEntry(e)
  PROVE  EntriesInv' /\ stamped' >= stamped
<1> DEFINE E == [entry EXCEPT ![e].state = "gone"]
<1>0. entry \in [Listed -> ListedEntry] /\ EntriesAreStamped /\ ArmIsEarliest
  BY DEF WaitersInv, WaitersShape
<1>1. /\ E \in [Listed -> ListedEntry]
      /\ \A d \in Listed : E[d].shown = entry[d].shown
                           /\ E[d].state \in {entry[d].state, "gone"}
  BY <1>0 DEF ListedEntry
<1>2. DisplayEntries(E) /\ armedAt' = armedAt
  BY DEF RemoveEntry
<1> HIDE DEF E
<1>3. \A d \in Listed : /\ E[d].shown <= stamped
                        /\ E[d].shown # 0 => E[d].state \in {"ended", "gone"}
                        /\ E[d].state = "ended" /\ E[d].shown # 0 => armedAt <= E[d].shown
  BY <1>0, <1>1 DEF EntriesAreStamped, ArmIsEarliest, Deadlines
<1>4. stamped \in Nat /\ expired \in 0 .. stamped /\ armedAt \in 0 .. stamped
  BY DEF WaitersInv, WaitersShape
<1> QED
  BY <1>1, <1>2, <1>3, <1>4, DisplayKeeps

-----------------------------------------------------------------------------
(* The waiters *)

\* A signal changes nothing but the listener's channel.
SameHolders ==
    /\ Len(waiters') = Len(waiters) /\ armedAt' = armedAt
    /\ \A w \in 1 .. Len(waiters) : /\ waiters'[w].pc = waiters[w].pc
                                    /\ waiters'[w].timer = waiters[w].timer
                                    /\ waiters'[w].arm = waiters[w].arm
LEMMA NotifyEffect ==
  ASSUME waiters \in Seq(Waiter), armedAt' = armedAt, Notify
  PROVE  waiters' \in Seq(Waiter) /\ SameHolders
         /\ (missed' => missed \/ \E w \in 1 .. Len(waiters') : waiters'[w].ch)
         /\ \A w \in 1 .. Len(waiters) : waiters[w].ch => waiters'[w].ch
<1>1. CASE waiters = << >>
  BY <1>1 DEF Notify, SameHolders
<1>2. CASE waiters # << >>
  <2> DEFINE n == Len(waiters)
             r == [waiters[n] EXCEPT !.ch = TRUE]
  <2>1. n \in 1 .. n /\ waiters[n] \in Waiter
    <3>1. n \in Nat \ {0}
      BY <1>2, EmptySeq
    <3>2. n \in 1 .. n
      BY <3>1
    <3> QED
      BY <3>2, ElementOfSeq
  <2>2. r \in Waiter /\ r.ch = TRUE /\ r.pc = waiters[n].pc /\ r.timer = waiters[n].timer
        /\ r.arm = waiters[n].arm
    BY <2>1 DEF Waiter
  <2>3. waiters' = [waiters EXCEPT ![n] = r]
    BY <1>2 DEF Notify
  <2> HIDE DEF r
  <2>4. /\ waiters' \in Seq(Waiter) /\ Len(waiters') = n
        /\ \A j \in 1 .. n : waiters'[j] = IF j = n THEN r ELSE waiters[j]
    BY <2>1, <2>2, <2>3, ExceptSeq
  <2> HIDE DEF n
  <2>5. waiters'[n].ch
    BY <2>1, <2>2, <2>4
  <2> QED
    BY <2>1, <2>2, <2>4, <2>5 DEF SameHolders, n
<1> QED
  BY <1>1, <1>2

\* ... so those that hold the deadline are the same.
LEMMA HoldersFrame ==
  ASSUME HoldersInv, SameHolders, updates' = updates
  PROVE  HoldersInv'
<1>1. OnlyLastReturned' /\ CreatedIsIdle' /\ OneHeld'
  BY DEF HoldersInv, SameHolders, OnlyLastReturned, CreatedIsIdle, OneHeld
<1>2. HeldWaits' /\ LastHolds' /\ SomeoneHolds'
  BY DEF HoldersInv, SameHolders, HeldWaits, LastHolds, SomeoneHolds
<1> QED
  BY <1>1, <1>2 DEF HoldersInv

\* The invariant from its parts.
LEMMA WaitersInvFrom ==
  ASSUME EntriesInv', HoldersInv', TimersAreStamped', UpdateNotLost',
         (waiters \in Seq(Waiter))', (expired \in 0 .. stamped)', (updates \in Nat)',
         (view \in [onList : BOOLEAN, step : {"idle", "listen"}])', (missed \in BOOLEAN)'
  PROVE  WaitersInv'
BY DEF EntriesInv, WaitersInv, WaitersShape

\* A new listener finds the deadline unarmed and holds none.
LEMMA ListenKeeps ==
  ASSUME waiters \in Seq(Waiter), HoldersInv, Listen, TimersAreStamped, stamped \in Nat,
         stamped' \in Nat, stamped' >= stamped,
         updates \in Nat, updates' = updates \/ \A w \in 1 .. Len(waiters) :
                             w # Len(waiters) => waiters[w].pc # "returned"
  PROVE  HoldersInv' /\ waiters' \in Seq(Waiter) /\ TimersAreStamped'
<1>0. OnlyLastReturned /\ Len(waiters) \in Nat
  BY DEF HoldersInv
<1>1. PICK r \in 0 .. Len(waiters) : ListensAfter(r)
  BY <1>0, ListenEffect
<1>2. /\ armedAt' = 0 /\ waiters' \in Seq(Waiter)
      /\ Len(waiters') = r + 1 /\ waiters'[r + 1] = NewWaiter
      /\ \A w \in 1 .. r : waiters'[w] = waiters[w] /\ waiters[w].pc # "returned"
      /\ r \in Nat /\ r <= Len(waiters)
  BY <1>0, <1>1, ListenEffect DEF ListensAfter
<1>3. OnlyLastReturned' /\ CreatedIsIdle' /\ LastHolds'
  BY <1>2 DEF HoldersInv, OnlyLastReturned, CreatedIsIdle, LastHolds, NewWaiter
<1>4. OneHeld'
  BY <1>2 DEF HoldersInv, OneHeld, NewWaiter
<1>5. HeldWaits' /\ SomeoneHolds'
  BY <1>2 DEF HoldersInv, HeldWaits, SomeoneHolds, NewWaiter
<1>6. TimersAreStamped'
  <2>1. ASSUME NEW w \in 1 .. Len(waiters') PROVE waiters'[w].timer <= stamped'
    <3>1. CASE w = r + 1
      BY <1>2, <3>1 DEF NewWaiter
    <3>2. CASE w # r + 1
      <4>1. w \in 1 .. r /\ w \in 1 .. Len(waiters)
        BY <1>0, <1>2, <3>2
      <4>2. waiters[w].timer <= stamped /\ waiters[w].timer \in Nat
        <5>1. waiters[w] \in Waiter
          BY <4>1, ElementOfSeq
        <5> QED
          BY <4>1, <5>1 DEF TimersAreStamped, Waiter
      <4> QED
        BY <1>2, <4>1, <4>2
    <3> QED
      BY <3>1, <3>2
  <2> QED
    BY <2>1 DEF TimersAreStamped
<1> QED
  BY <1>2, <1>3, <1>4, <1>5, <1>6 DEF HoldersInv

\* Arming a deadline: only where none is armed, for those armed are earlier.
LEMMA ArmTimerEffect ==
  ASSUME WaitersInv, NEW w \in 1 .. Len(waiters), ArmTimer(w)
  PROVE  /\ waiters' \in Seq(Waiter) /\ Len(waiters') = Len(waiters)
         /\ waiters[w].pc = "created"
         /\ \A v \in 1 .. Len(waiters) : waiters'[v].ch = waiters[v].ch
         /\ \/ /\ armedAt' = armedAt
               /\ waiters'[w].pc = "waiting" /\ waiters'[w].timer = waiters[w].timer
               /\ waiters'[w].arm = waiters[w].arm
               /\ \A v \in 1 .. Len(waiters) : v # w => waiters'[v] = waiters[v]
            \/ /\ armedAt = 0 /\ armedAt' \in 1 .. stamped
               /\ \A d \in Deadlines : armedAt' <= d
               /\ waiters'[w].pc = "waiting" /\ waiters'[w].timer = armedAt'
               /\ waiters'[w].arm = "held"
               /\ \A v \in 1 .. Len(waiters) : v # w =>
                     /\ waiters'[v].pc = waiters[v].pc /\ waiters'[v].timer = waiters[v].timer
                     /\ waiters'[v].arm = IF waiters[v].arm = "held" THEN "stale"
                                          ELSE waiters[v].arm
<1>0. /\ waiters \in Seq(Waiter) /\ stamped \in Nat /\ armedAt \in 0 .. stamped
      /\ \A v \in 1 .. Len(waiters) : waiters[v] \in Waiter
      /\ waiters \in [1 .. Len(waiters) -> Waiter] /\ DOMAIN waiters = 1 .. Len(waiters)
      /\ Len(waiters) \in Nat
  BY LenProperties, ElementOfSeq DEF WaitersInv, WaitersShape
<1>1. waiters[w].pc = "created"
  BY DEF ArmTimer
<1>2. CASE Deadlines # {} /\ (armedAt = 0 \/ Earliest < armedAt)
  <2>1. Earliest \in Deadlines /\ (\A d \in Deadlines : Earliest <= d) /\ Earliest \in 1 .. stamped
    <3>1. Deadlines \subseteq 1 .. stamped
      BY DeadlinesAreBatches DEF WaitersInv
    <3>2. Deadlines \subseteq Nat
      BY <3>1
    <3> QED
      BY <1>2, <3>1, <3>2, EarliestDeadline
  <2>2. armedAt = 0
    BY <1>0, <1>2, <2>1 DEF WaitersInv, ArmIsEarliest
  <2> DEFINE f(v) == IF v = w
                     THEN [waiters[v] EXCEPT !.pc = "waiting", !.timer = Earliest, !.arm = "held"]
                     ELSE [waiters[v] EXCEPT !.arm = IF @ = "held" THEN "stale" ELSE @]
  <2>3. waiters' = [v \in 1 .. Len(waiters) |-> f(v)] /\ armedAt' = Earliest
    BY <1>0, <1>2 DEF ArmTimer
  <2>4. /\ f(w) \in Waiter /\ f(w).pc = "waiting" /\ f(w).timer = Earliest /\ f(w).arm = "held"
        /\ f(w).ch = waiters[w].ch
    <3>1. PICK e \in Nat : e = Earliest
      BY <1>0, <2>1
    <3>2. f(w) = [waiters[w] EXCEPT !.pc = "waiting", !.timer = e, !.arm = "held"]
      BY <3>1
    <3> HIDE DEF f
    <3> QED
      BY <1>0, <3>1, <3>2 DEF Waiter
  <2>5. ASSUME NEW v \in 1 .. Len(waiters), v # w
        PROVE  /\ f(v) \in Waiter /\ f(v).pc = waiters[v].pc /\ f(v).timer = waiters[v].timer
               /\ f(v).ch = waiters[v].ch
               /\ f(v).arm = IF waiters[v].arm = "held" THEN "stale" ELSE waiters[v].arm
    BY <1>0, <2>5 DEF Waiter
  <2> HIDE DEF f
  <2>6. \A v \in 1 .. Len(waiters) : f(v) \in Waiter /\ waiters'[v] = f(v)
    BY <2>3, <2>4, <2>5
  <2>7. waiters' \in Seq(Waiter) /\ Len(waiters') = Len(waiters)
    BY <1>0, <2>3, <2>6
  <2> QED
    BY <1>1, <2>1, <2>2, <2>3, <2>4, <2>5, <2>6, <2>7
<1>3. CASE ~(Deadlines # {} /\ (armedAt = 0 \/ Earliest < armedAt))
  <2> DEFINE r == [waiters[w] EXCEPT !.pc = "waiting"]
  <2>1. waiters' = [waiters EXCEPT ![w] = r] /\ armedAt' = armedAt
    BY <1>3 DEF ArmTimer
  <2>2. /\ r \in Waiter /\ r.pc = "waiting" /\ r.timer = waiters[w].timer /\ r.arm = waiters[w].arm
        /\ r.ch = waiters[w].ch
    BY <1>0 DEF Waiter
  <2> HIDE DEF r
  <2>3. /\ waiters' \in Seq(Waiter) /\ Len(waiters') = Len(waiters)
        /\ \A v \in 1 .. Len(waiters) : waiters'[v] = IF v = w THEN r ELSE waiters[v]
    BY <1>0, <2>1, <2>2, ExceptSeq
  <2> QED
    BY <1>1, <2>1, <2>2, <2>3
<1> QED
  BY <1>2, <1>3

LEMMA ArmTimerKeeps ==
  ASSUME WaitersInv, NEW w \in 1 .. Len(waiters), ArmTimer(w)
  PROVE  WaitersInv'
<1>0. /\ WaitersShape /\ HoldersInv /\ Len(waiters) \in Nat /\ stamped \in Nat
      /\ armedAt \in 0 .. stamped
      /\ UNCHANGED <<entry, stamped, expired, updates, view, missed>>
  <2>1. UNCHANGED <<entry, stamped, expired, updates, view, missed>>
    BY DEF ArmTimer
  <2>2. WaitersShape /\ HoldersInv
    BY DEF WaitersInv
  <2>3. waiters \in Seq(Waiter) /\ stamped \in Nat /\ armedAt \in 0 .. stamped
    BY <2>2 DEF WaitersShape
  <2> QED
    BY <2>1, <2>2, <2>3, LenProperties
<1>1. /\ waiters' \in Seq(Waiter) /\ Len(waiters') = Len(waiters)
      /\ waiters[w].pc = "created"
      /\ \A v \in 1 .. Len(waiters) : waiters'[v].ch = waiters[v].ch
  BY ArmTimerEffect
<1>a. /\ UpdateNotLost' /\ EntriesAreStamped' /\ entry' \in [Listed -> ListedEntry]
      /\ stamped' \in Nat /\ (expired \in 0 .. stamped)' /\ (updates \in Nat)'
      /\ (view \in [onList : BOOLEAN, step : {"idle", "listen"}])' /\ (missed \in BOOLEAN)'
  <2>2. entry \in [Listed -> ListedEntry] /\ EntriesAreStamped /\ UpdateNotLost
        /\ expired \in 0 .. stamped /\ updates \in Nat /\ missed \in BOOLEAN
        /\ view \in [onList : BOOLEAN, step : {"idle", "listen"}]
    BY DEF WaitersInv, WaitersShape
  <2>3. DOMAIN waiters' = 1 .. Len(waiters) /\ DOMAIN waiters = 1 .. Len(waiters)
    BY <1>0, <1>1, LenProperties DEF WaitersShape
  <2>4. UpdateNotLost'
    BY <1>0, <1>1, <2>2, <2>3 DEF UpdateNotLost
  <2>5. EntriesAreStamped'
    BY <1>0, <2>2 DEF EntriesAreStamped
  <2> QED
    BY <1>0, <2>2, <2>4, <2>5
<1>2. CASE /\ armedAt' = armedAt
           /\ waiters'[w].pc = "waiting" /\ waiters'[w].timer = waiters[w].timer
           /\ waiters'[w].arm = waiters[w].arm
           /\ \A v \in 1 .. Len(waiters) : v # w => waiters'[v] = waiters[v]
  <2>1. OnlyLastReturned' /\ CreatedIsIdle' /\ OneHeld' /\ LastHolds'
    BY <1>0, <1>1, <1>2
    DEF HoldersInv, OnlyLastReturned, CreatedIsIdle, OneHeld, LastHolds
  <2>2. HeldWaits' /\ SomeoneHolds'
    BY <1>0, <1>1, <1>2 DEF HoldersInv, HeldWaits, SomeoneHolds
  <2>3. TimersAreStamped' /\ armedAt' \in 0 .. stamped' /\ ArmIsEarliest'
    BY <1>0, <1>1, <1>2 DEF WaitersInv, TimersAreStamped, ArmIsEarliest, Deadlines
  <2> QED
    BY <1>1, <1>a, <2>1, <2>2, <2>3, WaitersInvFrom DEF HoldersInv, EntriesInv
<1>3. CASE /\ armedAt = 0 /\ armedAt' \in 1 .. stamped
           /\ \A d \in Deadlines : armedAt' <= d
           /\ waiters'[w].pc = "waiting" /\ waiters'[w].timer = armedAt'
           /\ waiters'[w].arm = "held"
           /\ \A v \in 1 .. Len(waiters) : v # w =>
                 /\ waiters'[v].pc = waiters[v].pc /\ waiters'[v].timer = waiters[v].timer
                 /\ waiters'[v].arm = IF waiters[v].arm = "held" THEN "stale"
                                      ELSE waiters[v].arm
  <2>1. OnlyLastReturned' /\ CreatedIsIdle'
    <3>1. OnlyLastReturned /\ CreatedIsIdle
      BY <1>0 DEF HoldersInv
    <3>2. \A v \in 1 .. Len(waiters) : v # w => waiters'[v].pc = waiters[v].pc
      BY <1>3
    <3>3. OnlyLastReturned'
      BY <3>1, <3>2, <1>0, <1>1, <1>3 DEF OnlyLastReturned
    <3>4. ASSUME NEW v \in 1 .. Len(waiters), waiters'[v].pc = "created"
          PROVE  waiters'[v].timer = 0 /\ waiters'[v].arm = "none"
      <4>1. v # w
        BY <1>3, <3>4
      <4>2. waiters[v].timer = 0 /\ waiters[v].arm = "none"
        BY <3>1, <3>2, <3>4, <4>1 DEF CreatedIsIdle
      <4> QED
        BY <1>3, <4>1, <4>2
    <3> QED
      BY <1>1, <3>3, <3>4 DEF CreatedIsIdle
  <2>2. OneHeld'
    <3>1. \A v \in 1 .. Len(waiters) : waiters'[v].arm = "held" => v = w
      BY <1>3
    <3> QED
      BY <3>1, <1>1 DEF OneHeld
  <2>3. LastHolds'
    <3>1. ASSUME NEW v \in 1 .. Len(waiters), v = Len(waiters), v # w
          PROVE  waiters'[v].timer = 0
      <4>1. waiters[v].timer \in Nat
        <5>1. waiters[v] \in Waiter
          BY <1>0, ElementOfSeq DEF WaitersShape
        <5> QED
          BY <5>1 DEF Waiter
      <4>2. waiters[v].timer # 0 => armedAt = waiters[v].timer
        BY <1>0, <3>1 DEF HoldersInv, LastHolds
      <4> QED
        BY <1>3, <3>1, <4>1, <4>2
    <3> QED
      BY <1>1, <1>3, <3>1 DEF LastHolds
  <2>4. HeldWaits' /\ SomeoneHolds'
    BY <1>1, <1>3 DEF HeldWaits, SomeoneHolds
  <2>5. TimersAreStamped' /\ armedAt' \in 0 .. stamped'
    BY <1>0, <1>1, <1>3 DEF WaitersInv, TimersAreStamped
  <2>6. ArmIsEarliest'
    BY <1>0, <1>3 DEF ArmIsEarliest, Deadlines
  <2> QED
    BY <1>1, <1>a, <2>1, <2>2, <2>3, <2>4, <2>5, <2>6, WaitersInvFrom DEF HoldersInv, EntriesInv
<1> QED
  BY <1>2, <1>3, ArmTimerEffect

\* A waiter that returns: the listener is kept, any other goes.
LEMMA ReturnEffect ==
  ASSUME WaitersInv, NEW w \in 1 .. Len(waiters), Return(w)
  PROVE  /\ armedAt' = (IF waiters[w].arm = "held" THEN 0 ELSE armedAt)
         /\ waiters' \in Seq(Waiter)
         /\ w = Len(waiters) =>
               /\ Len(waiters') = Len(waiters)
               /\ waiters'[w].pc = "returned" /\ waiters'[w].timer = 0
               /\ waiters'[w].arm = "none" /\ waiters'[w].ch = waiters[w].ch
               /\ \A v \in 1 .. Len(waiters) - 1 : waiters'[v] = waiters[v]
         /\ w # Len(waiters) =>
               /\ Len(waiters') = Len(waiters) - 1
               /\ \A v \in 1 .. Len(waiters) - 1 :
                     waiters'[v] = waiters[IF v < w THEN v ELSE v + 1]
<1>0. /\ waiters \in Seq(Waiter) /\ Len(waiters) \in Nat
      /\ armedAt' = (IF waiters[w].arm = "held" THEN 0 ELSE armedAt)
  <2>1. waiters \in Seq(Waiter)
    BY DEF WaitersInv, WaitersShape
  <2> QED
    BY <2>1, LenProperties DEF Return
<1>1. CASE w = Len(waiters)
  <2> DEFINE r == [waiters[w] EXCEPT !.pc = "returned", !.timer = 0, !.arm = "none"]
  <2>1. waiters[w] \in Waiter
    BY <1>0, ElementOfSeq
  <2>2. waiters' = [waiters EXCEPT ![w] = r]
    BY <1>0, <1>1 DEF Return, Superseded
  <2>3. /\ r \in Waiter /\ r.pc = "returned" /\ r.timer = 0 /\ r.arm = "none"
        /\ r.ch = waiters[w].ch
    BY <2>1 DEF Waiter
  <2> HIDE DEF r
  <2>4. /\ waiters' \in Seq(Waiter) /\ Len(waiters') = Len(waiters)
        /\ \A v \in 1 .. Len(waiters) : waiters'[v] = IF v = w THEN r ELSE waiters[v]
    BY <1>0, <2>2, <2>3, ExceptSeq
  <2> QED
    BY <1>0, <1>1, <2>3, <2>4
<1>2. CASE w # Len(waiters)
  <2>1. waiters' = RemoveAt(waiters, w)
    BY <1>0, <1>2 DEF Return, Superseded
  <2>2. /\ waiters' \in Seq(Waiter) /\ Len(waiters') = Len(waiters) - 1
        /\ \A v \in 1 .. Len(waiters) - 1 :
              waiters'[v] = IF v < w THEN waiters[v] ELSE waiters[v + 1]
    BY <1>0, <2>1, RemoveAtProperties
  <2>3. ASSUME NEW v \in 1 .. Len(waiters) - 1
        PROVE  waiters'[v] = waiters[IF v < w THEN v ELSE v + 1]
    <3>1. CASE v < w
      BY <2>2, <3>1
    <3>2. CASE ~(v < w)
      BY <2>2, <3>2
    <3> QED
      BY <3>1, <3>2
  <2> QED
    BY <1>0, <1>2, <2>2, <2>3
<1> QED
  BY <1>1, <1>2

LEMMA ReturnKeeps ==
  ASSUME WaitersInv, NEW w \in 1 .. Len(waiters), Return(w), waiters[w].pc = "waiting",
         updates' \in {updates, updates + 1}, w = Len(waiters) => updates' = updates + 1
  PROVE  HoldersInv' /\ waiters' \in Seq(Waiter) /\ armedAt' \in {0, armedAt}
         /\ (stamped' = stamped => TimersAreStamped')
<1>0. /\ HoldersInv /\ waiters \in Seq(Waiter) /\ Len(waiters) \in Nat /\ updates \in Nat
      /\ stamped \in Nat /\ TimersAreStamped
  <2>1. HoldersInv /\ waiters \in Seq(Waiter) /\ updates \in Nat /\ stamped \in Nat
        /\ TimersAreStamped
    BY DEF WaitersInv, WaitersShape
  <2> QED
    BY <2>1, LenProperties
<1>1. armedAt' = (IF waiters[w].arm = "held" THEN 0 ELSE armedAt) /\ waiters' \in Seq(Waiter)
  BY ReturnEffect
<1>2. CASE w = Len(waiters)
  <2>1. /\ Len(waiters') = Len(waiters)
        /\ waiters'[w].pc = "returned" /\ waiters'[w].timer = 0 /\ waiters'[w].arm = "none"
        /\ \A v \in 1 .. Len(waiters) : v # w => waiters'[v] = waiters[v]
    BY <1>0, <1>2, ReturnEffect
  <2>2. OnlyLastReturned' /\ CreatedIsIdle'
    BY <1>0, <1>2, <2>1 DEF HoldersInv, OnlyLastReturned, CreatedIsIdle
  <2>3. OneHeld' /\ LastHolds'
    BY <1>0, <1>2, <2>1 DEF HoldersInv, OneHeld, LastHolds
  <2>4. HeldWaits'
    BY <1>0, <1>1, <1>2, <2>1 DEF HoldersInv, HeldWaits, OneHeld
  <2>5. SomeoneHolds'
    BY <1>0, <1>1, <1>2, <2>1 DEF HoldersInv, SomeoneHolds
  <2>6. stamped' = stamped => TimersAreStamped'
    BY <1>0, <2>1 DEF TimersAreStamped
  <2> QED
    BY <1>1, <2>2, <2>3, <2>4, <2>5, <2>6 DEF HoldersInv
<1>3. CASE w # Len(waiters)
  <2> DEFINE at(v) == IF v < w THEN v ELSE v + 1
  <2>1. Len(waiters') = Len(waiters) - 1 /\ Len(waiters) - 1 \in Nat
    BY <1>0, <1>3, ReturnEffect
  <2>2. \A v \in 1 .. Len(waiters') : /\ waiters'[v] = waiters[at(v)]
                                      /\ at(v) \in 1 .. Len(waiters) /\ at(v) # w
                                      /\ (at(v) = Len(waiters) <=> v = Len(waiters'))
    BY <1>0, <1>3, <2>1, ReturnEffect
  <2>3. \A u, v \in 1 .. Len(waiters') : at(u) = at(v) => u = v
    BY <1>0, <2>1
  <2>4. \A x \in 1 .. Len(waiters) : x # w => \E v \in 1 .. Len(waiters') : at(v) = x
    <3>1. SUFFICES ASSUME NEW x \in 1 .. Len(waiters), x # w
                   PROVE  \E v \in 1 .. Len(waiters') : at(v) = x
      OBVIOUS
    <3>2. CASE x < w
      <4>1. x \in 1 .. Len(waiters') /\ at(x) = x
        BY <1>0, <2>1, <3>2
      <4> QED
        BY <4>1
    <3>3. CASE x > w
      <4>1. x - 1 \in 1 .. Len(waiters') /\ at(x - 1) = x
        BY <1>0, <2>1, <3>3
      <4> QED
        BY <4>1
    <3> QED
      BY <3>1, <3>2, <3>3
  <2> HIDE DEF at
  <2>5. OnlyLastReturned' /\ CreatedIsIdle'
    BY <1>0, <2>2 DEF HoldersInv, OnlyLastReturned, CreatedIsIdle
  <2>6. OneHeld'
    BY <1>0, <2>2, <2>3 DEF HoldersInv, OneHeld
  <2>7. LastHolds'
    <3>1. ASSUME NEW v \in 1 .. Len(waiters'), v = Len(waiters'), waiters'[v].timer # 0
          PROVE  waiters'[v].arm = "held" /\ armedAt' = waiters'[v].timer
      <4>1. at(v) = Len(waiters) /\ waiters'[v] = waiters[at(v)] /\ at(v) # w
            /\ at(v) \in 1 .. Len(waiters)
        BY <2>2, <3>1
      <4>2. waiters[at(v)].arm = "held" /\ armedAt = waiters[at(v)].timer
        BY <1>0, <3>1, <4>1 DEF HoldersInv, LastHolds
      <4>3. waiters[w].arm # "held"
        BY <1>0, <4>1, <4>2 DEF HoldersInv, OneHeld
      <4> QED
        BY <1>1, <4>1, <4>2, <4>3
    <3> QED
      BY <3>1 DEF LastHolds
  <2>8. HeldWaits'
    BY <1>0, <1>1, <2>2 DEF HoldersInv, HeldWaits
  <2>9. SomeoneHolds'
    <3>1. SUFFICES ASSUME armedAt' # 0 PROVE \E v \in 1 .. Len(waiters') : waiters'[v].arm = "held"
      BY DEF SomeoneHolds
    <3>2. armedAt # 0 /\ waiters[w].arm # "held"
      BY <1>1, <3>1
    <3>3. PICK x \in 1 .. Len(waiters) : waiters[x].arm = "held"
      BY <1>0, <3>2 DEF HoldersInv, SomeoneHolds
    <3>4. PICK v \in 1 .. Len(waiters') : at(v) = x
      BY <2>4, <3>2, <3>3
    <3> QED
      BY <2>2, <3>3, <3>4
  <2>10. stamped' = stamped => TimersAreStamped'
    BY <1>0, <2>2 DEF TimersAreStamped
  <2> QED
    BY <1>1, <2>5, <2>6, <2>7, <2>8, <2>9, <2>10 DEF HoldersInv
<1> QED
  BY <1>1, <1>2, <1>3

\* A channel that was full stays with its waiter, whose message says so when
\* it returns.
LEMMA ReturnLosesNothing ==
  ASSUME WaitersInv, NEW w \in 1 .. Len(waiters), Return(w), missed' = missed,
         \/ updates' = updates + 1
         \/ updates' = updates /\ w # Len(waiters) /\ ~waiters[w].ch
  PROVE  missed' => updates' > 0 \/ \E v \in 1 .. Len(waiters') : waiters'[v].ch
<1>0. /\ waiters \in Seq(Waiter) /\ Len(waiters) \in Nat /\ updates \in Nat
      /\ (missed => updates > 0 \/ \E v \in 1 .. Len(waiters) : waiters[v].ch)
  <2>1. waiters \in Seq(Waiter) /\ updates \in Nat /\ UpdateNotLost
    BY DEF WaitersInv, WaitersShape
  <2> QED
    BY <2>1, LenProperties DEF UpdateNotLost
<1>1. CASE updates' = updates + 1
  BY <1>0, <1>1
<1>2. CASE updates' = updates /\ w # Len(waiters) /\ ~waiters[w].ch
  <2>1. SUFFICES ASSUME missed, ~(updates > 0)
                 PROVE  \E v \in 1 .. Len(waiters') : waiters'[v].ch
    BY <1>2
  <2>2. PICK x \in 1 .. Len(waiters) : waiters[x].ch
    BY <1>0, <2>1
  <2>3. x # w
    BY <1>2, <2>2
  <2>4. /\ Len(waiters') = Len(waiters) - 1
        /\ \A v \in 1 .. Len(waiters) - 1 :
              waiters'[v] = waiters[IF v < w THEN v ELSE v + 1]
    BY <1>2, ReturnEffect
  <2>5. CASE x < w
    <3>1. x \in 1 .. Len(waiters') /\ waiters'[x] = waiters[x]
      BY <1>0, <2>4, <2>5
    <3> QED
      BY <2>2, <3>1
  <2>6. CASE x > w
    <3>1. x - 1 \in 1 .. Len(waiters') /\ waiters'[x - 1] = waiters[x]
      BY <1>0, <2>4, <2>6
    <3> QED
      BY <2>2, <3>1
  <2> QED
    BY <2>3, <2>5, <2>6
<1> QED
  BY <1>1, <1>2

-----------------------------------------------------------------------------
LEMMA WaitersInvHolds == WaitersInit => WaitersInv
<1> SUFFICES ASSUME WaitersInit PROVE WaitersInv
  OBVIOUS
<1>1. /\ entry \in [Listed -> ListedEntry]
      /\ \A e \in Listed : entry[e].shown = 0 /\ entry[e].state = "new"
  BY DEF WaitersInit, ListedEntry
<1>2. waiters = << >> /\ armedAt = 0 /\ stamped = 0 /\ expired = 0 /\ updates = 0 /\ missed = FALSE
  BY DEF WaitersInit
<1>3. waiters \in Seq(Waiter) /\ Len(waiters) = 0
  BY <1>2, EmptySeq
<1>4. view \in [onList : BOOLEAN, step : {"idle", "listen"}]
  BY DEF WaitersInit
<1>5. WaitersShape
  <2>1. /\ stamped \in Nat /\ expired \in 0 .. stamped /\ armedAt \in 0 .. stamped
        /\ updates \in Nat
    BY <1>2
  <2>2. missed \in BOOLEAN
    BY <1>2
  <2> QED
    BY <1>1, <1>3, <1>4, <2>1, <2>2 DEF WaitersShape
<1>6. EntriesAreStamped /\ ArmIsEarliest
  BY <1>1, <1>2 DEF EntriesAreStamped, ArmIsEarliest, Deadlines
<1>7. HoldersInv /\ TimersAreStamped
  BY <1>2, <1>3 DEF HoldersInv, TimersAreStamped, OnlyLastReturned, CreatedIsIdle, OneHeld,
     HeldWaits, LastHolds, SomeoneHolds
<1> QED
  BY <1>2, <1>5, <1>6, <1>7 DEF WaitersInv, UpdateNotLost

LEMMA WaitersInvStep == WaitersInv /\ [WaitersNext]_waiterVars => WaitersInv'
<1> SUFFICES ASSUME WaitersInv, [WaitersNext]_waiterVars PROVE WaitersInv'
  OBVIOUS
<1>0. /\ WaitersShape /\ EntriesAreStamped /\ ArmIsEarliest /\ HoldersInv /\ TimersAreStamped
      /\ UpdateNotLost
      /\ waiters \in Seq(Waiter) /\ stamped \in Nat /\ expired \in 0 .. stamped
      /\ armedAt \in 0 .. stamped /\ updates \in Nat /\ missed \in BOOLEAN
      /\ view \in [onList : BOOLEAN, step : {"idle", "listen"}]
      /\ Len(waiters) \in Nat /\ DOMAIN waiters = 1 .. Len(waiters)
      /\ entry \in [Listed -> ListedEntry]
  <2>1. WaitersShape
    BY DEF WaitersInv
  <2>2. waiters \in Seq(Waiter)
    BY <2>1 DEF WaitersShape
  <2> QED
    BY <2>1, <2>2, LenProperties DEF WaitersInv, WaitersShape
<1>n. /\ stamped \in Nat /\ expired \in 0 .. stamped /\ armedAt \in 0 .. stamped
      /\ updates \in Nat /\ missed \in BOOLEAN
  BY <1>0
<1>v. view \in [onList : BOOLEAN, step : {"idle", "listen"}]
  BY <1>0
\* Steps that announce a change.
<1>1. ASSUME EntriesInv', stamped' \in Nat, stamped' >= stamped, Notify,
             UNCHANGED <<armedAt, expired, updates, view>>
      PROVE  WaitersInv'
  <2>1. /\ waiters' \in Seq(Waiter) /\ SameHolders
        /\ (missed' => missed \/ \E w \in 1 .. Len(waiters') : waiters'[w].ch)
        /\ \A w \in 1 .. Len(waiters) : waiters[w].ch => waiters'[w].ch
    BY <1>0, <1>1, NotifyEffect
  <2>2. HoldersInv'
    BY <1>0, <1>1, <2>1, HoldersFrame
  <2>3. TimersAreStamped'
    <3>1. ASSUME NEW w \in 1 .. Len(waiters) PROVE waiters'[w].timer <= stamped'
      <4>1. waiters[w] \in Waiter
        BY <1>0, ElementOfSeq
      <4>2. waiters[w].timer \in Nat /\ waiters[w].timer <= stamped
        BY <1>0, <4>1 DEF TimersAreStamped, Waiter
      <4> QED
        BY <1>0, <1>1, <2>1, <4>2 DEF SameHolders
    <3> QED
      BY <2>1, <3>1 DEF TimersAreStamped, SameHolders
  <2>4. UpdateNotLost'
    <3>1. DOMAIN waiters' = 1 .. Len(waiters') /\ Len(waiters') = Len(waiters)
      BY <2>1, LenProperties DEF SameHolders
    <3>2. missed => updates > 0 \/ \E w \in 1 .. Len(waiters) : waiters[w].ch
      BY <1>0 DEF UpdateNotLost
    <3>3. missed' => updates' > 0 \/ \E w \in 1 .. Len(waiters') : waiters'[w].ch
      BY <1>1, <2>1, <3>1, <3>2
    <3> QED
      BY <3>1, <3>3 DEF UpdateNotLost
  <2>5. missed' \in BOOLEAN
    BY <1>0, <1>1 DEF Notify
  <2>6. (expired \in 0 .. stamped)'
    BY <1>0, <1>1
  <2> QED
    BY <1>0, <1>1, <2>1, <2>2, <2>3, <2>4, <2>5, <2>6, WaitersInvFrom
\* Steps that leave the waiters alone.
<1>2. ASSUME EntriesInv', stamped' \in Nat, stamped' >= stamped,
             UNCHANGED <<waiters, armedAt, updates, missed>>,
             (expired \in 0 .. stamped)',
             (view \in [onList : BOOLEAN, step : {"idle", "listen"}])'
      PROVE  WaitersInv'
  <2>1. HoldersInv'
    BY <1>0, <1>2, HoldersFrame DEF SameHolders
  <2>2. TimersAreStamped'
    <3>1. ASSUME NEW w \in 1 .. Len(waiters) PROVE waiters[w].timer <= stamped'
      <4>1. waiters[w] \in Waiter
        BY <1>0, ElementOfSeq
      <4> QED
        BY <1>0, <1>2, <4>1 DEF TimersAreStamped, Waiter
    <3> QED
      BY <1>2, <3>1 DEF TimersAreStamped
  <2>3. UpdateNotLost'
    BY <1>0, <1>2 DEF UpdateNotLost
  <2> QED
    BY <1>0, <1>2, <2>1, <2>2, <2>3, WaitersInvFrom
\* Steps that listen anew.
<1>3. ASSUME EntriesInv', stamped' \in Nat, stamped' >= stamped, Listen, updates' \in Nat,
             updates' = updates \/ missed' = FALSE,
             missed' \in {missed, FALSE}, expired' = expired,
             (view \in [onList : BOOLEAN, step : {"idle", "listen"}])'
      PROVE  WaitersInv'
  <2>0. OnlyLastReturned
    BY <1>0 DEF HoldersInv
  <2>1. HoldersInv' /\ waiters' \in Seq(Waiter) /\ TimersAreStamped'
    <3>1. \A w \in 1 .. Len(waiters) : w # Len(waiters) => waiters[w].pc # "returned"
      BY <2>0 DEF OnlyLastReturned
    <3> QED
      BY <1>0, <1>3, <3>1, ListenKeeps
  <2>2. UpdateNotLost'
    <3>1. SUFFICES ASSUME missed', ~(updates' > 0)
                   PROVE  \E w \in DOMAIN waiters' : waiters'[w].ch
      BY DEF UpdateNotLost
    <3>2. missed /\ ~(updates > 0)
      BY <1>3, <3>1
    <3>3. PICK w \in 1 .. Len(waiters) : waiters[w].ch
      BY <1>0, <3>2 DEF UpdateNotLost
    <3>4. PICK r \in 0 .. Len(waiters) : ListensAfter(r)
      BY <1>0, <1>3, <2>0, ListenEffect
    <3>5. r = Len(waiters)
      <4>1. r # Len(waiters) => waiters[Len(waiters)].pc = "returned" /\ r = Len(waiters) - 1
        BY <3>4 DEF ListensAfter
      <4>2. Len(waiters) \in 1 .. Len(waiters)
        BY <1>0, <3>3
      <4> QED
        BY <2>0, <3>2, <4>1, <4>2 DEF OnlyLastReturned
    <3>6. w \in 1 .. Len(waiters') /\ waiters'[w] = waiters[w]
      BY <1>0, <3>3, <3>4, <3>5 DEF ListensAfter
    <3>7. DOMAIN waiters' = 1 .. Len(waiters')
      BY <2>1, LenProperties
    <3> QED
      BY <3>3, <3>6, <3>7
  <2>3. (expired \in 0 .. stamped)'
    BY <1>n, <1>3
  <2>4. missed' \in BOOLEAN
    BY <1>n, <1>3, Zenon
  <2> QED
    BY <1>3, <2>1, <2>2, <2>3, <2>4, WaitersInvFrom
\* Steps in which a waiter returns.
<1>4. ASSUME NEW w \in 1 .. Len(waiters), Return(w), waiters[w].pc = "waiting",
             UNCHANGED <<entry, stamped, expired, view, missed>>,
             \/ updates' = updates + 1
             \/ updates' = updates /\ w # Len(waiters) /\ ~waiters[w].ch
      PROVE  WaitersInv'
  <2>1. HoldersInv' /\ waiters' \in Seq(Waiter) /\ armedAt' \in {0, armedAt} /\ TimersAreStamped'
    BY <1>4, ReturnKeeps
  <2>2. UpdateNotLost'
    <3>1. missed' => updates' > 0 \/ \E v \in 1 .. Len(waiters') : waiters'[v].ch
      BY <1>4, ReturnLosesNothing
    <3>2. DOMAIN waiters' = 1 .. Len(waiters')
      BY <2>1, LenProperties
    <3> QED
      BY <3>1, <3>2 DEF UpdateNotLost
  <2>3. EntriesInv'
    <3>1. EntriesAreStamped'
      BY <1>0, <1>4 DEF EntriesAreStamped
    <3>2. ArmIsEarliest'
      <4>1. Deadlines' = Deadlines
        BY <1>4 DEF Deadlines
      <4>2. \A d \in Deadlines : d \in Nat
        BY <1>0, DeadlinesAreBatches
      <4> QED
        BY <1>0, <2>1, <4>1, <4>2 DEF ArmIsEarliest
    <3>3. armedAt' \in 0 .. stamped'
      BY <1>n, <1>4, <2>1
    <3> QED
      BY <1>0, <1>4, <3>1, <3>2, <3>3 DEF EntriesInv
  <2>4. updates' \in Nat
    BY <1>n, <1>4
  <2> QED
    BY <1>0, <1>4, <2>1, <2>2, <2>3, <2>4, WaitersInvFrom
\* The actions.
<1>5. ASSUME NEW e \in Listed, ChangeEntry(e) PROVE WaitersInv'
  <2>1. EntriesInv'
    BY <1>5, ChangeKeeps
  <2>2. stamped' = stamped /\ Notify /\ UNCHANGED <<armedAt, expired, updates, view>>
    BY <1>5 DEF ChangeEntry
  <2>3. stamped' \in Nat /\ stamped' >= stamped
    BY <1>0, <2>2
  <2> QED
    BY <1>1, <2>1, <2>2, <2>3
<1>6. ASSUME NEW e \in Listed, RemoveEntry(e) PROVE WaitersInv'
  <2>1. EntriesInv' /\ stamped' >= stamped
    BY <1>6, RemoveKeeps
  <2>2. Notify /\ UNCHANGED <<armedAt, expired, updates, view>>
    BY <1>6 DEF RemoveEntry
  <2> QED
    BY <1>1, <2>1, <2>2 DEF EntriesInv
<1>7. ASSUME NEW w \in 1 .. Len(waiters), WaiterReports(w) \/ WaiterGivesUp(w)
      PROVE  WaitersInv'
  <2>1. Return(w) /\ waiters[w].pc = "waiting" /\ UNCHANGED <<entry, stamped, expired, view, missed>>
    BY <1>7 DEF WaiterReports, WaiterGivesUp
  <2>2. \/ updates' = updates + 1
        \/ updates' = updates /\ w # Len(waiters) /\ ~waiters[w].ch
    BY <1>7 DEF WaiterReports, WaiterGivesUp, Superseded
  <2> QED
    BY <1>4, <2>1, <2>2
<1>8. CASE OpenList \/ RefreshList
  <2>1. DisplayEntries(entry) /\ UNCHANGED <<waiters, armedAt, expired, updates, missed>>
    BY <1>8 DEF OpenList, RefreshList
  <2>2. EntriesInv' /\ stamped' >= stamped
    BY <1>0, <2>1, ListIsBuilt
  <2>3. (view \in [onList : BOOLEAN, step : {"idle", "listen"}])'
    <3>1. CASE OpenList
      BY <3>1 DEF OpenList
    <3>2. CASE RefreshList
      BY <1>v, <3>2 DEF RefreshList
    <3> QED
      BY <1>8, <3>1, <3>2
  <2>4. stamped' \in Nat /\ (expired \in 0 .. stamped)'
    BY <1>n, <2>1, <2>2 DEF EntriesInv
  <2> QED
    BY <1>2, <2>1, <2>2, <2>3, <2>4
<1>9. CASE LeaveList \/ GraceExpires \/ UNCHANGED waiterVars
  <2>1. UNCHANGED <<entry, waiters, armedAt, stamped, updates, missed>>
    BY <1>9 DEF LeaveList, GraceExpires, waiterVars
  <2>2. EntriesInv'
    BY <1>0, <2>1 DEF EntriesInv, EntriesAreStamped, ArmIsEarliest, Deadlines
  <2>3. (view \in [onList : BOOLEAN, step : {"idle", "listen"}])'
    BY <1>v, <1>9 DEF LeaveList, GraceExpires, waiterVars
  <2>4. (expired \in 0 .. stamped)'
    BY <1>n, <1>9 DEF LeaveList, GraceExpires, waiterVars
  <2>5. stamped' \in Nat /\ stamped' >= stamped
    BY <1>n, <2>1
  <2> QED
    BY <1>2, <2>1, <2>2, <2>3, <2>4, <2>5
<1>10. CASE HandleUpdate
  <2>1. /\ Listen /\ missed' = FALSE /\ expired' = expired /\ view' = view
        /\ updates' = updates - 1 /\ updates > 0
        /\ DisplayEntries(entry) \/ UNCHANGED <<entry, stamped>>
    BY <1>10 DEF HandleUpdate
  <2>2. armedAt' = 0
    BY <2>1 DEF Listen
  <2>3. EntriesInv' /\ stamped' >= stamped
    <3>1. CASE DisplayEntries(entry)
      BY <1>0, <2>2, <3>1, ListIsBuilt
    <3>2. CASE UNCHANGED <<entry, stamped>>
      <4>1. EntriesAreStamped'
        BY <1>0, <3>2 DEF EntriesAreStamped
      <4>2. \A d \in Deadlines' : d \in Nat
        BY <1>0, <3>2, DeadlinesStay
      <4> QED
        BY <1>0, <2>2, <3>2, <4>1, <4>2 DEF EntriesInv, ArmIsEarliest
    <3> QED
      BY <2>1, <3>1, <3>2
  <2>4. updates' \in Nat /\ stamped' \in Nat
    BY <1>n, <2>1, <2>3 DEF EntriesInv
  <2> QED
    BY <1>0, <1>3, <2>1, <2>3, <2>4
<1>11. CASE StartListening
  <2>1. Listen /\ UNCHANGED <<entry, stamped, expired, updates, missed>>
    BY <1>11 DEF StartListening
  <2>2. armedAt' = 0
    BY <2>1 DEF Listen
  <2>3. EntriesInv' /\ stamped' \in Nat /\ stamped' >= stamped
    <3>1. EntriesAreStamped'
      BY <1>0, <2>1 DEF EntriesAreStamped
    <3>2. \A d \in Deadlines' : d \in Nat
      BY <1>0, <2>1, DeadlinesStay
    <3> QED
      BY <1>0, <2>1, <2>2, <3>1, <3>2 DEF EntriesInv, ArmIsEarliest
  <2>4. (view \in [onList : BOOLEAN, step : {"idle", "listen"}])'
    BY <1>v, <1>11 DEF StartListening
  <2> QED
    BY <1>0, <1>3, <2>1, <2>3, <2>4
<1> QED
  BY <1>0, <1>5, <1>6, <1>7, <1>8, <1>9, <1>10, <1>11, ArmTimerKeeps DEF WaitersNext

LEMMA WaitersAlwaysInv == WaitersSpec => []WaitersInv
BY WaitersInvHolds, WaitersInvStep, PTL DEF WaitersSpec

\* The types of the listeners hold for any number of waiters.
THEOREM WaitersKeepTypes == WaitersSpec => []WaitersTypeOK
<1>1. WaitersInv => WaitersTypeOK
  <2> SUFFICES ASSUME WaitersInv PROVE WaitersTypeOK
    OBVIOUS
  <2>1. WaitersShape /\ EntriesAreStamped /\ TimersAreStamped
    BY DEF WaitersInv
  <2>2. DOMAIN entry = Listed
    BY <2>1 DEF WaitersShape
  <2>3. \A e \in Listed : /\ entry[e].state \in {"new", "starting", "running", "ended", "gone"}
                          /\ entry[e].shown \in 0 .. stamped
                          /\ entry[e].shown # 0 => entry[e].state \in {"ended", "gone"}
    BY <2>1 DEF WaitersShape, ListedEntry, EntriesAreStamped
  <2> DEFINE W == [pc : {"created", "waiting", "returned"}, ch : BOOLEAN,
                   timer : 0 .. stamped, arm : {"none", "held", "stale"}]
  <2>4. waiters \in Seq(W)
    <3>1. waiters \in Seq(Waiter) /\ Len(waiters) \in Nat
      BY <2>1, LenProperties DEF WaitersShape
    <3>2. ASSUME NEW w \in 1 .. Len(waiters) PROVE waiters[w] \in W
      <4>1. waiters[w] \in Waiter /\ waiters[w].timer <= stamped
        BY <2>1, <3>1, ElementOfSeq DEF TimersAreStamped
      <4> QED
        BY <2>1, <4>1 DEF Waiter, WaitersShape
    <3> HIDE DEF W
    <3> QED
      BY <3>1, <3>2
  <2> QED
    BY <2>1, <2>2, <2>3, <2>4 DEF WaitersTypeOK, WaitersShape
<1> QED
  BY <1>1, WaitersAlwaysInv, PTL

\* A change that was announced is never lost: superseding a waiter, or its
\* return, leaves a message for the Update loop or a channel still to be read.
THEOREM NoUpdateGoesMissing == WaitersSpec => []UpdateNotLost
<1>1. WaitersInv => UpdateNotLost
  BY DEF WaitersInv
<1> QED
  BY <1>1, WaitersAlwaysInv, PTL

\* An armed deadline belongs to a waiter that waits for it and will release it.
THEOREM ArmedDeadlineIsHeld == WaitersSpec => []ArmIsHeld
<1>1. WaitersInv => ArmIsHeld
  <2> SUFFICES ASSUME WaitersInv PROVE ArmIsHeld
    OBVIOUS
  <2>1. HoldersInv /\ DOMAIN waiters = 1 .. Len(waiters) /\ Len(waiters) \in Nat
    <3>1. waiters \in Seq(Waiter) /\ HoldersInv
      BY DEF WaitersInv, WaitersShape
    <3> QED
      BY <3>1, LenProperties
  <2>2. armedAt # 0 =>
          \E w \in DOMAIN waiters : /\ waiters[w].pc = "waiting"
                                    /\ waiters[w].arm = "held"
                                    /\ waiters[w].timer = armedAt
    BY <2>1 DEF HoldersInv, SomeoneHolds, HeldWaits
  <2>3. \A w \in DOMAIN waiters :
           ~Superseded(w) /\ waiters[w].timer # 0 => armedAt = waiters[w].timer
    BY <2>1 DEF HoldersInv, LastHolds, Superseded
  <2> QED
    BY <2>2, <2>3 DEF ArmIsHeld
<1> QED
  BY <1>1, WaitersAlwaysInv, PTL
=============================================================================
