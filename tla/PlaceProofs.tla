----------------------------- MODULE PlaceProofs -----------------------------
(***************************************************************************)
(* Where the scheduler's tasks are, who runs them and how they are         *)
(* answered: theorems about Scheduler for any number of tasks, contexts,   *)
(* workers and concurrent callers.                                         *)
(*                                                                         *)
(* Where a task is (PlaceInv) tells that an attempt that runs is the task's*)
(* latest and is tracked (TrackInv), so that whoever sets its flag paid for*)
(* one more run (RerunInv), that a twin in a lane was put back by a requeue*)
(* and that every step is one of FutureContract, or a stutter: for which   *)
(* the flags must have their reasons (GenInv, AbandonInv).                 *)
(***************************************************************************)
EXTENDS SchedulerProofs, FiniteSetTheorems

-----------------------------------------------------------------------------
(* Every task is in one place. *)

Early == {"unborn", "issued", "looked", "checked"}

InLane(t, q, p) == t \in Range(lanes[q][p])
Lined(t) == \E q \in Queues, p \in Priorities : InLane(t, q, p)
Held(t)  == \E q \in Queues, i \in Slots : holds[q][i] = t

\* No task is twice in the lanes of all queues together, or in two hands.
LanesApart ==
    /\ \A q \in Queues, p \in Priorities : IsInjective(lanes[q][p])
    /\ \A t \in Tasks, q, r \in Queues, p, o \in Priorities :
         InLane(t, q, p) /\ InLane(t, r, o) => q = r /\ p = o
HandsApart ==
    \A q, r \in Queues, i, j \in Slots :
        holds[q][i] # None /\ holds[q][i] = holds[r][j] => q = r /\ i = j
IdleHands ==
    \A q \in Queues, i \in Slots : pc[q][i] \notin Busy => holds[q][i] = None

\* A task that left its Submit and was not answered is in a lane or in a hand.
Placed(t) ==
    /\ ~(Lined(t) /\ Held(t))
    /\ Lined(t) \/ Held(t) => call[t] \notin Early
    /\ future[t] = Pending <=> call[t] \in Early \/ Lined(t) \/ Held(t)

PlaceInv == LanesApart /\ HandsApart /\ IdleHands /\ \A t \in Tasks : Placed(t)

\* A lane is a sequence of tasks.
LEMMA LaneType ==
  ASSUME TypeInv, NEW q \in Queues, NEW p \in Priorities
  PROVE  lanes[q][p] \in Seq(Tasks) /\ Range(lanes[q][p]) \subseteq Tasks
<1>1. lanes[q] \in [Priorities -> Seq(Tasks)]
  BY DEF TypeInv, TypeOK, QueueTypes
<1>2. lanes[q][p] \in Seq(Tasks)
  BY <1>1
<1>3. QED
  BY <1>2, RangeOfSeq

\* An empty lane holds no one.
LEMMA EmptyLane == IsInjective(<< >>) /\ Range(<< >>) = {}
<1>1. PICK e \in Seq(Tasks) : e = << >> /\ Len(e) = 0
  BY EmptySeq
<1>2. 1 .. Len(e) = {}
  BY <1>1
<1>3. IsInjective(e)
  BY <1>1, <1>2, InjectiveSeq
<1>4. Range(e) = {}
  <2>1. Range(e) = {e[j] : j \in 1 .. Len(e)}
    <3>1. e \in Seq(Tasks)
      BY <1>1
    <3>2. QED
      BY ONLY <3>1, RangeEquality
  <2>2. QED
    BY <1>2, <2>1
<1>5. QED
  BY <1>1, <1>3, <1>4

\* At the start every task is unborn and every lane empty.
LEMMA InitPlaces == Init => PlaceInv
<1> SUFFICES ASSUME Init PROVE PlaceInv
  OBVIOUS
<1>1. \A q \in Queues, p \in Priorities : lanes[q][p] = << >>
  BY DEF Init
<1>2. LanesApart /\ \A t \in Tasks : ~Lined(t)
  BY <1>1, EmptyLane DEF LanesApart, Lined, InLane
<1>3. HandsApart /\ IdleHands /\ \A t \in Tasks : ~Held(t)
  BY NoneAssumption DEF Init, HandsApart, IdleHands, Held
<1>4. QED
  BY <1>2, <1>3 DEF Init, PlaceInv, Placed, Early

\* A step that moves no task, answers none and ends no Submit's first half.
LEMMA PlacesKept ==
  ASSUME PlaceInv, UNCHANGED <<lanes, holds, future>>,
         \A t \in Tasks : call'[t] \in Early <=> call[t] \in Early,
         \A q \in Queues, i \in Slots : pc'[q][i] \notin Busy => holds[q][i] = None
  PROVE  PlaceInv'
<1>1. LanesApart' /\ HandsApart' /\ IdleHands'
  BY DEF PlaceInv, LanesApart, HandsApart, IdleHands, InLane
<1>2. \A t \in Tasks : Lined(t)' = Lined(t) /\ Held(t)' = Held(t)
  BY DEF Lined, Held, InLane
<1>3. \A t \in Tasks : Placed(t)'
  BY <1>2 DEF PlaceInv, Placed
<1>4. QED
  BY <1>1, <1>3 DEF PlaceInv

\* A Submit that answers its own task.
LEMMA PlacesRefused ==
  ASSUME TypeInv, PlaceInv, NEW t \in Tasks, call[t] \in Early, NEW o \in Outcomes,
         Resolve({t}, o), call' = [call EXCEPT ![t] = "done"],
         UNCHANGED <<lanes, holds, pc>>
  PROVE  PlaceInv'
<1>1. LanesApart' /\ HandsApart' /\ IdleHands'
  BY DEF PlaceInv, LanesApart, HandsApart, IdleHands, InLane
<1>2. \A u \in Tasks : Lined(u)' = Lined(u) /\ Held(u)' = Held(u)
  BY DEF Lined, Held, InLane
<1>3. o # Pending
  BY DEF Outcomes, Pending
<1>4. \A u \in Tasks : /\ future'[u] = IF u = t THEN o ELSE future[u]
                       /\ call'[u] = IF u = t THEN "done" ELSE call[u]
  BY DEF Resolve, TypeInv, TypeOK, SubmitTypes
<1>5. "done" \notin Early
  BY DEF Early
<1>6. \A u \in Tasks : Placed(u)'
  BY <1>2, <1>3, <1>4, <1>5 DEF PlaceInv, Placed
<1>7. QED
  BY <1>1, <1>6 DEF PlaceInv

\* The tasks of K leave the lanes of q, and those of A come from their Submit
\* into the lane home of q.
Exchange(q, K, home, A) ==
    /\ \A t \in Tasks : /\ t \in A => call[t] \in Early
                        /\ call'[t] \in Early <=> call[t] \in Early /\ t \notin A
    /\ \A r \in Queues, p \in Priorities :
         /\ IsInjective(lanes'[r][p])
         /\ Range(lanes'[r][p]) = IF r # q THEN Range(lanes[r][p])
                                  ELSE (Range(lanes[q][p]) \ K)
                                         \cup (IF p = home THEN A ELSE {})

\* Tasks that are taken from the lanes of q and answered.
LEMMA PlacesDropped ==
  ASSUME TypeInv, PlaceInv, NEW q \in Queues, NEW K \in SUBSET Queued(q),
         NEW A \in SUBSET Tasks, NEW home \in Priorities, NEW o \in Outcomes,
         Resolve(K, o), UNCHANGED <<holds, pc>>, Exchange(q, K, home, A)
  PROVE  PlaceInv'
<1> USE DEF Exchange
<1>1. \A t \in K : t \in Tasks /\ Lined(t)
  BY LaneType DEF Queued, Lined, InLane
<1>2. \A t \in A : /\ ~Lined(t) /\ ~Held(t) /\ call[t] \in Early
                   /\ future[t] = Pending /\ t \notin K
  BY <1>1 DEF PlaceInv, Placed
<1>3. \A t \in Tasks, r \in Queues, p \in Priorities :
         InLane(t, r, p)' <=> \/ InLane(t, r, p) /\ (r # q \/ t \notin K)
                              \/ r = q /\ p = home /\ t \in A
  BY DEF InLane
<1>4. \A t \in K, r \in Queues, p \in Priorities : InLane(t, r, p) => r = q
  BY <1>1 DEF Queued, InLane, PlaceInv, LanesApart
<1>5. LanesApart'
  <2>1. \A r \in Queues, p \in Priorities : IsInjective(lanes'[r][p])
    OBVIOUS
  <2>2. \A t \in Tasks, r, s \in Queues, p, l \in Priorities :
           InLane(t, r, p)' /\ InLane(t, s, l)' => r = s /\ p = l
    BY <1>2, <1>3 DEF PlaceInv, LanesApart, Lined
  <2>3. QED
    BY <2>1, <2>2 DEF LanesApart
<1>6. HandsApart' /\ IdleHands' /\ \A t \in Tasks : Held(t)' = Held(t)
  BY DEF PlaceInv, HandsApart, IdleHands, Held
<1>7. \A t \in Tasks : Lined(t)' <=> (Lined(t) /\ t \notin K) \/ t \in A
  BY <1>3, <1>4 DEF Lined
<1>8. \A t \in Tasks : future'[t] = IF t \in K THEN o ELSE future[t]
  BY DEF Resolve
<1>9. o # Pending
  BY DEF Outcomes, Pending
<1>10. \A t \in Tasks : Placed(t)'
  BY <1>1, <1>2, <1>6, <1>7, <1>8, <1>9 DEF PlaceInv, Placed
<1>11. QED
  BY <1>5, <1>6, <1>10 DEF PlaceInv

\* A worker that answers the task it holds.
LEMMA PlacesDelivered ==
  ASSUME TypeInv, PlaceInv, NEW q \in Queues, NEW i \in Slots, NEW o \in Outcomes,
         holds[q][i] \in Tasks, Deliver(q, i, o), UNCHANGED <<lanes, call>>
  PROVE  PlaceInv'
<1> DEFINE t == holds[q][i]
<1>1. /\ \A r \in Queues, j \in Slots :
           /\ holds'[r][j] = IF r = q /\ j = i THEN None ELSE holds[r][j]
           /\ pc'[r][j] = IF r = q /\ j = i THEN "looping" ELSE pc[r][j]
      /\ \A u \in Tasks : future'[u] = IF u = t THEN o ELSE future[u]
      /\ t \in Tasks
  BY DEF Deliver, Goto, Resolve, TypeInv, TypeOK, WorkerTypes
<1> HIDE DEF t
<1>2. t # None
  BY <1>1, NoneAssumption
<1>3. LanesApart' /\ HandsApart' /\ IdleHands'
  BY <1>1 DEF PlaceInv, LanesApart, HandsApart, IdleHands, InLane, Busy
<1>4. \A u \in Tasks : Lined(u)' = Lined(u)
  BY DEF Lined, InLane
<1>5. \A u \in Tasks : Held(u)' <=> Held(u) /\ u # t
  BY <1>1, <1>2, NoneAssumption DEF Held, PlaceInv, HandsApart, t
<1>6. Held(t) /\ o # Pending
  BY DEF Held, t, Outcomes, Pending
<1>7. \A u \in Tasks : Placed(u)'
  BY <1>1, <1>4, <1>5, <1>6 DEF PlaceInv, Placed
<1>8. QED
  BY <1>3, <1>7 DEF PlaceInv

\* A pool that starts finds no one holding a task.
LEMMA SpawnedIdle ==
  ASSUME Unspawned, PlaceInv, NEW S, Spawn(S)
  PROVE  \A q \in Queues, i \in Slots : pc'[q][i] \notin Busy => holds[q][i] = None
<1>1. \A q \in Queues, i \in Slots : pc'[q][i] = pc[q][i] \/ pc[q][i] = "absent"
  BY DEF Spawn, Unspawned
<1>2. QED
  BY <1>1 DEF PlaceInv, IdleHands, Busy

\* Submit keeps every task in its place.
LEMMA SubmitPlaces ==
  ASSUME TypeInv, Unspawned, PlaceInv, NEW t \in Tasks, Issue(t) \/ SubmitStep(t)
  PROVE  PlaceInv'
<1>0. \A l : call' = [call EXCEPT ![t] = l] =>
        \A u \in Tasks : call'[u] = IF u = t THEN l ELSE call[u]
  BY DEF TypeInv, TypeOK, SubmitTypes
<1>1. CASE Issue(t)
  <2>1. call[t] = "unborn" /\ call' = [call EXCEPT ![t] = "issued"]
        /\ UNCHANGED <<lanes, holds, future, pc>>
    BY <1>1 DEF Issue, queueVars, workerVars
  <2>2. QED
    BY <1>0, <2>1, PlacesKept DEF PlaceInv, IdleHands, Early
<1>2. CASE Lookup(t)
  <2>1. UNCHANGED <<lanes, holds, pc>> /\ call[t] = "issued"
    BY <1>2 DEF Lookup, queueVars, workerVars
  <2>2. CASE closed
    BY <1>2, <2>1, <2>2, PlacesRefused DEF Lookup, Outcomes, Early
  <2>3. CASE ~closed
    <3>1. PICK l \in {"looked", "checked"} :
            call' = [call EXCEPT ![t] = l] /\ future' = future
      BY <1>2, <2>3 DEF Lookup
    <3>2. QED
      BY <1>0, <2>1, <3>1, PlacesKept DEF PlaceInv, IdleHands, Early
  <2>4. QED
    BY <2>2, <2>3
<1>3. CASE CheckRunning(t)
  <2>1. UNCHANGED <<lanes, holds, pc>> /\ call[t] = "looked"
    BY <1>3 DEF CheckRunning, queueVars, workerVars
  <2>2. CASE CoalescesWithRunning(t)
    BY <1>3, <2>1, <2>2, PlacesRefused DEF CheckRunning, Outcomes, Early
  <2>3. CASE ~CoalescesWithRunning(t)
    <3>1. call' = [call EXCEPT ![t] = "checked"] /\ future' = future
      BY <1>3, <2>3 DEF CheckRunning
    <3>2. QED
      BY <1>0, <2>1, <3>1, PlacesKept DEF PlaceInv, IdleHands, Early
  <2>4. QED
    BY <2>2, <2>3
<1>4. CASE Enqueue(t)
  <2>1. UNCHANGED <<holds, pc>> /\ call[t] = "checked"
    BY <1>4 DEF Enqueue, workerVars
  <2>2. CASE stop[qOf[t]]
    <3>1. CASE Resolve({t}, "switched") /\ call' = [call EXCEPT ![t] = "done"]
               /\ lanes' = lanes
      BY <2>1, <3>1, PlacesRefused DEF Outcomes, Early
    <3>2. QED
      BY <1>4, <2>2, <3>1 DEF Enqueue
  <2>3. CASE ~stop[qOf[t]]
    <3> DEFINE q     == qOf[t]
               twins == QueuedTwins(t, q)
    <3>1. q \in Queues
      BY <1>4 DEF Enqueue, TypeInv, QueueFound
    <3>2. /\ Resolve(twins, "coalesced")
          /\ call' = [call EXCEPT ![t] = "queued"]
          /\ lanes' = [lanes EXCEPT ![q] =
               [p \in Priorities |-> IF p = Prio(t) THEN Seat(lanes[q][p], twins, t)
                                     ELSE Without(lanes[q][p], twins)]]
      BY <1>4, <2>3 DEF Enqueue
    <3>3. twins \in SUBSET Queued(q)
      BY DEF QueuedTwins
    <3> HIDE DEF q, twins
    <3>4. t \notin twins /\ \A p \in Priorities : t \notin Range(lanes[q][p])
      <4>1. ~Lined(t)
        BY <2>1 DEF PlaceInv, Placed, Early
      <4>2. QED
        BY <3>1, <3>3, <4>1 DEF Lined, InLane, Queued
    <3>5. \A r \in Queues, p \in Priorities :
            lanes'[r][p] = IF r # q THEN lanes[r][p]
                           ELSE IF p = Prio(t) THEN Seat(lanes[q][p], twins, t)
                           ELSE Without(lanes[q][p], twins)
      BY <3>2 DEF TypeInv, TypeOK, QueueTypes
    <3>6. \A r \in Queues, p \in Priorities :
            lanes[r][p] \in Seq(Tasks) /\ IsInjective(lanes[r][p])
      BY LaneType DEF PlaceInv, LanesApart
    <3>7. \A p \in Priorities :
            /\ IsInjective(Seat(lanes[q][p], twins, t))
            /\ Range(Seat(lanes[q][p], twins, t)) = (Range(lanes[q][p]) \ twins) \cup {t}
      BY <3>1, <3>4, <3>6, SeatInjective, SeatProperties
    <3>8. \A p \in Priorities :
            /\ IsInjective(Without(lanes[q][p], twins))
            /\ Range(Without(lanes[q][p], twins)) = Range(lanes[q][p]) \ twins
      BY <3>1, <3>6, WithoutInjective, WithoutProperties
    <3>9. \A r \in Queues, p \in Priorities :
            /\ IsInjective(lanes'[r][p])
            /\ Range(lanes'[r][p]) = IF r # q THEN Range(lanes[r][p])
                                     ELSE (Range(lanes[q][p]) \ twins)
                                            \cup (IF p = Prio(t) THEN {t} ELSE {})
      BY <3>5, <3>6, <3>7, <3>8
    <3>10. Prio(t) \in Priorities /\ "coalesced" \in Outcomes
      BY ReqType DEF Outcomes
    <3>11. PICK A \in SUBSET Tasks : A = {t}
      OBVIOUS
    <3>12. call[t] \in Early /\ "queued" \notin Early
      BY <2>1 DEF Early
    <3>13. \A u \in Tasks : call'[u] = IF u = t THEN "queued" ELSE call[u]
      BY <1>0, <3>2
    <3>14. \A u \in Tasks : /\ u \in A => call[u] \in Early
                            /\ call'[u] \in Early <=> call[u] \in Early /\ u \notin A
      BY <3>11, <3>12, <3>13
    <3>15. Exchange(q, twins, Prio(t), A)
      BY <3>9, <3>11, <3>14 DEF Exchange
    <3>16. QED
      BY <2>1, <3>1, <3>2, <3>3, <3>10, <3>11, <3>14, <3>15, PlacesDropped
  <2>4. QED
    BY <2>2, <2>3
<1>5. CASE EnsurePoolFor(t)
  <2>1. /\ UNCHANGED <<lanes, holds, future>> /\ call[t] = "queued"
        /\ call' = [call EXCEPT ![t] = "pooled"]
    BY <1>5 DEF EnsurePoolFor, queueVars
  <2>2. \A q \in Queues, i \in Slots : pc'[q][i] \notin Busy => holds[q][i] = None
    BY <1>5, SpawnedIdle DEF EnsurePoolFor
  <2>3. QED
    BY <1>0, <2>1, <2>2, PlacesKept DEF Early
<1>6. CASE ChooseVictim(t) \/ Preempt(t)
  <2>1. PICK l \in {"poking", "done"} : call' = [call EXCEPT ![t] = l]
    BY <1>6 DEF ChooseVictim, Preempt
  <2>2. UNCHANGED <<lanes, holds, future, pc>> /\ call[t] \in {"pooled", "poking"}
    BY <1>6 DEF ChooseVictim, Preempt, queueVars, workerVars
  <2>3. QED
    BY <1>0, <2>1, <2>2, PlacesKept DEF PlaceInv, IdleHands, Early
<1>7. QED
  BY <1>1, <1>2, <1>3, <1>4, <1>5, <1>6 DEF SubmitStep

\* So does every step of a worker.
LEMMA WorkerPlaces ==
  ASSUME TypeInv, PlaceInv, NEW q \in Queues, NEW i \in Slots, WorkerStep(q, i)
  PROVE  PlaceInv'
<1>0. \A l : Goto(q, i, l) =>
        \A r \in Queues, j \in Slots :
          pc'[r][j] = IF r = q /\ j = i THEN l ELSE pc[r][j]
  BY DEF Goto, TypeInv, TypeOK, WorkerTypes
<1>1. CASE \/ Exit(q, i) \/ Wake(q, i) \/ Loop(q, i) \/ Miss(q, i) \/ Recheck(q, i)
           \/ WakeSibling(q, i) \/ Signal(q, i) \/ Register(q, i) \/ Return(q, i)
  <2>1. UNCHANGED <<lanes, holds, future, call>>
    BY <1>1 DEF Exit, Wake, Loop, Miss, Recheck, WakeSibling, Signal, Register,
                Return, queueVars, submitVars
  <2>2. \E l : Goto(q, i, l) /\ (l \notin Busy => pc[q][i] \notin Busy)
    BY <1>1 DEF Exit, Wake, Loop, Miss, Recheck, WakeSibling, Signal, Signalling,
                AfterSignal, Register, Return, Busy
  <2>3. \A r \in Queues, j \in Slots : pc'[r][j] \notin Busy => holds[r][j] = None
    BY <1>0, <2>2 DEF PlaceInv, IdleHands
  <2>4. QED
    BY <2>1, <2>3, PlacesKept
<1>2. CASE Pick(q, i)
  <2> DEFINE p == Choice(q, i)
             t == Head(lanes[q][p])
  <2>1. p \in Priorities /\ lanes[q][p] # << >>
    BY <1>2, ChoiceServesWork DEF Pick
  <2>2. /\ holds' = [holds EXCEPT ![q][i] = t]
        /\ lanes' = [lanes EXCEPT ![q][p] = Tail(lanes[q][p])]
        /\ Goto(q, i, "picked") /\ pc[q][i] \notin Busy
        /\ UNCHANGED <<future, call>>
    BY <1>2 DEF Pick, Busy, submitVars
  <2> HIDE DEF p
  <2>3. lanes[q][p] \in Seq(Tasks) /\ IsInjective(lanes[q][p])
    BY <2>1, LaneType DEF PlaceInv, LanesApart
  <2>4. /\ t \in Range(lanes[q][p]) /\ t \in Tasks
        /\ Range(Tail(lanes[q][p])) = Range(lanes[q][p]) \ {t}
        /\ IsInjective(Tail(lanes[q][p]))
    BY <2>1, <2>3, PopProperties, LaneType
  <2> HIDE DEF t
  <2>5. \A r \in Queues, o \in Priorities :
          lanes'[r][o] = IF r = q /\ o = p THEN Tail(lanes[q][p]) ELSE lanes[r][o]
    BY <2>1, <2>2 DEF TypeInv, TypeOK, QueueTypes
  <2>6. \A r \in Queues, j \in Slots :
          /\ holds'[r][j] = IF r = q /\ j = i THEN t ELSE holds[r][j]
          /\ pc'[r][j] = IF r = q /\ j = i THEN "picked" ELSE pc[r][j]
    BY <1>0, <2>2 DEF TypeInv, TypeOK, WorkerTypes
  <2>7. /\ InLane(t, q, p) /\ Lined(t) /\ ~Held(t) /\ t # None
        /\ holds[q][i] = None
    BY <2>1, <2>2, <2>4, NoneAssumption
    DEF InLane, Lined, PlaceInv, Placed, IdleHands
  <2>8. \A u \in Tasks, r \in Queues, o \in Priorities :
          InLane(u, r, o)' <=> InLane(u, r, o) /\ u # t
    <3>1. \A r \in Queues, o \in Priorities : InLane(t, r, o) => r = q /\ o = p
      BY <2>1, <2>4, <2>7 DEF PlaceInv, LanesApart
    <3>2. QED
      BY <2>4, <2>5, <3>1 DEF InLane
  <2>9. LanesApart'
    BY <2>4, <2>5, <2>8 DEF PlaceInv, LanesApart
  <2>10. HandsApart' /\ IdleHands'
    BY <2>6, <2>7 DEF PlaceInv, HandsApart, IdleHands, Held, Busy
  <2>11. \A u \in Tasks : /\ Lined(u)' <=> Lined(u) /\ u # t
                          /\ Held(u)' <=> Held(u) \/ u = t
    BY <2>6, <2>7, <2>8, NoneAssumption DEF Lined, Held
  <2>12. \A u \in Tasks : Placed(u)'
    BY <2>2, <2>4, <2>7, <2>11 DEF PlaceInv, Placed
  <2>13. QED
    BY <2>9, <2>10, <2>12 DEF PlaceInv
<1>3. CASE Decide(q, i) \/ FindQueue(q, i)
  <2>1. holds[q][i] \in Tasks /\ pc[q][i] \in Busy
    BY <1>3 DEF Decide, FindQueue, Busy, TypeInv, HandsFull
  <2>2. UNCHANGED <<lanes, call>>
    BY <1>3 DEF Decide, FindQueue, queueVars, submitVars
  <2>3. CASE \E o \in Outcomes : Deliver(q, i, o)
    BY <2>1, <2>2, <2>3, PlacesDelivered
  <2>4. CASE ~ \E o \in Outcomes : Deliver(q, i, o)
    <3>1. /\ Goto(q, i, "displaced") \/ Goto(q, i, "requeueing")
          /\ UNCHANGED <<holds, future>>
      BY <1>3, <2>4 DEF Decide, FindQueue, Outcomes, ResultOf
    <3>2. QED
      BY <1>0, <2>2, <3>1, PlacesKept DEF PlaceInv, IdleHands, Busy
  <2>5. QED
    BY <2>3, <2>4
<1>4. CASE Requeue(q, i)
  <2> DEFINE t  == holds[q][i]
             to == requeueTo[q][i]
             l  == lanes[to][Prio(t)]
  <2>1. t \in Tasks /\ to \in Queues /\ Prio(t) \in Priorities
    BY <1>4, ReqType DEF Requeue, TypeInv, HandsFull, Busy, Aimed
  <2>2. /\ lanes' = [lanes EXCEPT ![to][Prio(t)] = <<t>> \o l]
        /\ holds' = [holds EXCEPT ![q][i] = None]
        /\ Goto(q, i, "requeued") /\ UNCHANGED <<future, call>>
    BY <1>4 DEF Requeue, submitVars
  <2>3. Held(t) /\ ~Lined(t)
    BY <2>1 DEF Held, PlaceInv, Placed
  <2> HIDE DEF t, to
  <2>4. l \in Seq(Tasks) /\ IsInjective(l) /\ t \notin Range(l)
    BY <2>1, <2>3, LaneType DEF PlaceInv, LanesApart, Lined, InLane
  <2>5. Range(<<t>> \o l) = Range(l) \cup {t} /\ IsInjective(<<t>> \o l)
    BY <2>1, <2>4, PushProperties
  <2>6. \A r \in Queues, o \in Priorities :
          lanes'[r][o] = IF r = to /\ o = Prio(t) THEN <<t>> \o l ELSE lanes[r][o]
    BY <2>1, <2>2 DEF TypeInv, TypeOK, QueueTypes
  <2>7. \A r \in Queues, j \in Slots :
          /\ holds'[r][j] = IF r = q /\ j = i THEN None ELSE holds[r][j]
          /\ pc'[r][j] = IF r = q /\ j = i THEN "requeued" ELSE pc[r][j]
    BY <1>0, <2>2 DEF TypeInv, TypeOK, WorkerTypes
  <2>8. \A u \in Tasks, r \in Queues, o \in Priorities :
          InLane(u, r, o)' <=> \/ InLane(u, r, o)
                               \/ u = t /\ r = to /\ o = Prio(t)
    BY <2>5, <2>6 DEF InLane
  <2>9. LanesApart'
    <3>1. \A r \in Queues, o \in Priorities : IsInjective(lanes'[r][o])
      BY <2>5, <2>6 DEF PlaceInv, LanesApart
    <3>2. \A r \in Queues, o \in Priorities : ~InLane(t, r, o)
      BY <2>3 DEF Lined
    <3>3. QED
      BY <2>8, <3>1, <3>2 DEF PlaceInv, LanesApart
  <2>10. HandsApart' /\ IdleHands'
    BY <2>7 DEF PlaceInv, HandsApart, IdleHands
  <2>11. \A u \in Tasks : Lined(u)' <=> Lined(u) \/ u = t
    BY <2>1, <2>8 DEF Lined
  <2>12. \A u \in Tasks : Held(u)' <=> Held(u) /\ u # t
    BY <2>1, <2>7, NoneAssumption DEF Held, PlaceInv, HandsApart, t
  <2>13. \A u \in Tasks : Placed(u)'
    BY <2>2, <2>3, <2>11, <2>12 DEF PlaceInv, Placed
  <2>14. QED
    BY <2>9, <2>10, <2>13 DEF PlaceInv
<1>5. QED
  BY <1>1, <1>2, <1>3, <1>4 DEF WorkerStep

\* So do the control calls.
LEMMA ControlPlaces ==
  ASSUME TypeInv, Unspawned, PlaceInv,
         \/ StartWorkers \/ Close \/ StopWorkers \/ OpStep
         \/ \E k \in Contexts : CancelContext(k) \/ CancelStaleByGen(k)
  PROVE  PlaceInv'
<1>1. CASE StartWorkers
  <2>1. \A q \in Queues, i \in Slots : pc'[q][i] \notin Busy => holds[q][i] = None
    BY <1>1, SpawnedIdle DEF StartWorkers
  <2>2. QED
    BY <1>1, <2>1, PlacesKept DEF StartWorkers, queueVars, submitVars
<1>2. ASSUME NEW q \in Queues, Drain(q) PROVE PlaceInv'
  <2> DEFINE K == Queued(q)
  <2>1. /\ Resolve(K, "switched") /\ UNCHANGED <<holds, pc, call>>
        /\ lanes' = [lanes EXCEPT ![q] = [p \in Priorities |-> << >>]]
    BY <1>2 DEF Drain, workerVars, submitVars
  <2>2. \A r \in Queues, p \in Priorities :
          lanes'[r][p] = IF r # q THEN lanes[r][p] ELSE << >>
    BY <2>1 DEF TypeInv, TypeOK, QueueTypes
  <2>3. \A p \in Priorities : Range(lanes[q][p]) \ K = {}
    BY DEF Queued
  <2> HIDE DEF K
  <2>4. PICK A \in SUBSET Tasks : A = {}
    OBVIOUS
  <2>5. \A r \in Queues, p \in Priorities :
          /\ IsInjective(lanes'[r][p])
          /\ Range(lanes'[r][p]) = IF r # q THEN Range(lanes[r][p]) ELSE {}
    BY <2>2, EmptyLane DEF PlaceInv, LanesApart
  <2>6. Exchange(q, K, High, A)
    BY <2>1, <2>3, <2>4, <2>5 DEF Exchange
  <2>7. K \in SUBSET Queued(q) /\ "switched" \in Outcomes /\ High \in Priorities
    BY DEF K, Outcomes, Priorities
  <2>8. QED
    BY <2>1, <2>4, <2>6, <2>7, PlacesDropped
<1>3. ASSUME NEW q \in Queues, DropStaleByGen(q) PROVE PlaceInv'
  <2>1. PICK K \in SUBSET Queued(q) :
          /\ Resolve(K, "superseded")
          /\ lanes' = [lanes EXCEPT ![q] = [p \in Priorities |-> Without(@[p], K)]]
    BY <1>3 DEF DropStaleByGen
  <2>2. UNCHANGED <<holds, pc, call>>
    BY <1>3 DEF DropStaleByGen, workerVars, submitVars
  <2>3. \A r \in Queues, p \in Priorities :
          lanes'[r][p] = IF r # q THEN lanes[r][p] ELSE Without(lanes[q][p], K)
    BY <2>1 DEF TypeInv, TypeOK, QueueTypes
  <2>4. \A p \in Priorities :
          /\ IsInjective(Without(lanes[q][p], K))
          /\ Range(Without(lanes[q][p], K)) = Range(lanes[q][p]) \ K
    <3>1. \A p \in Priorities : lanes[q][p] \in Seq(Tasks) /\ IsInjective(lanes[q][p])
      BY LaneType DEF PlaceInv, LanesApart
    <3>2. QED
      BY <3>1, WithoutInjective, WithoutProperties
  <2>5. PICK A \in SUBSET Tasks : A = {}
    OBVIOUS
  <2>6. Exchange(q, K, High, A)
    BY <2>2, <2>3, <2>4, <2>5 DEF Exchange, PlaceInv, LanesApart
  <2>7. "superseded" \in Outcomes /\ High \in Priorities
    BY DEF Outcomes, Priorities
  <2>8. QED
    BY <2>1, <2>2, <2>5, <2>6, <2>7, PlacesDropped
<1>4. CASE \/ Close \/ StopWorkers \/ DetachAll \/ OpReturn
           \/ \E q \in Queues : CloseStop(q)
           \/ \E a \in opMarks : MarkSwitched(a) \/ MarkSuperseded(a)
           \/ \E k \in Contexts : CancelContext(k) \/ CancelStaleByGen(k)
  <2>1. UNCHANGED <<lanes, holds, future, pc, call>>
    BY <1>4 DEF Close, StopWorkers, DetachAll, OpReturn, CloseStop, MarkSwitched,
                MarkSuperseded, CancelContext, CancelStaleByGen, queueVars,
                workerVars, submitVars
  <2>2. QED
    BY <2>1, PlacesKept DEF PlaceInv, IdleHands
<1>5. QED
  BY <1>1, <1>2, <1>3, <1>4 DEF OpStep

\* Every step of the program does.
LEMMA NextPlaces == ASSUME TypeInv, Unspawned, PlaceInv, [Next]_vars PROVE PlaceInv'
<1>1. CASE UNCHANGED vars
  BY <1>1, PlacesKept DEF vars, queueVars, workerVars, submitVars, PlaceInv, IdleHands
<1>2. QED
  BY <1>1, SubmitPlaces, WorkerPlaces, ControlPlaces DEF Next

LEMMA PlaceInvariant == Spec => []PlaceInv
<1>1. TypeInv /\ WakeInv /\ PlaceInv /\ [Next]_vars => PlaceInv'
  BY NextPlaces DEF WakeInv
<1>2. QED
  BY InitPlaces, TypeInvariant, WakeInvariant, <1>1, PTL DEF Spec

\* The places of a task are those of PlaceInv.
LEMMA OneOfItsPlaces ==
  ASSUME TypeInv, PlaceInv, NEW t \in Tasks
  PROVE  \E x \in Places(t) : Places(t) = {x}
<1>1. Placed(t)
  BY DEF PlaceInv
<1>2. /\ Lined(t) => \E x : LanePlaces(t) = {x}
      /\ ~Lined(t) => LanePlaces(t) = {}
  <2>1. \A q \in Queues, p \in Priorities : \A n \in DOMAIN lanes[q][p] :
          lanes[q][p][n] = t => InLane(t, q, p)
    BY DEF InLane, Range
  <2>2. \A x : x \in LanePlaces(t) <=>
          \E q \in Queues, p \in Priorities : \E n \in DOMAIN lanes[q][p] :
             lanes[q][p][n] = t /\ x = <<"lane", q, p, n>>
    <3> DEFINE At(q, p) == {<<"lane", q, p, n>> :
                              n \in {m \in DOMAIN lanes[q][p] : lanes[q][p][m] = t}}
    <3>1. \A x : x \in LanePlaces(t) <=> \E q \in Queues, p \in Priorities : x \in At(q, p)
      <4>1. LanePlaces(t) = UNION {At(q, p) : q \in Queues, p \in Priorities}
        BY DEF LanePlaces
      <4> HIDE DEF At
      <4>2. QED
        BY <4>1
    <3>2. \A q, p, x : x \in At(q, p) <=> \E n \in DOMAIN lanes[q][p] :
                           lanes[q][p][n] = t /\ x = <<"lane", q, p, n>>
      OBVIOUS
    <3> HIDE DEF At
    <3>3. QED
      BY <3>1, <3>2
  <2>3. ~Lined(t) => LanePlaces(t) = {}
    BY <2>1, <2>2 DEF Lined
  <2>4. ASSUME NEW q \in Queues, NEW p \in Priorities, InLane(t, q, p)
        PROVE  \E x : LanePlaces(t) = {x}
    <3>1. PICK n \in DOMAIN lanes[q][p] : lanes[q][p][n] = t
      BY <2>4 DEF InLane, Range
    <3>2. \A r \in Queues, o \in Priorities : \A m \in DOMAIN lanes[r][o] :
            lanes[r][o][m] = t => r = q /\ o = p /\ m = n
      BY <2>1, <2>4, <3>1 DEF PlaceInv, LanesApart, IsInjective
    <3>3. PICK x : x = <<"lane", q, p, n>>
      OBVIOUS
    <3>4. \A y : y \in LanePlaces(t) <=> y = x
      BY <2>2, <3>1, <3>2, <3>3
    <3>5. QED
      BY <3>4
  <2>5. QED
    BY <2>3, <2>4 DEF Lined
<1>3. /\ Held(t) => \E x : HandPlaces(t) = {x}
      /\ ~Held(t) => HandPlaces(t) = {}
  <2>1. \A x : x \in HandPlaces(t) <=>
          \E q \in Queues, i \in Slots : holds[q][i] = t /\ x = <<"worker", q, i>>
    BY DEF HandPlaces
  <2>2. ~Held(t) => HandPlaces(t) = {}
    BY <2>1 DEF Held
  <2>3. ASSUME NEW q \in Queues, NEW i \in Slots, holds[q][i] = t
        PROVE  \E x : HandPlaces(t) = {x}
    <3>1. \A r \in Queues, j \in Slots : holds[r][j] = t => r = q /\ j = i
      BY <2>3, NoneAssumption DEF PlaceInv, HandsApart
    <3>2. PICK x : x = <<"worker", q, i>>
      OBVIOUS
    <3>3. \A y : y \in HandPlaces(t) <=> y = x
      BY <2>1, <2>3, <3>1, <3>2
    <3>4. QED
      BY <3>3
  <2>4. QED
    BY <2>2, <2>3 DEF Held
<1>4. QED
  BY <1>1, <1>2, <1>3 DEF Placed, Places, Early

\* Whatever Submit, the workers and the control calls do at once, a task is in
\* its Submit, at one index of one lane, in the hands of one worker, or answered:
\* no Future is sent to twice or forgotten, and no attempt runs twice at a time.
THEOREM TasksAreInOnePlace == Spec => []ExactlyOnePlace
<1>1. TypeInv /\ PlaceInv => ExactlyOnePlace
  BY OneOfItsPlaces DEF ExactlyOnePlace
<1>2. QED
  BY TypeInvariant, PlaceInvariant, <1>1, PTL
-----------------------------------------------------------------------------
(* Whoever runs is tracked. *)

Runs(t) == \E q \in Queues, i \in Slots : holds[q][i] = t /\ pc[q][i] = "running"

Tracked(t) == \/ <<t, attempts[t]>> \in Range(running[Kctx(t)])
              \/ op = "cancel" /\ <<t, attempts[t]>> \in opMarks
              \/ "switched" \in flags[t]

\* An entry of runningTasks is the latest attempt of a task of its context that
\* a worker runs, and no running task lacks one unless a CancelContext owns it.
TrackInv ==
    /\ \A t \in Tasks : Runs(t) => Tracked(t)
    /\ \A k \in Contexts : \A a \in Range(running[k]) :
         Kctx(a[1]) = k /\ a[2] = attempts[a[1]] /\ Runs(a[1])

\* The entries of runningTasks are attempts.
LEMMA RunningType ==
  ASSUME TypeInv, NEW k \in Contexts
  PROVE  /\ running[k] \in Seq(Attempts)
         /\ \A a \in Range(running[k]) :
              a[1] \in Tasks /\ a[2] \in Nat /\ a = <<a[1], a[2]>>
<1>1. running[k] \in Seq(Attempts)
  BY DEF TypeInv, TypeOK, AttemptTypes
<1>2. Range(running[k]) \subseteq Attempts
  BY <1>1, RangeOfSeq
<1>3. QED
  BY <1>1, <1>2 DEF Attempts

\* A step that starts and ends no Fn, and takes no mark back.
LEMMA TrackKept ==
  ASSUME TrackInv, UNCHANGED <<running, attempts>>,
         \A t \in Tasks : "switched" \in flags[t] => "switched" \in flags'[t],
         op = "cancel" => op' = "cancel" /\ opMarks' = opMarks,
         \A q \in Queues, i \in Slots :
            /\ pc'[q][i] = "running" <=> pc[q][i] = "running"
            /\ pc[q][i] = "running" => holds'[q][i] = holds[q][i]
  PROVE  TrackInv'
<1>1. \A t : Runs(t)' <=> Runs(t)
  BY DEF Runs
<1>2. \A t \in Tasks : Tracked(t) => Tracked(t)'
  BY DEF Tracked
<1>3. QED
  BY <1>1, <1>2 DEF TrackInv

\* Submit runs nothing.
LEMMA SubmitTracks ==
  ASSUME TypeInv, Unspawned, TrackInv, NEW t \in Tasks, Issue(t) \/ SubmitStep(t)
  PROVE  TrackInv'
<1>1. UNCHANGED <<running, attempts, op, opMarks, holds>>
  BY DEF Issue, SubmitStep, Lookup, CheckRunning, Enqueue, EnsurePoolFor,
         ChooseVictim, Preempt, attemptVars, opVars, workerVars
<1>2. \A q \in Queues, i \in Slots : pc'[q][i] = "running" <=> pc[q][i] = "running"
  <2>1. UNCHANGED pc \/ \E S : Spawn(S)
    BY DEF Issue, SubmitStep, Lookup, CheckRunning, Enqueue, EnsurePoolFor,
           ChooseVictim, Preempt, workerVars
  <2>2. QED
    BY <2>1 DEF Spawn, Unspawned
<1>3. \A u \in Tasks : flags[u] \subseteq flags'[u]
  <2>1. UNCHANGED flags \/ Mark(victim[t], "preempted")
    BY DEF Issue, SubmitStep, Lookup, CheckRunning, Enqueue, EnsurePoolFor,
           ChooseVictim, Preempt, attemptVars
  <2>2. QED
    BY <2>1 DEF Mark, TypeInv, TypeOK, AttemptTypes
<1>4. QED
  BY <1>1, <1>2, <1>3, TrackKept

\* A worker enters its attempt when Fn starts and takes it out when Fn returns.
LEMMA WorkerTracks ==
  ASSUME TypeInv, PlaceInv, TrackInv, NEW q \in Queues, NEW i \in Slots,
         WorkerStep(q, i)
  PROVE  TrackInv'
<1>0. \A l : Goto(q, i, l) =>
        \A r \in Queues, j \in Slots :
          pc'[r][j] = IF r = q /\ j = i THEN l ELSE pc[r][j]
  BY DEF Goto, TypeInv, TypeOK, WorkerTypes
<1>1. CASE \/ Exit(q, i) \/ Wake(q, i) \/ Loop(q, i) \/ Pick(q, i) \/ Miss(q, i)
           \/ Recheck(q, i) \/ WakeSibling(q, i) \/ Signal(q, i) \/ Decide(q, i)
           \/ FindQueue(q, i) \/ Requeue(q, i)
  <2>1. /\ UNCHANGED <<running, attempts, flags, op, opMarks>>
        /\ pc[q][i] # "running"
    BY <1>1 DEF Exit, Wake, Loop, Pick, Miss, Recheck, WakeSibling, Signal, Signalling,
                Decide, FindQueue, Requeue, attemptVars, opVars
  <2>2. \E l : Goto(q, i, l) /\ l # "running"
    <3>1. CASE Decide(q, i)
      BY <3>1 DEF Decide, Deliver
    <3>2. CASE FindQueue(q, i)
      BY <3>2 DEF FindQueue, Deliver
    <3>3. CASE ~Decide(q, i) /\ ~FindQueue(q, i)
      BY <1>1, <3>3 DEF Exit, Wake, Loop, Pick, Miss, Recheck, WakeSibling, Signal,
                        Signalling, AfterSignal, Requeue
    <3>4. QED
      BY <3>1, <3>2, <3>3
  <2>3. \E x : holds' = holds \/ holds' = [holds EXCEPT ![q][i] = x]
    BY <1>1 DEF Exit, Wake, Loop, Pick, Miss, Recheck, WakeSibling, Signal,
                Decide, FindQueue, Requeue, Deliver
  <2>4. \A r \in Queues, j \in Slots :
          ~(r = q /\ j = i) => holds'[r][j] = holds[r][j]
    BY <2>3 DEF TypeInv, TypeOK, WorkerTypes
  <2>5. \A r \in Queues, j \in Slots :
          /\ pc'[r][j] = "running" <=> pc[r][j] = "running"
          /\ pc[r][j] = "running" => holds'[r][j] = holds[r][j]
    BY <1>0, <2>1, <2>2, <2>4
  <2>6. QED
    BY <2>1, <2>5, TrackKept
<1>2. CASE Register(q, i)
  <2>0. PICK t \in Tasks : t = holds[q][i]
    BY <1>2 DEF Register, TypeInv, HandsFull, Busy
  <2> DEFINE a == <<t, attempts[t] + 1>>
  <2>1. pc[q][i] = "dispatched" /\ Kctx(t) \in Contexts
    BY <1>2, ReqType DEF Register
  <2>2. /\ attempts' = [attempts EXCEPT ![t] = @ + 1]
        /\ flags' = [flags EXCEPT ![t] = {}]
        /\ running' = [running EXCEPT ![Kctx(t)] = Append(@, a)]
        /\ Goto(q, i, "running")
        /\ UNCHANGED <<holds, op, opMarks>>
    BY <1>2, <2>0 DEF Register, FreshFlags, opVars
  <2>3. \A u \in Tasks : Runs(u)' <=> Runs(u) \/ u = t
    BY <1>0, <2>0, <2>1, <2>2 DEF Runs
  <2>4. ~Runs(t)
    BY <2>0, <2>1, NoneAssumption DEF Runs, PlaceInv, HandsApart
  <2>5. /\ \A u \in Tasks : attempts'[u] = IF u = t THEN attempts[t] + 1 ELSE attempts[u]
        /\ \A u \in Tasks : u # t => flags'[u] = flags[u]
        /\ attempts[t] + 1 \in Nat
    BY <2>1, <2>2 DEF TypeInv, TypeOK, AttemptTypes
  <2>6. a \in Attempts
    BY <2>1, <2>5 DEF Attempts
  <2>7. \A k \in Contexts : Range(running'[k]) =
          IF k = Kctx(t) THEN Range(running[k]) \cup {a} ELSE Range(running[k])
    <3>1. \A k \in Contexts :
            running'[k] = IF k = Kctx(t) THEN Append(running[k], a) ELSE running[k]
      BY <2>1, <2>2 DEF TypeInv, TypeOK, AttemptTypes
    <3>2. \A k \in Contexts : Range(Append(running[k], a)) = Range(running[k]) \cup {a}
      BY <2>6, RunningType, RangeAppend
    <3>3. QED
      BY <3>1, <3>2
  <2>8. \A u \in Tasks : Kctx(u) \in Contexts
    BY ReqType
  <2>9. \A u \in Tasks : Runs(u)' => Tracked(u)'
    <3>1. Tracked(t)'
      BY <2>1, <2>5, <2>7 DEF Tracked
    <3>2. \A u \in Tasks : u # t /\ Tracked(u) => Tracked(u)'
      <4> SUFFICES ASSUME NEW u \in Tasks, u # t, Tracked(u) PROVE Tracked(u)'
        OBVIOUS
      <4>1. UNCHANGED <<attempts[u], flags[u], op, opMarks>>
        BY <2>2, <2>5
      <4>2. Range(running[Kctx(u)]) \subseteq Range(running'[Kctx(u)])
        BY <2>7, <2>8
      <4>3. QED
        BY <4>1, <4>2 DEF Tracked
    <3>3. QED
      BY <2>3, <3>1, <3>2 DEF TrackInv
  <2>10. \A k \in Contexts : \A b \in Range(running'[k]) :
           Kctx(b[1]) = k /\ b[2] = attempts'[b[1]] /\ Runs(b[1])'
    <3>1. a[1] = t /\ a[2] = attempts[t] + 1
      OBVIOUS
    <3> HIDE DEF a
    <3>2. \A k \in Contexts : \A b \in Range(running[k]) :
            /\ b[1] \in Tasks /\ b[1] # t
            /\ Kctx(b[1]) = k /\ b[2] = attempts[b[1]] /\ Runs(b[1])
      BY <2>4, RunningType DEF TrackInv
    <3>3. ASSUME NEW k \in Contexts, NEW b \in Range(running'[k])
          PROVE  Kctx(b[1]) = k /\ b[2] = attempts'[b[1]] /\ Runs(b[1])'
      <4>1. CASE b \in Range(running[k])
        BY <2>3, <2>5, <3>2, <4>1
      <4>2. CASE b = a
        BY <2>3, <2>4, <2>5, <2>7, <3>1, <3>2, <4>2
      <4>3. QED
        BY <2>7, <4>1, <4>2
    <3>4. QED
      BY <3>3
  <2>11. QED
    BY <2>9, <2>10 DEF TrackInv
<1>3. CASE Return(q, i)
  <2>0. PICK t \in Tasks : t = holds[q][i]
    BY <1>3 DEF Return, TypeInv, HandsFull, Busy
  <2> DEFINE a == <<t, attempts[t]>>
  <2>1. pc[q][i] = "running" /\ Kctx(t) \in Contexts
    BY <1>3, ReqType DEF Return
  <2>2. /\ running' = [running EXCEPT ![Kctx(t)] = Without(@, {a})]
        /\ Goto(q, i, "returned")
        /\ UNCHANGED <<holds, attempts, flags, op, opMarks>>
    BY <1>3, <2>0 DEF Return, opVars
  <2>3. \A u \in Tasks : Runs(u)' <=> Runs(u) /\ u # t
    <3>1. \A r \in Queues, j \in Slots : holds[r][j] = t => r = q /\ j = i
      BY <2>0, NoneAssumption DEF PlaceInv, HandsApart
    <3>2. QED
      BY <1>0, <2>0, <2>1, <2>2, <3>1 DEF Runs
  <2>4. \A k \in Contexts : Range(running'[k]) =
          IF k = Kctx(t) THEN Range(running[k]) \ {a} ELSE Range(running[k])
    <3>1. \A k \in Contexts :
            running'[k] = IF k = Kctx(t) THEN Without(running[k], {a}) ELSE running[k]
      BY <2>1, <2>2 DEF TypeInv, TypeOK, AttemptTypes
    <3>2. \A k \in Contexts : Range(Without(running[k], {a})) = Range(running[k]) \ {a}
      BY RunningType, WithoutProperties
    <3>3. QED
      BY <3>1, <3>2
  <2>5. \A u \in Tasks : u # t /\ Tracked(u) => Tracked(u)'
    <3> SUFFICES ASSUME NEW u \in Tasks, u # t, Tracked(u) PROVE Tracked(u)'
      OBVIOUS
    <3>1. <<u, attempts[u]>> # a
      OBVIOUS
    <3>2. Kctx(u) \in Contexts
      BY ReqType
    <3> HIDE DEF a
    <3>3. <<u, attempts[u]>> \in Range(running[Kctx(u)]) =>
            <<u, attempts[u]>> \in Range(running'[Kctx(u)])
      BY <2>4, <3>1, <3>2
    <3>4. QED
      BY <2>2, <3>3 DEF Tracked
  <2>6. \A k \in Contexts : \A b \in Range(running'[k]) :
          Kctx(b[1]) = k /\ b[2] = attempts'[b[1]] /\ Runs(b[1])'
    <3> SUFFICES ASSUME NEW k \in Contexts, NEW b \in Range(running'[k])
                 PROVE  Kctx(b[1]) = k /\ b[2] = attempts'[b[1]] /\ Runs(b[1])'
      OBVIOUS
    <3>1. b \in Range(running[k])
      BY <2>4
    <3>2. /\ b[1] \in Tasks /\ b = <<b[1], b[2]>>
          /\ Kctx(b[1]) = k /\ b[2] = attempts[b[1]] /\ Runs(b[1])
      BY <3>1, RunningType DEF TrackInv
    <3>3. b[1] # t
      BY <2>4, <3>2
    <3>4. QED
      BY <2>2, <2>3, <3>2, <3>3
  <2>7. QED
    BY <2>3, <2>5, <2>6 DEF TrackInv
<1>4. QED
  BY <1>1, <1>2, <1>3 DEF WorkerStep

\* CancelContext takes over what it detaches until it has marked it.
LEMMA ControlTracks ==
  ASSUME TypeInv, Unspawned, TrackInv,
         \/ StartWorkers \/ Close \/ StopWorkers \/ OpStep
         \/ \E k \in Contexts : CancelContext(k) \/ CancelStaleByGen(k)
  PROVE  TrackInv'
<1>1. ASSUME NEW k \in Contexts, CancelContext(k) PROVE TrackInv'
  <2>1. /\ op' = "cancel" /\ opMarks' = Range(running[k])
        /\ running' = [running EXCEPT ![k] = << >>]
        /\ op # "cancel"
        /\ UNCHANGED <<attempts, flags, holds, pc>>
    BY <1>1 DEF CancelContext, StartCall, workerVars
  <2>2. \A l \in Contexts : Range(running'[l]) = IF l = k THEN {} ELSE Range(running[l])
    <3>1. \A l \in Contexts : running'[l] = IF l = k THEN << >> ELSE running[l]
      BY <2>1 DEF TypeInv, TypeOK, AttemptTypes
    <3>2. QED
      BY <3>1, EmptyLane
  <2>3. \A t \in Tasks : Tracked(t) => Tracked(t)'
    BY <2>1, <2>2, ReqType DEF Tracked
  <2>4. \A t : Runs(t)' <=> Runs(t)
    BY <2>1 DEF Runs
  <2>5. QED
    BY <2>1, <2>2, <2>3, <2>4 DEF TrackInv
<1>2. ASSUME NEW a \in opMarks, MarkSwitched(a) PROVE TrackInv'
  <2>1. /\ op = "cancel" /\ op' = op /\ opMarks' = opMarks \ {a}
        /\ Mark(a, "switched")
        /\ UNCHANGED <<running, attempts, holds, pc>>
    BY <1>2 DEF MarkSwitched, workerVars
  <2>2. a \in Attempts
    BY DEF TypeInv, TypeOK, OpTypes
  <2>3. /\ \A t \in Tasks : flags[t] \subseteq flags'[t]
        /\ a[2] = attempts[a[1]] => "switched" \in flags'[a[1]]
    BY <2>1, <2>2 DEF Mark, Attempts, TypeInv, TypeOK, AttemptTypes
  <2>4. \A t \in Tasks : Tracked(t) => Tracked(t)'
    BY <2>1, <2>2, <2>3 DEF Tracked, Attempts
  <2>5. \A t : Runs(t)' <=> Runs(t)
    BY <2>1 DEF Runs
  <2>6. QED
    BY <2>1, <2>4, <2>5 DEF TrackInv
<1>3. CASE OpReturn /\ op = "cancel"
  <2>1. opMarks = {} /\ UNCHANGED <<running, attempts, flags, holds, pc>>
    BY <1>3 DEF OpReturn, workerVars, attemptVars
  <2>2. \A t \in Tasks : Tracked(t) => Tracked(t)'
    BY <2>1 DEF Tracked
  <2>3. \A t : Runs(t)' <=> Runs(t)
    BY <2>1 DEF Runs
  <2>4. QED
    BY <2>1, <2>2, <2>3 DEF TrackInv
<1>4. CASE \/ StartWorkers \/ Close \/ StopWorkers \/ DetachAll
           \/ OpReturn /\ op # "cancel"
           \/ \E q \in Queues : Drain(q) \/ DropStaleByGen(q) \/ CloseStop(q)
           \/ \E a \in opMarks : MarkSuperseded(a)
           \/ \E k \in Contexts : CancelStaleByGen(k)
  <2>1. UNCHANGED <<running, attempts, holds>>
    BY <1>4 DEF StartWorkers, Close, StopWorkers, DetachAll, OpReturn, Drain,
                DropStaleByGen, CloseStop, MarkSuperseded, CancelStaleByGen,
                attemptVars, workerVars
  <2>2. op = "cancel" => op' = "cancel" /\ opMarks' = opMarks
    BY <1>4 DEF StartWorkers, Close, StopWorkers, DetachAll, OpReturn, Drain,
                DropStaleByGen, CloseStop, MarkSuperseded, CancelStaleByGen,
                StartCall, opVars
  <2>3. \A q \in Queues, i \in Slots : pc'[q][i] = "running" <=> pc[q][i] = "running"
    <3>1. UNCHANGED pc \/ \E S : Spawn(S)
      BY <1>4 DEF StartWorkers, Close, StopWorkers, DetachAll, OpReturn, Drain,
                  DropStaleByGen, CloseStop, MarkSuperseded, CancelStaleByGen,
                  workerVars
    <3>2. QED
      BY <3>1 DEF Spawn, Unspawned
  <2>4. \A t \in Tasks : flags[t] \subseteq flags'[t]
    <3>1. UNCHANGED flags \/ \E a \in opMarks : Mark(a, "superseded")
      BY <1>4 DEF StartWorkers, Close, StopWorkers, DetachAll, OpReturn, Drain,
                  DropStaleByGen, CloseStop, MarkSuperseded, CancelStaleByGen,
                  attemptVars
    <3>2. QED
      BY <3>1 DEF Mark, TypeInv, TypeOK, AttemptTypes
  <2>5. QED
    BY <2>1, <2>2, <2>3, <2>4, TrackKept
<1>5. QED
  BY <1>1, <1>2, <1>3, <1>4 DEF OpStep

LEMMA TrackInvariant == Spec => []TrackInv
<1>1. Init => TrackInv
  <2>1. Init => \A k \in Contexts : Range(running[k]) = {}
    BY EmptyLane DEF Init
  <2>2. QED
    BY <2>1 DEF Init, TrackInv, Runs
<1>2. TypeInv /\ WakeInv /\ PlaceInv /\ TrackInv /\ [Next]_vars => TrackInv'
  <2>1. TypeInv /\ Unspawned /\ PlaceInv /\ TrackInv /\ Next => TrackInv'
    BY SubmitTracks, WorkerTracks, ControlTracks DEF Next
  <2>2. TrackInv /\ UNCHANGED vars => TrackInv'
    BY TrackKept DEF vars, attemptVars, opVars, workerVars
  <2>3. QED
    BY <2>1, <2>2 DEF WakeInv
<1>3. QED
  BY TypeInvariant, WakeInvariant, PlaceInvariant, <1>1, <1>2, PTL DEF Spec

\* Preemption, coalescing and cancellation find every attempt that runs: it is in
\* runningTasks, or CancelContext took it out and marks it; and what they find
\* there does run, for its own context.
THEOREM RunningIsTracked == Spec => []RunningTracked
<1>1. TypeInv /\ TrackInv => RunningTracked
  BY DEF TypeInv, HandsFull, Busy, TrackInv, Runs, Tracked, RunningTracked
<1>2. QED
  BY TypeInvariant, TrackInvariant, <1>1, PTL
-----------------------------------------------------------------------------
(* How often a task runs. *)

PreRun == {"picked", "signalling", "dispatched"}

Marked(t) == "preempted" \in flags[t]

\* The Submits that preempted t or could have, and are over.
Paid(t) == {u \in Tasks : Prio(u) < Prio(t) /\ Kctx(u) = Kctx(t) /\ call[u] = "done"}
Born    == {t \in Tasks : call[t] # "unborn"}

HandCounts(q, i) ==
    LET t == holds[q][i]
    IN  /\ pc[q][i] \in PreRun /\ attempts[t] > 0 => Marked(t)
        /\ pc[q][i] \in {"displaced", "requeueing"} => Marked(t)
        /\ pc[q][i] \in Busy \ PreRun => attempts[t] > 0

\* A task that ran and waits again was preempted, and still carries the mark.
HandInv ==
    /\ \A t \in Tasks : /\ call[t] \in Early => attempts[t] = 0
                        /\ Lined(t) /\ attempts[t] > 0 => Marked(t)
    /\ \A q \in Queues, i \in Slots : HandCounts(q, i)

\* Whom a Submit that is about to preempt chose.
PokeInv ==
    \A t \in Tasks : call[t] = "poking" =>
        \E u \in Tasks, n \in Nat : /\ victim[t] = <<u, n>>
                                    /\ Prio(u) > Prio(t) /\ Kctx(u) = Kctx(t)

\* Each attempt but the first, the one a mark has already bought included, was
\* paid for by a Submit of its own.
CostInv ==
    /\ IsFiniteSet(Born)
    /\ \A t \in Tasks :
         attempts[t] + (IF Marked(t) THEN 1 ELSE 0) <= 1 + Cardinality(Paid(t))

RerunInv == HandInv /\ PokeInv /\ CostInv

\* Submit moves its own call forward; nobody else moves one.
LEMMA OneCall ==
  ASSUME TypeInv, NEW t \in Tasks, Issue(t) \/ SubmitStep(t)
  PROVE  /\ \A u \in Tasks : u # t => call'[u] = call[u]
         /\ call[t] # "done" /\ call'[t] # "unborn"
         /\ call'[t] \in Early => call[t] \in Early
<1>1. call[t] \in Steps
  BY DEF TypeInv, TypeOK, SubmitTypes
<1>2. PICK l : /\ call' = [call EXCEPT ![t] = l] /\ l # "unborn" /\ call[t] # "done"
               /\ l \in Early => call[t] \in Early
  BY DEF Issue, SubmitStep, Lookup, CheckRunning, Enqueue, EnsurePoolFor,
         ChooseVictim, Preempt, Early
<1>3. QED
  BY <1>2 DEF TypeInv, TypeOK, SubmitTypes

LEMMA OthersCallNot ==
  ASSUME \/ \E q \in Queues, i \in Slots : WorkerStep(q, i)
         \/ StartWorkers \/ Close \/ StopWorkers \/ OpStep
         \/ \E k \in Contexts : CancelContext(k) \/ CancelStaleByGen(k)
         \/ UNCHANGED vars
  PROVE  UNCHANGED submitVars
<1>1. ASSUME NEW q \in Queues, NEW i \in Slots, WorkerStep(q, i)
      PROVE  UNCHANGED submitVars
  BY <1>1 DEF WorkerStep, Exit, Wake, Loop, Pick, Miss, Recheck, WakeSibling, Signal,
              Register, Return, Decide, FindQueue, Requeue
<1>2. CASE \/ StartWorkers \/ Close \/ StopWorkers \/ OpStep
           \/ \E k \in Contexts : CancelContext(k) \/ CancelStaleByGen(k)
  BY <1>2 DEF StartWorkers, Close, StopWorkers, OpStep, DetachAll, OpReturn, Drain,
              DropStaleByGen, CloseStop, MarkSwitched, MarkSuperseded, CancelContext,
              CancelStaleByGen
<1>3. CASE UNCHANGED vars
  BY <1>3 DEF vars
<1>4. QED
  BY <1>1, <1>2, <1>3

\* Only the start of Fn counts an attempt, and only pokePreempt marks one.
LEMMA WhoMarks ==
  ASSUME TypeInv, [Next]_vars,
         \A q \in Queues, i \in Slots : ~Register(q, i),
         \A t \in Tasks : ~Preempt(t)
  PROVE  UNCHANGED attempts /\ \A t \in Tasks : Marked(t)' <=> Marked(t)
<1>1. /\ UNCHANGED attempts
      /\ UNCHANGED flags \/ \E a \in opMarks, f \in {"switched", "superseded"} : Mark(a, f)
  <2>1. CASE \E t \in Tasks : Issue(t) \/ SubmitStep(t)
    BY <2>1 DEF Issue, SubmitStep, Lookup, CheckRunning, Enqueue, EnsurePoolFor,
                ChooseVictim, attemptVars
  <2>2. ASSUME NEW q \in Queues, NEW i \in Slots, WorkerStep(q, i)
        PROVE  UNCHANGED <<attempts, flags>>
    <3>1. ~Register(q, i)
      OBVIOUS
    <3>2. QED
      BY <2>2, <3>1 DEF WorkerStep, Exit, Wake, Loop, Pick, Miss, Recheck, WakeSibling,
                        Signal, Return, Decide, FindQueue, Requeue, attemptVars
  <2>3. CASE \/ StartWorkers \/ Close \/ StopWorkers \/ OpStep
             \/ \E k \in Contexts : CancelContext(k) \/ CancelStaleByGen(k)
    BY <2>3 DEF StartWorkers, Close, StopWorkers, OpStep, DetachAll, OpReturn, Drain,
                DropStaleByGen, CloseStop, MarkSwitched, MarkSuperseded, CancelContext,
                CancelStaleByGen, attemptVars
  <2>4. CASE UNCHANGED vars
    BY <2>4 DEF vars, attemptVars
  <2>5. QED
    BY <2>1, <2>2, <2>3, <2>4 DEF Next
<1>2. \A a, f : Mark(a, f) /\ f # "preempted" => \A t \in Tasks : Marked(t)' <=> Marked(t)
  BY DEF Mark, Marked, TypeInv, TypeOK, AttemptTypes
<1>3. QED
  BY <1>1, <1>2 DEF Marked

\* What waits in the queues after a step of a caller: nothing new, or the task of
\* a Submit that has displaced its twins.
LEMMA CallerQueues ==
  ASSUME TypeInv, PlaceInv,
         \/ \E t \in Tasks : Issue(t) \/ SubmitStep(t)
         \/ StartWorkers \/ Close \/ StopWorkers \/ OpStep
         \/ \E k \in Contexts : CancelContext(k) \/ CancelStaleByGen(k)
         \/ UNCHANGED vars
  PROVE  \/ \A r \in Queues : Queued(r)' \subseteq Queued(r)
         \/ \E t \in Tasks :
              /\ Enqueue(t)
              /\ \A r \in Queues : Queued(r)' \subseteq
                   IF r = qOf[t] THEN (Queued(r) \ QueuedTwins(t, r)) \cup {t}
                   ELSE Queued(r)
<1>1. ASSUME NEW t \in Tasks, Enqueue(t), ~stop[qOf[t]]
      PROVE  \A r \in Queues : Queued(r)' \subseteq
                IF r = qOf[t] THEN (Queued(r) \ QueuedTwins(t, r)) \cup {t}
                ELSE Queued(r)
  <2>1. PICK q \in Queues : q = qOf[t]
    BY <1>1 DEF Enqueue, TypeInv, QueueFound
  <2>2. PICK K \in SUBSET Queued(q) : K = QueuedTwins(t, q)
    BY DEF QueuedTwins
  <2>3. \A r \in Queues, p \in Priorities :
          lanes'[r][p] = IF r # q THEN lanes[r][p]
                         ELSE IF p = Prio(t) THEN Seat(lanes[q][p], K, t)
                         ELSE Without(lanes[q][p], K)
    BY <1>1, <2>1, <2>2 DEF Enqueue, TypeInv, TypeOK, QueueTypes
  <2>4. \A p \in Priorities :
          /\ Range(Without(lanes[q][p], K)) = Range(lanes[q][p]) \ K
          /\ Range(Seat(lanes[q][p], K, t)) = (Range(lanes[q][p]) \ K) \cup {t}
    <3>1. t \notin K
      BY <1>1 DEF Queued, Enqueue, PlaceInv, Placed, Lined, InLane, Early
    <3>2. QED
      BY <3>1, LaneType, WithoutProperties, SeatProperties
  <2>5. \A r \in Queues, p \in Priorities : Range(lanes'[r][p]) \subseteq
          IF r # q THEN Range(lanes[r][p]) ELSE (Range(lanes[r][p]) \ K) \cup {t}
    BY <2>3, <2>4
  <2>6. QED
    BY <2>1, <2>2, <2>5 DEF Queued
<1>2. ASSUME NEW q \in Queues, Drain(q) \/ DropStaleByGen(q)
      PROVE  \A r \in Queues : Queued(r)' \subseteq Queued(r)
  <2>1. PICK K : \A r \in Queues, p \in Priorities :
          \/ lanes'[r][p] = lanes[r][p] \/ lanes'[r][p] = << >>
          \/ lanes'[r][p] = Without(lanes[r][p], K)
    <3>1. CASE Drain(q)
      BY <3>1 DEF Drain, TypeInv, TypeOK, QueueTypes
    <3>2. CASE DropStaleByGen(q)
      BY <3>2 DEF DropStaleByGen, TypeInv, TypeOK, QueueTypes
    <3>3. QED
      BY <1>2, <3>1, <3>2
  <2>2. \A r \in Queues, p \in Priorities :
          Range(Without(lanes[r][p], K)) = Range(lanes[r][p]) \ K
    BY LaneType, WithoutProperties
  <2>3. \A r \in Queues, p \in Priorities : Range(lanes'[r][p]) \subseteq Range(lanes[r][p])
    BY <2>1, <2>2, EmptyLane
  <2>4. QED
    BY <2>3 DEF Queued
<1>3. CASE UNCHANGED lanes
  BY <1>3 DEF Queued
<1>4. \/ UNCHANGED lanes
      \/ \E t \in Tasks : Enqueue(t) /\ ~stop[qOf[t]]
      \/ \E q \in Queues : Drain(q) \/ DropStaleByGen(q)
  BY DEF Issue, SubmitStep, Lookup, CheckRunning, Enqueue, EnsurePoolFor,
         ChooseVictim, Preempt, StartWorkers, Close, StopWorkers, OpStep, DetachAll,
         OpReturn, CloseStop, MarkSwitched, MarkSuperseded, CancelContext,
         CancelStaleByGen, queueVars, vars
<1>5. QED
  BY <1>1, <1>2, <1>3, <1>4

\* A worker takes a task out of a lane, or puts the one it holds into one.
LEMMA WorkerQueues ==
  ASSUME TypeInv, PlaceInv, NEW q \in Queues, NEW i \in Slots, WorkerStep(q, i)
  PROVE  \/ \A r \in Queues : Queued(r)' \subseteq Queued(r)
         \/ \E t \in Tasks : /\ Requeue(q, i) /\ t = holds[q][i]
                             /\ \A r \in Queues : Queued(r)' \subseteq Queued(r) \cup {t}
<1>1. CASE Pick(q, i)
  <2> DEFINE p == Choice(q, i)
  <2>1. p \in Priorities /\ lanes[q][p] # << >>
    BY <1>1, ChoiceServesWork DEF Pick
  <2>2. lanes' = [lanes EXCEPT ![q][p] = Tail(lanes[q][p])]
    BY <1>1 DEF Pick
  <2> HIDE DEF p
  <2>3. Range(Tail(lanes[q][p])) \subseteq Range(lanes[q][p])
    BY <2>1, LaneType, PopProperties DEF PlaceInv, LanesApart
  <2>4. \A r \in Queues, o \in Priorities :
          lanes'[r][o] = IF r = q /\ o = p THEN Tail(lanes[q][p]) ELSE lanes[r][o]
    BY <2>1, <2>2 DEF TypeInv, TypeOK, QueueTypes
  <2>5. \A r \in Queues, o \in Priorities : Range(lanes'[r][o]) \subseteq Range(lanes[r][o])
    BY <2>3, <2>4
  <2>6. QED
    BY <2>5 DEF Queued
<1>2. CASE Requeue(q, i)
  <2>1. PICK t \in Tasks : t = holds[q][i]
    BY <1>2 DEF Requeue, TypeInv, HandsFull, Busy
  <2>2. PICK to \in Queues : to = requeueTo[q][i]
    BY <1>2 DEF Requeue, TypeInv, HandsFull, Aimed
  <2>3. Prio(t) \in Priorities /\ lanes[to][Prio(t)] \in Seq(Tasks)
    BY ReqType, LaneType
  <2>4. PICK s : /\ s = <<t>> \o lanes[to][Prio(t)]
                 /\ Range(s) = Range(lanes[to][Prio(t)]) \cup {t}
    <3>1. PICK l \in Seq(Tasks) : l = lanes[to][Prio(t)]
      BY <2>3
    <3>2. Range(<<t>> \o l) = Range(l) \cup {t}
      BY PushProperties
    <3>3. QED
      BY <3>1, <3>2
  <2>5. \A r \in Queues, p \in Priorities :
          lanes'[r][p] = IF r = to /\ p = Prio(t) THEN s ELSE lanes[r][p]
    BY <1>2, <2>1, <2>2, <2>3, <2>4 DEF Requeue, TypeInv, TypeOK, QueueTypes
  <2>6. \A r \in Queues, p \in Priorities :
          Range(lanes'[r][p]) \subseteq Range(lanes[r][p]) \cup {t}
    <3>1. Range(s) = Range(lanes[to][Prio(t)]) \cup {t}
      BY <2>4
    <3>2. QED
      BY <2>5, <3>1
  <2>7. QED
    BY <1>2, <2>1, <2>6 DEF Queued
<1>3. CASE ~Pick(q, i) /\ ~Requeue(q, i)
  BY <1>3 DEF WorkerStep, Exit, Wake, Loop, Miss, Recheck, WakeSibling, Signal,
              Register, Return, Decide, FindQueue, queueVars, Queued
<1>4. QED
  BY <1>1, <1>2, <1>3

\* Submit of a task that never ran puts it in a lane; the control calls put none.
LEMMA CallerHands ==
  ASSUME TypeInv, Unspawned, PlaceInv, HandInv,
         \/ \E t \in Tasks : Issue(t) \/ SubmitStep(t)
         \/ StartWorkers \/ Close \/ StopWorkers \/ OpStep
         \/ \E k \in Contexts : CancelContext(k) \/ CancelStaleByGen(k)
         \/ UNCHANGED vars
  PROVE  HandInv'
<1>1. UNCHANGED <<attempts, holds>>
  BY DEF Issue, SubmitStep, Lookup, CheckRunning, Enqueue, EnsurePoolFor,
         ChooseVictim, Preempt, StartWorkers, Close, StopWorkers, OpStep, DetachAll,
         OpReturn, Drain, DropStaleByGen, CloseStop, MarkSwitched, MarkSuperseded,
         CancelContext, CancelStaleByGen, attemptVars, workerVars, vars
<1>2. \A t \in Tasks : Marked(t) => Marked(t)'
  <2>1. UNCHANGED flags \/ \E a, f : Mark(a, f)
    BY DEF Issue, SubmitStep, Lookup, CheckRunning, Enqueue, EnsurePoolFor,
           ChooseVictim, Preempt, StartWorkers, Close, StopWorkers, OpStep, DetachAll,
           OpReturn, Drain, DropStaleByGen, CloseStop, MarkSwitched, MarkSuperseded,
           CancelContext, CancelStaleByGen, attemptVars, vars
  <2>2. QED
    BY <2>1 DEF Mark, Marked, TypeInv, TypeOK, AttemptTypes
<1>3. \A q \in Queues, i \in Slots : pc'[q][i] = pc[q][i] \/ pc'[q][i] = "parked"
  <2>1. UNCHANGED pc \/ \E S : Spawn(S)
    BY DEF Issue, SubmitStep, Lookup, CheckRunning, Enqueue, EnsurePoolFor,
           ChooseVictim, Preempt, StartWorkers, Close, StopWorkers, OpStep, DetachAll,
           OpReturn, Drain, DropStaleByGen, CloseStop, MarkSwitched, MarkSuperseded,
           CancelContext, CancelStaleByGen, workerVars, vars
  <2>2. QED
    BY <2>1 DEF Spawn
<1>4. \A t \in Tasks : call'[t] \in Early => call[t] \in Early
  <2>1. CASE \E t \in Tasks : Issue(t) \/ SubmitStep(t)
    BY <2>1, OneCall
  <2>2. CASE UNCHANGED submitVars
    BY <2>2 DEF submitVars
  <2>3. QED
    BY <2>1, <2>2, OthersCallNot
<1>5. \A t \in Tasks : Lined(t)' => Lined(t) \/ call[t] \in Early
  <2>1. \A t \in Tasks : Enqueue(t) => call[t] \in Early
    BY DEF Enqueue, Early
  <2>2. QED
    BY <2>1, CallerQueues DEF Lined, InLane, Queued
<1>6. \A t \in Tasks : /\ call'[t] \in Early => attempts'[t] = 0
                       /\ Lined(t)' /\ attempts'[t] > 0 => Marked(t)'
  BY <1>1, <1>2, <1>4, <1>5 DEF HandInv
<1>7. ASSUME NEW q \in Queues, NEW i \in Slots PROVE HandCounts(q, i)'
  <2>1. CASE pc'[q][i] = "parked"
    BY <2>1 DEF HandCounts, PreRun, Busy
  <2>2. CASE pc'[q][i] = pc[q][i]
    <3>1. holds[q][i] \in Tasks \/ pc[q][i] \notin Busy
      BY DEF TypeInv, HandsFull
    <3>2. QED
      BY <1>1, <1>2, <2>2, <3>1 DEF HandInv, HandCounts, PreRun, Busy
  <2>3. QED
    BY <1>3, <2>1, <2>2
<1>8. QED
  BY <1>6, <1>7 DEF HandInv
\* A worker that puts a task back has seen its mark, and one that takes a marked
\* task starts it over with no mark.
LEMMA WorkerHands ==
  ASSUME TypeInv, PlaceInv, HandInv, NEW q \in Queues, NEW i \in Slots,
         WorkerStep(q, i)
  PROVE  HandInv'
<1>0. \A l : Goto(q, i, l) =>
        \A r \in Queues, j \in Slots :
          pc'[r][j] = IF r = q /\ j = i THEN l ELSE pc[r][j]
  BY DEF Goto, TypeInv, TypeOK, WorkerTypes
<1>1. UNCHANGED call
  BY OthersCallNot DEF submitVars
<1>2. CASE Register(q, i)
  <2>0. PICK t \in Tasks : t = holds[q][i]
    BY <1>2 DEF Register, TypeInv, HandsFull, Busy
  <2>1. /\ pc[q][i] = "dispatched" /\ Goto(q, i, "running")
        /\ attempts' = [attempts EXCEPT ![t] = @ + 1]
        /\ flags' = [flags EXCEPT ![t] = {}]
        /\ UNCHANGED <<holds, lanes>>
    BY <1>2, <2>0 DEF Register, FreshFlags, queueVars
  <2>2. /\ \A u \in Tasks \ {t} : attempts'[u] = attempts[u] /\ Marked(u)' = Marked(u)
        /\ attempts'[t] > 0
    BY <2>1 DEF Marked, TypeInv, TypeOK, AttemptTypes
  <2>3. Held(t) /\ ~Lined(t) /\ call[t] \notin Early
    BY <2>0 DEF Held, PlaceInv, Placed
  <2>4. \A u \in Tasks : /\ call'[u] \in Early => attempts'[u] = 0
                         /\ Lined(u)' /\ attempts'[u] > 0 => Marked(u)'
    BY <1>1, <2>1, <2>2, <2>3 DEF HandInv, Lined, InLane
  <2>5. HandCounts(q, i)'
    BY <1>0, <2>0, <2>1, <2>2 DEF HandCounts, PreRun
  <2>6. ASSUME NEW r \in Queues, NEW j \in Slots, ~(r = q /\ j = i)
        PROVE  HandCounts(r, j)'
    <3>1. holds[r][j] # t
      BY <2>0, <2>6, NoneAssumption DEF PlaceInv, HandsApart
    <3>2. pc'[r][j] = pc[r][j] /\ holds'[r][j] = holds[r][j]
      BY <1>0, <2>1, <2>6
    <3>3. holds[r][j] \in Tasks \/ pc[r][j] \notin Busy
      BY DEF TypeInv, HandsFull
    <3>4. QED
      BY <2>2, <3>1, <3>2, <3>3 DEF HandInv, HandCounts, PreRun, Busy
  <2>7. QED
    BY <2>4, <2>5, <2>6 DEF HandInv
<1>3. CASE ~Register(q, i)
  <2>1. UNCHANGED <<attempts, flags>>
    BY <1>3 DEF WorkerStep, Exit, Wake, Loop, Pick, Miss, Recheck, WakeSibling,
                Signal, Return, Decide, FindQueue, Requeue, attemptVars
  <2>2. \A r \in Queues, j \in Slots : ~(r = q /\ j = i) =>
          pc'[r][j] = pc[r][j] /\ holds'[r][j] = holds[r][j]
    <3>1. \E l : Goto(q, i, l)
      BY <1>3 DEF WorkerStep, Exit, Wake, Loop, Pick, Miss, Recheck, WakeSibling,
                  Signal, Return, Decide, FindQueue, Requeue, Deliver
    <3>2. \E x : holds' = holds \/ holds' = [holds EXCEPT ![q][i] = x]
      BY <1>3 DEF WorkerStep, Exit, Wake, Loop, Pick, Miss, Recheck, WakeSibling,
                  Signal, Return, Decide, FindQueue, Requeue, Deliver
    <3>3. QED
      BY <1>0, <3>1, <3>2 DEF TypeInv, TypeOK, WorkerTypes
  <2>3. \A r \in Queues, j \in Slots : ~(r = q /\ j = i) => HandCounts(r, j)'
    BY <2>1, <2>2 DEF HandInv, HandCounts, Marked
  <2>4. CASE UNCHANGED lanes /\ ~Pick(q, i)
    <3>1. HandCounts(q, i)'
      <4>1. CASE \/ Exit(q, i) \/ Wake(q, i) \/ Loop(q, i) \/ Miss(q, i)
                 \/ Recheck(q, i) \/ Requeue(q, i)
        <5>1. pc'[q][i] \in {"exited", "woken", "draining", "missed", "parked",
                             "resignalling", "requeued"}
          BY <1>0, <4>1 DEF Exit, Wake, Loop, Miss, Recheck, Requeue
        <5>2. QED
          BY <5>1 DEF HandCounts, PreRun, Busy
      <4>2. CASE WakeSibling(q, i) \/ Signal(q, i) \/ Return(q, i)
        <5>1. /\ UNCHANGED holds
              /\ \/ pc[q][i] \in PreRun /\ pc'[q][i] \in PreRun
                 \/ pc[q][i] = "running" /\ pc'[q][i] = "returned"
                 \/ pc'[q][i] \in {"parked", "looping"}
          BY <1>0, <4>2 DEF WakeSibling, Signal, Signalling, AfterSignal, Return, PreRun
        <5>2. QED
          BY <2>1, <5>1 DEF HandInv, HandCounts, Marked, PreRun, Busy
      <4>3. CASE Decide(q, i) \/ FindQueue(q, i)
        <5>1. CASE \E o \in Outcomes : Deliver(q, i, o)
          <6>1. pc'[q][i] = "looping"
            BY <1>0, <5>1 DEF Deliver
          <6>2. QED
            BY <6>1 DEF HandCounts, PreRun, Busy
        <5>2. CASE ~ \E o \in Outcomes : Deliver(q, i, o)
          <6>1. /\ UNCHANGED holds
                /\ \/ /\ pc[q][i] = "returned" /\ pc'[q][i] = "displaced"
                      /\ "preempted" \in flags[holds[q][i]]
                   \/ pc[q][i] = "displaced" /\ pc'[q][i] = "requeueing"
            BY <1>0, <4>3, <5>2 DEF Decide, FindQueue, MustRequeue, Outcomes, ResultOf
          <6>2. QED
            BY <2>1, <6>1 DEF HandInv, HandCounts, Marked, PreRun, Busy
        <5>3. QED
          BY <5>1, <5>2
      <4>4. QED
        BY <1>3, <2>4, <4>1, <4>2, <4>3 DEF WorkerStep
    <3>2. QED
      BY <1>1, <2>1, <2>3, <2>4, <3>1 DEF HandInv, Lined, InLane, Marked
  <2>5. CASE Pick(q, i)
    <3> DEFINE p == Choice(q, i)
    <3>1. p \in Priorities /\ lanes[q][p] # << >>
      BY <2>5, ChoiceServesWork DEF Pick
    <3>2. lanes[q][p] \in Seq(Tasks) /\ IsInjective(lanes[q][p])
      BY <3>1, LaneType DEF PlaceInv, LanesApart
    <3>3. PICK t \in Tasks : t = Head(lanes[q][p]) /\ t \in Range(lanes[q][p])
      BY <3>1, <3>2, PopProperties, LaneType
    <3>4. holds' = [holds EXCEPT ![q][i] = t] /\ Goto(q, i, "picked")
      BY <2>5, <3>3 DEF Pick
    <3> HIDE DEF p
    <3>5. holds'[q][i] = t /\ pc'[q][i] = "picked"
      BY <1>0, <3>4 DEF TypeInv, TypeOK, WorkerTypes
    <3>6. \A u \in Tasks : Lined(u)' => Lined(u)
      <4>1. ~Requeue(q, i)
        BY <2>5 DEF Pick, Requeue
      <4>2. QED
        BY <4>1, WorkerQueues DEF Lined, InLane, Queued
    <3>7. HandCounts(q, i)'
      <4>1. Lined(t)
        BY <3>1, <3>3 DEF Lined, InLane
      <4>2. QED
        BY <2>1, <3>5, <4>1 DEF HandInv, HandCounts, Marked, PreRun, Busy
    <3>8. QED
      BY <1>1, <2>1, <2>3, <3>6, <3>7 DEF HandInv, Marked
  <2>6. CASE Requeue(q, i)
    <3>0. PICK t \in Tasks : t = holds[q][i]
      BY <2>6 DEF Requeue, TypeInv, HandsFull, Busy
    <3>5. \A u \in Tasks : Lined(u)' => Lined(u) \/ u = t
      BY <3>0, WorkerQueues DEF Lined, InLane, Queued
    <3>6. Marked(t) /\ attempts[t] > 0
      BY <2>6, <3>0 DEF Requeue, HandInv, HandCounts, Busy, PreRun
    <3>7. HandCounts(q, i)'
      <4>1. pc'[q][i] = "requeued"
        BY <1>0, <2>6 DEF Requeue
      <4>2. QED
        BY <4>1 DEF HandCounts, PreRun, Busy
    <3>8. QED
      BY <1>1, <2>1, <2>3, <3>5, <3>6, <3>7 DEF HandInv, Marked
  <2>7. UNCHANGED lanes \/ Pick(q, i) \/ Requeue(q, i)
    BY DEF WorkerStep, Exit, Wake, Loop, Miss, Recheck, WakeSibling, Signal,
           Register, Return, Decide, FindQueue, queueVars
  <2>8. QED
    BY <2>4, <2>5, <2>6, <2>7
<1>4. QED
  BY <1>2, <1>3

\* Who is about to preempt chose a worse task of its own context.
LEMMA NextPokes ==
  ASSUME TypeInv, TrackInv, PokeInv, [Next]_vars
  PROVE  PokeInv'
<1>1. CASE UNCHANGED submitVars
  BY <1>1 DEF PokeInv, submitVars
<1>2. ASSUME NEW t \in Tasks, Issue(t) \/ SubmitStep(t) PROVE PokeInv'
  <2>1. \A u \in Tasks : u # t => call'[u] = call[u] /\ victim'[u] = victim[u]
    <3>1. \E v : victim' = victim \/ victim' = [victim EXCEPT ![t] = v]
      BY <1>2 DEF Issue, SubmitStep, Lookup, CheckRunning, Enqueue, EnsurePoolFor,
                  ChooseVictim, Preempt
    <3>2. QED
      BY <1>2, <3>1, OneCall DEF TypeInv, TypeOK, SubmitTypes
  <2>2. ASSUME call'[t] = "poking"
        PROVE  \E u \in Tasks, n \in Nat : /\ victim'[t] = <<u, n>>
                                           /\ Prio(u) > Prio(t) /\ Kctx(u) = Kctx(t)
    <3>1. PICK a \in Victims(t) : victim' = [victim EXCEPT ![t] = a]
      BY <1>2, <2>2 DEF Issue, SubmitStep, Lookup, CheckRunning, Enqueue,
                        EnsurePoolFor, ChooseVictim, Preempt, TypeInv, TypeOK, SubmitTypes
    <3>2. Kctx(t) \in Contexts
      BY ReqType
    <3>3. PICK n \in 1 .. Len(running[Kctx(t)]) :
            a = running[Kctx(t)][n] /\ Prio(a[1]) > Prio(t)
      BY DEF Victims
    <3>4. a \in Range(running[Kctx(t)])
      BY <3>2, <3>3, RunningType, RangeEquality
    <3>5. a[1] \in Tasks /\ a[2] \in Nat /\ a = <<a[1], a[2]>> /\ Kctx(a[1]) = Kctx(t)
      BY <3>2, <3>4, RunningType DEF TrackInv
    <3>6. victim'[t] = a
      BY <3>1 DEF TypeInv, TypeOK, SubmitTypes
    <3>7. QED
      BY <3>3, <3>5, <3>6
  <2>3. QED
    BY <2>1, <2>2 DEF PokeInv
<1>3. QED
  BY <1>1, <1>2, OthersCallNot DEF Next

\* What a Submit has paid for stays paid.
LEMMA PaidGrows ==
  ASSUME TypeInv, CostInv, [Next]_vars
  PROVE  /\ IsFiniteSet(Born')
         /\ \A t \in Tasks : /\ IsFiniteSet(Paid(t)) /\ IsFiniteSet(Paid(t)')
                             /\ Cardinality(Paid(t)) \in Nat
                             /\ Cardinality(Paid(t)') \in Nat
                             /\ Cardinality(Paid(t)) <= Cardinality(Paid(t)')
<1>1. /\ \A u \in Tasks : call[u] = "done" => call'[u] = "done"
      /\ \E t : Born' \subseteq Born \cup {t}
  <2>1. CASE UNCHANGED submitVars
    BY <2>1 DEF submitVars, Born
  <2>2. ASSUME NEW t \in Tasks, Issue(t) \/ SubmitStep(t)
        PROVE  /\ \A u \in Tasks : call[u] = "done" => call'[u] = "done"
               /\ Born' \subseteq Born \cup {t}
    BY <2>2, OneCall DEF Born
  <2>3. QED
    BY <2>1, <2>2, OthersCallNot DEF Next
<1>2. IsFiniteSet(Born')
  BY <1>1, FS_AddElement, FS_Subset DEF CostInv
<1>3. ASSUME NEW t \in Tasks
      PROVE  Paid(t) \subseteq Born /\ Paid(t)' \subseteq Born' /\ Paid(t) \subseteq Paid(t)'
  BY <1>1 DEF Paid, Born
<1>4. QED
  BY <1>2, <1>3, FS_Subset, FS_CardinalityType DEF CostInv

\* A mark costs a Submit, a rerun a mark.
LEMMA NextCosts ==
  ASSUME TypeInv, PlaceInv, TrackInv, RerunInv, [Next]_vars
  PROVE  CostInv'
<1> DEFINE Cost(t) == attempts[t] + (IF Marked(t) THEN 1 ELSE 0)
<1>1. IsFiniteSet(Born')
  BY PaidGrows DEF RerunInv
<1>2. \A t \in Tasks : Cost(t) \in Nat /\ Cost(t) <= 1 + Cardinality(Paid(t))
  BY DEF RerunInv, CostInv, TypeInv, TypeOK, AttemptTypes
<1>3. ASSUME NEW q \in Queues, NEW i \in Slots, Register(q, i),
             NEW u \in Tasks
      PROVE  Cost(u)' <= 1 + Cardinality(Paid(u)')
  <2>0. PICK t \in Tasks : t = holds[q][i]
    BY <1>3 DEF Register, TypeInv, HandsFull, Busy
  <2>1. /\ attempts' = [attempts EXCEPT ![t] = @ + 1]
        /\ flags' = [flags EXCEPT ![t] = {}]
        /\ pc[q][i] = "dispatched"
    BY <1>3, <2>0 DEF Register, FreshFlags
  <2>2. CASE u # t
    BY <1>2, <2>1, <2>2, PaidGrows DEF Marked, RerunInv, TypeInv, TypeOK, AttemptTypes
  <2>3. CASE u = t
    <3>1. Cost(t)' = attempts[t] + 1
      BY <2>1 DEF Marked, TypeInv, TypeOK, AttemptTypes
    <3>2. attempts[t] = 0 \/ Marked(t)
      BY <2>0, <2>1 DEF RerunInv, HandInv, HandCounts, PreRun, TypeInv, TypeOK, AttemptTypes
    <3>3. attempts[t] + 1 <= 1 + Cardinality(Paid(t))
      BY <1>2, <3>2, PaidGrows DEF RerunInv, TypeInv, TypeOK, AttemptTypes
    <3>4. QED
      BY <2>3, <3>1, <3>3, PaidGrows DEF RerunInv, TypeInv, TypeOK, AttemptTypes
  <2>4. QED
    BY <2>2, <2>3
<1>4. ASSUME NEW t \in Tasks, Preempt(t), NEW u \in Tasks
      PROVE  Cost(u)' <= 1 + Cardinality(Paid(u)')
  <2>1. /\ call[t] = "poking" /\ Mark(victim[t], "preempted")
        /\ call' = [call EXCEPT ![t] = "done"] /\ UNCHANGED attempts
    BY <1>4 DEF Preempt
  <2>2. PICK v \in Tasks, n \in Nat :
          victim[t] = <<v, n>> /\ Prio(v) > Prio(t) /\ Kctx(v) = Kctx(t)
    BY <2>1 DEF RerunInv, PokeInv
  <2>3. CASE u # v
    <3>1. Cost(u)' = Cost(u)
      BY <2>1, <2>2, <2>3 DEF Mark, Marked, TypeInv, TypeOK, AttemptTypes
    <3>2. QED
      BY <1>2, <3>1, PaidGrows DEF RerunInv
  <2>4. CASE u = v
    <3>1. Cost(u)' <= Cost(u) + 1
      BY <2>1 DEF Mark, Marked, TypeInv, TypeOK, AttemptTypes
    <3>2. t \notin Paid(u) /\ Paid(u)' = Paid(u) \cup {t}
      <4>1. \A w \in Tasks : call'[w] = IF w = t THEN "done" ELSE call[w]
        BY <2>1 DEF TypeInv, TypeOK, SubmitTypes
      <4>2. Prio(t) < Prio(u)
        BY <2>2, <2>4, ReqType DEF Priorities, Critical, High, Low
      <4>3. QED
        BY <2>1, <2>2, <2>4, <4>1, <4>2 DEF Paid
    <3>3. Cardinality(Paid(u)') = Cardinality(Paid(u)) + 1
      BY <3>2, PaidGrows, FS_AddElement DEF RerunInv
    <3>4. Cost(u)' \in Nat
      BY <2>1 DEF TypeInv, TypeOK, AttemptTypes
    <3> HIDE DEF Cost
    <3>5. QED
      BY <1>2, <3>1, <3>3, <3>4, PaidGrows DEF RerunInv
  <2>5. QED
    BY <2>3, <2>4
<1>5. CASE /\ \A q \in Queues, i \in Slots : ~Register(q, i)
           /\ \A t \in Tasks : ~Preempt(t)
  <2>1. \A t \in Tasks : Cost(t)' = Cost(t)
    BY <1>5, WhoMarks
  <2> HIDE DEF Cost
  <2>2. \A t \in Tasks : Cost(t)' <= 1 + Cardinality(Paid(t)')
    BY <1>2, <2>1, PaidGrows DEF RerunInv
  <2> USE DEF Cost
  <2>3. QED
    BY <1>1, <2>2 DEF CostInv
<1>6. QED
  BY <1>1, <1>3, <1>4, <1>5 DEF CostInv

LEMMA RerunInvariant == Spec => []RerunInv
<1>1. Init => RerunInv
  <2> SUFFICES ASSUME Init PROVE RerunInv
    OBVIOUS
  <2>1. HandInv
    BY DEF Init, HandInv, HandCounts, PreRun, Busy
  <2>2. PokeInv
    BY DEF Init, PokeInv
  <2>3. Born = {} /\ \A t \in Tasks : Paid(t) = {}
    BY DEF Init, Born, Paid
  <2>4. CostInv
    <3>1. \A t \in Tasks : attempts[t] = 0 /\ ~Marked(t) /\ Cardinality(Paid(t)) = 0
      BY <2>3, FS_EmptySet DEF Init, Marked
    <3>2. QED
      BY <2>3, <3>1, FS_EmptySet DEF CostInv
  <2>5. QED
    BY <2>1, <2>2, <2>4 DEF RerunInv
<1>2. TypeInv /\ WakeInv /\ PlaceInv /\ TrackInv /\ RerunInv /\ [Next]_vars => RerunInv'
  BY CallerHands, WorkerHands, NextPokes, NextCosts DEF RerunInv, WakeInv, Next
<1>3. QED
  BY TypeInvariant, WakeInvariant, PlaceInvariant, TrackInvariant, <1>1, <1>2, PTL
  DEF Spec

\* A task starts over at most once per Submit of a better priority on its context
\* that has finished: no flag outlives its attempt, and no Submit preempts twice.
THEOREM EveryRerunIsPaidFor == Spec => []RerunsArePaidFor
<1>1. TypeInv /\ RerunInv => RerunsArePaidFor
  <2> SUFFICES ASSUME TypeInv, RerunInv, NEW t \in Tasks
               PROVE  attempts[t] <= 1 + Cardinality(Paid(t))
    BY DEF RerunsArePaidFor, Paid
  <2>1. Paid(t) \subseteq Born
    BY DEF Paid, Born
  <2>2. attempts[t] \in Nat /\ Cardinality(Paid(t)) \in Nat
    BY <2>1, FS_Subset, FS_CardinalityType
    DEF RerunInv, CostInv, TypeInv, TypeOK, AttemptTypes
  <2>3. QED
    BY <2>2 DEF RerunInv, CostInv
<1>2. QED
  BY TypeInvariant, RerunInvariant, <1>1, PTL

\* What is Critical runs at most once: nothing has a better priority, so nothing
\* pays for a second attempt.
THEOREM NothingRerunsCritical == Spec => []CriticalRunsOnce
<1>1. RerunsArePaidFor => CriticalRunsOnce
  <2> SUFFICES ASSUME RerunsArePaidFor, NEW t \in Tasks, Prio(t) = Critical
               PROVE  attempts[t] <= 1
    BY DEF CriticalRunsOnce
  <2>1. Paid(t) = {}
    BY ReqType DEF Paid, Priorities, Critical, High, Low
  <2>2. QED
    BY <2>1, FS_EmptySet DEF RerunsArePaidFor, Paid
<1>2. QED
  BY EveryRerunIsPaidFor, <1>1, PTL
-----------------------------------------------------------------------------
(* Twins in one queue *)

\* A caller that puts a task into a queue takes its twins out.
LEMMA CallerTwins ==
  ASSUME TypeInv, PlaceInv, HandInv, TwinsOnlyByRequeue,
         \/ \E t \in Tasks : Issue(t) \/ SubmitStep(t)
         \/ StartWorkers \/ Close \/ StopWorkers \/ OpStep
         \/ \E k \in Contexts : CancelContext(k) \/ CancelStaleByGen(k)
         \/ UNCHANGED vars
  PROVE  TwinsOnlyByRequeue'
<1>1. UNCHANGED attempts
  BY DEF Issue, SubmitStep, Lookup, CheckRunning, Enqueue, EnsurePoolFor,
         ChooseVictim, Preempt, StartWorkers, Close, StopWorkers, OpStep, DetachAll,
         OpReturn, Drain, DropStaleByGen, CloseStop, MarkSwitched, MarkSuperseded,
         CancelContext, CancelStaleByGen, attemptVars, vars
<1>2. CASE \E t \in Tasks : Issue(t)
  <2>1. PICK t \in Tasks : Issue(t)
    BY <1>2
  <2>2. /\ call[t] \in Early /\ UNCHANGED lanes
        /\ \A u \in Tasks : u # t => gen'[u] = gen[u]
    BY <2>1 DEF Issue, Early, queueVars, TypeInv, TypeOK, SubmitTypes
  <2>3. \A q \in Queues : Queued(q)' = Queued(q) /\ t \notin Queued(q)
    BY <2>2 DEF Queued, PlaceInv, Placed, Lined, InLane
  <2>4. \A q \in Queues : Queued(q) \subseteq Tasks
    BY LaneType DEF Queued
  <2>5. \A u, v \in Tasks : u # t /\ v # t =>
          (CoalescesWith(u, v)' <=> CoalescesWith(u, v))
    BY <2>2 DEF CoalescesWith
  <2>6. QED
    BY <1>1, <2>3, <2>4, <2>5 DEF TwinsOnlyByRequeue, NeverCoalesce
<1>3. CASE ~ \E t \in Tasks : Issue(t)
  <2>1. UNCHANGED gen
    BY <1>3, OthersCallNot DEF SubmitStep, Lookup, CheckRunning, Enqueue, EnsurePoolFor,
                               ChooseVictim, Preempt, submitVars
  <2>2. \A u, v : CoalescesWith(u, v)' <=> CoalescesWith(u, v)
    BY <2>1 DEF CoalescesWith
  <2>3. CASE \A r \in Queues : Queued(r)' \subseteq Queued(r)
    BY <1>1, <2>2, <2>3 DEF TwinsOnlyByRequeue, NeverCoalesce
  <2>4. ASSUME NEW t \in Tasks,
               \A r \in Queues : Queued(r)' \subseteq
                   IF r = qOf[t] THEN (Queued(r) \ QueuedTwins(t, r)) \cup {t}
                   ELSE Queued(r)
        PROVE  TwinsOnlyByRequeue'
    <3>1. \A q \in Queues : \A u \in Queued(q)' : u # t =>
            /\ u \in Queued(q)
            /\ t \in Queued(q)' /\ ~(t \in Queued(q)) => u \notin QueuedTwins(t, q)
      BY <2>4
    <3>2. \A u, v : /\ CoalescesWith(u, v) <=> CoalescesWith(v, u)
                    /\ CoalescesWith(u, v) => (NeverCoalesce(u) <=> NeverCoalesce(v))
      BY DEF CoalescesWith, NeverCoalesce
    <3>3. \A q \in Queues : \A u \in Queued(q) : ~NeverCoalesce(t) /\ CoalescesWith(t, u)
             => u \in QueuedTwins(t, q)
      BY DEF QueuedTwins
    <3>4. QED
      BY <1>1, <2>2, <3>1, <3>2, <3>3 DEF TwinsOnlyByRequeue, NeverCoalesce
  <2>5. QED
    BY <2>3, <2>4, CallerQueues
<1>4. QED
  BY <1>2, <1>3

\* A worker puts into a queue only what it ran.
LEMMA WorkerTwins ==
  ASSUME TypeInv, PlaceInv, HandInv, TwinsOnlyByRequeue,
         NEW q \in Queues, NEW i \in Slots, WorkerStep(q, i)
  PROVE  TwinsOnlyByRequeue'
<1>1. \A t \in Tasks : attempts[t] \in Nat /\ attempts'[t] \in Nat /\ attempts[t] <= attempts'[t]
  <2>1. \/ UNCHANGED attempts
        \/ attempts' = [attempts EXCEPT ![holds[q][i]] = @ + 1]
    BY DEF WorkerStep, Exit, Wake, Loop, Pick, Miss, Recheck, WakeSibling, Signal,
           Register, Return, Decide, FindQueue, Requeue, attemptVars
  <2>2. QED
    BY <2>1 DEF TypeInv, TypeOK, AttemptTypes
<1>2. \A u, v : CoalescesWith(u, v)' <=> CoalescesWith(u, v)
  BY OthersCallNot DEF submitVars, CoalescesWith
<1>3. \A r \in Queues : Queued(r)' \subseteq Queued(r) \cup {t \in Tasks : attempts[t] > 0}
  <2>1. \A t \in Tasks : Requeue(q, i) /\ t = holds[q][i] => attempts[t] > 0
    BY DEF Requeue, HandInv, HandCounts, PreRun, Busy
  <2>2. QED
    BY <2>1, WorkerQueues
<1>4. \A r \in Queues : Queued(r) \subseteq Tasks
  BY LaneType DEF Queued
<1>5. QED
  BY <1>1, <1>2, <1>3, <1>4 DEF TwinsOnlyByRequeue, NeverCoalesce

\* Two interchangeable requests wait in one queue only if preemption put one of
\* them back: what a Submit queues has displaced every twin, of whatever lane.
THEOREM TwinsComeFromRequeue == Spec => []TwinsOnlyByRequeue
<1>1. Init => TwinsOnlyByRequeue
  <2>1. Init => \A q \in Queues : Queued(q) = {}
    BY EmptyLane DEF Init, Queued
  <2>2. QED
    BY <2>1 DEF TwinsOnlyByRequeue
<1>2. TypeInv /\ PlaceInv /\ RerunInv /\ TwinsOnlyByRequeue /\ [Next]_vars =>
        TwinsOnlyByRequeue'
  BY CallerTwins, WorkerTwins DEF RerunInv, Next
<1>3. QED
  BY TypeInvariant, PlaceInvariant, RerunInvariant, <1>1, <1>2, PTL DEF Spec
-----------------------------------------------------------------------------
(* What a requestGen makes stale *)

\* Only what is stale is marked superseded, and only what a control call found
\* running; no write is ever answered for another.
GenInv ==
    /\ \A t \in Tasks : gen[t] <= requestGen
    /\ \A t \in Tasks : "superseded" \in flags[t] =>
                          call[t] \notin Early /\ StaleByGen(t, requestGen)
    /\ \A a \in opMarks : call[a[1]] \notin Early
    /\ \A t \in Tasks : call[t] = "looked" \/ future[t] = "coalesced" =>
                          ~NeverCoalesce(t)

\* A Submit past its first half keeps its gen and does not go back to it.
LEMMA GenFixed ==
  ASSUME TypeInv, [Next]_vars, NEW t \in Tasks, call[t] # "unborn"
  PROVE  gen'[t] = gen[t] /\ (call'[t] \in Early => call[t] \in Early)
<1>1. CASE UNCHANGED submitVars
  BY <1>1 DEF submitVars
<1>2. ASSUME NEW u \in Tasks, Issue(u) \/ SubmitStep(u)
      PROVE  gen'[t] = gen[t] /\ (call'[t] \in Early => call[t] \in Early)
  <2>1. gen'[t] = gen[t]
    BY <1>2 DEF Issue, SubmitStep, Lookup, CheckRunning, Enqueue, EnsurePoolFor,
                ChooseVictim, Preempt, TypeInv, TypeOK, SubmitTypes
  <2>2. QED
    BY <1>2, <2>1, OneCall
<1>3. QED
  BY <1>1, <1>2, OthersCallNot DEF Next

\* What is in runningTasks is past its Submit's first half.
LEMMA RunningIsLate ==
  ASSUME TypeInv, PlaceInv, TrackInv, NEW k \in Contexts, NEW a \in Range(running[k])
  PROVE  a[1] \in Tasks /\ call[a[1]] \notin Early /\ future[a[1]] = Pending
<1>1. a[1] \in Tasks /\ Runs(a[1])
  BY RunningType DEF TrackInv
<1>2. Held(a[1])
  BY <1>1 DEF Runs, Held
<1>3. QED
  BY <1>1, <1>2 DEF PlaceInv, Placed

LEMMA SubmitGens ==
  ASSUME TypeInv, PlaceInv, GenInv, NEW t \in Tasks, Issue(t) \/ SubmitStep(t)
  PROVE  GenInv'
<1>1. UNCHANGED <<opMarks, requestGen>>
  BY DEF Issue, SubmitStep, Lookup, CheckRunning, Enqueue, EnsurePoolFor,
         ChooseVictim, Preempt, opVars
<1>2. \A u \in Tasks : gen'[u] <= requestGen'
  <2>1. \A u \in Tasks : gen'[u] \in {gen[u], requestGen}
    BY DEF Issue, SubmitStep, Lookup, CheckRunning, Enqueue, EnsurePoolFor,
           ChooseVictim, Preempt, TypeInv, TypeOK, SubmitTypes
  <2>2. QED
    BY <1>1, <2>1 DEF GenInv, TypeInv, TypeOK, OpTypes
<1>3. \A u \in Tasks : call[u] \notin Early => call'[u] \notin Early /\ gen'[u] = gen[u]
  <2>1. [Next]_vars
    BY DEF Next
  <2>2. QED
    BY <2>1, GenFixed DEF Early
<1>4. \A u \in Tasks : "superseded" \in flags'[u] => "superseded" \in flags[u]
  <2>1. UNCHANGED flags \/ Mark(victim[t], "preempted")
    BY DEF Issue, SubmitStep, Lookup, CheckRunning, Enqueue, EnsurePoolFor,
           ChooseVictim, Preempt, attemptVars
  <2>2. QED
    BY <2>1 DEF Mark, TypeInv, TypeOK, AttemptTypes
<1>5. \A u \in Tasks : "superseded" \in flags'[u] =>
         call'[u] \notin Early /\ StaleByGen(u, requestGen)'
  BY <1>1, <1>3, <1>4 DEF GenInv, StaleByGen
<1>6. \A a \in opMarks' : call'[a[1]] \notin Early
  <2>1. \A a \in opMarks : a[1] \in Tasks
    BY DEF TypeInv, TypeOK, OpTypes, Attempts
  <2>2. QED
    BY <1>1, <1>3, <2>1 DEF GenInv
<1>7. \A u \in Tasks : call'[u] = "looked" => ~NeverCoalesce(u)
  <2>1. \/ call' = [call EXCEPT ![t] = IF NeverCoalesce(t) THEN "checked" ELSE "looked"]
        \/ \E l : call' = [call EXCEPT ![t] = l] /\ l # "looked"
    BY DEF Issue, SubmitStep, Lookup, CheckRunning, Enqueue, EnsurePoolFor,
           ChooseVictim, Preempt
  <2>2. QED
    BY <2>1 DEF GenInv, TypeInv, TypeOK, SubmitTypes
<1>8. \A u \in Tasks : future'[u] = "coalesced" => ~NeverCoalesce(u)
  <2>1. CASE UNCHANGED future \/ \E o \in {"switched"} : Resolve({t}, o)
    BY <2>1 DEF Resolve, GenInv
  <2>2. CASE CheckRunning(t)
    BY <2>2 DEF CheckRunning, Resolve, GenInv
  <2>3. CASE Enqueue(t) /\ Resolve(QueuedTwins(t, qOf[t]), "coalesced")
    BY <2>3 DEF Resolve, GenInv, QueuedTwins, CoalescesWith, NeverCoalesce
  <2>4. QED
    BY <2>1, <2>2, <2>3 DEF Issue, SubmitStep, Lookup, Enqueue, EnsurePoolFor,
                            ChooseVictim, Preempt
<1>9. QED
  BY <1>2, <1>5, <1>6, <1>7, <1>8 DEF GenInv, NeverCoalesce

LEMMA WorkerGens ==
  ASSUME TypeInv, GenInv, NEW q \in Queues, NEW i \in Slots, WorkerStep(q, i)
  PROVE  GenInv'
<1>1. UNCHANGED <<opMarks, requestGen, call, gen>>
  <2>1. UNCHANGED <<opMarks, requestGen>>
    BY DEF WorkerStep, Exit, Wake, Loop, Pick, Miss, Recheck, WakeSibling, Signal,
           Register, Return, Decide, FindQueue, Requeue, opVars
  <2>2. QED
    BY <2>1, OthersCallNot DEF submitVars
<1>2. \A t \in Tasks : "superseded" \in flags'[t] => "superseded" \in flags[t]
  <2>1. UNCHANGED flags \/ flags' = [flags EXCEPT ![holds[q][i]] = {}]
    BY DEF WorkerStep, Exit, Wake, Loop, Pick, Miss, Recheck, WakeSibling, Signal,
           Register, FreshFlags, Return, Decide, FindQueue, Requeue, attemptVars
  <2>2. QED
    BY <2>1 DEF TypeInv, TypeOK, AttemptTypes
<1>3. \A t \in Tasks : future'[t] = "coalesced" => future[t] = "coalesced"
  <2>1. \/ UNCHANGED future
        \/ \E o \in {"switched", "superseded", "value", "error"} :
             Resolve({holds[q][i]}, o)
    <3>1. CASE Decide(q, i)
      BY <3>1 DEF Decide, Deliver, ResultOf
    <3>2. CASE FindQueue(q, i)
      BY <3>2 DEF FindQueue, Deliver
    <3>3. CASE ~Decide(q, i) /\ ~FindQueue(q, i)
      BY <3>3 DEF WorkerStep, Exit, Wake, Loop, Pick, Miss, Recheck, WakeSibling,
                  Signal, Register, Return, Requeue
    <3>4. QED
      BY <3>1, <3>2, <3>3
  <2>2. QED
    BY <2>1 DEF Resolve
<1>4. QED
  BY <1>1, <1>2, <1>3 DEF GenInv, StaleByGen, NeverCoalesce

LEMMA ControlGens ==
  ASSUME TypeInv, PlaceInv, TrackInv, GenInv,
         \/ StartWorkers \/ Close \/ StopWorkers \/ OpStep
         \/ \E k \in Contexts : CancelContext(k) \/ CancelStaleByGen(k)
  PROVE  GenInv'
<1>1. UNCHANGED <<call, gen>>
  BY OthersCallNot DEF submitVars
<1>2. requestGen' \in Nat /\ requestGen' >= requestGen
  <2>1. requestGen' = requestGen \/ requestGen' = requestGen + 1
    BY DEF StartWorkers, Close, StopWorkers, OpStep, DetachAll, OpReturn, Drain,
           DropStaleByGen, CloseStop, MarkSwitched, MarkSuperseded, CancelContext,
           CancelStaleByGen, opVars
  <2>2. QED
    BY <2>1 DEF TypeInv, TypeOK, OpTypes
<1>3. \A t \in Tasks : StaleByGen(t, requestGen) => StaleByGen(t, requestGen)'
  BY <1>1, <1>2 DEF StaleByGen, TypeInv, TypeOK, SubmitTypes, OpTypes
<1>4. \A t \in Tasks : "superseded" \in flags'[t] =>
         call'[t] \notin Early /\ StaleByGen(t, requestGen)'
  <2>1. CASE \E a \in opMarks : MarkSuperseded(a)
    <3>1. PICK a \in opMarks : MarkSuperseded(a)
      BY <2>1
    <3>2. a[1] \in Tasks
      BY DEF TypeInv, TypeOK, OpTypes, Attempts
    <3>3. \A t \in Tasks : "superseded" \in flags'[t] =>
            \/ "superseded" \in flags[t]
            \/ t = a[1] /\ StaleByGen(t, requestGen)
      BY <3>1, <3>2 DEF MarkSuperseded, Mark, TypeInv, TypeOK, AttemptTypes
    <3>4. QED
      BY <1>1, <1>3, <3>3 DEF GenInv
  <2>2. CASE ~ \E a \in opMarks : MarkSuperseded(a)
    <3>1. UNCHANGED flags \/ \E a \in opMarks : Mark(a, "switched")
      BY <2>2 DEF StartWorkers, Close, StopWorkers, OpStep, DetachAll, OpReturn, Drain,
                  DropStaleByGen, CloseStop, MarkSwitched, CancelContext,
                  CancelStaleByGen, attemptVars
    <3>2. \A t \in Tasks : "superseded" \in flags'[t] => "superseded" \in flags[t]
      BY <3>1 DEF Mark, TypeInv, TypeOK, AttemptTypes
    <3>3. QED
      BY <1>1, <1>3, <3>2 DEF GenInv
  <2>3. QED
    BY <2>1, <2>2
<1>5. \A a \in opMarks' : call'[a[1]] \notin Early
  <2>1. opMarks' \subseteq opMarks \/ \E k \in Contexts : opMarks' = Range(running[k])
    BY DEF StartWorkers, Close, StopWorkers, OpStep, DetachAll, OpReturn, Drain,
           DropStaleByGen, CloseStop, MarkSwitched, MarkSuperseded, CancelContext,
           CancelStaleByGen, opVars
  <2>2. QED
    BY <1>1, <2>1, RunningIsLate DEF GenInv
<1>6. \A t \in Tasks : future'[t] = "coalesced" => future[t] = "coalesced"
  <2>1. UNCHANGED future \/ \E S, o : o \in {"switched", "superseded"} /\ Resolve(S, o)
    BY DEF StartWorkers, Close, StopWorkers, OpStep, DetachAll, OpReturn, Drain,
           DropStaleByGen, CloseStop, MarkSwitched, MarkSuperseded, CancelContext,
           CancelStaleByGen
  <2>2. QED
    BY <2>1 DEF Resolve
<1>7. \A t \in Tasks : gen'[t] <= requestGen'
  BY <1>1, <1>2 DEF GenInv, TypeInv, TypeOK, SubmitTypes, OpTypes
<1>8. QED
  BY <1>1, <1>4, <1>5, <1>6, <1>7 DEF GenInv, NeverCoalesce

LEMMA NextGens ==
  ASSUME TypeInv, PlaceInv, TrackInv, GenInv, [Next]_vars
  PROVE  GenInv'
<1>1. CASE UNCHANGED vars
  BY <1>1 DEF vars, submitVars, attemptVars, opVars, GenInv, StaleByGen, NeverCoalesce
<1>2. QED
  BY <1>1, SubmitGens, WorkerGens, ControlGens DEF Next

LEMMA GenInvariant == Spec => []GenInv
<1>1. Init => GenInv
  BY DEF Init, GenInv, Pending
<1>2. QED
  BY TypeInvariant, PlaceInvariant, TrackInvariant, NextGens, <1>1, PTL DEF Spec
-----------------------------------------------------------------------------
(* The Futures keep the contract of FutureContract. *)

MayAbandon == MaxDrops > 0 \/ Shutdowns # {}

\* Where no context is dropped and no shutdown comes, nothing is torn down: a
\* task past Lookup finds its context's queue.
AbandonInv ==
    MayAbandon \/ /\ op \in {"none", "stale"} /\ ~closed
                  /\ \A q \in Queues : ~stop[q]
                  /\ \A t \in Tasks : /\ "switched" \notin flags[t]
                                      /\ call[t] \notin {"unborn", "issued"} =>
                                            ctxQueues[Kctx(t)] # None

LEMMA NextAbandons ==
  ASSUME TypeInv, AbandonInv, [Next]_vars
  PROVE  AbandonInv'
<1> SUFFICES ASSUME ~MayAbandon PROVE AbandonInv'
  BY DEF AbandonInv, MayAbandon
<1>1. /\ op \in {"none", "stale"} /\ ~closed /\ \A q \in Queues : ~stop[q]
      /\ \A t \in Tasks : /\ "switched" \notin flags[t]
                          /\ call[t] \notin {"unborn", "issued"} =>
                                ctxQueues[Kctx(t)] # None
  BY DEF AbandonInv
<1>2. /\ \A k \in Contexts : ~CancelContext(k)
      /\ ~Close /\ ~StopWorkers /\ ~DetachAll
      /\ \A q \in Queues : ~Drain(q) /\ ~CloseStop(q)
      /\ \A a \in opMarks : ~MarkSwitched(a)
  <2>1. (\A k \in Contexts : ~CancelContext(k)) /\ ~Close /\ ~StopWorkers
    BY BoundsAssumption DEF CancelContext, Close, StopWorkers, MayAbandon, TypeInv,
                            TypeOK, OpTypes
  <2>2. QED
    BY <1>1, <2>1 DEF DetachAll, Drain, CloseStop, MarkSwitched
<1>3. op' \in {"none", "stale"} /\ ~closed' /\ UNCHANGED stop
  <2>1. CASE \E t \in Tasks : Issue(t) \/ SubmitStep(t)
    BY <1>1, <2>1 DEF Issue, SubmitStep, Lookup, CheckRunning, Enqueue, EnsurePoolFor,
                ChooseVictim, Preempt, opVars, registryVars, poolVars
  <2>2. ASSUME NEW q \in Queues, NEW i \in Slots, WorkerStep(q, i)
        PROVE  UNCHANGED <<op, closed, stop>>
    BY <1>1, <2>2 DEF WorkerStep, Exit, Wake, Loop, Pick, Miss, Recheck, WakeSibling,
                Signal, Register, Return, Decide, FindQueue, Requeue, opVars,
                registryVars, poolVars
  <2>3. CASE StartWorkers \/ OpStep \/ \E k \in Contexts : CancelStaleByGen(k)
    <3>1. UNCHANGED <<closed, stop>>
      BY <1>2, <2>3 DEF StartWorkers, OpStep, OpReturn, DropStaleByGen,
                        MarkSuperseded, CancelStaleByGen, registryVars, poolVars
    <3>2. op' \in {op, "none", "stale"} \/ op = "stop"
      BY <1>2, <2>3 DEF StartWorkers, OpStep, OpReturn, DropStaleByGen,
                        MarkSuperseded, CancelStaleByGen, opVars
    <3>3. QED
      BY <1>1, <3>1, <3>2
  <2>4. CASE UNCHANGED vars
    BY <1>1, <2>4 DEF vars, opVars, registryVars, poolVars
  <2>5. QED
    BY <1>1, <1>2, <2>1, <2>2, <2>3, <2>4 DEF Next
<1>4. \A t \in Tasks : "switched" \notin flags'[t]
  <2>1. \/ UNCHANGED flags
        \/ \E q \in Queues, i \in Slots : flags' = [flags EXCEPT ![holds[q][i]] = {}]
        \/ \E a, f : f \in {"preempted", "superseded"} /\ Mark(a, f)
    <3>1. CASE \E t \in Tasks : Issue(t) \/ SubmitStep(t)
      BY <3>1 DEF Issue, SubmitStep, Lookup, CheckRunning, Enqueue, EnsurePoolFor,
                  ChooseVictim, Preempt, attemptVars
    <3>2. ASSUME NEW q \in Queues, NEW i \in Slots, WorkerStep(q, i)
          PROVE  UNCHANGED flags \/ flags' = [flags EXCEPT ![holds[q][i]] = {}]
      BY <3>2 DEF WorkerStep, Exit, Wake, Loop, Pick, Miss, Recheck, WakeSibling,
                  Signal, Register, FreshFlags, Return, Decide, FindQueue, Requeue,
                  attemptVars
    <3>3. CASE StartWorkers \/ OpStep \/ \E k \in Contexts : CancelStaleByGen(k)
      BY <1>2, <3>3 DEF StartWorkers, OpStep, OpReturn, DropStaleByGen,
                        MarkSuperseded, CancelStaleByGen, attemptVars
    <3>4. CASE UNCHANGED vars
      BY <3>4 DEF vars, attemptVars
    <3>5. QED
      BY <1>2, <3>1, <3>2, <3>3, <3>4 DEF Next
  <2>2. QED
    BY <1>1, <2>1 DEF Mark, TypeInv, TypeOK, AttemptTypes
<1>5. \A t \in Tasks : call'[t] \notin {"unborn", "issued"} => ctxQueues'[Kctx(t)] # None
  <2>1. ASSUME NEW t \in Tasks, Lookup(t)
        PROVE  \A u \in Tasks : call'[u] \notin {"unborn", "issued"} =>
                  ctxQueues'[Kctx(u)] # None
    <3>1. PICK r \in Tasks : ctxQueues' = [ctxQueues EXCEPT ![Kctx(t)] = r]
      BY <1>1, <2>1, ReqType DEF Lookup, TypeInv, TypeOK, RegistryTypes, Queues
    <3>2. \A u \in Tasks : u # t => call'[u] = call[u]
      BY <2>1, OneCall DEF SubmitStep
    <3>3. \A u \in Tasks : ctxQueues'[Kctx(u)] =
            IF Kctx(u) = Kctx(t) THEN r ELSE ctxQueues[Kctx(u)]
      BY <3>1, ReqType DEF TypeInv, TypeOK, RegistryTypes
    <3>4. QED
      BY <1>1, <3>2, <3>3, ReqType
  <2>2. ASSUME NEW t \in Tasks, Issue(t) \/ SubmitStep(t), ~Lookup(t)
        PROVE  \A u \in Tasks : call'[u] \notin {"unborn", "issued"} =>
                  ctxQueues'[Kctx(u)] # None
    <3>1. /\ UNCHANGED ctxQueues
          /\ (call'[t] = "issued" \/ call[t] \notin {"unborn", "issued"})
      BY <2>2 DEF Issue, SubmitStep, CheckRunning, Enqueue, EnsurePoolFor,
                  ChooseVictim, Preempt, registryVars, TypeInv, TypeOK, SubmitTypes
    <3>2. \A u \in Tasks : u # t => call'[u] = call[u]
      BY <2>2, OneCall
    <3>3. QED
      BY <1>1, <3>1, <3>2
  <2>3. ASSUME NEW q \in Queues, NEW i \in Slots, WorkerStep(q, i)
        PROVE  \A u \in Tasks : call'[u] \notin {"unborn", "issued"} =>
                  ctxQueues'[Kctx(u)] # None
    <3>1. UNCHANGED <<call, ctxQueues>>
      BY <2>3 DEF WorkerStep, Exit, Wake, Loop, Pick, Miss, Recheck, WakeSibling,
                  Signal, Register, Return, Decide, FindQueue, Requeue, submitVars,
                  registryVars
    <3>2. QED
      BY <1>1, <3>1
  <2>4. CASE \/ StartWorkers \/ OpStep \/ \E k \in Contexts : CancelStaleByGen(k)
             \/ UNCHANGED vars
    <3>1. UNCHANGED <<call, ctxQueues>>
      BY <1>2, <2>4 DEF StartWorkers, OpStep, OpReturn, DropStaleByGen,
                  MarkSuperseded, CancelStaleByGen, submitVars, registryVars, vars
    <3>2. QED
      BY <1>1, <3>1
  <2>5. QED
    BY <1>2, <2>1, <2>2, <2>3, <2>4 DEF Next
<1>6. QED
  BY <1>1, <1>3, <1>4, <1>5 DEF AbandonInv

LEMMA AbandonInvariant == Spec => []AbandonInv
<1>1. Init => AbandonInv
  BY DEF Init, AbandonInv
<1>2. QED
  BY TypeInvariant, NextAbandons, <1>1, PTL DEF Spec

\* The tasks of S, asked for and unanswered, get o.
Answers(S, o) ==
    /\ Resolve(S, o) /\ S \subseteq Tasks
    /\ \A t \in S : call[t] # "unborn" /\ future[t] = Pending
    /\ UNCHANGED <<Born, gen, requestGen>>

LEMMA NoOneAnswers ==
  ASSUME UNCHANGED <<Born, future, gen, requestGen>>
  PROVE  UNCHANGED Contract!vars
BY DEF Contract!vars, Born

LEMMA GiveOrStutter ==
  ASSUME NEW S, NEW o, Answers(S, o), TypeInv
  PROVE  IF S = {} THEN UNCHANGED Contract!vars ELSE Contract!Give(S, o)
<1>1. CASE S = {}
  <2>1. UNCHANGED future
    BY <1>1 DEF Answers, Resolve, TypeInv, TypeOK, FutureTypes
  <2>2. QED
    BY <1>1, <2>1, NoOneAnswers DEF Answers
<1>2. CASE S # {}
  BY <1>2 DEF Answers, Resolve, Contract!Give, Contract!Waiting, Born
<1>3. QED
  BY <1>1, <1>2

ContractStep == [Contract!Next]_(Contract!vars)

\* Three ways in which tasks that may be answered are.
LEMMA AnswerSteps ==
  ASSUME TypeInv, NEW S, NEW o, Answers(S, o),
         \/ o = "switched" /\ MayAbandon
         \/ o = "superseded" /\ \A t \in S : StaleByGen(t, requestGen)
         \/ o \in {"value", "error"} /\ \E t \in Tasks : S = {t}
  PROVE  ContractStep
<1>1. S \in SUBSET Tasks
  BY DEF Answers
<1>2. CASE S = {}
  BY <1>2, GiveOrStutter DEF ContractStep
<1>3. CASE S # {}
  <2>1. Contract!Give(S, o)
    BY <1>3, GiveOrStutter
  <2>2. CASE o = "switched" /\ MayAbandon
    BY <1>1, <2>1, <2>2 DEF ContractStep, Contract!Next, Contract!Abandon, MayAbandon
  <2>3. CASE o = "superseded" /\ \A t \in S : StaleByGen(t, requestGen)
    <3>1. \A t \in S : Contract!Stale(t)
      BY <1>1, <2>3 DEF Contract!Stale, StaleByGen
    <3>2. Contract!Supersede(S)
      BY <2>1, <2>3, <3>1 DEF Contract!Supersede
    <3>3. QED
      BY <1>1, <3>2 DEF ContractStep, Contract!Next
  <2>4. ASSUME NEW t \in Tasks, S = {t}, o \in {"value", "error"}
        PROVE  ContractStep
    <3>1. Contract!Complete(t)
      BY <2>1, <2>4 DEF Contract!Complete
    <3>2. QED
      BY <3>1 DEF ContractStep, Contract!Next
  <2>5. QED
    BY <2>2, <2>3, <2>4
<1>4. QED
  BY <1>2, <1>3

\* Tasks whose twin waits are answered for it.
LEMMA CoalesceSteps ==
  ASSUME TypeInv, NEW S, Answers(S, "coalesced"), NEW u \in Tasks \ S,
         call[u] # "unborn", future[u] = Pending,
         \A t \in S : CoalescesWith(t, u) /\ ~NeverCoalesce(t)
  PROVE  ContractStep
<1>1. S \in SUBSET Tasks
  BY DEF Answers
<1>2. CASE S = {}
  BY <1>2, GiveOrStutter DEF ContractStep
<1>3. CASE S # {}
  <2>1. Contract!Give(S, "coalesced")
    BY <1>3, GiveOrStutter
  <2>2. u \in Contract!Waiting \ S
    BY DEF Contract!Waiting
  <2>3. ASSUME NEW t \in S PROVE Contract!Twins(t, u)
    <3>1. CoalescesWith(t, u) /\ ~NeverCoalesce(t) /\ t \in Tasks
      BY <1>1
    <3>2. QED
      BY <3>1 DEF Contract!Twins, CoalescesWith, NeverCoalesce
  <2>4. Contract!Coalesce(S)
    BY <2>1, <2>2, <2>3 DEF Contract!Coalesce
  <2>5. QED
    BY <1>1, <2>4 DEF ContractStep, Contract!Next
<1>4. QED
  BY <1>2, <1>3

\* Submit asks once, and answers itself or the twins it displaces.
LEMMA SubmitKeeps ==
  ASSUME TypeInv, PlaceInv, TrackInv, GenInv, AbandonInv, NEW t \in Tasks,
         Issue(t) \/ SubmitStep(t)
  PROVE  ContractStep
<1>1. CASE Issue(t)
  <2>1. /\ t \notin Born /\ Born' = Born \cup {t}
        /\ gen' = [gen EXCEPT ![t] = requestGen]
        /\ UNCHANGED <<future, requestGen>>
    BY <1>1 DEF Issue, opVars, Born, TypeInv, TypeOK, SubmitTypes
  <2>2. Contract!Ask(t)
    BY <2>1 DEF Contract!Ask, Born
  <2>3. QED
    BY <2>2 DEF ContractStep, Contract!Next
<1>2. CASE SubmitStep(t)
  <2>1. UNCHANGED <<gen, requestGen>>
    BY <1>2 DEF SubmitStep, Lookup, CheckRunning, Enqueue, EnsurePoolFor,
                ChooseVictim, Preempt, opVars
  <2>2. UNCHANGED Born /\ call[t] # "unborn"
    <3>1. call[t] # "unborn"
      BY <1>2 DEF SubmitStep, Lookup, CheckRunning, Enqueue, EnsurePoolFor,
                  ChooseVictim, Preempt
    <3>2. QED
      BY <1>2, <3>1, OneCall DEF Born
  <2>3. CASE UNCHANGED future
    BY <2>1, <2>2, <2>3, NoOneAnswers DEF ContractStep
  <2>4. call[t] \in Early => future[t] = Pending
    BY DEF PlaceInv, Placed
  <2>5. \A o : call[t] \in Early /\ Resolve({t}, o) => Answers({t}, o)
    BY <2>1, <2>2, <2>4 DEF Answers
  <2>6. CASE Lookup(t)
    <3>1. CASE closed
      <4>1. Resolve({t}, "switched") /\ call[t] \in Early /\ MayAbandon
        BY <2>6, <3>1 DEF Lookup, Early, AbandonInv
      <4>2. QED
        BY <2>5, <4>1, AnswerSteps
    <3>2. CASE ~closed
      BY <2>3, <2>6, <3>2 DEF Lookup
    <3>3. QED
      BY <3>1, <3>2
  <2>7. CASE CheckRunning(t)
    <3>1. CASE CoalescesWithRunning(t)
      <4>1. Resolve({t}, "coalesced") /\ call[t] = "looked"
        BY <2>7, <3>1 DEF CheckRunning
      <4>2. Answers({t}, "coalesced") /\ ~NeverCoalesce(t)
        BY <2>5, <4>1 DEF Early, GenInv
      <4>3. PICK a \in Range(running[Kctx(t)]) : CoalescesWith(t, a[1])
        BY <3>1 DEF CoalescesWithRunning
      <4>4. a[1] \in Tasks /\ call[a[1]] \notin Early /\ future[a[1]] = Pending
        BY RunningIsLate, ReqType
      <4>5. a[1] \in Tasks \ {t} /\ call[a[1]] # "unborn"
        BY <4>1, <4>4 DEF Early
      <4>6. QED
        BY <4>2, <4>3, <4>4, <4>5, CoalesceSteps
    <3>2. CASE ~CoalescesWithRunning(t)
      BY <2>3, <2>7, <3>2 DEF CheckRunning
    <3>3. QED
      BY <3>1, <3>2
  <2>8. CASE Enqueue(t)
    <3>1. call[t] \in Early
      BY <2>8 DEF Enqueue, Early
    <3>2. CASE stop[qOf[t]]
      <4>1. Resolve({t}, "switched") /\ MayAbandon
        BY <2>8, <3>2 DEF Enqueue, AbandonInv, TypeInv, QueueFound
      <4>2. QED
        BY <2>5, <3>1, <4>1, AnswerSteps
    <3>3. CASE ~stop[qOf[t]]
      <4>1. PICK q \in Queues : q = qOf[t]
        BY <2>8 DEF Enqueue, TypeInv, QueueFound
      <4> DEFINE twins == QueuedTwins(t, q)
      <4>2. Resolve(twins, "coalesced")
        BY <2>8, <3>3, <4>1 DEF Enqueue
      <4>3. \A u \in twins : /\ u \in Tasks /\ Lined(u)
                             /\ CoalescesWith(t, u) /\ ~NeverCoalesce(t)
        BY LaneType DEF QueuedTwins, Queued, Lined, InLane
      <4> HIDE DEF twins
      <4>4. \A u \in twins : /\ call[u] \notin Early /\ future[u] = Pending
                             /\ CoalescesWith(u, t) /\ ~NeverCoalesce(u)
        BY <4>3 DEF PlaceInv, Placed, CoalescesWith, NeverCoalesce
      <4>5. Answers(twins, "coalesced")
        BY <2>1, <2>2, <4>2, <4>3, <4>4 DEF Answers, Early
      <4>6. t \in Tasks \ twins
        BY <3>1, <4>4
      <4>7. QED
        BY <2>2, <2>4, <3>1, <4>4, <4>5, <4>6, CoalesceSteps
    <3>4. QED
      BY <3>2, <3>3
  <2>9. QED
    BY <1>2, <2>3, <2>6, <2>7, <2>8
    DEF SubmitStep, EnsurePoolFor, ChooseVictim, Preempt
<1>3. QED
  BY <1>1, <1>2

\* A worker answers the task it holds, with its result or with what was marked.
LEMMA WorkerKeeps ==
  ASSUME TypeInv, PlaceInv, GenInv, AbandonInv, NEW q \in Queues, NEW i \in Slots,
         WorkerStep(q, i)
  PROVE  ContractStep
<1>1. UNCHANGED <<Born, gen, requestGen>>
  <2>1. UNCHANGED requestGen
    BY DEF WorkerStep, Exit, Wake, Loop, Pick, Miss, Recheck, WakeSibling, Signal,
           Register, Return, Decide, FindQueue, Requeue, opVars
  <2>2. QED
    BY <2>1, OthersCallNot DEF submitVars, Born
<1>2. CASE UNCHANGED future
  BY <1>1, <1>2, NoOneAnswers DEF ContractStep
<1>3. CASE Decide(q, i) \/ FindQueue(q, i)
  <2>1. PICK t \in Tasks : t = holds[q][i]
    BY <1>3 DEF Decide, FindQueue, TypeInv, HandsFull, Busy
  <2>2. call[t] \notin Early /\ future[t] = Pending
    BY <2>1 DEF PlaceInv, Placed, Held
  <2>3. \A o : Deliver(q, i, o) => Answers({t}, o)
    BY <1>1, <2>1, <2>2 DEF Deliver, Answers, Early
  <2>4. CASE Decide(q, i)
    <3>1. \/ "switched" \in flags[t] /\ Deliver(q, i, "switched")
          \/ "superseded" \in flags[t] /\ Deliver(q, i, "superseded")
          \/ \E o \in {"value", "error"} : Deliver(q, i, o)
          \/ UNCHANGED future
      BY <2>1, <2>4 DEF Decide, ResultOf
    <3>2. "switched" \in flags[t] => MayAbandon
      BY DEF AbandonInv
    <3>3. "superseded" \in flags[t] => StaleByGen(t, requestGen)
      BY DEF GenInv
    <3>4. CASE "switched" \in flags[t] /\ Deliver(q, i, "switched")
      BY <2>3, <3>2, <3>4, AnswerSteps
    <3>5. CASE "superseded" \in flags[t] /\ Deliver(q, i, "superseded")
      <4>1. \A u \in {t} : StaleByGen(u, requestGen)
        BY <3>3, <3>5
      <4>2. QED
        BY <2>3, <3>5, <4>1, AnswerSteps
    <3>6. ASSUME NEW o \in {"value", "error"}, Deliver(q, i, o)
          PROVE  ContractStep
      BY <2>3, <3>6, AnswerSteps
    <3>7. QED
      BY <1>2, <3>1, <3>4, <3>5, <3>6
  <2>5. CASE FindQueue(q, i)
    <3>1. CASE ctxQueues[Kctx(t)] = None
      <4>1. Deliver(q, i, "switched")
        BY <2>1, <2>5, <3>1 DEF FindQueue
      <4>2. MayAbandon
        BY <2>2, <3>1 DEF AbandonInv, Early
      <4>3. QED
        BY <2>3, <4>1, <4>2, AnswerSteps
    <3>2. CASE ctxQueues[Kctx(t)] # None
      BY <1>2, <2>1, <2>5, <3>2 DEF FindQueue
    <3>3. QED
      BY <3>1, <3>2
  <2>6. QED
    BY <1>3, <2>4, <2>5
<1>4. UNCHANGED future \/ Decide(q, i) \/ FindQueue(q, i)
  BY DEF WorkerStep, Exit, Wake, Loop, Pick, Miss, Recheck, WakeSibling, Signal,
         Register, Return, Requeue
<1>5. QED
  BY <1>2, <1>3, <1>4

\* The control calls navigate, and answer what they take out of a lane.
LEMMA ControlKeeps ==
  ASSUME TypeInv, PlaceInv, AbandonInv,
         \/ StartWorkers \/ Close \/ StopWorkers \/ OpStep
         \/ \E k \in Contexts : CancelContext(k) \/ CancelStaleByGen(k)
  PROVE  ContractStep
<1>1. UNCHANGED <<Born, gen>>
  BY OthersCallNot DEF submitVars, Born
<1>2. ASSUME NEW k \in Contexts, CancelStaleByGen(k) PROVE ContractStep
  <2>1. /\ requestGen < MaxGen /\ requestGen' = requestGen + 1
        /\ UNCHANGED future
    BY <1>2 DEF CancelStaleByGen
  <2>2. Contract!Navigate
    BY <1>1, <2>1 DEF Contract!Navigate, Born
  <2>3. QED
    BY <2>2 DEF ContractStep, Contract!Next
<1>3. ASSUME NEW q \in Queues PROVE
        \A t \in Queued(q) : /\ t \in Tasks /\ call[t] # "unborn"
                             /\ future[t] = Pending
  <2>1. \A t \in Queued(q) : t \in Tasks /\ Lined(t)
    BY LaneType DEF Queued, Lined, InLane
  <2>2. QED
    BY <2>1 DEF PlaceInv, Placed, Early
<1>4. ASSUME NEW q \in Queues, Drain(q) PROVE ContractStep
  <2>1. /\ Resolve(Queued(q), "switched") /\ op \in {"cancel", "close"}
        /\ UNCHANGED requestGen
    BY <1>4 DEF Drain
  <2>2. Answers(Queued(q), "switched")
    BY <1>1, <1>3, <2>1 DEF Answers
  <2>3. MayAbandon
    BY <2>1 DEF AbandonInv
  <2>4. QED
    BY <2>2, <2>3, AnswerSteps
<1>5. ASSUME NEW q \in Queues, DropStaleByGen(q) PROVE ContractStep
  <2>1. PICK S \in SUBSET Queued(q) : /\ Resolve(S, "superseded")
                                      /\ \A t \in S : StaleByGen(t, requestGen)
    BY <1>5 DEF DropStaleByGen
  <2>2. UNCHANGED requestGen
    BY <1>5 DEF DropStaleByGen
  <2>3. Answers(S, "superseded")
    BY <1>1, <1>3, <2>1, <2>2 DEF Answers
  <2>4. QED
    BY <2>1, <2>3, AnswerSteps
<1>6. CASE \/ StartWorkers \/ Close \/ StopWorkers \/ DetachAll \/ OpReturn
           \/ \E q \in Queues : CloseStop(q)
           \/ \E a \in opMarks : MarkSwitched(a) \/ MarkSuperseded(a)
           \/ \E k \in Contexts : CancelContext(k)
  <2>1. UNCHANGED <<future, requestGen>>
    BY <1>6 DEF StartWorkers, Close, StopWorkers, DetachAll, OpReturn, CloseStop,
                MarkSwitched, MarkSuperseded, CancelContext, opVars
  <2>2. QED
    BY <1>1, <2>1, NoOneAnswers DEF ContractStep
<1>7. QED
  BY <1>2, <1>4, <1>5, <1>6 DEF OpStep

\* The scheduler implements FutureContract: the workers, the lanes, the flags and
\* the locks answer every Future at most once, with its request's result or with
\* a sentinel that has its reason - a waiting twin, a newer requestGen, a teardown.
THEOREM SchedulerKeepsContract == Spec => KeepsContract
<1>1. Init => Contract!Init
  BY DEF Init, Contract!Init
<1>2. TypeInv /\ PlaceInv /\ TrackInv /\ GenInv /\ AbandonInv /\ [Next]_vars =>
        [Contract!Next]_(Contract!vars)
  <2>1. UNCHANGED vars => UNCHANGED Contract!vars
    BY DEF vars, submitVars, opVars, Contract!vars
  <2>2. TypeInv /\ PlaceInv /\ TrackInv /\ GenInv /\ AbandonInv /\ Next => ContractStep
    BY SubmitKeeps, WorkerKeeps, ControlKeeps DEF Next
  <2>3. QED
    BY <2>1, <2>2 DEF ContractStep
<1>3. QED
  BY TypeInvariant, PlaceInvariant, TrackInvariant, GenInvariant, AbandonInvariant,
     <1>1, <1>2, PTL DEF Spec, KeepsContract, Contract!Spec
-----------------------------------------------------------------------------
(* The newest request survives, with serial callers. *)

\* A background read was answered "coalesced" and is not out of date.
Fresh(t) == /\ Prio(t) = Low /\ future[t] = "coalesced"
            /\ gen[t] # 0 /\ ~StaleByGen(t, requestGen)

\* u runs, waits or was answered in the place of t.
Survivor(t, u) ==
    /\ u # t /\ CoalescesWith(t, u) /\ call[u] \notin Early
    /\ future[u] \notin {"coalesced", "superseded"} /\ "superseded" \notin flags[u]

\* While a CancelStaleByGen is under way no request is of its requestGen: that
\* takes a second caller.
FreshInv ==
    /\ op = "stale" => \A t \in Tasks : gen[t] < requestGen
    /\ \A t \in Tasks : Fresh(t) => \E u \in Tasks : Survivor(t, u)

LEMMA SerialStale ==
  ASSUME MaxCallers = 1, TypeInv, CostInv, GenInv, FreshInv, [Next]_vars, op' = "stale"
  PROVE  \A t \in Tasks : gen'[t] < requestGen'
<1>1. ASSUME NEW k \in Contexts, CancelStaleByGen(k)
      PROVE  \A t \in Tasks : gen'[t] < requestGen'
  <2>1. requestGen' = requestGen + 1 /\ UNCHANGED gen
    BY <1>1 DEF CancelStaleByGen, submitVars
  <2>2. QED
    BY <2>1 DEF GenInv, TypeInv, TypeOK, SubmitTypes, OpTypes
<1>2. ASSUME NEW t \in Tasks, Issue(t) PROVE FALSE
  <2>1. op = "stale" /\ InCalls < 1
    BY <1>2 DEF Issue, opVars
  <2>2. Submitting \subseteq Born
    BY DEF Submitting, Born
  <2>3. Cardinality(Submitting) \in Nat
    BY <2>2, FS_Subset, FS_CardinalityType DEF CostInv
  <2>4. QED
    BY <2>1, <2>3 DEF InCalls
<1>3. CASE /\ \A k \in Contexts : ~CancelStaleByGen(k)
           /\ \A t \in Tasks : ~Issue(t)
  <2>1. op = "stale" /\ UNCHANGED <<gen, requestGen>>
    <3>1. CASE \E t \in Tasks : SubmitStep(t)
      BY <3>1 DEF SubmitStep, Lookup, CheckRunning, Enqueue, EnsurePoolFor,
                  ChooseVictim, Preempt, opVars
    <3>2. ASSUME NEW q \in Queues, NEW i \in Slots, WorkerStep(q, i)
          PROVE  op = "stale" /\ UNCHANGED <<gen, requestGen>>
      <4>1. UNCHANGED opVars
        BY <3>2 DEF WorkerStep, Exit, Wake, Loop, Pick, Miss, Recheck, WakeSibling,
                    Signal, Register, Return, Decide, FindQueue, Requeue
      <4>2. QED
        BY <3>2, <4>1, OthersCallNot DEF opVars, submitVars
    <3>3. CASE \/ StartWorkers \/ Close \/ StopWorkers \/ OpStep
               \/ \E k \in Contexts : CancelContext(k)
      BY <3>3 DEF StartWorkers, Close, StopWorkers, OpStep, DetachAll, OpReturn, Drain,
                  DropStaleByGen, CloseStop, MarkSwitched, MarkSuperseded,
                  CancelContext, opVars, submitVars
    <3>4. CASE UNCHANGED vars
      BY <3>4 DEF vars, opVars, submitVars
    <3>5. QED
      BY <1>3, <3>1, <3>2, <3>3, <3>4 DEF Next
  <2>2. QED
    BY <2>1 DEF FreshInv
<1>4. QED
  BY <1>1, <1>2, <1>3

\* Only a CancelStaleByGen, or a worker that finds its mark, supersedes.
LEMMA WhoSupersedes ==
  ASSUME TypeInv, [Next]_vars, op # "stale", NEW u \in Tasks,
         "superseded" \notin flags[u], future[u] # "superseded"
  PROVE  "superseded" \notin flags'[u] /\ future'[u] # "superseded"
<1>1. \A a, f : Mark(a, f) /\ f # "superseded" => "superseded" \notin flags'[u]
  BY DEF Mark, TypeInv, TypeOK, AttemptTypes
<1>2. \A S, o : Resolve(S, o) /\ o # "superseded" => future'[u] # "superseded"
  BY DEF Resolve
<1>3. ASSUME NEW t \in Tasks, Issue(t) \/ SubmitStep(t)
      PROVE  "superseded" \notin flags'[u] /\ future'[u] # "superseded"
  <2>1. UNCHANGED flags \/ Mark(victim[t], "preempted")
    BY <1>3 DEF Issue, SubmitStep, Lookup, CheckRunning, Enqueue, EnsurePoolFor,
                ChooseVictim, Preempt, attemptVars
  <2>2. UNCHANGED future \/ \E S : Resolve(S, "switched") \/ Resolve(S, "coalesced")
    BY <1>3 DEF Issue, SubmitStep, Lookup, CheckRunning, Enqueue, EnsurePoolFor,
                ChooseVictim, Preempt
  <2>3. QED
    BY <1>1, <1>2, <2>1, <2>2
<1>4. ASSUME NEW q \in Queues, NEW i \in Slots, WorkerStep(q, i)
      PROVE  "superseded" \notin flags'[u] /\ future'[u] # "superseded"
  <2>1. UNCHANGED flags \/ flags' = [flags EXCEPT ![holds[q][i]] = {}]
    BY <1>4 DEF WorkerStep, Exit, Wake, Loop, Pick, Miss, Recheck, WakeSibling, Signal,
                Register, FreshFlags, Return, Decide, FindQueue, Requeue, attemptVars
  <2>2. \/ UNCHANGED future
        \/ \E o \in {"switched", "value", "error"} : Resolve({holds[q][i]}, o)
        \/ holds[q][i] # u /\ Resolve({holds[q][i]}, "superseded")
    <3>1. CASE Decide(q, i)
      BY <3>1 DEF Decide, Deliver, ResultOf
    <3>2. CASE FindQueue(q, i)
      BY <3>2 DEF FindQueue, Deliver
    <3>3. CASE ~Decide(q, i) /\ ~FindQueue(q, i)
      BY <1>4, <3>3 DEF WorkerStep, Exit, Wake, Loop, Pick, Miss, Recheck, WakeSibling,
                        Signal, Register, Return, Requeue
    <3>4. QED
      BY <3>1, <3>2, <3>3
  <2>3. "superseded" \notin flags'[u]
    BY <2>1 DEF TypeInv, TypeOK, AttemptTypes
  <2>4. QED
    BY <1>2, <2>2, <2>3 DEF Resolve
<1>5. CASE \/ StartWorkers \/ Close \/ StopWorkers \/ OpStep
           \/ \E k \in Contexts : CancelContext(k) \/ CancelStaleByGen(k)
  <2>1. UNCHANGED flags \/ \E a : Mark(a, "switched")
    BY <1>5 DEF StartWorkers, Close, StopWorkers, OpStep, DetachAll, OpReturn, Drain,
                DropStaleByGen, CloseStop, MarkSwitched, MarkSuperseded, CancelContext,
                CancelStaleByGen, attemptVars
  <2>2. UNCHANGED future \/ \E S : Resolve(S, "switched")
    BY <1>5 DEF StartWorkers, Close, StopWorkers, OpStep, DetachAll, OpReturn, Drain,
                DropStaleByGen, CloseStop, MarkSwitched, MarkSuperseded, CancelContext,
                CancelStaleByGen
  <2>3. QED
    BY <1>1, <1>2, <2>1, <2>2
<1>6. CASE UNCHANGED vars
  BY <1>6 DEF vars, attemptVars
<1>7. QED
  BY <1>3, <1>4, <1>5, <1>6 DEF Next

\* Whoever is answered "coalesced" leaves a survivor behind.
LEMMA WhoCoalesces ==
  ASSUME TypeInv, PlaceInv, TrackInv, GenInv, [Next]_vars, NEW u \in Tasks,
         future[u] # "coalesced", future'[u] = "coalesced"
  PROVE  \E v \in Tasks : Survivor(u, v)'
<1>1. \/ CheckRunning(u) /\ CoalescesWithRunning(u)
      \/ \E v \in Tasks : /\ Enqueue(v) /\ ~stop[qOf[v]]
                          /\ u \in QueuedTwins(v, qOf[v])
  <2>1. ASSUME NEW t \in Tasks, Issue(t) \/ SubmitStep(t)
        PROVE  \/ t = u /\ CheckRunning(u) /\ CoalescesWithRunning(u)
               \/ /\ Enqueue(t) /\ ~stop[qOf[t]]
                  /\ u \in QueuedTwins(t, qOf[t])
    <3>1. ~(Issue(t) \/ EnsurePoolFor(t) \/ ChooseVictim(t) \/ Preempt(t))
      BY DEF Issue, EnsurePoolFor, ChooseVictim, Preempt
    <3>2. ~Lookup(t)
      BY DEF Lookup, Resolve
    <3>3. CASE CheckRunning(t)
      BY <3>3 DEF CheckRunning, Resolve
    <3>4. CASE Enqueue(t)
      BY <3>4 DEF Enqueue, Resolve
    <3>5. QED
      BY <2>1, <3>1, <3>2, <3>3, <3>4 DEF SubmitStep
  <2>2. ASSUME NEW q \in Queues, NEW i \in Slots, WorkerStep(q, i) PROVE FALSE
    <3>1. \/ UNCHANGED future
          \/ \E S, o : o # "coalesced" /\ Resolve(S, o)
      <4>1. CASE Decide(q, i)
        BY <4>1 DEF Decide, Deliver, ResultOf
      <4>2. CASE FindQueue(q, i)
        BY <4>2 DEF FindQueue, Deliver
      <4>3. CASE ~Decide(q, i) /\ ~FindQueue(q, i)
        BY <2>2, <4>3 DEF WorkerStep, Exit, Wake, Loop, Pick, Miss, Recheck, WakeSibling,
                          Signal, Register, Return, Requeue
      <4>4. QED
        BY <4>1, <4>2, <4>3
    <3>2. QED
      BY <3>1 DEF Resolve
  <2>3. CASE \/ StartWorkers \/ Close \/ StopWorkers \/ OpStep
             \/ \E k \in Contexts : CancelContext(k) \/ CancelStaleByGen(k)
    <3>1. \/ UNCHANGED future
          \/ \E S : Resolve(S, "switched") \/ Resolve(S, "superseded")
      BY <2>3 DEF StartWorkers, Close, StopWorkers, OpStep, DetachAll, OpReturn, Drain,
                  DropStaleByGen, CloseStop, MarkSwitched, MarkSuperseded,
                  CancelContext, CancelStaleByGen
    <3>2. QED
      BY <3>1 DEF Resolve
  <2>4. ~UNCHANGED vars
    BY DEF vars
  <2>5. QED
    BY <2>1, <2>2, <2>3, <2>4 DEF Next
<1>2. CASE CheckRunning(u) /\ CoalescesWithRunning(u)
  <2>1. PICK a \in Range(running[Kctx(u)]) :
          flags[a[1]] = {} /\ CoalescesWith(u, a[1])
    BY <1>2 DEF CoalescesWithRunning
  <2>2. PICK v \in Tasks : v = a[1] /\ call[v] \notin Early /\ future[v] = Pending
    BY RunningIsLate, ReqType
  <2>3. v # u
    BY <1>2, <2>2 DEF CheckRunning, Early
  <2>4. /\ UNCHANGED <<flags, gen>> /\ future'[v] = future[v] /\ call'[v] = call[v]
    BY <1>2, <2>3 DEF CheckRunning, Resolve, attemptVars, TypeInv, TypeOK, SubmitTypes
  <2>5. CoalescesWith(u, v)'
    BY <2>1, <2>2, <2>4 DEF CoalescesWith
  <2>6. QED
    BY <2>1, <2>2, <2>3, <2>4, <2>5 DEF Survivor, Pending
<1>3. ASSUME NEW v \in Tasks, Enqueue(v), ~stop[qOf[v]], u \in QueuedTwins(v, qOf[v])
      PROVE  Survivor(u, v)'
  <2>1. PICK q \in Queues : q = qOf[v]
    BY <1>3 DEF Enqueue, TypeInv, QueueFound
  <2>2. /\ Resolve(QueuedTwins(v, q), "coalesced")
        /\ call[v] \in Early /\ call'[v] \notin Early /\ UNCHANGED <<flags, gen>>
    BY <1>3, <2>1 DEF Enqueue, Early, attemptVars, TypeInv, TypeOK, SubmitTypes
  <2>3. \A w \in QueuedTwins(v, q) : Lined(w) /\ w \in Tasks
    BY LaneType DEF QueuedTwins, Queued, Lined, InLane
  <2>4. v \notin QueuedTwins(v, q)
    BY <2>2, <2>3 DEF PlaceInv, Placed
  <2>5. future'[v] = Pending
    BY <2>2, <2>4 DEF Resolve, PlaceInv, Placed
  <2>6. "superseded" \notin flags'[v]
    BY <2>2 DEF GenInv
  <2>7. CoalescesWith(u, v)' /\ u # v
    BY <1>3, <2>1, <2>2, <2>4 DEF QueuedTwins, CoalescesWith
  <2>8. QED
    BY <2>2, <2>5, <2>6, <2>7 DEF Survivor, Pending
<1>4. QED
  BY <1>1, <1>2, <1>3

\* The application's requestGen only grows (jump_history.go:195, update_actions.go:218).
LEMMA NextGen ==
  ASSUME TypeInv, [Next]_vars
  PROVE  requestGen' \in Nat /\ requestGen <= requestGen'
<1>1. requestGen \in Nat
  BY DEF TypeInv, TypeOK, OpTypes
<1>2. ASSUME NEW t \in Tasks, Issue(t) \/ SubmitStep(t)
      PROVE  requestGen' = requestGen
  BY <1>2 DEF Issue, SubmitStep, Lookup, CheckRunning, Enqueue, EnsurePoolFor,
              ChooseVictim, Preempt, opVars
<1>3. ASSUME NEW q \in Queues, NEW i \in Slots, WorkerStep(q, i)
      PROVE  requestGen' = requestGen
  BY <1>3 DEF WorkerStep, Exit, Wake, Loop, Pick, Miss, Recheck, WakeSibling, Signal,
              Register, Return, Decide, FindQueue, Requeue, opVars
<1>4. ASSUME \/ StartWorkers \/ Close \/ StopWorkers \/ OpStep
             \/ \E k \in Contexts : CancelContext(k) \/ CancelStaleByGen(k)
      PROVE  requestGen' = requestGen \/ requestGen' = requestGen + 1
  BY <1>4 DEF StartWorkers, Close, StopWorkers, OpStep, DetachAll, OpReturn, Drain,
              DropStaleByGen, CloseStop, MarkSwitched, MarkSuperseded, CancelContext,
              CancelStaleByGen, opVars
<1>5. requestGen' = requestGen \/ requestGen' = requestGen + 1
  <2>1. UNCHANGED vars => requestGen' = requestGen
    BY DEF vars, opVars
  <2>2. QED
    BY <1>2, <1>3, <1>4, <2>1 DEF Next
<1>6. QED
  BY <1>1, <1>5

LEMMA NextFresh ==
  ASSUME MaxCallers = 1, TypeInv, PlaceInv, TrackInv, CostInv, GenInv, FreshInv,
         [Next]_vars
  PROVE  FreshInv'
<1>1. requestGen' \in Nat /\ requestGen <= requestGen'
  BY NextGen
<1>2. ASSUME NEW t \in Tasks, Fresh(t)', future[t] = "coalesced"
      PROVE  \E u \in Tasks : Survivor(t, u)'
  <2>1. call[t] \notin Early /\ call[t] # "unborn"
    BY <1>2 DEF PlaceInv, Placed, Pending, Early
  <2>2. gen'[t] = gen[t]
    BY <2>1, GenFixed
  <2>3. Fresh(t)
    BY <1>1, <1>2, <2>2 DEF Fresh, StaleByGen, TypeInv, TypeOK, SubmitTypes, OpTypes
  <2>4. op # "stale"
    BY <1>2, <2>3 DEF FreshInv, Fresh, StaleByGen, GenInv, NeverCoalesce
  <2>5. PICK u \in Tasks : Survivor(t, u)
    BY <2>3 DEF FreshInv
  <2>6. gen'[u] = gen[u] /\ call'[u] \notin Early
    BY <2>5, GenFixed DEF Survivor, Early
  <2>7. "superseded" \notin flags'[u] /\ future'[u] # "superseded"
    BY <2>4, <2>5, WhoSupersedes DEF Survivor
  <2>8. CoalescesWith(t, u)'
    BY <2>2, <2>5, <2>6 DEF Survivor, CoalescesWith
  <2>9. CASE future'[u] # "coalesced"
    BY <2>5, <2>6, <2>7, <2>8, <2>9 DEF Survivor
  <2>10. CASE future'[u] = "coalesced"
    <3>1. PICK v \in Tasks : Survivor(u, v)'
      BY <2>5, <2>10, WhoCoalesces DEF Survivor
    <3>2. CoalescesWith(t, v)'
      BY <2>8, <3>1 DEF Survivor, CoalescesWith
    <3>3. v # t
      BY <1>2, <3>1 DEF Survivor, Fresh
    <3>4. QED
      BY <3>1, <3>2, <3>3 DEF Survivor
  <2>11. QED
    BY <2>9, <2>10
<1>3. ASSUME NEW t \in Tasks, Fresh(t)', future[t] # "coalesced"
      PROVE  \E u \in Tasks : Survivor(t, u)'
  BY <1>3, WhoCoalesces DEF Fresh
<1>4. QED
  BY <1>2, <1>3, SerialStale DEF FreshInv

\* With one caller at a time, as the Update goroutine is, coalescing never loses
\* the newest request: a background read that was answered "coalesced" and is not
\* out of date has a twin that was neither coalesced nor superseded.
THEOREM SerialFreshRequestsSurvive ==
  ASSUME MaxCallers = 1
  PROVE  Spec => []FreshRequestSurvives
<1>1. Init => FreshInv
  BY DEF Init, FreshInv, Fresh, Pending
<1>2. TypeInv /\ PlaceInv /\ TrackInv /\ RerunInv /\ GenInv /\ FreshInv /\ [Next]_vars =>
        FreshInv'
  BY NextFresh DEF RerunInv
<1>3. FreshInv => FreshRequestSurvives
  BY DEF FreshInv, Fresh, Survivor, Early, FreshRequestSurvives
<1>4. QED
  BY TypeInvariant, PlaceInvariant, TrackInvariant, RerunInvariant, GenInvariant,
     <1>1, <1>2, <1>3, PTL DEF Spec
=============================================================================
