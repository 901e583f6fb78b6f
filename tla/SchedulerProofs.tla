-------------------------- MODULE SchedulerProofs --------------------------
(***************************************************************************)
(* Theorems about Scheduler, for every set of tasks and contexts and every *)
(* setting that satisfies ConfigAssumption.                                *)
(***************************************************************************)
EXTENDS Scheduler, LaneProofs

\* Whoever runs or requeues a task has one and knows where to, and a Submit
\* that found its queue knows it.
Busy == {"picked", "signalling", "dispatched", "running", "returned",
         "displaced", "requeueing"}
Aimed == {"requeueing", "requeued"}

HandsFull ==
    \A q \in Queues, i \in Slots :
        /\ pc[q][i] \in Busy => holds[q][i] \in Tasks
        /\ pc[q][i] \in Aimed => requeueTo[q][i] \in Queues

QueueFound ==
    \A t \in Tasks :
        call[t] \in {"looked", "checked", "queued"} => qOf[t] \in Queues

TypeInv == TypeOK /\ HandsFull /\ QueueFound

USE DEF Queues, Priorities, Critical, High, Low

\* What a request holds.
LEMMA ReqType ==
  /\ \A t \in Tasks : /\ Req[t] \in Requests
                      /\ Prio(t) \in Priorities
                      /\ Kctx(t) \in Contexts
  /\ None \notin Tasks
BY RequestsAssumption, NoneAssumption DEF Requests, Prio, Kctx

\* The lane a worker serves is one that holds a task.
LEMMA ChoiceServesWork ==
  ASSUME NEW q, NEW i, HasPendingWork(q)
  PROVE  Choice(q, i) \in Priorities /\ lanes[q][Choice(q, i)] # << >>
BY DEF HasPendingWork, Choice, ByPriority

\* The parts of TypeInv about variables a step leaves alone stay true.
LEMMA Untouched ==
  ASSUME TypeInv
  PROVE  /\ UNCHANGED registryVars => RegistryTypes'
         /\ UNCHANGED queueVars => QueueTypes'
         /\ UNCHANGED poolVars => PoolTypes'
         /\ UNCHANGED workerVars => WorkerTypes' /\ HandsFull'
         /\ UNCHANGED submitVars => SubmitTypes' /\ QueueFound'
         /\ UNCHANGED attemptVars => AttemptTypes'
         /\ UNCHANGED opVars => OpTypes'
         /\ UNCHANGED future => FutureTypes'
<1>1. UNCHANGED registryVars => RegistryTypes'
  BY DEF TypeInv, TypeOK, RegistryTypes, registryVars
<1>2. UNCHANGED queueVars => QueueTypes'
  BY DEF TypeInv, TypeOK, QueueTypes, queueVars
<1>3. UNCHANGED poolVars => PoolTypes'
  BY DEF TypeInv, TypeOK, PoolTypes, poolVars
<1>4. UNCHANGED workerVars => WorkerTypes' /\ HandsFull'
  BY DEF TypeInv, TypeOK, WorkerTypes, HandsFull, workerVars
<1>5. UNCHANGED submitVars => SubmitTypes' /\ QueueFound'
  BY DEF TypeInv, TypeOK, SubmitTypes, QueueFound, submitVars
<1>6. UNCHANGED attemptVars => AttemptTypes'
  BY DEF TypeInv, TypeOK, AttemptTypes, attemptVars
<1>7. UNCHANGED opVars => OpTypes'
  BY DEF TypeInv, TypeOK, OpTypes, opVars
<1>8. UNCHANGED future => FutureTypes'
  BY DEF TypeInv, TypeOK, FutureTypes
<1>9. QED
  BY <1>1, <1>2, <1>3, <1>4, <1>5, <1>6, <1>7, <1>8

\* Delivering o keeps the Futures typed.
LEMMA ResolveType ==
  ASSUME TypeInv, NEW S, NEW o \in Outcomes, Resolve(S, o)
  PROVE  FutureTypes'
BY DEF Resolve, TypeInv, TypeOK, FutureTypes

\* The registry starts typed.
LEMMA InitType == Init => TypeInv
<1> SUFFICES ASSUME Init PROVE TypeInv
  OBVIOUS
<1>1. \A S : << >> \in Seq(S)
  OBVIOUS
<1>2. RegistryTypes /\ QueueTypes /\ PoolTypes
  BY <1>1 DEF Init, RegistryTypes, QueueTypes, PoolTypes
<1>3. WorkerTypes /\ SubmitTypes
  BY DEF Init, WorkerTypes, SubmitTypes, Labels, Steps
<1>4. AttemptTypes /\ OpTypes /\ FutureTypes
  BY <1>1 DEF Init, AttemptTypes, OpTypes, FutureTypes
<1>5. HandsFull /\ QueueFound
  BY DEF Init, HandsFull, QueueFound, Busy, Aimed
<1>6. QED
  BY <1>2, <1>3, <1>4, <1>5 DEF TypeInv, TypeOK

\* Submit keeps every part typed.
LEMMA SubmitType ==
  ASSUME TypeInv, NEW t \in Tasks, Issue(t) \/ SubmitStep(t)
  PROVE  TypeInv'
<1> USE ReqType
<1>1. CASE Issue(t)
  <2>1. SubmitTypes' /\ QueueFound'
    BY <1>1 DEF Issue, TypeInv, TypeOK, SubmitTypes, QueueFound, OpTypes, Steps
  <2>2. QED
    BY <1>1, <2>1, Untouched DEF Issue, TypeInv, TypeOK
<1>2. CASE Lookup(t)
  <2>1. RegistryTypes'
    BY <1>2 DEF Lookup, TypeInv, TypeOK, RegistryTypes
  <2>2. SubmitTypes' /\ QueueFound'
    <3>1. CASE closed
      <4>1. /\ call' = [call EXCEPT ![t] = "done"]
            /\ UNCHANGED <<qOf, gen, victim>>
        BY <1>2, <3>1 DEF Lookup
      <4>2. QED
        BY <4>1 DEF TypeInv, TypeOK, SubmitTypes, QueueFound, Steps
    <3>2. CASE ~closed
      <4>1. PICK q \in Queues, l \in {"looked", "checked"} :
              /\ call' = [call EXCEPT ![t] = l]
              /\ qOf' = [qOf EXCEPT ![t] = q]
              /\ UNCHANGED <<gen, victim>>
        BY <1>2, <3>2 DEF Lookup, TypeInv, TypeOK, RegistryTypes, Queues
      <4>2. QED
        BY <4>1 DEF TypeInv, TypeOK, SubmitTypes, QueueFound, Steps
    <3>3. QED
      BY <3>1, <3>2
  <2>3. FutureTypes'
    BY <1>2, ResolveType, Untouched DEF Lookup, Outcomes
  <2>4. QED
    BY <1>2, <2>1, <2>2, <2>3, Untouched DEF Lookup, TypeInv, TypeOK
<1>3. CASE CheckRunning(t)
  <2>1. SubmitTypes' /\ QueueFound'
    BY <1>3 DEF CheckRunning, TypeInv, TypeOK, SubmitTypes, QueueFound, Steps
  <2>2. FutureTypes'
    BY <1>3, ResolveType, Untouched DEF CheckRunning, Outcomes
  <2>3. QED
    BY <1>3, <2>1, <2>2, Untouched DEF CheckRunning, TypeInv, TypeOK
<1>4. CASE Enqueue(t)
  <2> DEFINE q == qOf[t]
             twins == QueuedTwins(t, q)
             seated == [p \in Priorities |->
                          IF p = Prio(t) THEN Seat(lanes[q][p], twins, t)
                          ELSE Without(lanes[q][p], twins)]
  <2>1. q \in Queues
    BY <1>4 DEF Enqueue, TypeInv, QueueFound
  <2>2. seated \in [Priorities -> Seq(Tasks)]
    <3>1. \A p \in Priorities : lanes[q][p] \in Seq(Tasks)
      BY <2>1 DEF TypeInv, TypeOK, QueueTypes
    <3> HIDE DEF q, twins
    <3>2. \A p \in Priorities : /\ Seat(lanes[q][p], twins, t) \in Seq(Tasks)
                                /\ Without(lanes[q][p], twins) \in Seq(Tasks)
      BY <3>1, WithoutProperties, SeatProperties
    <3>3. QED
      BY <3>2
  <2>3. /\ lanes' = [lanes EXCEPT ![q] = seated] \/ lanes' = lanes
        /\ wake' = [wake EXCEPT ![q] = TRUE] \/ wake' = wake
        /\ skips' = skips
    BY <1>4 DEF Enqueue, queueVars
  <2>4. QueueTypes'
    <3> HIDE DEF seated, q
    <3>1. QED
      BY <2>1, <2>2, <2>3 DEF TypeInv, TypeOK, QueueTypes
  <2>5. SubmitTypes' /\ QueueFound'
    BY <1>4 DEF Enqueue, TypeInv, TypeOK, SubmitTypes, QueueFound, Steps
  <2>6. FutureTypes'
    BY <1>4, ResolveType DEF Enqueue, Outcomes
  <2>7. QED
    BY <1>4, <2>4, <2>5, <2>6, Untouched DEF Enqueue, TypeInv, TypeOK
<1>5. CASE EnsurePoolFor(t)
  <2>1. PoolTypes'
    BY <1>5 DEF EnsurePoolFor, Spawn, TypeInv, TypeOK, PoolTypes
  <2>2. WorkerTypes' /\ HandsFull'
    BY <1>5 DEF EnsurePoolFor, Spawn, TypeInv, TypeOK, WorkerTypes, HandsFull,
                Busy, Aimed, Labels
  <2>3. SubmitTypes' /\ QueueFound'
    BY <1>5 DEF EnsurePoolFor, TypeInv, TypeOK, SubmitTypes, QueueFound, Steps
  <2>4. QED
    BY <1>5, <2>1, <2>2, <2>3, Untouched DEF EnsurePoolFor, TypeInv, TypeOK
<1>6. CASE ChooseVictim(t)
  <2>1. Victims(t) \subseteq Attempts
    BY DEF Victims, TypeInv, TypeOK, AttemptTypes
  <2>2. SubmitTypes' /\ QueueFound'
    BY <1>6, <2>1 DEF ChooseVictim, TypeInv, TypeOK, SubmitTypes, QueueFound,
                      Steps
  <2>3. QED
    BY <1>6, <2>2, Untouched DEF ChooseVictim, TypeInv, TypeOK
<1>7. CASE Preempt(t)
  <2>1. AttemptTypes'
    BY <1>7 DEF Preempt, Mark, TypeInv, TypeOK, AttemptTypes, Flags
  <2>2. SubmitTypes' /\ QueueFound'
    BY <1>7 DEF Preempt, TypeInv, TypeOK, SubmitTypes, QueueFound, Steps
  <2>3. QED
    BY <1>7, <2>1, <2>2, Untouched DEF Preempt, TypeInv, TypeOK
<1>8. QED
  BY <1>1, <1>2, <1>3, <1>4, <1>5, <1>6, <1>7 DEF SubmitStep

\* What a step of worker i of q may do to the workers.
LEMMA GotoType ==
  ASSUME TypeInv, NEW q \in Queues, NEW i \in Slots, NEW l \in Labels \ (Busy \cup Aimed),
         Goto(q, i, l), UNCHANGED <<holds, fnErr, requeueTo>>
  PROVE  WorkerTypes' /\ HandsFull'
BY DEF Goto, TypeInv, TypeOK, WorkerTypes, HandsFull, Busy, Aimed

\* Delivering a result empties the worker's hands.
LEMMA DeliverType ==
  ASSUME TypeInv, NEW q \in Queues, NEW i \in Slots, NEW o \in Outcomes,
         Deliver(q, i, o)
  PROVE  FutureTypes' /\ WorkerTypes' /\ HandsFull'
<1>1. FutureTypes'
  BY ResolveType DEF Deliver
<1>2. WorkerTypes' /\ HandsFull'
  BY DEF Deliver, Goto, TypeInv, TypeOK, WorkerTypes, HandsFull, Labels, Busy,
         Aimed
<1>3. QED
  BY <1>1, <1>2

\* So does every step of a worker.
LEMMA WorkerType ==
  ASSUME TypeInv, NEW q \in Queues, NEW i \in Slots, WorkerStep(q, i)
  PROVE  TypeInv'
<1> USE ReqType
<1>1. CASE Exit(q, i)
  <2>1. WorkerTypes' /\ HandsFull'
    BY <1>1, GotoType DEF Exit, Labels, Busy, Aimed
  <2>2. QED
    BY <1>1, <2>1, Untouched DEF Exit, TypeInv, TypeOK
<1>2. CASE Wake(q, i)
  <2>1. WorkerTypes' /\ HandsFull'
    BY <1>2, GotoType DEF Wake, Labels, Busy, Aimed
  <2>2. QueueTypes'
    BY <1>2 DEF Wake, TypeInv, TypeOK, QueueTypes
  <2>3. QED
    BY <1>2, <2>1, <2>2, Untouched DEF Wake, TypeInv, TypeOK
<1>3. CASE Loop(q, i)
  <2>1. WorkerTypes' /\ HandsFull'
    BY <1>3, GotoType DEF Loop, Labels, Busy, Aimed
  <2>2. QED
    BY <1>3, <2>1, Untouched DEF Loop, TypeInv, TypeOK
<1>4. CASE Pick(q, i)
  <2> DEFINE p == Choice(q, i)
  <2>1. p \in Priorities /\ lanes[q][p] # << >>
    BY <1>4, ChoiceServesWork DEF Pick
  <2>2. lanes[q][p] \in Seq(Tasks)
    BY <2>1 DEF TypeInv, TypeOK, QueueTypes
  <2>3. Head(lanes[q][p]) \in Tasks /\ Tail(lanes[q][p]) \in Seq(Tasks)
    BY <2>1, <2>2, HeadTailProperties
  <2>4. /\ holds' = [holds EXCEPT ![q][i] = Head(lanes[q][p])]
        /\ lanes' = [lanes EXCEPT ![q][p] = Tail(@)]
        /\ skips' = skips \/ skips' = [skips EXCEPT ![q] = AgedBy(q, p)]
        /\ Goto(q, i, "picked")
        /\ UNCHANGED <<wake, fnErr, requeueTo>>
    BY <1>4 DEF Pick
  <2>5. AgedBy(q, p) \in [{High, Low} -> Nat]
    <3>1. skips[q] \in [{High, Low} -> Nat]
      BY DEF TypeInv, TypeOK, QueueTypes
    <3> HIDE DEF p
    <3>2. QED
      BY <3>1 DEF AgedBy
  <2> HIDE DEF p
  <2>6. QueueTypes'
    BY <2>1, <2>3, <2>4, <2>5 DEF TypeInv, TypeOK, QueueTypes
  <2>7. WorkerTypes' /\ HandsFull'
    BY <2>3, <2>4 DEF Goto, TypeInv, TypeOK, WorkerTypes, HandsFull, Labels,
                      Aimed
  <2>8. QED
    BY <1>4, <2>6, <2>7, Untouched DEF Pick, TypeInv, TypeOK
<1>5. CASE Miss(q, i)
  <2>1. WorkerTypes' /\ HandsFull'
    BY <1>5, GotoType DEF Miss, Labels, Busy, Aimed
  <2>2. QED
    BY <1>5, <2>1, Untouched DEF Miss, TypeInv, TypeOK
<1>6. CASE Recheck(q, i)
  <2>1. WorkerTypes' /\ HandsFull'
    BY <1>6, GotoType DEF Recheck, Labels, Busy, Aimed
  <2>2. QED
    BY <1>6, <2>1, Untouched DEF Recheck, TypeInv, TypeOK
<1>7. CASE WakeSibling(q, i)
  <2>1. WorkerTypes' /\ HandsFull'
    BY <1>7 DEF WakeSibling, Goto, TypeInv, TypeOK, WorkerTypes, HandsFull,
                Labels, Busy, Aimed
  <2>2. QED
    BY <1>7, <2>1, Untouched DEF WakeSibling, TypeInv, TypeOK
<1>8. CASE Register(q, i)
  <2> DEFINE t == holds[q][i]
  <2>1. t \in Tasks
    BY <1>8 DEF Register, TypeInv, HandsFull, Busy, Aimed
  <2>2. /\ attempts' = [attempts EXCEPT ![t] = @ + 1]
        /\ flags' = [flags EXCEPT ![t] = {}]
        /\ running' = [running EXCEPT ![Kctx(t)] = Append(@, <<t, attempts[t] + 1>>)]
    BY <1>8 DEF Register, FreshFlags
  <2> HIDE DEF t
  <2>3. AttemptTypes'
    <3>1. <<t, attempts[t] + 1>> \in Attempts /\ running[Kctx(t)] \in Seq(Attempts)
      BY <2>1 DEF TypeInv, TypeOK, AttemptTypes, Attempts
    <3>2. Append(running[Kctx(t)], <<t, attempts[t] + 1>>) \in Seq(Attempts)
      BY <3>1, AppendProperties
    <3>3. QED
      BY <2>1, <2>2, <3>2 DEF TypeInv, TypeOK, AttemptTypes
  <2>4. WorkerTypes' /\ HandsFull'
    BY <1>8 DEF Register, Goto, TypeInv, TypeOK, WorkerTypes, HandsFull,
                Labels, Busy, Aimed
  <2>5. QED
    BY <1>8, <2>3, <2>4, Untouched DEF Register, TypeInv, TypeOK
<1>9. CASE Return(q, i)
  <2> DEFINE t == holds[q][i]
  <2>1. t \in Tasks
    BY <1>9 DEF Return, TypeInv, HandsFull, Busy, Aimed
  <2>2. /\ running' = [running EXCEPT ![Kctx(t)] = Without(@, {<<t, attempts[t]>>})]
        /\ UNCHANGED <<attempts, flags>>
    BY <1>9 DEF Return
  <2>3. AttemptTypes'
    <3> HIDE DEF t
    <3>1. running[Kctx(t)] \in Seq(Attempts)
      BY <2>1 DEF TypeInv, TypeOK, AttemptTypes
    <3>2. Without(running[Kctx(t)], {<<t, attempts[t]>>}) \in Seq(Attempts)
      BY <3>1, WithoutProperties
    <3>3. QED
      BY <2>1, <2>2, <3>2 DEF TypeInv, TypeOK, AttemptTypes
  <2>4. PICK e \in FnErrors \cup {"nil"} : fnErr' = [fnErr EXCEPT ![q][i] = e]
    BY <1>9 DEF Return
  <2>5. WorkerTypes' /\ HandsFull'
    BY <1>9, <2>4, BoundsAssumption DEF Return, Goto, TypeInv, TypeOK,
          WorkerTypes, HandsFull, Labels, Busy, Aimed
  <2>6. QED
    BY <1>9, <2>3, <2>5, Untouched DEF Return, TypeInv, TypeOK
<1>10. CASE Decide(q, i)
  <2>1. CASE \E o \in Outcomes : Deliver(q, i, o)
    <3>1. FutureTypes' /\ WorkerTypes' /\ HandsFull'
      BY <2>1, DeliverType
    <3>2. QED
      BY <1>10, <3>1, Untouched DEF Decide, TypeInv, TypeOK
  <2>2. CASE ~ \E o \in Outcomes : Deliver(q, i, o)
    <3>1. /\ Goto(q, i, "displaced")
          /\ UNCHANGED <<holds, fnErr, requeueTo, future>>
      BY <1>10, <2>2 DEF Decide, Outcomes, ResultOf
    <3>2. WorkerTypes' /\ HandsFull'
      BY <1>10, <3>1 DEF Decide, Goto, TypeInv, TypeOK, WorkerTypes, HandsFull,
                         Labels, Busy, Aimed
    <3>3. QED
      BY <1>10, <3>1, <3>2, Untouched DEF Decide, TypeInv, TypeOK
  <2>3. QED
    BY <2>1, <2>2
<1>11. CASE FindQueue(q, i)
  <2> DEFINE to == ctxQueues[Kctx(holds[q][i])]
  <2>1. CASE to = None
    <3>1. FutureTypes' /\ WorkerTypes' /\ HandsFull'
      BY <1>11, <2>1, DeliverType DEF FindQueue, Outcomes
    <3>2. QED
      BY <1>11, <3>1, Untouched DEF FindQueue, TypeInv, TypeOK
  <2>2. CASE to # None
    <3>1. holds[q][i] \in Tasks
      BY <1>11 DEF FindQueue, TypeInv, HandsFull, Busy
    <3>2. to \in Queues
      BY <2>2, <3>1 DEF TypeInv, TypeOK, RegistryTypes
    <3>3. /\ requeueTo' = [requeueTo EXCEPT ![q][i] = to]
          /\ Goto(q, i, "requeueing")
          /\ UNCHANGED <<holds, fnErr, future>>
      BY <1>11, <2>2 DEF FindQueue
    <3> HIDE DEF to
    <3>4. WorkerTypes' /\ HandsFull'
      BY <3>1, <3>2, <3>3 DEF Goto, TypeInv, TypeOK, WorkerTypes, HandsFull,
                              Labels, Busy, Aimed
    <3>5. QED
      BY <1>11, <3>3, <3>4, Untouched DEF FindQueue, TypeInv, TypeOK
  <2>3. QED
    BY <2>1, <2>2
<1>12. CASE Requeue(q, i)
  <2> DEFINE t  == holds[q][i]
             to == requeueTo[q][i]
  <2>1. t \in Tasks /\ to \in Queues
    BY <1>12 DEF Requeue, TypeInv, HandsFull, Busy, Aimed
  <2>2. /\ lanes' = [lanes EXCEPT ![to][Prio(t)] = <<t>> \o @]
        /\ UNCHANGED <<skips, wake>>
    BY <1>12 DEF Requeue
  <2>3. WorkerTypes' /\ HandsFull'
    BY <1>12 DEF Requeue, Goto, TypeInv, TypeOK, WorkerTypes, HandsFull,
                 Labels, Busy, Aimed
  <2> HIDE DEF t, to
  <2>4. QueueTypes'
    <3>1. lanes[to][Prio(t)] \in Seq(Tasks)
      <4>1. lanes[to] \in [Priorities -> Seq(Tasks)]
        BY <2>1 DEF TypeInv, TypeOK, QueueTypes
      <4>2. QED
        BY <2>1, <4>1
    <3>2. <<t>> \o lanes[to][Prio(t)] \in Seq(Tasks)
      BY <2>1, <3>1, ConcatProperties
    <3>3. QED
      BY <2>1, <2>2, <3>2 DEF TypeInv, TypeOK, QueueTypes
  <2>5. QED
    BY <1>12, <2>3, <2>4, Untouched DEF Requeue, TypeInv, TypeOK
<1>13. CASE Signal(q, i)
  <2>1. QueueTypes'
    BY <1>13 DEF Signal, TypeInv, TypeOK, QueueTypes
  <2>2. WorkerTypes' /\ HandsFull'
    BY <1>13 DEF Signal, Signalling, AfterSignal, Goto, TypeInv, TypeOK,
                 WorkerTypes, HandsFull, Labels, Busy, Aimed
  <2>3. QED
    BY <1>13, <2>1, <2>2, Untouched DEF Signal, TypeInv, TypeOK
<1>14. QED
  BY <1>1, <1>2, <1>3, <1>4, <1>5, <1>6, <1>7, <1>8, <1>9, <1>10, <1>11,
     <1>12, <1>13 DEF WorkerStep

\* Starting pools keeps them typed: a spawned worker holds nothing.
LEMMA SpawnType ==
  ASSUME TypeInv, NEW S, Spawn(S), UNCHANGED <<stop, holds, fnErr, requeueTo>>
  PROVE  PoolTypes' /\ WorkerTypes' /\ HandsFull'
<1>1. PoolTypes'
  BY DEF Spawn, TypeInv, TypeOK, PoolTypes
<1>2. WorkerTypes' /\ HandsFull'
  BY DEF Spawn, TypeInv, TypeOK, WorkerTypes, HandsFull, Busy, Aimed, Labels
<1>3. QED
  BY <1>1, <1>2

\* Marking attempts keeps them typed.
LEMMA MarkType ==
  ASSUME TypeInv, NEW a, NEW f \in Flags,
         Mark(a, f) \/ UNCHANGED flags, UNCHANGED <<running, attempts>>
  PROVE  AttemptTypes'
BY DEF Mark, TypeInv, TypeOK, AttemptTypes

\* So do the control calls and their steps.
LEMMA ControlType ==
  ASSUME TypeInv,
         \/ StartWorkers \/ Close \/ StopWorkers \/ OpStep
         \/ \E k \in Contexts : CancelContext(k) \/ CancelStaleByGen(k)
  PROVE  TypeInv'
<1> USE ReqType
<1>1. CASE StartWorkers
  <2>1. RegistryTypes'
    BY <1>1 DEF StartWorkers, TypeInv, TypeOK, RegistryTypes
  <2>2. PoolTypes' /\ WorkerTypes' /\ HandsFull'
    BY <1>1, SpawnType DEF StartWorkers
  <2>3. QED
    BY <1>1, <2>1, <2>2, Untouched DEF StartWorkers, TypeInv, TypeOK
<1>2. CASE Close
  <2>1. RegistryTypes' /\ OpTypes'
    BY <1>2 DEF Close, TypeInv, TypeOK, RegistryTypes, OpTypes
  <2>2. QED
    BY <1>2, <2>1, Untouched DEF Close, TypeInv, TypeOK
<1>3. CASE StopWorkers
  <2>1. RegistryTypes' /\ OpTypes'
    BY <1>3 DEF StopWorkers, Live, TypeInv, TypeOK, RegistryTypes, OpTypes
  <2>2. QED
    BY <1>3, <2>1, Untouched DEF StopWorkers, TypeInv, TypeOK
<1>4. ASSUME NEW k \in Contexts, CancelContext(k) PROVE TypeInv'
  <2>1. running[k] \in Seq(Attempts) /\ << >> \in Seq(Attempts)
    BY DEF TypeInv, TypeOK, AttemptTypes
  <2>2. Range(running[k]) \subseteq Attempts
    BY <2>1, RangeOfSeq
  <2>3. RegistryTypes'
    BY <1>4 DEF CancelContext, TypeInv, TypeOK, RegistryTypes
  <2>4. AttemptTypes'
    BY <1>4, <2>1 DEF CancelContext, TypeInv, TypeOK, AttemptTypes
  <2>5. OpTypes'
    BY <1>4, <2>2 DEF CancelContext, TypeInv, TypeOK, RegistryTypes, OpTypes
  <2>6. QED
    BY <1>4, <2>3, <2>4, <2>5, Untouched DEF CancelContext, TypeInv, TypeOK
<1>5. ASSUME NEW k \in Contexts, CancelStaleByGen(k) PROVE TypeInv'
  <2>1. running[k] \in Seq(Attempts)
    BY DEF TypeInv, TypeOK, AttemptTypes
  <2>2. Range(running[k]) \subseteq Attempts
    BY <2>1, RangeOfSeq
  <2>3. OpTypes'
    BY <1>5, <2>2 DEF CancelStaleByGen, TypeInv, TypeOK, RegistryTypes, OpTypes
  <2>4. QED
    BY <1>5, <2>3, Untouched DEF CancelStaleByGen, TypeInv, TypeOK
<1>6. CASE DetachAll
  <2>1. RegistryTypes' /\ OpTypes'
    BY <1>6 DEF DetachAll, Live, TypeInv, TypeOK, RegistryTypes, OpTypes
  <2>2. QED
    BY <1>6, <2>1, Untouched DEF DetachAll, TypeInv, TypeOK
<1>7. ASSUME NEW q \in Queues, Drain(q) PROVE TypeInv'
  <2>1. \A S : << >> \in Seq(S)
    OBVIOUS
  <2>2. QueueTypes'
    BY <1>7, <2>1 DEF Drain, TypeInv, TypeOK, QueueTypes
  <2>3. PoolTypes' /\ OpTypes'
    BY <1>7 DEF Drain, TypeInv, TypeOK, PoolTypes, OpTypes
  <2>4. FutureTypes'
    BY <1>7, ResolveType DEF Drain, Outcomes
  <2>5. QED
    BY <1>7, <2>2, <2>3, <2>4, Untouched DEF Drain, TypeInv, TypeOK
<1>8. ASSUME NEW q \in Queues, DropStaleByGen(q) PROVE TypeInv'
  <2>1. PICK S : /\ Resolve(S, "superseded")
                 /\ lanes' = [lanes EXCEPT ![q] =
                                [p \in Priorities |-> Without(@[p], S)]]
    BY <1>8 DEF DropStaleByGen
  <2>2. \A p \in Priorities : Without(lanes[q][p], S) \in Seq(Tasks)
    <3>1. lanes[q] \in [Priorities -> Seq(Tasks)]
      BY DEF TypeInv, TypeOK, QueueTypes
    <3>2. QED
      BY <3>1, WithoutProperties
  <2>3. QueueTypes'
    BY <1>8, <2>1, <2>2 DEF DropStaleByGen, TypeInv, TypeOK, QueueTypes
  <2>4. OpTypes' /\ FutureTypes'
    BY <1>8, <2>1, ResolveType DEF DropStaleByGen, TypeInv, TypeOK, OpTypes,
                                   Outcomes
  <2>5. QED
    BY <1>8, <2>3, <2>4, Untouched DEF DropStaleByGen, TypeInv, TypeOK
<1>9. ASSUME NEW q \in Queues, CloseStop(q) PROVE TypeInv'
  <2>1. PoolTypes' /\ OpTypes'
    BY <1>9 DEF CloseStop, TypeInv, TypeOK, PoolTypes, OpTypes
  <2>2. QED
    BY <1>9, <2>1, Untouched DEF CloseStop, TypeInv, TypeOK
<1>10. ASSUME NEW a \in opMarks, MarkSwitched(a) \/ MarkSuperseded(a)
       PROVE  TypeInv'
  <2>1. AttemptTypes'
    BY <1>10, MarkType DEF MarkSwitched, MarkSuperseded, Flags
  <2>2. OpTypes'
    BY <1>10 DEF MarkSwitched, MarkSuperseded, TypeInv, TypeOK, OpTypes
  <2>3. QED
    BY <1>10, <2>1, <2>2, Untouched DEF MarkSwitched, MarkSuperseded, TypeInv,
                                        TypeOK
<1>11. CASE OpReturn
  <2>1. OpTypes'
    BY <1>11 DEF OpReturn, TypeInv, TypeOK, OpTypes
  <2>2. QED
    BY <1>11, <2>1, Untouched DEF OpReturn, TypeInv, TypeOK
<1>12. QED
  BY <1>1, <1>2, <1>3, <1>4, <1>5, <1>6, <1>7, <1>8, <1>9, <1>10, <1>11
  DEF OpStep

\* So does a step that changes nothing.
LEMMA StutterType == ASSUME TypeInv, UNCHANGED vars PROVE TypeInv'
BY Untouched DEF vars, TypeInv, TypeOK

\* The type invariant is inductive: it makes every later step type correct.
LEMMA NextType == ASSUME TypeInv, [Next]_vars PROVE TypeInv'
BY SubmitType, WorkerType, ControlType, StutterType DEF Next

\* The strengthened type invariant of every behaviour.
LEMMA TypeInvariant == Spec => []TypeInv
BY InitType, NextType, PTL DEF Spec

\* Every reachable state is typed, whatever the tasks, the contexts and the
\* settings: in particular the outcomes of a Future are a value, an error or one
\* of the three sentinels of scheduler.go.
THEOREM TypeCorrect == Spec => []TypeOK
<1>1. TypeInv => TypeOK
  BY DEF TypeInv
<1>2. QED
  BY TypeInvariant, <1>1, PTL
-----------------------------------------------------------------------------
(* Aging *)

\* The lane just served starts again from 0, so one of the two counts is 0:
\* both lanes are never starved at once, and serving a starved lane cannot
\* push the other one past the threshold.
AgingInv ==
    AgingThreshold > 0 =>
        \A q \in Queues :
            /\ skips[q][High] = 0 \/ skips[q][Low] = 0
            /\ skips[q][High] <= AgingThreshold
            /\ skips[q][Low] <= AgingThreshold

\* Only a pick by dequeueByPriorityLocked counts, and it keeps the bound.
LEMMA AgedByBounded ==
  ASSUME TypeInv, AgingInv, AgingThreshold > 0, NEW q \in Queues,
         HasPendingWork(q), NEW p, p = ByPriority(q)
  PROVE  LET a == AgedBy(q, p)
         IN  /\ a[High] = 0 \/ a[Low] = 0
             /\ a[High] <= AgingThreshold
             /\ a[Low] <= AgingThreshold
<1>1. /\ skips[q] \in [{High, Low} -> Nat]
      /\ AgingThreshold \in Nat
      /\ skips[q][High] = 0 \/ skips[q][Low] = 0
      /\ skips[q][High] <= AgingThreshold
      /\ skips[q][Low] <= AgingThreshold
  BY ConfigAssumption DEF TypeInv, TypeOK, QueueTypes, AgingInv
<1>2. CASE p = Critical
  BY <1>1, <1>2 DEF AgedBy
<1>3. CASE p = High
  <2>1. lanes[q][Low] # << >> => Starved(q, High) \/ ~Starved(q, Low)
    BY <1>3 DEF ByPriority
  <2>2. QED
    BY <1>1, <1>3, <2>1 DEF AgedBy, Starved
<1>4. CASE p = Low
  <2>1. lanes[q][High] # << >> => ~Starved(q, High) /\ Starved(q, Low)
    BY <1>4 DEF ByPriority
  <2>2. QED
    BY <1>1, <1>4, <2>1 DEF AgedBy, Starved
<1>5. QED
  BY <1>2, <1>3, <1>4 DEF ByPriority

\* A pick of any class keeps the bound.
LEMMA AgingPick ==
  ASSUME TypeInv, AgingInv, NEW q \in Queues, NEW i \in Slots, Pick(q, i)
  PROVE  AgingInv'
<1>1. SUFFICES ASSUME AgingThreshold > 0, NEW r \in Queues
               PROVE  /\ skips'[r][High] = 0 \/ skips'[r][Low] = 0
                      /\ skips'[r][High] <= AgingThreshold
                      /\ skips'[r][Low] <= AgingThreshold
  BY DEF AgingInv
<1> DEFINE p == Choice(q, i)
<1>2. /\ HasPendingWork(q)
      /\ skips' = IF Class(i) = "low" /\ p = Low THEN skips
                  ELSE [skips EXCEPT ![q] = AgedBy(q, p)]
  BY DEF Pick
<1>3. CASE skips' = skips
  BY <1>1, <1>3 DEF AgingInv
<1>4. CASE skips' = [skips EXCEPT ![q] = AgedBy(q, p)] /\ skips' # skips
  <2>1. p = ByPriority(q) \/ p = Critical
    BY <1>2, <1>4 DEF Choice
  <2>2. skips \in [Queues -> [{High, Low} -> Nat]]
    BY DEF TypeInv, TypeOK, QueueTypes
  <2>3. p # Critical
    BY <1>4, <2>2 DEF AgedBy
  <2> HIDE DEF p
  <2>4. /\ AgedBy(q, p)[High] = 0 \/ AgedBy(q, p)[Low] = 0
        /\ AgedBy(q, p)[High] <= AgingThreshold
        /\ AgedBy(q, p)[Low] <= AgingThreshold
    BY <1>1, <1>2, <2>1, <2>3, AgedByBounded
  <2>5. skips'[r] = IF r = q THEN AgedBy(q, p) ELSE skips[r]
    BY <1>4, <2>2
  <2>6. QED
    BY <1>1, <2>4, <2>5 DEF AgingInv
<1>5. QED
  BY <1>2, <1>3, <1>4

\* No other step counts up.
LEMMA AgingNext == ASSUME TypeInv, AgingInv, [Next]_vars PROVE AgingInv'
<1>1. CASE \E q \in Queues, i \in Slots : Pick(q, i)
  BY <1>1, AgingPick
<1>2. CASE UNCHANGED skips
  BY <1>2 DEF AgingInv
<1>3. (\E t \in Tasks : Issue(t) \/ SubmitStep(t)) => UNCHANGED skips
  BY DEF Issue, SubmitStep, Lookup, CheckRunning, Enqueue, EnsurePoolFor,
         ChooseVictim, Preempt, queueVars
<1>4. ASSUME NEW q \in Queues, NEW i \in Slots, WorkerStep(q, i), ~Pick(q, i)
      PROVE  UNCHANGED skips
  BY <1>4 DEF WorkerStep, Exit, Wake, Loop, Miss, Recheck, WakeSibling,
              Signal, Register, Return, Decide, FindQueue, Requeue, queueVars
<1>5. StartWorkers \/ Close \/ StopWorkers \/ DetachAll \/ OpReturn
        => UNCHANGED skips
  BY DEF StartWorkers, Close, StopWorkers, DetachAll, OpReturn, queueVars
<1>6. (\E k \in Contexts : CancelContext(k) \/ CancelStaleByGen(k))
        => UNCHANGED skips
  BY DEF CancelContext, CancelStaleByGen, queueVars
<1>7. ASSUME NEW q \in Queues, Drain(q) \/ DropStaleByGen(q) \/ CloseStop(q)
      PROVE  UNCHANGED skips
  BY <1>7 DEF Drain, DropStaleByGen, CloseStop, queueVars
<1>8. ASSUME NEW a \in opMarks, MarkSwitched(a) \/ MarkSuperseded(a)
      PROVE  UNCHANGED skips
  BY <1>8 DEF MarkSwitched, MarkSuperseded, queueVars
<1>9. UNCHANGED vars => UNCHANGED skips
  BY DEF vars, queueVars
<1>10. QED
  BY <1>1, <1>2, <1>3, <1>4, <1>5, <1>6, <1>7, <1>8, <1>9 DEF Next, OpStep

\* While aging is on, neither the High nor the Low lane of any queue is passed
\* over more than AgingThreshold times in a row (dequeueByPriorityLocked),
\* whatever the reserved workers, coalescing and requeueing do to the lanes.
THEOREM AgingIsBounded == Spec => []AgingBound
<1>1. Init => AgingInv
  BY ConfigAssumption DEF Init, AgingInv
<1>2. TypeInv /\ AgingInv /\ [Next]_vars => AgingInv'
  BY AgingNext
<1>3. AgingInv => AgingBound
  BY DEF AgingInv, AgingBound
<1>4. QED
  BY TypeInvariant, <1>1, <1>2, <1>3, PTL DEF Spec
-----------------------------------------------------------------------------
(* Wakes: the protocol loses no signal. *)

Looking == {"woken", "draining", "missed", "resignalling", "picked",
            "signalling"}

\* Work waits in a queue that still runs.
Waits(q) == HasPendingWork(q) /\ ~stop[q] /\ ~stopAll

\* Worker i of r is about to look at queue q, or to signal it.
Minds(r, i, q) == \/ r = q /\ pc[r][i] \in Looking
                  \/ pc[r][i] = "requeued" /\ requeueTo[r][i] = q

Noticed(q) == wake[q] \/ \E r \in Queues, i \in Slots : Minds(r, i, q)

\* A pool has no worker before it starts, so starting it parks no one who was
\* about to look.
Unspawned == \A q \in Queues : ~poolStarted[q] =>
                 \A i \in Slots : pc[q][i] = "absent"

WakeInv == Unspawned /\ \A q \in Queues : Waits(q) => Noticed(q)

\* A step of worker i of q leaves queue r noticed if it brings r no work,
\* silences no signal, and did not itself mind r.
LEMMA StillNoticed ==
  ASSUME WakeInv, NEW q \in Queues, NEW i \in Slots, NEW r \in Queues,
         Waits(r)' => Waits(r), wake[r] => wake'[r], ~Minds(q, i, r),
         \A v \in Queues, j \in Slots : <<v, j>> # <<q, i>> =>
            pc'[v][j] = pc[v][j] /\ requeueTo'[v][j] = requeueTo[v][j]
  PROVE  Waits(r)' => Noticed(r)'
<1>1. SUFFICES ASSUME Waits(r), ~wake[r] PROVE Noticed(r)'
  BY DEF Noticed
<1>2. PICK v \in Queues, j \in Slots : Minds(v, j, r)
  BY <1>1 DEF Noticed, WakeInv
<1>3. <<v, j>> # <<q, i>>
  BY <1>2
<1>4. QED
  BY <1>2, <1>3 DEF Noticed, Minds

\* Removing tasks from the lanes of q brings it no work.
LEMMA WithoutBringsNone ==
  ASSUME NEW s \in Seq(Tasks), NEW K, Without(s, K) # << >>
  PROVE  s # << >>
<1>1. SUFFICES ASSUME s = << >> PROVE FALSE
  OBVIOUS
<1> DEFINE w == Without(s, K)
<1>2. Len(s) = 0
  BY <1>1
<1>3. Range(s) = {}
  <2>1. Range(s) = {s[i] : i \in 1 .. Len(s)}
    BY RangeEquality
  <2>2. 1 .. Len(s) = {}
    BY <1>2
  <2>3. QED
    BY <2>1, <2>2
<1>4. w \in Seq(Tasks) /\ Range(w) = {} /\ w # << >>
  BY <1>3, WithoutProperties
<1> HIDE DEF w
<1>5. Range(w) = {w[i] : i \in 1 .. Len(w)}
  BY <1>4, RangeEquality
<1>6. Len(w) \in Nat \ {0}
  BY <1>4, EmptySeq
<1>7. w[1] \in Range(w)
  BY <1>5, <1>6
<1>8. QED
  BY <1>4, <1>7

\* A step that leaves the workers of every queue alone, or parks those of a
\* pool that had none, and brings no work.
LEMMA QuietStep ==
  ASSUME WakeInv, UNCHANGED <<wake, requeueTo>>,
         \A q \in Queues : Waits(q)' => Waits(q),
         \A q \in Queues, i \in Slots : \/ pc'[q][i] = pc[q][i]
                                       \/ pc[q][i] = "absent"
  PROVE  \A q \in Queues : Waits(q)' => Noticed(q)'
<1>1. SUFFICES ASSUME NEW q \in Queues, Waits(q), ~wake[q] PROVE Noticed(q)'
  BY DEF Noticed
<1>2. PICK v \in Queues, j \in Slots : Minds(v, j, q)
  BY <1>1 DEF WakeInv, Noticed
<1>3. pc'[v][j] = pc[v][j]
  BY <1>2 DEF Minds, Looking
<1>4. QED
  BY <1>2, <1>3 DEF Noticed, Minds

\* Starting pools is such a step.
LEMMA SpawnWakes ==
  ASSUME TypeInv, WakeInv, NEW S, Spawn(S),
         UNCHANGED <<lanes, wake, stop, stopAll, requeueTo>>
  PROVE  WakeInv'
<1>1. \A q \in Queues : Waits(q)' => Waits(q)
  BY DEF Waits, HasPendingWork
<1>2. \A q \in Queues : \/ pc'[q] = pc[q] /\ poolStarted'[q] = poolStarted[q]
                        \/ ~poolStarted[q] /\ poolStarted'[q]
  BY DEF Spawn, TypeInv, TypeOK, PoolTypes
<1>3. \A q \in Queues, i \in Slots : \/ pc'[q][i] = pc[q][i]
                                    \/ pc[q][i] = "absent"
  BY <1>2 DEF WakeInv, Unspawned
<1>4. Unspawned'
  BY <1>2 DEF WakeInv, Unspawned
<1>5. QED
  BY <1>1, <1>3, <1>4, QuietStep DEF WakeInv

\* So is every step that leaves lanes, wakes, stops and workers alone.
LEMMA IdleWakes ==
  ASSUME WakeInv,
         UNCHANGED <<lanes, wake, stop, stopAll, pc, poolStarted, requeueTo>>
  PROVE  WakeInv'
BY DEF WakeInv, Unspawned, Waits, HasPendingWork, Noticed, Minds

\* Submit brings work and its wake, or leaves the queue alone.
LEMMA SubmitWakes ==
  ASSUME TypeInv, WakeInv, NEW t \in Tasks, Issue(t) \/ SubmitStep(t)
  PROVE  WakeInv'
<1>1. CASE Enqueue(t)
  <2>1. PICK q \in Queues : q = qOf[t]
    BY <1>1 DEF Enqueue, TypeInv, QueueFound
  <2>2. UNCHANGED <<pc, requeueTo, poolStarted, stop, stopAll>>
    BY <1>1 DEF Enqueue, workerVars, poolVars, registryVars
  <2>3. CASE UNCHANGED <<lanes, wake>>
    BY <2>2, <2>3, IdleWakes
  <2>4. CASE wake' = [wake EXCEPT ![q] = TRUE]
             /\ \E f : lanes' = [lanes EXCEPT ![q] = f]
    <3>1. Noticed(q)'
      BY <2>1, <2>4 DEF Noticed, TypeInv, TypeOK, QueueTypes
    <3>2. \A r \in Queues : r # q => lanes'[r] = lanes[r] /\ wake'[r] = wake[r]
      BY <2>4 DEF TypeInv, TypeOK, QueueTypes
    <3>3. QED
      BY <2>2, <3>1, <3>2 DEF WakeInv, Unspawned, Waits, HasPendingWork,
                              Noticed, Minds
  <2>5. QED
    BY <1>1, <2>1, <2>3, <2>4 DEF Enqueue
<1>2. CASE EnsurePoolFor(t)
  BY <1>2, SpawnWakes DEF EnsurePoolFor, queueVars, registryVars
<1>3. CASE ~Enqueue(t) /\ ~EnsurePoolFor(t)
  <2>1. UNCHANGED <<lanes, wake, stop, stopAll, pc, poolStarted, requeueTo>>
    BY <1>3 DEF Issue, SubmitStep, Lookup, CheckRunning, ChooseVictim, Preempt,
                queueVars, registryVars, poolVars, workerVars
  <2>2. QED
    BY <2>1, IdleWakes
<1>4. QED
  BY <1>1, <1>2, <1>3

\* A worker that takes, returns or leaves work keeps it noticed.
LEMMA WorkerWakes ==
  ASSUME TypeInv, WakeInv, NEW q \in Queues, NEW i \in Slots, WorkerStep(q, i)
  PROVE  WakeInv'
<1>1. UNCHANGED <<stop, stopAll, poolStarted>>
  BY DEF WorkerStep, Exit, Wake, Loop, Pick, Miss, Recheck, WakeSibling,
         Signal, Register, Return, Decide, FindQueue, Requeue, poolVars,
         registryVars
<1>2. PICK l : Goto(q, i, l)
  BY DEF WorkerStep, Exit, Wake, Loop, Pick, Miss, Recheck, WakeSibling,
         Signal, Register, Return, Decide, FindQueue, Deliver, Requeue
<1>3. pc[q][i] # "absent"
  BY DEF WorkerStep, Exit, Wake, Loop, Pick, Miss, Recheck, WakeSibling,
         Signal, Signalling, Register, Return, Decide, FindQueue, Requeue
<1>4. requeueTo' = requeueTo \/ \E x : requeueTo' = [requeueTo EXCEPT ![q][i] = x]
  BY DEF WorkerStep, Exit, Wake, Loop, Pick, Miss, Recheck, WakeSibling,
         Signal, Register, Return, Decide, FindQueue, Deliver, Requeue
<1>5. \A v \in Queues, j \in Slots : <<v, j>> # <<q, i>> =>
         pc'[v][j] = pc[v][j] /\ requeueTo'[v][j] = requeueTo[v][j]
  BY <1>2, <1>4 DEF Goto, TypeInv, TypeOK, WorkerTypes
<1>6. pc'[q][i] = l
  BY <1>2 DEF Goto, TypeInv, TypeOK, WorkerTypes
<1>7. Unspawned'
  BY <1>1, <1>3, <1>5 DEF WakeInv, Unspawned
<1>8. SUFFICES ASSUME NEW r \in Queues PROVE Waits(r)' => Noticed(r)'
  BY <1>7 DEF WakeInv
<1>9. CASE Signal(q, i)
  <2> DEFINE to == IF pc[q][i] = "requeued" THEN requeueTo[q][i] ELSE q
  <2>1. to \in Queues
    BY <1>9 DEF Signal, TypeInv, HandsFull, Aimed
  <2>2. wake' = [wake EXCEPT ![to] = TRUE] /\ lanes' = lanes
    BY <1>9 DEF Signal
  <2>3. ~Minds(q, i, r) \/ r = to
    BY <1>9 DEF Signal, Signalling, Minds, Looking
  <2> HIDE DEF to
  <2>4. wake'[to] /\ (wake[r] => wake'[r])
    BY <2>1, <2>2 DEF TypeInv, TypeOK, QueueTypes
  <2>5. Waits(r)' => Waits(r)
    BY <1>1, <2>2 DEF Waits, HasPendingWork
  <2>6. QED
    BY <1>5, <2>3, <2>4, <2>5, StillNoticed DEF Noticed
<1>10. CASE Requeue(q, i)
  <2>0. PICK to \in Queues : to = requeueTo[q][i]
    BY <1>10 DEF Requeue, TypeInv, HandsFull, Aimed
  <2>1. /\ requeueTo' = requeueTo /\ wake' = wake
        /\ pc[q][i] = "requeueing" /\ Goto(q, i, "requeued")
    BY <1>10 DEF Requeue
  <2>2. Noticed(to)'
    BY <2>0, <2>1 DEF Noticed, Minds, Goto, TypeInv, TypeOK, WorkerTypes
  <2>3. r # to => lanes'[r] = lanes[r]
    BY <1>10, <2>0 DEF Requeue, TypeInv, TypeOK, QueueTypes
  <2>4. r # to => (Waits(r)' => Waits(r))
    BY <1>1, <2>3 DEF Waits, HasPendingWork
  <2>5. ~Minds(q, i, r)
    BY <2>1 DEF Minds, Looking
  <2>6. QED
    BY <1>5, <2>1, <2>2, <2>4, <2>5, StillNoticed
<1>11. CASE ~Signal(q, i) /\ ~Requeue(q, i) /\ r # q
  <2>1. lanes'[r] = lanes[r] /\ wake'[r] = wake[r]
    BY <1>11 DEF WorkerStep, Exit, Wake, Loop, Pick, Miss, Recheck, WakeSibling,
         Register, Return, Decide, FindQueue, queueVars, TypeInv, TypeOK,
         QueueTypes
  <2>2. pc[q][i] # "requeued"
    BY <1>11 DEF WorkerStep, Exit, Wake, Loop, Pick, Miss, Recheck, WakeSibling,
         Register, Return, Decide, FindQueue
  <2>3. Waits(r)' => Waits(r)
    BY <1>1, <2>1 DEF Waits, HasPendingWork
  <2>4. QED
    BY <1>5, <1>11, <2>1, <2>2, <2>3, StillNoticed DEF Minds
<1>12. CASE Exit(q, i) /\ r = q
  BY <1>1, <1>12 DEF Exit, Waits
<1>13. CASE (Wake(q, i) \/ Loop(q, i) \/ Pick(q, i)) /\ r = q
  <2>1. l \in Looking
    BY <1>2, <1>6, <1>13 DEF Wake, Loop, Pick, Goto, Looking, TypeInv, TypeOK,
                             WorkerTypes
  <2>2. QED
    BY <1>6, <1>13, <2>1 DEF Noticed, Minds
<1>14. CASE (Miss(q, i) \/ Recheck(q, i) \/ WakeSibling(q, i)) /\ r = q
  <2>1. HasPendingWork(q) => l \in Looking
    BY <1>6, <1>14 DEF Miss, Recheck, WakeSibling, Goto, Looking, TypeInv,
                       TypeOK, WorkerTypes
  <2>2. HasPendingWork(q)' => HasPendingWork(q)
    BY <1>14 DEF Miss, Recheck, WakeSibling, HasPendingWork, queueVars
  <2>3. QED
    BY <1>6, <1>14, <2>1, <2>2 DEF Noticed, Minds, Waits
<1>15. CASE /\ Register(q, i) \/ Return(q, i) \/ Decide(q, i) \/ FindQueue(q, i)
            /\ r = q
  <2>1. lanes' = lanes /\ wake' = wake
    BY <1>15 DEF Register, Return, Decide, FindQueue, queueVars
  <2>2. ~Minds(q, i, r)
    BY <1>15 DEF Register, Return, Decide, FindQueue, Minds, Looking
  <2>3. Waits(r)' => Waits(r)
    BY <1>1, <2>1 DEF Waits, HasPendingWork
  <2>4. QED
    BY <1>5, <2>1, <2>2, <2>3, StillNoticed
<1>16. QED
  BY <1>9, <1>10, <1>11, <1>12, <1>13, <1>14, <1>15 DEF WorkerStep

\* So do the control calls.
LEMMA ControlWakes ==
  ASSUME TypeInv, WakeInv,
         \/ StartWorkers \/ Close \/ StopWorkers \/ OpStep
         \/ \E k \in Contexts : CancelContext(k) \/ CancelStaleByGen(k)
  PROVE  WakeInv'
<1>1. CASE StartWorkers
  BY <1>1, SpawnWakes DEF StartWorkers, queueVars
<1>2. CASE Close
  BY <1>2 DEF Close, WakeInv, Unspawned, Waits, poolVars, workerVars
<1>3. ASSUME NEW q \in Queues, Drain(q) PROVE WakeInv'
  <2>1. /\ lanes' = [lanes EXCEPT ![q] = [p \in Priorities |-> << >>]]
        /\ stop' = [stop EXCEPT ![q] = TRUE]
        /\ UNCHANGED <<wake, pc, requeueTo, poolStarted, stopAll>>
    BY <1>3 DEF Drain, workerVars, registryVars
  <2>2. \A r \in Queues : Waits(r)' => Waits(r)
    BY <2>1 DEF Waits, HasPendingWork, TypeInv, TypeOK, QueueTypes, PoolTypes
  <2>3. QED
    BY <2>1, <2>2, QuietStep DEF WakeInv, Unspawned
<1>4. ASSUME NEW q \in Queues, DropStaleByGen(q) PROVE WakeInv'
  <2>1. PICK S : lanes' = [lanes EXCEPT ![q] =
                             [p \in Priorities |-> Without(@[p], S)]]
    BY <1>4 DEF DropStaleByGen
  <2>2. UNCHANGED <<wake, pc, requeueTo, poolStarted, stop, stopAll>>
    BY <1>4 DEF DropStaleByGen, workerVars, poolVars, registryVars
  <2>3. \A r \in Queues : HasPendingWork(r)' => HasPendingWork(r)
    <3>1. \A p \in Priorities : lanes[q][p] \in Seq(Tasks)
      <4>1. lanes[q] \in [Priorities -> Seq(Tasks)]
        BY DEF TypeInv, TypeOK, QueueTypes
      <4>2. QED
        BY <4>1
    <3>2. \A p \in Priorities :
             Without(lanes[q][p], S) # << >> => lanes[q][p] # << >>
      BY <3>1, WithoutBringsNone
    <3>3. \A r \in Queues, p \in Priorities :
             lanes'[r][p] = IF r = q THEN Without(lanes[q][p], S) ELSE lanes[r][p]
      BY <2>1 DEF TypeInv, TypeOK, QueueTypes
    <3>4. QED
      BY <3>2, <3>3 DEF HasPendingWork
  <2>4. QED
    BY <2>2, <2>3, QuietStep DEF WakeInv, Unspawned, Waits
<1>5. ASSUME NEW q \in Queues, CloseStop(q) PROVE WakeInv'
  <2>1. /\ stop' = [stop EXCEPT ![q] = TRUE]
        /\ UNCHANGED <<lanes, wake, pc, requeueTo, poolStarted, stopAll>>
    BY <1>5 DEF CloseStop, queueVars, workerVars, registryVars
  <2>2. \A r \in Queues : Waits(r)' => Waits(r)
    BY <2>1 DEF Waits, HasPendingWork, TypeInv, TypeOK, PoolTypes
  <2>3. QED
    BY <2>1, <2>2, QuietStep DEF WakeInv, Unspawned
<1>6. CASE \/ StopWorkers \/ DetachAll \/ OpReturn
           \/ \E a \in opMarks : MarkSwitched(a) \/ MarkSuperseded(a)
           \/ \E k \in Contexts : CancelContext(k) \/ CancelStaleByGen(k)
  <2>1. UNCHANGED <<lanes, wake, stop, stopAll, pc, poolStarted, requeueTo>>
    BY <1>6 DEF StopWorkers, DetachAll, OpReturn, MarkSwitched, MarkSuperseded,
                CancelContext, CancelStaleByGen, queueVars, poolVars,
                workerVars, registryVars
  <2>2. QED
    BY <2>1, IdleWakes
<1>7. QED
  BY <1>1, <1>2, <1>3, <1>4, <1>5, <1>6 DEF OpStep

LEMMA WakeInvariant == Spec => []WakeInv
<1>1. Init => WakeInv
  BY DEF Init, WakeInv, Unspawned, Waits, HasPendingWork
<1>2. TypeInv /\ WakeInv /\ [Next]_vars => WakeInv'
  <2>1. WakeInv /\ UNCHANGED vars => WakeInv'
    BY IdleWakes DEF vars, queueVars, poolVars, workerVars, registryVars
  <2>2. QED
    BY <2>1, SubmitWakes, WorkerWakes, ControlWakes DEF Next
<1>3. QED
  BY TypeInvariant, <1>1, <1>2, PTL DEF Spec

\* Whatever the workers of a queue do, work waiting in it has a wake in the
\* channel or a worker about to look or to signal (workerLoop, wakeSibling,
\* Submit, runTask): the "lost-wakeup jam" of workerLoop's comment cannot occur.
THEOREM NoWakeupIsLost == Spec => []NoLostWakeup
<1>1. WakeInv => NoLostWakeup
  BY DEF WakeInv, NoLostWakeup, Waits, Noticed, Minds, Looking
<1>2. QED
  BY WakeInvariant, <1>1, PTL
=============================================================================
