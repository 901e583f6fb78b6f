----------------------------- MODULE Scheduler -----------------------------
(***************************************************************************)
(* The request scheduler of lfk (src/internal/app/scheduler): every call   *)
(* to a Kubernetes API server goes through Registry.Submit, waits in one   *)
(* of three priority lanes of its cluster context's queue, is run by a     *)
(* worker of that queue's pool and is answered through a Future.           *)
(*                                                                         *)
(* Grain of atomicity.  A step is one critical section (of r.mu or of      *)
(* q.mu), one channel operation or one atomic flag, so that two calls      *)
(* interleave wherever the code lets go of a lock.  Goroutines:            *)
(*   - callers: one per Submit in progress (call[t]), and one control call *)
(*     (StartWorkers, CancelContext, CancelStaleByGen, Close, StopWorkers) *)
(*     at a time (op).  MaxCallers bounds how many are inside the Registry *)
(*     at once: 1 is the program (all of them run on the Update goroutine),*)
(*     2 is the concurrent use the Registry's own comment promises;        *)
(*   - workers: pc[q][i] is worker i of the pool of queue q.               *)
(*                                                                         *)
(* A task is one call of Submit: t names its request, its Future and its   *)
(* queuedTask.  A queue is named by the task whose Submit created it.      *)
(* One attempt to run a task is a runningTask of the code; <<t, n>> is the *)
(* n-th attempt of t, and flags[t] are the atomic flags of t's latest one. *)
(* Times are abstracted: a Fn may return at any step.                      *)
(*                                                                         *)
(* A definition X_y is X with the mistake y: the property named beside it  *)
(* in PROJECT.json fails when X is replaced by X_y.                        *)
(***************************************************************************)
EXTENDS Integers, Sequences, FiniteSets, Functions, Lanes

CONSTANTS
    Tasks,            \* the submissions of a behaviour
    Contexts,         \* kube contexts
    Req,              \* the request of each task, see Requests
    None,             \* nil
    Workers,          \* cfg.WorkersPerContext
    CriticalReserved, \* cfg.CriticalReserved
    LowReserved,      \* cfg.LowReserved
    AgingThreshold,   \* cfg.AgingThreshold, 0 disables aging
    FnErrors,         \* the errors a Fn returns, besides nil; the application
                      \* wraps its loaders to return none
    MaxCallers,       \* BOUND: goroutines inside the Registry at once
    MaxGen,           \* BOUND: highest requestGen
    MaxDrops,         \* BOUND: calls of CancelContext
    Shutdowns         \* which of "close" and "stop" the application calls

Critical == 0
High     == 1
Low      == 2
Priorities == {Critical, High, Low}

Requests == [kctx : Contexts, kind : {"mutation", "dashboard", "read"},
             prio : Priorities, name : {"a", "b"}]

ASSUME RequestsAssumption == Req \in [Tasks -> Requests]
ASSUME NoneAssumption     == None \notin Tasks
\* FromGlobals passes every setting through its Clamp function.
ASSUME ConfigAssumption ==
    /\ Workers \in Nat \ {0}
    /\ CriticalReserved \in 0 .. Workers
    /\ LowReserved \in 0 .. Workers
    /\ 2 * CriticalReserved <= Workers
    /\ LowReserved = 0 \/ LowReserved <= Workers - CriticalReserved - 1
    /\ AgingThreshold \in Nat
ASSUME BoundsAssumption ==
    /\ FnErrors \subseteq {"canceled", "failed"}
    /\ MaxCallers \in Nat /\ MaxGen \in Nat /\ MaxDrops \in Nat
    /\ Shutdowns \subseteq {"close", "stop"}

VARIABLES
    \* Registry
    ctxQueues,  \* kube context -> its queue, or None
    closed,     \* ctxQueues = nil: Close has run
    stopAll,    \* the channel stopAll is closed
    started,    \* StartWorkers has run, StopWorkers has not
    running,    \* kube context -> the attempts in runningTasks, oldest first
    \* ctxQueue, for each queue
    lanes,      \* priority -> the queued tasks, head first
    skips,      \* priority -> how often the lane was passed over
    wake,       \* the size-1 channel wake is full
    stop,       \* the channel stop is closed
    poolStarted,
    \* workers, for each queue and index
    pc, holds, fnErr, requeueTo,
    \* tasks and their Submit
    call, qOf, gen, future, attempts, flags, victim,
    \* the control call in progress, and the application's requestGen
    op, opQueues, opMarks, requestGen, drops

registryVars == <<ctxQueues, closed, stopAll, started>>
queueVars    == <<lanes, skips, wake>>
poolVars     == <<stop, poolStarted>>
workerVars   == <<pc, holds, fnErr, requeueTo>>
submitVars   == <<call, qOf, gen, victim>>
attemptVars  == <<running, attempts, flags>>
opVars       == <<op, opQueues, opMarks, requestGen, drops>>
vars == <<registryVars, queueVars, poolVars, workerVars, submitVars,
          attemptVars, future, opVars>>

Queues    == Tasks
Slots     == 1 .. Workers
Attempts  == Tasks \X Nat
Pending   == "pending"
\* What a Future may receive: a Result with a value or an error of Fn, or one
\* of ErrCoalesced, ErrContextSwitched and ErrSuperseded.
Outcomes  == {"value", "error", "coalesced", "switched", "superseded"}
-----------------------------------------------------------------------------
(* Requests and lanes *)

Prio(t) == Req[t].prio
Kctx(t) == Req[t].kctx

NeverCoalesce(t) == Req[t].kind = "mutation"

CoalescesWith(t, u) ==
    /\ Req[t].kind = Req[u].kind
    /\ Kctx(t) = Kctx(u)
    /\ Req[t].name = Req[u].name
    /\ Req[t].kind = "dashboard" \/ gen[t] = gen[u]

StaleByGen_anyPriority(t, keepGen) ==
    Req[t].kind # "mutation" /\ gen[t] # 0 /\ gen[t] < keepGen
StaleByGen(t, keepGen) ==
    /\ Prio(t) = Low
    /\ Req[t].kind # "mutation"
    /\ gen[t] # 0
    /\ gen[t] < keepGen

Queued(q)         == UNION {Range(lanes[q][p]) : p \in Priorities}
HasPendingWork(q) == \E p \in Priorities : lanes[q][p] # << >>

\* Deliver o to the Future of every task of S and close it.
Resolve(S, o) == future' = [t \in Tasks |-> IF t \in S THEN o ELSE future[t]]

Class(i) == IF i <= CriticalReserved THEN "critical"
            ELSE IF i <= CriticalReserved + LowReserved THEN "low"
            ELSE "general"

Starved_oneLate(q, p) == AgingThreshold > 0 /\ skips[q][p] > AgingThreshold
Starved(q, p) == AgingThreshold > 0 /\ skips[q][p] >= AgingThreshold

\* The lane dequeueByPriorityLocked serves.
ByPriority(q) ==
    LET full == {p \in Priorities : lanes[q][p] # << >>}
    IN  IF Critical \in full THEN Critical
        ELSE IF High \in full /\ (Low \notin full \/ Starved(q, High)
                                   \/ ~Starved(q, Low))
             THEN High ELSE Low

\* The lane worker i of q serves, whatever is queued.
Choice(q, i) ==
    IF Class(i) = "critical" /\ lanes[q][Critical] # << >> THEN Critical
    ELSE IF Class(i) = "low" /\ lanes[q][Low] # << >> THEN Low
    ELSE ByPriority(q)

\* The skip counts after the lane p was served by dequeueByPriorityLocked.
AgedBy(q, p) ==
    IF p = Critical \/ AgingThreshold = 0 THEN skips[q]
    ELSE [r \in {High, Low} |->
            IF r = p THEN 0
            ELSE IF lanes[q][r] # << >> THEN skips[q][r] + 1
            ELSE skips[q][r]]
-----------------------------------------------------------------------------
Init ==
    /\ ctxQueues = [k \in Contexts |-> None]
    /\ closed = FALSE /\ stopAll = FALSE /\ started = FALSE
    /\ running = [k \in Contexts |-> << >>]
    /\ lanes = [q \in Queues |-> [p \in Priorities |-> << >>]]
    /\ skips = [q \in Queues |-> [p \in {High, Low} |-> 0]]
    /\ wake = [q \in Queues |-> FALSE]
    /\ stop = [q \in Queues |-> FALSE]
    /\ poolStarted = [q \in Queues |-> FALSE]
    /\ pc = [q \in Queues |-> [i \in Slots |-> "absent"]]
    /\ holds = [q \in Queues |-> [i \in Slots |-> None]]
    /\ fnErr = [q \in Queues |-> [i \in Slots |-> "nil"]]
    /\ requeueTo = [q \in Queues |-> [i \in Slots |-> None]]
    /\ call = [t \in Tasks |-> "unborn"]
    /\ qOf = [t \in Tasks |-> None]
    /\ gen = [t \in Tasks |-> 0]
    /\ future = [t \in Tasks |-> Pending]
    /\ attempts = [t \in Tasks |-> 0]
    /\ flags = [t \in Tasks |-> {}]
    /\ victim = [t \in Tasks |-> << >>]
    /\ op = "none" /\ opQueues = {} /\ opMarks = {}
    /\ requestGen = 0 /\ drops = 0
-----------------------------------------------------------------------------
(* Submit(req), a critical section at a time *)

Submitting == {t \in Tasks : call[t] \notin {"unborn", "done"}}
InCalls    == Cardinality(Submitting) + (IF op = "none" THEN 0 ELSE 1)

\* The caller fills in the request: Gen is the requestGen of this moment.
Issue(t) ==
    /\ call[t] = "unborn"
    /\ InCalls < MaxCallers /\ op # "halted"
    /\ call' = [call EXCEPT ![t] = "issued"]
    /\ gen' = [gen EXCEPT ![t] = requestGen]
    /\ UNCHANGED <<registryVars, queueVars, poolVars, workerVars, qOf, victim,
                   attemptVars, future, opVars>>

\* r.mu: a closed Registry answers at once; otherwise find or create q.
Lookup(t) ==
    /\ call[t] = "issued"
    /\ \/ /\ closed
          /\ call' = [call EXCEPT ![t] = "done"]
          /\ Resolve({t}, "switched")
          /\ UNCHANGED <<ctxQueues, qOf>>
       \/ /\ ~closed
          /\ LET q == IF ctxQueues[Kctx(t)] = None THEN t
                      ELSE ctxQueues[Kctx(t)]
             IN  /\ ctxQueues' = [ctxQueues EXCEPT ![Kctx(t)] = q]
                 /\ qOf' = [qOf EXCEPT ![t] = q]
          /\ call' = [call EXCEPT ![t] = IF NeverCoalesce(t) THEN "checked"
                                         ELSE "looked"]
          /\ UNCHANGED future
    /\ UNCHANGED <<closed, stopAll, started, queueVars, poolVars, workerVars,
                   gen, victim, attemptVars, opVars>>

\* An attempt in flight that is not being torn down absorbs t.
CoalescesWithRunning_tornDown(t) ==
    \E a \in Range(running[Kctx(t)]) : CoalescesWith(t, a[1])
CoalescesWithRunning(t) ==
    \E a \in Range(running[Kctx(t)]) :
        flags[a[1]] = {} /\ CoalescesWith(t, a[1])

CheckRunning(t) ==
    /\ call[t] = "looked"
    /\ IF CoalescesWithRunning(t)
       THEN /\ Resolve({t}, "coalesced")
            /\ call' = [call EXCEPT ![t] = "done"]
       ELSE /\ call' = [call EXCEPT ![t] = "checked"]
            /\ UNCHANGED future
    /\ UNCHANGED <<registryVars, queueVars, poolVars, workerVars, qOf, gen,
                   victim, attemptVars, opVars>>

\* The queued tasks, of whatever lane, that the submission t displaces.
QueuedTwins_ownLane(t, q) ==
    {u \in Range(lanes[q][Prio(t)]) : ~NeverCoalesce(t) /\ CoalescesWith(t, u)}
QueuedTwins(t, q) ==
    {u \in Queued(q) : ~NeverCoalesce(t) /\ CoalescesWith(t, u)}

\* q.mu: a stopped queue refuses t; otherwise displace t's queued twins, seat
\* t in its lane and signal wake.
Enqueue(t) ==
    /\ call[t] = "checked"
    /\ LET q     == qOf[t]
           twins == QueuedTwins(t, q)
       IN  \/ /\ stop[q]
              /\ Resolve({t}, "switched")
              /\ call' = [call EXCEPT ![t] = "done"]
              /\ UNCHANGED <<lanes, wake>>
           \/ /\ ~stop[q]
              /\ Resolve(twins, "coalesced")
              /\ lanes' = [lanes EXCEPT ![q] =
                   [p \in Priorities |->
                      IF p = Prio(t) THEN Seat(lanes[q][p], twins, t)
                      ELSE Without(lanes[q][p], twins)]]
              /\ wake' = [wake EXCEPT ![q] = TRUE]
              /\ call' = [call EXCEPT ![t] = "queued"]
    /\ UNCHANGED <<registryVars, skips, poolVars, workerVars, qOf, gen, victim,
                   attemptVars, opVars>>

\* The workers of the queues of S, parked, once their pools have started.
Spawn(S) ==
    LET new == {q \in S : ~poolStarted[q]}
    IN  /\ poolStarted' = [q \in Queues |-> poolStarted[q] \/ q \in new]
        /\ pc' = [q \in Queues |->
                    IF q \in new THEN [i \in Slots |-> "parked"] ELSE pc[q]]

EnsurePoolFor(t) ==
    /\ call[t] = "queued"
    /\ call' = [call EXCEPT ![t] = "pooled"]
    /\ Spawn(IF started THEN {qOf[t]} ELSE {})
    /\ UNCHANGED <<registryVars, queueVars, stop, holds, fnErr, requeueTo, qOf,
                   gen, victim, attemptVars, future, opVars>>

\* pokePreempt, under r.mu: the first of the worst-priority attempts that are
\* strictly worse than t and neither preempted nor superseded yet.
Victims_anyPriority(t) ==
    {a \in Range(running[Kctx(t)]) :
        flags[a[1]] \cap {"preempted", "superseded"} = {}}
Victims(t) ==
    LET list == running[Kctx(t)]
        Ok(i) == /\ flags[list[i][1]] \cap {"preempted", "superseded"} = {}
                 /\ Prio(list[i][1]) > Prio(t)
    IN  {list[i] : i \in
           {j \in 1 .. Len(list) :
              /\ Ok(j)
              /\ \A h \in 1 .. Len(list) :
                   Ok(h) => \/ Prio(list[h][1]) < Prio(list[j][1])
                            \/ Prio(list[h][1]) = Prio(list[j][1]) /\ j <= h}}

ChooseVictim(t) ==
    /\ call[t] = "pooled"
    /\ \/ /\ Victims(t) = {}
          /\ call' = [call EXCEPT ![t] = "done"]
          /\ UNCHANGED victim
       \/ \E a \in Victims(t) :
            /\ victim' = [victim EXCEPT ![t] = a]
            /\ call' = [call EXCEPT ![t] = "poking"]
    /\ UNCHANGED <<registryVars, queueVars, poolVars, workerVars, qOf, gen,
                   attemptVars, future, opVars>>

\* Set flag f on attempt a: nobody reads it once a is no longer the latest.
Mark(a, f) ==
    flags' = IF a[2] = attempts[a[1]]
             THEN [flags EXCEPT ![a[1]] = @ \cup {f}] ELSE flags

\* After r.mu is released: victim.preempted.Store(true); victim.cancel().
Preempt(t) ==
    /\ call[t] = "poking"
    /\ Mark(victim[t], "preempted")
    /\ call' = [call EXCEPT ![t] = "done"]
    /\ victim' = [victim EXCEPT ![t] = << >>]
    /\ UNCHANGED <<registryVars, queueVars, poolVars, workerVars, qOf, gen,
                   running, attempts, future, opVars>>

SubmitStep(t) == \/ Lookup(t) \/ CheckRunning(t) \/ Enqueue(t)
                 \/ EnsurePoolFor(t) \/ ChooseVictim(t) \/ Preempt(t)
-----------------------------------------------------------------------------
(* workerLoop, pickTask and runTask: worker i of the pool of q *)

Goto(q, i, label) == pc' = [pc EXCEPT ![q][i] = label]

\* <-stopAll or <-q.stop: the select of a parked worker, or shutdownPending.
Exit_onlyStopAll(q, i) ==
    /\ pc[q][i] \in {"parked", "looping"}
    /\ stopAll
    /\ Goto(q, i, "exited")
    /\ UNCHANGED <<registryVars, queueVars, poolVars, holds, fnErr, requeueTo,
                   submitVars, attemptVars, future, opVars>>
Exit(q, i) ==
    /\ pc[q][i] \in {"parked", "looping"}
    /\ stopAll \/ stop[q]
    /\ Goto(q, i, "exited")
    /\ UNCHANGED <<registryVars, queueVars, poolVars, holds, fnErr, requeueTo,
                   submitVars, attemptVars, future, opVars>>

\* <-q.wake, and shutdownPending found nothing.
Wake(q, i) ==
    /\ pc[q][i] = "parked" /\ wake[q]
    /\ ~stopAll /\ ~stop[q]
    /\ wake' = [wake EXCEPT ![q] = FALSE]
    /\ Goto(q, i, "woken")
    /\ UNCHANGED <<registryVars, lanes, skips, poolVars, holds, fnErr,
                   requeueTo, submitVars, attemptVars, future, opVars>>

\* The head of the inner loop: shutdownPending found nothing.
Loop(q, i) ==
    /\ pc[q][i] = "looping"
    /\ ~stopAll /\ ~stop[q]
    /\ Goto(q, i, "draining")
    /\ UNCHANGED <<registryVars, queueVars, poolVars, holds, fnErr, requeueTo,
                   submitVars, attemptVars, future, opVars>>

\* pickTask, under q.mu, found a task.
Pick(q, i) ==
    /\ pc[q][i] \in {"woken", "draining"}
    /\ HasPendingWork(q)
    /\ LET p == Choice(q, i)
       IN  /\ holds' = [holds EXCEPT ![q][i] = Head(lanes[q][p])]
           /\ lanes' = [lanes EXCEPT ![q][p] = Tail(@)]
           /\ skips' = IF Class(i) = "low" /\ p = Low THEN skips
                       ELSE [skips EXCEPT ![q] = AgedBy(q, p)]
    /\ Goto(q, i, "picked")
    /\ UNCHANGED <<registryVars, wake, poolVars, fnErr, requeueTo, submitVars,
                   attemptVars, future, opVars>>

\* pickTask found nothing: after a wake look again, else go back to the select.
Miss(q, i) ==
    /\ pc[q][i] \in {"woken", "draining"}
    /\ ~HasPendingWork(q)
    /\ Goto(q, i, IF pc[q][i] = "woken" THEN "missed" ELSE "parked")
    /\ UNCHANGED <<registryVars, queueVars, poolVars, holds, fnErr, requeueTo,
                   submitVars, attemptVars, future, opVars>>

\* hasPendingWork under q.mu, then a non-blocking send on q.wake if it says so.
Recheck(q, i) ==
    /\ pc[q][i] = "missed"
    /\ Goto(q, i, IF HasPendingWork(q) THEN "resignalling" ELSE "parked")
    /\ UNCHANGED <<registryVars, queueVars, poolVars, holds, fnErr, requeueTo,
                   submitVars, attemptVars, future, opVars>>

WakeSibling_silent(q, i) ==
    /\ pc[q][i] = "picked"
    /\ Goto(q, i, "dispatched")
    /\ UNCHANGED <<registryVars, queueVars, poolVars, holds, fnErr, requeueTo,
                   submitVars, attemptVars, future, opVars>>
WakeSibling(q, i) ==
    /\ pc[q][i] = "picked"
    /\ Goto(q, i, IF HasPendingWork(q) THEN "signalling" ELSE "dispatched")
    /\ UNCHANGED <<registryVars, queueVars, poolVars, holds, fnErr, requeueTo,
                   submitVars, attemptVars, future, opVars>>

\* The sends of workerLoop, wakeSibling and runTask, and what comes after each.
Signalling == {"resignalling", "signalling", "requeued"}
AfterSignal(label) == CASE label = "resignalling" -> "parked"
                        [] label = "signalling"   -> "dispatched"
                        [] label = "requeued"     -> "looping"

Signal(q, i) ==
    /\ pc[q][i] \in Signalling
    /\ LET to == IF pc[q][i] = "requeued" THEN requeueTo[q][i] ELSE q
       IN  wake' = [wake EXCEPT ![to] = TRUE]
    /\ requeueTo' = [requeueTo EXCEPT ![q][i] = None]
    /\ Goto(q, i, AfterSignal(pc[q][i]))
    /\ UNCHANGED <<registryVars, lanes, skips, poolVars, holds, fnErr,
                   submitVars, attemptVars, future, opVars>>

\* The flags of a new runningTask: none is set.
FreshFlags_reused(t) == UNCHANGED flags
FreshFlags(t) == flags' = [flags EXCEPT ![t] = {}]

\* registerRunning: a new runningTask.  Fn starts.
Register(q, i) ==
    /\ pc[q][i] = "dispatched"
    /\ LET t == holds[q][i]
       IN  /\ attempts' = [attempts EXCEPT ![t] = @ + 1]
           /\ FreshFlags(t)
           /\ running' = [running EXCEPT ![Kctx(t)] =
                            Append(@, <<t, attempts[t] + 1>>)]
    /\ Goto(q, i, "running")
    /\ UNCHANGED <<registryVars, queueVars, poolVars, holds, fnErr, requeueTo,
                   submitVars, future, opVars>>

\* Fn returned: nil, context.Canceled once one of its cancels was called, or
\* any other error, the timeout's included.  Then unregisterRunning.
Return(q, i) ==
    /\ pc[q][i] = "running"
    /\ LET t == holds[q][i]
       IN  /\ \E e \in FnErrors \cup {"nil"} :
                /\ e = "canceled" => flags[t] # {}
                /\ fnErr' = [fnErr EXCEPT ![q][i] = e]
           /\ running' = [running EXCEPT ![Kctx(t)] =
                            Without(@, {<<t, attempts[t]>>})]
    /\ Goto(q, i, "returned")
    /\ UNCHANGED <<registryVars, queueVars, poolVars, holds, requeueTo,
                   submitVars, attempts, flags, future, opVars>>

\* The result o goes to the task's Future and the worker back to its loop.
Deliver(q, i, o) ==
    /\ Resolve({holds[q][i]}, o)
    /\ holds' = [holds EXCEPT ![q][i] = None]
    /\ fnErr' = [fnErr EXCEPT ![q][i] = "nil"]
    /\ Goto(q, i, "looping")
    /\ UNCHANGED requeueTo

\* The three loads of rt's flags are one step: a flag set between two of them
\* is as good as one set after the last.
MustRequeue(q, i) == /\ "preempted" \in flags[holds[q][i]]
                     /\ fnErr[q][i] \in {"nil", "canceled"}

\* Result{Value: value, Err: err}.
ResultOf_raw(e) == e
ResultOf(e) == IF e = "nil" THEN "value" ELSE "error"

\* The tests that end runTask, in their order.
Decide(q, i) ==
    /\ pc[q][i] = "returned"
    /\ LET t == holds[q][i]
       IN  IF "switched" \in flags[t] THEN Deliver(q, i, "switched")
           ELSE IF "superseded" \in flags[t] THEN Deliver(q, i, "superseded")
           ELSE IF ~MustRequeue(q, i)
                THEN Deliver(q, i, ResultOf(fnErr[q][i]))
           ELSE /\ Goto(q, i, "displaced")
                /\ UNCHANGED <<holds, fnErr, requeueTo, future>>
    /\ UNCHANGED <<registryVars, queueVars, poolVars, submitVars, attemptVars,
                   opVars>>

\* queueFor, under r.mu: the queue the context has by now, if any.
FindQueue(q, i) ==
    /\ pc[q][i] = "displaced"
    /\ LET to == ctxQueues[Kctx(holds[q][i])]
       IN  IF to = None THEN Deliver(q, i, "switched")
           ELSE /\ requeueTo' = [requeueTo EXCEPT ![q][i] = to]
                /\ Goto(q, i, "requeueing")
                /\ UNCHANGED <<holds, fnErr, future>>
    /\ UNCHANGED <<registryVars, queueVars, poolVars, submitVars, attemptVars,
                   opVars>>

\* Under q.mu of that queue: back to the head of the task's lane.
Requeue(q, i) ==
    /\ pc[q][i] = "requeueing"
    /\ LET t == holds[q][i]
       IN  lanes' = [lanes EXCEPT ![requeueTo[q][i]][Prio(t)] = <<t>> \o @]
    /\ holds' = [holds EXCEPT ![q][i] = None]
    /\ fnErr' = [fnErr EXCEPT ![q][i] = "nil"]
    /\ Goto(q, i, "requeued")
    /\ UNCHANGED <<registryVars, skips, wake, poolVars, requeueTo, submitVars,
                   attemptVars, future, opVars>>

WorkerStep(q, i) ==
    \/ Exit(q, i) \/ Wake(q, i) \/ Loop(q, i) \/ Pick(q, i) \/ Miss(q, i)
    \/ Recheck(q, i) \/ WakeSibling(q, i) \/ Signal(q, i) \/ Register(q, i)
    \/ Return(q, i) \/ Decide(q, i) \/ FindQueue(q, i) \/ Requeue(q, i)
-----------------------------------------------------------------------------
(* The control calls *)

Live == {ctxQueues[k] : k \in Contexts} \ {None}

StartCall == op = "none" /\ InCalls < MaxCallers

StartWorkers_newQueuesOnly ==
    /\ StartCall /\ ~started
    /\ started' = TRUE
    /\ UNCHANGED <<ctxQueues, closed, stopAll, queueVars, poolVars, workerVars,
                   submitVars, attemptVars, future, opVars>>
StartWorkers ==
    /\ StartCall /\ ~started
    /\ started' = TRUE
    /\ Spawn(Live)
    /\ UNCHANGED <<ctxQueues, closed, stopAll, queueVars, stop, holds, fnErr,
                   requeueTo, submitVars, attemptVars, future, opVars>>

\* CancelContext(k), under r.mu: detach its queue and its running list.
CancelContext_forgetsRunning(k) ==
    /\ StartCall /\ drops < MaxDrops
    /\ drops' = drops + 1
    /\ op' = "cancel"
    /\ opQueues' = {ctxQueues[k]} \ {None}
    /\ ctxQueues' = [ctxQueues EXCEPT ![k] = None]
    /\ running' = [running EXCEPT ![k] = << >>]
    /\ UNCHANGED <<closed, stopAll, started, queueVars, poolVars, workerVars,
                   submitVars, attempts, flags, future, opMarks, requestGen>>
CancelContext(k) ==
    /\ StartCall /\ drops < MaxDrops
    /\ drops' = drops + 1
    /\ op' = "cancel"
    /\ opQueues' = {ctxQueues[k]} \ {None}
    /\ opMarks' = Range(running[k])
    /\ ctxQueues' = [ctxQueues EXCEPT ![k] = None]
    /\ running' = [running EXCEPT ![k] = << >>]
    /\ UNCHANGED <<closed, stopAll, started, queueVars, poolVars, workerVars,
                   submitVars, attempts, flags, future, requestGen>>

\* A navigation: requestGen++, then CancelStaleByGen(k, requestGen), whose
\* first critical section copies the queue and the running list.
CancelStaleByGen(k) ==
    /\ StartCall /\ requestGen < MaxGen
    /\ requestGen' = requestGen + 1
    /\ op' = "stale"
    /\ opQueues' = {ctxQueues[k]} \ {None}
    /\ opMarks' = Range(running[k])
    /\ UNCHANGED <<registryVars, queueVars, poolVars, workerVars, submitVars,
                   attemptVars, future, drops>>

\* Close: stopAll first, outside r.mu.
Close ==
    /\ StartCall /\ "close" \in Shutdowns /\ ~stopAll
    /\ stopAll' = TRUE
    /\ op' = "closing"
    /\ UNCHANGED <<ctxQueues, closed, started, queueVars, poolVars, workerVars,
                   submitVars, attemptVars, future, opQueues, opMarks,
                   requestGen, drops>>

\* Close, under r.mu: ctxQueues = nil.
DetachAll ==
    /\ op = "closing"
    /\ closed' = TRUE
    /\ ctxQueues' = [k \in Contexts |-> None]
    /\ op' = "close"
    /\ opQueues' = Live
    /\ UNCHANGED <<stopAll, started, queueVars, poolVars, workerVars,
                   submitVars, attemptVars, future, opMarks, requestGen, drops>>

\* StopWorkers, under r.mu.
StopWorkers ==
    /\ StartCall /\ "stop" \in Shutdowns /\ started
    /\ started' = FALSE
    /\ op' = "stop"
    /\ opQueues' = Live
    /\ UNCHANGED <<ctxQueues, closed, stopAll, queueVars, poolVars, workerVars,
                   submitVars, attemptVars, future, opMarks, requestGen, drops>>

\* q.drain(ErrContextSwitched), under q.mu.
Drain(q) ==
    /\ op \in {"cancel", "close"} /\ q \in opQueues
    /\ Resolve(Queued(q), "switched")
    /\ lanes' = [lanes EXCEPT ![q] = [p \in Priorities |-> << >>]]
    /\ stop' = [stop EXCEPT ![q] = TRUE]
    /\ opQueues' = opQueues \ {q}
    /\ UNCHANGED <<registryVars, skips, wake, poolStarted, workerVars,
                   submitVars, attemptVars, op, opMarks, requestGen, drops>>

\* q.dropStaleByGen(requestGen), under q.mu.
DropStaleByGen(q) ==
    /\ op = "stale" /\ q \in opQueues
    /\ LET stale == {t \in Queued(q) : StaleByGen(t, requestGen)}
       IN  /\ Resolve(stale, "superseded")
           /\ lanes' = [lanes EXCEPT ![q] =
                          [p \in Priorities |-> Without(@[p], stale)]]
    /\ opQueues' = opQueues \ {q}
    /\ UNCHANGED <<registryVars, skips, wake, poolVars, workerVars, submitVars,
                   attemptVars, op, opMarks, requestGen, drops>>

\* StopWorkers closes q.stop without q.mu and leaves the lanes as they are.
CloseStop(q) ==
    /\ op = "stop" /\ q \in opQueues
    /\ stop' = [stop EXCEPT ![q] = TRUE]
    /\ opQueues' = opQueues \ {q}
    /\ UNCHANGED <<registryVars, queueVars, poolStarted, workerVars, submitVars,
                   attemptVars, future, op, opMarks, requestGen, drops>>

\* The loop of CancelContext over the running list, an attempt at a time.
MarkSwitched(a) ==
    /\ op = "cancel" /\ opQueues = {} /\ a \in opMarks
    /\ Mark(a, "switched")
    /\ opMarks' = opMarks \ {a}
    /\ UNCHANGED <<registryVars, queueVars, poolVars, workerVars, submitVars,
                   running, attempts, future, op, opQueues, requestGen, drops>>

\* The loop of CancelStaleByGen over its copy of the running list.
MarkSuperseded(a) ==
    /\ op = "stale" /\ opQueues = {} /\ a \in opMarks
    /\ IF flags[a[1]] = {} /\ StaleByGen(a[1], requestGen)
       THEN Mark(a, "superseded") ELSE UNCHANGED flags
    /\ opMarks' = opMarks \ {a}
    /\ UNCHANGED <<registryVars, queueVars, poolVars, workerVars, submitVars,
                   running, attempts, future, op, opQueues, requestGen, drops>>

\* The call returns; StopWorkers only when workersWG.Wait does, and then the
\* program ends.
OpReturn ==
    /\ op \in {"cancel", "stale", "close", "stop"}
    /\ opQueues = {} /\ opMarks = {}
    /\ IF op = "stop"
       THEN /\ \A q \in Queues, i \in Slots : pc[q][i] \in {"absent", "exited"}
            /\ op' = "halted"
       ELSE op' = "none"
    /\ UNCHANGED <<registryVars, queueVars, poolVars, workerVars, submitVars,
                   attemptVars, future, opQueues, opMarks, requestGen, drops>>

OpStep == \/ DetachAll \/ OpReturn
          \/ \E q \in Queues : Drain(q) \/ DropStaleByGen(q) \/ CloseStop(q)
          \/ \E a \in opMarks : MarkSwitched(a) \/ MarkSuperseded(a)
-----------------------------------------------------------------------------
Next ==
    \/ \E t \in Tasks : Issue(t) \/ SubmitStep(t)
    \/ \E q \in Queues, i \in Slots : WorkerStep(q, i)
    \/ StartWorkers \/ Close \/ StopWorkers
    \/ \E k \in Contexts : CancelContext(k) \/ CancelStaleByGen(k)
    \/ OpStep

Spec == Init /\ [][Next]_vars

\* A goroutine that can take a step takes one: Submit and the control calls
\* wait for nothing but a mutex, a select takes a case that stays ready, and
\* every Fn returns by its timeout.  Nobody has to call anything, except that
\* the application starts the workers.
Fairness ==
    /\ \A t \in Tasks : WF_vars(SubmitStep(t))
    /\ \A q \in Queues, i \in Slots : WF_vars(WorkerStep(q, i))
    /\ WF_vars(OpStep)
    /\ WF_vars(StartWorkers)

FairSpec == Spec /\ Fairness
-----------------------------------------------------------------------------
(* Type correctness *)

Labels == {"absent", "parked", "woken", "missed", "resignalling", "picked",
           "signalling", "dispatched", "running", "returned", "displaced",
           "requeueing", "requeued", "looping", "draining", "exited"}
Steps  == {"unborn", "issued", "looked", "checked", "queued", "pooled",
           "poking", "done"}
Flags  == {"preempted", "superseded", "switched"}

RegistryTypes ==
    /\ ctxQueues \in [Contexts -> Queues \cup {None}]
    /\ closed \in BOOLEAN /\ stopAll \in BOOLEAN /\ started \in BOOLEAN
QueueTypes ==
    /\ lanes \in [Queues -> [Priorities -> Seq(Tasks)]]
    /\ skips \in [Queues -> [{High, Low} -> Nat]]
    /\ wake \in [Queues -> BOOLEAN]
PoolTypes ==
    /\ stop \in [Queues -> BOOLEAN]
    /\ poolStarted \in [Queues -> BOOLEAN]
WorkerTypes ==
    /\ pc \in [Queues -> [Slots -> Labels]]
    /\ holds \in [Queues -> [Slots -> Tasks \cup {None}]]
    /\ fnErr \in [Queues -> [Slots -> {"nil", "canceled", "failed"}]]
    /\ requeueTo \in [Queues -> [Slots -> Queues \cup {None}]]
SubmitTypes ==
    /\ call \in [Tasks -> Steps]
    /\ qOf \in [Tasks -> Queues \cup {None}]
    /\ gen \in [Tasks -> Nat]
    /\ victim \in [Tasks -> Attempts \cup {<< >>}]
AttemptTypes ==
    /\ running \in [Contexts -> Seq(Attempts)]
    /\ attempts \in [Tasks -> Nat]
    /\ flags \in [Tasks -> SUBSET Flags]
OpTypes ==
    /\ op \in {"none", "cancel", "stale", "closing", "close", "stop", "halted"}
    /\ opQueues \subseteq Queues
    /\ opMarks \subseteq Attempts
    /\ requestGen \in Nat /\ drops \in Nat
FutureTypes == future \in [Tasks -> Outcomes \cup {Pending}]

\* Every variable holds a value of its kind.
TypeOK == /\ RegistryTypes /\ QueueTypes /\ PoolTypes /\ WorkerTypes
          /\ SubmitTypes /\ AttemptTypes /\ OpTypes /\ FutureTypes
-----------------------------------------------------------------------------
(* Safety *)

\* Where a task is: inside its Submit, in a lane, in a worker, or answered.
LanePlaces(t) ==
    UNION {{<<"lane", q, p, n>> :
              n \in {m \in DOMAIN lanes[q][p] : lanes[q][p][m] = t}} :
           q \in Queues, p \in Priorities}
HandPlaces(t) ==
    UNION {{<<"worker", q, i>> : i \in {j \in Slots : holds[q][j] = t}} :
           q \in Queues}
Places(t) ==
    (IF call[t] \in {"unborn", "issued", "looked", "checked"}
        /\ future[t] = Pending THEN {<<"submit">>} ELSE {})
    \cup LanePlaces(t) \cup HandPlaces(t)
    \cup (IF future[t] = Pending THEN {} ELSE {<<"answered">>})

\* A task is in exactly one place whatever Submit, the workers and the control
\* calls do to it at once.  Two places would send on a closed Future (a panic)
\* or run a request twice; none would leave its caller waiting for ever.
ExactlyOnePlace ==
    \A t \in Tasks : \E x \in Places(t) : Places(t) = {x}

\* The wake protocol loses no signal (the "lost-wakeup jam" of workerLoop):
\* work waiting in a live queue has a wake in the channel or a worker that is
\* about to look or to signal, even while every other worker is inside a slow Fn.
NoLostWakeup ==
    \A q \in Queues :
        HasPendingWork(q) /\ ~stop[q] /\ ~stopAll =>
            \/ wake[q]
            \/ \E i \in Slots : pc[q][i] \in {"woken", "draining", "missed",
                                   "resignalling", "picked", "signalling"}
            \/ \E r \in Queues, i \in Slots :
                 pc[r][i] = "requeued" /\ requeueTo[r][i] = q

\* Whoever runs is tracked: an attempt inside Fn is in runningTasks, where
\* preemption, coalescing and cancellation look for it, unless CancelContext
\* detached it and has marked or will mark it; and runningTasks holds nothing
\* else.
RunningTracked ==
    /\ \A q \in Queues, i \in Slots :
         LET t == holds[q][i]
         IN  pc[q][i] = "running" =>
               \/ <<t, attempts[t]>> \in Range(running[Kctx(t)])
               \/ op = "cancel" /\ <<t, attempts[t]>> \in opMarks
               \/ "switched" \in flags[t]
    /\ \A k \in Contexts : \A a \in Range(running[k]) :
         /\ Kctx(a[1]) = k
         /\ \E q \in Queues, i \in Slots :
              holds[q][i] = a[1] /\ pc[q][i] = "running"

\* Coalescing never loses the newest request: a background request that was
\* answered ErrCoalesced and that no newer requestGen has made stale has a twin
\* that was neither coalesced nor superseded, "the one that matters" of Submit.
\* It holds for serial callers (MaxCallers = 1): see the README.
FreshRequestSurvives ==
    \A t \in Tasks :
        /\ Prio(t) = Low /\ future[t] = "coalesced"
        /\ gen[t] # 0 /\ ~StaleByGen(t, requestGen)
        => \E u \in Tasks \ {t} : /\ call[u] # "unborn"
                                  /\ CoalescesWith(t, u)
                                  /\ future[u] \notin {"coalesced", "superseded"}

\* Two twins wait in one queue only when preemption put one of them back:
\* a submission displaces the older twin, and requeueing does not look.
TwinsOnlyByRequeue ==
    \A q \in Queues : \A t, u \in Queued(q) :
        t # u /\ ~NeverCoalesce(t) /\ CoalescesWith(t, u) =>
            attempts[t] + attempts[u] > 0

\* Foundational work and writes run at most once: nothing preempts Critical,
\* and no flag of an earlier attempt sends a task back to its lane.
CriticalRunsOnce ==
    \A t \in Tasks : Prio(t) = Critical => attempts[t] <= 1

\* A task starts over at most once per Submit of a better priority on its
\* context: the flags of an attempt die with it.
RerunsArePaidFor ==
    \A t \in Tasks :
        attempts[t] <= 1 + Cardinality({u \in Tasks :
            Prio(u) < Prio(t) /\ Kctx(u) = Kctx(t) /\ call[u] = "done"})

\* Aging bounds the wait of a lane: it is never passed over more than
\* AgingThreshold times in a row, and a count left over from a lane that a
\* reserved worker or a coalesced twin emptied adds nothing to that.
AgingBound ==
    AgingThreshold > 0 =>
        \A q \in Queues, p \in {High, Low} : skips[q][p] <= AgingThreshold

\* The Futures of Submit keep the contract their callers see.
Contract == INSTANCE FutureContract WITH
    Kind       <- [t \in Tasks |-> Req[t].kind],
    Sig        <- [t \in Tasks |-> <<Kctx(t), Req[t].name>>],
    Background <- {t \in Tasks : Prio(t) = Low},
    Abandons   <- MaxDrops > 0 \/ Shutdowns # {},
    asked      <- {t \in Tasks : call[t] # "unborn"},
    answer     <- future

\* Every step answers Futures as FutureContract allows, or none.
KeepsContract == Contract!Spec
-----------------------------------------------------------------------------
(* Liveness, under FairSpec *)

\* Every Future is answered, unless the program stops the workers first (which
\* leaves the queued ones unanswered) or drops the context: no signal, preempted
\* task or half-done Submit is left behind.
EveryFutureAnswered ==
    \A t \in Tasks :
        call[t] # "unborn" ~> future[t] # Pending \/ op \in {"stop", "halted"}

\* StopWorkers returns: a worker that drains a backlog, waits on its queue or
\* holds a preempted task notices the stop.
StopReturns == op = "stop" ~> op = "halted"
=============================================================================
