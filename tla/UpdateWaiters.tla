--------------------------- MODULE UpdateWaiters ---------------------------
(***************************************************************************)
(* How a manager of lfk tells the Update loop that an entry changed: the   *)
(* listener slot (src/internal/k8s/update_listener.go), the commands that  *)
(* wait on it (commands_update_wait.go, waitForPortForwardUpdate) and the  *)
(* eviction timer that takes an ended port-forward off the list.  Captures *)
(* use the same slot, without the timer.                                   *)
(*                                                                         *)
(* Goroutines: whoever changes an entry, the Update loop, and the waiters, *)
(* one per call of waitForPortForwardUpdate.  The latest is the listener   *)
(* and is last in waiters; those before it are superseded.                 *)
(*                                                                         *)
(* Time: shown numbers the batches of entries that were first displayed    *)
(* together, expired is how many batches are past their grace period.      *)
(* What an entry is and does besides is in PortForwards.                   *)
(***************************************************************************)
EXTENDS Integers, Sequences, SequencesExt

CONSTANTS
    Listed,      \* the entries the manager lists in a behaviour
    MaxWaiters   \* BOUND: waiters not returned and updates not handled,
                 \* when the user opens the list

ASSUME WaitersAssumption == MaxWaiters \in Nat \ {0}

VARIABLES
    entry,     \* entry -> [state, shown]
    waiters,
    armedAt,   \* evictionArmedAt: a batch, 0 when nothing is armed
    stamped,   \* batches displayed so far
    expired,
    updates,   \* portForwardUpdateMsg sent and not handled
    view,      \* [onList, step]: the Update loop
    missed     \* history: a change was announced, and no update handled since

waiterVars == <<entry, waiters, armedAt, stamped, expired, updates, view, missed>>

WaitersTypeOK ==
    /\ DOMAIN entry = Listed
    /\ \A e \in Listed : /\ entry[e].state \in {"new", "starting", "running", "ended", "gone"}
                         /\ entry[e].shown \in 0 .. stamped
                         /\ entry[e].shown # 0 => entry[e].state \in {"ended", "gone"}
    /\ waiters \in Seq([pc : {"created", "waiting", "returned"}, ch : BOOLEAN,
                        timer : 0 .. stamped, arm : {"none", "held", "stale"}])
    /\ armedAt \in 0 .. stamped /\ stamped \in Nat /\ expired \in 0 .. stamped
    /\ updates \in Nat
    /\ view \in [onList : BOOLEAN, step : {"idle", "listen"}]
    /\ missed \in BOOLEAN

WaitersInit ==
    /\ entry = [e \in Listed |-> [state |-> "new", shown |-> 0]]
    /\ waiters = << >> /\ armedAt = 0 /\ stamped = 0 /\ expired = 0 /\ updates = 0
    /\ view = [onList |-> FALSE, step |-> "idle"]
    /\ missed = FALSE

-----------------------------------------------------------------------------
\* notifyLocked: a send that never blocks, to the listener's channel of one.
Notify ==
    /\ waiters' = IF waiters = << >> THEN waiters
                  ELSE [waiters EXCEPT ![Len(waiters)].ch = TRUE]
    /\ missed' = (missed \/ waiters # << >>)

\* Of the waiters that returned only the listener is kept until then, for its
\* channel.
Remaining == IF waiters # << >> /\ Last(waiters).pc = "returned" THEN Front(waiters)
             ELSE waiters

\* setLocked and SetUpdateListener: a new listener, nothing armed.
Listen ==
    /\ waiters' = Append(Remaining, [pc |-> "created", ch |-> FALSE, timer |-> 0,
                                     arm |-> "none"])
    /\ armedAt' = 0

\* EntriesForDisplay: drop what was shown a grace period ago, stamp the ended
\* entries that are shown for the first time.
Unseen_anyState(E) == {e \in Listed : E[e].state # "new" /\ E[e].shown = 0}
Unseen(E) == {e \in Listed : E[e].state = "ended" /\ E[e].shown = 0}
DisplayEntries(E) ==
    /\ entry' = [e \in Listed |->
         IF e \in Unseen(E) THEN [E[e] EXCEPT !.shown = stamped + 1]
         ELSE IF E[e].state = "ended" /\ E[e].shown <= expired
         THEN [E[e] EXCEPT !.state = "gone"]
         ELSE E[e]]
    /\ stamped' = IF Unseen(E) = {} THEN stamped ELSE stamped + 1

\* A change under m.mu: an entry is listed, is ready, ends (its process, Stop
\* or StopAll), or is removed, which rebuilds the list on the same turn.
ChangeEntry(e) ==
    /\ \E s \in {"starting", "running", "ended"} :
         /\ <<entry[e].state, s>> \in
                {<<"new", "starting">>, <<"starting", "running">>,
                 <<"starting", "ended">>, <<"running", "ended">>}
         /\ entry' = [entry EXCEPT ![e].state = s]
    /\ Notify
    /\ UNCHANGED <<armedAt, stamped, expired, updates, view>>

RemoveEntry(e) ==
    /\ view.onList /\ view.step = "idle" /\ entry[e].state \notin {"new", "gone"}
    /\ DisplayEntries([entry EXCEPT ![e].state = "gone"])
    /\ Notify
    /\ UNCHANGED <<armedAt, expired, updates, view>>

GraceExpires ==
    /\ expired < stamped
    /\ expired' = expired + 1
    /\ UNCHANGED <<entry, waiters, armedAt, stamped, updates, view, missed>>

-----------------------------------------------------------------------------
Superseded(w) == w < Len(waiters)

\* earliestEvictionDeadlineLocked looks at these.
Deadlines == {entry[e].shown : e \in {d \in Listed : entry[d].state = "ended"}} \ {0}
Earliest  == CHOOSE d \in Deadlines : \A x \in Deadlines : d <= x

\* The command starts: ArmEvictionRefresh.  A new arm id makes the others stale.
ArmTimer(w) ==
    /\ waiters[w].pc = "created"
    /\ IF Deadlines # {} /\ (armedAt = 0 \/ Earliest < armedAt)
       THEN /\ armedAt' = Earliest
            /\ waiters' = [v \in DOMAIN waiters |->
                 IF v = w
                 THEN [waiters[v] EXCEPT !.pc = "waiting", !.timer = Earliest,
                                         !.arm = "held"]
                 ELSE [waiters[v] EXCEPT !.arm = IF @ = "held" THEN "stale" ELSE @]]
       ELSE waiters' = [waiters EXCEPT ![w].pc = "waiting"] /\ UNCHANGED armedAt
    /\ UNCHANGED <<entry, stamped, expired, updates, view, missed>>

\* The command returns: DisarmEvictionRefresh, unless its arm id is stale.
Return_disarmsAnyone(w) ==
    /\ armedAt' = IF waiters[w].arm # "none" THEN 0 ELSE armedAt
    /\ waiters' = IF Superseded(w) THEN RemoveAt(waiters, w)
                  ELSE [waiters EXCEPT ![w] =
                           [@ EXCEPT !.pc = "returned", !.timer = 0, !.arm = "none"]]
Return(w) ==
    /\ armedAt' = IF waiters[w].arm = "held" THEN 0 ELSE armedAt
    /\ waiters' = IF Superseded(w) THEN RemoveAt(waiters, w)
                  ELSE [waiters EXCEPT ![w] =
                           [@ EXCEPT !.pc = "returned", !.timer = 0, !.arm = "none"]]

\* waitForUpdateSignal: a change or the deadline ...
WaiterReports_listenerOnly(w) ==
    /\ waiters[w].pc = "waiting" /\ ~Superseded(w)
    /\ \/ waiters[w].ch
       \/ waiters[w].timer # 0 /\ waiters[w].timer <= expired
    /\ updates' = updates + 1
    /\ Return(w)
    /\ UNCHANGED <<entry, stamped, expired, view, missed>>
WaiterReports(w) ==
    /\ waiters[w].pc = "waiting"
    /\ \/ waiters[w].ch
       \/ waiters[w].timer # 0 /\ waiters[w].timer <= expired
    /\ updates' = updates + 1
    /\ Return(w)
    /\ UNCHANGED <<entry, stamped, expired, view, missed>>

\* ... or superseded, with nothing in the channel when it looks again.
WaiterGivesUp_undrained(w) ==
    /\ waiters[w].pc = "waiting" /\ Superseded(w)
    /\ Return(w)
    /\ UNCHANGED <<entry, stamped, expired, updates, view, missed>>
WaiterGivesUp(w) ==
    /\ waiters[w].pc = "waiting" /\ Superseded(w) /\ ~waiters[w].ch
    /\ Return(w)
    /\ UNCHANGED <<entry, stamped, expired, updates, view, missed>>

-----------------------------------------------------------------------------
\* updatePortForwardUpdate: a new waiter, then the list if the user is on it.
HandleUpdate ==
    /\ view.step = "idle" /\ updates > 0
    /\ updates' = updates - 1
    /\ Listen
    /\ missed' = FALSE
    /\ IF view.onList THEN DisplayEntries(entry) ELSE UNCHANGED <<entry, stamped>>
    /\ UNCHANGED <<expired, view>>

\* The user opens the list, or a Start brings him there: the list is built
\* first, and the waiter made some file writes later.
OpenList ==
    /\ view.step = "idle"
    /\ Len(waiters) + updates < MaxWaiters
    /\ view' = [onList |-> TRUE, step |-> "listen"]
    /\ DisplayEntries(entry)
    /\ UNCHANGED <<waiters, armedAt, expired, updates, missed>>

StartListening ==
    /\ view.step = "listen"
    /\ view' = [view EXCEPT !.step = "idle"]
    /\ Listen
    /\ UNCHANGED <<entry, stamped, expired, updates, missed>>

LeaveList ==
    /\ view = [onList |-> TRUE, step |-> "idle"]
    /\ view' = [view EXCEPT !.onList = FALSE]
    /\ UNCHANGED <<entry, waiters, armedAt, stamped, expired, updates, missed>>

\* The list is built without a waiter: a watch tick, shift+r, a Stop that was
\* done, or the preview of the row "Port Forwards".
RefreshList ==
    /\ view.step = "idle"
    /\ DisplayEntries(entry)
    /\ UNCHANGED <<waiters, armedAt, expired, updates, view, missed>>

WaitersNext ==
    \/ \E e \in Listed : ChangeEntry(e) \/ RemoveEntry(e)
    \/ \E w \in DOMAIN waiters : ArmTimer(w) \/ WaiterReports(w) \/ WaiterGivesUp(w)
    \/ GraceExpires \/ HandleUpdate \/ OpenList \/ StartListening \/ LeaveList \/ RefreshList

\* Go runs every goroutine that can go on, and bubbletea handles every message
\* it is sent: the user's keys do not keep one from its turn.
WaitersFairness ==
    /\ \A w \in 1 .. MaxWaiters :
         SF_waiterVars(w \in DOMAIN waiters /\ (ArmTimer(w) \/ WaiterReports(w) \/ WaiterGivesUp(w)))
    /\ SF_waiterVars(HandleUpdate)
    /\ WF_waiterVars(StartListening)

WaitersSpec == WaitersInit /\ [][WaitersNext]_waiterVars /\ WaitersFairness

-----------------------------------------------------------------------------
\* A change announced to a listener is never lost: its message is under way,
\* or a waiter, superseded or not, has still to look at its channel.
UpdateNotLost ==
    missed => updates > 0 \/ \E w \in DOMAIN waiters : waiters[w].ch

\* ... and the Update loop gets to handle it.
ChangesAreSeen == missed ~> ~missed

\* The eviction timer: an armed deadline belongs to a waiter that waits for it
\* and will release it, and the listener's timer is the armed one, so that no
\* second timer is started for it.
ArmIsHeld ==
    /\ armedAt # 0 =>
         \E w \in DOMAIN waiters : /\ waiters[w].pc = "waiting"
                                   /\ waiters[w].arm = "held"
                                   /\ waiters[w].timer = armedAt
    /\ \A w \in DOMAIN waiters :
         ~Superseded(w) /\ waiters[w].timer # 0 => armedAt = waiters[w].timer
=============================================================================
