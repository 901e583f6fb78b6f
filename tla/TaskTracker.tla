----------------------------- MODULE TaskTracker -----------------------------
(***************************************************************************)
(* The list of tracked tasks of lfk (src/internal/app/scheduler/registry.go)*)
(* as the tabs use it: bulk operations are started in a tab, go on when it *)
(* is closed, and Ctrl+C or Esc cancels those of the tab it is pressed in. *)
(* A mutation that goes through the scheduler instead is a task only when a*)
(* worker gets to it, by then of a tab that may be gone.                   *)
(*                                                                         *)
(* Goroutines: the Update loop, one per bulk operation, which works through*)
(* its items (commands_bulk.go), and the worker of each queued mutation.  A*)
(* step is one critical section of r.mu, one call of a cancel function, or *)
(* one step of an operation's loop.  The history of completed tasks and the*)
(* progress counters are left out.                                         *)
(***************************************************************************)
EXTENDS Integers, FiniteSets

CONSTANTS
    Ops,      \* the mutations started in a behaviour
    Label,    \* op -> its name and target: what Start deduplicates by
    Tabs,     \* the UIDs of the tabs of a behaviour: they are never reused
    Items,    \* items of a bulk operation
    NoTab     \* owner 0

ASSUME TrackerAssumption == /\ NoTab \notin Tabs
                            /\ Items \in Nat

VARIABLES
    tasks,     \* r.tasks
    cancels,   \* r.cancels
    owner,     \* op -> Owner of its task
    finished,  \* tasks whose FinishedAt is set
    disowned,  \* r.disowned
    open,      \* the open tabs
    active,    \* the tab the user is in
    turn,      \* what the Update loop is in the middle of
    op,        \* op -> its goroutine, or the worker of one that was queued
    home,      \* history: op -> the tab it was started in
    dropped,   \* history: ops followed by one of the same name and the same owner
    replaced,  \* history: the tabs that went with a switch of the session
    pressed    \* history: op -> the tab its cancellation came from

trackerVars == <<tasks, cancels, owner, finished, disowned, open, active, turn,
                 op, home, dropped, replaced, pressed>>

IdleTurn == [kind |-> "idle", ops |-> {}]

TrackerTypeOK ==
    /\ tasks \subseteq Ops /\ cancels \subseteq Ops /\ finished \subseteq Ops
    /\ owner \in [Ops -> Tabs \cup {NoTab}]
    /\ disowned \subseteq Tabs /\ open \subseteq Tabs /\ active \in open
    /\ turn \in [kind : {"idle", "register", "cancel"}, ops : SUBSET Ops]
    /\ op \in [Ops -> [pc : {"none", "queued", "check", "item", "finish", "done"},
                       queued : BOOLEAN, left : 0 .. Items, cancelled : BOOLEAN,
                       late : 0 .. Items]]
    /\ home \in [Ops -> Tabs \cup {NoTab}]
    /\ dropped \subseteq Ops /\ replaced \subseteq Tabs
    /\ pressed \in [Ops -> Tabs \cup {NoTab}]

TrackerInit ==
    /\ tasks = {} /\ cancels = {} /\ finished = {} /\ disowned = {}
    /\ dropped = {} /\ replaced = {}
    /\ owner = [o \in Ops |-> NoTab]
    /\ home = owner /\ pressed = owner
    /\ active \in Tabs /\ open = {active}
    /\ turn = IdleTurn
    /\ op = [o \in Ops |-> [pc |-> "none", queued |-> FALSE, left |-> Items,
                           cancelled |-> FALSE, late |-> 0]]

-----------------------------------------------------------------------------
(* The Registry.                                                           *)

\* ownedBy, with NoTab as 0.
OwnedBy_anyTab(o, tab) == TRUE
OwnedBy(o, tab) == owner[o] \in {NoTab, tab}

Running(o) == op[o].pc \notin {"none", "queued", "done"}

\* A bulk operation is named for the number of its items, a queued mutation for
\* its one resource.
SameName(p, o) == Label[p] = Label[o] /\ op[p].queued = op[o].queued

\* startWithPriority: the tasks with the new one's name and owner give way.
Twins(o, who) == {p \in tasks : SameName(p, o) /\ owner[p] = who}

StartOwned_asGiven(o, tab) ==
    LET gone == Twins(o, tab)
    IN  /\ tasks' = (tasks \ gone) \cup {o}
        /\ cancels' = cancels \ gone
        /\ owner' = [owner EXCEPT ![o] = tab]
        /\ finished' = finished \ gone
StartOwned(o, tab) ==
    LET who  == IF tab \in disowned THEN NoTab ELSE tab
        gone == Twins(o, who)
    IN  /\ tasks' = (tasks \ gone) \cup {o}
        /\ cancels' = cancels \ gone
        /\ owner' = [owner EXCEPT ![o] = who]
        /\ finished' = finished \ gone

\* Those of its name that were started before it in this tab, or like it in one
\* that is closed by now.
Shadowed(o, tab) ==
    {p \in Ops \ {o} : /\ SameName(p, o) /\ op[p].pc # "queued"
                       /\ home[p] = tab \/ {home[p], tab} \subseteq disowned}

\* StartCancellable, first critical section, on the Update loop.
StartOp(o) ==
    /\ turn.kind = "idle" /\ op[o].pc = "none"
    /\ StartOwned(o, active)
    /\ home' = [home EXCEPT ![o] = active]
    /\ dropped' = dropped \cup Shadowed(o, active)
    /\ turn' = [kind |-> "register", ops |-> {o}]
    /\ UNCHANGED <<disowned, open, active, op, replaced, pressed>>

\* ... and the second.  The operation's command starts when the turn is over.
RegisterCancel(o) ==
    /\ turn = [kind |-> "register", ops |-> {o}]
    /\ cancels' = cancels \cup {o}
    /\ op' = [op EXCEPT ![o].pc = "check"]
    /\ turn' = IdleTurn
    /\ UNCHANGED <<tasks, owner, finished, disowned, open, active, home, dropped,
                   replaced, pressed>>

\* scheduleK8sCall, with currentTabUID as the owner ...
QueueOp(o) ==
    /\ turn.kind = "idle" /\ op[o].pc = "none"
    /\ op' = [op EXCEPT ![o].pc = "queued", ![o].queued = TRUE]
    /\ home' = [home EXCEPT ![o] = active]
    /\ UNCHANGED <<tasks, cancels, owner, finished, disowned, open, active, turn,
                   dropped, replaced, pressed>>

\* ... and runTask, when a worker has picked it: it is left with its one call
\* and the Finish.  No cancel function is registered.
RegisterQueued(o) ==
    /\ op[o].pc = "queued"
    /\ StartOwned(o, home[o])
    /\ dropped' = dropped \cup Shadowed(o, home[o])
    /\ op' = [op EXCEPT ![o].pc = "finish"]
    /\ UNCHANGED <<disowned, open, active, turn, home, replaced, pressed>>

\* Ctrl+C or Esc with a mutation of this tab in flight: CancelMutationsOwnedBy
\* takes the cancel functions under the lock ...
InFlight(tab) == \E o \in tasks : o \notin finished /\ OwnedBy(o, tab)
PressCancel ==
    /\ turn.kind = "idle" /\ InFlight(active)
    /\ LET mine == {o \in tasks \cap cancels : OwnedBy(o, active)} IN
       /\ cancels' = cancels \ mine
       /\ turn' = [kind |-> "cancel", ops |-> mine]
       /\ pressed' = [o \in Ops |-> IF o \in mine THEN active ELSE pressed[o]]
    /\ UNCHANGED <<tasks, owner, finished, disowned, open, active, op, home, dropped,
                   replaced>>

\* ... and calls them after it.
CallCancels ==
    /\ turn.kind = "cancel"
    /\ op' = [o \in Ops |-> [op[o] EXCEPT !.cancelled = @ \/ o \in turn.ops]]
    /\ turn' = IdleTurn
    /\ UNCHANGED <<tasks, cancels, owner, finished, disowned, open, active, home,
                   dropped, replaced, pressed>>

\* DisownTasks, when the active tab is closed and another takes its place.
Disowned_keepsTasks(tab) == owner
Disowned(tab) == [o \in Ops |-> IF o \in tasks /\ owner[o] = tab THEN NoTab ELSE owner[o]]
CloseTab ==
    /\ turn.kind = "idle" /\ Cardinality(open) > 1
    /\ owner' = Disowned(active)
    /\ disowned' = disowned \cup {active}
    /\ open' = open \ {active}
    /\ active' \in open'
    /\ UNCHANGED <<tasks, cancels, finished, turn, op, home, dropped, replaced,
                   pressed>>

\* nextTabUID counts up.
FreshTabs == Tabs \ (open \cup disowned \cup replaced)

NewTab ==
    /\ turn.kind = "idle" /\ FreshTabs # {}
    /\ active' = CHOOSE t \in FreshTabs : TRUE
    /\ open' = open \cup {active'}
    /\ UNCHANGED <<tasks, cancels, owner, finished, disowned, turn, op, home, dropped,
                   replaced, pressed>>

SwitchTab ==
    /\ turn.kind = "idle"
    /\ active' \in open \ {active}
    /\ UNCHANGED <<tasks, cancels, owner, finished, disowned, open, turn, op, home,
                   dropped, replaced, pressed>>

\* The switch of the session (restoreMultiTabSession), once the contexts are
\* loaded: every tab gives way to those of the session, which have new UIDs.
\* Nothing tells the registry.
ReplaceTabs ==
    /\ turn.kind = "idle"
    /\ open' \in SUBSET FreshTabs /\ active' \in open'
    /\ replaced' = replaced \cup open
    /\ UNCHANGED <<tasks, cancels, owner, finished, disowned, turn, op, home, dropped,
                   pressed>>

\* Snapshot evicts the finished tasks that have lingered long enough.
Prune(o) ==
    /\ o \in tasks \cap finished
    /\ tasks' = tasks \ {o} /\ cancels' = cancels \ {o} /\ finished' = finished \ {o}
    /\ UNCHANGED <<owner, disowned, open, active, turn, op, home, dropped, replaced,
                   pressed>>

-----------------------------------------------------------------------------
(* The loop of a bulk operation.                                           *)

CheckItem_blind(o) ==
    /\ op[o].pc = "check"
    /\ op' = [op EXCEPT ![o].pc = IF @ = "check" /\ op[o].left > 0 THEN "item" ELSE "finish"]
    /\ UNCHANGED <<tasks, cancels, owner, finished, disowned, open, active, turn, home,
                   dropped, replaced, pressed>>
CheckItem_oneTooMany(o) ==
    /\ op[o].pc = "check"
    /\ op' = [op EXCEPT ![o].pc =
                IF op[o].left >= 0 /\ ~op[o].cancelled THEN "item" ELSE "finish"]
    /\ UNCHANGED <<tasks, cancels, owner, finished, disowned, open, active, turn, home,
                   dropped, replaced, pressed>>
CheckItem(o) ==
    /\ op[o].pc = "check"
    /\ op' = [op EXCEPT ![o].pc =
                IF op[o].left > 0 /\ ~op[o].cancelled THEN "item" ELSE "finish"]
    /\ UNCHANGED <<tasks, cancels, owner, finished, disowned, open, active, turn, home,
                   dropped, replaced, pressed>>

\* The API call for an item, which does not know of the context.
DoItem(o) ==
    /\ op[o].pc = "item"
    /\ op' = [op EXCEPT ![o].pc = "check", ![o].left = @ - 1,
                        ![o].late = IF op[o].cancelled THEN @ + 1 ELSE @]
    /\ UNCHANGED <<tasks, cancels, owner, finished, disowned, open, active, turn, home,
                   dropped, replaced, pressed>>

\* The deferred Finish: nothing if the task gave way.
FinishOp(o) ==
    /\ op[o].pc = "finish"
    /\ op' = [op EXCEPT ![o].pc = "done"]
    /\ IF o \in tasks
       THEN finished' = finished \cup {o} /\ cancels' = cancels \ {o}
       ELSE UNCHANGED <<finished, cancels>>
    /\ UNCHANGED <<tasks, owner, disowned, open, active, turn, home, dropped, replaced,
                   pressed>>

Work(o) == CheckItem(o) \/ DoItem(o) \/ FinishOp(o)

TrackerNext ==
    \/ \E o \in Ops : \/ StartOp(o) \/ RegisterCancel(o) \/ Prune(o) \/ Work(o)
                     \/ QueueOp(o) \/ RegisterQueued(o)
    \/ PressCancel \/ CallCancels \/ CloseTab \/ NewTab \/ SwitchTab \/ ReplaceTabs

TrackerSpec == TrackerInit /\ [][TrackerNext]_trackerVars

-----------------------------------------------------------------------------
\* A mutation that runs, and was not followed by one of its name and owner, is a
\* task of an open tab, or of all when its own is closed; a bulk operation has
\* its cancel function at hand until the key was pressed.  Those of a tab that
\* went with a switch of the session are an exception: they keep the owner that
\* no tab has (update_bookmarks_session.go:243), and OwnersAreOpen is about them.
StaysCancellable ==
    \A o \in Ops \ dropped :
        Running(o) =>
            /\ o \in tasks \ finished
            /\ ~op[o].queued /\ pressed[o] = NoTab => o \in cancels
            /\ home[o] \notin replaced => owner[o] \in open \cup {NoTab}

\* The owner is cleared "so work outliving its tab stays cancellable from the
\* remaining ones" (registry.go:346-349; tab_scoped_cancel_test.go:55-57): a
\* mutation that runs belongs to an open tab, or to all, however its own tab
\* went.  The code does not keep this when the session is switched.
OwnersAreOpen ==
    \A o \in Ops \ dropped : Running(o) => owner[o] \in open \cup {NoTab}

\* The key never reaches the work of another tab that is still open.
CancelStaysInTab ==
    [][\A o \in Ops : pressed'[o] # pressed[o] =>
          pressed'[o] = home[o] \/ home[o] \notin open]_trackerVars

\* Once its cancel function was called an operation finishes the item it is at
\* and touches no other.
CancelStopsWork == \A o \in Ops : op[o].late <= 1
=============================================================================
