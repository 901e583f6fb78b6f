----------------------------- MODULE ManagerProofs -----------------------------
(***************************************************************************)
(* Proofs about the parts that MCManagers joins, each by itself, for every *)
(* number of their actors.                                                 *)
(*                                                                         *)
(* The task tracker: a running operation stays cancellable from the tab the*)
(* user can press the key in, the key stays in its tab, and it stops the   *)
(* work.  None of the three is inductive: a task that is followed by one of*)
(* the same name is found by its owner, so the owner has to be the tab it  *)
(* was started in or, once that one is closed, nobody (OwnerIsHome); and   *)
(* the Update loop is between the two critical sections of                 *)
(* StartCancellable when the task has no cancel function yet (Registering).*)
(*                                                                         *)
(* The state files: no crash, loss of power or edit by hand, and no number *)
(* of other instances, makes a state file lose what a save reported as     *)
(* saved, tears a synced file or overwrites one the user has to mend.      *)
(*                                                                         *)
(* The security manager: a call gets the findings it asked for, and no     *)
(* fresh findings are scanned for again.  FindingsAsAsked is not inductive:*)
(* what a call returns was handed to it when its flight was delivered, and *)
(* the flight got it from a scan or from the cache.                        *)
(*                                                                         *)
(* The badges: they follow the cluster picked in the list.                 *)
(* BadgesFollowThePicker is not inductive: an answer that is handled says  *)
(* whose findings it has by its context, so the manager a scan was begun   *)
(* with has to be that context's, from the pick on (ManagersOfTheirPlace,  *)
(* PostsOfTheirPlace).                                                     *)
(*                                                                         *)
(* The lists: a tab shows those of its place, and an empty one is awaited. *)
(*                                                                         *)
(* The last section joins these parts with those of PortForwardsProofs: a  *)
(* behaviour of MCManagers is one of each of them.                         *)
(***************************************************************************)
EXTENDS MCManagers, PortForwardsProofs

-----------------------------------------------------------------------------
(* The task tracker.                                                       *)

\* The UID of a tab that is gone is never that of an open one.
TabsApart == open \cap (disowned \cup replaced) = {}

\* A mutation was asked for in a tab.  Until a worker takes it a queued one is
\* no task, and another is one only while the Update loop registers it.
Origins ==
    \A o \in Ops :
        /\ o \in tasks \/ op[o].pc # "none" => home[o] \in open \cup disowned \cup replaced
        /\ op[o].pc = "none" => ~op[o].queued
        /\ op[o].pc = "queued" => op[o].queued /\ o \notin tasks
        /\ op[o].pc = "none" /\ o \in tasks => turn.kind = "register" /\ turn.ops = {o}

\* A tracked task belongs to the tab it was started in until that one closes.
OwnerIsHome ==
    \A o \in tasks : \/ owner[o] = home[o]
                     \/ owner[o] = NoTab /\ home[o] \in disowned

\* Only an operation that is over has a finished task.
FinishedIsDone == \A o \in finished : op[o].pc = "done"

\* Between the critical sections of StartCancellable: its operation has a task
\* and its command has not started.
Registering ==
    turn.kind = "register" =>
        \A o \in turn.ops : /\ op[o].pc = "none" /\ o \in tasks \ finished
                           /\ owner[o] \in open

\* One item at most is worked on after the cancellation, and the loop is past
\* it when it is counted.
Lateness ==
    \A o \in Ops :
        /\ op[o].pc = "item" => op[o].left > 0 /\ op[o].late = 0
        /\ op[o].late > 0 => op[o].cancelled
        /\ op[o].late + op[o].left <= Items
        /\ op[o].late <= 1

TrackerInv ==
    /\ TrackerTypeOK /\ TabsApart /\ Origins /\ OwnerIsHome /\ FinishedIsDone
    /\ Registering /\ StaysCancellable /\ Lateness

\* The invariant holds with one tab and nothing started.
LEMMA TrackerInitial == TrackerInit => TrackerInv
  BY TrackerAssumption
     DEF TrackerInit, TrackerInv, TrackerTypeOK, TabsApart, Origins, OwnerIsHome, FinishedIsDone,
         Registering, StaysCancellable, Running, Lateness, IdleTurn

OpRecord == [pc : {"none", "queued", "check", "item", "finish", "done"},
             queued : BOOLEAN, left : 0 .. Items, cancelled : BOOLEAN, late : 0 .. Items]

\* Types are kept by the registry, the keys and the operations' loops.
LEMMA TrackerTypeStep ==
    ASSUME TrackerTypeOK, Lateness, [TrackerNext]_trackerVars
    PROVE  TrackerTypeOK'
  <1> USE TrackerAssumption DEF TrackerTypeOK, Lateness
  <1>1. ASSUME NEW o \in Ops, StartOp(o) PROVE TrackerTypeOK'
    BY <1>1 DEF StartOp, StartOwned, Twins, SameName, Shadowed
  <1>2. ASSUME NEW o \in Ops, RegisterCancel(o) PROVE TrackerTypeOK'
    BY <1>2 DEF RegisterCancel, IdleTurn
  <1>3. ASSUME NEW o \in Ops, Prune(o) PROVE TrackerTypeOK'
    BY <1>3 DEF Prune
  <1>4. ASSUME NEW o \in Ops, CheckItem(o) PROVE TrackerTypeOK'
    BY <1>4 DEF CheckItem
  <1>5. ASSUME NEW o \in Ops, DoItem(o) PROVE TrackerTypeOK'
    BY <1>5 DEF DoItem
  <1>6. ASSUME NEW o \in Ops, FinishOp(o) PROVE TrackerTypeOK'
    BY <1>6 DEF FinishOp
  <1>7. CASE PressCancel
    BY <1>7 DEF PressCancel, OwnedBy
  <1>8. CASE CallCancels
    <2>1. op' = [o \in Ops |-> [op[o] EXCEPT !.cancelled = @ \/ o \in turn.ops]]
      BY <1>8 DEF CallCancels
    <2>2. ASSUME NEW o \in Ops PROVE op'[o] \in OpRecord
      <3>1. PICK b \in BOOLEAN : b <=> op[o].cancelled \/ o \in turn.ops
        OBVIOUS
      <3>2. op'[o] = [op[o] EXCEPT !.cancelled = b]
        BY <2>1, <3>1
      <3>3. op[o] \in OpRecord
        BY DEF OpRecord
      <3> QED
        BY <3>2, <3>3 DEF OpRecord
    <2>3. op' \in [Ops -> OpRecord]
      BY <2>1, <2>2
    <2> QED
      BY <1>8, <2>3 DEF CallCancels, IdleTurn, OpRecord
  <1>9. CASE CloseTab
    BY <1>9 DEF CloseTab, Disowned
  <1>10. CASE NewTab
    BY <1>10 DEF NewTab, FreshTabs
  <1>11. CASE SwitchTab
    BY <1>11 DEF SwitchTab
  <1>12. ASSUME NEW o \in Ops, QueueOp(o) PROVE TrackerTypeOK'
    <2>1. op' = [op EXCEPT ![o] = [@ EXCEPT !.pc = "queued", !.queued = TRUE]]
      BY <1>12 DEF QueueOp
    <2>2. [op[o] EXCEPT !.pc = "queued", !.queued = TRUE] \in OpRecord
      BY DEF OpRecord
    <2>3. op' \in [Ops -> OpRecord]
      BY <2>1, <2>2 DEF OpRecord
    <2>4. home' \in [Ops -> Tabs \cup {NoTab}]
      BY <1>12 DEF QueueOp
    <2> QED
      BY <1>12, <2>3, <2>4 DEF QueueOp, OpRecord
  <1>13. ASSUME NEW o \in Ops, RegisterQueued(o) PROVE TrackerTypeOK'
    BY <1>13 DEF RegisterQueued, StartOwned, Twins, SameName, Shadowed
  <1>14. CASE ReplaceTabs
    BY <1>14 DEF ReplaceTabs, FreshTabs
  <1>15. CASE UNCHANGED trackerVars
    BY <1>15 DEF trackerVars
  <1> QED
    BY <1>1, <1>2, <1>3, <1>4, <1>5, <1>6, <1>7, <1>8, <1>9, <1>10, <1>11, <1>12, <1>13,
       <1>14, <1>15 DEF TrackerNext, Work

\* A new tab gets a UID that no tab had.
LEMMA TabsStep ==
    ASSUME TrackerTypeOK, TabsApart, [TrackerNext]_trackerVars
    PROVE  TabsApart'
  <1> USE TrackerAssumption DEF TrackerTypeOK, TabsApart
  <1>1. ASSUME NEW o \in Ops, StartOp(o) PROVE TabsApart'
    BY <1>1 DEF StartOp, StartOwned, Twins, SameName, Shadowed
  <1>2. ASSUME NEW o \in Ops, RegisterCancel(o) PROVE TabsApart'
    BY <1>2 DEF RegisterCancel, IdleTurn
  <1>3. ASSUME NEW o \in Ops, Prune(o) PROVE TabsApart'
    BY <1>3 DEF Prune
  <1>4. ASSUME NEW o \in Ops, CheckItem(o) PROVE TabsApart'
    BY <1>4 DEF CheckItem
  <1>5. ASSUME NEW o \in Ops, DoItem(o) PROVE TabsApart'
    BY <1>5 DEF DoItem
  <1>6. ASSUME NEW o \in Ops, FinishOp(o) PROVE TabsApart'
    BY <1>6 DEF FinishOp
  <1>7. CASE PressCancel
    BY <1>7 DEF PressCancel, OwnedBy
  <1>8. CASE CallCancels
    BY <1>8 DEF CallCancels, IdleTurn
  <1>9. CASE CloseTab
    BY <1>9 DEF CloseTab, Disowned
  <1>10. CASE NewTab
    BY <1>10 DEF NewTab, FreshTabs
  <1>11. CASE SwitchTab
    BY <1>11 DEF SwitchTab
  <1>12. ASSUME NEW o \in Ops, QueueOp(o) PROVE TabsApart'
    BY <1>12 DEF QueueOp
  <1>13. ASSUME NEW o \in Ops, RegisterQueued(o) PROVE TabsApart'
    BY <1>13 DEF RegisterQueued, StartOwned, Twins, SameName, Shadowed
  <1>14. CASE ReplaceTabs
    BY <1>14 DEF ReplaceTabs, FreshTabs
  <1>15. CASE UNCHANGED trackerVars
    BY <1>15 DEF trackerVars
  <1> QED
    BY <1>1, <1>2, <1>3, <1>4, <1>5, <1>6, <1>7, <1>8, <1>9, <1>10, <1>11, <1>12, <1>13,
       <1>14, <1>15 DEF TrackerNext, Work

\* A tab that is gone leaves its UID to what was started in it.
LEMMA OriginsStep ==
    ASSUME TrackerTypeOK, TabsApart, Origins, Registering, FinishedIsDone,
           [TrackerNext]_trackerVars
    PROVE  Origins'
  <1> USE TrackerAssumption DEF TrackerTypeOK, TabsApart, Origins, Registering, FinishedIsDone
  <1>1. ASSUME NEW o \in Ops, StartOp(o) PROVE Origins'
    BY <1>1 DEF StartOp, StartOwned, Twins, SameName, Shadowed
  <1>2. ASSUME NEW o \in Ops, RegisterCancel(o) PROVE Origins'
    <2>1. turn.kind = "register" /\ turn.ops = {o} /\ UNCHANGED <<tasks, home, open, disowned,
                                                              replaced>>
      BY <1>2 DEF RegisterCancel
    <2>2. op[o].pc = "none" /\ o \in tasks
      BY <2>1
    <2>3. op'[o].pc = "check" /\ op'[o].queued = op[o].queued
          /\ \A q \in Ops \ {o} : op'[q] = op[q]
      BY <1>2 DEF RegisterCancel
    <2>4. ASSUME NEW q \in Ops
          PROVE  /\ q \in tasks \/ op'[q].pc # "none" =>
                       home[q] \in open \cup disowned \cup replaced
                 /\ op'[q].pc = "none" => ~op'[q].queued
                 /\ op'[q].pc = "queued" => op'[q].queued /\ q \notin tasks
                 /\ op'[q].pc = "none" => q \notin tasks
      <3>1. CASE q = o
        BY <2>2, <2>3, <3>1
      <3>2. CASE q # o
        BY <2>1, <2>3, <3>2
      <3> QED
        BY <3>1, <3>2
    <2> QED
      BY <2>1, <2>4
  <1>3. ASSUME NEW o \in Ops, Prune(o) PROVE Origins'
    BY <1>3 DEF Prune
  <1>4. ASSUME NEW o \in Ops, CheckItem(o) PROVE Origins'
    BY <1>4 DEF CheckItem
  <1>5. ASSUME NEW o \in Ops, DoItem(o) PROVE Origins'
    BY <1>5 DEF DoItem
  <1>6. ASSUME NEW o \in Ops, FinishOp(o) PROVE Origins'
    BY <1>6 DEF FinishOp
  <1>7. CASE PressCancel
    BY <1>7 DEF PressCancel, OwnedBy
  <1>8. CASE CallCancels
    BY <1>8 DEF CallCancels, IdleTurn
  <1>9. CASE CloseTab
    BY <1>9 DEF CloseTab, Disowned
  <1>10. CASE NewTab
    BY <1>10 DEF NewTab, FreshTabs
  <1>11. CASE SwitchTab
    BY <1>11 DEF SwitchTab
  <1>12. ASSUME NEW o \in Ops, QueueOp(o) PROVE Origins'
    BY <1>12 DEF QueueOp
  <1>13. ASSUME NEW o \in Ops, RegisterQueued(o) PROVE Origins'
    BY <1>13 DEF RegisterQueued, StartOwned, Twins, SameName, Shadowed
  <1>14. CASE ReplaceTabs
    BY <1>14 DEF ReplaceTabs, FreshTabs
  <1>15. CASE UNCHANGED trackerVars
    BY <1>15 DEF trackerVars
  <1> QED
    BY <1>1, <1>2, <1>3, <1>4, <1>5, <1>6, <1>7, <1>8, <1>9, <1>10, <1>11, <1>12, <1>13,
       <1>14, <1>15 DEF TrackerNext, Work

\* DisownTasks and the closing of the tab go together.
LEMMA OwnerStep ==
    ASSUME TrackerTypeOK, TabsApart, Origins, OwnerIsHome, [TrackerNext]_trackerVars
    PROVE  OwnerIsHome'
  <1> USE TrackerAssumption DEF TrackerTypeOK, TabsApart, Origins, OwnerIsHome
  <1>1. ASSUME NEW o \in Ops, StartOp(o) PROVE OwnerIsHome'
    BY <1>1 DEF StartOp, StartOwned, Twins, SameName, Shadowed
  <1>2. ASSUME NEW o \in Ops, RegisterCancel(o) PROVE OwnerIsHome'
    BY <1>2 DEF RegisterCancel, IdleTurn
  <1>3. ASSUME NEW o \in Ops, Prune(o) PROVE OwnerIsHome'
    BY <1>3 DEF Prune
  <1>4. ASSUME NEW o \in Ops, CheckItem(o) PROVE OwnerIsHome'
    BY <1>4 DEF CheckItem
  <1>5. ASSUME NEW o \in Ops, DoItem(o) PROVE OwnerIsHome'
    BY <1>5 DEF DoItem
  <1>6. ASSUME NEW o \in Ops, FinishOp(o) PROVE OwnerIsHome'
    BY <1>6 DEF FinishOp
  <1>7. CASE PressCancel
    BY <1>7 DEF PressCancel, OwnedBy
  <1>8. CASE CallCancels
    BY <1>8 DEF CallCancels, IdleTurn
  <1>9. CASE CloseTab
    BY <1>9 DEF CloseTab, Disowned
  <1>10. CASE NewTab
    BY <1>10 DEF NewTab, FreshTabs
  <1>11. CASE SwitchTab
    BY <1>11 DEF SwitchTab
  <1>12. ASSUME NEW o \in Ops, QueueOp(o) PROVE OwnerIsHome'
    BY <1>12 DEF QueueOp
  <1>13. ASSUME NEW o \in Ops, RegisterQueued(o) PROVE OwnerIsHome'
    BY <1>13 DEF RegisterQueued, StartOwned, Twins, SameName, Shadowed
  <1>14. CASE ReplaceTabs
    BY <1>14 DEF ReplaceTabs, FreshTabs
  <1>15. CASE UNCHANGED trackerVars
    BY <1>15 DEF trackerVars
  <1> QED
    BY <1>1, <1>2, <1>3, <1>4, <1>5, <1>6, <1>7, <1>8, <1>9, <1>10, <1>11, <1>12, <1>13,
       <1>14, <1>15 DEF TrackerNext, Work

\* Only the deferred Finish sets FinishedAt.
LEMMA FinishedStep ==
    ASSUME TrackerTypeOK, Registering, FinishedIsDone, [TrackerNext]_trackerVars
    PROVE  FinishedIsDone'
  <1> USE TrackerAssumption DEF TrackerTypeOK, Registering, FinishedIsDone
  <1>1. ASSUME NEW o \in Ops, StartOp(o) PROVE FinishedIsDone'
    BY <1>1 DEF StartOp, StartOwned, Twins, SameName, Shadowed
  <1>2. ASSUME NEW o \in Ops, RegisterCancel(o) PROVE FinishedIsDone'
    BY <1>2 DEF RegisterCancel, IdleTurn
  <1>3. ASSUME NEW o \in Ops, Prune(o) PROVE FinishedIsDone'
    BY <1>3 DEF Prune
  <1>4. ASSUME NEW o \in Ops, CheckItem(o) PROVE FinishedIsDone'
    BY <1>4 DEF CheckItem
  <1>5. ASSUME NEW o \in Ops, DoItem(o) PROVE FinishedIsDone'
    BY <1>5 DEF DoItem
  <1>6. ASSUME NEW o \in Ops, FinishOp(o) PROVE FinishedIsDone'
    BY <1>6 DEF FinishOp
  <1>7. CASE PressCancel
    BY <1>7 DEF PressCancel, OwnedBy
  <1>8. CASE CallCancels
    BY <1>8 DEF CallCancels, IdleTurn
  <1>9. CASE CloseTab
    BY <1>9 DEF CloseTab, Disowned
  <1>10. CASE NewTab
    BY <1>10 DEF NewTab, FreshTabs
  <1>11. CASE SwitchTab
    BY <1>11 DEF SwitchTab
  <1>12. ASSUME NEW o \in Ops, QueueOp(o) PROVE FinishedIsDone'
    BY <1>12 DEF QueueOp
  <1>13. ASSUME NEW o \in Ops, RegisterQueued(o) PROVE FinishedIsDone'
    BY <1>13 DEF RegisterQueued, StartOwned, Twins, SameName, Shadowed
  <1>14. CASE ReplaceTabs
    BY <1>14 DEF ReplaceTabs, FreshTabs
  <1>15. CASE UNCHANGED trackerVars
    BY <1>15 DEF trackerVars
  <1> QED
    BY <1>1, <1>2, <1>3, <1>4, <1>5, <1>6, <1>7, <1>8, <1>9, <1>10, <1>11, <1>12, <1>13,
       <1>14, <1>15 DEF TrackerNext, Work

\* Nothing comes between the two critical sections but work on other operations.
LEMMA RegisteringStep ==
    ASSUME TrackerTypeOK, TabsApart, Origins, FinishedIsDone, Registering,
           [TrackerNext]_trackerVars
    PROVE  Registering'
  <1> USE TrackerAssumption DEF TrackerTypeOK, TabsApart, Origins, FinishedIsDone, Registering
  <1>1. ASSUME NEW o \in Ops, StartOp(o) PROVE Registering'
    BY <1>1 DEF StartOp, StartOwned, Twins, SameName, Shadowed
  <1>2. ASSUME NEW o \in Ops, RegisterCancel(o) PROVE Registering'
    BY <1>2 DEF RegisterCancel, IdleTurn
  <1>3. ASSUME NEW o \in Ops, Prune(o) PROVE Registering'
    BY <1>3 DEF Prune
  <1>4. ASSUME NEW o \in Ops, CheckItem(o) PROVE Registering'
    BY <1>4 DEF CheckItem
  <1>5. ASSUME NEW o \in Ops, DoItem(o) PROVE Registering'
    BY <1>5 DEF DoItem
  <1>6. ASSUME NEW o \in Ops, FinishOp(o) PROVE Registering'
    BY <1>6 DEF FinishOp
  <1>7. CASE PressCancel
    BY <1>7 DEF PressCancel, OwnedBy
  <1>8. CASE CallCancels
    BY <1>8 DEF CallCancels, IdleTurn
  <1>9. CASE CloseTab
    BY <1>9 DEF CloseTab, Disowned
  <1>10. CASE NewTab
    BY <1>10 DEF NewTab, FreshTabs
  <1>11. CASE SwitchTab
    BY <1>11 DEF SwitchTab
  <1>12. ASSUME NEW o \in Ops, QueueOp(o) PROVE Registering'
    BY <1>12 DEF QueueOp
  <1>13. ASSUME NEW o \in Ops, RegisterQueued(o) PROVE Registering'
    BY <1>13 DEF RegisterQueued, StartOwned, Twins, SameName, Shadowed
  <1>14. CASE ReplaceTabs
    BY <1>14 DEF ReplaceTabs, FreshTabs
  <1>15. CASE UNCHANGED trackerVars
    BY <1>15 DEF trackerVars
  <1> QED
    BY <1>1, <1>2, <1>3, <1>4, <1>5, <1>6, <1>7, <1>8, <1>9, <1>10, <1>11, <1>12, <1>13,
       <1>14, <1>15 DEF TrackerNext, Work

\* A running operation keeps its task, its cancel function and a tab.
LEMMA CancellableStep ==
    ASSUME TrackerInv, [TrackerNext]_trackerVars
    PROVE  StaysCancellable'
  <1> USE TrackerAssumption DEF TrackerInv, TrackerTypeOK, TabsApart, Origins, OwnerIsHome,
        FinishedIsDone, Registering, StaysCancellable, Running
  <1>1. ASSUME NEW o \in Ops, StartOp(o) PROVE StaysCancellable'
    BY <1>1 DEF StartOp, StartOwned, Twins, SameName, Shadowed
  <1>2. ASSUME NEW o \in Ops, RegisterCancel(o) PROVE StaysCancellable'
    BY <1>2 DEF RegisterCancel, IdleTurn
  <1>3. ASSUME NEW o \in Ops, Prune(o) PROVE StaysCancellable'
    BY <1>3 DEF Prune
  <1>4. ASSUME NEW o \in Ops, CheckItem(o) PROVE StaysCancellable'
    BY <1>4 DEF CheckItem
  <1>5. ASSUME NEW o \in Ops, DoItem(o) PROVE StaysCancellable'
    BY <1>5 DEF DoItem
  <1>6. ASSUME NEW o \in Ops, FinishOp(o) PROVE StaysCancellable'
    BY <1>6 DEF FinishOp
  <1>7. CASE PressCancel
    BY <1>7 DEF PressCancel, OwnedBy
  <1>8. CASE CallCancels
    BY <1>8 DEF CallCancels, IdleTurn
  <1>9. CASE CloseTab
    BY <1>9 DEF CloseTab, Disowned
  <1>10. CASE NewTab
    BY <1>10 DEF NewTab, FreshTabs
  <1>11. CASE SwitchTab
    BY <1>11 DEF SwitchTab
  <1>12. ASSUME NEW o \in Ops, QueueOp(o) PROVE StaysCancellable'
    BY <1>12 DEF QueueOp
  <1>13. ASSUME NEW o \in Ops, RegisterQueued(o) PROVE StaysCancellable'
    BY <1>13 DEF RegisterQueued, StartOwned, Twins, SameName, Shadowed
  <1>14. CASE ReplaceTabs
    BY <1>14 DEF ReplaceTabs, FreshTabs
  <1>15. CASE UNCHANGED trackerVars
    BY <1>15 DEF trackerVars
  <1> QED
    BY <1>1, <1>2, <1>3, <1>4, <1>5, <1>6, <1>7, <1>8, <1>9, <1>10, <1>11, <1>12, <1>13,
       <1>14, <1>15 DEF TrackerNext, Work

\* A cancelled loop begins no item.
LEMMA LatenessStep ==
    ASSUME TrackerTypeOK, Lateness, [TrackerNext]_trackerVars
    PROVE  Lateness'
  <1> USE TrackerAssumption DEF TrackerTypeOK, Lateness
  <1>1. ASSUME NEW o \in Ops, StartOp(o) PROVE Lateness'
    BY <1>1 DEF StartOp, StartOwned, Twins, SameName, Shadowed
  <1>2. ASSUME NEW o \in Ops, RegisterCancel(o) PROVE Lateness'
    BY <1>2 DEF RegisterCancel, IdleTurn
  <1>3. ASSUME NEW o \in Ops, Prune(o) PROVE Lateness'
    BY <1>3 DEF Prune
  <1>4. ASSUME NEW o \in Ops, CheckItem(o) PROVE Lateness'
    BY <1>4 DEF CheckItem
  <1>5. ASSUME NEW o \in Ops, DoItem(o) PROVE Lateness'
    BY <1>5 DEF DoItem
  <1>6. ASSUME NEW o \in Ops, FinishOp(o) PROVE Lateness'
    BY <1>6 DEF FinishOp
  <1>7. CASE PressCancel
    BY <1>7 DEF PressCancel, OwnedBy
  <1>8. CASE CallCancels
    BY <1>8 DEF CallCancels, IdleTurn
  <1>9. CASE CloseTab
    BY <1>9 DEF CloseTab, Disowned
  <1>10. CASE NewTab
    BY <1>10 DEF NewTab, FreshTabs
  <1>11. CASE SwitchTab
    BY <1>11 DEF SwitchTab
  <1>12. ASSUME NEW o \in Ops, QueueOp(o) PROVE Lateness'
    BY <1>12 DEF QueueOp
  <1>13. ASSUME NEW o \in Ops, RegisterQueued(o) PROVE Lateness'
    BY <1>13 DEF RegisterQueued, StartOwned, Twins, SameName, Shadowed
  <1>14. CASE ReplaceTabs
    BY <1>14 DEF ReplaceTabs, FreshTabs
  <1>15. CASE UNCHANGED trackerVars
    BY <1>15 DEF trackerVars
  <1> QED
    BY <1>1, <1>2, <1>3, <1>4, <1>5, <1>6, <1>7, <1>8, <1>9, <1>10, <1>11, <1>12, <1>13,
       <1>14, <1>15 DEF TrackerNext, Work

\* All the parts together.
LEMMA TrackerInductive == TrackerInv /\ [TrackerNext]_trackerVars => TrackerInv'
  BY TrackerTypeStep, TabsStep, OriginsStep, OwnerStep, FinishedStep, RegisteringStep,
     CancellableStep, LatenessStep
     DEF TrackerInv

-----------------------------------------------------------------------------
\* The invariant of every behaviour of the tracker.
THEOREM TrackerAlwaysInv == TrackerSpec => []TrackerInv
  BY TrackerInitial, TrackerInductive, PTL DEF TrackerSpec

\* Whatever tabs are opened, switched to and closed, a running mutation that no
\* other of its name followed is tracked, a bulk operation has its cancel
\* function, and it belongs to an open tab or to all (StartCancellable,
\* scheduleK8sCall, DisownTasks, Finish, Snapshot), unless its tab went with a
\* switch of the session (update_bookmarks_session.go:243).
THEOREM RunningIsCancellable == TrackerSpec => []StaysCancellable
  <1>1. TrackerInv => StaysCancellable
    BY DEF TrackerInv
  <1> QED
    BY <1>1, TrackerAlwaysInv, PTL

\* A cancelled operation works on one more item at most (commands_bulk.go).
THEOREM CancelIsObeyed == TrackerSpec => []CancelStopsWork
  <1>1. TrackerInv => CancelStopsWork
    BY DEF TrackerInv, Lateness, CancelStopsWork
  <1> QED
    BY <1>1, TrackerAlwaysInv, PTL

\* The key reaches the operations of the tab it is pressed in, and those of
\* closed tabs (CancelMutationsOwnedBy, ownedBy).
THEOREM KeyStaysInTab == TrackerSpec => CancelStaysInTab
  <1> DEFINE InTab == \A o \in Ops : pressed'[o] # pressed[o] =>
                          pressed'[o] = home[o] \/ home[o] \notin open
  <1>1. TrackerInv /\ [TrackerNext]_trackerVars => [InTab]_trackerVars
    <2> SUFFICES ASSUME TrackerInv, TrackerNext PROVE InTab
      OBVIOUS
    <2>1. CASE PressCancel
      <3> SUFFICES ASSUME NEW o \in Ops, pressed'[o] # pressed[o]
                   PROVE  pressed'[o] = home[o] \/ home[o] \notin open
        OBVIOUS
      <3>1. o \in tasks /\ OwnedBy(o, active) /\ pressed'[o] = active
        BY <2>1 DEF PressCancel
      <3>2. active \in open /\ open \subseteq Tabs
        BY DEF TrackerInv, TrackerTypeOK
      <3> QED
        BY <3>1, <3>2, TrackerAssumption DEF OwnedBy, TrackerInv, TabsApart, OwnerIsHome
    <2>2. CASE UNCHANGED pressed
      BY <2>2
    <2> QED
      BY <2>1, <2>2 DEF TrackerNext, Work, StartOp, RegisterCancel, Prune, CheckItem,
         DoItem, FinishOp, CallCancels, CloseTab, NewTab, SwitchTab, QueueOp, RegisterQueued,
         ReplaceTabs
  <1> QED
    BY <1>1, TrackerAlwaysInv, PTL DEF TrackerSpec, CancelStaysInTab

-----------------------------------------------------------------------------
(* The state files.                                                        *)

Inside == {"read", "write", "sync", "rename", "unlock"}
Copied == {"write", "sync", "rename"}

\* A save of a locked file holds the lock from before its read to its end, and
\* nobody else does.
LockExcludes ==
    /\ \A p, q \in lock : p = q
    /\ kind.locked => \A p \in Writers : saver[p].pc \in Inside => p \in lock

\* What a save has read still holds all that was reported as saved ...
CopyIsCurrent ==
    kind.locked /\ kind.merges =>
        /\ \A p \in Writers : saver[p].pc \in Copied => told \subseteq saver[p].mem
        /\ told \subseteq state.has

\* ... and its own entry, once written.
OwnIsWritten ==
    \A p \in Writers : saver[p].pc \in {"sync", "rename"} => p \in saver[p].mem

\* The content of a synced file is on the disk, and that of a temporary file
\* that is about to take its name.
WholeOnDisk ==
    kind.synced =>
        /\ state.synced /\ state.is # "torn"
        /\ \A p \in Writers : saver[p].pc = "rename" => saver[p].safe

\* A save that passed its read of a locked file did so before the file became
\* unreadable.
ReadBefore ==
    kind.locked =>
        /\ over \subseteq early
        /\ state.is \in Unreadable =>
               \A p \in Writers : saver[p].pc \in Copied => p \in early

FilesInv ==
    /\ StateFilesTypeOK /\ LockExcludes /\ CopyIsCurrent /\ OwnIsWritten
    /\ WholeOnDisk /\ ReadBefore

-----------------------------------------------------------------------------
\* The invariant holds of the files a session finds.
LEMMA FilesInitial == StateFilesInit => FilesInv
  <1> SUFFICES ASSUME StateFilesInit PROVE FilesInv
    OBVIOUS
  <1> USE FilesAssumption DEF StateFilesInit
  <1>1. StateFilesTypeOK
    BY DEF StateFilesTypeOK
  <1>2. LockExcludes /\ CopyIsCurrent /\ OwnIsWritten
    BY DEF LockExcludes, CopyIsCurrent, OwnIsWritten, Inside, Copied
  <1>3. WholeOnDisk /\ ReadBefore
    BY DEF WholeOnDisk, ReadBefore, Unreadable, Copied
  <1> QED
    BY <1>1, <1>2, <1>3 DEF FilesInv

SaverRecord == [pc : {"idle", "lock", "read", "write", "sync", "rename", "unlock", "over"},
                mem : SUBSET Writers, safe : BOOLEAN]

\* The type invariant, of each step.
LEMMA FilesTypeStep ==
    ASSUME StateFilesTypeOK, [StateFilesNext]_fileVars
    PROVE  StateFilesTypeOK'
  <1> USE FilesAssumption DEF StateFilesTypeOK, Go, At
  <1>1. ASSUME NEW p \in Writers, Save(p) PROVE StateFilesTypeOK'
    BY <1>1 DEF Save
  <1>2. ASSUME NEW p \in Writers, TakeLock(p) PROVE StateFilesTypeOK'
    BY <1>2 DEF TakeLock
  <1>3. ASSUME NEW p \in Writers, GiveUp(p) PROVE StateFilesTypeOK'
    BY <1>3 DEF GiveUp
  <1>4. ASSUME NEW p \in Writers, ReadFile(p) PROVE StateFilesTypeOK'
    BY <1>4 DEF ReadFile
  <1>5. ASSUME NEW p \in Writers, WriteTemp(p) PROVE StateFilesTypeOK'
    BY <1>5 DEF WriteTemp
  <1>6. ASSUME NEW p \in Writers, SyncTemp(p) PROVE StateFilesTypeOK'
    BY <1>6 DEF SyncTemp
  <1>7. ASSUME NEW p \in Writers, RenameTemp(p) PROVE StateFilesTypeOK'
    BY <1>7 DEF RenameTemp
  <1>8. ASSUME NEW p \in Writers, UnlockFile(p) PROVE StateFilesTypeOK'
    BY <1>8 DEF UnlockFile
  <1>9. ASSUME NEW p \in Writers, Crash(p) PROVE StateFilesTypeOK'
    BY <1>9 DEF Crash
  <1>10. CASE LosePower
    <2>1. saver' \in [Writers -> SaverRecord]
      BY <1>10 DEF LosePower, SaverRecord
    <2>2. lock' = {} /\ kind' = kind
      BY <1>10 DEF LosePower
    <2>3. CASE state.synced
      <3>1. UNCHANGED <<state, told, early, over>>
        BY <1>10, <2>3 DEF LosePower
      <3> QED
        BY <2>1, <2>2, <3>1 DEF SaverRecord
    <2>4. CASE ~state.synced
      <3>1. state' = [is |-> "torn", has |-> {}, synced |-> TRUE]
        BY <1>10, <2>4 DEF LosePower
      <3>2. told' = {} /\ early' = {} /\ over' = {}
        BY <1>10, <2>4 DEF LosePower
      <3> QED
        BY <2>1, <2>2, <3>1, <3>2 DEF SaverRecord
    <2> QED
      BY <2>3, <2>4
  <1>11. CASE Flush
    BY <1>11 DEF Flush
  <1>12. CASE EditByHand
    BY <1>12 DEF EditByHand, PastRead
  <1>13. CASE UNCHANGED fileVars
    BY <1>13 DEF fileVars
  <1> QED
    BY <1>1, <1>2, <1>3, <1>4, <1>5, <1>6, <1>7, <1>8, <1>9, <1>10, <1>11, <1>12, <1>13
       DEF StateFilesNext

\* The lock excludes, by flock and by the order of every save.
LEMMA ExcludesStep ==
    ASSUME StateFilesTypeOK, LockExcludes, [StateFilesNext]_fileVars
    PROVE  LockExcludes'
  <1> USE FilesAssumption DEF StateFilesTypeOK, Go, At, LockExcludes, Inside
  <1>1. ASSUME NEW p \in Writers, Save(p) PROVE LockExcludes'
    BY <1>1 DEF Save
  <1>2. ASSUME NEW p \in Writers, TakeLock(p) PROVE LockExcludes'
    BY <1>2 DEF TakeLock
  <1>3. ASSUME NEW p \in Writers, GiveUp(p) PROVE LockExcludes'
    BY <1>3 DEF GiveUp
  <1>4. ASSUME NEW p \in Writers, ReadFile(p) PROVE LockExcludes'
    BY <1>4 DEF ReadFile
  <1>5. ASSUME NEW p \in Writers, WriteTemp(p) PROVE LockExcludes'
    BY <1>5 DEF WriteTemp
  <1>6. ASSUME NEW p \in Writers, SyncTemp(p) PROVE LockExcludes'
    BY <1>6 DEF SyncTemp
  <1>7. ASSUME NEW p \in Writers, RenameTemp(p) PROVE LockExcludes'
    BY <1>7 DEF RenameTemp
  <1>8. ASSUME NEW p \in Writers, UnlockFile(p) PROVE LockExcludes'
    BY <1>8 DEF UnlockFile
  <1>9. ASSUME NEW p \in Writers, Crash(p) PROVE LockExcludes'
    BY <1>9 DEF Crash
  <1>10. CASE LosePower
    BY <1>10 DEF LosePower
  <1>11. CASE Flush
    BY <1>11 DEF Flush
  <1>12. CASE EditByHand
    BY <1>12 DEF EditByHand, PastRead
  <1>13. CASE UNCHANGED fileVars
    BY <1>13 DEF fileVars
  <1> QED
    BY <1>1, <1>2, <1>3, <1>4, <1>5, <1>6, <1>7, <1>8, <1>9, <1>10, <1>11, <1>12, <1>13
       DEF StateFilesNext

\* A save past its write keeps its own entry in its copy.
LEMMA WrittenStep ==
    ASSUME StateFilesTypeOK, OwnIsWritten, [StateFilesNext]_fileVars
    PROVE  OwnIsWritten'
  <1> USE FilesAssumption DEF StateFilesTypeOK, Go, At, OwnIsWritten
  <1>1. ASSUME NEW p \in Writers, Save(p) PROVE OwnIsWritten'
    BY <1>1 DEF Save
  <1>2. ASSUME NEW p \in Writers, TakeLock(p) PROVE OwnIsWritten'
    BY <1>2 DEF TakeLock
  <1>3. ASSUME NEW p \in Writers, GiveUp(p) PROVE OwnIsWritten'
    BY <1>3 DEF GiveUp
  <1>4. ASSUME NEW p \in Writers, ReadFile(p) PROVE OwnIsWritten'
    BY <1>4 DEF ReadFile
  <1>5. ASSUME NEW p \in Writers, WriteTemp(p) PROVE OwnIsWritten'
    BY <1>5 DEF WriteTemp
  <1>6. ASSUME NEW p \in Writers, SyncTemp(p) PROVE OwnIsWritten'
    BY <1>6 DEF SyncTemp
  <1>7. ASSUME NEW p \in Writers, RenameTemp(p) PROVE OwnIsWritten'
    BY <1>7 DEF RenameTemp
  <1>8. ASSUME NEW p \in Writers, UnlockFile(p) PROVE OwnIsWritten'
    BY <1>8 DEF UnlockFile
  <1>9. ASSUME NEW p \in Writers, Crash(p) PROVE OwnIsWritten'
    BY <1>9 DEF Crash
  <1>10. CASE LosePower
    BY <1>10 DEF LosePower
  <1>11. CASE Flush
    BY <1>11 DEF Flush
  <1>12. CASE EditByHand
    BY <1>12 DEF EditByHand, PastRead
  <1>13. CASE UNCHANGED fileVars
    BY <1>13 DEF fileVars
  <1> QED
    BY <1>1, <1>2, <1>3, <1>4, <1>5, <1>6, <1>7, <1>8, <1>9, <1>10, <1>11, <1>12, <1>13
       DEF StateFilesNext

\* Only the one save that holds the lock can change what the others copied.
LEMMA CopyStep ==
    ASSUME StateFilesTypeOK, LockExcludes, OwnIsWritten, CopyIsCurrent, [StateFilesNext]_fileVars
    PROVE  CopyIsCurrent'
  <1> USE FilesAssumption DEF StateFilesTypeOK, Go, At, CopyIsCurrent, LockExcludes,
        OwnIsWritten, Inside, Copied, Unreadable
  <1>1. ASSUME NEW p \in Writers, Save(p) PROVE CopyIsCurrent'
    BY <1>1 DEF Save
  <1>2. ASSUME NEW p \in Writers, TakeLock(p) PROVE CopyIsCurrent'
    BY <1>2 DEF TakeLock
  <1>3. ASSUME NEW p \in Writers, GiveUp(p) PROVE CopyIsCurrent'
    BY <1>3 DEF GiveUp
  <1>4. ASSUME NEW p \in Writers, ReadFile(p) PROVE CopyIsCurrent'
    BY <1>4 DEF ReadFile
  <1>5. ASSUME NEW p \in Writers, WriteTemp(p) PROVE CopyIsCurrent'
    BY <1>5 DEF WriteTemp
  <1>6. ASSUME NEW p \in Writers, SyncTemp(p) PROVE CopyIsCurrent'
    BY <1>6 DEF SyncTemp
  <1>7. ASSUME NEW p \in Writers, RenameTemp(p) PROVE CopyIsCurrent'
    BY <1>7 DEF RenameTemp
  <1>8. ASSUME NEW p \in Writers, UnlockFile(p) PROVE CopyIsCurrent'
    BY <1>8 DEF UnlockFile
  <1>9. ASSUME NEW p \in Writers, Crash(p) PROVE CopyIsCurrent'
    BY <1>9 DEF Crash
  <1>10. CASE LosePower
    BY <1>10 DEF LosePower
  <1>11. CASE Flush
    BY <1>11 DEF Flush
  <1>12. CASE EditByHand
    BY <1>12 DEF EditByHand, PastRead
  <1>13. CASE UNCHANGED fileVars
    BY <1>13 DEF fileVars
  <1> QED
    BY <1>1, <1>2, <1>3, <1>4, <1>5, <1>6, <1>7, <1>8, <1>9, <1>10, <1>11, <1>12, <1>13
       DEF StateFilesNext

\* A file that is synced before its rename is whole after each step.
LEMMA WholeStep ==
    ASSUME StateFilesTypeOK, WholeOnDisk, [StateFilesNext]_fileVars
    PROVE  WholeOnDisk'
  <1> USE FilesAssumption DEF StateFilesTypeOK, Go, At, WholeOnDisk
  <1>1. ASSUME NEW p \in Writers, Save(p) PROVE WholeOnDisk'
    BY <1>1 DEF Save
  <1>2. ASSUME NEW p \in Writers, TakeLock(p) PROVE WholeOnDisk'
    BY <1>2 DEF TakeLock
  <1>3. ASSUME NEW p \in Writers, GiveUp(p) PROVE WholeOnDisk'
    BY <1>3 DEF GiveUp
  <1>4. ASSUME NEW p \in Writers, ReadFile(p) PROVE WholeOnDisk'
    BY <1>4 DEF ReadFile
  <1>5. ASSUME NEW p \in Writers, WriteTemp(p) PROVE WholeOnDisk'
    BY <1>5 DEF WriteTemp
  <1>6. ASSUME NEW p \in Writers, SyncTemp(p) PROVE WholeOnDisk'
    BY <1>6 DEF SyncTemp
  <1>7. ASSUME NEW p \in Writers, RenameTemp(p) PROVE WholeOnDisk'
    BY <1>7 DEF RenameTemp
  <1>8. ASSUME NEW p \in Writers, UnlockFile(p) PROVE WholeOnDisk'
    BY <1>8 DEF UnlockFile
  <1>9. ASSUME NEW p \in Writers, Crash(p) PROVE WholeOnDisk'
    BY <1>9 DEF Crash
  <1>10. CASE LosePower
    BY <1>10 DEF LosePower
  <1>11. CASE Flush
    BY <1>11 DEF Flush
  <1>12. CASE EditByHand
    BY <1>12 DEF EditByHand, PastRead
  <1>13. CASE UNCHANGED fileVars
    BY <1>13 DEF fileVars
  <1> QED
    BY <1>1, <1>2, <1>3, <1>4, <1>5, <1>6, <1>7, <1>8, <1>9, <1>10, <1>11, <1>12, <1>13
       DEF StateFilesNext

\* Who read the file before it became unreadable did so before, and nobody later.
LEMMA ReadBeforeStep ==
    ASSUME StateFilesTypeOK, ReadBefore, [StateFilesNext]_fileVars
    PROVE  ReadBefore'
  <1> USE FilesAssumption DEF StateFilesTypeOK, Go, At, ReadBefore, Copied, Unreadable
  <1>1. ASSUME NEW p \in Writers, Save(p) PROVE ReadBefore'
    BY <1>1 DEF Save
  <1>2. ASSUME NEW p \in Writers, TakeLock(p) PROVE ReadBefore'
    BY <1>2 DEF TakeLock
  <1>3. ASSUME NEW p \in Writers, GiveUp(p) PROVE ReadBefore'
    BY <1>3 DEF GiveUp
  <1>4. ASSUME NEW p \in Writers, ReadFile(p) PROVE ReadBefore'
    BY <1>4 DEF ReadFile
  <1>5. ASSUME NEW p \in Writers, WriteTemp(p) PROVE ReadBefore'
    BY <1>5 DEF WriteTemp
  <1>6. ASSUME NEW p \in Writers, SyncTemp(p) PROVE ReadBefore'
    BY <1>6 DEF SyncTemp
  <1>7. ASSUME NEW p \in Writers, RenameTemp(p) PROVE ReadBefore'
    BY <1>7 DEF RenameTemp
  <1>8. ASSUME NEW p \in Writers, UnlockFile(p) PROVE ReadBefore'
    BY <1>8 DEF UnlockFile
  <1>9. ASSUME NEW p \in Writers, Crash(p) PROVE ReadBefore'
    BY <1>9 DEF Crash
  <1>10. CASE LosePower
    BY <1>10 DEF LosePower
  <1>11. CASE Flush
    BY <1>11 DEF Flush
  <1>12. CASE EditByHand
    BY <1>12 DEF EditByHand, PastRead
  <1>13. CASE UNCHANGED fileVars
    BY <1>13 DEF fileVars
  <1> QED
    BY <1>1, <1>2, <1>3, <1>4, <1>5, <1>6, <1>7, <1>8, <1>9, <1>10, <1>11, <1>12, <1>13
       DEF StateFilesNext

\* All the parts together.
LEMMA FilesInductive == FilesInv /\ [StateFilesNext]_fileVars => FilesInv'
  BY FilesTypeStep, ExcludesStep, WrittenStep, CopyStep, WholeStep, ReadBeforeStep
     DEF FilesInv

-----------------------------------------------------------------------------
\* The invariant of every behaviour of the savers.
THEOREM FilesAlwaysInv == StateFilesSpec => []FilesInv
  BY FilesInitial, FilesInductive, PTL DEF StateFilesSpec

\* The type invariant of the state files.
THEOREM FilesTypeCorrect == StateFilesSpec => []StateFilesTypeOK
  <1>1. FilesInv => StateFilesTypeOK
    BY DEF FilesInv
  <1> QED
    BY <1>1, FilesAlwaysInv, PTL

\* What a save of a locked file that merges reported as saved stays in the file
\* (withStateFileLock, loadStateFileStrict, saveStateFile).
THEOREM NoUpdateIsLost == StateFilesSpec => []NoUpdateLost
  <1>1. FilesInv => NoUpdateLost
    BY DEF FilesInv, CopyIsCurrent, NoUpdateLost
  <1> QED
    BY <1>1, FilesAlwaysInv, PTL

\* A file that is synced before its rename is never torn (writeFileReplace).
THEOREM SyncedStaysWhole == StateFilesSpec => []SyncedIsWhole
  <1>1. FilesInv => SyncedIsWhole
    BY DEF FilesInv, WholeOnDisk, SyncedIsWhole
  <1> QED
    BY <1>1, FilesAlwaysInv, PTL

\* Nothing but a save that had read it before takes the place of a file that
\* cannot be read (loadStateFileStrict and its callers).
THEOREM UnreadableStays == StateFilesSpec => []UnreadableIsKept
  <1>1. FilesInv => UnreadableIsKept
    BY DEF FilesInv, ReadBefore, UnreadableIsKept
  <1> QED
    BY <1>1, FilesAlwaysInv, PTL

-----------------------------------------------------------------------------
(* The security manager.                                                   *)

\* A call on its way has a key, a flight to deliver has the findings of its
\* key, and a call that was answered those of its own.
AskedForAKey == \A c \in Calls : call[c].pc # "idle" => call[c].key \in Keys
FlightHasItsKey == \A k \in Keys : flight[k].pc = "deliver" => flight[k].found = k
AnswerHasItsKey == \A c \in Calls : call[c].pc = "answered" => call[c].got = call[c].key

SecurityInv ==
    /\ SecurityTypeOK
    /\ AskedForAKey
    /\ FlightHasItsKey
    /\ AnswerHasItsKey
    /\ FindingsAsAsked

\* The invariant holds before the first call.
LEMMA SecurityInitial == SecurityInit => SecurityInv
  BY DEF SecurityInit, SecurityInv, SecurityTypeOK, NoFlight, AskedForAKey,
         FlightHasItsKey, AnswerHasItsKey, FindingsAsAsked

\* Types are kept by every step of a call, a flight or the cache.
LEMMA SecurityTypeStep ==
  SecurityTypeOK /\ AskedForAKey /\ [SecurityNext]_securityVars => SecurityTypeOK'
<1> SUFFICES ASSUME SecurityTypeOK, AskedForAKey, [SecurityNext]_securityVars
             PROVE  SecurityTypeOK'
    OBVIOUS
<1> USE DEF SecurityTypeOK
<1>1. ASSUME NEW c \in Calls, NEW k \in Keys, FetchAll(c, k) PROVE SecurityTypeOK'
    BY <1>1 DEF FetchAll
<1>2. ASSUME NEW c \in Calls, Lookup(c) PROVE SecurityTypeOK'
  <2> DEFINE Call == [pc : {"idle", "lookup", "join", "wait", "answered", "returned"},
                      key : Keys \cup {NoKey}, got : Keys \cup {NoKey}]
  <2>1. call[c] \in Call /\ cache.key \in Keys \cup {NoKey}
      OBVIOUS
  <2>2. PICK r \in Call : call' = [call EXCEPT ![c] = r]
    <3>1. CASE IsCached(call[c].key)
      <4> WITNESS [call[c] EXCEPT !.pc = "returned", !.got = cache.key] \in Call
      <4> QED
          BY <1>2, <3>1 DEF Lookup
    <3>2. CASE ~IsCached(call[c].key)
      <4> WITNESS [call[c] EXCEPT !.pc = "join"] \in Call
      <4> QED
          BY <1>2, <3>2 DEF Lookup
    <3> QED
        BY <3>1, <3>2
  <2> QED
      BY <1>2, <2>2 DEF Lookup
<1>3. ASSUME NEW c \in Calls, Join(c) PROVE SecurityTypeOK'
  <2>1. call[c].key \in Keys
      BY <1>3 DEF Join, AskedForAKey
  <2>2. flight' \in [Keys -> [pc : {"none", "recheck", "scan", "deliver"},
                              found : Keys \cup {NoKey}]]
      BY <1>3, <2>1 DEF Join
  <2> QED
      BY <1>3, <2>2 DEF Join
<1>4. ASSUME NEW c \in Calls, EndContext(c) PROVE SecurityTypeOK'
    BY <1>4 DEF EndContext
<1>5. ASSUME NEW c \in Calls, ReturnResult(c) PROVE SecurityTypeOK'
    BY <1>5 DEF ReturnResult
<1>6. ASSUME NEW c \in Calls, ReturnEmpty(c) PROVE SecurityTypeOK'
    BY <1>6 DEF ReturnEmpty
<1>7. ASSUME NEW c \in Calls, CallAgain(c) PROVE SecurityTypeOK'
    BY <1>7 DEF CallAgain
<1>8. ASSUME NEW k \in Keys, Recheck(k) PROVE SecurityTypeOK'
    BY <1>8 DEF Recheck
<1>9. ASSUME NEW k \in Keys, EndScan(k) PROVE SecurityTypeOK'
    BY <1>9 DEF EndScan
<1>10. ASSUME NEW k \in Keys, Deliver(k) PROVE SecurityTypeOK'
    BY <1>10 DEF Deliver, NoFlight
<1>11. CASE Expire
    BY <1>11 DEF Expire
<1>12. CASE Invalidate
    BY <1>12 DEF Invalidate
<1>13. CASE UNCHANGED securityVars
    BY <1>13 DEF securityVars
<1> QED
    BY <1>1, <1>2, <1>3, <1>4, <1>5, <1>6, <1>7, <1>8, <1>9, <1>10, <1>11, <1>12,
       <1>13 DEF SecurityNext

\* A result keeps its key on its way from the scan or the cache to the call.
LEMMA KeyStep ==
  SecurityInv /\ [SecurityNext]_securityVars
    => AskedForAKey' /\ FlightHasItsKey' /\ AnswerHasItsKey' /\ FindingsAsAsked'
<1> SUFFICES ASSUME SecurityInv, [SecurityNext]_securityVars
             PROVE  AskedForAKey' /\ FlightHasItsKey' /\ AnswerHasItsKey' /\ FindingsAsAsked'
    OBVIOUS
<1> DEFINE Kept == AskedForAKey' /\ FlightHasItsKey' /\ AnswerHasItsKey' /\ FindingsAsAsked'
<1> USE DEF SecurityInv, SecurityTypeOK, AskedForAKey, FlightHasItsKey,
            AnswerHasItsKey, FindingsAsAsked
<1>1. ASSUME NEW c \in Calls, NEW k \in Keys, FetchAll(c, k) PROVE Kept
    BY <1>1 DEF FetchAll
<1>2. ASSUME NEW c \in Calls, Lookup(c) PROVE Kept
    BY <1>2 DEF Lookup, IsCached
<1>3. ASSUME NEW c \in Calls, Join(c) PROVE Kept
    BY <1>3 DEF Join
<1>4. ASSUME NEW c \in Calls, EndContext(c) PROVE Kept
    BY <1>4 DEF EndContext
<1>5. ASSUME NEW c \in Calls, ReturnResult(c) PROVE Kept
    BY <1>5 DEF ReturnResult
<1>6. ASSUME NEW c \in Calls, ReturnEmpty(c) PROVE Kept
    BY <1>6 DEF ReturnEmpty
<1>7. ASSUME NEW c \in Calls, CallAgain(c) PROVE Kept
    BY <1>7 DEF CallAgain
<1>8. ASSUME NEW k \in Keys, Recheck(k) PROVE Kept
    BY <1>8 DEF Recheck, IsCached
<1>9. ASSUME NEW k \in Keys, EndScan(k) PROVE Kept
    BY <1>9 DEF EndScan
<1>10. ASSUME NEW k \in Keys, Deliver(k) PROVE Kept
    BY <1>10 DEF Deliver, NoFlight
<1>11. CASE Expire
    BY <1>11 DEF Expire
<1>12. CASE Invalidate
    BY <1>12 DEF Invalidate
<1>13. CASE UNCHANGED securityVars
    BY <1>13 DEF securityVars
<1> QED
    BY <1>1, <1>2, <1>3, <1>4, <1>5, <1>6, <1>7, <1>8, <1>9, <1>10, <1>11, <1>12,
       <1>13 DEF SecurityNext

\* The invariant of every behaviour of the manager.
THEOREM SecurityAlwaysInv == SecuritySpec => []SecurityInv
<1>1. SecurityInv /\ [SecurityNext]_securityVars => SecurityInv'
    BY SecurityTypeStep, KeyStep DEF SecurityInv
<1> QED
    BY SecurityInitial, <1>1, PTL DEF SecuritySpec

\* A call returns the findings of the context and namespace it asked for, and
\* none only when its own context is done: whoever began the scan it joined,
\* and whatever was invalidated, cached or evicted meanwhile.
THEOREM FindingsAreAsAsked == SecuritySpec => []FindingsAsAsked
<1>1. SecurityInv => FindingsAsAsked
    BY DEF SecurityInv
<1> QED
    BY SecurityAlwaysInv, <1>1, PTL

\* Only the flight's second look at the cache begins a scan, and it does not
\* when the findings of its key are there and fresh.
THEOREM NoScanIsNeedless == SecuritySpec => NoNeedlessScan
<1> DEFINE Needed == \A k \in Keys : flight[k].pc # "scan" /\ flight'[k].pc = "scan" =>
                         ~(cache.key = k /\ cache.fresh)
<1>1. SecurityInv /\ [SecurityNext]_securityVars => [Needed]_securityVars
  <2> SUFFICES ASSUME SecurityInv, SecurityNext PROVE Needed
      OBVIOUS
  <2> USE DEF SecurityInv, SecurityTypeOK
  <2>1. ASSUME NEW c \in Calls, Join(c) PROVE Needed
      BY <2>1 DEF Join, AskedForAKey
  <2>2. ASSUME NEW k \in Keys, Recheck(k) PROVE Needed
      BY <2>2 DEF Recheck, IsCached
  <2>3. ASSUME NEW k \in Keys, EndScan(k) PROVE Needed
      BY <2>3 DEF EndScan
  <2>4. ASSUME NEW k \in Keys, Deliver(k) PROVE Needed
      BY <2>4 DEF Deliver, NoFlight
  <2>5. CASE UNCHANGED flight
      BY <2>5
  <2> QED
      BY <2>1, <2>2, <2>3, <2>4, <2>5 DEF SecurityNext, FetchAll, Lookup, EndContext,
         ReturnResult, ReturnEmpty, CallAgain, Expire, Invalidate
<1> QED
    BY SecurityAlwaysInv, <1>1, PTL DEF SecuritySpec, NoNeedlessScan
-----------------------------------------------------------------------------
(* The badges.                                                             *)

\* A tab at a cluster has the manager of it, unless the user strayed.
ManagersOfTheirPlace ==
    ~strayed => \A t \in shownPanes : pane[t].ctx # NoCluster => pane[t].mgr = pane[t].ctx

\* The findings under way are those of the cluster the message names.
PostsOfTheirPlace == ~strayed => \A p \in posts : p.of = p.ctx

BadgesInv ==
    /\ BadgesTypeOK /\ ManagersOfTheirPlace /\ PostsOfTheirPlace
    /\ BadgesFollowThePicker

\* The invariant holds in a new session: the one seed is of the current cluster.
LEMMA BadgesInitial == BadgesInit => BadgesInv
  <1> SUFFICES ASSUME BadgesInit PROVE BadgesInv
    OBVIOUS
  <1> USE BadgesAssumption
  <1>1. \A p \in posts : p = [kind |-> "seed", ctx |-> Current, of |-> Current]
    <2>1. disk[Current] \in {Current, NoCluster}
      BY DEF BadgesInit
    <2> QED
      BY <2>1 DEF BadgesInit, Seeds
  <1>2. Closed \in [ctx : OrNone, ns : Scopes, index : OrNone, mgr : Clusters]
    <2>1. PICK n \in Scopes : TRUE
      BY DEF BadgesInit
    <2> QED
      BY <2>1 DEF Closed, NoPane, OrNone
  <1>3. pane \in [Panes -> [ctx : OrNone, ns : Scopes, index : OrNone, mgr : Clusters]]
    <2>1. PICK n \in Scopes : pane = [t \in Panes |-> IF t = front THEN NoPane(n) ELSE Closed]
      BY DEF BadgesInit
    <2>2. NoPane(n) \in [ctx : OrNone, ns : Scopes, index : OrNone, mgr : Clusters]
      BY DEF NoPane, OrNone
    <2> QED
      BY <1>2, <2>1, <2>2
  <1>4. disk \in [Clusters -> OrNone]
    BY DEF BadgesInit
  <1>5. BadgesTypeOK
    <2>1. posts \subseteq [kind : {"seed"}, ctx : Clusters, of : Clusters]
      BY <1>1
    <2>2. front \in shownPanes /\ shownPanes \subseteq Panes /\ client \in Clusters
      BY DEF BadgesInit
    <2>3. moves \in 0 .. MaxMoves
      BY DEF BadgesInit
    <2>4. strayed \in BOOLEAN
      BY DEF BadgesInit
    <2> QED
      BY <1>3, <1>4, <2>1, <2>2, <2>3, <2>4 DEF BadgesTypeOK
  <1>6. \A t \in shownPanes : pane[t].ctx = NoCluster
    BY DEF BadgesInit, NoPane
  <1> QED
    BY <1>1, <1>5, <1>6 DEF BadgesInit, BadgesInv, ManagersOfTheirPlace, PostsOfTheirPlace,
       BadgesFollowThePicker

\* What a rebuild adds is of the cluster it is for, when the files are right.
LEMMA RebuildIsOf ==
    ASSUME NEW c \in Clusters, NEW n \in Scopes, BadgesTypeOK, Rebuild(c, n)
    PROVE  /\ client' \in Clusters
           /\ posts' \subseteq [kind : {"scan"}, ctx : Clusters, ns : Scopes, of : Clusters]
                               \cup [kind : {"seed"}, ctx : Clusters, of : Clusters]
           /\ disk[c] \in {c, NoCluster} => \A p \in posts' \ posts : p.of = p.ctx
  BY DEF BadgesTypeOK, Rebuild, Scan, Seeds, OrNone

\* Types are kept by the keys, the tabs and the answers.
LEMMA BadgesTypeStep ==
    ASSUME BadgesTypeOK, [BadgesNext]_badgeVars
    PROVE  BadgesTypeOK'
  <1> USE BadgesAssumption DEF BadgesTypeOK, OrNone
  <1>1. ASSUME NEW c \in Clusters, Pick(c) PROVE BadgesTypeOK'
    <2>1. PICK n \in Scopes : Rebuild(c, n)
      BY <1>1 DEF Pick
    <2> QED
      BY <1>1, <2>1, RebuildIsOf DEF Pick, Move, Here
  <1>2. ASSUME NEW c \in Clusters, Jump(c) PROVE BadgesTypeOK'
    BY <1>2 DEF Jump, Move, Here
  <1>3. ASSUME NEW c \in Clusters, RestoreSession(c) PROVE BadgesTypeOK'
    <2>1. PICK n \in Scopes :
               /\ pane' = [t \in Panes |-> IF t # front THEN Closed
                                          ELSE [Here EXCEPT !.ctx = c, !.ns = n, !.mgr = c]]
               /\ Rebuild(c, n)
      BY <1>3 DEF RestoreSession
    <2> DEFINE P == [ctx : OrNone, ns : Scopes, index : OrNone, mgr : Clusters]
    <2>2. Closed \in P
      BY <2>1 DEF Closed, NoPane
    <2>3. [Here EXCEPT !.ctx = c, !.ns = n, !.mgr = c] \in P
      BY DEF Here
    <2>4. pane' \in [Panes -> P]
      BY <2>1, <2>2, <2>3
    <2> QED
      BY <1>3, <2>1, <2>4, RebuildIsOf DEF RestoreSession, Move
  <1>4. CASE Leave
    BY <1>4 DEF Leave, Here
  <1>5. CASE SetNamespace
    BY <1>5 DEF SetNamespace, Here
  <1>6. CASE LoadFindings
    BY <1>6 DEF LoadFindings, Room, Here, Scan
  <1>7. ASSUME NEW p \in posts, FindingsLoaded(p) PROVE BadgesTypeOK'
    BY <1>7 DEF FindingsLoaded, IsStale, Here
  <1>8. ASSUME NEW p \in posts, SeedLoaded(p) PROVE BadgesTypeOK'
    BY <1>8 DEF SeedLoaded, IsStale, Here
  <1>9. ASSUME NEW p \in posts, ScanLost(p) PROVE BadgesTypeOK'
    BY <1>9 DEF ScanLost
  <1>10. CASE NewPane
    BY <1>10 DEF NewPane, Here
  <1>11. CASE SwitchPane
    BY <1>11 DEF SwitchPane
  <1>12. CASE ClosePane
    <2>1. Closed \in [ctx : OrNone, ns : Scopes, index : OrNone, mgr : Clusters]
      <3>1. PICK n \in Scopes : TRUE
        BY DEF OrNone
      <3> QED
        BY <3>1 DEF Closed, NoPane
    <2> QED
      BY <1>12, <2>1 DEF ClosePane
  <1>13. CASE UNCHANGED badgeVars
    BY <1>13 DEF badgeVars
  <1> QED
    BY <1>1, <1>2, <1>3, <1>4, <1>5, <1>6, <1>7, <1>8, <1>9, <1>10, <1>11, <1>12, <1>13
       DEF BadgesNext

\* Picking a cluster makes its manager; tabs take theirs along.
LEMMA ManagersStep ==
    ASSUME BadgesInv, [BadgesNext]_badgeVars
    PROVE  ManagersOfTheirPlace'
  <1> USE BadgesAssumption DEF BadgesInv, BadgesTypeOK, ManagersOfTheirPlace, OrNone
  <1>1. ASSUME NEW c \in Clusters, Pick(c) PROVE ManagersOfTheirPlace'
    BY <1>1 DEF Pick, Move, Here
  <1>2. ASSUME NEW c \in Clusters, Jump(c) PROVE ManagersOfTheirPlace'
    BY <1>2 DEF Jump, Move, Here
  <1>3. ASSUME NEW c \in Clusters, RestoreSession(c) PROVE ManagersOfTheirPlace'
    BY <1>3 DEF RestoreSession, Move, Here
  <1>4. CASE Leave
    BY <1>4 DEF Leave, Here
  <1>5. CASE SetNamespace
    BY <1>5 DEF SetNamespace, Here
  <1>6. CASE LoadFindings
    BY <1>6 DEF LoadFindings, Room, Here, Scan
  <1>7. ASSUME NEW p \in posts, FindingsLoaded(p) PROVE ManagersOfTheirPlace'
    BY <1>7 DEF FindingsLoaded, IsStale, Here
  <1>8. ASSUME NEW p \in posts, SeedLoaded(p) PROVE ManagersOfTheirPlace'
    BY <1>8 DEF SeedLoaded, IsStale, Here
  <1>9. ASSUME NEW p \in posts, ScanLost(p) PROVE ManagersOfTheirPlace'
    BY <1>9 DEF ScanLost
  <1>10. CASE NewPane
    BY <1>10 DEF NewPane, Here
  <1>11. CASE SwitchPane
    BY <1>11 DEF SwitchPane
  <1>12. CASE ClosePane
    BY <1>12 DEF ClosePane
  <1>13. CASE UNCHANGED badgeVars
    BY <1>13 DEF badgeVars
  <1> QED
    BY <1>1, <1>2, <1>3, <1>4, <1>5, <1>6, <1>7, <1>8, <1>9, <1>10, <1>11, <1>12, <1>13
       DEF BadgesNext

\* A scan begins with the manager of the tab's cluster.
LEMMA PostsStep ==
    ASSUME BadgesInv, [BadgesNext]_badgeVars
    PROVE  PostsOfTheirPlace'
  <1> USE BadgesAssumption DEF BadgesInv, BadgesTypeOK, ManagersOfTheirPlace,
        PostsOfTheirPlace, BadgesFollowThePicker, OrNone
  <1>1. ASSUME NEW c \in Clusters, Pick(c) PROVE PostsOfTheirPlace'
    <2>1. PICK n \in Scopes : Rebuild(c, n)
      BY <1>1 DEF Pick
    <2> QED
      BY <1>1, <2>1, RebuildIsOf DEF Pick, Move, Here
  <1>2. ASSUME NEW c \in Clusters, Jump(c) PROVE PostsOfTheirPlace'
    BY <1>2 DEF Jump, Move, Here
  <1>3. ASSUME NEW c \in Clusters, RestoreSession(c) PROVE PostsOfTheirPlace'
    <2>1. PICK n \in Scopes : Rebuild(c, n)
      BY <1>3 DEF RestoreSession
    <2> QED
      BY <1>3, <2>1, RebuildIsOf DEF RestoreSession, Move, Here
  <1>4. CASE Leave
    BY <1>4 DEF Leave, Here
  <1>5. CASE SetNamespace
    BY <1>5 DEF SetNamespace, Here
  <1>6. CASE LoadFindings
    <2>1. CASE Here.ctx = NoCluster
      BY <1>6, <2>1 DEF LoadFindings
    <2>2. CASE Here.ctx # NoCluster
      <3>1. posts' = posts \cup {Scan(Here.ctx, Here.ns, Here.mgr)} /\ strayed' = strayed
        BY <1>6, <2>2 DEF LoadFindings
      <3>2. ~strayed => Here.mgr = Here.ctx
        BY <2>2 DEF Here
      <3> QED
        BY <3>1, <3>2 DEF Scan
    <2> QED
      BY <2>1, <2>2
  <1>7. ASSUME NEW p \in posts, FindingsLoaded(p) PROVE PostsOfTheirPlace'
    BY <1>7 DEF FindingsLoaded, IsStale, Here
  <1>8. ASSUME NEW p \in posts, SeedLoaded(p) PROVE PostsOfTheirPlace'
    BY <1>8 DEF SeedLoaded, IsStale, Here
  <1>9. ASSUME NEW p \in posts, ScanLost(p) PROVE PostsOfTheirPlace'
    BY <1>9 DEF ScanLost
  <1>10. CASE NewPane
    BY <1>10 DEF NewPane, Here
  <1>11. CASE SwitchPane
    BY <1>11 DEF SwitchPane
  <1>12. CASE ClosePane
    BY <1>12 DEF ClosePane
  <1>13. CASE UNCHANGED badgeVars
    BY <1>13 DEF badgeVars
  <1> QED
    BY <1>1, <1>2, <1>3, <1>4, <1>5, <1>6, <1>7, <1>8, <1>9, <1>10, <1>11, <1>12, <1>13
       DEF BadgesNext

\* An answer that is not of the tab's cluster is dropped.
LEMMA FollowStep ==
    ASSUME BadgesInv, [BadgesNext]_badgeVars
    PROVE  BadgesFollowThePicker'
  <1> USE BadgesAssumption DEF BadgesInv, BadgesTypeOK, ManagersOfTheirPlace,
        PostsOfTheirPlace, BadgesFollowThePicker, OrNone
  <1>1. ASSUME NEW c \in Clusters, Pick(c) PROVE BadgesFollowThePicker'
    BY <1>1 DEF Pick, Move, Here
  <1>2. ASSUME NEW c \in Clusters, Jump(c) PROVE BadgesFollowThePicker'
    BY <1>2 DEF Jump, Move, Here
  <1>3. ASSUME NEW c \in Clusters, RestoreSession(c) PROVE BadgesFollowThePicker'
    BY <1>3 DEF RestoreSession, Move, Here
  <1>4. CASE Leave
    BY <1>4 DEF Leave, Here
  <1>5. CASE SetNamespace
    BY <1>5 DEF SetNamespace, Here
  <1>6. CASE LoadFindings
    BY <1>6 DEF LoadFindings, Room, Here, Scan
  <1>7. ASSUME NEW p \in posts, FindingsLoaded(p) PROVE BadgesFollowThePicker'
    BY <1>7 DEF FindingsLoaded, IsStale, Here
  <1>8. ASSUME NEW p \in posts, SeedLoaded(p) PROVE BadgesFollowThePicker'
    BY <1>8 DEF SeedLoaded, IsStale, Here
  <1>9. ASSUME NEW p \in posts, ScanLost(p) PROVE BadgesFollowThePicker'
    BY <1>9 DEF ScanLost
  <1>10. CASE NewPane
    BY <1>10 DEF NewPane, Here
  <1>11. CASE SwitchPane
    BY <1>11 DEF SwitchPane
  <1>12. CASE ClosePane
    BY <1>12 DEF ClosePane
  <1>13. CASE UNCHANGED badgeVars
    BY <1>13 DEF badgeVars
  <1> QED
    BY <1>1, <1>2, <1>3, <1>4, <1>5, <1>6, <1>7, <1>8, <1>9, <1>10, <1>11, <1>12, <1>13
       DEF BadgesNext

-----------------------------------------------------------------------------
\* The invariant of every behaviour.
THEOREM BadgesAlwaysInv == BadgesSpec => []BadgesInv
  <1>1. BadgesInv /\ [BadgesNext]_badgeVars => BadgesInv'
    BY BadgesTypeStep, ManagersStep, PostsStep, FollowStep DEF BadgesInv
  <1> QED
    BY BadgesInitial, <1>1, PTL DEF BadgesSpec

\* However late the answers of probes, scans and seeds come, no tab shows the
\* badges of another cluster, and no cluster's file gets another's findings,
\* while the user changes clusters in the list (navigateChildCluster,
\* updateSecurityFindingsLoaded, updateSecurityFindingsSeed).
THEOREM BadgesAreOfTheirCluster == BadgesSpec => []BadgesFollowThePicker
  <1>1. BadgesInv => BadgesFollowThePicker
    BY DEF BadgesInv
  <1> QED
    BY <1>1, BadgesAlwaysInv, PTL

-----------------------------------------------------------------------------
(***************************************************************************)
(* The lists of the explorer.                                              *)
(*                                                                         *)
(* That a tab shows the lists of its place is not inductive: an answer of  *)
(* the generation the tab is at has to be of the place the tab is at       *)
(* (AnswerFor).  The rows of the types and of the clusters carry no        *)
(* generation and come at any place, which is astray unless the types are  *)
(* in front.  That an empty list is awaited, astray or not, needs the tabs *)
(* that are not shown to be loaded or to load when they are                *)
(* (LazyElsewhere).                                                        *)
(***************************************************************************)
ViewRecord ==
    [ctx : Contexts, rt : Types \cup {NoType}, ns : Namespaces, gen : Nat,
     middle : Lists \cup {NoList}, left : Lists \cup {NoList},
     right : Lists \cup {NoList}, hover : Types,
     cache : [Contexts \X Types -> Entry], lazy : BOOLEAN]
Answer == [kind : {"main", "preview", "types", "clusters"}, gen : Nat, list : Lists]

ListsShape ==
    /\ Nowhere \in Namespaces
    /\ tab \in [Views -> ViewRecord]
    /\ opened \subseteq Views /\ up \in opened
    /\ msgs \subseteq Answer
    /\ keys \in 0 .. MaxKeys
    /\ crossed \in BOOLEAN /\ overrun \in BOOLEAN /\ unasked \in BOOLEAN

\* A generation is counted up by a key.
GensAreKeys == /\ \A t \in Views : tab[t].gen <= keys
               /\ \A p \in msgs : p.gen <= keys

\* A list is cached before its fingerprint.
PrintsHaveLists(v) ==
    \A k \in Contexts \X Types : v.cache[k].print # NoList => v.cache[k].list # NoList

CacheIsOwn(v) ==
    \A k \in Contexts \X Types :
        /\ v.cache[k].list # NoList => v.cache[k].list.ctx = k[1] /\ v.cache[k].list.rt = k[2]
        /\ v.cache[k].print # NoList => v.cache[k].list.ns = v.cache[k].print
OwnLists(v) ==
    /\ v.middle # NoList => v.middle.rt = v.rt
    /\ v.middle # NoList /\ v.rt # NoType => v.middle.ctx = v.ctx
    /\ v.left # NoList => v.left.rt = NoType
    /\ v.right # NoList => v.rt = NoType /\ v.right.rt = v.hover
    /\ CacheIsOwn(v)

\* What the answer p may say to a tab at v.
AnswerFor(p, v) ==
    /\ p.kind = "types" => p.list.rt = NoType
    /\ p.kind \in {"main", "preview"} => p.gen <= v.gen
    /\ p.kind \in {"main", "preview"} /\ p.gen = v.gen =>
         /\ p.list.ctx = v.ctx /\ p.list.ns = v.ns
         /\ p.kind = "main" => p.list.rt = v.rt
         /\ p.kind = "preview" => v.rt = NoType /\ p.list.rt = v.hover

\* A load that is under way for the empty list of v.
Awaits(v, M) == v.rt # NoType /\ v.middle = NoList => Main(v) \in M

\* Lists may be of another place.
Astray == crossed \/ overrun

ListsPlaced == ~Astray => /\ \A t \in Views : OwnLists(tab[t])
                          /\ \A p \in msgs : AnswerFor(p, tab[up])
LazyElsewhere ==
    ~crossed /\ ~unasked => \A t \in opened \ {up} :
        tab[t].rt # NoType /\ tab[t].middle = NoList => tab[t].lazy
TopAwaits == ~crossed /\ ~unasked => Awaits(tab[up], msgs)

TabListsInv ==
    /\ ListsShape /\ GensAreKeys
    /\ \A t \in Views : PrintsHaveLists(tab[t])
    /\ ListsPlaced /\ LazyElsewhere /\ TopAwaits

-----------------------------------------------------------------------------
\* An action of the shown tab, from what it does to that tab and to the answers.
LEMMA StepAtTop ==
  ASSUME TabListsInv, NEW v, NEW w, w = tab[up], v \in ViewRecord, Put(v),
         UNCHANGED <<opened, up>>,
         msgs' \subseteq Answer, keys' \in 0 .. MaxKeys, keys' >= keys,
         crossed' \in BOOLEAN, overrun' \in BOOLEAN, unasked' \in BOOLEAN,
         crossed => crossed', overrun => overrun', unasked => unasked',
         v.gen <= keys', \A p \in msgs' : p.gen <= keys',
         PrintsHaveLists(v),
         ~Astray' => OwnLists(v) /\ \A p \in msgs' : AnswerFor(p, v),
         ~crossed' /\ ~unasked' => Awaits(v, msgs')
  PROVE  TabListsInv'
<1>0. /\ ListsShape /\ GensAreKeys /\ ListsPlaced /\ LazyElsewhere
      /\ \A t \in Views : PrintsHaveLists(tab[t])
      /\ tab \in [Views -> ViewRecord] /\ opened \subseteq Views /\ up \in opened /\ up \in Views
  BY DEF TabListsInv, ListsShape
<1>1. /\ tab' \in [Views -> ViewRecord] /\ tab'[up] = v
      /\ \A t \in Views : t # up => tab'[t] = tab[t]
  BY <1>0 DEF Put
<1>2. ListsShape'
  BY <1>0, <1>1 DEF ListsShape
<1>3. GensAreKeys'
  <2>1. ASSUME NEW t \in Views PROVE tab'[t].gen <= keys'
    <3>1. CASE t = up
      BY <1>1, <3>1
    <3>2. CASE t # up
      <4>1. tab'[t] = tab[t] /\ tab[t] \in ViewRecord /\ tab[t].gen <= keys
        BY <1>0, <1>1, <3>2 DEF GensAreKeys
      <4>2. tab[t].gen \in Nat /\ keys \in Nat
        BY <1>0, <4>1 DEF ViewRecord, ListsShape
      <4> QED
        BY <4>1, <4>2
    <3> QED
      BY <3>1, <3>2
  <2> QED
    BY <2>1 DEF GensAreKeys
<1>4. \A t \in Views : PrintsHaveLists(tab'[t])
  BY <1>0, <1>1
<1>5. ListsPlaced'
  <2>1. SUFFICES ASSUME ~Astray'
                 PROVE  /\ \A t \in Views : OwnLists(tab'[t])
                        /\ \A p \in msgs' : AnswerFor(p, tab'[up'])
    BY DEF ListsPlaced, AnswerFor, OwnLists, CacheIsOwn
  <2>2. \A t \in Views : OwnLists(tab[t])
    BY <1>0, <2>1 DEF ListsPlaced, Astray
  <2> QED
    BY <1>0, <1>1, <2>1, <2>2
<1>6. LazyElsewhere'
  BY <1>0, <1>1 DEF LazyElsewhere
<1>7. TopAwaits'
  <2>1. tab'[up'] = v
    BY <1>1
  <2> QED
    BY <2>1 DEF TopAwaits, Awaits, Main
<1> QED
  BY <1>2, <1>3, <1>4, <1>5, <1>6, <1>7 DEF TabListsInv, PrintsHaveLists

\* What the invariant says of the shown tab.
LEMMA TopFacts ==
  ASSUME TabListsInv
  PROVE  /\ Top \in ViewRecord /\ PrintsHaveLists(Top) /\ Top.gen <= keys /\ up \in Views
         /\ Top.ctx \in Contexts /\ Top.rt \in Types \cup {NoType} /\ Top.ns \in Namespaces
         /\ Top.gen \in Nat /\ Top.hover \in Types
         /\ ~Astray => OwnLists(Top) /\ \A p \in msgs : AnswerFor(p, Top)
         /\ ~crossed /\ ~unasked => Awaits(Top, msgs)
<1>1. /\ tab \in [Views -> ViewRecord] /\ up \in Views /\ Top = tab[up]
      /\ GensAreKeys /\ ListsPlaced /\ TopAwaits /\ \A t \in Views : PrintsHaveLists(tab[t])
  BY DEF TabListsInv, ListsShape, Top
<1>2. Top \in ViewRecord
  BY <1>1
<1>3. /\ Top.ctx \in Contexts /\ Top.rt \in Types \cup {NoType} /\ Top.ns \in Namespaces
      /\ Top.gen \in Nat /\ Top.hover \in Types
  BY <1>2 DEF ViewRecord
<1>4. PrintsHaveLists(Top) /\ Top.gen <= keys
  BY <1>1 DEF GensAreKeys
<1>5. /\ ~Astray => OwnLists(Top) /\ \A p \in msgs : AnswerFor(p, Top)
      /\ ~crossed /\ ~unasked => Awaits(Top, msgs)
  BY <1>1 DEF ListsPlaced, TopAwaits
<1> QED
  BY <1>1, <1>2, <1>3, <1>4, <1>5

\* The loads that a tab asks for.
LEMMA MainAnswers ==
  ASSUME NEW v \in ViewRecord
  PROVE  Main(v) \in Answer /\ Main(v).gen = v.gen /\ AnswerFor(Main(v), v)
BY DEF ViewRecord, Main, Answer, AnswerFor, ListOf, Lists

LEMMA RowsAnswer ==
  ASSUME NEW c \in Contexts, Nowhere \in Namespaces
  PROVE  /\ Rows(c) \in Answer /\ Rows(c).gen = 0
         /\ \A v : AnswerFor(Rows(c), v)
         /\ TypesOf(c) \in Lists /\ TypesOf(c).rt = NoType
BY DEF Rows, Answer, AnswerFor, TypesOf, ListOf, Lists

LEMMA PreviewAnswers ==
  ASSUME NEW v \in ViewRecord, PrintsHaveLists(v)
  PROVE  /\ Preview(v) \in Answer /\ Preview(v).gen = v.gen
         /\ CacheIsOwn(v) /\ v.rt = NoType => AnswerFor(Preview(v), v)
<1>0. /\ v.ctx \in Contexts /\ v.hover \in Types /\ v.ns \in Namespaces /\ v.gen \in Nat
      /\ v.cache \in [Contexts \X Types -> Entry] /\ NoList \notin Namespaces
  BY ListsAssumption DEF ViewRecord
<1> DEFINE k == <<v.ctx, v.hover>>
<1>1. /\ k \in Contexts \X Types /\ v.cache[k] \in Entry /\ k[1] = v.ctx /\ k[2] = v.hover
  BY <1>0
<1>2. CASE Fresh(v)
  <2>1. v.cache[k].print = v.ns
    BY <1>2 DEF Fresh
  <2>2. v.cache[k].list \in Lists
    <3>1. v.cache[k].list # NoList
      BY <1>0, <1>1, <2>1 DEF PrintsHaveLists
    <3> QED
      BY <1>1, <3>1 DEF Entry
  <2>3. Preview(v) = [kind |-> "preview", gen |-> v.gen, list |-> v.cache[k].list]
    BY <1>2 DEF Preview
  <2>4. CacheIsOwn(v) => /\ v.cache[k].list.ctx = v.ctx /\ v.cache[k].list.rt = v.hover
                         /\ v.cache[k].list.ns = v.ns
    BY <1>0, <1>1, <2>1, <2>2, ListsAssumption DEF CacheIsOwn
  <2> HIDE DEF k
  <2> QED
    BY <1>0, <2>2, <2>3, <2>4 DEF Answer, AnswerFor
<1>3. CASE ~Fresh(v)
  <2>1. Preview(v) = [kind |-> "preview", gen |-> v.gen, list |-> ListOf(v.ctx, v.hover, v.ns)]
    BY <1>3 DEF Preview
  <2> QED
    BY <1>0, <2>1 DEF Answer, AnswerFor, ListOf, Lists
<1> QED
  BY <1>2, <1>3

\* A list that is cached where it belongs.
LEMMA CachedKeeps ==
  ASSUME NEW v \in ViewRecord, NEW r, NEW e \in Entry
  PROVE  /\ Cached(v, r, e) \in ViewRecord
         /\ Cached(v, r, e).ctx = v.ctx /\ Cached(v, r, e).rt = v.rt /\ Cached(v, r, e).ns = v.ns
         /\ Cached(v, r, e).gen = v.gen /\ Cached(v, r, e).middle = v.middle
         /\ Cached(v, r, e).left = v.left /\ Cached(v, r, e).right = v.right
         /\ Cached(v, r, e).hover = v.hover
         /\ (PrintsHaveLists(v) /\ (e.print # NoList => e.list # NoList) =>
               PrintsHaveLists(Cached(v, r, e)))
         /\ (/\ CacheIsOwn(v)
             /\ r \in Types /\ e.list # NoList => e.list.ctx = v.ctx /\ e.list.rt = r
             /\ r \in Types /\ e.print # NoList => e.list.ns = e.print
             => CacheIsOwn(Cached(v, r, e)))
<1> DEFINE C == [k \in DOMAIN v.cache |-> IF k = <<v.ctx, r>> THEN e ELSE v.cache[k]]
           u == [v EXCEPT !.cache = C]
<1>1. v.cache \in [Contexts \X Types -> Entry]
  BY DEF ViewRecord
<1>2. C \in [Contexts \X Types -> Entry]
      /\ \A k \in Contexts \X Types : C[k] = IF k = <<v.ctx, r>> THEN e ELSE v.cache[k]
  BY <1>1
<1>3. Cached(v, r, e) = u
  BY DEF Cached
<1> HIDE DEF C
<1>4. /\ u \in ViewRecord /\ u.cache = C
      /\ u.ctx = v.ctx /\ u.rt = v.rt /\ u.ns = v.ns /\ u.gen = v.gen /\ u.middle = v.middle
      /\ u.left = v.left /\ u.right = v.right /\ u.hover = v.hover
  BY <1>2 DEF ViewRecord
<1> HIDE DEF u
<1>5. PrintsHaveLists(v) /\ (e.print # NoList => e.list # NoList) => PrintsHaveLists(u)
  BY <1>2, <1>4 DEF PrintsHaveLists
<1>6. ASSUME CacheIsOwn(v), NEW k \in Contexts \X Types,
             r \in Types /\ e.list # NoList => e.list.ctx = v.ctx /\ e.list.rt = r,
             r \in Types /\ e.print # NoList => e.list.ns = e.print
      PROVE  /\ C[k].list # NoList => C[k].list.ctx = k[1] /\ C[k].list.rt = k[2]
             /\ C[k].print # NoList => C[k].list.ns = C[k].print
  <2>1. CASE k = <<v.ctx, r>>
    <3>1. r \in Types /\ k[1] = v.ctx /\ k[2] = r /\ C[k] = e
      BY <1>2, <2>1
    <3> QED
      BY <1>6, <3>1
  <2>2. CASE k # <<v.ctx, r>>
    <3>1. C[k] = v.cache[k]
      BY <1>2, <2>2
    <3> QED
      BY <1>6, <3>1 DEF CacheIsOwn
  <2> QED
    BY <2>1, <2>2
<1> QED
  BY <1>3, <1>4, <1>5, <1>6 DEF CacheIsOwn

\* A tab that goes elsewhere, or whose cursor moves, asks with a generation of
\* its own: the answers to the older ones say nothing to it.
LEMMA OlderAnswers ==
  ASSUME NEW p \in Answer, NEW u \in ViewRecord, NEW v, AnswerFor(p, u), v.gen = u.gen + 1
  PROVE  AnswerFor(p, v)
BY DEF AnswerFor, Answer, ViewRecord

\* Answers see no more of a tab than its place.
LEMMA SameAnswers ==
  ASSUME NEW p, NEW u, NEW v, AnswerFor(p, u), v.gen = u.gen,
         v.ctx = u.ctx, v.ns = u.ns, v.hover = u.hover, v.rt = u.rt
  PROVE  AnswerFor(p, v)
BY DEF AnswerFor

LEMMA SentAnswers ==
  ASSUME TabListsInv, NEW q \in Answer, keys' \in Nat, keys' >= keys, q.gen <= keys'
  PROVE  /\ msgs \cup {q} \subseteq Answer
         /\ \A p \in msgs \cup {q} : p.gen <= keys'
<1>1. msgs \subseteq Answer /\ keys \in Nat /\ \A p \in msgs : p.gen <= keys
  BY ListsAssumption DEF TabListsInv, ListsShape, GensAreKeys
<1>2. \A p \in msgs : p.gen \in Nat
  BY <1>1 DEF Answer
<1> QED
  BY <1>1, <1>2

-----------------------------------------------------------------------------
(* The actions of the user *)

\* A key that counts the generation up.
LEMMA BumpedKeeps ==
  ASSUME TabListsInv, Press
  PROVE  /\ Bumped(Top) \in ViewRecord /\ Bumped(Top).gen = Top.gen + 1
         /\ Bumped(Top).ctx = Top.ctx /\ Bumped(Top).rt = Top.rt /\ Bumped(Top).ns = Top.ns
         /\ Bumped(Top).middle = Top.middle /\ Bumped(Top).left = Top.left
         /\ Bumped(Top).right = Top.right /\ Bumped(Top).hover = Top.hover
         /\ Bumped(Top).cache = Top.cache
         /\ keys' \in 0 .. MaxKeys /\ keys' >= keys /\ Top.gen + 1 <= keys' /\ keys' \in Nat
         /\ PrintsHaveLists(Bumped(Top))
<1>1. Top \in ViewRecord /\ Top.gen \in Nat /\ Top.gen <= keys /\ PrintsHaveLists(Top)
  BY TopFacts
<1>2. keys \in 0 .. MaxKeys /\ keys < MaxKeys /\ keys' = keys + 1 /\ MaxKeys \in Nat
  BY ListsAssumption DEF TabListsInv, ListsShape, Press
<1>3. /\ Bumped(Top) \in ViewRecord /\ Bumped(Top).gen = Top.gen + 1
      /\ Bumped(Top).ctx = Top.ctx /\ Bumped(Top).rt = Top.rt /\ Bumped(Top).ns = Top.ns
      /\ Bumped(Top).middle = Top.middle /\ Bumped(Top).left = Top.left
      /\ Bumped(Top).right = Top.right /\ Bumped(Top).hover = Top.hover
      /\ Bumped(Top).cache = Top.cache
  BY <1>1 DEF Bumped, ViewRecord
<1>4. keys' \in 0 .. MaxKeys /\ keys' >= keys /\ Top.gen + 1 <= keys' /\ keys' \in Nat
  BY <1>1, <1>2
<1>5. PrintsHaveLists(Bumped(Top))
  BY <1>1, <1>3 DEF PrintsHaveLists
<1> QED
  BY <1>3, <1>4, <1>5

\* What is fixed by the invariant alone.
LEMMA ListsConstant ==
  ASSUME TabListsInv
  PROVE  /\ Nowhere \in Namespaces /\ msgs \subseteq Answer /\ crossed \in BOOLEAN
         /\ overrun \in BOOLEAN /\ unasked \in BOOLEAN /\ keys \in 0 .. MaxKeys /\ keys \in Nat
         /\ \A p \in msgs : p.gen <= keys
BY ListsAssumption DEF TabListsInv, ListsShape, GensAreKeys

LEMMA DrillKeeps ==
  ASSUME TabListsInv, Drill
  PROVE  TabListsInv'
<1>0. Press /\ Top.rt = NoType /\ UNCHANGED <<opened, up, crossed, overrun, unasked>>
  BY DEF Drill
<1> DEFINE k == <<Top.ctx, Top.hover>>
           m == Top.cache[k].list
           v == [Bumped(Top) EXCEPT !.rt = Top.hover, !.left = Top.middle,
                    !.right = NoList, !.middle = m]
<1>1. Put(v) /\ Send({Main(v)})
  BY DEF Drill
<1>2. k \in Contexts \X Types /\ m \in Lists \cup {NoList} /\ k[1] = Top.ctx /\ k[2] = Top.hover
  BY TopFacts DEF ViewRecord, Entry
<1> HIDE DEF m
<1>3. /\ v \in ViewRecord /\ v.gen = Top.gen + 1 /\ v.ctx = Top.ctx /\ v.rt = Top.hover
      /\ v.left = Top.middle /\ v.right = NoList /\ v.middle = m /\ v.cache = Top.cache
      /\ v.hover = Top.hover
  <2>1. Top.hover \in Types /\ Top.middle \in Lists \cup {NoList}
    BY TopFacts DEF ViewRecord
  <2> QED
    BY <1>0, <1>2, <2>1, BumpedKeeps DEF ViewRecord
<1> HIDE DEF v
<1>4. msgs' = msgs \cup {Main(v)} /\ Main(v) \in Answer /\ Main(v).gen = v.gen
      /\ AnswerFor(Main(v), v)
  BY <1>1, <1>3, MainAnswers DEF Send
<1>5. msgs' \subseteq Answer /\ \A p \in msgs' : p.gen <= keys'
  <2>1. v.gen <= keys' /\ keys' \in Nat /\ keys' >= keys
    BY <1>0, <1>3, BumpedKeeps
  <2>2. /\ msgs \cup {Main(v)} \subseteq Answer
        /\ \A p \in msgs \cup {Main(v)} : p.gen <= keys'
    BY <1>3, <1>4, <2>1, SentAnswers
  <2> QED
    BY <1>4, <2>2
<1>6. PrintsHaveLists(v)
  BY <1>3, TopFacts DEF PrintsHaveLists
<1>7. ASSUME ~Astray' PROVE OwnLists(v) /\ \A p \in msgs' : AnswerFor(p, v)
  <2>1. OwnLists(Top) /\ \A p \in msgs : AnswerFor(p, Top)
    BY <1>0, <1>7, TopFacts DEF Astray
  <2>2. OwnLists(v)
    <3>1. CacheIsOwn(Top) /\ (Top.middle # NoList => Top.middle.rt = NoType)
      BY <1>0, <2>1 DEF OwnLists
    <3>2. CacheIsOwn(v)
      BY <1>3, <3>1 DEF CacheIsOwn
    <3>3. m # NoList => m.ctx = Top.ctx /\ m.rt = Top.hover
      BY <1>2, <3>1 DEF CacheIsOwn, m
    <3> QED
      BY <1>3, <3>1, <3>2, <3>3 DEF OwnLists
  <2>3. ASSUME NEW p \in msgs PROVE AnswerFor(p, v)
    <3>1. p \in Answer /\ AnswerFor(p, Top) /\ Top \in ViewRecord
      BY <2>1, ListsConstant, TopFacts
    <3> QED
      BY <1>3, <3>1, OlderAnswers
  <2> QED
    BY <1>4, <2>2, <2>3
<1>8. Awaits(v, msgs')
  BY <1>4 DEF Awaits
<1>9. /\ Top = tab[up] /\ crossed' \in BOOLEAN /\ overrun' \in BOOLEAN
      /\ unasked' \in BOOLEAN
  BY <1>0, ListsConstant DEF Top
<1> QED
  BY <1>0, <1>1, <1>3, <1>5, <1>6, <1>7, <1>8, <1>9, BumpedKeeps, StepAtTop

LEMMA BackKeeps ==
  ASSUME TabListsInv, Back
  PROVE  TabListsInv'
<1>0. Press /\ UNCHANGED <<opened, up, crossed, overrun, unasked>>
  BY DEF Back
<1> DEFINE v == [Bumped(Top) EXCEPT !.rt = NoType, !.middle = Top.left,
                    !.left = NoList, !.right = NoList]
<1>1. Put(v) /\ Send({Preview(v)})
  BY DEF Back
<1>2. /\ v \in ViewRecord /\ v.gen = Top.gen + 1 /\ v.ctx = Top.ctx /\ v.rt = NoType
      /\ v.left = NoList /\ v.right = NoList /\ v.middle = Top.left /\ v.cache = Top.cache
      /\ v.hover = Top.hover
  <2>1. Top.left \in Lists \cup {NoList}
    BY TopFacts DEF ViewRecord
  <2> QED
    BY <1>0, <2>1, BumpedKeeps DEF ViewRecord
<1> HIDE DEF v
<1>3. PrintsHaveLists(v)
  BY <1>2, TopFacts DEF PrintsHaveLists
<1>4. msgs' = msgs \cup {Preview(v)} /\ Preview(v) \in Answer /\ Preview(v).gen = v.gen
      /\ (CacheIsOwn(v) => AnswerFor(Preview(v), v))
  BY <1>1, <1>2, <1>3, PreviewAnswers DEF Send
<1>5. msgs' \subseteq Answer /\ \A p \in msgs' : p.gen <= keys'
  <2>1. v.gen <= keys' /\ keys' \in Nat /\ keys' >= keys
    BY <1>0, <1>2, BumpedKeeps
  <2> QED
    BY <1>4, <2>1, SentAnswers
<1>6. ASSUME ~Astray' PROVE OwnLists(v) /\ \A p \in msgs' : AnswerFor(p, v)
  <2>1. OwnLists(Top) /\ \A p \in msgs : AnswerFor(p, Top)
    BY <1>0, <1>6, TopFacts DEF Astray
  <2>2. CacheIsOwn(v)
    BY <1>2, <2>1 DEF CacheIsOwn, OwnLists
  <2>3. OwnLists(v)
    BY <1>2, <2>1, <2>2 DEF OwnLists
  <2>4. ASSUME NEW p \in msgs PROVE AnswerFor(p, v)
    <3>1. p \in Answer /\ AnswerFor(p, Top) /\ Top \in ViewRecord
      BY <2>1, ListsConstant, TopFacts
    <3> QED
      BY <1>2, <3>1, OlderAnswers
  <2> QED
    BY <1>4, <2>2, <2>3, <2>4
<1>7. Awaits(v, msgs')
  BY <1>2 DEF Awaits
<1>8. /\ Top = tab[up] /\ crossed' \in BOOLEAN /\ overrun' \in BOOLEAN
      /\ unasked' \in BOOLEAN
  BY <1>0, ListsConstant DEF Top
<1> QED
  BY <1>0, <1>1, <1>2, <1>3, <1>5, <1>6, <1>7, <1>8, BumpedKeeps, StepAtTop

\* Moves of the cursor.
LEMMA CursorKeeps ==
  ASSUME TabListsInv, NEW r \in Types,
         Hover(r) \/ MoveRow
  PROVE  TabListsInv'
<1>0. Press /\ UNCHANGED <<opened, up, msgs, crossed, overrun>> /\ unasked' \in BOOLEAN
      /\ (unasked => unasked')
  <2>1. unasked \in BOOLEAN
    BY ListsConstant
  <2>2. CASE Hover(r)
    BY <2>1, <2>2 DEF Hover
  <2>3. CASE MoveRow
    BY <2>1, <2>3 DEF MoveRow
  <2> QED
    BY <2>2, <2>3
<1>1. PICK h \in Types :
         /\ Put([Bumped(Top) EXCEPT !.hover = h, !.right = NoList])
         /\ \/ Top.rt = NoType
            \/ h = Top.hover /\ (~unasked' => msgs = {})
  <2>1. CASE Hover(r)
    BY <2>1 DEF Hover
  <2>2. CASE MoveRow
    <3> DEFINE b == [Bumped(Top) EXCEPT !.right = NoList]
    <3>1. b \in ViewRecord /\ b.hover = Top.hover
      BY <1>0, BumpedKeeps DEF ViewRecord
    <3>2. b = [Bumped(Top) EXCEPT !.hover = Top.hover, !.right = NoList]
      <4>1. Bumped(Top) \in ViewRecord /\ Bumped(Top).hover = Top.hover
        BY <1>0, BumpedKeeps
      <4> QED
        BY <4>1 DEF ViewRecord
    <3>3. Put(b) /\ unasked' = (unasked \/ msgs # {})
      BY <2>2 DEF MoveRow
    <3>4. Top.hover \in Types
      BY TopFacts
    <3> HIDE DEF b
    <3>5. Put([Bumped(Top) EXCEPT !.hover = Top.hover, !.right = NoList])
      BY <3>2, <3>3
    <3> QED
      BY <3>3, <3>4, <3>5
  <2> QED
    BY <2>1, <2>2
<1> DEFINE v == [Bumped(Top) EXCEPT !.hover = h, !.right = NoList]
<1>2. /\ v \in ViewRecord /\ v.gen = Top.gen + 1 /\ v.ctx = Top.ctx /\ v.rt = Top.rt
      /\ v.left = Top.left /\ v.right = NoList /\ v.middle = Top.middle /\ v.cache = Top.cache
      /\ v.hover = h
  BY <1>0, BumpedKeeps DEF ViewRecord
<1>3. Put(v)
  BY <1>1
<1> HIDE DEF v
<1>4. PrintsHaveLists(v)
  BY <1>2, TopFacts DEF PrintsHaveLists
<1>5. ASSUME ~Astray' PROVE OwnLists(v) /\ \A p \in msgs' : AnswerFor(p, v)
  <2>1. OwnLists(Top) /\ \A p \in msgs : AnswerFor(p, Top)
    BY <1>0, <1>5, TopFacts DEF Astray
  <2>2. OwnLists(v)
    BY <1>2, <2>1 DEF CacheIsOwn, OwnLists
  <2>3. ASSUME NEW p \in msgs PROVE AnswerFor(p, v)
    <3>1. p \in Answer /\ AnswerFor(p, Top) /\ Top \in ViewRecord
      BY <2>1, ListsConstant, TopFacts
    <3> QED
      BY <1>2, <3>1, OlderAnswers
  <2> QED
    BY <1>0, <2>2, <2>3
<1>6. ASSUME ~crossed', ~unasked' PROVE Awaits(v, msgs')
  <2>1. Awaits(Top, msgs)
    BY <1>0, <1>6, TopFacts
  <2> QED
    BY <1>0, <1>1, <1>2, <1>6, <2>1 DEF Awaits
<1>7. /\ Top = tab[up] /\ crossed' \in BOOLEAN /\ overrun' \in BOOLEAN
      /\ msgs' \subseteq Answer /\ v.gen <= keys' /\ keys' >= keys
  BY <1>0, <1>2, ListsConstant, BumpedKeeps DEF Top
<1>8. \A p \in msgs' : p.gen <= keys'
  <2>1. \A p \in msgs : p.gen <= keys /\ p.gen \in Nat
    BY ListsConstant DEF Answer
  <2>2. keys' >= keys /\ keys \in Nat /\ keys' \in Nat
    BY <1>0, ListsConstant, BumpedKeeps
  <2> QED
    BY <1>0, <2>1, <2>2
<1> QED
  BY <1>0, <1>2, <1>3, <1>4, <1>5, <1>6, <1>7, <1>8, BumpedKeeps, StepAtTop

\* A refresh of a tab that is at v: at a list, its load; at the types, the rows.
LEMMA RefreshedKeeps ==
  ASSUME TabListsInv, NEW v \in ViewRecord, Refreshed(v),
         UNCHANGED <<opened, up, crossed, overrun, unasked>>,
         keys' \in 0 .. MaxKeys, keys' \in Nat, keys' >= keys, v.gen <= keys',
         PrintsHaveLists(v),
         ~Astray => OwnLists(v) /\ \A p \in msgs : AnswerFor(p, v)
  PROVE  TabListsInv'
<1>0. /\ Top = tab[up] /\ crossed' \in BOOLEAN /\ overrun' \in BOOLEAN /\ unasked' \in BOOLEAN
      /\ crossed => crossed'
      /\ overrun => overrun'
      /\ unasked => unasked'
      /\ Astray' => Astray
      /\ Astray => Astray'
  BY ListsConstant DEF Top, Astray
<1>1. CASE v.rt # NoType
  <2>1. Put(v) /\ msgs' = msgs \cup {Main(v)}
    BY <1>1 DEF Refreshed, Send
  <2>2. Main(v) \in Answer /\ Main(v).gen = v.gen /\ AnswerFor(Main(v), v)
    BY MainAnswers
  <2>3. msgs' \subseteq Answer /\ \A p \in msgs' : p.gen <= keys'
    BY <2>1, <2>2, SentAnswers
  <2>4. ~Astray' => OwnLists(v) /\ \A p \in msgs' : AnswerFor(p, v)
    BY <1>0, <2>1, <2>2
  <2>5. Awaits(v, msgs')
    BY <2>1 DEF Awaits
  <2> QED
    BY <1>0, <2>1, <2>3, <2>4, <2>5, StepAtTop, Zenon
<1>2. CASE v.rt = NoType
  <2> DEFINE k == <<v.ctx, v.hover>>
             e == [v.cache[k] EXCEPT !.print = NoList]
             w == Cached(v, v.hover, e)
  <2>1. Put(w) /\ msgs' = msgs \cup {Rows(v.ctx)}
    BY <1>2 DEF Refreshed, Send
  <2>2. /\ k \in Contexts \X Types /\ v.cache[k] \in Entry /\ k[1] = v.ctx /\ k[2] = v.hover
        /\ v.ctx \in Contexts /\ v.gen \in Nat
    BY DEF ViewRecord
  <2>3. e \in Entry /\ e.print = NoList /\ e.list = v.cache[k].list
    BY <2>2 DEF Entry
  <2> HIDE DEF e
  <2>4. /\ w \in ViewRecord /\ w.ctx = v.ctx /\ w.rt = v.rt /\ w.ns = v.ns /\ w.gen = v.gen
        /\ w.middle = v.middle /\ w.left = v.left /\ w.right = v.right /\ w.hover = v.hover
        /\ PrintsHaveLists(w)
    BY <2>3, CachedKeeps
  <2>5. CacheIsOwn(v) => CacheIsOwn(w)
    <3>1. CacheIsOwn(v) => (e.list # NoList => e.list.ctx = v.ctx /\ e.list.rt = v.hover)
      BY <2>2, <2>3 DEF CacheIsOwn
    <3> QED
      BY <2>3, <3>1, CachedKeeps
  <2> HIDE DEF w
  <2>6. /\ Rows(v.ctx) \in Answer /\ Rows(v.ctx).gen = 0 /\ AnswerFor(Rows(v.ctx), w)
    BY <1>2, <2>2, <2>4, ListsConstant, RowsAnswer
  <2>7. msgs' \subseteq Answer /\ \A p \in msgs' : p.gen <= keys'
    BY <2>1, <2>6, SentAnswers
  <2>8. ~Astray' => OwnLists(w) /\ \A p \in msgs' : AnswerFor(p, w)
    <3>1. SUFFICES ASSUME ~Astray PROVE OwnLists(w) /\ \A p \in msgs' : AnswerFor(p, w)
      BY <1>0
    <3>2. OwnLists(v) /\ \A p \in msgs : AnswerFor(p, v)
      BY <3>1
    <3>3. OwnLists(w)
      BY <2>4, <2>5, <3>2 DEF OwnLists
    <3>4. ASSUME NEW p \in msgs PROVE AnswerFor(p, w)
      BY <2>4, <3>2, SameAnswers
    <3> QED
      BY <2>1, <2>6, <3>3, <3>4
  <2>9. Awaits(w, msgs')
    BY <1>2, <2>4 DEF Awaits
  <2>10. w.gen <= keys'
    BY <2>4
  <2> QED
    BY <1>0, <2>1, <2>4, <2>7, <2>8, <2>9, <2>10, StepAtTop
<1> QED
  BY <1>1, <1>2

LEMMA TickKeeps ==
  ASSUME TabListsInv, WatchTick
  PROVE  TabListsInv'
<1>1. /\ Refreshed(Top) /\ UNCHANGED <<opened, up, keys, crossed, overrun, unasked>>
  BY DEF WatchTick
<1>2. keys' \in 0 .. MaxKeys /\ keys' \in Nat /\ keys' >= keys /\ Top.gen <= keys'
  BY <1>1, TopFacts, ListsConstant
<1> QED
  BY <1>1, <1>2, TopFacts, RefreshedKeeps

LEMMA RefreshKeeps ==
  ASSUME TabListsInv, NEW n \in Namespaces, Refresh \/ SelectNamespace(n)
  PROVE  TabListsInv'
<1>0. Press /\ UNCHANGED <<opened, up, crossed, overrun, unasked>>
  BY DEF Refresh, SelectNamespace
<1>1. PICK x \in Namespaces : Refreshed([Bumped(Top) EXCEPT !.ns = x])
  <2>1. CASE SelectNamespace(n)
    BY <2>1 DEF SelectNamespace
  <2>2. CASE Refresh
    <3>1. Bumped(Top) \in ViewRecord /\ Bumped(Top).ns = Top.ns
      BY <1>0, BumpedKeeps
    <3>2. Bumped(Top) = [Bumped(Top) EXCEPT !.ns = Top.ns]
      BY <3>1 DEF ViewRecord
    <3>3. Refreshed(Bumped(Top)) /\ Top.ns \in Namespaces
      BY <2>2, TopFacts DEF Refresh
    <3> QED
      BY <3>2, <3>3
  <2> QED
    BY <2>1, <2>2
<1> DEFINE v == [Bumped(Top) EXCEPT !.ns = x]
<1>2. /\ v \in ViewRecord /\ v.gen = Top.gen + 1 /\ v.ctx = Top.ctx /\ v.rt = Top.rt
      /\ v.left = Top.left /\ v.right = Top.right /\ v.middle = Top.middle
      /\ v.cache = Top.cache /\ v.hover = Top.hover
  BY <1>0, BumpedKeeps DEF ViewRecord
<1>3. Refreshed(v)
  BY <1>1
<1> HIDE DEF v
<1>4. PrintsHaveLists(v)
  BY <1>2, TopFacts DEF PrintsHaveLists
<1>5. ASSUME ~Astray PROVE OwnLists(v) /\ \A p \in msgs : AnswerFor(p, v)
  <2>1. OwnLists(Top) /\ \A p \in msgs : AnswerFor(p, Top)
    BY <1>5, TopFacts
  <2>2. OwnLists(v)
    BY <1>2, <2>1 DEF CacheIsOwn, OwnLists
  <2>3. ASSUME NEW p \in msgs PROVE AnswerFor(p, v)
    <3>1. p \in Answer /\ AnswerFor(p, Top) /\ Top \in ViewRecord
      BY <2>1, ListsConstant, TopFacts
    <3> QED
      BY <1>2, <3>1, OlderAnswers
  <2> QED
    BY <2>2, <2>3
<1>6. keys' \in 0 .. MaxKeys /\ keys' \in Nat /\ keys' >= keys /\ v.gen <= keys'
  BY <1>0, <1>2, BumpedKeeps
<1> QED
  BY <1>0, <1>2, <1>3, <1>4, <1>5, <1>6, RefreshedKeeps

LEMMA NamespaceKeeps ==
  ASSUME TabListsInv, NEW n \in Namespaces, NamespaceCommand(n)
  PROVE  TabListsInv'
<1> DEFINE v == [Top EXCEPT !.ns = n]
<1>0. /\ Press /\ UNCHANGED <<opened, up, overrun, unasked>> /\ Put(v)
      /\ Send(IF v.rt = NoType THEN {} ELSE {Main(v)})
      /\ crossed' = (crossed \/ msgs # {})
  BY DEF NamespaceCommand
<1>1. /\ v \in ViewRecord /\ v.gen = Top.gen /\ v.ctx = Top.ctx /\ v.rt = Top.rt
      /\ v.left = Top.left /\ v.right = Top.right /\ v.middle = Top.middle
      /\ v.cache = Top.cache /\ v.hover = Top.hover
  BY TopFacts DEF ViewRecord
<1> HIDE DEF v
<1>2. Main(v) \in Answer /\ Main(v).gen = v.gen /\ AnswerFor(Main(v), v)
  BY <1>1, MainAnswers
<1>3. keys' \in 0 .. MaxKeys /\ keys' \in Nat /\ keys' >= keys /\ v.gen <= keys'
  <2>1. v.gen \in Nat /\ v.gen <= keys /\ keys \in Nat
    BY <1>1, TopFacts, ListsConstant
  <2> QED
    BY <1>0, <2>1, BumpedKeeps
<1>4. msgs' \in {msgs, msgs \cup {Main(v)}} /\ (v.rt # NoType => Main(v) \in msgs')
  BY <1>0 DEF Send
<1>5. msgs' \subseteq Answer /\ \A p \in msgs' : p.gen <= keys'
  <2>1. /\ msgs \cup {Main(v)} \subseteq Answer
        /\ \A p \in msgs \cup {Main(v)} : p.gen <= keys'
    BY <1>2, <1>3, SentAnswers
  <2> QED
    BY <1>4, <2>1
<1>6. PrintsHaveLists(v)
  BY <1>1, TopFacts DEF PrintsHaveLists
<1>7. ASSUME ~Astray' PROVE OwnLists(v) /\ \A p \in msgs' : AnswerFor(p, v)
  <2>1. OwnLists(Top) /\ msgs = {}
    BY <1>0, <1>7, TopFacts DEF Astray
  <2>2. OwnLists(v)
    BY <1>1, <2>1 DEF CacheIsOwn, OwnLists
  <2> QED
    BY <1>2, <1>4, <2>1, <2>2
<1>8. Awaits(v, msgs')
  BY <1>4 DEF Awaits
<1>9. /\ Top = tab[up] /\ crossed' \in BOOLEAN /\ overrun' \in BOOLEAN /\ unasked' \in BOOLEAN
      /\ crossed => crossed'
      /\ overrun => overrun'
      /\ unasked => unasked'
  BY <1>0, ListsConstant DEF Top
<1> QED
  BY <1>0, <1>1, <1>3, <1>5, <1>6, <1>7, <1>8, <1>9, StepAtTop

LEMMA ContextKeeps ==
  ASSUME TabListsInv, NEW c \in Contexts, ContextCommand(c)
  PROVE  TabListsInv'
<1> DEFINE l == IF Top.rt = NoType THEN Top.left ELSE TypesOf(c)
<1>a. PICK n \in Namespaces : Put([Top EXCEPT !.ctx = c, !.ns = n, !.left = l])
  BY DEF ContextCommand
<1> DEFINE v == [Top EXCEPT !.ctx = c, !.ns = n, !.left = l]
<1>0. /\ Press /\ UNCHANGED <<opened, up, overrun, unasked>> /\ Put(v)
      /\ msgs' = msgs \cup {Rows(c)}
      /\ crossed' = (crossed \/ msgs # {} \/ Top.rt # NoType)
  BY <1>a DEF ContextCommand, Send
<1>b. l \in Lists \cup {NoList}
  <2>1. Top.left \in Lists \cup {NoList}
    BY TopFacts DEF ViewRecord
  <2>2. TypesOf(c) \in Lists
    BY ListsConstant, RowsAnswer
  <2> QED
    BY <2>1, <2>2
<1> HIDE DEF l
<1>1. /\ v \in ViewRecord /\ v.gen = Top.gen /\ v.rt = Top.rt
      /\ v.left = l /\ v.right = Top.right /\ v.middle = Top.middle
      /\ v.cache = Top.cache /\ v.hover = Top.hover
  BY <1>b, TopFacts DEF ViewRecord
<1> HIDE DEF v
<1>2. Rows(c) \in Answer /\ Rows(c).gen = 0 /\ AnswerFor(Rows(c), v)
  BY ListsConstant, RowsAnswer
<1>3. keys' \in 0 .. MaxKeys /\ keys' \in Nat /\ keys' >= keys /\ v.gen <= keys'
  <2>1. v.gen \in Nat /\ v.gen <= keys /\ keys \in Nat
    BY <1>1, TopFacts, ListsConstant
  <2> QED
    BY <1>0, <2>1, BumpedKeeps
<1>4. msgs' \subseteq Answer /\ \A p \in msgs' : p.gen <= keys'
  BY <1>0, <1>2, <1>3, SentAnswers
<1>5. PrintsHaveLists(v)
  BY <1>1, TopFacts DEF PrintsHaveLists
<1>6. ASSUME ~Astray' PROVE OwnLists(v) /\ \A p \in msgs' : AnswerFor(p, v)
  <2>1. OwnLists(Top) /\ msgs = {} /\ Top.rt = NoType
    BY <1>0, <1>6, TopFacts DEF Astray
  <2>2. OwnLists(v)
    BY <1>1, <2>1 DEF CacheIsOwn, OwnLists, l
  <2> QED
    BY <1>0, <1>1, <1>2, <2>1, <2>2
<1>7. ~crossed' /\ ~unasked' => Awaits(v, msgs')
  BY <1>0, <1>1 DEF Awaits
<1>8. /\ Top = tab[up] /\ crossed' \in BOOLEAN /\ overrun' \in BOOLEAN /\ unasked' \in BOOLEAN
      /\ crossed => crossed'
      /\ overrun => overrun'
      /\ unasked => unasked'
  BY <1>0, ListsConstant DEF Top
<1> QED
  BY <1>0, <1>1, <1>3, <1>4, <1>5, <1>6, <1>7, <1>8, StepAtTop

-----------------------------------------------------------------------------
(* The answers *)

LEMMA PreviewDueKeeps ==
  ASSUME TabListsInv, PreviewDue
  PROVE  TabListsInv'
<1>0. /\ Top.rt = NoType /\ msgs' = msgs \cup {Preview(Top)}
      /\ UNCHANGED <<tab, opened, up, keys, crossed, overrun, unasked>>
  BY DEF PreviewDue, Send
<1>1. Top \in ViewRecord /\ PrintsHaveLists(Top) /\ Top.gen <= keys /\ Top = tab[up]
  BY TopFacts DEF Top
<1>2. Put(Top)
  BY <1>0, <1>1 DEF Put, TabListsInv, ListsShape
<1>3. /\ Preview(Top) \in Answer /\ Preview(Top).gen = Top.gen
      /\ (CacheIsOwn(Top) => AnswerFor(Preview(Top), Top))
  BY <1>0, <1>1, PreviewAnswers
<1>4. keys' \in 0 .. MaxKeys /\ keys' \in Nat /\ keys' >= keys /\ Top.gen <= keys'
  BY <1>0, <1>1, ListsConstant
<1>5. msgs' \subseteq Answer /\ \A p \in msgs' : p.gen <= keys'
  BY <1>0, <1>3, <1>4, SentAnswers
<1>6. ~Astray' => OwnLists(Top) /\ \A p \in msgs' : AnswerFor(p, Top)
  BY <1>0, <1>3, TopFacts DEF OwnLists, Astray
<1>7. Awaits(Top, msgs')
  BY <1>0 DEF Awaits
<1>8. /\ crossed' \in BOOLEAN /\ overrun' \in BOOLEAN /\ unasked' \in BOOLEAN
      /\ crossed => crossed'
      /\ overrun => overrun'
      /\ unasked => unasked'
  BY <1>0, ListsConstant
<1> QED
  BY <1>0, <1>1, <1>2, <1>4, <1>5, <1>6, <1>7, <1>8, StepAtTop

\* An answer that the tab takes, or that nobody does.
LEMMA TakenKeeps ==
  ASSUME TabListsInv, NEW v \in ViewRecord, Put(v),
         UNCHANGED <<opened, up, keys, crossed>>, unasked' \in BOOLEAN, unasked => unasked',
         overrun' \in BOOLEAN, overrun => overrun',
         msgs' \subseteq Answer, \A p \in msgs' : p.gen <= keys,
         v.gen = Top.gen, PrintsHaveLists(v),
         ~Astray' => OwnLists(v) /\ \A p \in msgs' : AnswerFor(p, v),
         ~crossed /\ ~unasked' => Awaits(v, msgs')
  PROVE  TabListsInv'
<1>1. /\ Top = tab[up] /\ crossed' \in BOOLEAN /\ keys' \in 0 .. MaxKeys
      /\ crossed => crossed'
      /\ overrun => overrun'
      /\ crossed' => crossed
  BY ListsConstant DEF Top
<1>2. keys' >= keys /\ v.gen <= keys'
  BY ListsConstant, TopFacts
<1>3. \A p \in msgs' : p.gen <= keys'
  OBVIOUS
<1> QED
  BY <1>1, <1>2, <1>3, StepAtTop

LEMMA DroppedKeeps ==
  ASSUME TabListsInv, NEW p \in msgs, Discarded(p) \/ LoadFailed(p)
  PROVE  TabListsInv'
<1>0. UNCHANGED <<tab, opened, up, keys, crossed, overrun>> /\ msgs' = msgs \ {p}
  BY DEF Discarded, LoadFailed
<1>1. Top \in ViewRecord /\ PrintsHaveLists(Top) /\ Top.gen = Top.gen /\ Top = tab[up]
  BY TopFacts DEF Top
<1>2. Put(Top)
  BY <1>0, <1>1 DEF Put, TabListsInv, ListsShape
<1>3. overrun' \in BOOLEAN /\ unasked' \in BOOLEAN /\ (unasked => unasked')
  <2>1. unasked \in BOOLEAN /\ overrun' \in BOOLEAN
    BY <1>0, ListsConstant
  <2>2. CASE Discarded(p)
    BY <2>1, <2>2 DEF Discarded
  <2>3. CASE LoadFailed(p)
    BY <2>1, <2>3 DEF LoadFailed
  <2> QED
    BY <2>2, <2>3
<1>4. msgs' \subseteq Answer /\ \A q \in msgs' : q.gen <= keys
  BY <1>0, ListsConstant
<1>5. ~Astray' => OwnLists(Top) /\ \A q \in msgs' : AnswerFor(q, Top)
  BY <1>0, TopFacts DEF Astray
<1>6. ASSUME ~crossed, ~unasked' PROVE Awaits(Top, msgs')
  <2>1. Awaits(Top, msgs)
    BY <1>3, <1>6, TopFacts
  <2>2. p.gen # Top.gen
    BY <1>6 DEF Discarded, LoadFailed
  <2>3. Main(Top).gen = Top.gen
    BY <1>1, MainAnswers
  <2> QED
    BY <1>0, <2>1, <2>2, <2>3 DEF Awaits
<1> QED
  BY <1>0, <1>1, <1>2, <1>3, <1>4, <1>5, <1>6, TakenKeeps

LEMMA MainLoadedKeeps ==
  ASSUME TabListsInv, NEW p \in msgs, MainLoaded(p)
  PROVE  TabListsInv'
<1> DEFINE b == [Top EXCEPT !.middle = p.list]
           e == [list |-> p.list, print |-> Top.ns]
           v == Cached(b, Top.rt, e)
<1>0. /\ p.kind = "main" /\ p.gen = Top.gen /\ msgs' = msgs \ {p} /\ Put(v)
      /\ UNCHANGED <<opened, up, keys, crossed, overrun, unasked>>
  BY DEF MainLoaded
<1>1. p \in Answer /\ p.list \in Lists /\ p.list # NoList /\ Top.ns \in Namespaces
      /\ Top \in ViewRecord /\ PrintsHaveLists(Top)
  BY ListsConstant, TopFacts, ListsAssumption DEF Answer
<1>2. /\ b \in ViewRecord /\ b.gen = Top.gen /\ b.ctx = Top.ctx /\ b.rt = Top.rt /\ b.ns = Top.ns
      /\ b.left = Top.left /\ b.right = Top.right /\ b.middle = p.list
      /\ b.cache = Top.cache /\ b.hover = Top.hover
  BY <1>1 DEF ViewRecord
<1>3. e \in Entry /\ e.list = p.list /\ e.print = Top.ns
  BY <1>1 DEF Entry
<1> HIDE DEF b, e
<1>4. PrintsHaveLists(b)
  BY <1>1, <1>2 DEF PrintsHaveLists
<1>5. /\ v \in ViewRecord /\ v.ctx = Top.ctx /\ v.rt = Top.rt /\ v.ns = Top.ns /\ v.gen = Top.gen
      /\ v.middle = p.list /\ v.left = Top.left /\ v.right = Top.right /\ v.hover = Top.hover
      /\ PrintsHaveLists(v)
  BY <1>1, <1>2, <1>3, <1>4, CachedKeeps
<1>6. ASSUME ~Astray' PROVE OwnLists(v) /\ \A q \in msgs' : AnswerFor(q, v)
  <2>1. OwnLists(Top) /\ (\A q \in msgs : AnswerFor(q, Top))
    BY <1>0, <1>6, TopFacts DEF Astray
  <2>2. p.list.ctx = Top.ctx /\ p.list.ns = Top.ns /\ p.list.rt = Top.rt
    BY <1>0, <2>1 DEF AnswerFor
  <2>3. CacheIsOwn(b)
    BY <1>2, <2>1 DEF CacheIsOwn, OwnLists
  <2>4. CacheIsOwn(v)
    BY <1>2, <1>3, <2>2, <2>3, CachedKeeps
  <2> HIDE DEF v
  <2>5. OwnLists(v)
    BY <1>5, <2>1, <2>2, <2>4 DEF OwnLists
  <2>6. \A q \in msgs : AnswerFor(q, v)
    BY <1>5, <2>1, SameAnswers
  <2> QED
    BY <1>0, <2>5, <2>6
<1> HIDE DEF v
<1>7. Awaits(v, msgs')
  BY <1>1, <1>5 DEF Awaits
<1>8. msgs' \subseteq Answer /\ \A q \in msgs' : q.gen <= keys
  BY <1>0, ListsConstant
<1>9. overrun' \in BOOLEAN /\ unasked' \in BOOLEAN /\ (unasked => unasked')
  BY <1>0, ListsConstant
<1> QED
  BY <1>0, <1>5, <1>6, <1>7, <1>8, <1>9, TakenKeeps

LEMMA PreviewLoadedKeeps ==
  ASSUME TabListsInv, NEW p \in msgs, PreviewLoaded(p)
  PROVE  TabListsInv'
<1> DEFINE b == [Top EXCEPT !.right = p.list]
           e == [list |-> p.list, print |-> Top.ns]
           v == Cached(b, p.list.rt, e)
<1>0. /\ p.kind = "preview" /\ p.gen = Top.gen /\ msgs' = msgs \ {p} /\ Put(v)
      /\ UNCHANGED <<opened, up, keys, crossed, overrun, unasked>>
  BY DEF PreviewLoaded
<1>1. p \in Answer /\ p.list \in Lists /\ p.list # NoList /\ Top.ns \in Namespaces
      /\ Top \in ViewRecord /\ PrintsHaveLists(Top)
  BY ListsConstant, TopFacts, ListsAssumption DEF Answer
<1>2. /\ b \in ViewRecord /\ b.gen = Top.gen /\ b.ctx = Top.ctx /\ b.rt = Top.rt /\ b.ns = Top.ns
      /\ b.left = Top.left /\ b.right = p.list /\ b.middle = Top.middle
      /\ b.cache = Top.cache /\ b.hover = Top.hover
  BY <1>1 DEF ViewRecord
<1>3. e \in Entry /\ e.list = p.list /\ e.print = Top.ns
  BY <1>1 DEF Entry
<1> HIDE DEF b, e
<1>4. PrintsHaveLists(b)
  BY <1>1, <1>2 DEF PrintsHaveLists
<1>5. /\ v \in ViewRecord /\ v.ctx = Top.ctx /\ v.rt = Top.rt /\ v.ns = Top.ns /\ v.gen = Top.gen
      /\ v.middle = Top.middle /\ v.left = Top.left /\ v.right = p.list /\ v.hover = Top.hover
      /\ PrintsHaveLists(v)
  BY <1>1, <1>2, <1>3, <1>4, CachedKeeps
<1>6. ASSUME ~Astray' PROVE OwnLists(v) /\ \A q \in msgs' : AnswerFor(q, v)
  <2>1. OwnLists(Top) /\ (\A q \in msgs : AnswerFor(q, Top))
    BY <1>0, <1>6, TopFacts DEF Astray
  <2>2. p.list.ctx = Top.ctx /\ p.list.ns = Top.ns /\ p.list.rt = Top.hover /\ Top.rt = NoType
    BY <1>0, <2>1 DEF AnswerFor
  <2>3. CacheIsOwn(b)
    BY <1>2, <2>1 DEF CacheIsOwn, OwnLists
  <2>4. CacheIsOwn(v)
    BY <1>2, <1>3, <2>2, <2>3, CachedKeeps
  <2> HIDE DEF v
  <2>5. OwnLists(v)
    BY <1>5, <2>1, <2>2, <2>4 DEF OwnLists
  <2>6. \A q \in msgs : AnswerFor(q, v)
    BY <1>5, <2>1, SameAnswers
  <2> QED
    BY <1>0, <2>5, <2>6
<1> HIDE DEF v
<1>7. ASSUME ~crossed, ~unasked' PROVE Awaits(v, msgs')
  <2>1. Awaits(Top, msgs)
    BY <1>0, <1>7, TopFacts
  <2>2. Main(v) = Main(Top) /\ Main(Top).kind = "main"
    BY <1>5 DEF Main, ListOf
  <2> QED
    BY <1>0, <1>5, <2>1, <2>2 DEF Awaits
<1>8. msgs' \subseteq Answer /\ \A q \in msgs' : q.gen <= keys
  BY <1>0, ListsConstant
<1>9. overrun' \in BOOLEAN /\ unasked' \in BOOLEAN /\ (unasked => unasked')
  BY <1>0, ListsConstant
<1> QED
  BY <1>0, <1>5, <1>6, <1>7, <1>8, <1>9, TakenKeeps

\* Rows that carry no generation and that the tab does not take.
LEMMA UntakenKeeps ==
  ASSUME TabListsInv, NEW p \in msgs, p.kind \in {"types", "clusters"}, msgs' = msgs \ {p},
         UNCHANGED <<tab, opened, up, keys, crossed, overrun, unasked>>
  PROVE  TabListsInv'
<1>1. Top \in ViewRecord /\ PrintsHaveLists(Top) /\ Top.gen = Top.gen /\ Top = tab[up]
  BY TopFacts DEF Top
<1>2. Put(Top)
  BY <1>1 DEF Put, TabListsInv, ListsShape
<1>3. msgs' \subseteq Answer /\ \A q \in msgs' : q.gen <= keys
  BY ListsConstant
<1>4. ~Astray' => OwnLists(Top) /\ \A q \in msgs' : AnswerFor(q, Top)
  BY TopFacts DEF Astray
<1>5. ASSUME ~crossed, ~unasked' PROVE Awaits(Top, msgs')
  <2>1. Awaits(Top, msgs)
    BY <1>5, TopFacts
  <2>2. Main(Top).kind = "main"
    BY DEF Main
  <2> QED
    BY <2>1, <2>2 DEF Awaits
<1>6. overrun' \in BOOLEAN /\ unasked' \in BOOLEAN /\ (unasked => unasked')
  BY ListsConstant
<1> QED
  BY <1>1, <1>2, <1>3, <1>4, <1>5, <1>6, TakenKeeps

\* Rows that the tab does take, whatever its level; b is the tab that shows them.
RowsOver(b, m) == Cached(b, Top.rt, [Top.cache[<<Top.ctx, Top.rt>>] EXCEPT !.list = m])

\* At the types nothing is cached: there is no type to keep the rows under.
LEMMA RowsTaken ==
  ASSUME TabListsInv, NEW m \in Lists, NEW b \in ViewRecord, b.middle = m,
         b.gen = Top.gen, b.ctx = Top.ctx, b.rt = Top.rt, b.ns = Top.ns,
         b.cache = Top.cache, b.hover = Top.hover
  PROVE  LET v == RowsOver(b, m)
         IN  /\ v \in ViewRecord /\ v.ctx = Top.ctx /\ v.rt = Top.rt /\ v.ns = Top.ns
             /\ v.gen = Top.gen /\ v.middle = m /\ v.left = b.left /\ v.right = b.right
             /\ v.hover = Top.hover /\ PrintsHaveLists(v)
             /\ (CacheIsOwn(Top) /\ v.rt = NoType => CacheIsOwn(v))
<1> DEFINE k == <<Top.ctx, Top.rt>>
           e == [Top.cache[k] EXCEPT !.list = m]
           v == Cached(b, Top.rt, e)
<1>1. Top \in ViewRecord /\ PrintsHaveLists(Top) /\ m # NoList
  BY TopFacts, ListsAssumption
<1>2. RowsOver(b, m) = v
  BY DEF RowsOver
<1>3. PrintsHaveLists(b) /\ (CacheIsOwn(Top) => CacheIsOwn(b))
  BY <1>1 DEF PrintsHaveLists, CacheIsOwn
<1>4. /\ v \in ViewRecord /\ v.ctx = Top.ctx /\ v.rt = Top.rt /\ v.ns = Top.ns
      /\ v.gen = Top.gen /\ v.middle = m /\ v.left = b.left /\ v.right = b.right
      /\ v.hover = Top.hover /\ PrintsHaveLists(v)
      /\ (CacheIsOwn(Top) /\ v.rt = NoType => CacheIsOwn(v))
  <2>1. CASE Top.rt \in Types
    <3>1. k \in Contexts \X Types /\ Top.cache[k] \in Entry
      BY <1>1, <2>1 DEF ViewRecord
    <3>2. e \in Entry /\ e.list = m
      BY <1>1, <3>1 DEF Entry
    <3> HIDE DEF e
    <3> QED
      BY <1>1, <1>3, <2>1, <3>2, CachedKeeps, ListsAssumption
  <2>2. CASE Top.rt \notin Types
    <3> HIDE DEF e
    <3> DEFINE C == [x \in DOMAIN b.cache |-> IF x = <<b.ctx, Top.rt>> THEN e ELSE b.cache[x]]
    <3>1. b.cache \in [Contexts \X Types -> Entry]
      BY DEF ViewRecord
    <3>2. C = b.cache
      <4>1. \A x \in Contexts \X Types : x # <<b.ctx, Top.rt>>
        BY <2>2
      <4> QED
        BY <3>1, <4>1
    <3>3. v = [b EXCEPT !.cache = C]
      BY DEF Cached
    <3> HIDE DEF C
    <3>4. v = b
      BY <3>2, <3>3 DEF ViewRecord
    <3> QED
      BY <1>3, <3>4
  <2> QED
    BY <2>1, <2>2
<1> HIDE DEF v
<1> QED
  BY <1>2, <1>4

LEMMA TypesLoadedKeeps ==
  ASSUME TabListsInv, NEW p \in msgs, TypesLoaded(p)
  PROVE  TabListsInv'
<1> DEFINE e == [Top.cache[<<Top.ctx, Top.rt>>] EXCEPT !.list = p.list]
           v == Cached([Top EXCEPT !.middle = p.list], Top.rt, e)
<1>0. /\ p.kind = "types" /\ UNCHANGED <<opened, up, keys, crossed, unasked>>
      /\ \/ msgs' = msgs \ {p} /\ UNCHANGED <<tab, overrun>>
         \/ /\ Put(v) /\ overrun' = (overrun \/ v.rt # NoType)
            /\ msgs' = (msgs \ {p}) \cup (IF v.rt = NoType THEN {Preview(v)} ELSE {})
  BY DEF TypesLoaded
<1>1. p \in Answer /\ p.list \in Lists /\ p.list # NoList /\ Top.rt \in Types \cup {NoType}
  BY ListsConstant, TopFacts, ListsAssumption DEF Answer
<1>2. CASE msgs' = msgs \ {p} /\ UNCHANGED <<tab, overrun>>
  BY <1>0, <1>2, UntakenKeeps, Zenon
<1>3. CASE /\ Put(v) /\ overrun' = (overrun \/ v.rt # NoType)
           /\ msgs' = (msgs \ {p}) \cup (IF v.rt = NoType THEN {Preview(v)} ELSE {})
  <2>1. /\ v \in ViewRecord /\ v.ctx = Top.ctx /\ v.rt = Top.rt /\ v.ns = Top.ns
        /\ v.gen = Top.gen /\ v.middle = p.list /\ v.left = Top.left /\ v.right = Top.right
        /\ v.hover = Top.hover /\ PrintsHaveLists(v)
        /\ (CacheIsOwn(Top) /\ v.rt = NoType => CacheIsOwn(v))
    <3> DEFINE b == [Top EXCEPT !.middle = p.list]
    <3>1. /\ b \in ViewRecord /\ b.gen = Top.gen /\ b.ctx = Top.ctx /\ b.rt = Top.rt
          /\ b.ns = Top.ns /\ b.left = Top.left /\ b.right = Top.right /\ b.middle = p.list
          /\ b.cache = Top.cache /\ b.hover = Top.hover
      BY <1>1, TopFacts DEF ViewRecord
    <3>2. v = RowsOver(b, p.list)
      BY DEF RowsOver
    <3> HIDE DEF b, v
    <3> QED
      BY <1>1, <3>1, <3>2, RowsTaken
  <2> HIDE DEF v
  <2>2. /\ Preview(v) \in Answer /\ Preview(v).gen = Top.gen
        /\ (CacheIsOwn(v) /\ v.rt = NoType => AnswerFor(Preview(v), v))
    BY <2>1, PreviewAnswers
  <2>3. msgs' \subseteq Answer /\ \A q \in msgs' : q.gen <= keys
    <3>1. Top.gen <= keys
      BY TopFacts
    <3> QED
      BY <1>3, <2>2, <3>1, ListsConstant
  <2>4. ASSUME ~Astray' PROVE OwnLists(v) /\ \A q \in msgs' : AnswerFor(q, v)
    <3>1. v.rt = NoType /\ OwnLists(Top) /\ \A q \in msgs : AnswerFor(q, Top)
      BY <1>0, <1>3, <2>4, TopFacts DEF Astray
    <3>2. p.list.rt = NoType
      BY <1>0, <3>1 DEF AnswerFor
    <3>3. CacheIsOwn(v)
      BY <2>1, <3>1 DEF OwnLists
    <3>4. OwnLists(v)
      BY <2>1, <3>1, <3>2, <3>3 DEF OwnLists
    <3>5. \A q \in msgs : AnswerFor(q, v)
      BY <2>1, <3>1, SameAnswers
    <3> QED
      BY <1>3, <2>2, <3>1, <3>3, <3>4, <3>5
  <2>5. Awaits(v, msgs')
    BY <1>1, <2>1 DEF Awaits
  <2>6. overrun' \in BOOLEAN /\ unasked' \in BOOLEAN
    BY <1>0, <1>3, ListsConstant
  <2> QED
    BY <1>0, <1>3, <2>1, <2>3, <2>4, <2>5, <2>6, TakenKeeps
<1> QED
  BY <1>0, <1>2, <1>3

\* The rows of the clusters, which are of no place of a tab.
LEMMA ClustersLoadedKeeps ==
  ASSUME TabListsInv, NEW p \in msgs, ClustersLoaded(p)
  PROVE  TabListsInv'
<1> DEFINE e == [Top.cache[<<Top.ctx, Top.rt>>] EXCEPT !.list = p.list]
           v == Cached([Top EXCEPT !.middle = p.list, !.left = NoList, !.right = NoList],
                       Top.rt, e)
<1>0. /\ p.kind = "clusters" /\ UNCHANGED <<opened, up, keys, crossed, unasked>>
      /\ msgs' = msgs \ {p}
      /\ \/ UNCHANGED <<tab, overrun>>
         \/ Put(v) /\ overrun' = TRUE
  BY DEF ClustersLoaded
<1>1. p \in Answer /\ p.list \in Lists /\ p.list # NoList
  BY ListsConstant, ListsAssumption DEF Answer
<1>2. CASE UNCHANGED <<tab, overrun>>
  BY <1>0, <1>2, UntakenKeeps, Zenon
<1>3. CASE Put(v) /\ overrun' = TRUE
  <2>1. v \in ViewRecord /\ v.gen = Top.gen /\ v.middle = p.list /\ PrintsHaveLists(v)
    <3> DEFINE b == [Top EXCEPT !.middle = p.list, !.left = NoList, !.right = NoList]
    <3>1. /\ b \in ViewRecord /\ b.gen = Top.gen /\ b.ctx = Top.ctx /\ b.rt = Top.rt
          /\ b.ns = Top.ns /\ b.middle = p.list /\ b.cache = Top.cache
          /\ b.hover = Top.hover
      BY <1>1, TopFacts DEF ViewRecord
    <3>2. v = RowsOver(b, p.list)
      BY DEF RowsOver
    <3> HIDE DEF b, v
    <3> QED
      BY <1>1, <3>1, <3>2, RowsTaken
  <2> HIDE DEF v
  <2>2. msgs' \subseteq Answer /\ \A q \in msgs' : q.gen <= keys
    BY <1>0, ListsConstant
  <2>3. Astray' /\ Awaits(v, msgs')
    BY <1>1, <1>3, <2>1 DEF Astray, Awaits
  <2>4. overrun' \in BOOLEAN /\ unasked' \in BOOLEAN
    BY <1>0, <1>3, ListsConstant
  <2> QED
    BY <1>0, <1>3, <2>1, <2>2, <2>3, <2>4, TakenKeeps
<1> QED
  BY <1>0, <1>2, <1>3

\* The question for them.
LEMMA SwitchKeeps ==
  ASSUME TabListsInv, SwitchSession
  PROVE  TabListsInv'
<1>0. /\ Press /\ msgs' = msgs \cup {ClusterRows}
      /\ UNCHANGED <<tab, opened, up, crossed, overrun, unasked>>
  BY DEF SwitchSession, Send
<1>1. Top \in ViewRecord /\ PrintsHaveLists(Top) /\ Top.gen <= keys /\ Top = tab[up]
  BY TopFacts DEF Top
<1>2. Put(Top)
  BY <1>0, <1>1 DEF Put, TabListsInv, ListsShape
<1>3. ClusterRows \in Answer /\ ClusterRows.gen = 0 /\ AnswerFor(ClusterRows, Top)
  <2>1. Top.ctx \in Contexts /\ Nowhere \in Namespaces
    BY TopFacts, ListsConstant
  <2>2. ClusterList \in Lists
    BY <2>1 DEF ClusterList, ListOf, Lists
  <2> QED
    BY <2>2 DEF ClusterRows, Answer, AnswerFor
<1>4. keys' \in 0 .. MaxKeys /\ keys' \in Nat /\ keys' >= keys /\ Top.gen <= keys'
  <2>1. Top.gen \in Nat /\ keys \in Nat
    BY TopFacts, ListsConstant
  <2> QED
    BY <1>0, <1>1, <2>1, BumpedKeeps
<1>5. msgs' \subseteq Answer /\ \A p \in msgs' : p.gen <= keys'
  BY <1>0, <1>3, <1>4, SentAnswers
<1>6. ~Astray' => OwnLists(Top) /\ \A p \in msgs' : AnswerFor(p, Top)
  BY <1>0, <1>3, TopFacts DEF Astray
<1>7. ~crossed' /\ ~unasked' => Awaits(Top, msgs')
  BY <1>0, TopFacts DEF Awaits
<1>8. crossed' \in BOOLEAN /\ overrun' \in BOOLEAN /\ unasked' \in BOOLEAN
  BY <1>0, ListsConstant
<1> QED
  BY <1>0, <1>1, <1>2, <1>4, <1>5, <1>6, <1>7, <1>8, StepAtTop

-----------------------------------------------------------------------------
(* The tabs *)

\* Another tab is shown.  With no answer under way, the one that is left has
\* its list, and the one that is shown has it or loads it.
LEMMA EnterKeeps ==
  ASSUME TabListsInv, NEW t \in opened \ {up}, Enter(t),
         opened' = opened \/ opened' = opened \ {up}
  PROVE  TabListsInv'
<1> DEFINE v == [tab[t] EXCEPT !.lazy = FALSE]
<1>0. /\ Press /\ up' = t /\ tab' = [tab EXCEPT ![t].lazy = FALSE]
      /\ crossed' = (crossed \/ msgs # {}) /\ UNCHANGED <<overrun, unasked>>
  BY DEF Enter
<1>1. /\ tab \in [Views -> ViewRecord] /\ t \in Views /\ tab[t] \in ViewRecord /\ up \in opened
      /\ opened \subseteq Views /\ t # up /\ t \in opened
      /\ \A s \in Views : PrintsHaveLists(tab[s]) /\ tab[s].gen <= keys
  BY DEF TabListsInv, ListsShape, GensAreKeys
<1>2. /\ v \in ViewRecord /\ v.ctx = tab[t].ctx /\ v.rt = tab[t].rt /\ v.ns = tab[t].ns
      /\ v.gen = tab[t].gen /\ v.middle = tab[t].middle /\ v.left = tab[t].left
      /\ v.right = tab[t].right /\ v.hover = tab[t].hover /\ v.cache = tab[t].cache
  BY <1>1 DEF ViewRecord
<1>3. tab' = [tab EXCEPT ![t] = v]
  BY <1>0, <1>1
<1> HIDE DEF v
<1>4. tab' \in [Views -> ViewRecord] /\ tab'[t] = v /\ \A s \in Views : s # t => tab'[s] = tab[s]
  BY <1>1, <1>2, <1>3
<1>5. keys' \in 0 .. MaxKeys /\ keys' \in Nat /\ keys' >= keys
  BY <1>0, BumpedKeeps
<1>6. PrintsHaveLists(v) /\ (OwnLists(tab[t]) => OwnLists(v)) /\ v.gen <= keys /\ v.gen \in Nat
  <2>1. v.gen \in Nat
    BY <1>2 DEF ViewRecord
  <2> QED
    BY <1>1, <1>2, <2>1 DEF PrintsHaveLists, OwnLists, CacheIsOwn
<1>7. /\ Main(tab[t]) = Main(v) /\ Preview(tab[t]) = Preview(v)
  BY <1>2 DEF Main, ListOf, Preview, Fresh
<1>8. \/ tab[t].lazy /\ msgs' = msgs \cup {Main(v)}
      \/ ~tab[t].lazy /\ v.rt = NoType /\ msgs' = msgs \cup {Preview(v)}
      \/ ~tab[t].lazy /\ v.rt # NoType /\ msgs' = msgs
  <2>1. /\ tab[t].lazy => msgs' = msgs \cup {Main(tab[t])}
        /\ ~tab[t].lazy /\ tab[t].rt = NoType => msgs' = msgs \cup {Preview(tab[t])}
        /\ ~tab[t].lazy /\ tab[t].rt # NoType => msgs' = msgs \cup {}
    BY DEF Enter, Send
  <2>2. msgs \cup {} = msgs
    OBVIOUS
  <2> QED
    BY <1>2, <1>7, <2>1, <2>2
<1>9. /\ Main(v) \in Answer /\ Main(v).gen = v.gen /\ AnswerFor(Main(v), v)
      /\ Preview(v) \in Answer /\ Preview(v).gen = v.gen
      /\ (CacheIsOwn(v) /\ v.rt = NoType => AnswerFor(Preview(v), v))
  BY <1>2, <1>6, MainAnswers, PreviewAnswers
<1>10. msgs' \subseteq Answer /\ \A p \in msgs' : p.gen <= keys'
  <2>1. v.gen <= keys' /\ keys \in Nat
    BY <1>5, <1>6, ListsConstant
  <2>2. /\ msgs \cup {Main(v)} \subseteq Answer /\ \A p \in msgs \cup {Main(v)} : p.gen <= keys'
        /\ msgs \cup {Preview(v)} \subseteq Answer
        /\ \A p \in msgs \cup {Preview(v)} : p.gen <= keys'
    BY <1>5, <1>9, <2>1, SentAnswers
  <2> QED
    BY <1>8, <2>2
<1>11. ListsShape'
  <2>1. opened' \subseteq Views /\ up' \in opened'
    BY <1>0, <1>1
  <2>2. /\ crossed' \in BOOLEAN /\ overrun' \in BOOLEAN /\ unasked' \in BOOLEAN
        /\ Nowhere \in Namespaces
    BY <1>0, ListsConstant
  <2> QED
    BY <1>4, <1>5, <1>10, <2>1, <2>2 DEF ListsShape
<1>12. GensAreKeys'
  <2>1. ASSUME NEW s \in Views PROVE tab'[s].gen <= keys'
    <3>1. tab'[s].gen = tab[s].gen
      BY <1>2, <1>4
    <3>2. tab[s].gen \in Nat
      <4>1. tab[s] \in ViewRecord
        BY <1>1
      <4> QED
        BY <4>1 DEF ViewRecord
    <3> QED
      BY <1>1, <1>5, <3>1, <3>2, ListsConstant
  <2> QED
    BY <1>10, <2>1 DEF GensAreKeys
<1>13. \A s \in Views : PrintsHaveLists(tab'[s])
  BY <1>1, <1>4, <1>6
<1>14. ListsPlaced'
  <2>1. SUFFICES ASSUME ~Astray'
                 PROVE  /\ \A s \in Views : OwnLists(tab'[s])
                        /\ \A p \in msgs' : AnswerFor(p, tab'[up'])
    BY DEF ListsPlaced, AnswerFor, OwnLists, CacheIsOwn
  <2>2. msgs = {} /\ \A s \in Views : OwnLists(tab[s])
    BY <1>0, <2>1 DEF TabListsInv, ListsPlaced, Astray
  <2>3. \A s \in Views : OwnLists(tab'[s])
    BY <1>1, <1>4, <1>6, <2>2
  <2>4. CacheIsOwn(v)
    BY <1>1, <1>6, <2>2 DEF OwnLists
  <2>5. tab'[up'] = v
    BY <1>0, <1>4
  <2> QED
    BY <1>8, <1>9, <2>2, <2>3, <2>4, <2>5
<1>15. ASSUME ~crossed', ~unasked' PROVE Awaits(tab[up], {}) /\ msgs = {}
  BY <1>0, <1>15, TopFacts DEF Top
<1>16. LazyElsewhere'
  <2>1. SUFFICES ASSUME ~crossed', ~unasked', NEW s \in opened' \ {up'},
                        tab'[s].rt # NoType, tab'[s].middle = NoList
                 PROVE  tab'[s].lazy
    BY DEF LazyElsewhere
  <2>2. s \in opened /\ s # t /\ s \in Views /\ tab'[s] = tab[s]
    BY <1>0, <1>1, <1>4, <2>1
  <2>3. s # up
    BY <1>15, <2>1, <2>2 DEF Awaits
  <2> QED
    BY <1>0, <2>1, <2>2, <2>3 DEF TabListsInv, LazyElsewhere
<1>17. TopAwaits'
  <2>1. SUFFICES ASSUME ~crossed', ~unasked' PROVE Awaits(v, msgs')
    BY <1>0, <1>4 DEF TopAwaits, Awaits, Main, ListOf
  <2>2. ~tab[t].lazy => ~(v.rt # NoType /\ v.middle = NoList)
    BY <1>0, <1>1, <1>2, <2>1 DEF TabListsInv, LazyElsewhere
  <2> QED
    BY <1>8, <2>2 DEF Awaits
<1> QED
  BY <1>11, <1>12, <1>13, <1>14, <1>16, <1>17 DEF TabListsInv, PrintsHaveLists

\* A copy of the tab that is shown.
LEMMA CloneKeeps ==
  ASSUME TabListsInv, CloneTab
  PROVE  TabListsInv'
<1>0. /\ Press /\ UNCHANGED <<msgs, overrun, unasked>> /\ crossed' = (crossed \/ msgs # {})
  BY DEF CloneTab
<1>1. PICK t \in Views \ opened :
         tab' = [tab EXCEPT ![t] = Top] /\ opened' = opened \cup {t} /\ up' = t
  BY DEF CloneTab
<1>2. /\ tab \in [Views -> ViewRecord] /\ Top \in ViewRecord /\ up \in opened /\ up \in Views
      /\ opened \subseteq Views /\ Top = tab[up]
      /\ \A s \in Views : PrintsHaveLists(tab[s]) /\ tab[s].gen <= keys
  BY TopFacts DEF TabListsInv, ListsShape, GensAreKeys, Top
<1>3. /\ tab' \in [Views -> ViewRecord] /\ tab'[t] = tab[up]
      /\ \A s \in Views : s # t => tab'[s] = tab[s]
  BY <1>1, <1>2
<1>4. keys' \in 0 .. MaxKeys /\ keys' \in Nat /\ keys' >= keys /\ keys \in Nat
  BY <1>0, BumpedKeeps, ListsConstant
<1>5. ListsShape'
  <2>1. /\ crossed' \in BOOLEAN /\ overrun' \in BOOLEAN /\ unasked' \in BOOLEAN
        /\ Nowhere \in Namespaces /\ msgs' \subseteq Answer
    BY <1>0, ListsConstant
  <2> QED
    BY <1>1, <1>2, <1>3, <1>4, <2>1 DEF ListsShape
<1>6. GensAreKeys'
  <2>1. ASSUME NEW s \in Views PROVE tab'[s].gen <= keys'
    <3>1. PICK u \in Views : tab'[s] = tab[u]
      BY <1>2, <1>3
    <3>2. tab[u].gen \in Nat /\ tab[u].gen <= keys
      <4>1. tab[u] \in ViewRecord
        BY <1>2
      <4> QED
        BY <1>2, <4>1 DEF ViewRecord
    <3> QED
      BY <1>4, <3>1, <3>2
  <2>2. ASSUME NEW p \in msgs PROVE p.gen <= keys'
    <3>1. p.gen <= keys /\ p.gen \in Nat
      BY ListsConstant DEF Answer
    <3> QED
      BY <1>4, <3>1
  <2> QED
    BY <1>0, <2>1, <2>2 DEF GensAreKeys
<1>7. \A s \in Views : PrintsHaveLists(tab'[s])
  BY <1>2, <1>3
<1>8. ListsPlaced'
  <2>1. SUFFICES ASSUME ~Astray'
                 PROVE  \A s \in Views : OwnLists(tab'[s])
    BY <1>0 DEF ListsPlaced, OwnLists, CacheIsOwn, Astray
  <2>2. \A s \in Views : OwnLists(tab[s])
    BY <1>0, <2>1 DEF TabListsInv, ListsPlaced, Astray
  <2> QED
    BY <1>2, <1>3, <2>2
<1>9. ASSUME ~crossed', ~unasked' PROVE Awaits(tab[up], {}) /\ msgs = {}
  BY <1>0, <1>9, TopFacts DEF Top
<1>10. LazyElsewhere'
  <2>1. SUFFICES ASSUME ~crossed', ~unasked', NEW s \in opened' \ {up'},
                        tab'[s].rt # NoType, tab'[s].middle = NoList
                 PROVE  tab'[s].lazy
    BY DEF LazyElsewhere
  <2>2. s \in opened /\ s # t /\ s \in Views /\ tab'[s] = tab[s]
    BY <1>1, <1>2, <1>3, <2>1
  <2>3. s # up
    BY <1>9, <2>1, <2>2 DEF Awaits
  <2> QED
    BY <1>0, <2>1, <2>2, <2>3 DEF TabListsInv, LazyElsewhere
<1>11. TopAwaits'
  <2>1. SUFFICES ASSUME ~crossed', ~unasked' PROVE Awaits(tab[up], msgs')
    BY <1>1, <1>3 DEF TopAwaits, Awaits, Main, ListOf
  <2> QED
    BY <1>9, <2>1 DEF Awaits
<1> QED
  BY <1>5, <1>6, <1>7, <1>8, <1>10, <1>11 DEF TabListsInv, PrintsHaveLists

-----------------------------------------------------------------------------
LEMMA NoCacheIsEmpty ==
  /\ NoCache \in [Contexts \X Types -> Entry]
  /\ \A k \in Contexts \X Types : NoCache[k].list = NoList /\ NoCache[k].print = NoList
BY DEF NoCache, Entry

\* What the tabs of a session are when they begin.
LEMMA NewTabs ==
  ASSUME Nowhere \in Namespaces, NEW c \in Contexts, NEW r \in Types, NEW n \in Namespaces
  PROVE  /\ AtTypes(c, r, n) \in ViewRecord /\ AtTypes(c, r, n).rt = NoType
         /\ AtTypes(c, r, n).gen = 0 /\ AtTypes(c, r, n).cache = NoCache
         /\ AtTypes(c, r, n).middle = TypesOf(c) /\ AtTypes(c, r, n).left = NoList
         /\ AtTypes(c, r, n).right = NoList
         /\ \A z \in BOOLEAN :
              LET u == [AtList(c, r, n) EXCEPT !.lazy = z]
              IN  /\ u \in ViewRecord /\ u.rt = r /\ u.gen = 0 /\ u.cache = NoCache
                  /\ u.middle = NoList /\ u.left = TypesOf(c) /\ u.right = NoList
                  /\ (z => u.lazy)
<1>1. TypesOf(c) \in Lists /\ NoCache \in [Contexts \X Types -> Entry]
  BY RowsAnswer, NoCacheIsEmpty
<1>2. /\ AtTypes(c, r, n) \in ViewRecord /\ AtTypes(c, r, n).rt = NoType
      /\ AtTypes(c, r, n).gen = 0 /\ AtTypes(c, r, n).cache = NoCache
      /\ AtTypes(c, r, n).middle = TypesOf(c) /\ AtTypes(c, r, n).left = NoList
      /\ AtTypes(c, r, n).right = NoList
  BY <1>1 DEF AtTypes, ViewRecord
<1>3. ASSUME NEW z \in BOOLEAN
      PROVE  LET u == [AtList(c, r, n) EXCEPT !.lazy = z]
             IN  /\ u \in ViewRecord /\ u.rt = r /\ u.gen = 0 /\ u.cache = NoCache
                 /\ u.middle = NoList /\ u.left = TypesOf(c) /\ u.right = NoList
                 /\ (z => u.lazy)
  BY <1>1, <1>2 DEF AtList, ViewRecord
<1> QED
  BY <1>2, <1>3

LEMMA LazyTabs ==
  ASSUME Nowhere \in Namespaces, NEW c \in Contexts, NEW n \in Namespaces,
         NEW at \in [Views -> Types], NEW a
  PROVE  /\ SessionTabs(c, n, at, a) \in [Views -> ViewRecord]
         /\ \A t \in Views :
              LET u == SessionTabs(c, n, at, a)[t]
              IN  /\ u.gen = 0 /\ u.cache = NoCache /\ u.middle = NoList
                  /\ u.left = TypesOf(c) /\ u.right = NoList /\ (t # a => u.lazy)
<1> DEFINE S == SessionTabs(c, n, at, a)
<1>1. S = [t \in Views |-> [AtList(c, at[t], n) EXCEPT !.lazy = t # a]]
  BY DEF SessionTabs
<1>2. ASSUME NEW t \in Views
      PROVE  /\ S[t] \in ViewRecord /\ S[t].gen = 0 /\ S[t].cache = NoCache
             /\ S[t].middle = NoList /\ S[t].left = TypesOf(c) /\ S[t].right = NoList
             /\ (t # a => S[t].lazy)
  <2> HIDE DEF S
  <2>1. S[t] = [AtList(c, at[t], n) EXCEPT !.lazy = t # a]
    BY <1>1
  <2>2. PICK z \in BOOLEAN : z <=> t # a
    OBVIOUS
  <2>3. S[t] = [AtList(c, at[t], n) EXCEPT !.lazy = z]
    <3>1. CASE t = a
      BY <2>1, <2>2, <3>1
    <3>2. CASE t # a
      BY <2>1, <2>2, <3>2
    <3> QED
      BY <3>1, <3>2
  <2>4. at[t] \in Types
    OBVIOUS
  <2> QED
    BY <2>2, <2>3, <2>4, NewTabs
<1> HIDE DEF S
<1>3. S \in [Views -> ViewRecord]
  BY <1>1, <1>2
<1> QED
  BY <1>2, <1>3 DEF S

\* The tabs of a session take the place of all others: none but the one in front
\* has a load to wait for, and that one asks at once.
LEMMA SessionKeeps ==
  ASSUME TabListsInv, NEW p \in msgs, SessionRestored(p)
  PROVE  TabListsInv'
<1>0. /\ p \in msgs /\ opened' \subseteq Views /\ up \in opened'
      /\ UNCHANGED <<up, keys, overrun, unasked>> /\ crossed' = (crossed \/ msgs # {p})
  BY DEF SessionRestored
<1>1. PICK c \in Contexts, r \in Types, n \in Namespaces :
        \E v \in {Restored(AtList(c, r, n)), Restored(AtTypes(c, r, n))} :
           /\ tab' = [SessionTabs(c, n, [t \in Views |-> r], up) EXCEPT ![up] = v]
           /\ msgs' = (msgs \ {p}) \cup {IF v.rt = NoType THEN Preview(v) ELSE Main(v)}
  BY DEF SessionRestored
<1>2. PICK v \in {Restored(AtList(c, r, n)), Restored(AtTypes(c, r, n))} :
        /\ tab' = [SessionTabs(c, n, [t \in Views |-> r], up) EXCEPT ![up] = v]
        /\ msgs' = (msgs \ {p}) \cup {IF v.rt = NoType THEN Preview(v) ELSE Main(v)}
  BY <1>1
<1> DEFINE S == SessionTabs(c, n, [t \in Views |-> r], up)
           q == IF v.rt = NoType THEN Preview(v) ELSE Main(v)
<1>3. /\ Nowhere \in Namespaces /\ Top \in ViewRecord /\ Top.gen \in Nat /\ Top.gen <= keys
      /\ PrintsHaveLists(Top) /\ up \in Views /\ keys \in 0 .. MaxKeys /\ keys \in Nat
  BY TopFacts, ListsConstant
<1>4. TypesOf(c) \in Lists /\ TypesOf(c).rt = NoType
  BY <1>3, RowsAnswer
<1>5. /\ v \in ViewRecord /\ v.gen = Top.gen /\ v.cache = Top.cache /\ v.right = NoList
      /\ \/ v.rt = r /\ v.middle = NoList /\ v.left = TypesOf(c)
         \/ v.rt = NoType /\ v.middle = TypesOf(c) /\ v.left = NoList
  <2>1. CASE v = Restored(AtTypes(c, r, n))
    <3>1. /\ AtTypes(c, r, n) \in ViewRecord /\ AtTypes(c, r, n).rt = NoType
          /\ AtTypes(c, r, n).middle = TypesOf(c) /\ AtTypes(c, r, n).left = NoList
          /\ AtTypes(c, r, n).right = NoList
      BY <1>3, NewTabs
    <3> QED
      BY <1>3, <2>1, <3>1 DEF Restored, ViewRecord
  <2>2. CASE v = Restored(AtList(c, r, n))
    <3>1. /\ AtList(c, r, n) \in ViewRecord /\ AtList(c, r, n).rt = r
          /\ AtList(c, r, n).middle = NoList /\ AtList(c, r, n).left = TypesOf(c)
          /\ AtList(c, r, n).right = NoList
      <4>1. /\ AtTypes(c, r, n) \in ViewRecord /\ AtTypes(c, r, n).right = NoList
        BY <1>3, NewTabs
      <4> QED
        BY <1>4, <4>1 DEF AtList, ViewRecord
    <3> QED
      BY <1>3, <2>2, <3>1 DEF Restored, ViewRecord
  <2> QED
    BY <2>1, <2>2
<1>6. /\ S \in [Views -> ViewRecord]
      /\ \A t \in Views : /\ S[t].gen = 0 /\ S[t].cache = NoCache /\ S[t].middle = NoList
                          /\ S[t].left = TypesOf(c) /\ S[t].right = NoList
                          /\ (t # up => S[t].lazy)
  <2>1. [t \in Views |-> r] \in [Views -> Types]
    OBVIOUS
  <2> QED
    BY <1>3, <2>1, LazyTabs
<1>7. tab' = [S EXCEPT ![up] = v] /\ msgs' = (msgs \ {p}) \cup {q}
  BY <1>2
<1> HIDE DEF S
<1>8. /\ tab' \in [Views -> ViewRecord] /\ tab'[up] = v
      /\ \A t \in Views : t # up => tab'[t] = S[t]
  BY <1>3, <1>5, <1>6, <1>7
<1>9. PrintsHaveLists(v) /\ \A t \in Views : PrintsHaveLists(tab'[t])
  <2>1. PrintsHaveLists(v)
    BY <1>3, <1>5 DEF PrintsHaveLists
  <2>2. \A t \in Views : PrintsHaveLists(S[t])
    BY <1>6, NoCacheIsEmpty DEF PrintsHaveLists
  <2> QED
    BY <1>8, <2>1, <2>2
<1>10. /\ q \in Answer /\ q.gen = Top.gen
       /\ (CacheIsOwn(v) => AnswerFor(q, v))
       /\ (v.rt # NoType => q = Main(v))
  BY <1>5, <1>9, MainAnswers, PreviewAnswers
<1> HIDE DEF q
<1>11. ListsShape'
  <2>1. msgs' \subseteq Answer
    BY <1>7, <1>10, ListsConstant
  <2>2. crossed' \in BOOLEAN /\ overrun' \in BOOLEAN /\ unasked' \in BOOLEAN
    BY <1>0, ListsConstant
  <2> QED
    BY <1>0, <1>3, <1>8, <2>1, <2>2 DEF ListsShape
<1>12. GensAreKeys'
  <2>1. \A t \in Views : tab'[t].gen <= keys'
    BY <1>0, <1>3, <1>5, <1>6, <1>8
  <2>2. \A m \in msgs' : m.gen <= keys'
    BY <1>0, <1>3, <1>7, <1>10, ListsConstant
  <2> QED
    BY <2>1, <2>2 DEF GensAreKeys
<1>13. ListsPlaced'
  <2>1. SUFFICES ASSUME ~Astray'
                 PROVE  /\ \A t \in Views : OwnLists(tab'[t])
                        /\ \A m \in msgs' : AnswerFor(m, tab'[up'])
    BY DEF ListsPlaced, AnswerFor, OwnLists, CacheIsOwn
  <2>2. msgs' = {q} /\ OwnLists(Top)
    BY <1>0, <1>7, <2>1, TopFacts DEF Astray
  <2>3. CacheIsOwn(v)
    BY <1>5, <2>2 DEF OwnLists, CacheIsOwn
  <2>4. OwnLists(v)
    BY <1>4, <1>5, <2>3 DEF OwnLists
  <2>5. \A t \in Views : OwnLists(S[t])
    BY <1>4, <1>6, NoCacheIsEmpty DEF OwnLists, CacheIsOwn
  <2> QED
    BY <1>0, <1>8, <1>10, <2>2, <2>3, <2>4, <2>5
<1>14. LazyElsewhere'
  <2>1. \A t \in opened' \ {up'} : tab'[t].lazy
    BY <1>0, <1>6, <1>8
  <2> QED
    BY <2>1 DEF LazyElsewhere
<1>15. TopAwaits'
  <2>1. Awaits(v, msgs')
    BY <1>7, <1>10 DEF Awaits
  <2> QED
    BY <1>0, <1>8, <2>1 DEF TopAwaits, Awaits, Main
<1> QED
  BY <1>9, <1>11, <1>12, <1>13, <1>14, <1>15 DEF TabListsInv, PrintsHaveLists

-----------------------------------------------------------------------------
LEMMA TabListsInvHolds == TabListsInit => TabListsInv
<1> SUFFICES ASSUME TabListsInit PROVE TabListsInv
  OBVIOUS
<1>0. PICK c \in Contexts, n \in Namespaces, at \in [Views -> Types] :
         \/ /\ tab = [t \in Views |-> AtTypes(c, at[t], n)]
            /\ opened = {up} /\ msgs = {}
         \/ /\ tab = SessionTabs(c, n, at, up)
            /\ opened = Views /\ msgs = {Main(tab[up])}
  BY DEF TabListsInit
<1>1. up \in Views /\ keys = 0 /\ crossed = FALSE /\ overrun = FALSE /\ unasked = FALSE
  BY DEF TabListsInit
<1>a. keys \in 0 .. MaxKeys
  <2>1. 0 \in 0 .. MaxKeys
    BY ListsAssumption
  <2> QED
    BY <1>1, <2>1
<1>b. crossed \in BOOLEAN /\ overrun \in BOOLEAN /\ unasked \in BOOLEAN
  BY <1>1
<1>2. Nowhere \in Namespaces
  BY <1>0 DEF Nowhere
<1>3. TypesOf(c) \in Lists /\ TypesOf(c).rt = NoType
  BY <1>2, RowsAnswer
<1>4. NoCache \in [Contexts \X Types -> Entry]
      /\ \A k \in Contexts \X Types : NoCache[k].list = NoList /\ NoCache[k].print = NoList
  BY NoCacheIsEmpty
<1>5. ASSUME NEW r \in Types
      PROVE  /\ AtTypes(c, r, n) \in ViewRecord /\ AtTypes(c, r, n).rt = NoType
             /\ AtTypes(c, r, n).gen = 0 /\ AtTypes(c, r, n).cache = NoCache
             /\ AtTypes(c, r, n).middle = TypesOf(c) /\ AtTypes(c, r, n).left = NoList
             /\ AtTypes(c, r, n).right = NoList
  BY <1>2, <1>5, NewTabs
<1>7. CASE /\ tab = [t \in Views |-> AtTypes(c, at[t], n)]
           /\ opened = {up} /\ msgs = {}
  <2>1. \A t \in Views : /\ tab[t] \in ViewRecord /\ tab[t].rt = NoType /\ tab[t].gen = 0
                         /\ tab[t].cache = NoCache /\ tab[t].middle = TypesOf(c)
                         /\ tab[t].left = NoList /\ tab[t].right = NoList
    BY <1>5, <1>7
  <2>2. tab \in [Views -> ViewRecord]
    <3>1. tab = [t \in Views |-> tab[t]]
      BY <1>7
    <3> QED
      BY <2>1, <3>1
  <2>3. ListsShape
    BY <1>a, <1>b, <1>1, <1>2, <1>7, <2>2 DEF ListsShape
  <2>4. GensAreKeys /\ \A t \in Views : PrintsHaveLists(tab[t])
    BY <1>1, <1>4, <1>7, <2>1 DEF GensAreKeys, PrintsHaveLists
  <2>5. ListsPlaced
    BY <1>3, <1>4, <1>7, <2>1 DEF ListsPlaced, OwnLists, CacheIsOwn
  <2>6. LazyElsewhere /\ TopAwaits
    BY <1>1, <1>7, <2>1 DEF LazyElsewhere, TopAwaits, Awaits
  <2> QED
    BY <2>3, <2>4, <2>5, <2>6 DEF TabListsInv
<1>8. CASE /\ tab = SessionTabs(c, n, at, up)
           /\ opened = Views /\ msgs = {Main(tab[up])}
  <2>1. /\ tab \in [Views -> ViewRecord]
        /\ \A t \in Views : /\ tab[t].gen = 0 /\ tab[t].cache = NoCache
                            /\ tab[t].middle = NoList /\ tab[t].left = TypesOf(c)
                            /\ tab[t].right = NoList /\ (t # up => tab[t].lazy)
    BY <1>2, <1>8, LazyTabs
  <2>3. Main(tab[up]) \in Answer /\ Main(tab[up]).gen = 0 /\ AnswerFor(Main(tab[up]), tab[up])
    BY <1>1, <2>1, MainAnswers
  <2>4. ListsShape
    BY <1>a, <1>b, <1>1, <1>2, <1>8, <2>1, <2>3 DEF ListsShape
  <2>5. GensAreKeys /\ \A t \in Views : PrintsHaveLists(tab[t])
    <3>1. GensAreKeys
      <4>1. \A p \in msgs : p.gen = 0
        BY <1>8, <2>3
      <4> QED
        BY <1>1, <2>1, <4>1 DEF GensAreKeys
    <3>2. \A t \in Views : PrintsHaveLists(tab[t])
      BY <1>4, <2>1 DEF PrintsHaveLists
    <3> QED
      BY <3>1, <3>2
  <2>6. ListsPlaced
    BY <1>3, <1>4, <1>8, <2>1, <2>3 DEF ListsPlaced, OwnLists, CacheIsOwn
  <2>7. LazyElsewhere /\ TopAwaits
    BY <1>8, <2>1 DEF LazyElsewhere, TopAwaits, Awaits
  <2> QED
    BY <2>4, <2>5, <2>6, <2>7 DEF TabListsInv
<1> QED
  BY <1>0, <1>7, <1>8

LEMMA TabListsInvStep == TabListsInv /\ [TabListsNext]_listVars => TabListsInv'
<1> SUFFICES ASSUME TabListsInv, [TabListsNext]_listVars PROVE TabListsInv'
  OBVIOUS
<1>1. CASE UNCHANGED listVars
  BY <1>1 DEF listVars, TabListsInv, ListsShape, GensAreKeys, PrintsHaveLists, ListsPlaced,
     LazyElsewhere, TopAwaits, Awaits, OwnLists, CacheIsOwn, AnswerFor, Main, ListOf, Astray
<1>2. CASE Drill \/ Back \/ PreviewDue \/ WatchTick \/ SwitchSession
  BY <1>2, DrillKeeps, BackKeeps, PreviewDueKeeps, TickKeeps, SwitchKeeps
<1>3. CASE MoveRow \/ \E r \in Types : Hover(r)
  <2>1. Top.hover \in Types
    BY TopFacts
  <2> QED
    BY <1>3, <2>1, CursorKeeps
<1>4. CASE Refresh \/ \E n \in Namespaces : SelectNamespace(n) \/ NamespaceCommand(n)
  <2>1. Top.ns \in Namespaces
    BY TopFacts
  <2> QED
    BY <1>4, <2>1, RefreshKeeps, NamespaceKeeps
<1>5. CASE \E c \in Contexts : ContextCommand(c)
  BY <1>5, ContextKeeps
<1>6. CASE \E p \in msgs : \/ MainLoaded(p) \/ PreviewLoaded(p) \/ Discarded(p)
                           \/ LoadFailed(p) \/ TypesLoaded(p) \/ ClustersLoaded(p)
                           \/ SessionRestored(p)
  BY <1>6, MainLoadedKeeps, PreviewLoadedKeeps, DroppedKeeps, TypesLoadedKeeps,
     ClustersLoadedKeeps, SessionKeeps
<1>7. CASE GoToTab \/ CloseTop
  <2>1. PICK t \in opened \ {up} : Enter(t) /\ (opened' = opened \/ opened' = opened \ {up})
    BY <1>7 DEF GoToTab, CloseTop
  <2> QED
    BY <2>1, EnterKeeps
<1>8. CASE CloneTab
  BY <1>8, CloneKeeps
<1> QED
  BY <1>1, <1>2, <1>3, <1>4, <1>5, <1>6, <1>7, <1>8 DEF TabListsNext

LEMMA TabListsAlwaysInv == TabListsSpec => []TabListsInv
BY TabListsInvHolds, TabListsInvStep, PTL DEF TabListsSpec

\* The types of the lists hold for any contexts, types, namespaces and tabs.
THEOREM TabListsKeepTypes == TabListsSpec => []TabListsTypeOK
<1>1. TabListsInv => TabListsTypeOK
  <2> SUFFICES ASSUME TabListsInv PROVE TabListsTypeOK
    OBVIOUS
  <2>1. ListsShape /\ GensAreKeys /\ keys \in 0 .. MaxKeys /\ MaxKeys \in Nat
    BY ListsAssumption DEF TabListsInv, ListsShape
  <2> DEFINE V == [ctx : Contexts, rt : Types \cup {NoType}, ns : Namespaces,
                   gen : 0 .. MaxKeys,
                   middle : Lists \cup {NoList}, left : Lists \cup {NoList},
                   right : Lists \cup {NoList}, hover : Types,
                   cache : [Contexts \X Types -> Entry], lazy : BOOLEAN]
  <2>2. tab \in [Views -> V]
    <3>1. ASSUME NEW t \in Views PROVE tab[t] \in V
      <4>1. tab[t] \in ViewRecord /\ tab[t].gen <= keys
        BY <2>1 DEF ListsShape, GensAreKeys
      <4>2. tab[t].gen \in 0 .. MaxKeys
        BY <2>1, <4>1 DEF ViewRecord
      <4> QED
        BY <4>1, <4>2 DEF ViewRecord
    <3> HIDE DEF V
    <3> QED
      BY <2>1, <3>1 DEF ListsShape
  <2> DEFINE A == [kind : {"main", "preview", "types", "clusters"}, gen : 0 .. MaxKeys,
                   list : Lists]
  <2>3. msgs \subseteq A
    <3>1. ASSUME NEW p \in msgs PROVE p \in A
      <4>1. p \in Answer /\ p.gen <= keys
        BY <2>1 DEF ListsShape, GensAreKeys
      <4>2. p.gen \in 0 .. MaxKeys
        BY <2>1, <4>1 DEF Answer
      <4> QED
        BY <4>1, <4>2 DEF Answer
    <3> QED
      BY <3>1
  <2> QED
    BY <2>1, <2>2, <2>3 DEF TabListsTypeOK, ListsShape
<1> QED
  BY <1>1, TabListsAlwaysInv, PTL

\* However late and in whatever order the answers come, a tab shows the lists
\* of its own place, and its cache holds each list under its own key.  Not when
\* the user went elsewhere by a way that does not count the generation up, with
\* answers under way (a change of tab, a switch of the session, :ns, :ctx), and
\* not when rows of the types or of the clusters, which carry no generation,
\* came over another list: there the code does show the wrong one.
THEOREM ListsStayInPlace == TabListsSpec => []ListsAreOfTheirPlace
<1>1. TabListsInv => ListsAreOfTheirPlace
  <2> SUFFICES ASSUME TabListsInv, ~crossed, ~overrun, NEW t \in opened
               PROVE  LET v == tab[t]
                      IN  /\ v.middle # NoList => v.middle.rt = v.rt
                          /\ v.middle # NoList /\ v.rt # NoType => v.middle.ctx = v.ctx
                          /\ v.right # NoList => v.rt = NoType /\ v.right.rt = v.hover
                          /\ \A c \in Contexts, r \in Types :
                               LET e == v.cache[<<c, r>>]
                               IN  /\ e.list # NoList => e.list.ctx = c /\ e.list.rt = r
                                   /\ e.print # NoList => e.list # NoList /\ e.list.ns = e.print
    BY DEF ListsAreOfTheirPlace, ShownInPlace
  <2>1. t \in Views /\ OwnLists(tab[t]) /\ PrintsHaveLists(tab[t])
    BY DEF TabListsInv, ListsShape, ListsPlaced, Astray
  <2>2. ASSUME NEW c \in Contexts, NEW r \in Types
        PROVE  LET e == tab[t].cache[<<c, r>>]
               IN  /\ e.list # NoList => e.list.ctx = c /\ e.list.rt = r
                   /\ e.print # NoList => e.list # NoList /\ e.list.ns = e.print
    <3>1. <<c, r>> \in Contexts \X Types /\ <<c, r>>[1] = c /\ <<c, r>>[2] = r
      OBVIOUS
    <3> QED
      BY <2>1, <3>1 DEF OwnLists, CacheIsOwn, PrintsHaveLists
  <2> QED
    BY <2>1, <2>2 DEF OwnLists
<1> QED
  BY <1>1, TabListsAlwaysInv, PTL

\* A list that is still empty because it was never loaded has its load under way.
THEOREM EmptyListsAreLoading == TabListsSpec => []EmptyListIsAwaited
<1>1. TabListsInv => EmptyListIsAwaited
  BY DEF TabListsInv, TopAwaits, Awaits, EmptyListIsAwaited, Top
<1> QED
  BY <1>1, TabListsAlwaysInv, PTL

-----------------------------------------------------------------------------
(* The parts together.                                                     *)

\* A behaviour of the managers is one of each of its parts: what is proved of a
\* part holds of them together.
LEMMA PartsRunApart ==
    ManagersSpec => /\ WaitersSpec /\ ForwardsSpec /\ TrackerSpec /\ SecuritySpec
                    /\ StateFilesSpec /\ BadgesSpec /\ TabListsSpec
  <1>1. ManagersInit => /\ WaitersInit /\ ForwardsInit /\ TrackerInit /\ SecurityInit
                        /\ StateFilesInit /\ BadgesInit /\ TabListsInit
    BY DEF ManagersInit
  <1>2. ASSUME [ManagersNext]_managerVars
        PROVE  /\ [WaitersNext]_waiterVars /\ [ForwardsNext]_forwardVars
               /\ [TrackerNext]_trackerVars /\ [SecurityNext]_securityVars
               /\ [StateFilesNext]_fileVars /\ [BadgesNext]_badgeVars
               /\ [TabListsNext]_listVars
    <2>1. CASE ManagersNext
      BY <2>1 DEF ManagersNext
    <2>2. CASE UNCHANGED managerVars
      BY <2>2 DEF managerVars
    <2> QED
      BY <1>2, <2>1, <2>2
  <1> QED
    BY <1>1, <1>2, PTL DEF ManagersSpec, WaitersSpec, ForwardsSpec, TrackerSpec,
       SecuritySpec, StateFilesSpec, BadgesSpec, TabListsSpec

\* Every variable of the managers keeps its type: the pointers of a row, a
\* forward or a flight name what exists.
THEOREM ManagersKeepTypes == ManagersSpec => []ManagersTypeOK
  <1>1. TrackerInv => TrackerTypeOK
    BY DEF TrackerInv
  <1>2. SecurityInv => SecurityTypeOK
    BY DEF SecurityInv
  <1>3. BadgesInv => BadgesTypeOK
    BY DEF BadgesInv
  <1>4. WaitersTypeOK /\ ForwardsTypeOK /\ TrackerTypeOK /\ SecurityTypeOK /\ StateFilesTypeOK
          /\ BadgesTypeOK /\ TabListsTypeOK => ManagersTypeOK
    BY DEF ManagersTypeOK
  <1> QED
    BY <1>1, <1>2, <1>3, <1>4, PartsRunApart, WaitersKeepTypes, ForwardsKeepTypes,
       TrackerAlwaysInv, SecurityAlwaysInv, FilesTypeCorrect, BadgesAlwaysInv,
       TabListsKeepTypes, PTL
=============================================================================
