----------------------------- MODULE MCManagers -----------------------------
(***************************************************************************)
(* Small instances of the parts of lfk that share no state: the listeners  *)
(* of its managers, port-forwards, tracked tasks, the security manager,    *)
(* the badges, the state files, the lists.  A behaviour is one of a single *)
(* part, chosen at the start, so that TLC sees the sum of their states and *)
(* not the product; the others stay in one initial state.                  *)
(***************************************************************************)
EXTENDS UpdateWaiters, PortForwards, TaskTracker, SecurityManager, StateFiles,
        SecurityBadges, TabLists

CONSTANTS e1, e2, t1, o1, o2, k1, k2, c1, c2, n1, n2,
          Parts     \* those a run is about

VARIABLE part

managerVars == <<part, waiterVars, forwardVars, trackerVars, securityVars, fileVars,
                 badgeVars, listVars>>

\* Two bulk operations of one name.
OneName == [o \in Ops |-> "Delete"]

\* The files of the program: column and sort memory; viewer preferences;
\* bookmarks, colours and ignores; pinned and hidden types; the findings of a
\* cluster; port-forwards.
FileKinds ==
    {[locked |-> TRUE,  merges |-> TRUE,  synced |-> FALSE],
     [locked |-> TRUE,  merges |-> TRUE,  synced |-> TRUE],
     [locked |-> TRUE,  merges |-> FALSE, synced |-> TRUE],
     [locked |-> TRUE,  merges |-> FALSE, synced |-> FALSE],
     [locked |-> FALSE, merges |-> TRUE,  synced |-> TRUE],
     [locked |-> FALSE, merges |-> FALSE, synced |-> FALSE]}

ManagersInit ==
    /\ part \in Parts
    /\ WaitersInit /\ ForwardsInit /\ TrackerInit /\ SecurityInit /\ StateFilesInit
    /\ BadgesInit /\ TabListsInit
    /\ part # "forwards" => file = {}
    /\ part # "tracker"  => active = 1
    /\ part # "files"    => kind = CHOOSE k \in Kinds : TRUE
    /\ part # "badges"   => posts = {} /\ front = 1 /\ Here.ns = n1
                            /\ \A c \in Clusters : disk[c] = NoCluster
    /\ part = "tracker"  => active = 1
    /\ part = "badges"   => front = 1
    /\ up = 1 /\ tab[1].hover = o1 /\ tab[2].hover = o2 /\ tab[1].ctx = k1
    /\ tab[1].ns = n1
    /\ part # "lists"    => opened = {up}

\* BOUND: a behaviour of the badges, or of the lists, ends where their safety
\* invariants cease to promise anything.
ManagersNext ==
    /\ UNCHANGED part
    /\ IF part = "waiters"  THEN WaitersNext    ELSE UNCHANGED waiterVars
    /\ IF part = "forwards" THEN ForwardsNext   ELSE UNCHANGED forwardVars
    /\ IF part = "tracker"  THEN TrackerNext    ELSE UNCHANGED trackerVars
    /\ IF part = "security" THEN SecurityNext   ELSE UNCHANGED securityVars
    /\ IF part = "files"    THEN StateFilesNext ELSE UNCHANGED fileVars
    /\ IF part = "badges"   THEN ~strayed /\ BadgesNext ELSE UNCHANGED badgeVars
    /\ IF part = "lists"    THEN ~crossed /\ ~overrun /\ TabListsNext
                            ELSE UNCHANGED listVars

ManagersSpec ==
    /\ ManagersInit /\ [][ManagersNext]_managerVars
    /\ WaitersFairness

ManagersTypeOK ==
    /\ WaitersTypeOK /\ ForwardsTypeOK /\ TrackerTypeOK /\ SecurityTypeOK
    /\ StateFilesTypeOK /\ BadgesTypeOK /\ TabListsTypeOK
=============================================================================
