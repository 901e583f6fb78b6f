---------------------------- MODULE SecurityBadges ----------------------------
(***************************************************************************)
(* Whose findings the user sees: the badge index of a tab, the manager the *)
(* Kubernetes client lists findings with, and the findings kept on disk    *)
(* (src/internal/app: commands_security.go, security_refresh.go,           *)
(* tabs_security.go), while the user changes the cluster, the namespace    *)
(* and the tab and answers are under way.                                  *)
(*                                                                         *)
(* The Update loop takes one message at a time; a command in flight is the *)
(* message it will send, if any.  A manager's sources are bound to the     *)
(* cluster it was made for, so a manager is known by that cluster, and so  *)
(* are the findings it scans (FetchAll itself is SecurityManager).  Which  *)
(* sources a cluster has is left to chance: a scan may begin at any time   *)
(* the user is in a tab, as one does after a probe of the sources.         *)
(***************************************************************************)
EXTENDS Naturals, FiniteSets

CONSTANTS
    Clusters,    \* contexts, one per cluster
    Scopes,      \* what effectiveNamespace may be
    Panes,       \* tabs
    Current,     \* the kubeconfig's current context
    NoCluster,   \* no context: the cluster list; also no findings
    MaxPosts,    \* BOUND: commands in flight when another starts
    MaxMoves     \* BOUND: changes of the cluster

ASSUME BadgesAssumption == /\ Current \in Clusters
                           /\ NoCluster \notin Clusters
                           /\ MaxPosts \in Nat \ {0} /\ MaxMoves \in Nat

VARIABLES
    pane,       \* tab -> [ctx, ns, index, mgr]
    shownPanes, \* the open tabs
    front,      \* the active tab
    client,     \* securityManager of the shared k8s client
    posts,      \* commands in flight
    disk,       \* cluster -> whose findings its file holds
    moves,      \* changes of the cluster so far
    strayed     \* history: the user went a way that does not rebuild all of the state

badgeVars == <<pane, shownPanes, front, client, posts, disk, moves, strayed>>

OrNone == Clusters \cup {NoCluster}

BadgesTypeOK ==
    /\ pane \in [Panes -> [ctx : OrNone, ns : Scopes, index : OrNone, mgr : Clusters]]
    /\ shownPanes \subseteq Panes /\ front \in shownPanes
    /\ client \in Clusters
    /\ posts \subseteq [kind : {"scan"}, ctx : Clusters, ns : Scopes, of : Clusters]
                      \cup [kind : {"seed"}, ctx : Clusters, of : Clusters]
    /\ disk \in [Clusters -> OrNone]
    /\ moves \in 0 .. MaxMoves /\ strayed \in BOOLEAN

\* What a scan's message carries.  A seed's is what securityFindingsSeedCmd read
\* from the file of the cluster, if there was any; nobody looks at its namespace.
Scan(c, n, m) == [kind |-> "scan", ctx |-> c, ns |-> n, of |-> m]
Seeds(c, d)   == {[kind |-> "seed", ctx |-> c, of |-> f] : f \in {d[c]} \ {NoCluster}}

NoPane(n) == [ctx |-> NoCluster, ns |-> n, index |-> NoCluster, mgr |-> Current]
Closed == NoPane(CHOOSE n \in Scopes : TRUE)

\* A new session: the manager is made for the current context, with the context
\* not set yet.  Its seed is on its way if that cluster was inspected before.
BadgesInit ==
    /\ front \in Panes /\ shownPanes = {front}
    /\ \E n \in Scopes : pane = [t \in Panes |-> IF t = front THEN NoPane(n) ELSE Closed]
    /\ client = Current
    /\ disk \in {d \in [Clusters -> OrNone] : \A c \in Clusters : d[c] \in {c, NoCluster}}
    /\ posts = Seeds(Current, disk)
    /\ moves = 0 /\ strayed = FALSE

Here == pane[front]

Move == moves < MaxMoves /\ moves' = moves + 1
Room == Cardinality(posts) < MaxPosts

\* refreshSecuritySources for c and its seed, and maybeEagerSecurityScan: both
\* do nothing more when the sources of the cluster are not known from the disk.
Rebuild(c, n) ==
    /\ client' = c
    /\ posts' \in {posts, posts \cup {Scan(c, n, c)} \cup Seeds(c, disk)}

-----------------------------------------------------------------------------
\* navigateChildCluster: the cluster is picked in the list.
Pick(c) ==
    /\ Here.ctx = NoCluster
    /\ \E n \in Scopes :
         /\ pane' = [pane EXCEPT ![front] = [ctx |-> c, ns |-> n, index |-> NoCluster,
                                             mgr |-> c]]
         /\ Rebuild(c, n)
    /\ Move /\ UNCHANGED <<shownPanes, front, disk, strayed>>

\* Back to the list.
Leave ==
    /\ Here.ctx # NoCluster
    /\ pane' = [pane EXCEPT ![front].ctx = NoCluster]
    /\ UNCHANGED <<shownPanes, front, client, posts, disk, moves, strayed>>

\* :ctx, a bookmark of another context, and the way back from it.
Jump(c) ==
    /\ Here.ctx # c
    /\ \E n \in Scopes : pane' = [pane EXCEPT ![front].ctx = c, ![front].ns = n]
    /\ Move /\ strayed' = TRUE
    /\ UNCHANGED <<shownPanes, front, client, posts, disk>>

\* restoreSession, once the contexts are loaded, at the start and when the user
\* switches the session, from wherever the tab in front is by then: the index
\* stays.  BOUND: the session has one tab; others would rebuild their state when
\* they are first shown.
RestoreSession(c) ==
    /\ \E n \in Scopes :
         /\ pane' = [t \in Panes |-> IF t # front THEN Closed
                                    ELSE [Here EXCEPT !.ctx = c, !.ns = n, !.mgr = c]]
         /\ Rebuild(c, n)
    /\ shownPanes' = {front}
    /\ Move /\ strayed' = TRUE
    /\ UNCHANGED <<front, disk>>

SetNamespace ==
    /\ \E n \in Scopes \ {Here.ns} : pane' = [pane EXCEPT ![front].ns = n]
    /\ UNCHANGED <<shownPanes, front, client, posts, disk, moves, strayed>>

\* loadSecurityFindings: the tab's manager, and its context, or the current one.
\* In the cluster list it is a late answer of a probe that begins it.
LoadFindings ==
    /\ Room
    /\ LET c == IF Here.ctx = NoCluster THEN Current ELSE Here.ctx
       IN  posts' = posts \cup {Scan(c, Here.ns, Here.mgr)}
    /\ strayed' = (strayed \/ Here.ctx = NoCluster)
    /\ UNCHANGED <<pane, shownPanes, front, client, disk, moves>>

-----------------------------------------------------------------------------
IsStale(p) == Here.ctx # NoCluster /\ p.ctx # Here.ctx

\* updateSecurityFindingsLoaded; a scan with an error is not kept on disk.
FindingsLoaded_anyContext(p) ==
    /\ p.kind = "scan"
    /\ posts' = posts \ {p}
    /\ \/ p.ns # Here.ns /\ UNCHANGED <<pane, disk>>
       \/ /\ p.ns = Here.ns
          /\ pane' = [pane EXCEPT ![front].index = p.of]
          /\ disk' \in {disk, [disk EXCEPT ![p.ctx] = p.of]}
    /\ UNCHANGED <<shownPanes, front, client, moves, strayed>>
FindingsLoaded(p) ==
    /\ p.kind = "scan"
    /\ posts' = posts \ {p}
    /\ \/ (IsStale(p) \/ p.ns # Here.ns) /\ UNCHANGED <<pane, disk>>
       \/ /\ ~IsStale(p) /\ p.ns = Here.ns
          /\ pane' = [pane EXCEPT ![front].index = p.of]
          /\ disk' \in {disk, [disk EXCEPT ![p.ctx] = p.of]}
    /\ UNCHANGED <<shownPanes, front, client, moves, strayed>>

\* updateSecurityFindingsSeed.
SeedLoaded(p) ==
    /\ p.kind = "seed"
    /\ posts' = posts \ {p}
    /\ pane' = IF Here.index # NoCluster \/ IsStale(p) THEN pane
               ELSE [pane EXCEPT ![front].index = p.of]
    /\ UNCHANGED <<shownPanes, front, client, disk, moves, strayed>>

\* The command returned no message: its call of FetchAll was cut short.
ScanLost(p) ==
    /\ p.kind = "scan"
    /\ posts' = posts \ {p}
    /\ UNCHANGED <<pane, shownPanes, front, client, disk, moves, strayed>>

-----------------------------------------------------------------------------
\* cloneCurrentTab, loadTab: the client keeps the manager it has.
NewPane ==
    /\ \E t \in Panes \ shownPanes :
         /\ pane' = [pane EXCEPT ![t] = Here]
         /\ shownPanes' = shownPanes \cup {t} /\ front' = t
    /\ UNCHANGED <<client, posts, disk, moves, strayed>>

SwitchPane ==
    /\ front' \in shownPanes \ {front}
    /\ UNCHANGED <<pane, shownPanes, client, posts, disk, moves, strayed>>

ClosePane ==
    /\ shownPanes # {front}
    /\ shownPanes' = shownPanes \ {front}
    /\ front' \in shownPanes'
    /\ pane' = [pane EXCEPT ![front] = Closed]
    /\ UNCHANGED <<client, posts, disk, moves, strayed>>

BadgesNext ==
    \/ \E c \in Clusters : Pick(c) \/ Jump(c) \/ RestoreSession(c)
    \/ Leave \/ SetNamespace \/ LoadFindings
    \/ \E p \in posts : FindingsLoaded(p) \/ SeedLoaded(p) \/ ScanLost(p)
    \/ NewPane \/ SwitchPane \/ ClosePane

BadgesSpec == BadgesInit /\ [][BadgesNext]_badgeVars

-----------------------------------------------------------------------------
\* As long as the user changes clusters in the list only, neither with :ctx and
\* bookmarks nor by a session, and no probe's answer begins a scan there, every
\* tab's badges are of its own cluster, however late
\* and in whatever order the answers come, and so is the file of every cluster.
BadgesFollowThePicker ==
    ~strayed =>
        /\ \A t \in shownPanes : pane[t].ctx # NoCluster =>
               pane[t].index \in {NoCluster, pane[t].ctx}
        /\ \A c \in Clusters : disk[c] \in {c, NoCluster}
=============================================================================
