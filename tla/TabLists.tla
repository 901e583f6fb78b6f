------------------------------- MODULE TabLists -------------------------------
(***************************************************************************)
(* The lists of the explorer: tabs, the request generation and the answers *)
(* under way (src/internal/app: update_navigation.go, commands_load.go,    *)
(* update_resources_loaded*.go, tab_state.go, the commands :ns and :ctx,   *)
(* update_bookmarks_session.go).                                           *)
(*                                                                         *)
(* A tab is at the resource types of a context or at the list of one type. *)
(* The Update loop takes one message at a time; a command in flight is the *)
(* message it will send.  A list is known by what it was asked for, and so *)
(* is a load, at the moment it begins.  Deeper levels, the cluster list    *)
(* and the filters over a list are left out; the namespaces shown are one. *)
(***************************************************************************)
EXTENDS Naturals, FiniteSets

CONSTANTS
    Contexts, Types, Namespaces,
    Views,       \* tabs
    NoType,      \* the type of the list of types
    ClusterType, \* the type of the list of clusters
    NoList,      \* nothing
    MaxKeys,     \* BOUND: what the user does
    MaxMsgs      \* BOUND: answers under way

VARIABLES
    tab,       \* of each view: where it is, what it shows, its caches
    opened,    \* the open tabs
    up,        \* the active tab
    msgs,      \* answers under way
    keys,      \* what the user did so far
    crossed,   \* history: the user went elsewhere by a way that does not count the
               \* generation up, with answers under way, or from a list by :ctx
    overrun,   \* history: the rows of the types, or of the clusters, came when
               \* another list was in front
    unasked    \* history: a load failed, or the cursor moved while one was under way

listVars == <<tab, opened, up, msgs, keys, crossed, overrun, unasked>>

Lists == [ctx : Contexts, rt : Types \cup {NoType, ClusterType}, ns : Namespaces]

ASSUME ListsAssumption == /\ NoType \notin Types /\ ClusterType \notin Types \cup {NoType}
                          /\ NoList \notin Lists \cup Namespaces
                          /\ MaxKeys \in Nat /\ MaxMsgs \in Nat \ {0}

Entry == [list : Lists \cup {NoList}, print : Namespaces \cup {NoList}]
Nowhere == CHOOSE n \in Namespaces : TRUE

ListOf(c, r, n) == [ctx |-> c, rt |-> r, ns |-> n]
TypesOf(c) == ListOf(c, NoType, Nowhere)
ClusterList == ListOf(CHOOSE c \in Contexts : TRUE, ClusterType, Nowhere)

TabListsTypeOK ==
    /\ tab \in [Views ->
         [ctx : Contexts, rt : Types \cup {NoType}, ns : Namespaces, gen : 0 .. MaxKeys,
          middle : Lists \cup {NoList}, left : Lists \cup {NoList},
          right : Lists \cup {NoList}, hover : Types,
          cache : [Contexts \X Types -> Entry], lazy : BOOLEAN]]
    /\ opened \subseteq Views /\ up \in opened
    /\ msgs \subseteq [kind : {"main", "preview", "types", "clusters"},
                       gen : 0 .. MaxKeys, list : Lists]
    /\ keys \in 0 .. MaxKeys
    /\ crossed \in BOOLEAN /\ overrun \in BOOLEAN /\ unasked \in BOOLEAN

NoCache == [k \in Contexts \X Types |-> [list |-> NoList, print |-> NoList]]

AtTypes(c, r, n) == [ctx |-> c, rt |-> NoType, ns |-> n, gen |-> 0,
                     middle |-> TypesOf(c), left |-> NoList, right |-> NoList,
                     hover |-> r, cache |-> NoCache, lazy |-> FALSE]
AtList(c, r, n) == [AtTypes(c, r, n) EXCEPT !.rt = r, !.middle = NoList,
                                            !.left = TypesOf(c)]

-----------------------------------------------------------------------------
Top == tab[up]
Put(v) == tab' = [tab EXCEPT ![up] = v]

\* A cached list of the context of v; only those of its types are kept.
Cached(v, r, e) ==
    [v EXCEPT !.cache = [k \in DOMAIN @ |-> IF k = <<v.ctx, r>> THEN e ELSE @[k]]]

Main(v)  == [kind |-> "main", gen |-> v.gen, list |-> ListOf(v.ctx, v.rt, v.ns)]
Rows(c)  == [kind |-> "types", gen |-> 0, list |-> TypesOf(c)]

\* loadResources(true): from the cache when its fingerprint is the current one.
Fresh(v) == v.cache[<<v.ctx, v.hover>>].print = v.ns
Preview(v) ==
    [kind |-> "preview", gen |-> v.gen,
     list |-> IF Fresh(v) THEN v.cache[<<v.ctx, v.hover>>].list ELSE ListOf(v.ctx, v.hover, v.ns)]

Send(new) == msgs' = msgs \cup new /\ Cardinality(msgs') <= MaxMsgs

Bumped(v) == [v EXCEPT !.gen = @ + 1]
Press == keys < MaxKeys /\ keys' = keys + 1

\* The tabs of a session, at their lists: only the active one, a, is loaded at
\* once (buildSessionTabState).
SessionTabs(c, n, at, a) == [t \in Views |-> [AtList(c, at[t], n) EXCEPT !.lazy = t # a]]

\* A new session at the types, or the last one.
TabListsInit ==
    /\ up \in Views
    /\ \E c \in Contexts, n \in Namespaces, at \in [Views -> Types] :
         \/ /\ tab = [t \in Views |-> AtTypes(c, at[t], n)]
            /\ opened = {up} /\ msgs = {}
         \/ /\ tab = SessionTabs(c, n, at, up)
            /\ opened = Views /\ msgs = {Main(tab[up])}
    /\ keys = 0 /\ crossed = FALSE /\ overrun = FALSE /\ unasked = FALSE

-----------------------------------------------------------------------------
\* navigateChild into a resource type: the cached list at once, whatever
\* namespace it is of, and the load.
Drill_oldGen ==
    /\ Top.rt = NoType /\ Press
    /\ LET v == [Bumped(Top) EXCEPT !.rt = Top.hover, !.left = Top.middle,
                    !.right = NoList, !.middle = Top.cache[<<Top.ctx, Top.hover>>].list]
       IN  Put(v) /\ Send({[Main(v) EXCEPT !.gen = Top.gen]})
    /\ UNCHANGED <<opened, up, crossed, overrun, unasked>>
Drill ==
    /\ Top.rt = NoType /\ Press
    /\ LET v == [Bumped(Top) EXCEPT !.rt = Top.hover, !.left = Top.middle,
                    !.right = NoList, !.middle = Top.cache[<<Top.ctx, Top.hover>>].list]
       IN  Put(v) /\ Send({Main(v)})
    /\ UNCHANGED <<opened, up, crossed, overrun, unasked>>

\* navigateParent.
Back ==
    /\ Top.rt # NoType /\ Press
    /\ LET v == [Bumped(Top) EXCEPT !.rt = NoType, !.middle = Top.left,
                    !.left = NoList, !.right = NoList]
       IN  Put(v) /\ Send({Preview(v)})
    /\ UNCHANGED <<opened, up, crossed, overrun, unasked>>

\* moveCursor over the types, or over the rows of a list, also of an empty one.
Hover(r) ==
    /\ Top.rt = NoType /\ r # Top.hover /\ Press
    /\ Put([Bumped(Top) EXCEPT !.hover = r, !.right = NoList])
    /\ UNCHANGED <<opened, up, msgs, crossed, overrun, unasked>>

MoveRow ==
    /\ Top.rt # NoType /\ Press
    /\ Put([Bumped(Top) EXCEPT !.right = NoList])
    /\ unasked' = (unasked \/ msgs # {})
    /\ UNCHANGED <<opened, up, msgs, crossed, overrun>>

\* The debounce after a move of the cursor is over.
PreviewDue ==
    /\ Top.rt = NoType
    /\ Send({Preview(Top)})
    /\ UNCHANGED <<tab, opened, up, keys, crossed, overrun, unasked>>

\* refreshCurrentLevel, of the watch tick, or of a refresh or a choice of
\* namespaces, which count the generation up.  At the types it forgets the
\* fingerprint of the one hovered and sends the types again.
Refreshed(v) ==
    IF v.rt = NoType
    THEN /\ Put(Cached(v, v.hover, [v.cache[<<v.ctx, v.hover>>] EXCEPT !.print = NoList]))
         /\ Send({Rows(v.ctx)})
    ELSE Put(v) /\ Send({Main(v)})

WatchTick ==
    /\ Refreshed(Top)
    /\ UNCHANGED <<opened, up, keys, crossed, overrun, unasked>>

Refresh ==
    /\ Press /\ Refreshed(Bumped(Top))
    /\ UNCHANGED <<opened, up, crossed, overrun, unasked>>

SelectNamespace(n) ==
    /\ n # Top.ns /\ Press
    /\ Refreshed([Bumped(Top) EXCEPT !.ns = n])
    /\ UNCHANGED <<opened, up, crossed, overrun, unasked>>

\* :ns; at the types there is no type to load, and the load fails.
NamespaceCommand(n) ==
    /\ n # Top.ns /\ Press
    /\ LET v == [Top EXCEPT !.ns = n]
       IN  Put(v) /\ Send(IF v.rt = NoType THEN {} ELSE {Main(v)})
    /\ crossed' = (crossed \/ msgs # {})
    /\ UNCHANGED <<opened, up, overrun, unasked>>

\* :ctx loads the types, also at a list, and the namespace of that context.
ContextCommand(c) ==
    /\ c # Top.ctx /\ Press
    /\ \E n \in Namespaces :
         Put([Top EXCEPT !.ctx = c, !.ns = n,
                          !.left = IF Top.rt = NoType THEN @ ELSE TypesOf(c)])
    /\ Send({Rows(c)})
    /\ crossed' = (crossed \/ msgs # {} \/ Top.rt # NoType)
    /\ UNCHANGED <<opened, up, overrun, unasked>>

-----------------------------------------------------------------------------
\* updateResourcesLoadedMain, updateResourcesLoadedPreview.
MainLoaded_anyGen(p) ==
    /\ p.kind = "main"
    /\ msgs' = msgs \ {p}
    /\ Put(Cached([Top EXCEPT !.middle = p.list], Top.rt,
                  [list |-> p.list, print |-> Top.ns]))
    /\ UNCHANGED <<opened, up, keys, crossed, overrun, unasked>>
MainLoaded(p) ==
    /\ p.kind = "main" /\ p.gen = Top.gen
    /\ msgs' = msgs \ {p}
    /\ Put(Cached([Top EXCEPT !.middle = p.list], Top.rt,
                  [list |-> p.list, print |-> Top.ns]))
    /\ UNCHANGED <<opened, up, keys, crossed, overrun, unasked>>

PreviewLoaded(p) ==
    /\ p.kind = "preview" /\ p.gen = Top.gen
    /\ msgs' = msgs \ {p}
    /\ Put(Cached([Top EXCEPT !.right = p.list], p.list.rt,
                  [list |-> p.list, print |-> Top.ns]))
    /\ UNCHANGED <<opened, up, keys, crossed, overrun, unasked>>

Discarded(p) ==
    /\ p.kind \in {"main", "preview"} /\ p.gen # Top.gen
    /\ msgs' = msgs \ {p}
    /\ UNCHANGED <<tab, opened, up, keys, crossed, overrun, unasked>>

\* The load failed, or was cancelled with the rest on the way elsewhere.
LoadFailed(p) ==
    /\ p.kind \in {"main", "preview"} /\ p.gen = Top.gen
    /\ msgs' = msgs \ {p} /\ unasked' = TRUE
    /\ UNCHANGED <<tab, opened, up, keys, crossed, overrun>>

\* updateResourceTypes asks for no generation and no level, and keeps the rows
\* under the place it finds the tab at; seeds are ignored while that loads.
TypesLoaded(p) ==
    /\ p.kind = "types"
    /\ \/ /\ msgs' = msgs \ {p} /\ UNCHANGED <<tab, overrun>>
       \/ LET v == Cached([Top EXCEPT !.middle = p.list], Top.rt,
                          [Top.cache[<<Top.ctx, Top.rt>>] EXCEPT !.list = p.list])
          IN  /\ Put(v)
              /\ msgs' = (msgs \ {p}) \cup (IF v.rt = NoType THEN {Preview(v)} ELSE {})
              /\ overrun' = (overrun \/ v.rt # NoType)
    /\ UNCHANGED <<opened, up, keys, crossed, unasked>>

-----------------------------------------------------------------------------
\* switchToSession loads the contexts.  BOUND: once at a time.
ClusterRows == [kind |-> "clusters", gen |-> 0, list |-> ClusterList]
SwitchSession ==
    /\ ClusterRows \notin msgs /\ Press
    /\ Send({ClusterRows})
    /\ UNCHANGED <<tab, opened, up, crossed, overrun, unasked>>

\* updateContextsLoaded asks for no level either: the rows of the clusters are
\* the list, until the session is restored.  An error changes nothing.
ClustersLoaded(p) ==
    /\ p.kind = "clusters" /\ msgs' = msgs \ {p}
    /\ \/ UNCHANGED <<tab, overrun>>
       \/ /\ Put(Cached([Top EXCEPT !.middle = p.list, !.left = NoList, !.right = NoList],
                      Top.rt, [Top.cache[<<Top.ctx, Top.rt>>] EXCEPT !.list = p.list]))
          /\ overrun' = TRUE
    /\ UNCHANGED <<opened, up, keys, crossed, unasked>>

\* restoreMultiTabSession: the tabs of the session take the place of all others;
\* the one in front keeps the generation and the caches of the model, and goes to
\* its list, or to the types when its type is not known.  Views are names: it has
\* the one of the tab in front.  BOUND: the tabs of a session are at one place; a
\* session of an older version of the program, without tabs, is left out.
Restored(v) == [v EXCEPT !.gen = Top.gen, !.cache = Top.cache]
SessionRestored(p) ==
    /\ p.kind = "clusters"
    /\ opened' \in SUBSET Views /\ up \in opened'
    /\ \E c \in Contexts, r \in Types, n \in Namespaces :
         \E v \in {Restored(AtList(c, r, n)), Restored(AtTypes(c, r, n))} :
            /\ tab' = [SessionTabs(c, n, [t \in Views |-> r], up) EXCEPT ![up] = v]
            /\ msgs' = (msgs \ {p}) \cup {IF v.rt = NoType THEN Preview(v) ELSE Main(v)}
    /\ crossed' = (crossed \/ msgs # {p})
    /\ UNCHANGED <<up, keys, overrun, unasked>>

-----------------------------------------------------------------------------
\* loadTab: a tab of the last session loads when it is first shown.
Enter(t) ==
    /\ Press /\ up' = t
    /\ tab' = [tab EXCEPT ![t].lazy = FALSE]
    /\ Send(IF tab[t].lazy THEN {Main(tab[t])}
            ELSE IF tab[t].rt = NoType THEN {Preview(tab[t])} ELSE {})
    /\ crossed' = (crossed \/ msgs # {})
    /\ UNCHANGED <<overrun, unasked>>

GoToTab == \E t \in opened \ {up} : Enter(t) /\ UNCHANGED opened

CloseTop == \E t \in opened \ {up} : Enter(t) /\ opened' = opened \ {up}

\* cloneCurrentTab, with the generation of the tab it is cloned from.
CloneTab ==
    /\ Press
    /\ \E t \in Views \ opened :
         /\ tab' = [tab EXCEPT ![t] = Top]
         /\ opened' = opened \cup {t} /\ up' = t
    /\ crossed' = (crossed \/ msgs # {})
    /\ UNCHANGED <<msgs, overrun, unasked>>

TabListsNext ==
    \/ Drill \/ Back \/ MoveRow \/ PreviewDue \/ WatchTick \/ Refresh
    \/ \E r \in Types : Hover(r)
    \/ \E n \in Namespaces : SelectNamespace(n) \/ NamespaceCommand(n)
    \/ \E c \in Contexts : ContextCommand(c)
    \/ \E p \in msgs : \/ MainLoaded(p) \/ PreviewLoaded(p) \/ Discarded(p)
                       \/ LoadFailed(p) \/ TypesLoaded(p) \/ ClustersLoaded(p)
                       \/ SessionRestored(p)
    \/ GoToTab \/ CloseTop \/ CloneTab \/ SwitchSession

TabListsSpec == TabListsInit /\ [][TabListsNext]_listVars

-----------------------------------------------------------------------------
\* Every tab shows the list of its own context and type, the preview is of the
\* type hovered, and a cached list is of the namespace its fingerprint tells.
ShownInPlace ==
    \A t \in opened :
        LET v == tab[t]
        IN  /\ v.middle # NoList => v.middle.rt = v.rt
            /\ v.middle # NoList /\ v.rt # NoType => v.middle.ctx = v.ctx
            /\ v.right # NoList => v.rt = NoType /\ v.right.rt = v.hover
            /\ \A c \in Contexts, r \in Types :
                 LET e == v.cache[<<c, r>>]
                 IN  /\ e.list # NoList => e.list.ctx = c /\ e.list.rt = r
                     /\ e.print # NoList => e.list # NoList /\ e.list.ns = e.print

\* However late and in whatever order the answers come, lists are of their place,
\* with two exceptions, both of which the code does show in another place.  One
\* is crossed: a change of tab, a switch of the session, :ns or :ctx, while any
\* answer is under way, and :ctx at a list (RowsAreOfThisPlace).  The other is
\* overrun: answers that carry no generation, the rows of the types and those of
\* the clusters, came when another list was in front, also after a drill or a way
\* back, which do count the generation up.
ListsAreOfTheirPlace == ~crossed /\ ~overrun => ShownInPlace

\* A list that is still empty because it was never loaded has its load under
\* way, unless one failed or the cursor was moved meanwhile, or as above the
\* user went elsewhere without a new generation.
EmptyListIsAwaited ==
    ~crossed /\ ~unasked /\ Top.rt # NoType /\ Top.middle = NoList =>
        Main(Top) \in msgs

\* internal/app/app.go:377-379 of requestGen: "Incremented on every navigation
\* change. Async messages carry the gen they were created with and are discarded
\* if it no longer matches."  So rows that arrive are of the place they arrive at.
RowsAreOfThisPlace ==
    [][\A t \in Views :
         tab'[t].rt = tab[t].rt /\ tab'[t].ctx = tab[t].ctx
             /\ tab'[t].middle # tab[t].middle =>
                 tab'[t].middle.rt = tab[t].rt /\ tab'[t].middle.ctx = tab[t].ctx]_listVars
=============================================================================
