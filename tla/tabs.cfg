SPECIFICATION ManagersSpec
CONSTANTS
    e1 = e1
    e2 = e2
    t1 = t1
    o1 = o1
    o2 = o2
    k1 = k1
    k2 = k2
    c1 = c1
    c2 = c2
    n1 = n1
    n2 = n2
    Listed = {e1, e2}
    MaxWaiters = 2
    Targets = {t1}
    RandomPort = {t1}
    MaxForwards = 2
    MaxStops = 1
    Ops = {o1, o2}
    Label <- OneName
    Tabs = {1, 2, 3}
    Items = 2
    NoTab = 0
    Keys = {k1, k2}
    Calls = {c1, c2}
    NoKey = NoKey
    Writers = {o1, o2}
    Kinds <- FileKinds
    Clusters = {k1, k2}
    Scopes = {n1, n2}
    Panes = {1, 2}
    Current = k1
    NoCluster = NoCluster
    MaxPosts = 1
    Contexts = {k1, k2}
    Types = {o1, o2}
    Namespaces = {n1, n2}
    Views = {1, 2}
    NoType = NoType
    ClusterType = ClusterType
    NoList = NoList
    MaxKeys = 3
    MaxMsgs = 2
    MaxMoves = 2
    Parts = {"tracker", "lists"}
CHECK_DEADLOCK FALSE
INVARIANTS StaysCancellable CancelStopsWork  EmptyListIsAwaited
PROPERTY CancelStaysInTab
