CONSTANTS
    Put = {p1}
    Save = {f1, f2}
    Unreadable = {f2}
    First = First
    Stored = FALSE
    None = None
    MaxStops = 1
    Sub = {s1}
    Upstream <- MCUpstream
    Renaming = {f1}
    MaxSaves = 2
    Watch = TRUE
    Reader = {}
    MaxHiccups = 1
    Capacity = 1
    WireCap = 1
    Origin = Origin
    Kind <- MCKind
    Followings <- MCAll
    Local = Local
    s1 = s1
    s2 = s2
    r1 = r1
    t1 = t1
SPECIFICATION FairSpec
INVARIANTS
    WatchedFileServed
PROPERTIES
    SidecarConverges
    ServerStops
CHECK_DEADLOCK FALSE
