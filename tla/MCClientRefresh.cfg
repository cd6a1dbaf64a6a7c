CONSTANTS
    Put = {p1}
    Save = {}
    Unreadable = {}
    First = First
    Stored = FALSE
    None = None
    MaxStops = 1
    Sub = {t1}
    Upstream <- MCUpstream
    Renaming = {}
    MaxSaves = 0
    Watch = FALSE
    Reader = {}
    MaxHiccups = 0
    Capacity = 1
    WireCap = 1
    Origin = Origin
    Kind <- MCKind
    Followings <- MCAll
    Local = Local
    s1 = s1
    s2 = s2
    r1 = r1
    t1 = t1
SPECIFICATION Spec
INVARIANTS
    RefreshedAutomatically
CHECK_DEADLOCK FALSE
