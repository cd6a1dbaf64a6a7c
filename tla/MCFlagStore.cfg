CONSTANTS
    Put = {p1, p2}
    Save = {}
    Unreadable = {}
    First = First
    Stored = TRUE
    None = None
    MaxStops = 1
    Sub = {r1, s1, t1}
    Upstream <- MCUpstream
    Renaming = {}
    MaxSaves = 0
    Watch = FALSE
    Reader = {rd}
    MaxHiccups = 1
    Capacity = 1
    WireCap = 1
    Origin = Origin
    Kind <- MCKind
    Followings <- MCRustOrChain
    Local = Local
    s1 = s1
    s2 = s2
    r1 = r1
    t1 = t1
SPECIFICATION Spec
INVARIANTS
    TypeOK
    AckedIsDurable
    LaterPutWins
    ServedIsDurable
    SidecarFresh
    ClientFresh
    SnapshotPrefix
PROPERTIES
    EnvKept
SYMMETRY PutSymmetry
CHECK_DEADLOCK FALSE
