CONSTANTS
    NoData = NoData
    N = 3
    ns = ns
    Namespace = {ns}
    w1 = w1
    w2 = w2
    Write = {w1}
    NsOf <- MCNsOf
    Threshold = 2
    MaxTerm = 2
    MaxRestarts = 0
    Transfers = FALSE
    Durable = FALSE
    LossyReplies = TRUE
    Orderly = TRUE
SPECIFICATION Spec
SYMMETRY WriteSymmetry
INVARIANTS
    TypeOK
    NoMissedWrites
    LogMatching
    LeaderComplete
CHECK_DEADLOCK FALSE
