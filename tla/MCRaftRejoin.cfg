CONSTANTS
    NoData = NoData
    N = 3
    ns = ns
    Namespace = {ns}
    w1 = w1
    w2 = w2
    Write = {w1}
    NsOf <- MCNsOf
    Threshold = 2
    MaxTerm = 2
    MaxRestarts = 1
    Transfers = TRUE
    Durable = TRUE
    LossyReplies = FALSE
    Orderly = TRUE
SPECIFICATION Spec
SYMMETRY WriteSymmetry
INVARIANTS
    ElectionSafety
    AppliedAgree
    NoPanic
CHECK_DEADLOCK FALSE
