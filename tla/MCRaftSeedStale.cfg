CONSTANTS
    NoData = NoData
    N = 3
    ns = ns
    Namespace = {ns}
    w1 = w1
    w2 = w2
    Write = {w1, w2}
    NsOf <- MCNsOf
    Threshold = 0
    MaxTerm = 1
    MaxRestarts = 1
    Transfers = FALSE
    Durable = TRUE
    LossyReplies = FALSE
    Orderly = TRUE
SPECIFICATION Spec
SYMMETRY WriteSymmetry
INVARIANTS
    SeededIsPopulated
CHECK_DEADLOCK FALSE
