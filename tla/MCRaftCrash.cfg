CONSTANTS
    NoData = NoData
    N = 3
    ns = ns
    Namespace = {ns}
    w1 = w1
    w2 = w2
    Write = {w1}
    NsOf <- MCNsOf
    Threshold = 2
    MaxTerm = 1
    MaxRestarts = 1
    Transfers = FALSE
    Durable = FALSE
    LossyReplies = FALSE
    Orderly = FALSE
SPECIFICATION Spec
SYMMETRY WriteSymmetry
INVARIANTS
    StorageSound
CHECK_DEADLOCK FALSE
