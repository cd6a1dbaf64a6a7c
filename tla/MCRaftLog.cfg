CONSTANTS
    NoData = NoData
    MaxIndex = 4
    MaxTerm = 2
    MaxBatch = 2
SPECIFICATION Spec
INVARIANTS
    TypeOK
    SnapshotAgrees
PROPERTIES
    CommittedStable
    ImplementsLog
CHECK_DEADLOCK FALSE
