SPECIFICATION Spec
CONSTANTS
    j1 = j1  j2 = j2  w1 = w1  w2 = w2  p1 = p1  t1 = t1
    Jobs = {j1, j2}
    Workers = {w1, w2}
    Partitions = {p1}
    None = None
    PartitionOf <- OnePartition
    TitleOf <- SameTitle
    MaxRecords = 2
    MaxCrashes = 1
    MaxRebalances = 1
    Reconnecting = {}
    KafkaMayFail = FALSE
    RedisMayFail = FALSE
    PostgresMayFail = FALSE
    GraphMayFail = FALSE
    HandlerMayFail = FALSE
    ClientsMayLeave = FALSE
INVARIANTS LiveBridgeMissesNothing DoneRowHasOwnReport
PROPERTY ImplementsQueue
SYMMETRY Symmetry
CHECK_DEADLOCK FALSE
