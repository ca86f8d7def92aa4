SPECIFICATION Spec
CONSTANTS
    j1 = j1  j2 = j2  w1 = w1  w2 = w2  p1 = p1  t1 = t1
    Jobs = {j1}
    Workers = {w1}
    Partitions = {p1}
    None = None
    PartitionOf <- OnePartition
    TitleOf <- SameTitle
    MaxRecords = 2
    MaxCrashes = 1
    MaxRebalances = 0
    Reconnecting = {j1}
    KafkaMayFail = TRUE
    RedisMayFail = TRUE
    PostgresMayFail = TRUE
    GraphMayFail = TRUE
    HandlerMayFail = TRUE
    ClientsMayLeave = TRUE
INVARIANTS TypeOK OneVerdictPerClient
CHECK_DEADLOCK FALSE
