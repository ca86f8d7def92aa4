SPECIFICATION FairSpec
CONSTANTS
    j1 = j1  j2 = j2  w1 = w1  w2 = w2  p1 = p1  t1 = t1
    Jobs = {j1}
    Workers = {w1}
    Partitions = {p1}
    None = None
    PartitionOf <- OnePartition
    TitleOf <- OwnTitle
    MaxRecords = 2
    MaxCrashes = 0
    MaxRebalances = 0
    Reconnecting = {j1}
    KafkaMayFail = FALSE
    RedisMayFail = FALSE
    PostgresMayFail = FALSE
    GraphMayFail = FALSE
    HandlerMayFail = FALSE
    ClientsMayLeave = FALSE
PROPERTY ReconnectHearsOutcome
CHECK_DEADLOCK FALSE
