SPECIFICATION FairSpec
CONSTANTS
    j1 = j1  j2 = j2  w1 = w1  w2 = w2  p1 = p1  t1 = t1
    Jobs = {j1}
    Workers = {w1, w2}
    Partitions = {p1}
    None = None
    PartitionOf <- OnePartition
    TitleOf <- OwnTitle
    MaxRecords = 2
    MaxCrashes = 1
    MaxRebalances = 1
    Reconnecting = {}
    KafkaMayFail = TRUE
    RedisMayFail = FALSE
    PostgresMayFail = FALSE
    GraphMayFail = TRUE
    HandlerMayFail = FALSE
    ClientsMayLeave = TRUE
INVARIANT CommittedJobSettled
PROPERTIES GenerateStreamEnds EnqueuedJobSettles
CHECK_DEADLOCK FALSE
