SPECIFICATION QFairSpec
CONSTANTS
    j1 = j1  j2 = j2  j3 = j3  p1 = p1  p2 = p2  w1 = w1  w2 = w2
    Jobs = {j1, j2, j3}
    Workers = {w1, w2}
    Partitions = {p1, p2}
    None = None
    PartitionOf <- TwoPartitions
    MaxRecords = 2
    MaxCrashes = 1
    MaxRebalances = 1
INVARIANTS QTypeOK CommittedOnlyHandled HandledInOrder
PROPERTIES ImplementsAtLeastOnce GroupCatchesUp
CHECK_DEADLOCK FALSE
