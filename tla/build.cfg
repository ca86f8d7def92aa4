SPECIFICATION Spec
CONSTANTS
    a = a  b = b  d1 = d1  u1 = u1
    Pods = {a, b}
    Initial = {d1}
    Uploaded = {u1}
    None = None
    Torn = Torn
    MaxBoots = 2
    MaxFaults = 1
INVARIANTS TypeOK OneBuilder IndexComplete
PROPERTY EveryPodStarts
CHECK_DEADLOCK FALSE
