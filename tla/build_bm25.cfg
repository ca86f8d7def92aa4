SPECIFICATION Spec
CONSTANTS
    a = a  b = b  d1 = d1  u1 = u1
    Pods = {a}
    Initial = {d1}
    Uploaded = {}
    None = None
    Torn = Torn
    MaxBoots = 1
    MaxFaults = 0
INVARIANT ReadyPodSearchesIndex
CHECK_DEADLOCK FALSE
