SPECIFICATION Spec
CONSTANTS
    Sources = {s1, s2}
    Initial = {s1}
    Pods = {a, b}
    Threads = {t1, t2}
    None = None
    Torn = Torn
    MaxTexts = 3
    MaxFaults = 1
INVARIANTS TypeOK NoTextLost EditDecidedOnce HeadHasSavedText RegistryTruth
SYMMETRY Symmetry
CHECK_DEADLOCK FALSE
