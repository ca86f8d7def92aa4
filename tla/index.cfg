SPECIFICATION Spec
CONSTANTS
    t1 = t1  t2 = t2  a = a  b = b  s1 = s1  s2 = s2
    Sources = {s1, s2}
    Pods = {a, b}
    Searching = {a}
    Threads = {t1, t2}
    PodOf <- OneThreadEach
    Blank = {2}
    None = None
    Torn = Torn
    MaxTexts = 2
    MaxFaults = 1
INVARIANTS TypeOK VectorsInSync CorpusInSync CacheExplained
SYMMETRY Symmetry
CHECK_DEADLOCK FALSE
