SPECIFICATION FairSpec
CONSTANTS
    t1 = t1  t2 = t2  s1 = s1  s2 = s2
    Titles = {t1, t2}
    Sources = {s1, s2}
    MaxSections = 2
    MaxSources = 1
    MaxRevisions = 3
    RecursionLimit = 24
INVARIANTS TypeOK FinalDraftWasSeen UnansweredOnlyAtCap RewritesBelowCap FreshCitationsResolve
PROPERTY RunIsFinalized
CHECK_DEADLOCK FALSE
