SPECIFICATION FairSpec
CONSTANTS
    MaxRevisions = 2
    RecursionLimit = 25
INVARIANTS TypeOK DoneMeansOneOutcome GroundedAnswerWasJudged ReviewsBounded
PROPERTY RunEnds
CHECK_DEADLOCK FALSE
