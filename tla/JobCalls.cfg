CONSTANTS
    None = None
    Submissions = {s1}
    Pollers = {p}
    Cancellations = {k}
    Opener = opener
    MaxTroubles = 1
SPECIFICATION FairSpec
INVARIANTS TypeOK EndedMeansGone
PROPERTIES CancelEndsJob EveryJobEnds
CHECK_DEADLOCK FALSE
