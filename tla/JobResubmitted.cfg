CONSTANTS
    None = None
    Submissions = {s1, s2}
    Pollers = {}
    Cancellations = {}
    Opener = opener
    MaxTroubles = 2
SPECIFICATION Spec
INVARIANTS RunsOnce OrphanedMeansGone LiveJobIsReachable
CHECK_DEADLOCK FALSE
