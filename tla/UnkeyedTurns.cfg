CONSTANTS
    None = None
    r1 = r1
    r2 = r2
    k1 = k1
    k2 = k2
    p1 = p1
    p2 = p2
    Keys = {k1}
    Prints = {p1}
    TurnIds = {r1, r2}
    MaxOutcomes = 1
    MaxIdentities = 1
    MaxEpoch = 2
    MaxGeneration = 1
    KeyOf <- NoKeys
    PrintOf <- SamePrint
    OpOf <- StartThenSend
    OneShot = TRUE
    Verbs = {"stop", "quiesce", "release", "purge", "resume", "gc"}
    Timeouts = TRUE
    KillsWork = TRUE
    MaxCrashes = 1
    MaxFaults = 0
SPECIFICATION Spec
INVARIANTS OneLiveProcess ClosedMeansDead EpochGatesTurns
PROPERTIES PurgeForgetsNothingAlive FencedSessionFrozen ClosureIsReported
CHECK_DEADLOCK FALSE
