CONSTANTS
    None = None
    r1 = r1
    r2 = r2
    k1 = k1
    k2 = k2
    p1 = p1
    p2 = p2
    Keys = {k1}
    Prints = {p1}
    TurnIds = {r1, r2}
    MaxOutcomes = 1
    MaxIdentities = 1
    MaxEpoch = 1
    MaxGeneration = 1
    KeyOf <- SameKey
    PrintOf <- SamePrint
    OpOf <- BothStart
    OneShot = FALSE
    Verbs = {"stop", "quiesce", "purge"}
    Timeouts = FALSE
    KillsWork = TRUE
    MaxCrashes = 1
    MaxFaults = 0
SPECIFICATION FairSpec
PROPERTIES VerbsReturn CallersAnswered
CHECK_DEADLOCK FALSE
