CONSTANTS
    None = None
    r1 = r1
    r2 = r2
    k1 = k1
    k2 = k2
    p1 = p1
    p2 = p2
    Keys = {k1}
    Prints = {p1}
    TurnIds = {r1, r2}
    MaxOutcomes = 1
    MaxIdentities = 1
    MaxEpoch = 1
    MaxGeneration = 1
    KeyOf <- SameKey
    PrintOf <- SamePrint
    OpOf <- BothStart
    OneShot = FALSE
    Verbs = {"stop", "purge", "focus"}
    Timeouts = TRUE
    KillsWork = TRUE
    MaxCrashes = 1
    MaxFaults = 1
SPECIFICATION Spec
INVARIANTS TypeOK AtMostOneDispatchPerKey AnswersAreDurable NoTurnOutlivesPurge
PROPERTIES ImplementsLedger
CHECK_DEADLOCK FALSE
