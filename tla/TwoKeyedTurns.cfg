CONSTANTS
    None = None
    r1 = r1
    r2 = r2
    k1 = k1
    k2 = k2
    p1 = p1
    p2 = p2
    Keys = {k1, k2}
    Prints = {p1}
    TurnIds = {r1, r2}
    MaxOutcomes = 1
    MaxIdentities = 2
    MaxEpoch = 2
    MaxGeneration = 1
    KeyOf <- TwoKeys
    PrintOf <- SamePrint
    OpOf <- BothStart
    OneShot = FALSE
    Verbs = {"stop", "purge", "resume", "suspend", "other"}
    Timeouts = TRUE
    KillsWork = TRUE
    MaxCrashes = 0
    MaxFaults = 0
SPECIFICATION Spec
INVARIANTS NothingRefused
PROPERTIES VerdictIsFinal TerminalTurnStaysTerminal
CHECK_DEADLOCK FALSE
