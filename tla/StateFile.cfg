CONSTANTS
    Procs = {a, b, c}
    Writes = {w1, w2}
    Resets = {r1, r2}
    Attempts = 3
    MaxTroubles = 3
    Nobody = Nobody
SYMMETRY Symmetry
SPECIFICATION Spec
INVARIANTS TypeOK OneOwner NothingLost
PROPERTIES RefusedRightly
CHECK_DEADLOCK FALSE
