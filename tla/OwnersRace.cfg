CONSTANTS
    Procs = {a, b, c}
    Writes = {w1, w2}
    Resets = {r1, r2}
    Attempts = 3
    MaxTroubles = 3
    Nobody = Nobody
SYMMETRY Symmetry
SPECIFICATION Spec
INVARIANT Exclusive
CHECK_DEADLOCK FALSE
