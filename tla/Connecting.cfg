SPECIFICATION Spec
CONSTANTS
    c1 = c1
    c2 = c2
    Attempt = {c1, c2}
    Nobody = Nobody
    MaxShells = 2
SYMMETRY SameAttempts
CHECK_DEADLOCK FALSE
INVARIANTS TypeOK   
