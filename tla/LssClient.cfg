SPECIFICATION Spec
CONSTANTS
    Client = {c1, c2}
    Widths = {2, 3}
    Modulus = 4
    MaxKeys = 1
    MaxResizes = 2
SYMMETRY Interchangeable
INVARIANTS TypeOK EveryResizeRedraws  
CHECK_DEADLOCK FALSE
