SPECIFICATION Spec
CONSTANTS
    Client = {c1}
    Widths = {2, 3}
    Modulus = 4
    MaxKeys = 1
    MaxResizes = 1
INVARIANT FramesIntact
CHECK_DEADLOCK FALSE
