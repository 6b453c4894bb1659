SPECIFICATION Spec
CONSTANTS
    v1 = v1
    v2 = v2
    NoBinary = NoBinary
    Nothing = Nothing
    Hole = Hole
    Instance = {a, b}
    Version = {v1, v2}
    Chunks <- TwoSizes
    MaxTries = 4
SYMMETRY Interchangeable
CHECK_DEADLOCK FALSE
INVARIANTS TypeOK  SameHelperSettles
