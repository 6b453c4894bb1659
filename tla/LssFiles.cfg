SPECIFICATION FilesSpec
CONSTANTS
    Proc = {p1, p2, p3}
    CrashAt <- CrashServing
SYMMETRY Interchangeable
INVARIANTS FilesTypeOK  NewJoinsItsOwn  ExitFreesTheName
