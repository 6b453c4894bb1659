SPECIFICATION Spec
CONSTANTS
    k1 = k1
    k2 = k2
    k3 = k3
    h1 = h1
    None = None
    Instance = {a, b}
    Host = {h1}
    Key = {k1, k2, k3}
    KeyType <- TwoAlgorithms
    Files <- SomeFiles
    HandEdited = FALSE
    MaxOpens = 2
    MaxRekeys = 2
SYMMETRY Interchangeable
CHECK_DEADLOCK FALSE
INVARIANTS TypeOK OnlyTrustedIsAccepted  RevokedIsRefused
