SPECIFICATION Spec
CONSTANTS
    Client = {c1, c2}
    MaxScrollback = 2
    BufSize = 2
    MaxOutput = 3
SYMMETRY Interchangeable
INVARIANTS TypeOK MirrorsInSync RegisteredIsServed
PROPERTY MirrorSpec
