SPECIFICATION Spec
CONSTANTS
    top = top
    sub = sub
    f = f
    g = g
    h = h
    link = link
    None = None
    Node = {top, sub, f, g, h, link}
    Parent <- InTree
    Kind <- KindOf
    MaxOps = 2
    MaxMeddling = 2
CHECK_DEADLOCK FALSE
INVARIANTS TypeOK  CancelStopsTheWalk RemovesWhatItListed
