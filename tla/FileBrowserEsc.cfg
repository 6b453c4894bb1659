SPECIFICATION Spec
CONSTANTS
    d = d
    f = f
    Up = Up
    Unseen = Unseen
    j1 = j1
    j2 = j2
    Name = {d, f}
    DirName = {d}
    Listings <- AllListed
    Job = {j1, j2}
    MaxDepth = 1
SYMMETRY SameJobs
CHECK_DEADLOCK FALSE
INVARIANT HostListGetsTheKeys
