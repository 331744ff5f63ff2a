CONSTANTS
    Fds = {3, 4, 5}
    NoOne = NoOne
    Sockets = {s1, s2}
    Listeners = {l1, l2}
    Pipes = {p1, p2}
    Memories = {m1, m2}
    CastSize = 3
SYMMETRY Symmetry
SPECIFICATION MCSpec
INVARIANTS HolderIsOwner ConnectedHasDescriptor
PROPERTIES LeaksOnlyHere
CHECK_DEADLOCK FALSE
