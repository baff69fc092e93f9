SPECIFICATION Spec
CONSTANTS
    Notes = {n1, n2}
    Sockets = {s1, s2}
    NoSocket = NoSocket
SYMMETRY Symmetry
INVARIANT PushReachesAll
