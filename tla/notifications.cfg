SPECIFICATION FairSpec
CONSTANTS
    Notes = {n1, n2}
    Sockets = {s1, s2}
    NoSocket = NoSocket
INVARIANT QuietPushReachesAll
INVARIANT PushedAtMostOnce
INVARIANT ListIsExact
PROPERTY PushesEnd
