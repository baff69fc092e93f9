SPECIFICATION Spec
CONSTANTS
    Tokens = {t1, t2, t3}
    Workers = {w1, w2}
    Lifetime = 2
    TicksPerSecond = 2
    MaxTime = 4
    MaxVersion = 1
    Patience = 1
    NoToken = NoToken
SYMMETRY Symmetry
PROPERTY RotationSpec
INVARIANT SpentOnce
INVARIANT RevivedOnlyAtTheEnd
INVARIANT OneLiveTokenPerSession
INVARIANT LogoutEndsSession
INVARIANT AcceptedTokensAreCurrent
