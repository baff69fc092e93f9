SPECIFICATION Spec
CONSTANTS
    Keys = {k1, k2, k3}
    Workers = {w1, w2, w3}
    NoKey = NoKey
SYMMETRY Symmetry
INVARIANT NeverTooHigh
INVARIANT NeverTooLow
CHECK_DEADLOCK FALSE
