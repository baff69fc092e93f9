SPECIFICATION Spec
CONSTANTS
    Payments = {p1}
    SubIds = {s1, s2, s3}
    Workers = {w1, w2}
    Duration = 2
    MaxTime = 1
    NoPayment = NoPayment
    NoSub = NoSub
SYMMETRY Symmetry
INVARIANT CreditedOnce
