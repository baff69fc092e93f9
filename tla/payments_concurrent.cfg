SPECIFICATION Spec
CONSTANTS
    Payments = {p1, p2}
    SubIds = {s1, s2, s3, s4}
    Workers = {w1, w2}
    Duration = 2
    MaxTime = 3
    NoPayment = NoPayment
    NoSub = NoSub
SYMMETRY Symmetry
INVARIANT RowsAgreeWithCharges
INVARIANT CompletedIffActivated
INVARIANT ActiveRowsFromDistinctPayments
INVARIANT CreditsBounded
INVARIANT ActiveRowsBounded
INVARIANT EveryTermCounts
PROPERTY LedgerSpec
PROPERTY CompletionGivesAccess
