SPECIFICATION FairSpec
CONSTANTS
    Payments = {p1, p2}
    SubIds = {s1, s2}
    Workers = {w1}
    Duration = 2
    MaxTime = 3
    NoPayment = NoPayment
    NoSub = NoSub
PROPERTY RecordedPaymentCompletes
