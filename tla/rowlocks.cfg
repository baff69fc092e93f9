SPECIFICATION Spec
CONSTANTS
    Users = {ann, bob, cat}
    Author = ann
    Commenter = bob
    Route = route
    Comment = comment
    Workers = {w1, w2}
INVARIANT DeadlocksAreKnown
CHECK_DEADLOCK FALSE
