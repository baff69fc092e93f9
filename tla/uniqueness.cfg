SPECIFICATION FairSpec
CONSTANTS
    Users = {u1, u2}
    Names = {ann, explorer}
    Emails = {ea, eb}
    SystemName = explorer
    SystemEmail = eb
    Titles = {t1}
    Workers = {w1, w2}
    MaxBatch = 2
    MaxOwn = 2
    NoAccount = NoAccount
INVARIANT AccountsDistinct
INVARIANT DuplicatesBounded
INVARIANT ImportCountsAgree
INVARIANT StoredOnce
INVARIANT CirclesHaveAnEmailChange
PROPERTY RequestsEnd
