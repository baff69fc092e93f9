SPECIFICATION FairSpec
CONSTANTS
    Places <- MCPlaces
    NoPlace = NoPlace
    Urls = {u1, u2, u3}
    MaxWaypoints = 3
    Distances <- MCDistances
    MaxLine = 2
    DefaultSpread = 2
    MaxGap = 2
    MaxOutlierAttempts = 2
    MaxGapAttempts = 2
    RetryAttempts = 2
    PhotosPerWaypoint = 1
    PhotosTotal = 2
INVARIANT GapsClosed
INVARIANT InOrder
INVARIANT RouteDrawable
INVARIANT PhotosBounded
PROPERTY TaskSpec
PROPERTY GenerationEnds
PROPERTY PendingEnds
CHECK_DEADLOCK FALSE
