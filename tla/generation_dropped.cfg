SPECIFICATION Spec
CONSTANTS
    Places <- MCPlaces
    NoPlace = NoPlace
    Urls = {u1, u2, u3}
    MaxWaypoints = 3
    Distances <- MCDistances
    MaxLine = 1
    DefaultSpread = 2
    MaxGap = 2
    MaxOutlierAttempts = 2
    MaxGapAttempts = 2
    RetryAttempts = 2
    PhotosPerWaypoint = 1
    PhotosTotal = 2
PROPERTY DroppedOnlyAfterAllAttempts
CHECK_DEADLOCK FALSE
