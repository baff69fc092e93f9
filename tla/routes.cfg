SPECIFICATION Spec
CONSTANTS
    Changes <- MCChanges
    Workers = {w1, w2}
    Ttl = 1
    Patience = 1
    MaxTime = 3
    MaxPublications = 2
SYMMETRY Symmetry
INVARIANT PublishedIsAnnounced
INVARIANT AnnouncedPerPublication
INVARIANT StaleBounded
INVARIANT FreshUnlessRaced
PROPERTY AuthorPhotosKept
