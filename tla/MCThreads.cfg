SPECIFICATION FairSpec
CONSTANTS
    Items = {1, 2}
    Invocations = {v1, v2}
    Runs = {r1, r2}
    Selections <- MCSelections
    Sharing <- MCSharing
    Poll = poll
    Lookup = other
    Profile = other
    Author = other
    MaxRevision = 2
    MaxTroubles = 1
    None = None
    v1 = v1  v2 = v2  r1 = r1  r2 = r2
INVARIANTS
    PostedOnce
    ResultMatchesPosts
    ErasedStaysErased
PROPERTIES
    KnownPostsSettle
CHECK_DEADLOCK FALSE
