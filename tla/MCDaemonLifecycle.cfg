CONSTANTS
    None = None
    MaxStrays = 2
    MaxEnds = 1
    MaxSilences = 1
    MaxReuses = 1
SPECIFICATION FairSpec
INVARIANTS
    AloneUnlessRaced
    OwnerIsFound
PROPERTY ReachableInTheEnd
CHECK_DEADLOCK FALSE
