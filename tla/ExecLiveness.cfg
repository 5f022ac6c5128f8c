CONSTANTS
    Order = {o1}
    Sale = {}
    Submitter = {s1}
    Worker = {w1}
    Quantity = 2
    MaxAttempts = 2
    MaxCrashes = 1
    Lagging = TRUE
    None = None
SPECIFICATION FairSpec
PROPERTIES
    SubmissionEnds
    VenueClosureReachesBook
