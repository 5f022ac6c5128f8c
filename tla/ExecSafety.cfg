CONSTANTS
    Order = {o1}
    Sale = {o1}
    Submitter = {s1, s2}
    Worker = {w1, w2}
    Quantity = 2
    MaxAttempts = 2
    MaxCrashes = 1
    Lagging = FALSE
    None = None
SYMMETRY ThreadSymmetry
SPECIFICATION Spec
INVARIANTS
    TypeOK
    BookMatchesExecutions
    StatusAdmitsBook
    NoBlindResubmit
    RejectedIsTrue
    OneSubmitterPerOrder
    IndexedFillsAreBooked
    BookedReachesPortfolio
    PositionAgreesWithBook
PROPERTY ImplementsLifecycle
