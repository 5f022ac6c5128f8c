CONSTANTS
    Order = {o1}
    Sale = {}
    Submitter = {s1}
    Worker = {w1}
    Quantity = 2
    MaxAttempts = 2
    MaxCrashes = 0
    Lagging = FALSE
    None = None
SPECIFICATION Spec
INVARIANT FilledOnlyByBooking
