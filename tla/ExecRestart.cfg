CONSTANTS
    Order = {o1}
    Sale = {o1}
    Submitter = {s1}
    Worker = {w1}
    Quantity = 2
    MaxAttempts = 2
    MaxCrashes = 1
    Lagging = FALSE
    None = None
SPECIFICATION Spec
INVARIANT PortfolioSurvivesRestart
