CONSTANTS
    Order = {o1, o2}
    Sale = {o2}
    Submitter = {s1}
    Worker = {w1}
    Quantity = 1
    MaxAttempts = 1
    MaxCrashes = 1
    Lagging = TRUE
    None = None
    Operator = {b1}
    Nobody = Nobody
    Process = {p1, p2, p3}
    Trusted = {p1, p2}
    c3 = c3
    i1 = i1
    i2 = i2
    Cart = {c1, c2, c3}
    Intent = {i1, i2}
    IntentOf <- TwoUnderOne
    Approver = {a1, a2}
    MaxRows = 1
    MaxNonces = 4
    NoCart = NoCart
    Nonce = {n1, n2, n3}
    Payer = {y1, y2}
    MaxDaily = 1
    Window = 3
    Attempt = Attempt
    Deployment = {d1, d2, d3, d4}
    NoDeployment = NoDeployment
    Name = {j1}
    Round = {r1, r2}
    Interval = 1
    ResumeAfter = 0
    ChangePoll = 0
    MaxClock = 1
    MaxOutput = 2
    MaxAdds = 2
    Spender = {x1, x2}
    ModelCall = {l1, l2, l3, l4}
    Budget = 1
    CompactAt = 2
    MaxTrouble = 2
    Torn = Torn
    Unlocked = Unlocked
SYMMETRY Interchangeable
SPECIFICATION ComponentsSpec
INVARIANTS
    TypesOK
    CleanPassIsCaughtUp
    HaltsStopOrders
    LiveIsEarned
    StopBeatsExecute
    InterruptionLeavesSound
    AuthorisedOnce
    BilledOnce
    OvershootBounded
    OneActive
    OwnerHasTheLastWord
    ChangeFiresOnce
    SpendIsKept
    BudgetOvershootBounded
PROPERTIES
    AutomaticHaltsHold
    RolledBackStaysBack
CHECK_DEADLOCK FALSE
