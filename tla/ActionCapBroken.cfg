CONSTANTS
    n1 = n1
    w1 = w1
    Action = {e1, e2}
    Caller = {c1, c2}
    KindOf <- MixedKindOf
    Limit <- OneADay
    Level = {1}
    ShadowModes = {FALSE}
    MaxRevision = 0
    MaxDrift = 0
    MaxMishaps = 0
    None = None
SPECIFICATION CastSpec
INVARIANT CapHolds
