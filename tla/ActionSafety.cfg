CONSTANTS
    n1 = n1
    w1 = w1
    Action = {n1, w1, e1, e2, e3}
    Caller = {c1, c2}
    KindOf <- MixedKindOf
    Limit <- OneADay
    Level = {1, 4}
    ShadowModes = {FALSE, TRUE}
    MaxRevision = 1
    MaxDrift = 1
    MaxMishaps = 1
    None = None
SYMMETRY Interchangeable
SPECIFICATION CastSpec
INVARIANTS
    TypeOK
    NoteMatchesRecord
    ApprovedIsDriven
    IrreversibleByHumanOnly
    RevocationStops
    CapOvershootBounded
PROPERTY NotesFollowLifecycle
