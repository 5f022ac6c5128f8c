CONSTANTS
    note = note
    record = record
    nothing = nothing
    text = text
    prepared = prepared
    executed = executed
    undone = undone
    Hand = Hand
    Target = {note, record}
    Value = {nothing, text, prepared, executed, undone, Hand}
    Start <- NoteStart
    Request <- NoteRequests
    Tx = {t1, t2}
    PointerTears = FALSE
    MaxFailures = 2
    MaxLosses = 1
    None = None
SPECIFICATION FairSpec
INVARIANTS
    TypeOK
    PointerHasPlan
PROPERTIES
    HandIsKept
    ImplementsAtomicFiles
    DoubtEnds
CHECK_DEADLOCK FALSE
