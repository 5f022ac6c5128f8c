CONSTANTS
    note = note
    record = record
    nothing = nothing
    text = text
    prepared = prepared
    executed = executed
    undone = undone
    Hand = Hand
    Target = {note, record}
    Value = {nothing, text, prepared, executed, undone, Hand}
    Start <- NoteStart
    Request <- NoteRequests
    Tx = {t1}
    PointerTears = TRUE
    MaxFailures = 1
    MaxLosses = 1
    None = None
SPECIFICATION Spec
INVARIANT
    InterruptedIsGuarded
CHECK_DEADLOCK FALSE
