---------------------------- MODULE MCNoteJournal ----------------------------
EXTENDS NoteJournal, TLC

CONSTANTS note, record, nothing, text, prepared, executed, undone

\* A note saved with the record of its action, the record alone rewritten, and
\* both undone.
NoteRequests ==
    {(note :> text) @@ (record :> executed), record :> prepared,
     (note :> nothing) @@ (record :> undone)}

\* Before the first execution, and after one.
NoteStart ==
    {(note :> nothing) @@ (record :> prepared), (note :> text) @@ (record :> executed)}
=============================================================================
