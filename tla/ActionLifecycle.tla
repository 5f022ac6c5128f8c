--------------------------- MODULE ActionLifecycle ---------------------------
(***************************************************************************)
(* The lifecycle the action spine promises of an action (the diagram at    *)
(* the head of olympus/actions.py), with the effect it has outside:        *)
(* prepared, then approved or rejected; an approved action takes effect,   *)
(* fails or goes back to be approved again; an executed one may be undone. *)
(* One move is not in the diagram: the status of an executed action may be *)
(* written over while its effect stands.                                   *)
(***************************************************************************)
CONSTANT Action

VARIABLES
    status,     \* where each action is in its lifecycle
    stands      \* whether its effect stands

lifecycleVars == <<status, stands>>

Init ==
    /\ status = [a \in Action |-> "absent"]
    /\ stands = [a \in Action |-> FALSE]

Move(a, from, to, effect) ==
    /\ status[a] = from
    /\ status' = [status EXCEPT ![a] = to]
    /\ stands' = [stands EXCEPT ![a] = effect]

Prepare(a) == Move(a, "absent", "prepared", FALSE)
Reject(a) == Move(a, "prepared", "rejected", FALSE)
Approve(a) == Move(a, "prepared", "approved", FALSE)
Hold(a) == Move(a, "approved", "prepared", FALSE)
Fail(a) == Move(a, "approved", "failed", FALSE)
Execute(a) == Move(a, "approved", "executed", TRUE)
Undo(a) == Move(a, "executed", "undone", FALSE)

\* The exception, and what is left of it once an undo gets through: a note said
\* to have failed stays, one said to be undone can be undone still.
Misreport(a) == \E to \in {"failed", "undone"} : Move(a, "executed", to, TRUE)
UndoLate(a) == Move(a, "undone", "undone", FALSE)

Next ==
    \E a \in Action :
        \/ Prepare(a) \/ Reject(a) \/ Approve(a) \/ Hold(a) \/ Fail(a)
        \/ Execute(a) \/ Undo(a) \/ Misreport(a) \/ UndoLate(a)

Spec == Init /\ [][Next]_lifecycleVars
=============================================================================
