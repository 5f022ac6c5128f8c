----------------------------- MODULE AtomicFiles -----------------------------
(***************************************************************************)
(* What the note journal promises of the files it keeps: a transaction     *)
(* changes all its files at once or none of them, is decided once, and a   *)
(* decision is never undone, by a crash, a power loss or a recovery.       *)
(***************************************************************************)
CONSTANTS Target, Hand, Request, Tx, Start

VARIABLES
    contents,   \* what each file holds
    outcome     \* what became of each transaction

filesVars == <<contents, outcome>>

After(r, kept) ==
    [t \in Target |-> IF t \in DOMAIN r \ kept THEN r[t] ELSE contents[t]]

Init ==
    /\ contents \in Start
    /\ outcome = [i \in Tx |-> "none"]

Decide(i, d) ==
    /\ outcome[i] = "none"
    /\ outcome' = [outcome EXCEPT ![i] = d]

\* A file the owner has meanwhile written by hand may be kept.
Commit(i) ==
    /\ Decide(i, "resume")
    /\ \E r \in Request, kept \in SUBSET {t \in Target : contents[t] = Hand} :
        contents' = After(r, kept)

Abort(i) ==
    /\ Decide(i, "rollback")
    /\ UNCHANGED contents

Edit(t) ==
    /\ contents' = [contents EXCEPT ![t] = Hand]
    /\ UNCHANGED outcome

Next == (\E i \in Tx : Commit(i) \/ Abort(i)) \/ \E t \in Target : Edit(t)

Spec == Init /\ [][Next]_filesVars
=============================================================================
