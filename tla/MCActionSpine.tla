---------------------------- MODULE MCActionSpine ----------------------------
(***************************************************************************)
(* Two instances of the spine in one: a behaviour is one of a note and a   *)
(* workspace file, with mishaps and edits, or one of e-mails under a cap,  *)
(* with shadow mode and drifting previews.  What the other instance is     *)
(* about rests.                                                            *)
(***************************************************************************)
EXTENDS ActionSpine, TLC

CONSTANTS n1, w1

\* A note, a workspace file and e-mails, of which a day allows one.
MixedKindOf == [a \in Action |-> CASE a = n1 -> "save_note" [] a = w1 -> "write_file"
                                   [] OTHER -> "send_email"]

\* The limit on e-mails, and the owner's own on files.
OneADay == [k \in Kind |-> IF k = "save_note" THEN 0 ELSE 1]

Email == {a \in Action : Irreversible(a)}

Interchangeable == Permutations(Caller) \cup Permutations(Email)

VARIABLE cast       \* the actions this behaviour is about

\* The bounds of an instance: the owner's scopes are of its kinds, and ...
InCast ==
    /\ granted \subseteq {KindOf[a] : a \in cast}
    /\ \A a \in Action \ cast : record[a] = NoRecord
    /\ IF cast = Email
       \* ... nothing is edited and nothing fails, or
       THEN mishaps = 0 /\ \A a \in cast : record[a].rev = 0
       \* ... previews do not drift and every effect is reversible.
       ELSE world = 0 /\ ~shadow

CastInit == Init /\ cast \in {Email, Action \ Email} \ {{}} /\ InCast

CastNext == Next /\ UNCHANGED cast /\ InCast'

CastSpec == CastInit /\ [][CastNext]_<<vars, cast>>
=============================================================================
