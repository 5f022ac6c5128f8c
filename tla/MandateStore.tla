----------------------------- MODULE MandateStore -----------------------------
(***************************************************************************)
(* One owner's authorised mandates and the nonces they consumed            *)
(* (olympus/mandate_store.py).  Two blobs of the store, each replaced      *)
(* whole: the record is cut to the newest rows, the nonce ledger never     *)
(* is.  record() checks and publishes under a machine-wide lock, nonces    *)
(* first; a failed or interrupted call leaves what it had published.       *)
(***************************************************************************)
EXTENDS Integers, Sequences, FiniteSets

CONSTANTS
    Cart,           \* cart nonces that are presented, more than once perhaps
    Intent,         \* intent nonces
    IntentOf,       \* the intent each cart is drawn under
    Approver,       \* threads and processes that record approvals
    MaxRows,        \* _MAX_RECORDS
    MaxNonces,      \* _MAX_NONCES
    NoCart

ASSUME IntentAssumption == IntentOf \in [Cart -> Intent] /\ Cart \cap Intent = {}
ASSUME WindowAssumption == MaxRows \in Nat \ {0} /\ MaxNonces \in Nat
ASSUME NoCartAssumption == NoCart \notin Cart

VARIABLES
    rows,           \* the mandates blob, oldest first
    nonces,         \* the nonce ledger
    approval,       \* each approver's place in record(), and its cart
    fresh,          \* the nonces an approver read, with its own
    authorised      \* history: how often each cart has entered the record

mandateVars == <<rows, nonces, approval, fresh, authorised>>

Away == [at |-> "away", cart |-> NoCart]

Locked == \E a \in Approver : approval[a].at # "away"

NoncesOf(c) == {c, IntentOf[c]}

Recorded(rs) == {rs[i] : i \in DOMAIN rs}

\* _state(): both blobs are refused unless every row has its nonces.
Sound == UNION {NoncesOf(c) : c \in Recorded(rows)} \subseteq nonces

Goes(a, r) == approval' = [approval EXCEPT ![a] = r]

\* Mutant: replay is looked for in the record.
ReplayedInRecord(c) == c \in Recorded(rows)

\* MandateReplayError
Replayed(c) == c \in nonces

Newest(rs) == SubSeq(rs, Len(rs) - MaxRows + 1, Len(rs))

-----------------------------------------------------------------------------

\* The lock is taken, the state is sound, the nonce is fresh and there is room
\* for the tombstones; otherwise the call raises and nothing has changed.
Present(a, c) ==
    /\ ~Locked
    /\ Sound /\ ~Replayed(c)
    /\ Cardinality(nonces \cup NoncesOf(c)) <= MaxNonces
    /\ Goes(a, [at |-> "checked", cart |-> c])
    /\ fresh' = [fresh EXCEPT ![a] = nonces \cup NoncesOf(c)]
    /\ UNCHANGED <<rows, nonces, authorised>>

\* Mutant: the row is published first.
PublishRowFirst(a) ==
    /\ approval[a].at = "checked"
    /\ rows' = Append(rows, approval[a].cart)
    /\ Goes(a, [approval[a] EXCEPT !.at = "consumed"])
    /\ UNCHANGED <<nonces, fresh, authorised>>

\* The first put: the tombstones ...
PublishNonces(a) ==
    /\ approval[a].at = "checked"
    /\ nonces' = fresh[a]
    /\ Goes(a, [approval[a] EXCEPT !.at = "consumed"])
    /\ UNCHANGED <<rows, fresh, authorised>>

\* ... then the second: the record, cut to its newest rows.
PublishRow(a) ==
    /\ approval[a].at = "consumed"
    /\ LET longer == Append(rows, approval[a].cart)
       IN  rows' = IF Len(longer) > MaxRows THEN Newest(longer) ELSE longer
    /\ authorised' = [authorised EXCEPT ![approval[a].cart] = @ + 1]
    /\ Goes(a, Away)
    /\ fresh' = [fresh EXCEPT ![a] = {}]
    /\ UNCHANGED nonces

\* A put raises, or the process dies and its lock with it.
Interrupt(a) ==
    /\ approval[a].at # "away"
    /\ Goes(a, Away)
    /\ fresh' = [fresh EXCEPT ![a] = {}]
    /\ UNCHANGED <<rows, nonces, authorised>>

MandateInit ==
    /\ rows = <<>>
    /\ nonces = {}
    /\ approval = [a \in Approver |-> Away]
    /\ fresh = [a \in Approver |-> {}]
    /\ authorised = [c \in Cart |-> 0]

MandateNext ==
    \E a \in Approver :
        \/ \E c \in Cart : Present(a, c)
        \/ PublishNonces(a) \/ PublishRow(a) \/ Interrupt(a)

MandateSpec == MandateInit /\ [][MandateNext]_mandateVars

-----------------------------------------------------------------------------
(* Properties *)

\* The blobs are bounded lists of rows and nonces, and one caller holds the lock.
MandateTypeOK ==
    /\ rows \in Seq(Cart) /\ Len(rows) <= MaxRows
    /\ nonces \subseteq Cart \cup Intent
    /\ approval \in [Approver -> [at : {"away", "checked", "consumed"}, cart : Cart \cup {NoCart}]]
    /\ fresh \in [Approver -> SUBSET (Cart \cup Intent)]
    /\ authorised \in [Cart -> Nat]

\* Whatever call was interrupted, no recorded mandate lacks the evidence of its
\* nonces: the owner's state can be read again (_state(), nonce-first order).
InterruptionLeavesSound == Sound

\* A cart is authorised at most once, also after its row has left the record and
\* across interrupted calls (the nonce ledger is never cut).
AuthorisedOnce == \A c \in Cart : authorised[c] <= 1
=============================================================================
