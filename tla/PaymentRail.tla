----------------------------- MODULE PaymentRail -----------------------------
(***************************************************************************)
(* The payment rail (olympus/payrail.py, paylive.py) over the payer's      *)
(* signed ledger (deltas.py).  A charge reads the ledger, decides on what  *)
(* it read whether the mandate was charged before and whether the day's    *)
(* cap allows it, asks the processor, and records the charge; nothing is   *)
(* held between the read and the record.  The ledger is cut to its newest  *)
(* records, and records of every attempt count towards the cut.            *)
(*                                                                         *)
(* One payer, one day, mandates of one unit each.  Signatures, consent and *)
(* the per-transaction cap are left out: a charge may be refused anyway.   *)
(* The processor stands for an adapter that honours idempotency keys.      *)
(***************************************************************************)
EXTENDS Integers, Sequences, FiniteSets

CONSTANTS
    Nonce,          \* the nonces of the mandates
    Payer,          \* threads and processes that charge
    MaxDaily,       \* max_daily()
    Window,         \* _MAX_SNAPSHOTS
    Attempt         \* a record of an attempt that charged nothing

ASSUME CapAssumption == MaxDaily \in Nat /\ Window \in Nat \ {0}
ASSUME AttemptAssumption == Attempt \notin Nonce /\ Nonce \cap (Payer \X Nonce) = {}

VARIABLES
    payments,       \* the ledger: the nonce of each charge, Attempt otherwise
    charge,         \* each payer's place in charge(), its nonce, and if it is live
    keys,           \* the processor's: idempotency keys it has answered
    bills,          \* the processor's: how often each mandate was billed
    recorded        \* history: the mandates whose charge was ever recorded

railVars == <<payments, charge, keys, bills, recorded>>

At == {"away", "read", "attempt", "reread", "pay", "record", "note"}

Charges(n) == {i \in DOMAIN payments : payments[i] = n}

Spent == Cardinality({i \in DOMAIN payments : payments[i] # Attempt})

\* _prior_charge()
Prior(n) == Charges(n) # {}

\* Mutant: the cap is compared before the amount is added.
CapAllowsLate == Spent <= MaxDaily

CapAllows == Spent + 1 <= MaxDaily

\* Mutant: the ledger is cut before the record is added.
PublishCutFirst(x) ==
    payments' = Append(IF Len(payments) > Window THEN Tail(payments) ELSE payments, x)

\* record_snapshot(): one locked append, keeping the newest.
Publish(x) ==
    LET longer == Append(payments, x)
    IN  payments' = IF Len(longer) > Window THEN Tail(longer) ELSE longer

Turn(p, at) == charge' = [charge EXCEPT ![p].at = at]

Gone == [at |-> "away", nonce |-> Attempt, live |-> FALSE]

Leave(p) == charge' = [charge EXCEPT ![p] = Gone]

\* Mutant: a key of the attempt's own.
KeyOfPayer(p) == <<p, charge[p].nonce>>

\* The idempotency key is the mandate's nonce.
Key(p) == charge[p].nonce

-----------------------------------------------------------------------------

\* charge() is called, or called again, for a mandate.
Charge(p, n, live) ==
    /\ charge[p] = Gone
    /\ charge' = [charge EXCEPT ![p] = [at |-> "read", nonce |-> n, live |-> live]]
    /\ UNCHANGED <<payments, keys, bills, recorded>>

\* The ledger is read.  A prior charge is answered; a live charge goes on to
\* execute_live(); the mandate gate may refuse, and the cap must allow.
ReadLedger(p) ==
    /\ charge[p].at = "read"
    /\ \/ Turn(p, "note")
       \/ ~Prior(charge[p].nonce) /\ charge[p].live /\ Turn(p, "attempt")
       \/ ~Prior(charge[p].nonce) /\ ~charge[p].live /\ CapAllows /\ Turn(p, "pay")
    /\ UNCHANGED <<payments, keys, bills, recorded>>

\* execute_live() records the attempt before anything else, or raises ...
RecordAttempt(p) ==
    /\ charge[p].at = "attempt"
    /\ \/ Publish(Attempt) /\ Turn(p, "reread")
       \/ UNCHANGED payments /\ Leave(p)
    /\ UNCHANGED <<keys, bills, recorded>>

\* ... and trusts no history but the one it reads itself.
RereadLedger(p) ==
    /\ charge[p].at = "reread"
    /\ \/ Turn(p, "note")
       \/ ~Prior(charge[p].nonce) /\ CapAllows /\ Turn(p, "pay")
    /\ UNCHANGED <<payments, keys, bills, recorded>>

\* The processor bills a key it has not seen and answers, or its answer is lost.
AskProcessor(p) ==
    /\ charge[p].at = "pay"
    /\ keys' = keys \cup {Key(p)}
    /\ bills' = IF Key(p) \in keys THEN bills ELSE [bills EXCEPT ![charge[p].nonce] = @ + 1]
    /\ \E next \in {"record", "note"} : Turn(p, next)
    /\ UNCHANGED <<payments, recorded>>

\* It declines, or is not reached.
Decline(p) ==
    /\ charge[p].at = "pay"
    /\ Turn(p, "note")
    /\ UNCHANGED <<payments, keys, bills, recorded>>

\* The signed record is the commit ...
RecordCharge(p) ==
    /\ charge[p].at = "record"
    /\ Publish(charge[p].nonce)
    /\ recorded' = recorded \cup {charge[p].nonce}
    /\ Leave(p)
    /\ UNCHANGED <<keys, bills>>

\* ... and every other outcome is noted, best effort.
NoteOutcome(p) ==
    /\ charge[p].at = "note"
    /\ Publish(Attempt)
    /\ Leave(p)
    /\ UNCHANGED <<keys, bills, recorded>>

\* The record cannot be written, or the process dies: at any point.
Abandon(p) ==
    /\ charge[p].at # "away"
    /\ Leave(p)
    /\ UNCHANGED <<payments, keys, bills, recorded>>

RailInit ==
    /\ payments = <<>>
    /\ charge = [p \in Payer |-> Gone]
    /\ keys = {}
    /\ bills = [n \in Nonce |-> 0]
    /\ recorded = {}

RailNext ==
    \E p \in Payer :
        \/ \E n \in Nonce, live \in BOOLEAN : Charge(p, n, live)
        \/ ReadLedger(p) \/ RecordAttempt(p) \/ RereadLedger(p)
        \/ AskProcessor(p) \/ Decline(p)
        \/ RecordCharge(p) \/ NoteOutcome(p) \/ Abandon(p)

RailSpec == RailInit /\ [][RailNext]_railVars

-----------------------------------------------------------------------------
(* Properties *)

\* The ledger holds at most its window.
RailTypeOK ==
    /\ payments \in Seq(Nonce \cup {Attempt}) /\ Len(payments) <= Window
    /\ charge \in [Payer -> [at : At, nonce : Nonce \cup {Attempt}, live : BOOLEAN]]
    /\ bills \in [Nonce -> Nat]
    /\ recorded \subseteq Nonce

\* Money moves once for a mandate, whether its charge was lost between the
\* processor and the ledger and tried again, raced by another, or has left the
\* window of the ledger (the key is the nonce in payrail.py and paylive.py); and
\* what the ledger has as charged was billed.
BilledOnce == \A n \in Nonce : bills[n] <= 1 /\ (Prior(n) => bills[n] = 1)

Billed == {n \in Nonce : bills[n] > 0}

\* Charges the processor made that the total of the day leaves out: their answer or
\* their record was lost, or their record has left the window of the ledger.
Forgotten ==
    {n \in Billed : ~Prior(n) /\ \A p \in Payer : ~(charge[p].at = "record" /\ charge[p].nonce = n)}

\* The day's cap as it is kept, over what the processor billed: it is exceeded by the
\* charges the ledger has forgotten, and beyond these by less than one for each
\* payer that charges at a time (charge() holds nothing from its read on).
OvershootBounded ==
    Cardinality(Billed) <= MaxDaily + Cardinality(Payer) - 1 + Cardinality(Forgotten)

\* payrail.py: "enforce hard caps (per-transaction + daily) fail-closed", the day's
\* total being "derived from the witness-SIGNED, append-only payment ledger".
DailyCapHolds == Cardinality(recorded) <= MaxDaily
=============================================================================
