----------------------------- MODULE PaymentProofs -----------------------------
(***************************************************************************)
(* Proofs about the mandates that are recorded and the charges made on     *)
(* them: for any carts, intents, approvers and payers, any window of the   *)
(* ledger and any caps, through crashes and lost answers.                  *)
(***************************************************************************)
EXTENDS MandateStore, PaymentRail, FiniteSetTheorems, TLAPS

-----------------------------------------------------------------------------
(* The mandate store *)

\* What the holder of the lock relies on between its read and its last write.
ApprovalOK ==
    /\ \A a, b \in Approver : approval[a].at # "away" /\ approval[b].at # "away" => a = b
    /\ \A a \in Approver : approval[a].at # "away" => approval[a].cart \in Cart
    /\ \A a \in Approver : approval[a].at = "checked" =>
          /\ approval[a].cart \notin nonces
          /\ fresh[a] = nonces \cup NoncesOf(approval[a].cart)
    /\ \A a \in Approver : approval[a].at = "consumed" =>
          /\ NoncesOf(approval[a].cart) \subseteq nonces
          /\ authorised[approval[a].cart] = 0

\* A cart that ever entered the record has its nonce consumed.
ConsumedOK == \A c \in Cart : authorised[c] > 0 => c \in nonces

MandateInv == MandateTypeOK /\ Sound /\ AuthorisedOnce /\ ApprovalOK /\ ConsumedOK

\* Cutting the record to its newest rows invents none.
LEMMA CutRows ==
    ASSUME NEW rs \in Seq(Cart), NEW c \in Cart, Len(rs) <= MaxRows
    PROVE  LET longer == Append(rs, c)
               cut == IF Len(longer) > MaxRows THEN Newest(longer) ELSE longer
           IN  /\ cut \in Seq(Cart) /\ Len(cut) <= MaxRows
               /\ Recorded(cut) \subseteq Recorded(rs) \cup {c}
<1> DEFINE longer == Append(rs, c)
<1>1. /\ longer \in Seq(Cart) /\ Len(longer) = Len(rs) + 1
      /\ \A i \in 1..Len(longer) : longer[i] = IF i <= Len(rs) THEN rs[i] ELSE c
  OBVIOUS
<1>2. Recorded(longer) \subseteq Recorded(rs) \cup {c}
  BY <1>1 DEF Recorded
<1>3. ASSUME Len(longer) > MaxRows
      PROVE  /\ Newest(longer) \in Seq(Cart) /\ Len(Newest(longer)) <= MaxRows
             /\ Recorded(Newest(longer)) \subseteq Recorded(longer)
  <2> HIDE DEF longer
  <2>1. Len(longer) - MaxRows + 1 \in 1..Len(longer) + 1 /\ Len(longer) \in Nat
    BY <1>1, <1>3, WindowAssumption
  <2> DEFINE m == Len(longer) - MaxRows + 1
             s == SubSeq(longer, m, Len(longer))
  <2>2. /\ s \in Seq(Cart) /\ Len(s) = MaxRows
        /\ \A i \in 1..Len(s) : s[i] = longer[i + m - 1] /\ i + m - 1 \in 1..Len(longer)
    BY <1>1, <1>3, <2>1, WindowAssumption
  <2>. QED BY <2>2, WindowAssumption DEF Newest, Recorded
<1>. QED BY <1>1, <1>2, <1>3, WindowAssumption

\* Each step of an approval keeps the record and the nonces sound.
LEMMA MandateStep ==
    ASSUME MandateInv, NEW a \in Approver,
           \/ \E c \in Cart : Present(a, c)
           \/ PublishNonces(a) \/ PublishRow(a) \/ Interrupt(a)
    PROVE  MandateInv'
<1>. /\ rows \in Seq(Cart) /\ Len(rows) <= MaxRows
     /\ nonces \subseteq Cart \cup Intent
     /\ approval \in [Approver -> [at : {"away", "checked", "consumed"}, cart : Cart \cup {NoCart}]]
     /\ fresh \in [Approver -> SUBSET (Cart \cup Intent)]
     /\ authorised \in [Cart -> Nat]
     /\ Sound /\ AuthorisedOnce /\ ApprovalOK /\ ConsumedOK
  BY DEF MandateInv, MandateTypeOK
<1>1. ASSUME NEW c \in Cart, Present(a, c)
      PROVE  MandateInv'
  <2>1. \A b \in Approver : approval[b].at = "away"
    BY <1>1 DEF Present, Locked
  <2>2. /\ approval' = [approval EXCEPT ![a] = [at |-> "checked", cart |-> c]]
        /\ fresh' = [fresh EXCEPT ![a] = nonces \cup NoncesOf(c)]
        /\ c \notin nonces /\ UNCHANGED <<rows, nonces, authorised>>
    BY <1>1 DEF Present, Goes, Replayed
  <2>3. NoncesOf(c) \subseteq Cart \cup Intent
    BY IntentAssumption DEF NoncesOf
  <2>4. MandateTypeOK'
    BY <2>2, <2>3 DEF MandateTypeOK
  <2>5. ApprovalOK'
    BY <2>1, <2>2 DEF ApprovalOK
  <2>. QED BY <2>2, <2>4, <2>5 DEF MandateInv, Sound, AuthorisedOnce, ConsumedOK
<1>2. CASE PublishNonces(a)
  <2>1. /\ approval[a].at = "checked" /\ nonces' = fresh[a]
        /\ approval' = [approval EXCEPT ![a] = [approval[a] EXCEPT !.at = "consumed"]]
        /\ UNCHANGED <<rows, fresh, authorised>>
    BY <1>2 DEF PublishNonces, Goes
  <2>2. /\ approval[a].cart \in Cart /\ approval[a].cart \notin nonces
        /\ nonces' = nonces \cup NoncesOf(approval[a].cart)
        /\ authorised[approval[a].cart] = 0
    BY <2>1 DEF ApprovalOK, ConsumedOK
  <2>3. MandateTypeOK'
    BY <2>1 DEF MandateTypeOK
  <2>4. ApprovalOK'
    BY <2>1, <2>2 DEF ApprovalOK
  <2>. QED BY <2>1, <2>2, <2>3, <2>4 DEF MandateInv, Sound, AuthorisedOnce, ConsumedOK
<1>3. CASE PublishRow(a)
  <2>1. /\ approval[a].at = "consumed"
        /\ LET longer == Append(rows, approval[a].cart)
           IN  rows' = IF Len(longer) > MaxRows THEN Newest(longer) ELSE longer
        /\ authorised' = [authorised EXCEPT ![approval[a].cart] = @ + 1]
        /\ approval' = [approval EXCEPT ![a] = Away]
        /\ fresh' = [fresh EXCEPT ![a] = {}]
        /\ UNCHANGED nonces
    BY <1>3 DEF PublishRow, Goes
  <2>2. /\ approval[a].cart \in Cart /\ NoncesOf(approval[a].cart) \subseteq nonces
        /\ authorised[approval[a].cart] = 0
        /\ \A b \in Approver \ {a} : approval[b].at = "away"
    BY <2>1 DEF ApprovalOK
  <2>3. /\ rows' \in Seq(Cart) /\ Len(rows') <= MaxRows
        /\ Recorded(rows') \subseteq Recorded(rows) \cup {approval[a].cart}
    BY <2>1, <2>2, CutRows
  <2>4. /\ approval' \in [Approver -> [at : {"away", "checked", "consumed"}, cart : Cart \cup {NoCart}]]
        /\ \A b \in Approver : approval'[b].at = "away"
    BY <2>1, <2>2 DEF Away
  <2>5. authorised' \in [Cart -> Nat] /\ authorised'[approval[a].cart] = 1
    BY <2>1, <2>2
  <2>6. MandateTypeOK'
    BY <2>1, <2>3, <2>4, <2>5 DEF MandateTypeOK
  <2>7. ApprovalOK'
    BY <2>4 DEF ApprovalOK
  <2>8. AuthorisedOnce' /\ ConsumedOK'
    BY <2>1, <2>2, <2>5 DEF AuthorisedOnce, ConsumedOK, NoncesOf
  <2>9. Sound'
    BY <2>1, <2>2, <2>3 DEF Sound
  <2>. QED BY <2>6, <2>7, <2>8, <2>9 DEF MandateInv
<1>4. CASE Interrupt(a)
  <2>1. /\ approval' = [approval EXCEPT ![a] = Away]
        /\ fresh' = [fresh EXCEPT ![a] = {}]
        /\ UNCHANGED <<rows, nonces, authorised>>
    BY <1>4 DEF Interrupt, Goes
  <2>2. MandateTypeOK'
    BY <2>1 DEF MandateTypeOK, Away
  <2>3. ApprovalOK'
    BY <2>1 DEF ApprovalOK, Away
  <2>. QED BY <2>1, <2>2, <2>3 DEF MandateInv, Sound, AuthorisedOnce, ConsumedOK
<1>. QED BY <1>1, <1>2, <1>3, <1>4

\* The invariant of the record holds in every state.
LEMMA MandateInvariant == MandateSpec => []MandateInv
<1>1. MandateInit => MandateInv
  <2>1. SUFFICES ASSUME MandateInit PROVE MandateInv
    OBVIOUS
  <2>2. MandateTypeOK
    BY <2>1, WindowAssumption DEF MandateInit, MandateTypeOK, Away
  <2>3. Sound
    BY <2>1 DEF MandateInit, Sound, Recorded
  <2>4. AuthorisedOnce /\ ConsumedOK /\ ApprovalOK
    BY <2>1 DEF MandateInit, AuthorisedOnce, ConsumedOK, ApprovalOK, Away
  <2>. QED BY <2>2, <2>3, <2>4 DEF MandateInv
<1>2. MandateInv /\ [MandateNext]_mandateVars => MandateInv'
  <2>1. CASE UNCHANGED mandateVars
    BY <2>1 DEF mandateVars, MandateInv, MandateTypeOK, Sound, AuthorisedOnce, ConsumedOK, ApprovalOK
  <2>. QED BY <2>1, MandateStep DEF MandateNext
<1>. QED BY <1>1, <1>2, PTL DEF MandateSpec

\* However a call is interrupted, the owner's record can be read again: each row
\* has the evidence of its nonces.
THEOREM RecordStaysReadable == MandateSpec => []InterruptionLeavesSound
<1>1. MandateInv => InterruptionLeavesSound
  BY DEF MandateInv, InterruptionLeavesSound
<1>. QED BY <1>1, MandateInvariant, PTL

\* A cart is authorised at most once, also after its row was cut from the record.
THEOREM NoReplay == MandateSpec => []AuthorisedOnce
<1>1. MandateInv => AuthorisedOnce
  BY DEF MandateInv
<1>. QED BY <1>1, MandateInvariant, PTL

-----------------------------------------------------------------------------
(* The payment rail *)

\* Every key is a mandate's nonce, answered once; what is or is about to be in the
\* ledger as a charge has its key.
BillingOK ==
    /\ \A p \in Payer : charge[p].at # "away" => charge[p].nonce \in Nonce
    /\ \A p \in Payer : charge[p].at = "record" => charge[p].nonce \in keys
    /\ \A i \in DOMAIN payments : payments[i] # Attempt => payments[i] \in keys
    /\ \A n \in Nonce : bills[n] = IF n \in keys THEN 1 ELSE 0

RailInv == RailTypeOK /\ BillingOK

\* The charges of a ledger.
Charged(s) == {i \in DOMAIN s : s[i] # Attempt}

\* The charges of a ledger are finitely many.
LEMMA ChargedFinite ==
    ASSUME NEW s \in Seq(Nonce \cup {Attempt})
    PROVE  IsFiniteSet(Charged(s)) /\ Cardinality(Charged(s)) \in Nat
<1>1. Charged(s) \in SUBSET (1..Len(s)) /\ IsFiniteSet(1..Len(s))
  BY FS_Interval DEF Charged
<1>. QED BY <1>1, FS_Subset, FS_CardinalityType

\* Dropping the oldest record adds no charge.
LEMMA TailCharged ==
    ASSUME NEW s \in Seq(Nonce \cup {Attempt}), s # <<>>
    PROVE  Cardinality(Charged(Tail(s))) <= Cardinality(Charged(s))
<1> DEFINE S == Charged(Tail(s))
           T == Charged(s)
           f == [i \in S |-> i + 1]
<1>1. /\ Len(Tail(s)) = Len(s) - 1 /\ Tail(s) \in Seq(Nonce \cup {Attempt})
      /\ \A i \in 1..Len(s) - 1 : Tail(s)[i] = s[i + 1]
  OBVIOUS
<1>2. \A i \in S : i \in Nat /\ i + 1 \in T
  BY <1>1 DEF Charged
<1>3. f \in [S -> T]
  BY <1>2
<1>4. \A i, j \in S : f[i] = f[j] => i = j
  BY <1>2
<1>5. f \in Injection(S, T)
  <2> HIDE DEF f
  <2>. QED BY <1>3, <1>4 DEF Injection, IsInjective
<1>. QED BY <1>5, ChargedFinite, FS_Injection

\* A row that is a charge adds one charge, an attempt none.
LEMMA AppendCharged ==
    ASSUME NEW s \in Seq(Nonce \cup {Attempt}), NEW x \in Nonce \cup {Attempt}
    PROVE  Cardinality(Charged(Append(s, x))) =
              Cardinality(Charged(s)) + (IF x = Attempt THEN 0 ELSE 1)
<1>1. /\ Len(Append(s, x)) = Len(s) + 1 /\ Append(s, x) \in Seq(Nonce \cup {Attempt})
      /\ \A i \in 1..Len(s) : Append(s, x)[i] = s[i]
      /\ Append(s, x)[Len(s) + 1] = x
  OBVIOUS
<1>2. Charged(Append(s, x)) = IF x = Attempt THEN Charged(s) ELSE Charged(s) \cup {Len(s) + 1}
  BY <1>1 DEF Charged
<1>3. Len(s) + 1 \notin Charged(s)
  BY DEF Charged
<1>4. IsFiniteSet(Charged(s)) /\ Cardinality(Charged(s)) \in Nat
  BY ChargedFinite
<1>5. Cardinality(Charged(s) \cup {Len(s) + 1}) = Cardinality(Charged(s)) + 1
  BY <1>3, <1>4, FS_AddElement
<1>. QED BY <1>2, <1>4, <1>5

\* One append: the window holds, no charge is invented, and at most one is added.
LEMMA PublishFacts ==
    ASSUME payments \in Seq(Nonce \cup {Attempt}), Len(payments) <= Window,
           NEW x \in Nonce \cup {Attempt}, Publish(x)
    PROVE  /\ payments' \in Seq(Nonce \cup {Attempt}) /\ Len(payments') <= Window
           /\ \A i \in DOMAIN payments' :
                payments'[i] = x \/ \E j \in DOMAIN payments : payments'[i] = payments[j]
           /\ Spent' <= Spent + (IF x = Attempt THEN 0 ELSE 1)
           /\ Spent \in Nat /\ Spent' \in Nat
<1> DEFINE longer == Append(payments, x)
<1>1. /\ longer \in Seq(Nonce \cup {Attempt}) /\ longer # <<>>
      /\ Len(longer) = Len(payments) + 1
      /\ \A i \in 1..Len(longer) : longer[i] = IF i <= Len(payments) THEN payments[i] ELSE x
  OBVIOUS
<1>2. payments' = IF Len(longer) > Window THEN Tail(longer) ELSE longer
  BY DEF Publish
<1>3. Cardinality(Charged(longer)) = Spent + (IF x = Attempt THEN 0 ELSE 1)
  BY AppendCharged DEF Charged, Spent
<1> HIDE DEF longer
<1>4. /\ Tail(longer) \in Seq(Nonce \cup {Attempt})
      /\ Len(Tail(longer)) = Len(longer) - 1
      /\ \A i \in 1..Len(longer) - 1 : Tail(longer)[i] = longer[i + 1]
      /\ Cardinality(Charged(Tail(longer))) <= Cardinality(Charged(longer))
  BY <1>1, TailCharged
<1>5. payments' \in Seq(Nonce \cup {Attempt}) /\ Len(payments') <= Window
  BY <1>1, <1>2, <1>4, CapAssumption
<1>6. Spent \in Nat /\ Spent' \in Nat /\ Spent' = Cardinality(Charged(payments'))
  BY <1>5, ChargedFinite DEF Charged, Spent
<1>7. Spent' <= Cardinality(Charged(longer))
  BY <1>1, <1>2, <1>4, <1>6, ChargedFinite
<1>8. \A i \in DOMAIN payments' :
        payments'[i] = x \/ \E j \in DOMAIN payments : payments'[i] = payments[j]
  BY <1>1, <1>2, <1>4
<1>. QED BY <1>3, <1>5, <1>6, <1>7, <1>8

\* Each step of a charge keeps the bills in line with the ledger.
LEMMA RailStep ==
    ASSUME RailInv, NEW p \in Payer,
           \/ \E n \in Nonce, live \in BOOLEAN : Charge(p, n, live)
           \/ ReadLedger(p) \/ RecordAttempt(p) \/ RereadLedger(p)
           \/ AskProcessor(p) \/ Decline(p)
           \/ RecordCharge(p) \/ NoteOutcome(p) \/ Abandon(p)
    PROVE  RailInv'
<1>. /\ payments \in Seq(Nonce \cup {Attempt}) /\ Len(payments) <= Window
     /\ charge \in [Payer -> [at : At, nonce : Nonce \cup {Attempt}, live : BOOLEAN]]
     /\ bills \in [Nonce -> Nat] /\ BillingOK
  BY DEF RailInv, RailTypeOK
<1>0. recorded' \subseteq Nonce
  BY DEF RailInv, RailTypeOK, BillingOK, Charge, ReadLedger, RecordAttempt, RereadLedger,
         AskProcessor, Decline, RecordCharge, NoteOutcome, Abandon
<1>1. ASSUME NEW at \in At, Turn(p, at)
      PROVE  /\ charge' \in [Payer -> [at : At, nonce : Nonce \cup {Attempt}, live : BOOLEAN]]
             /\ charge'[p].at = at /\ charge'[p].nonce = charge[p].nonce
             /\ \A q \in Payer \ {p} : charge'[q] = charge[q]
  BY <1>1 DEF Turn
<1>2. ASSUME Leave(p)
      PROVE  /\ charge' \in [Payer -> [at : At, nonce : Nonce \cup {Attempt}, live : BOOLEAN]]
             /\ charge'[p].at = "away"
             /\ \A q \in Payer \ {p} : charge'[q] = charge[q]
  BY <1>2 DEF Leave, Gone, At
<1>3. ASSUME NEW x \in Nonce \cup {Attempt}, x # Attempt => x \in keys, Publish(x),
             UNCHANGED <<keys, bills>>,
             charge' \in [Payer -> [at : At, nonce : Nonce \cup {Attempt}, live : BOOLEAN]],
             charge'[p].at \in {"away", "reread"},
             charge'[p].at # "away" => charge'[p].nonce \in Nonce,
             \A q \in Payer \ {p} : charge'[q] = charge[q]
      PROVE  RailInv'
  <2>1. /\ payments' \in Seq(Nonce \cup {Attempt}) /\ Len(payments') <= Window
        /\ \A i \in DOMAIN payments' :
             payments'[i] = x \/ \E j \in DOMAIN payments : payments'[i] = payments[j]
    BY <1>3, PublishFacts
  <2>2. BillingOK'
    BY <1>3, <2>1 DEF BillingOK
  <2>. QED BY <1>0, <1>3, <2>1, <2>2 DEF RailInv, RailTypeOK
<1>4. ASSUME NEW n \in Nonce, NEW live \in BOOLEAN, Charge(p, n, live)
      PROVE  RailInv'
  <2>1. /\ charge' \in [Payer -> [at : At, nonce : Nonce \cup {Attempt}, live : BOOLEAN]]
        /\ charge'[p].at = "read" /\ charge'[p].nonce = n
        /\ \A q \in Payer \ {p} : charge'[q] = charge[q]
        /\ UNCHANGED <<payments, keys, bills>>
    BY <1>4 DEF Charge, At
  <2>. QED BY <1>0, <2>1 DEF RailInv, RailTypeOK, BillingOK
<1>5. CASE ReadLedger(p) \/ RereadLedger(p) \/ Decline(p)
  <2>1. /\ \E at \in {"attempt", "pay", "note"} : Turn(p, at)
        /\ charge[p].at # "away"
        /\ UNCHANGED <<payments, keys, bills>>
    BY <1>5 DEF ReadLedger, RereadLedger, Decline
  <2>2. /\ charge' \in [Payer -> [at : At, nonce : Nonce \cup {Attempt}, live : BOOLEAN]]
        /\ charge'[p].at # "record" /\ charge'[p].nonce = charge[p].nonce
        /\ \A q \in Payer \ {p} : charge'[q] = charge[q]
    BY <1>1, <2>1 DEF At
  <2>. QED BY <1>0, <2>1, <2>2 DEF RailInv, RailTypeOK, BillingOK
<1>6. CASE RecordAttempt(p)
  <2>1. charge[p].at = "attempt" /\ charge[p].nonce \in Nonce /\ UNCHANGED <<keys, bills>>
    BY <1>6 DEF RecordAttempt, BillingOK
  <2>2. CASE Publish(Attempt) /\ Turn(p, "reread")
    BY <1>1, <1>3, <2>1, <2>2 DEF At
  <2>3. CASE UNCHANGED payments /\ Leave(p)
    BY <1>0, <1>2, <2>1, <2>3 DEF RailInv, RailTypeOK, BillingOK
  <2>. QED BY <1>6, <2>2, <2>3 DEF RecordAttempt
<1>7. CASE AskProcessor(p)
  <2>1. /\ charge[p].at = "pay" /\ charge[p].nonce \in Nonce
        /\ keys' = keys \cup {charge[p].nonce}
        /\ bills' = IF charge[p].nonce \in keys THEN bills
                    ELSE [bills EXCEPT ![charge[p].nonce] = @ + 1]
        /\ \E next \in {"record", "note"} : Turn(p, next)
        /\ UNCHANGED payments
    BY <1>7 DEF AskProcessor, Key, BillingOK
  <2>2. /\ charge' \in [Payer -> [at : At, nonce : Nonce \cup {Attempt}, live : BOOLEAN]]
        /\ charge'[p].nonce = charge[p].nonce
        /\ \A q \in Payer \ {p} : charge'[q] = charge[q]
    BY <1>1, <2>1 DEF At
  <2>3. /\ bills' \in [Nonce -> Nat]
        /\ \A n \in Nonce : bills'[n] = IF n \in keys' THEN 1 ELSE 0
    BY <2>1 DEF BillingOK
  <2>. QED BY <1>0, <2>1, <2>2, <2>3 DEF RailInv, RailTypeOK, BillingOK
<1>8. CASE RecordCharge(p)
  <2>1. /\ charge[p].nonce \in Nonce /\ charge[p].nonce \in keys
        /\ Publish(charge[p].nonce) /\ Leave(p) /\ UNCHANGED <<keys, bills>>
    BY <1>8 DEF RecordCharge, BillingOK
  <2>. QED BY <1>2, <1>3, <2>1
<1>9. CASE NoteOutcome(p)
  BY <1>2, <1>3, <1>9 DEF NoteOutcome
<1>10. CASE Abandon(p)
  BY <1>0, <1>2, <1>10 DEF Abandon, RailInv, RailTypeOK, BillingOK
<1>. QED BY <1>4, <1>5, <1>6, <1>7, <1>8, <1>9, <1>10

\* The invariant of the rail holds in every state.
LEMMA RailInvariant == RailSpec => []RailInv
<1>1. RailInit => RailInv
  BY CapAssumption DEF RailInit, RailInv, RailTypeOK, BillingOK, Gone, At
<1>2. RailInv /\ [RailNext]_railVars => RailInv'
  <2>1. CASE UNCHANGED railVars
    BY <2>1 DEF railVars, RailInv, RailTypeOK, BillingOK
  <2>. QED BY <2>1, RailStep DEF RailNext
<1>. QED BY <1>1, <1>2, PTL DEF RailSpec

\* Money moves once for a mandate, whatever was lost between the processor and
\* the ledger, raced by another payer, or has left the window of the ledger.
THEOREM MandatesAreBilledOnce == RailSpec => []BilledOnce
<1>1. RailInv => BilledOnce
  BY AttemptAssumption DEF RailInv, RailTypeOK, BillingOK, BilledOnce, Prior, Charges
<1>. QED BY <1>1, RailInvariant, PTL

\* The payers that have been let through to the processor and not yet recorded.
Paying == {p \in Payer : charge[p].at \in {"pay", "record"}}

Committed == Spent + Cardinality(Paying) <= MaxDaily + Cardinality(Payer) - 1

\* One payer is let through, is let go, or stays as it is.
LEMMA PayingFacts ==
    ASSUME IsFiniteSet(Payer), NEW p \in Payer,
           \A q \in Payer \ {p} : charge'[q] = charge[q]
    PROVE  /\ Cardinality(Paying) \in Nat /\ Cardinality(Paying') \in Nat
           /\ Cardinality(Payer) \in Nat
           /\ charge[p].at \notin {"pay", "record"} =>
                Cardinality(Paying) <= Cardinality(Payer) - 1
           /\ charge'[p].at \notin {"pay", "record"} =>
                /\ Cardinality(Paying') <= Cardinality(Paying)
                /\ charge[p].at \in {"pay", "record"} =>
                     Cardinality(Paying') = Cardinality(Paying) - 1
           /\ Cardinality(Paying') <= Cardinality(Paying) + 1
           /\ charge[p].at \in {"pay", "record"} => Cardinality(Paying') <= Cardinality(Paying)
<1>1. /\ Paying \subseteq Payer /\ Paying' \subseteq Payer
      /\ IsFiniteSet(Paying) /\ IsFiniteSet(Paying')
  BY FS_Subset DEF Paying
<1>2. /\ Cardinality(Paying) \in Nat /\ Cardinality(Paying') \in Nat
      /\ Cardinality(Payer) \in Nat
  BY <1>1, FS_CardinalityType
<1>3. Paying' \ {p} = Paying \ {p}
  BY DEF Paying
<1>4. /\ Cardinality(Paying \ {p}) = IF p \in Paying THEN Cardinality(Paying) - 1
                                     ELSE Cardinality(Paying)
      /\ Cardinality(Paying' \ {p}) = IF p \in Paying' THEN Cardinality(Paying') - 1
                                      ELSE Cardinality(Paying')
      /\ Cardinality(Payer \ {p}) = Cardinality(Payer) - 1
      /\ IsFiniteSet(Payer \ {p})
  BY <1>1, FS_RemoveElement
<1>5. p \in Paying <=> charge[p].at \in {"pay", "record"}
  BY DEF Paying
<1>6. p \in Paying' <=> charge'[p].at \in {"pay", "record"}
  BY DEF Paying
<1>7. Cardinality(Paying \ {p}) <= Cardinality(Payer \ {p})
  BY <1>1, <1>4, FS_Subset
<1>8. /\ p \notin Paying => Cardinality(Paying) <= Cardinality(Payer) - 1
      /\ p \notin Paying' => /\ Cardinality(Paying') <= Cardinality(Paying)
                             /\ p \in Paying => Cardinality(Paying') = Cardinality(Paying) - 1
      /\ Cardinality(Paying') <= Cardinality(Paying) + 1
      /\ p \in Paying => Cardinality(Paying') <= Cardinality(Paying)
  <2> DEFINE d == Cardinality(Paying \ {p})
             e == Cardinality(Paying' \ {p})
             m == Cardinality(Paying)
             n == Cardinality(Paying')
             k == Cardinality(Payer)
  <2>1. d = e
    BY <1>3
  <2>2. /\ d = IF p \in Paying THEN Cardinality(Paying) - 1 ELSE Cardinality(Paying)
        /\ e = IF p \in Paying' THEN Cardinality(Paying') - 1 ELSE Cardinality(Paying')
        /\ d <= Cardinality(Payer) - 1
    BY <1>4, <1>7
  <2>3. m \in Nat /\ n \in Nat /\ k \in Nat
    BY <1>2
  <2>4. /\ p \in Paying => d = m - 1
        /\ p \notin Paying => d = m
        /\ p \in Paying' => d = n - 1
        /\ p \notin Paying' => d = n
        /\ d <= k - 1
    BY <2>1, <2>2
  <2> HIDE DEF d, e, m, n, k
  <2>5. /\ p \notin Paying => m <= k - 1
        /\ p \notin Paying' => n <= m
        /\ p \notin Paying' /\ p \in Paying => n = m - 1
        /\ n <= m + 1
        /\ p \in Paying => n <= m
    BY <2>3, <2>4
  <2>. QED BY <2>5 DEF m, n, k
<1>. QED BY <1>2, <1>5, <1>6, <1>8

\* Each step of a charge keeps what is spent and under way within the bound.
LEMMA CommittedStep ==
    ASSUME IsFiniteSet(Payer), RailInv, Committed, NEW p \in Payer,
           \/ \E n \in Nonce, live \in BOOLEAN : Charge(p, n, live)
           \/ ReadLedger(p) \/ RecordAttempt(p) \/ RereadLedger(p)
           \/ AskProcessor(p) \/ Decline(p)
           \/ RecordCharge(p) \/ NoteOutcome(p) \/ Abandon(p)
    PROVE  Committed'
<1>. /\ payments \in Seq(Nonce \cup {Attempt}) /\ Len(payments) <= Window
     /\ charge \in [Payer -> [at : At, nonce : Nonce \cup {Attempt}, live : BOOLEAN]]
     /\ BillingOK /\ MaxDaily \in Nat
  BY CapAssumption DEF RailInv, RailTypeOK
<1>0. Spent \in Nat
  BY ChargedFinite DEF Spent, Charged
<1>1. UNCHANGED payments => Spent' = Spent
  BY DEF Spent
<1>2. ASSUME NEW at, Turn(p, at)
      PROVE  /\ charge'[p].at = at
             /\ \A q \in Payer \ {p} : charge'[q] = charge[q]
  BY <1>2 DEF Turn
<1>3. ASSUME Leave(p)
      PROVE  /\ charge'[p].at \notin {"pay", "record"}
             /\ \A q \in Payer \ {p} : charge'[q] = charge[q]
  BY <1>3 DEF Leave, Gone
\* The ledger was read with room in it for one more.
<1>4. CASE CapAllows /\ UNCHANGED payments /\ Turn(p, "pay")
           /\ charge[p].at \notin {"pay", "record"}
  <2>1. Cardinality(Paying') <= Cardinality(Payer)
    BY <1>2, <1>4, PayingFacts
  <2>2. Spent + 1 <= MaxDaily
    BY <1>4 DEF CapAllows
  <2>. QED BY <1>0, <1>1, <1>2, <1>4, <2>1, <2>2, PayingFacts DEF Committed
\* A charge moves from those under way into the ledger.
<1>5. CASE RecordCharge(p)
  <2>1. Spent' <= Spent + 1 /\ Spent' \in Nat
    BY <1>5, PublishFacts DEF RecordCharge
  <2>2. Cardinality(Paying') = Cardinality(Paying) - 1
    BY <1>3, <1>5, PayingFacts DEF RecordCharge
  <2>. QED BY <1>0, <1>3, <1>5, <2>1, <2>2, PayingFacts DEF Committed, RecordCharge
<1>6. ASSUME Spent' \in Nat, Spent' <= Spent,
             \A q \in Payer \ {p} : charge'[q] = charge[q],
             \/ charge'[p].at \notin {"pay", "record"}
             \/ charge[p].at \in {"pay", "record"}
      PROVE  Committed'
  <2>1. /\ Cardinality(Paying') <= Cardinality(Paying)
        /\ Cardinality(Paying) \in Nat /\ Cardinality(Paying') \in Nat
        /\ Cardinality(Payer) \in Nat
    BY <1>6, PayingFacts
  <2>. QED BY <1>0, <1>6, <2>1 DEF Committed
<1>7. CASE \E n \in Nonce, live \in BOOLEAN : Charge(p, n, live)
  BY <1>0, <1>1, <1>6, <1>7 DEF Charge
<1>8. CASE (ReadLedger(p) \/ RereadLedger(p) \/ Decline(p))
           /\ \E at \in {"attempt", "note"} : Turn(p, at)
  BY <1>0, <1>1, <1>2, <1>6, <1>8 DEF ReadLedger, RereadLedger, Decline
<1>9. CASE RecordAttempt(p) \/ NoteOutcome(p)
  <2>1. UNCHANGED payments \/ Publish(Attempt)
    BY <1>9 DEF RecordAttempt, NoteOutcome
  <2>2. Spent' \in Nat /\ Spent' <= Spent
    BY <1>0, <1>1, <2>1, PublishFacts
  <2>3. Turn(p, "reread") \/ Leave(p)
    BY <1>9 DEF RecordAttempt, NoteOutcome
  <2>. QED BY <1>2, <1>3, <1>6, <2>2, <2>3
<1>10. CASE AskProcessor(p)
  BY <1>0, <1>1, <1>2, <1>6, <1>10 DEF AskProcessor
<1>11. CASE Abandon(p)
  BY <1>0, <1>1, <1>3, <1>6, <1>11 DEF Abandon
<1>. QED BY <1>4, <1>5, <1>7, <1>8, <1>9, <1>10, <1>11 DEF ReadLedger, RereadLedger, Decline

\* What is drawn from so many places is no more than they are.
LEMMA DrawnAreFew ==
    ASSUME NEW S, IsFiniteSet(S), NEW f, f \in [S -> {f[x] : x \in S}]
    PROVE  /\ IsFiniteSet({f[x] : x \in S})
           /\ Cardinality({f[x] : x \in S}) <= Cardinality(S)
<1>1. f \in Surjection(S, {f[x] : x \in S})
  BY DEF Surjection
<1>. QED BY <1>1, FS_Surjection

\* A union of two finite sets has no more than they have together.
LEMMA UnionIsNoMore ==
    ASSUME NEW A, IsFiniteSet(A), NEW B, IsFiniteSet(B)
    PROVE  /\ IsFiniteSet(A \cup B)
           /\ Cardinality(A \cup B) <= Cardinality(A) + Cardinality(B)
           /\ Cardinality(A) \in Nat /\ Cardinality(B) \in Nat /\ Cardinality(A \cup B) \in Nat
<1>1. IsFiniteSet(A \cap B) /\ Cardinality(A \cap B) \in Nat
  BY FS_Subset, FS_CardinalityType, Zenon
<1>2. /\ IsFiniteSet(A \cup B)
      /\ Cardinality(A \cup B) = Cardinality(A) + Cardinality(B) - Cardinality(A \cap B)
  BY FS_Union, Zenon
<1>3. Cardinality(A) \in Nat /\ Cardinality(B) \in Nat /\ Cardinality(A \cup B) \in Nat
  BY <1>2, FS_CardinalityType, Zenon
<1>. QED BY <1>1, <1>2, <1>3

\* What was billed is in the ledger, about to be recorded, or forgotten.
LEMMA BilledIsSomewhere ==
    ASSUME RailInv, IsFiniteSet(keys), IsFiniteSet(Payer)
    PROVE  /\ Cardinality(Billed) <= Spent + Cardinality(Paying) + Cardinality(Forgotten)
           /\ Cardinality(Billed) \in Nat /\ Cardinality(Forgotten) \in Nat
<1> DEFINE S == Charged(payments)
           R == {p \in Payer : charge[p].at = "record"}
           inLedger == [i \in S |-> payments[i]]
           inHand == [p \in R |-> charge[p].nonce]
           A == {inLedger[i] : i \in S}
           B == {inHand[p] : p \in R}
<1>1. IsFiniteSet(S) /\ Cardinality(S) = Spent /\ Cardinality(S) \in Nat
  BY ChargedFinite DEF RailInv, RailTypeOK, Spent, Charged
<1>2. R \subseteq Paying /\ IsFiniteSet(Paying)
  BY FS_Subset DEF Paying
<1>3. /\ IsFiniteSet(R) /\ Cardinality(R) <= Cardinality(Paying)
      /\ Cardinality(R) \in Nat /\ Cardinality(Paying) \in Nat
  <2> HIDE DEF R
  <2>. QED BY <1>2, FS_Subset, FS_CardinalityType
<1>4. IsFiniteSet(Billed) /\ IsFiniteSet(Forgotten)
  <2>1. Billed \subseteq keys /\ Forgotten \subseteq Billed
    BY DEF RailInv, BillingOK, Billed, Forgotten
  <2>. QED BY <2>1, FS_Subset
<1>5. Billed \subseteq (A \cup B) \cup Forgotten
  <2> SUFFICES ASSUME NEW n \in Billed, n \notin Forgotten PROVE n \in A \cup B
    OBVIOUS
  <2>1. CASE Prior(n)
    <3>1. PICK i \in DOMAIN payments : payments[i] = n
      BY <2>1 DEF Prior, Charges
    <3>2. i \in S
      BY <3>1, AttemptAssumption DEF Billed, Charged
    <3>. QED BY <3>1, <3>2
  <2>2. CASE ~Prior(n)
    BY <2>2 DEF Forgotten
  <2>. QED BY <2>1, <2>2
<1>6. IsFiniteSet(A) /\ Cardinality(A) <= Cardinality(S)
  <2>1. inLedger \in [S -> A]
    OBVIOUS
  <2> HIDE DEF S, inLedger
  <2>. QED BY <1>1, <2>1, DrawnAreFew
<1>7. IsFiniteSet(B) /\ Cardinality(B) <= Cardinality(R)
  <2>1. inHand \in [R -> B]
    OBVIOUS
  <2> HIDE DEF R, inHand
  <2>. QED BY <1>3, <2>1, DrawnAreFew
<1> HIDE DEF S, R, inLedger, inHand, A, B
<1>8. /\ IsFiniteSet(A \cup B) /\ Cardinality(A \cup B) <= Cardinality(A) + Cardinality(B)
      /\ Cardinality(A) \in Nat /\ Cardinality(B) \in Nat /\ Cardinality(A \cup B) \in Nat
  BY <1>6, <1>7, UnionIsNoMore
<1>9. /\ IsFiniteSet((A \cup B) \cup Forgotten)
      /\ Cardinality((A \cup B) \cup Forgotten) <= Cardinality(A \cup B) + Cardinality(Forgotten)
      /\ Cardinality(Forgotten) \in Nat /\ Cardinality((A \cup B) \cup Forgotten) \in Nat
  BY <1>4, <1>8, UnionIsNoMore
<1>10. /\ Cardinality(Billed) <= Cardinality((A \cup B) \cup Forgotten)
       /\ Cardinality(Billed) \in Nat
  BY <1>4, <1>5, <1>9, FS_Subset, FS_CardinalityType
<1>. QED BY <1>1, <1>3, <1>6, <1>7, <1>8, <1>9, <1>10

\* What the processor billed in the day exceeds the cap by the charges the ledger has
\* forgotten, answers and records lost or trimmed, and beyond these by less than one
\* for each payer there is: what is decided on one reading is all that can still be
\* added to what the ledger shows.
THEOREM OvershootIsBounded ==
    ASSUME IsFiniteSet(Payer), Payer # {}
    PROVE  RailSpec => []OvershootBounded
<1>1. RailInit => Committed
  <2>1. SUFFICES ASSUME RailInit PROVE Committed
    OBVIOUS
  <2>2. Paying = {} /\ Charged(payments) = {}
    BY <2>1 DEF RailInit, Paying, Gone, Charged
  <2>3. Spent = 0 /\ Cardinality(Paying) = 0
    BY <2>2, FS_EmptySet DEF Spent, Charged
  <2>4. Cardinality(Payer) \in Nat /\ Cardinality(Payer) # 0
    BY FS_EmptySet, FS_CardinalityType
  <2>. QED BY <2>3, <2>4, CapAssumption DEF Committed
<1>2. RailInv /\ Committed /\ [RailNext]_railVars => Committed'
  <2>1. CASE UNCHANGED railVars
    BY <2>1 DEF railVars, Committed, Spent, Paying
  <2>. QED BY <2>1, CommittedStep DEF RailNext
<1>3. RailInit => IsFiniteSet(keys)
  BY FS_EmptySet DEF RailInit
<1>4. IsFiniteSet(keys) /\ [RailNext]_railVars => IsFiniteSet(keys)'
  <2> SUFFICES ASSUME IsFiniteSet(keys), [RailNext]_railVars PROVE IsFiniteSet(keys)'
    OBVIOUS
  <2>1. keys' = keys \/ \E p \in Payer : keys' = keys \cup {Key(p)}
    BY DEF RailNext, railVars, Charge, ReadLedger, RecordAttempt, RereadLedger, AskProcessor,
           Decline, RecordCharge, NoteOutcome, Abandon
  <2>. QED BY <2>1, FS_AddElement
<1>5. RailInv /\ Committed /\ IsFiniteSet(keys) => OvershootBounded
  <2>1. SUFFICES ASSUME RailInv, Committed, IsFiniteSet(keys) PROVE OvershootBounded
    OBVIOUS
  <2>2. Spent \in Nat
    BY <2>1, ChargedFinite DEF RailInv, RailTypeOK, Spent, Charged
  <2>3. Cardinality(Paying) \in Nat /\ Cardinality(Payer) \in Nat
    BY FS_Subset, FS_CardinalityType DEF Paying
  <2>4. /\ Cardinality(Billed) <= Spent + Cardinality(Paying) + Cardinality(Forgotten)
        /\ Cardinality(Billed) \in Nat /\ Cardinality(Forgotten) \in Nat
    BY <2>1, BilledIsSomewhere
  <2>. QED BY <2>1, <2>2, <2>3, <2>4, CapAssumption DEF Committed, OvershootBounded
<1>. QED BY <1>1, <1>2, <1>3, <1>4, <1>5, RailInvariant, PTL DEF RailSpec
=============================================================================
