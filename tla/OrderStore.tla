----------------------------- MODULE OrderStore -----------------------------
(***************************************************************************)
(* The durable order book of the trading domain (olympus/trading/oms.py).  *)
(*                                                                         *)
(* One record per client_order_id, a status moved along a table of legal   *)
(* transitions, and the fills booked against it.  Every mutation is a      *)
(* read-modify-write under the lock of that order and is written through   *)
(* before it returns, so each operation below is one atomic step; the two  *)
(* puts of record_fill are kept apart only where a crash can separate them.*)
(***************************************************************************)
EXTENDS Integers, FiniteSets

CONSTANTS
    Order,      \* client_order_ids: each a pure function of one authorisation
    Quantity,   \* the approved quantity of an order, in lots
    None        \* "nothing in hand"

ASSUME QuantityAssumption == Quantity \in Nat \ {0}

VARIABLES
    orders,     \* namespace trading.orders: the record of every order id
    fillIndex   \* namespace trading.fills: the fills found by fill_id alone

storeVars == <<orders, fillIndex>>

-----------------------------------------------------------------------------
(* Statuses and fills *)

Absent == "ABSENT"

Terminal == {"FILLED", "CANCELED", "REJECTED", "EXPIRED"}

Status == {"PENDING_NEW", "NEW", "PARTIALLY_FILLED", "PENDING_CANCEL"} \cup Terminal

\* A fill is identified by the order it belongs to and its place in that
\* order's fills (the venue's fill_id); its instrument and side are its order's.
Fill == [order : Order, nr : 1..Quantity, qty : 1..Quantity]

OrderRecord == [status : Status \cup {Absent}, filled : 0..Quantity,
                fills : SUBSET Fill, shadow : BOOLEAN]

NoRecord == [status |-> Absent, filled |-> 0, fills |-> {}, shadow |-> FALSE]

NewRecord(shadow) ==
    [status |-> "PENDING_NEW", filled |-> 0, fills |-> {}, shadow |-> shadow]

IsOpen(o) == orders[o].status \notin Terminal \cup {Absent}

OpenOrders == {o \in Order : IsOpen(o)}

-----------------------------------------------------------------------------
(* The transition table *)

\* Mutant: a redelivered acknowledgement may follow a partial fill.
LegalTransitionsBackToNew ==
    [s \in Status |->
        CASE s = "PENDING_NEW" -> {"NEW", "PARTIALLY_FILLED"} \cup Terminal
          [] s = "NEW" -> {"PARTIALLY_FILLED", "PENDING_CANCEL"} \cup Terminal
          [] s = "PARTIALLY_FILLED" ->
                {"NEW", "FILLED", "PENDING_CANCEL", "CANCELED", "EXPIRED"}
          [] s = "PENDING_CANCEL" -> {"CANCELED", "FILLED", "PARTIALLY_FILLED", "EXPIRED"}
          [] OTHER -> {}]

\* Mutant: a cancelled order accepts the fills that crossed its cancellation.
LegalTransitionsLateFill ==
    [s \in Status |->
        CASE s = "PENDING_NEW" -> {"NEW", "PARTIALLY_FILLED"} \cup Terminal
          [] s = "NEW" -> {"PARTIALLY_FILLED", "PENDING_CANCEL"} \cup Terminal
          [] s = "PARTIALLY_FILLED" -> {"FILLED", "PENDING_CANCEL", "CANCELED", "EXPIRED"}
          [] s \in {"PENDING_CANCEL", "CANCELED"} ->
                {"CANCELED", "FILLED", "PARTIALLY_FILLED", "EXPIRED"}
          [] OTHER -> {}]

LegalTransitions ==
    [s \in Status |->
        CASE s = "PENDING_NEW" -> {"NEW", "PARTIALLY_FILLED"} \cup Terminal
          [] s = "NEW" -> {"PARTIALLY_FILLED", "PENDING_CANCEL"} \cup Terminal
          [] s = "PARTIALLY_FILLED" ->
                {"PARTIALLY_FILLED", "FILLED", "PENDING_CANCEL", "CANCELED", "EXPIRED"}
          [] s = "PENDING_CANCEL" -> {"CANCELED", "FILLED", "PARTIALLY_FILLED", "EXPIRED"}
          [] OTHER -> {}]

\* transition() re-asserts the current status or follows the table.
MayMove(o, s) ==
    /\ orders[o].status # Absent
    /\ s = orders[o].status \/ s \in LegalTransitions[orders[o].status]

-----------------------------------------------------------------------------
(* Operations: each is the effect of one call that returns without raising *)

\* Mutant: the existing record is not looked for.
CreateOrderAnyway(o, shadow) ==
    orders' = [orders EXCEPT ![o] = NewRecord(shadow)]

\* create(), the "created" branch of get_or_create().
CreateOrder(o, shadow) ==
    /\ orders[o].status = Absent
    /\ orders' = [orders EXCEPT ![o] = NewRecord(shadow)]

\* transition()
MoveOrder(o, s) ==
    /\ MayMove(o, s)
    /\ orders' = [orders EXCEPT ![o].status = s]

\* Mutant: redelivery is not recognised.
IsRedeliveryNever(f) == FALSE

\* A fill already among the order's own fills is a redelivery.
IsRedelivery(f) == f \in orders[f.order].fills

StatusAfter(total) == IF total = Quantity THEN "FILLED" ELSE "PARTIALLY_FILLED"

\* record_fill() accepts the fill: it fits, and the status it implies is legal.
MayBook(f) ==
    LET total == orders[f.order].filled + f.qty
    IN  /\ ~IsRedelivery(f)
        /\ total <= Quantity
        /\ MayMove(f.order, StatusAfter(total))

\* The put of the order record ...
BookFill(f) ==
    LET total == orders[f.order].filled + f.qty
    IN  orders' = [orders EXCEPT ![f.order].filled = total,
                                 ![f.order].fills = @ \cup {f},
                                 ![f.order].status = StatusAfter(total)]

\* ... and the put of the fill under its own id, second.
IndexFill(f) == fillIndex' = fillIndex \cup {f}

-----------------------------------------------------------------------------

StoreInit ==
    /\ orders = [o \in Order |-> NoRecord]
    /\ fillIndex = {}

StoreTypeOK ==
    /\ orders \in [Order -> OrderRecord]
    /\ fillIndex \subseteq Fill
=============================================================================
