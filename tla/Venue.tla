-------------------------------- MODULE Venue --------------------------------
(***************************************************************************)
(* What a broker adapter shows of the venue behind it                      *)
(* (olympus/trading/brokers/paper.py, binance_testnet.py): the orders it   *)
(* holds by client_order_id, their statuses and their executions.          *)
(* The id is idempotent: a second submission of an id the venue holds      *)
(* returns the order it holds.                                             *)
(***************************************************************************)
EXTENDS OrderStore

VARIABLE venue      \* the venue's orders: status, quantity filled, executions

VenueRecord == [status : (Status \ {"PENDING_NEW"}) \cup {Absent},
                filled : 0..Quantity, fills : SUBSET Fill]

NotAtVenue == [status |-> Absent, filled |-> 0, fills |-> {}]

AtVenue(o) == venue[o].status # Absent

WorkingAtVenue(o) == venue[o].status \in {"NEW", "PARTIALLY_FILLED", "PENDING_CANCEL"}

VenueFills == UNION {venue[o].fills : o \in Order}

-----------------------------------------------------------------------------

\* submit_order() reaches the venue: accepted, rejected, or already there.
Accept(o) ==
    IF AtVenue(o)
    THEN UNCHANGED venue
    ELSE \E s \in {"NEW", "REJECTED"} :
            venue' = [venue EXCEPT ![o] = [NotAtVenue EXCEPT !.status = s]]

\* The market trades q lots against the order.
Trade(o) ==
    /\ WorkingAtVenue(o)
    /\ \E q \in 1..(Quantity - venue[o].filled) :
        LET f == [order |-> o, nr |-> Cardinality(venue[o].fills) + 1, qty |-> q]
            total == venue[o].filled + q
        IN  venue' = [venue EXCEPT ![o] =
                [status |-> StatusAfter(total), filled |-> total, fills |-> @.fills \cup {f}]]

\* An immediate-or-cancel or fill-or-kill remainder lapses.
Expire(o) ==
    /\ WorkingAtVenue(o)
    /\ venue' = [venue EXCEPT ![o].status = "EXPIRED"]

\* cancel_order() reaches the venue: done at once, taken in hand, or too late.
Cancel(o) ==
    IF WorkingAtVenue(o)
    THEN \E s \in {"CANCELED", "PENDING_CANCEL"} : venue' = [venue EXCEPT ![o].status = s]
    ELSE UNCHANGED venue

\* A cancellation taken in hand completes.
ConfirmCancel(o) ==
    /\ venue[o].status = "PENDING_CANCEL"
    /\ venue' = [venue EXCEPT ![o].status = "CANCELED"]

VenueStep == \E o \in Order : Trade(o) \/ Expire(o) \/ ConfirmCancel(o)

VenueInit == venue = [o \in Order |-> NotAtVenue]

VenueTypeOK == venue \in [Order -> VenueRecord]
=============================================================================
