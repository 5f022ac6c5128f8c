--------------------------- MODULE OrderLifecycle ---------------------------
(***************************************************************************)
(* What the trading domain promises of one authorisation, whatever the     *)
(* venue, the threads and the crashes do: it is opened once, its booked    *)
(* quantity only grows and never passes what was approved, and once closed *)
(* it stays closed.  After its close the book may still learn of the       *)
(* execution that completes it, and of nothing less.                       *)
(***************************************************************************)
EXTENDS Integers

CONSTANTS Order, Quantity

VARIABLES
    life,       \* "none", "open" or "closed"
    booked      \* the quantity the order book has for it

lifecycleVars == <<life, booked>>

Init ==
    /\ life = [o \in Order |-> "none"]
    /\ booked = [o \in Order |-> 0]

Open(o) ==
    /\ life[o] = "none"
    /\ life' = [life EXCEPT ![o] = "open"]
    /\ UNCHANGED booked

Close(o) ==
    /\ life[o] = "open"
    /\ life' = [life EXCEPT ![o] = "closed"]
    /\ UNCHANGED booked

\* Booking the last lot closes the order.
Book(o) ==
    /\ life[o] = "open"
    /\ \E q \in 1..(Quantity - booked[o]) :
        /\ booked' = [booked EXCEPT ![o] = @ + q]
        /\ life' = [life EXCEPT ![o] = IF booked[o] + q = Quantity THEN "closed" ELSE @]

\* A closed order learns of the execution that completes it.
Complete(o) ==
    /\ life[o] = "closed"
    /\ booked' = [booked EXCEPT ![o] = Quantity]
    /\ UNCHANGED life

Next == \E o \in Order : Open(o) \/ Close(o) \/ Book(o) \/ Complete(o)

Spec == Init /\ [][Next]_lifecycleVars
=============================================================================
