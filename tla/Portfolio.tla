------------------------------ MODULE Portfolio ------------------------------
(***************************************************************************)
(* The in-memory portfolio (olympus/trading/portfolio.py): a position and  *)
(* the fill ids already applied to it.  apply_fill() first reads the set   *)
(* of applied ids and then adds to it, with no lock, so the two halves are *)
(* steps of their own.  All orders are in one instrument, so there is one  *)
(* position, and sales can bring it below nought.  The prices, cash, fees  *)
(* and marks it also keeps are functions of the same applied fills and are *)
(* left out.                                                               *)
(***************************************************************************)
EXTENDS Integers

CONSTANT Sale       \* the orders that sell; the others buy

VARIABLES
    applied,    \* _applied_fills
    position    \* the quantity held; what is sold short counts negative

portfolioVars == <<applied, position>>

\* Mutant: idempotent by order instead of by fill.
IsAppliedByOrder(f) == \E g \in applied : g.order = f.order

\* Mutant: not idempotent at all.
IsAppliedNever(f) == FALSE

\* The quantity of a fill with the sign of its side.
Signed(f) == IF f.order \in Sale THEN -f.qty ELSE f.qty

\* The early return of apply_fill().
IsApplied(f) == f \in applied

\* The rest of apply_fill().
ApplyFill(f) ==
    /\ applied' = applied \cup {f}
    /\ position' = position + Signed(f)

\* save() is called by nothing in the program, so a restarted process starts
\* from an empty portfolio.
LosePortfolio ==
    /\ applied' = {}
    /\ position' = 0

PortfolioInit ==
    /\ applied = {}
    /\ position = 0
=============================================================================
