------------------------------ MODULE Reconciler ------------------------------
(***************************************************************************)
(* The reconciler (olympus/trading/reconcile.py) over the engine's book,   *)
(* portfolio and venue.  One pass asks the venue for its open orders, its  *)
(* fills, its positions and its account, one after the other, while the    *)
(* venue trades on and submitters execute; it adopts statuses and fills,   *)
(* never positions, and moves last_success only if it found nothing wrong. *)
(* It runs in a worker's thread, between that worker's other calls, and    *)
(* its loop over the fills is poll()'s: the engine's steps are used.       *)
(*                                                                         *)
(* Positions are compared in one instrument, whole lots exactly.  Prices   *)
(* are left out, so the comparison of the cash may find anything.  The     *)
(* report and its audit are left out too, and the trip a pass with a break *)
(* ends in is TradingGate's.                                               *)
(***************************************************************************)
EXTENDS ExecutionEngine

VARIABLES
    recon,      \* the pass under way
    vouched,    \* history: the executions the venue had when the last clean pass began
    offset      \* history: those the portfolio missed as that pass compared positions

reconVars == <<recon, vouched, offset>>
lastClean == <<vouched, offset>>

ReconAt == {"idle", "remote", "local", "visit", "lookup", "fills", "booking",
            "positions", "cash", "report"}

\* "theirs" and "ours" are the open orders as each side listed them, until they
\* are visited; "broken" is a break or an error; "before" and "missed" are history.
NoPass == [at |-> "idle", by |-> None, theirs |-> {}, ours |-> {}, found |-> None,
           broken |-> FALSE, before |-> {}, missed |-> {}]

Recon(at) == recon' = [recon EXCEPT !.at = at]
ReconBroken(at) == recon' = [recon EXCEPT !.at = at, !.broken = TRUE]

\* What a step of the pass that writes nothing leaves alone.
Asking == UNCHANGED <<vars, lastClean>>

\* The position of the venue: what its orders bought less what they sold.
Traded == MapThenSumSet(LAMBDA o : IF o \in Sale THEN -venue[o].filled ELSE venue[o].filled,
                        Order)

\* Mutant: only the instruments held here are compared.
AgreesWhereHeld == position = 0 \/ position = Traded

\* _reconcile_positions() finds no difference between the two net quantities.
Agrees == position = Traded

-----------------------------------------------------------------------------

Reconcile(w) ==
    /\ recon = NoPass /\ pc[w] = "idle"
    /\ recon' = [NoPass EXCEPT !.at = "remote", !.by = w, !.before = VenueFills]
    /\ Asking

\* get_open_orders(), or it fails and the orders are not compared.
ReadRemote ==
    /\ recon.at = "remote"
    /\ \/ recon' = [recon EXCEPT !.at = "local",
              !.theirs = {[order |-> o, status |-> venue[o].status] :
                              o \in {p \in Order : WorkingAtVenue(p)}}]
       \/ ReconBroken("fills")
    /\ Asking

ReadLocal ==
    /\ recon.at = "local"
    /\ recon' = [recon EXCEPT !.at = "visit", !.ours = OpenSnapshot]
    /\ Asking

\* What the pass takes for our status of an order the venue listed.
OurStatus(o) ==
    LET listed == {x \in recon.ours : x.order = o}
    IN  IF listed = {} THEN orders[o].status ELSE (CHOOSE x \in listed : TRUE).status

\* _adopt_status(): the venue's status, or a break if it cannot follow ours.
ReconAdopt(o, s, done) ==
    /\ TryMove(o, s)
    /\ recon' = [done EXCEPT !.broken = @ \/ ~MayMove(o, s)]

\* An order the venue has open: unknown to us, as we have it, or adopted.
VisitTheirs ==
    /\ recon.at = "visit"
    /\ \E x \in recon.theirs :
        LET ours == OurStatus(x.order)
            done == [recon EXCEPT !.theirs = @ \ {x},
                                  !.ours = {y \in @ : y.order # x.order}]
        IN  IF ours = Absent
            THEN recon' = [done EXCEPT !.broken = TRUE] /\ UNCHANGED orders
            ELSE IF ours = x.status
            THEN recon' = done /\ UNCHANGED orders
            ELSE ReconAdopt(x.order, x.status, done)
    /\ UNCHANGED <<fillIndex, venue, portfolioVars, threadVars, crashes, lastClean>>

\* An order only we have open is looked up at the venue: it does not answer, it
\* does not know the order, it agrees, or the order is to be adopted.
VisitOurs ==
    /\ recon.at = "visit" /\ recon.theirs = {}
    /\ \E x \in recon.ours :
        LET done == [recon EXCEPT !.ours = @ \ {x}]
            there == venue[x.order].status
        IN  \/ recon' = [done EXCEPT !.broken = TRUE]
            \/ there = Absent /\ recon' = [done EXCEPT !.broken = TRUE]
            \/ there = x.status /\ recon' = done
            \/ /\ there \notin {Absent, x.status}
               /\ recon' = [done EXCEPT !.at = "lookup",
                                        !.found = [order |-> x.order, status |-> there]]
    /\ Asking

AdoptOurs ==
    /\ recon.at = "lookup"
    /\ ReconAdopt(recon.found.order, recon.found.status,
                  [recon EXCEPT !.at = "visit", !.found = None])
    /\ UNCHANGED <<fillIndex, venue, portfolioVars, threadVars, crashes, lastClean>>

OrdersDone ==
    /\ recon.at = "visit" /\ recon.theirs = {} /\ recon.ours = {}
    /\ Recon("fills")
    /\ Asking

\* _adopt_fills(): get_fills() answers, or fails.
ReadFills ==
    /\ recon.at = "fills"
    /\ \/ /\ Recon("booking")
          /\ todo' = [todo EXCEPT ![recon.by] = VenueFills]
          /\ Goto(recon.by, "fills")
       \/ ReconBroken("positions") /\ UNCHANGED <<todo, pc>>
    /\ UNCHANGED <<storeVars, venue, portfolioVars, job, answer, left, task, scan, hand,
                   crashes, lastClean>>

\* Each fill that is not stored is recorded and applied, or passed over.
AdoptFill ==
    /\ recon.at = "booking"
    /\ LET w == recon.by IN TakeFill(w) \/ RecordFill(w) \/ CheckApplied(w) \/ AddFill(w)
    /\ UNCHANGED reconVars

FillsAdopted ==
    /\ recon.at = "booking"
    /\ pc[recon.by] = "fills" /\ todo[recon.by] = {}
    /\ Goto(recon.by, "idle")
    /\ Recon("positions")
    /\ UNCHANGED <<storeVars, venue, portfolioVars, job, answer, left, task, scan, todo, hand,
                   crashes, lastClean>>

\* get_positions(): a difference, or no answer, is noted.
ComparePositions ==
    /\ recon.at = "positions"
    /\ \/ /\ Agrees
          /\ recon' = [recon EXCEPT !.at = "cash", !.missed = VenueFills \ applied]
       \/ ReconBroken("cash")
    /\ Asking

\* get_account(): what was bought and sold at other prices leaves a difference in
\* the cash where there is none in the position, or the other way round.
CompareCash ==
    /\ recon.at = "cash"
    /\ Recon("report") \/ ReconBroken("report")
    /\ Asking

\* _persist(): last_success moves on a clean pass only.
Report ==
    /\ recon.at = "report"
    /\ IF recon.broken
       THEN UNCHANGED lastClean
       ELSE vouched' = recon.before /\ offset' = recon.missed
    /\ recon' = NoPass
    /\ UNCHANGED vars

-----------------------------------------------------------------------------

ReconStep ==
    \/ \E w \in Worker : Reconcile(w)
    \/ ReadRemote \/ ReadLocal \/ VisitTheirs \/ VisitOurs \/ AdoptOurs \/ OrdersDone
    \/ ReadFills \/ AdoptFill \/ FillsAdopted
    \/ ComparePositions \/ CompareCash \/ Report

\* The engine goes on around a pass, but for the worker that is in it.
EngineStep ==
    /\ \/ \E s \in Submitter : SubmitterStep(s)
       \/ \E w \in Worker \ {recon.by} : WorkerStep(w)
       \/ VenueMoves
    /\ UNCHANGED reconVars

\* The process restarts: the pass is gone, and nothing is vouched for in the
\* new portfolio.
ReconCrash ==
    /\ Crash
    /\ recon' = NoPass /\ vouched' = {} /\ offset' = {}

ReconInit == Init /\ recon = NoPass /\ vouched = {} /\ offset = {}

ReconNext == ReconStep \/ EngineStep \/ ReconCrash

ReconSpec == ReconInit /\ [][ReconNext]_<<vars, reconVars>>

-----------------------------------------------------------------------------
(* Properties *)

\* A pass is one of reconcile()'s, and no two are under way in one thread.
ReconTypeOK ==
    /\ recon \in [at : ReconAt, by : Worker \cup {None},
                  theirs : SUBSET Snapshot, ours : SUBSET Snapshot,
                  found : Snapshot \cup {None}, broken : BOOLEAN, before : SUBSET Fill,
                  missed : SUBSET Fill]
    /\ vouched \subseteq Fill /\ offset \subseteq Fill

\* What the fills add to a position, bought less sold.
Net(fills) == MapThenSumSet(Signed, fills)

\* What a clean pass vouches for, as far as net quantities can tell: an execution
\* the venue had when the pass began is in the portfolio of the process, or it is
\* one of those that cancelled out, bought against sold, as the positions were
\* compared; in whatever order statuses, fills and positions were read from a venue
\* that traded on, and whichever fills the book refused or a restart lost
\* (last_success is what risk goes by).
CleanPassIsCaughtUp == vouched \ applied \subseteq offset /\ Net(offset) = 0
=============================================================================
