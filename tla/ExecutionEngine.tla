--------------------------- MODULE ExecutionEngine ---------------------------
(***************************************************************************)
(* The execution engine (olympus/trading/execution.py) between the durable *)
(* order book, the in-memory portfolio and a venue it cannot trust to      *)
(* answer.  Submitters run execute(); workers run poll(), recover() and    *)
(* cancel_stale_orders().  Each call is a program of several steps: one    *)
(* venue request, one locked update of the order book, or one half of      *)
(* apply_fill(), and the steps of all threads interleave.  A crash loses   *)
(* every thread and the portfolio and keeps the order book.                *)
(***************************************************************************)
EXTENDS OrderStore, Venue, Portfolio, FiniteSetsExt

CONSTANTS
    Submitter,      \* threads that execute authorised decisions
    Worker,         \* threads that poll, recover and cancel stale orders
    MaxAttempts,    \* ExecutionConfig.max_submit_attempts
    MaxCrashes,     \* bound on the crashes of a behaviour
    Lagging         \* TRUE if a lookup at the venue may miss an order it holds

ASSUME AttemptsAssumption == MaxAttempts \in Nat \ {0}
ASSUME CrashAssumption == MaxCrashes \in Nat
ASSUME LaggingAssumption == Lagging \in BOOLEAN
ASSUME ThreadAssumption == Submitter \cap Worker = {}
ASSUME SaleAssumption == Sale \subseteq Order
ASSUME NoneAssumption == None \notin Order \cup Fill \cup Status

VARIABLES
    pc,         \* where each thread is
    job,        \* the order a thread is working on
    answer,     \* the status the venue last gave the thread
    left,       \* submission attempts a submitter has left
    task,       \* the call a worker is in
    scan,       \* the open orders, as snapshotted, a worker has yet to visit
    todo,       \* the fills, as snapshotted, a worker has yet to visit
    hand,       \* the fill a worker is booking
    crashes     \* crashes so far

threadVars == <<pc, job, answer, left, task, scan, todo, hand>>
vars == <<storeVars, venue, portfolioVars, threadVars, crashes>>

Thread == Submitter \cup Worker

SubmitterAt == {"idle", "shadow", "submit", "reply", "query", "adopt", "settle"}
WorkerAt == {"idle", "fills", "record", "apply", "add", "scan", "fetch", "adopt"}

\* open_orders() hands out copies: what a worker compares may be stale.
Snapshot == [order : Order, status : Status]

OpenSnapshot ==
    {[order |-> o, status |-> orders[o].status] : o \in OpenOrders}

Goto(t, there) == pc' = [pc EXCEPT ![t] = there]

\* Mutant: EXPIRED forgotten.
AdoptableNotExpired == {"NEW", "PENDING_CANCEL", "CANCELED", "REJECTED"}

\* _ADOPTABLE_FROM_STATUS: what a status poll may adopt on its own.
Adoptable == {"NEW", "PENDING_CANCEL", "CANCELED", "REJECTED", "EXPIRED"}

-----------------------------------------------------------------------------
(* execute(), by a submitter *)

\* What every step of a submitter leaves alone.
SubmitterFrame ==
    UNCHANGED <<fillIndex, portfolioVars, task, scan, todo, hand, crashes>>

\* transition(): an illegal move raises, here or into an except, and changes nothing.
TryMove(o, s) ==
    IF MayMove(o, s) THEN MoveOrder(o, s) ELSE UNCHANGED orders

\* A verified authorisation reaches get_or_create().  If the order is already
\* recorded the call returns it and changes nothing.
Execute(s) ==
    /\ pc[s] = "idle"
    /\ \E o \in Order, shadow \in BOOLEAN :
        /\ CreateOrder(o, shadow)
        /\ Goto(s, IF shadow THEN "shadow" ELSE "submit")
        /\ job' = [job EXCEPT ![s] = o]
        /\ left' = [left EXCEPT ![s] = MaxAttempts]
    /\ SubmitterFrame /\ UNCHANGED <<venue, answer>>

\* SHADOW mode: the order is closed at once and nothing is submitted.
CloseShadow(s) ==
    /\ pc[s] = "shadow"
    /\ TryMove(job[s], "CANCELED")
    /\ Goto(s, "idle")
    /\ SubmitterFrame /\ UNCHANGED <<venue, job, answer, left>>

\* submit_order() reaches the venue.
SubmitArrives(s) ==
    /\ pc[s] = "submit"
    /\ Accept(job[s])
    /\ left' = [left EXCEPT ![s] = @ - 1]
    /\ Goto(s, "reply")
    /\ SubmitterFrame /\ UNCHANGED <<orders, job, answer>>

\* Mutant: a lost request is not counted as an attempt.
SubmitLostUncounted(s) ==
    /\ pc[s] = "submit"
    /\ Goto(s, "query")
    /\ SubmitterFrame /\ UNCHANGED <<orders, venue, job, answer, left>>

\* BrokerUnavailable before the request arrived.
SubmitLost(s) ==
    /\ pc[s] = "submit"
    /\ left' = [left EXCEPT ![s] = @ - 1]
    /\ Goto(s, "query")
    /\ SubmitterFrame /\ UNCHANGED <<orders, venue, job, answer>>

\* BrokerError: the venue answered and refused, so no attempt will follow.
SubmitRefused(s) ==
    /\ pc[s] = "submit"
    /\ left' = [left EXCEPT ![s] = 0]
    /\ Goto(s, "query")
    /\ SubmitterFrame /\ UNCHANGED <<orders, venue, job, answer>>

\* Any other ExecutionError of the adapter (an uncovered sell, a limit order
\* without a price) leaves execute() with the order still PENDING_NEW.
SubmitRaises(s) ==
    /\ pc[s] = "submit"
    /\ Goto(s, "idle")
    /\ SubmitterFrame /\ UNCHANGED <<orders, venue, job, answer, left>>

\* DuplicateOrderError: the venue has the id and its lookup does not show it.
SubmitDuplicate(s) ==
    /\ pc[s] = "submit"
    /\ Lagging /\ AtVenue(job[s])
    /\ Goto(s, "settle")
    /\ SubmitterFrame /\ UNCHANGED <<orders, venue, job, answer, left>>

\* The acknowledgement comes back ...
Reply(s) ==
    /\ pc[s] = "reply"
    /\ answer' = [answer EXCEPT ![s] = venue[job[s]].status]
    /\ Goto(s, "adopt")
    /\ SubmitterFrame /\ UNCHANGED <<orders, venue, job, left>>

\* ... or is lost, which raises BrokerUnavailable, or BrokerError when a server
\* error came back in its place.
ReplyLost(s) ==
    /\ pc[s] = "reply"
    /\ \E n \in {0, left[s]} : left' = [left EXCEPT ![s] = n]
    /\ Goto(s, "query")
    /\ SubmitterFrame /\ UNCHANGED <<orders, venue, job, answer>>

\* _query_and_adopt(): the venue has the order.
QueryFinds(s) ==
    /\ pc[s] = "query"
    /\ AtVenue(job[s])
    /\ answer' = [answer EXCEPT ![s] = venue[job[s]].status]
    /\ Goto(s, "adopt")
    /\ SubmitterFrame /\ UNCHANGED <<orders, venue, job, left>>

\* Mutant: one attempt too many.
NextAttemptOffByOne(s) == Goto(s, IF left[s] >= 0 THEN "submit" ELSE "settle")

\* Attempts left: try again.  None left: the submission failed.
NextAttempt(s) == Goto(s, IF left[s] > 0 THEN "submit" ELSE "settle")

\* The venue says it does not have it, so another attempt is safe.
QueryMisses(s) ==
    /\ pc[s] = "query"
    /\ Lagging \/ ~AtVenue(job[s])
    /\ NextAttempt(s)
    /\ SubmitterFrame /\ UNCHANGED <<orders, venue, job, answer, left>>

\* Mutant: a venue that cannot be asked is taken for one without the order.
QueryFailsAsMiss(s) ==
    /\ pc[s] = "query"
    /\ NextAttempt(s)
    /\ SubmitterFrame /\ UNCHANGED <<orders, venue, job, answer, left>>

\* The query itself fails: the outcome is unknown and the order stays as it is.
QueryFails(s) ==
    /\ pc[s] = "query"
    /\ Goto(s, "idle")
    /\ SubmitterFrame /\ UNCHANGED <<orders, venue, job, answer, left>>

\* The venue's status is adopted as it came, if it may legally follow ours.
AdoptAnswer(t) ==
    /\ pc[t] = "adopt"
    /\ TryMove(job[t], answer[t])
    /\ answer' = [answer EXCEPT ![t] = None]

AdoptAck(s) ==
    /\ AdoptAnswer(s)
    /\ Goto(s, "idle")
    /\ SubmitterFrame /\ UNCHANGED <<venue, job, left>>

\* _settle_rejected(): our order never landed.
Settle(s) ==
    /\ pc[s] = "settle"
    /\ TryMove(job[s], "REJECTED")
    /\ Goto(s, "idle")
    /\ SubmitterFrame /\ UNCHANGED <<venue, job, answer, left>>

SubmitterStep(s) ==
    \/ Execute(s) \/ CloseShadow(s)
    \/ SubmitArrives(s) \/ SubmitLost(s) \/ SubmitRefused(s) \/ SubmitRaises(s)
    \/ SubmitDuplicate(s) \/ Reply(s) \/ ReplyLost(s)
    \/ QueryFinds(s) \/ QueryMisses(s) \/ QueryFails(s)
    \/ AdoptAck(s) \/ Settle(s)

-----------------------------------------------------------------------------
(* Booking fills: the loop of poll() and of _adopt_fills_for(), by a worker *)

\* The fills already found under their own id are skipped as redelivered.
TakeFill(w) ==
    /\ pc[w] = "fills"
    /\ \E f \in todo[w] :
        /\ todo' = [todo EXCEPT ![w] = @ \ {f}]
        /\ IF f \in fillIndex
           THEN UNCHANGED <<pc, hand>>
           ELSE Goto(w, "record") /\ hand' = [hand EXCEPT ![w] = f]
    /\ UNCHANGED <<storeVars, venue, portfolioVars, job, answer, left, task, scan, crashes>>

\* record_fill(): a redelivery returns the order as it is, a fill that does not
\* fit is logged and dropped, and both puts are made under the order's lock.
RecordFill(w) ==
    /\ pc[w] = "record"
    /\ \/ /\ IsRedelivery(hand[w])
          /\ Goto(w, "apply")
          /\ UNCHANGED <<storeVars, hand>>
       \/ /\ MayBook(hand[w])
          /\ BookFill(hand[w]) /\ IndexFill(hand[w])
          /\ Goto(w, "apply")
          /\ UNCHANGED hand
       \/ /\ ~IsRedelivery(hand[w]) /\ ~MayBook(hand[w])
          /\ Goto(w, "fills")
          /\ hand' = [hand EXCEPT ![w] = None]
          /\ UNCHANGED storeVars
    /\ UNCHANGED <<venue, portfolioVars, job, answer, left, task, scan, todo, crashes>>

\* portfolio.apply_fill(): the test ...
CheckApplied(w) ==
    /\ pc[w] = "apply"
    /\ IF IsApplied(hand[w])
       THEN Goto(w, "fills") /\ hand' = [hand EXCEPT ![w] = None]
       ELSE Goto(w, "add") /\ UNCHANGED hand
    /\ UNCHANGED <<storeVars, venue, portfolioVars, job, answer, left, task, scan,
                   todo, crashes>>

\* ... and the application.
AddFill(w) ==
    /\ pc[w] = "add"
    /\ ApplyFill(hand[w])
    /\ Goto(w, "fills")
    /\ hand' = [hand EXCEPT ![w] = None]
    /\ UNCHANGED <<storeVars, venue, job, answer, left, task, scan, todo, crashes>>

-----------------------------------------------------------------------------
(* poll(), recover() and cancel_stale_orders(), by a worker *)

\* What every step that walks the open orders leaves alone.
ScanFrame == UNCHANGED <<fillIndex, portfolioVars, left, hand, crashes>>

\* poll() begins with every fill the venue has ...
PollFills(w) ==
    /\ pc[w] = "idle"
    /\ task' = [task EXCEPT ![w] = "poll"]
    /\ todo' = [todo EXCEPT ![w] = VenueFills]
    /\ Goto(w, "fills")
    /\ ScanFrame /\ UNCHANGED <<orders, venue, job, answer, scan>>

\* ... or, when get_fills() fails, with none.
PollBlind(w) ==
    /\ pc[w] = "idle"
    /\ task' = [task EXCEPT ![w] = "poll"]
    /\ Goto(w, "fills")
    /\ ScanFrame /\ UNCHANGED <<orders, venue, job, answer, scan, todo>>

\* The fills are done: poll() goes on to _sync_open_statuses(), and recover()
\* returns to the next of its open orders.
FillsDone(w) ==
    /\ pc[w] = "fills" /\ todo[w] = {}
    /\ scan' = [scan EXCEPT ![w] = IF task[w] = "poll" THEN OpenSnapshot ELSE @]
    /\ Goto(w, "scan")
    /\ ScanFrame /\ UNCHANGED <<orders, venue, job, answer, task, todo>>

StartRecover(w) ==
    /\ pc[w] = "idle"
    /\ task' = [task EXCEPT ![w] = "recover"]
    /\ scan' = [scan EXCEPT ![w] = OpenSnapshot]
    /\ Goto(w, "scan")
    /\ ScanFrame /\ UNCHANGED <<orders, venue, job, answer, todo>>

\* Any of the open orders may be older than max_age.
StartCancelStale(w) ==
    /\ pc[w] = "idle"
    /\ task' = [task EXCEPT ![w] = "cancel"]
    /\ \E stale \in SUBSET OpenSnapshot : scan' = [scan EXCEPT ![w] = stale]
    /\ Goto(w, "scan")
    /\ ScanFrame /\ UNCHANGED <<orders, venue, job, answer, todo>>

Visited(w, x) == scan' = [scan EXCEPT ![w] = @ \ {x}]

\* The worker has the venue's status of x's order and goes to adopt it.
TakeAnswer(w, x, s) ==
    /\ job' = [job EXCEPT ![w] = x.order]
    /\ answer' = [answer EXCEPT ![w] = s]
    /\ Goto(w, "adopt")

\* The lookup or the cancellation fails, or the venue does not know the order:
\* the order is left alone.
VisitFails(w) ==
    /\ pc[w] = "scan"
    /\ \E x \in scan[w] : Visited(w, x)
    /\ ScanFrame /\ UNCHANGED <<pc, orders, venue, job, answer, task, todo>>

\* _sync_open_statuses(): only statuses that imply no quantity are adopted.
SyncStatus(w, o) ==
    /\ pc[w] = "scan" /\ task[w] = "poll"
    /\ AtVenue(o)
    /\ \E x \in scan[w] :
        LET there == venue[o].status
        IN  /\ x.order = o
            /\ Visited(w, x)
            /\ IF there # x.status /\ there \in Adoptable
               THEN TakeAnswer(w, x, there)
               ELSE UNCHANGED <<pc, job, answer>>
    /\ ScanFrame /\ UNCHANGED <<orders, venue, task, todo>>

VisitPoll(w) == \E o \in Order : SyncStatus(w, o)

\* recover(): a filled order is recovered through its fills.
VisitRecover(w) ==
    /\ pc[w] = "scan" /\ task[w] = "recover"
    /\ \E x \in scan[w] :
        LET there == venue[x.order].status
        IN  /\ AtVenue(x.order)
            /\ Visited(w, x)
            /\ \/ /\ there \in {"FILLED", "PARTIALLY_FILLED"}
                  /\ job' = [job EXCEPT ![w] = x.order]
                  /\ Goto(w, "fetch")
                  /\ UNCHANGED answer
               \/ /\ there \notin {"FILLED", "PARTIALLY_FILLED", x.status}
                  /\ TakeAnswer(w, x, there)
               \/ /\ there = x.status /\ there # "PARTIALLY_FILLED"
                  /\ UNCHANGED <<pc, job, answer>>
    /\ ScanFrame /\ UNCHANGED <<orders, venue, task, todo>>

\* _adopt_fills_for(): get_fills() answers, or fails and nothing is booked.
FetchFills(w) ==
    /\ pc[w] = "fetch"
    /\ \E got \in {{}, venue[job[w]].fills} : todo' = [todo EXCEPT ![w] = got]
    /\ Goto(w, "fills")
    /\ ScanFrame /\ UNCHANGED <<orders, venue, job, answer, task, scan>>

\* cancel_stale_orders(): the cancellation reaches the venue, and its answer
\* comes back or is lost.
VisitCancel(w) ==
    /\ pc[w] = "scan" /\ task[w] = "cancel"
    /\ \E x \in scan[w] :
        /\ AtVenue(x.order)
        /\ Cancel(x.order)
        /\ Visited(w, x)
        /\ \/ TakeAnswer(w, x, venue'[x.order].status)
           \/ UNCHANGED <<pc, job, answer>>
    /\ ScanFrame /\ UNCHANGED <<orders, task, todo>>

AdoptStatus(w) ==
    /\ AdoptAnswer(w)
    /\ Goto(w, "scan")
    /\ ScanFrame /\ UNCHANGED <<venue, job, task, scan, todo>>

ScanDone(w) ==
    /\ pc[w] = "scan" /\ scan[w] = {}
    /\ task' = [task EXCEPT ![w] = "idle"]
    /\ Goto(w, "idle")
    /\ ScanFrame /\ UNCHANGED <<orders, venue, job, answer, scan, todo>>

WorkerStep(w) ==
    \/ TakeFill(w) \/ RecordFill(w) \/ CheckApplied(w) \/ AddFill(w)
    \/ PollFills(w) \/ PollBlind(w) \/ FillsDone(w)
    \/ StartRecover(w) \/ StartCancelStale(w)
    \/ VisitFails(w) \/ VisitPoll(w) \/ VisitRecover(w) \/ VisitCancel(w)
    \/ FetchFills(w) \/ AdoptStatus(w) \/ ScanDone(w)

-----------------------------------------------------------------------------
(* The venue's own steps and crashes *)

VenueMoves ==
    /\ VenueStep
    /\ UNCHANGED <<storeVars, portfolioVars, threadVars, crashes>>

\* Mutant: the index is put before the order record.
TornPutIndexFirst(f) == IndexFill(f) /\ UNCHANGED orders

\* A record_fill() caught between its two puts has booked its fill and not yet
\* indexed it.
TornPut(f) == BookFill(f) /\ UNCHANGED fillIndex

\* Every thread is gone, and the portfolio with them.
Crash ==
    /\ crashes < MaxCrashes
    /\ crashes' = crashes + 1
    /\ \/ UNCHANGED storeVars
       \/ \E w \in Worker :
            pc[w] = "record" /\ MayBook(hand[w]) /\ TornPut(hand[w])
    /\ pc' = [t \in Thread |-> "idle"]
    /\ answer' = [t \in Thread |-> None]
    /\ task' = [w \in Worker |-> "idle"]
    /\ scan' = [w \in Worker |-> {}]
    /\ todo' = [w \in Worker |-> {}]
    /\ hand' = [w \in Worker |-> None]
    /\ LosePortfolio
    /\ UNCHANGED <<venue, job, left>>

Init ==
    /\ StoreInit /\ VenueInit /\ PortfolioInit
    /\ pc = [t \in Thread |-> "idle"]
    /\ job = [t \in Thread |-> None]
    /\ answer = [t \in Thread |-> None]
    /\ left = [s \in Submitter |-> 0]
    /\ task = [w \in Worker |-> "idle"]
    /\ scan = [w \in Worker |-> {}]
    /\ todo = [w \in Worker |-> {}]
    /\ hand = [w \in Worker |-> None]
    /\ crashes = 0

Next ==
    \/ \E s \in Submitter : SubmitterStep(s)
    \/ \E w \in Worker : WorkerStep(w)
    \/ VenueMoves
    \/ Crash

Spec == Init /\ [][Next]_vars

-----------------------------------------------------------------------------
(* Fairness *)

\* A thread that is inside a call keeps running.  A submitter may never be
\* asked for another order and the venue never has to trade.
SubmitterGoesOn(s) == pc[s] # "idle" /\ SubmitterStep(s)

\* The embedding program keeps polling, and of the requests a poll makes the
\* venue answers some: the two strong conditions, which are not the scheduler's.
Fairness ==
    /\ \A s \in Submitter : WF_vars(SubmitterGoesOn(s))
    /\ \A w \in Worker :
        /\ WF_vars(pc[w] # "idle" /\ WorkerStep(w))
        /\ SF_vars(PollFills(w))
        /\ \A o \in Order : SF_vars(SyncStatus(w, o))

FairSpec == Spec /\ Fairness

-----------------------------------------------------------------------------
(* Properties *)

ThreadTypeOK ==
    /\ pc \in [Thread -> SubmitterAt \cup WorkerAt]
    /\ \A s \in Submitter : pc[s] \in SubmitterAt
    /\ \A w \in Worker : pc[w] \in WorkerAt
    /\ job \in [Thread -> Order \cup {None}]
    /\ answer \in [Thread -> Status \cup {None}]
    /\ left \in [Submitter -> 0..MaxAttempts]
    /\ task \in [Worker -> {"idle", "poll", "recover", "cancel"}]
    /\ scan \in [Worker -> SUBSET Snapshot]
    /\ todo \in [Worker -> SUBSET Fill]
    /\ hand \in [Worker -> Fill \cup {None}]

TypeOK ==
    /\ StoreTypeOK /\ VenueTypeOK /\ ThreadTypeOK
    /\ applied \subseteq Fill /\ position \in Int
    /\ crashes \in 0..MaxCrashes

\* The quantity the book has for an order is the sum of the fills booked for
\* it, each of them once, and each of them an execution of the venue
\* (record_fill() under redelivery, concurrent pollers and crashes).
BookMatchesExecutions ==
    \A o \in Order :
        /\ orders[o].fills \subseteq venue[o].fills
        /\ orders[o].filled = MapThenSumSet(LAMBDA f : f.qty, orders[o].fills)

\* A stale answer never takes an order with executions back to a status that
\* denies them, and a whole order is always FILLED (the transition table
\* against answers adopted late).
StatusAdmitsBook ==
    \A o \in Order :
        /\ orders[o].filled > 0 => orders[o].status \notin {"PENDING_NEW", "NEW", "REJECTED"}
        /\ orders[o].filled = Quantity => orders[o].status = "FILLED"

\* An attempt after the first is made only when the venue does not hold the
\* order (query-then-adopt, in the retry loop of _submit_with_retries()).
NoBlindResubmit ==
    \A s \in Submitter :
        pc[s] = "submit" /\ left[s] < MaxAttempts => ~AtVenue(job[s])

\* An order we call rejected trades nowhere and never will: the venue rejected
\* it too, or does not have it and nobody is about to submit it again.
RejectedIsTrue ==
    \A o \in Order : orders[o].status = "REJECTED" =>
        \/ venue[o].status = "REJECTED"
        \/ /\ ~AtVenue(o)
           /\ \A s \in Submitter : job[s] = o => pc[s] \notin {"submit", "reply", "query"}

\* Only the thread that created an order ever drives it to the venue, and
\* never one that runs in shadow mode (get_or_create() under the order's lock).
OneSubmitterPerOrder ==
    /\ \A s, r \in Submitter :
        pc[s] # "idle" /\ pc[r] # "idle" /\ job[s] = job[r] => s = r
    /\ \A o \in Order : AtVenue(o) => orders[o].status # Absent /\ ~orders[o].shadow

\* A fill found under its own id, and so skipped by every later poll, is booked
\* in its order, whichever put a crash came after.
IndexedFillsAreBooked == \A f \in fillIndex : f \in orders[f.order].fills

\* Until a crash, a booked fill is in the portfolio or in the hands of a worker
\* on its way there, however poll() and recover() interleave.
BookedReachesPortfolio ==
    crashes = 0 =>
        \A o \in Order : \A f \in orders[o].fills :
            \/ f \in applied
            \/ \E w \in Worker : pc[w] \in {"apply", "add"} /\ hand[w] = f

\* However many workers have the same fill in hand, through redeliveries and
\* crashes: the position counts each fill that is taken for applied, bought or
\* sold, at least once, and at most once for each worker there is, which may have
\* passed the test of apply_fill() before any of them added the fill.  Until a
\* crash, these fills and those in the hands of workers are what the order book
\* has booked.
PositionAgreesWithBook ==
    LET lots(fills) == MapThenSumSet(LAMBDA f : f.qty, fills)
        sold == lots({f \in applied : f.order \in Sale})
        bought == lots({f \in applied : f.order \notin Sale})
        due == {hand[w] : w \in {v \in Worker : pc[v] \in {"apply", "add"}}}
    IN  /\ bought - Cardinality(Worker) * sold <= position
        /\ position <= Cardinality(Worker) * bought - sold
        /\ crashes = 0 =>
              lots(applied \cup due) = MapThenSumSet(LAMBDA o : orders[o].filled, Order)

Life(o) ==
    IF orders[o].status = Absent THEN "none"
    ELSE IF orders[o].status \in Terminal THEN "closed" ELSE "open"

\* The order book implements the lifecycle it promises.
Lifecycle == INSTANCE OrderLifecycle WITH
    life <- [o \in Order |-> Life(o)],
    booked <- [o \in Order |-> orders[o].filled]

ImplementsLifecycle == Lifecycle!Spec

\* execute() comes back, whatever the venue answers.
SubmissionEnds == \A s \in Submitter : pc[s] # "idle" ~> pc[s] = "idle"

\* An order that is over at the venue comes to be closed in the book, by its
\* fills or by its status.
VenueClosureReachesBook ==
    \A o \in Order : venue[o].status \in Terminal ~> orders[o].status \in Terminal

\* execution.py on FILLED and PARTIALLY_FILLED: "Those two statuses may only be
\* reached by booking the fills that justify them".
FilledOnlyByBooking ==
    \A o \in Order : orders[o].status = "FILLED" => orders[o].filled = Quantity

\* portfolio.py, save(): "Write through. Called after every mutation by the
\* execution engine", so that a restart finds in the portfolio what was booked.
PortfolioSurvivesRestart ==
    \A f \in fillIndex :
        \/ f \in applied
        \/ \E w \in Worker : pc[w] \in {"apply", "add"} /\ hand[w] = f

=============================================================================
