----------------------- MODULE ExecutionEngineProofs -----------------------
(***************************************************************************)
(* Proofs about the execution engine, for any orders, threads, quantity,   *)
(* attempts and crashes: first its types and the lifecycle it implements,  *)
(* then how its submitters share the venue, and last how executions travel *)
(* through the book to the portfolio.                                      *)
(***************************************************************************)
EXTENDS ExecutionEngine, SetSums, FiniteSetTheorems, TLAPS

-----------------------------------------------------------------------------
(* What a thread has at hand where it is *)

\* A thread inside a call has the order, the answer, the fill or the attempt
\* that its next step needs; the venue has taken what awaits its reply.
CallsOK ==
    /\ \A s \in Submitter :
        /\ pc[s] # "idle" => job[s] \in Order
        /\ pc[s] = "submit" => left[s] > 0
        /\ pc[s] = "reply" => AtVenue(job[s])
    /\ \A w \in Worker :
        /\ pc[w] \in {"fetch", "adopt"} => job[w] \in Order
        /\ pc[w] \in {"record", "apply", "add"} => hand[w] \in Fill
    /\ \A t \in Thread : pc[t] = "adopt" => answer[t] \in Status

\* The venue has no more executions than lots it traded.
ExecutionsCounted ==
    \A o \in Order :
        /\ IsFiniteSet(venue[o].fills)
        /\ Cardinality(venue[o].fills) <= venue[o].filled

TypeInv == TypeOK /\ CallsOK /\ ExecutionsCounted

-----------------------------------------------------------------------------
(* Each operation of the order book leaves a record where there was one *)

\* A created order has a record.
LEMMA CreateOrderType ==
    ASSUME StoreTypeOK, NEW o \in Order, NEW shadow \in BOOLEAN, CreateOrder(o, shadow)
    PROVE  orders' \in [Order -> OrderRecord]
<1>1. NewRecord(shadow) \in OrderRecord
  BY QuantityAssumption DEF NewRecord, OrderRecord, Status
<1>. QED BY <1>1 DEF StoreTypeOK, CreateOrder

\* A moved order keeps its record.
LEMMA MoveOrderType ==
    ASSUME StoreTypeOK, NEW o \in Order, NEW s \in Status, MoveOrder(o, s)
    PROVE  orders' \in [Order -> OrderRecord]
BY DEF StoreTypeOK, MoveOrder, OrderRecord

\* So does one whose move was refused.
LEMMA TryMoveType ==
    ASSUME StoreTypeOK, NEW o \in Order, NEW s \in Status, TryMove(o, s)
    PROVE  orders' \in [Order -> OrderRecord]
BY MoveOrderType DEF StoreTypeOK, TryMove

\* A fill that fits leaves the booked quantity within what was approved.
LEMMA BookFillType ==
    ASSUME StoreTypeOK, NEW f \in Fill, MayBook(f), BookFill(f)
    PROVE  orders' \in [Order -> OrderRecord]
<1>1. f.order \in Order /\ f.qty \in 1..Quantity
  BY DEF Fill
<1>2. orders[f.order] \in OrderRecord
  BY <1>1 DEF StoreTypeOK
<1> DEFINE total == orders[f.order].filled + f.qty
<1>3. total \in 0..Quantity
  BY <1>1, <1>2, QuantityAssumption DEF OrderRecord, MayBook
<1>4. StatusAfter(total) \in Status
  BY DEF StatusAfter, Status, Terminal
<1> HIDE DEF total
<1>5. orders' = [orders EXCEPT ![f.order].filled = total,
                               ![f.order].fills = @ \cup {f},
                               ![f.order].status = StatusAfter(total)]
  BY DEF BookFill, total
<1>6. [orders[f.order] EXCEPT !.filled = total, !.fills = @ \cup {f},
                              !.status = StatusAfter(total)] \in OrderRecord
  BY <1>2, <1>3, <1>4 DEF OrderRecord
<1>. QED BY <1>1, <1>5, <1>6 DEF StoreTypeOK

-----------------------------------------------------------------------------
(* What any step does to the order book and to the venue *)

OrdersMove ==
    \/ UNCHANGED orders
    \/ \E o \in Order, shadow \in BOOLEAN : CreateOrder(o, shadow)
    \/ \E o \in Order, s \in Status : MoveOrder(o, s)
    \/ \E f \in Fill : MayBook(f) /\ BookFill(f)

VenueMove ==
    \/ UNCHANGED venue
    \/ \E o \in Order : Accept(o) \/ Trade(o) \/ Expire(o) \/ Cancel(o) \/ ConfirmCancel(o)

USE DEF SubmitterAt, WorkerAt

\* A submitter creates an order or moves its status, and is at most accepted.
LEMMA SubmitterMoves ==
    ASSUME TypeInv, NEW s \in Submitter, SubmitterStep(s)
    PROVE  OrdersMove /\ VenueMove
<1>0. /\ pc[s] # "idle" => job[s] \in Order
      /\ pc[s] = "adopt" => answer[s] \in Status
  BY DEF TypeInv, CallsOK, Thread
<1>1. CASE Execute(s)
  BY <1>1 DEF Execute, OrdersMove, VenueMove
<1>2. CASE CloseShadow(s)
  BY <1>0, <1>2 DEF CloseShadow, TryMove, OrdersMove, VenueMove, Status, Terminal
<1>3. CASE SubmitArrives(s)
  BY <1>0, <1>3 DEF SubmitArrives, OrdersMove, VenueMove
<1>4. CASE AdoptAck(s)
  BY <1>0, <1>4 DEF AdoptAck, AdoptAnswer, TryMove, OrdersMove, VenueMove
<1>5. CASE Settle(s)
  BY <1>0, <1>5 DEF Settle, TryMove, OrdersMove, VenueMove, Status, Terminal
<1>6. CASE SubmitLost(s) \/ SubmitRefused(s) \/ SubmitRaises(s) \/ SubmitDuplicate(s)
  BY <1>6 DEF SubmitLost, SubmitRefused, SubmitRaises, SubmitDuplicate, OrdersMove, VenueMove
<1>7. CASE Reply(s) \/ ReplyLost(s) \/ QueryFinds(s) \/ QueryMisses(s) \/ QueryFails(s)
  BY <1>7 DEF Reply, ReplyLost, QueryFinds, QueryMisses, QueryFails, OrdersMove, VenueMove
<1>. QED BY <1>1, <1>2, <1>3, <1>4, <1>5, <1>6, <1>7 DEF SubmitterStep

\* A worker books a fill that fits or adopts a status, and at most cancels.
LEMMA WorkerMoves ==
    ASSUME TypeInv, NEW w \in Worker, WorkerStep(w)
    PROVE  OrdersMove /\ VenueMove
<1>0. /\ pc[w] \in {"fetch", "adopt"} => job[w] \in Order
      /\ pc[w] \in {"record", "apply", "add"} => hand[w] \in Fill
      /\ pc[w] = "adopt" => answer[w] \in Status
  BY DEF TypeInv, CallsOK, Thread
<1>1. CASE RecordFill(w)
  BY <1>0, <1>1 DEF RecordFill, OrdersMove, VenueMove, storeVars
<1>2. CASE VisitCancel(w)
  <2>1. PICK x \in scan[w] : Cancel(x.order)
    BY <1>2 DEF VisitCancel
  <2>2. x.order \in Order
    BY <2>1 DEF TypeInv, TypeOK, ThreadTypeOK, Snapshot
  <2>. QED BY <1>2, <2>1, <2>2 DEF VisitCancel, OrdersMove, VenueMove
<1>3. CASE AdoptStatus(w)
  BY <1>0, <1>3 DEF AdoptStatus, AdoptAnswer, TryMove, OrdersMove, VenueMove
<1>4. CASE TakeFill(w) \/ CheckApplied(w) \/ AddFill(w)
  BY <1>4 DEF TakeFill, CheckApplied, AddFill, storeVars, OrdersMove, VenueMove
<1>5. CASE PollFills(w) \/ PollBlind(w) \/ FillsDone(w) \/ StartRecover(w) \/ StartCancelStale(w)
  BY <1>5 DEF PollFills, PollBlind, FillsDone, StartRecover, StartCancelStale,
              OrdersMove, VenueMove
<1>6. CASE VisitFails(w) \/ VisitPoll(w) \/ VisitRecover(w) \/ FetchFills(w) \/ ScanDone(w)
  BY <1>6 DEF VisitFails, VisitPoll, SyncStatus, VisitRecover, FetchFills, ScanDone,
              OrdersMove, VenueMove
<1>. QED BY <1>1, <1>2, <1>3, <1>4, <1>5, <1>6 DEF WorkerStep

\* No step does anything else to the order book or to the venue.
LEMMA StepMoves ==
    ASSUME TypeInv, [Next]_vars
    PROVE  OrdersMove /\ VenueMove
<1>1. CASE \E s \in Submitter : SubmitterStep(s)
  BY <1>1, SubmitterMoves
<1>2. CASE \E w \in Worker : WorkerStep(w)
  BY <1>2, WorkerMoves
<1>3. CASE VenueMoves
  BY <1>3 DEF VenueMoves, VenueStep, storeVars, OrdersMove, VenueMove
<1>4. CASE Crash
  <2>1. \A w \in Worker : pc[w] = "record" => hand[w] \in Fill
    BY DEF TypeInv, CallsOK
  <2>. QED BY <1>4, <2>1 DEF Crash, TornPut, storeVars, OrdersMove, VenueMove
<1>5. CASE UNCHANGED vars
  BY <1>5 DEF vars, storeVars, OrdersMove, VenueMove
<1>. QED BY <1>1, <1>2, <1>3, <1>4, <1>5 DEF Next

-----------------------------------------------------------------------------
(* Type correctness *)

\* The records of the order book stay records.
LEMMA OrdersType ==
    ASSUME StoreTypeOK, OrdersMove
    PROVE  orders' \in [Order -> OrderRecord]
BY CreateOrderType, MoveOrderType, BookFillType DEF OrdersMove, StoreTypeOK

\* One more execution at the venue is still within the order's quantity.
LEMMA TradeType ==
    ASSUME VenueTypeOK, ExecutionsCounted, NEW o \in Order, Trade(o)
    PROVE  VenueTypeOK' /\ ExecutionsCounted'
<1>1. venue[o] \in VenueRecord
  BY DEF VenueTypeOK
<1>2. PICK q \in 1..(Quantity - venue[o].filled) :
        venue' = [venue EXCEPT ![o] =
            [status |-> StatusAfter(venue[o].filled + q), filled |-> venue[o].filled + q,
             fills |-> @.fills \cup
                {[order |-> o, nr |-> Cardinality(venue[o].fills) + 1, qty |-> q]}]]
  BY DEF Trade
<1> DEFINE n == Cardinality(venue[o].fills)
           f == [order |-> o, nr |-> n + 1, qty |-> q]
<1>3. /\ IsFiniteSet(venue[o].fills) /\ n \in Nat
      /\ n <= venue[o].filled /\ venue[o].filled \in 0..Quantity
  BY <1>1, FS_CardinalityType DEF ExecutionsCounted, VenueRecord
<1>4. q \in 1..Quantity /\ venue[o].filled + q \in 1..Quantity /\ n + 1 \in 1..Quantity
  BY <1>3, QuantityAssumption
<1>5. f \in Fill
  BY <1>4 DEF Fill
<1>6. /\ IsFiniteSet(venue[o].fills \cup {f})
      /\ Cardinality(venue[o].fills \cup {f}) \in {n, n + 1}
  BY <1>3, FS_AddElement
<1> HIDE DEF n
<1>7. VenueTypeOK'
  BY <1>1, <1>2, <1>4, <1>5 DEF VenueTypeOK, VenueRecord, StatusAfter, Status, Terminal, n
<1>8. ExecutionsCounted'
  BY <1>2, <1>3, <1>4, <1>6 DEF VenueTypeOK, ExecutionsCounted, n
<1>. QED BY <1>7, <1>8

\* The venue's records stay records, and its executions stay counted.
LEMMA VenueType ==
    ASSUME VenueTypeOK, ExecutionsCounted, VenueMove
    PROVE  VenueTypeOK' /\ ExecutionsCounted'
<1>1. CASE UNCHANGED venue
  BY <1>1 DEF VenueTypeOK, ExecutionsCounted
<1>2. ASSUME NEW o \in Order, Accept(o)
      PROVE  VenueTypeOK' /\ ExecutionsCounted'
  <2>1. CASE UNCHANGED venue
    BY <2>1 DEF VenueTypeOK, ExecutionsCounted
  <2>2. CASE \E s \in {"NEW", "REJECTED"} :
                venue' = [venue EXCEPT ![o] = [NotAtVenue EXCEPT !.status = s]]
    <3>1. PICK s \in {"NEW", "REJECTED"} :
                venue' = [venue EXCEPT ![o] = [status |-> s, filled |-> 0, fills |-> {}]]
      BY <2>2 DEF NotAtVenue
    <3>2. [status |-> s, filled |-> 0, fills |-> {}] \in VenueRecord
      BY QuantityAssumption DEF VenueRecord, Status, Terminal
    <3>3. IsFiniteSet({}) /\ Cardinality({}) = 0
      BY FS_EmptySet
    <3>. QED BY <3>1, <3>2, <3>3 DEF VenueTypeOK, ExecutionsCounted
  <2>. QED BY <1>2, <2>1, <2>2 DEF Accept
<1>3. ASSUME NEW o \in Order, Expire(o) \/ Cancel(o) \/ ConfirmCancel(o)
      PROVE  VenueTypeOK' /\ ExecutionsCounted'
  <2>1. \/ UNCHANGED venue
        \/ \E s \in {"EXPIRED", "CANCELED", "PENDING_CANCEL"} :
                venue' = [venue EXCEPT ![o].status = s]
    BY <1>3 DEF Expire, Cancel, ConfirmCancel
  <2>. QED BY <2>1 DEF VenueTypeOK, VenueRecord, ExecutionsCounted, Status, Terminal
<1>. QED BY <1>1, <1>2, <1>3, TradeType DEF VenueMove

\* An order the venue has, it keeps.
LEMMA VenueKeeps ==
    ASSUME VenueTypeOK, VenueMove, NEW o \in Order, AtVenue(o)
    PROVE  AtVenue(o)'
<1> USE DEF VenueTypeOK, VenueRecord, AtVenue, Absent
<1>1. CASE UNCHANGED venue
  BY <1>1
<1>2. ASSUME NEW p \in Order, Accept(p)
      PROVE  AtVenue(o)'
  BY <1>2 DEF Accept, NotAtVenue
<1>3. ASSUME NEW p \in Order, Trade(p)
      PROVE  AtVenue(o)'
  BY <1>3 DEF Trade, StatusAfter
<1>4. ASSUME NEW p \in Order, Expire(p) \/ Cancel(p) \/ ConfirmCancel(p)
      PROVE  AtVenue(o)'
  BY <1>4 DEF Expire, Cancel, ConfirmCancel
<1>. QED BY <1>1, <1>2, <1>3, <1>4 DEF VenueMove

\* The steps of a submitter keep what the threads have at hand.
LEMMA SubmitterThreads ==
    ASSUME TypeInv, NEW s \in Submitter, SubmitterStep(s), VenueMove
    PROVE  ThreadTypeOK' /\ CallsOK'
<1>1. /\ VenueTypeOK /\ StoreTypeOK /\ CallsOK
      /\ ThreadTypeOK /\ Submitter \cap Worker = {}
  BY ThreadAssumption DEF TypeInv, TypeOK
<1>2. \A o \in Order : AtVenue(o) => AtVenue(o)'
  BY <1>1, VenueKeeps
<1>3. \A o \in Order : AtVenue(o) => venue[o].status \in Status
  BY <1>1 DEF VenueTypeOK, VenueRecord, AtVenue
<1> HIDE DEF AtVenue
<1> USE <1>1, <1>2 DEF ThreadTypeOK, CallsOK, Thread, SubmitterFrame, Goto
<1>4. CASE Execute(s)
  BY <1>4, AttemptsAssumption DEF Execute
<1>5. CASE CloseShadow(s)
  BY <1>5 DEF CloseShadow
<1>6. CASE SubmitArrives(s)
  <2>1. AtVenue(job[s])'
    BY <1>6 DEF SubmitArrives, Accept, AtVenue, NotAtVenue, VenueTypeOK, Absent
  <2>. QED BY <1>6, <2>1, AttemptsAssumption DEF SubmitArrives
<1>7. CASE SubmitLost(s) \/ SubmitRefused(s) \/ SubmitRaises(s) \/ SubmitDuplicate(s)
  BY <1>7, AttemptsAssumption
     DEF SubmitLost, SubmitRefused, SubmitRaises, SubmitDuplicate
<1>8. CASE Reply(s) \/ ReplyLost(s)
  BY <1>8, <1>3, AttemptsAssumption DEF Reply, ReplyLost
<1>9. CASE QueryFinds(s)
  BY <1>9, <1>3 DEF QueryFinds
<1>10. CASE QueryMisses(s) \/ QueryFails(s)
  BY <1>10 DEF QueryMisses, NextAttempt, QueryFails
<1>11. CASE AdoptAck(s)
  BY <1>11 DEF AdoptAck, AdoptAnswer
<1>12. CASE Settle(s)
  BY <1>12 DEF Settle
<1>. QED BY <1>4, <1>5, <1>6, <1>7, <1>8, <1>9, <1>10, <1>11, <1>12 DEF SubmitterStep

\* The steps of a worker keep what the threads have at hand.
LEMMA WorkerThreads ==
    ASSUME TypeInv, NEW w \in Worker, WorkerStep(w), VenueMove
    PROVE  ThreadTypeOK' /\ CallsOK'
<1>1. /\ VenueTypeOK /\ StoreTypeOK /\ CallsOK
      /\ ThreadTypeOK /\ Submitter \cap Worker = {}
  BY ThreadAssumption DEF TypeInv, TypeOK
<1>2. \A o \in Order : AtVenue(o) => AtVenue(o)'
  BY <1>1, VenueKeeps
<1>3. \A o \in Order : AtVenue(o) => venue[o].status \in Status
  BY <1>1 DEF VenueTypeOK, VenueRecord, AtVenue
<1>4. OpenSnapshot \subseteq Snapshot
  BY <1>1 DEF OpenSnapshot, Snapshot, OpenOrders, IsOpen, StoreTypeOK, OrderRecord
<1>5. \A o \in Order : venue[o].fills \subseteq Fill
  BY <1>1 DEF VenueTypeOK, VenueRecord
<1>6. VenueFills \subseteq Fill
  BY <1>5 DEF VenueFills
<1>7. \A x \in scan[w] : x.order \in Order
  BY <1>1 DEF ThreadTypeOK, Snapshot
<1> HIDE DEF AtVenue
<1> USE <1>1, <1>2 DEF ThreadTypeOK, CallsOK, Thread, ScanFrame, Goto
<1>8. CASE TakeFill(w)
  BY <1>8 DEF TakeFill
<1>9. CASE RecordFill(w)
  BY <1>9 DEF RecordFill
<1>10. CASE CheckApplied(w) \/ AddFill(w)
  BY <1>10 DEF CheckApplied, AddFill
<1>11. CASE PollFills(w) \/ PollBlind(w) \/ FillsDone(w)
  BY <1>4, <1>6, <1>11 DEF PollFills, PollBlind, FillsDone
<1>12. CASE StartRecover(w) \/ StartCancelStale(w)
  BY <1>4, <1>12 DEF StartRecover, StartCancelStale
<1>13. CASE VisitFails(w) \/ ScanDone(w)
  BY <1>13 DEF VisitFails, ScanDone, Visited
<1>14. CASE VisitPoll(w)
  BY <1>3, <1>7, <1>14 DEF VisitPoll, SyncStatus, Visited, TakeAnswer
<1>15. CASE VisitRecover(w)
  BY <1>3, <1>7, <1>15 DEF VisitRecover, Visited, TakeAnswer
<1>16. CASE FetchFills(w)
  BY <1>5, <1>16 DEF FetchFills
<1>17. CASE VisitCancel(w)
  <2>1. \A o \in Order : AtVenue(o) => venue'[o].status \in Status
    <3>1. VenueTypeOK'
      BY VenueType DEF TypeInv, TypeOK
    <3>. QED BY <3>1 DEF VenueTypeOK, VenueRecord, AtVenue
  <2>. QED BY <1>7, <1>17, <2>1 DEF VisitCancel, Visited, TakeAnswer
<1>18. CASE AdoptStatus(w)
  BY <1>18 DEF AdoptStatus, AdoptAnswer
<1>. QED BY <1>8, <1>9, <1>10, <1>11, <1>12, <1>13, <1>14, <1>15, <1>16, <1>17, <1>18
         DEF WorkerStep

\* The steps of the whole system keep it too: a crash leaves nothing at hand.
LEMMA StepThreads ==
    ASSUME TypeInv, [Next]_vars, VenueMove
    PROVE  ThreadTypeOK' /\ CallsOK'
<1>1. CASE \E s \in Submitter : SubmitterStep(s)
  BY <1>1, SubmitterThreads
<1>2. CASE \E w \in Worker : WorkerStep(w)
  BY <1>2, WorkerThreads
<1>3. CASE VenueMoves \/ UNCHANGED vars
  <2>1. \A o \in Order : AtVenue(o) => AtVenue(o)'
    BY VenueKeeps DEF TypeInv, TypeOK
  <2>2. UNCHANGED threadVars
    BY <1>3 DEF VenueMoves, vars
  <2> HIDE DEF AtVenue
  <2>. QED BY <2>1, <2>2 DEF TypeInv, TypeOK, ThreadTypeOK, CallsOK, threadVars
<1>4. CASE Crash
  BY <1>4 DEF Crash, TypeInv, TypeOK, ThreadTypeOK, CallsOK, Thread
<1>. QED BY <1>1, <1>2, <1>3, <1>4 DEF Next

\* The index of fills and the portfolio stay made of fills.
LEMMA StepFills ==
    ASSUME TypeInv, [Next]_vars
    PROVE  /\ fillIndex' \subseteq Fill /\ applied' \subseteq Fill /\ position' \in Int
           /\ crashes' \in 0..MaxCrashes
<1>1. /\ fillIndex \subseteq Fill /\ applied \subseteq Fill /\ position \in Int
      /\ crashes \in 0..MaxCrashes
      /\ \A w \in Worker : pc[w] \in {"record", "apply", "add"} => hand[w] \in Fill
  BY DEF TypeInv, TypeOK, StoreTypeOK, CallsOK
<1>2. \A f \in Fill : f.qty \in Nat
  BY DEF Fill
<1> USE <1>1
<1>3. CASE \E s \in Submitter : SubmitterStep(s)
  <2>1. PICK s \in Submitter : SubmitterStep(s)
    BY <1>3
  <2>2. SubmitterFrame
    BY <2>1 DEF SubmitterStep, Execute, CloseShadow, SubmitArrives, SubmitLost,
                SubmitRefused, SubmitRaises, SubmitDuplicate, Reply, ReplyLost, QueryFinds,
                QueryMisses, QueryFails, AdoptAck, Settle
  <2>. QED BY <2>2 DEF SubmitterFrame, portfolioVars
<1>4. ASSUME NEW w \in Worker, WorkerStep(w)
      PROVE  /\ fillIndex' \subseteq Fill /\ applied' \subseteq Fill /\ position' \in Int
             /\ UNCHANGED crashes
  <2>1. CASE TakeFill(w) \/ CheckApplied(w)
    BY <2>1 DEF TakeFill, CheckApplied, storeVars, portfolioVars
  <2>2. CASE RecordFill(w)
    BY <2>2 DEF RecordFill, IndexFill, storeVars, portfolioVars
  <2>3. CASE AddFill(w)
    BY <1>2, <2>3 DEF AddFill, ApplyFill, Signed, storeVars
  <2>4. CASE ScanFrame
    BY <2>4 DEF ScanFrame, portfolioVars
  <2>. QED BY <1>4, <2>1, <2>2, <2>3, <2>4
           DEF WorkerStep, PollFills, PollBlind, FillsDone, StartRecover, StartCancelStale,
               VisitFails, VisitPoll, SyncStatus, VisitRecover, VisitCancel, FetchFills,
               AdoptStatus, ScanDone
<1>5. CASE VenueMoves \/ UNCHANGED vars
  BY <1>5 DEF VenueMoves, vars, storeVars, portfolioVars
<1>6. CASE Crash
  BY <1>6, CrashAssumption DEF Crash, TornPut, LosePortfolio, storeVars
<1>. QED BY <1>3, <1>4, <1>5, <1>6 DEF Next

\* The type invariant, with what the threads have at hand, is inductive.
LEMMA TypeStep == TypeInv /\ [Next]_vars => TypeInv'
<1> SUFFICES ASSUME TypeInv, [Next]_vars PROVE TypeInv'
  OBVIOUS
<1>1. OrdersMove /\ VenueMove
  BY StepMoves
<1>2. orders' \in [Order -> OrderRecord]
  BY <1>1, OrdersType DEF TypeInv, TypeOK
<1>3. VenueTypeOK' /\ ExecutionsCounted'
  BY <1>1, VenueType DEF TypeInv, TypeOK
<1>4. ThreadTypeOK' /\ CallsOK'
  BY <1>1, StepThreads
<1>. QED BY <1>2, <1>3, <1>4, StepFills DEF TypeInv, TypeOK, StoreTypeOK

\* The engine starts with nothing at hand.
LEMMA TypeInit == Init => TypeInv
<1> SUFFICES ASSUME Init PROVE TypeInv
  OBVIOUS
<1>1. NoRecord \in OrderRecord /\ NotAtVenue \in VenueRecord
  BY QuantityAssumption DEF NoRecord, OrderRecord, NotAtVenue, VenueRecord
<1>2. IsFiniteSet({}) /\ Cardinality({}) = 0
  BY FS_EmptySet
<1>3. StoreTypeOK /\ VenueTypeOK
  BY <1>1 DEF Init, StoreInit, VenueInit, StoreTypeOK, VenueTypeOK
<1>4. ExecutionsCounted
  <2>1. \A o \in Order : venue[o].fills = {} /\ venue[o].filled = 0
    BY DEF Init, VenueInit, NotAtVenue
  <2>2. ASSUME NEW o \in Order
        PROVE  IsFiniteSet(venue[o].fills) /\ Cardinality(venue[o].fills) = venue[o].filled
    BY <1>2, <2>1
  <2>. QED BY <2>1, <2>2 DEF ExecutionsCounted
<1>5. ThreadTypeOK /\ CallsOK
  BY AttemptsAssumption DEF Init, ThreadTypeOK, CallsOK, Thread
<1>. QED BY <1>3, <1>4, <1>5, CrashAssumption
         DEF Init, PortfolioInit, TypeInv, TypeOK

\* The strengthened type invariant holds in every state.
LEMMA TypeInvariant == Spec => []TypeInv
BY TypeInit, TypeStep, PTL DEF Spec

\* Every variable of the engine keeps its type: no step of any thread works on
\* an order, an answer or a fill it does not have.
THEOREM TypeCorrect == Spec => []TypeOK
<1>1. TypeInv => TypeOK
  BY DEF TypeInv
<1>. QED BY <1>1, TypeInvariant, PTL

-----------------------------------------------------------------------------
(* The order book alone *)

\* What the statuses of an order book admit, kept by each of its operations.
LEMMA StatusAdmitsBookStep ==
    ASSUME StoreTypeOK, StatusAdmitsBook, OrdersMove
    PROVE  StatusAdmitsBook'
<1> USE DEF StatusAdmitsBook, StoreTypeOK, OrderRecord
<1>1. CASE UNCHANGED orders
  BY <1>1
<1>2. ASSUME NEW o \in Order, NEW shadow \in BOOLEAN, CreateOrder(o, shadow)
      PROVE  StatusAdmitsBook'
  BY <1>2, QuantityAssumption DEF CreateOrder, NewRecord
<1>3. ASSUME NEW o \in Order, NEW s \in Status, MoveOrder(o, s)
      PROVE  StatusAdmitsBook'
  BY <1>3, QuantityAssumption
     DEF MoveOrder, MayMove, LegalTransitions, Status, Terminal, Absent
<1>4. ASSUME NEW f \in Fill, MayBook(f), BookFill(f)
      PROVE  StatusAdmitsBook'
  <2>1. f.order \in Order /\ f.qty \in Nat /\ orders[f.order].filled \in Nat
    BY QuantityAssumption DEF Fill
  <2>. QED BY <1>4, <2>1 DEF BookFill, StatusAfter
<1>. QED BY <1>1, <1>2, <1>3, <1>4 DEF OrdersMove

\* No stale answer takes an order with executions back to a status that denies
\* them, and a whole order is FILLED.
THEOREM BookIsAdmitted == Spec => []StatusAdmitsBook
<1>1. Init => StatusAdmitsBook
  BY QuantityAssumption DEF Init, StoreInit, NoRecord, StatusAdmitsBook
<1>2. TypeInv /\ StatusAdmitsBook /\ [Next]_vars => StatusAdmitsBook'
  BY StepMoves, StatusAdmitsBookStep DEF TypeInv, TypeOK
<1>. QED BY <1>1, <1>2, TypeInvariant, PTL DEF Spec

-----------------------------------------------------------------------------
(* The order book implements the lifecycle of an authorisation *)

\* Nothing is booked for an order that was never created.
AbsentIsBlank ==
    \A o \in Order : orders[o].status = Absent => orders[o].filled = 0 /\ orders[o].fills = {}

\* No operation of the order book books for an order it has not.
LEMMA AbsentIsBlankStep ==
    ASSUME StoreTypeOK, AbsentIsBlank, OrdersMove
    PROVE  AbsentIsBlank'
<1> USE DEF AbsentIsBlank, StoreTypeOK, OrderRecord
<1>1. ASSUME NEW f \in Fill, MayBook(f), BookFill(f)
      PROVE  AbsentIsBlank'
  BY <1>1 DEF BookFill, StatusAfter, Fill, Absent
<1>2. ASSUME NEW o \in Order, NEW shadow \in BOOLEAN, CreateOrder(o, shadow)
      PROVE  AbsentIsBlank'
  BY <1>2 DEF CreateOrder, NewRecord
<1>3. ASSUME NEW o \in Order, NEW s \in Status, MoveOrder(o, s)
      PROVE  AbsentIsBlank'
  BY <1>3 DEF MoveOrder, Status, Terminal, Absent
<1>. QED BY <1>1, <1>2, <1>3 DEF OrdersMove

\* Every operation of the order book is one of the lifecycle, or none.
LEMMA OrdersMoveIsLifecycle ==
    ASSUME StoreTypeOK, AbsentIsBlank, OrdersMove
    PROVE  [Lifecycle!Next]_(Lifecycle!lifecycleVars)
<1> DEFINE life == [o \in Order |-> Life(o)]
           booked == [o \in Order |-> orders[o].filled]
<1> USE DEF StoreTypeOK, OrderRecord
<1>1. CASE UNCHANGED orders
  BY <1>1 DEF Lifecycle!lifecycleVars, Life
<1>2. ASSUME NEW o \in Order, NEW shadow \in BOOLEAN, CreateOrder(o, shadow)
      PROVE  Lifecycle!Open(o)
  <2>1. Life(o) = "none" /\ orders[o].filled = 0
    BY <1>2 DEF CreateOrder, Life, AbsentIsBlank
  <2>2. /\ \A p \in Order \ {o} : orders'[p] = orders[p]
        /\ orders'[o].filled = 0 /\ orders'[o].status = "PENDING_NEW"
    BY <1>2 DEF CreateOrder, NewRecord
  <2>3. life' = [life EXCEPT ![o] = "open"]
    <3>1. /\ \A p \in Order \ {o} : Life(p)' = Life(p)
          /\ Life(o)' = "open"
      BY <2>2 DEF Life, Terminal, Absent
    <3>. QED BY <3>1
  <2>4. booked' = booked
    BY <2>1, <2>2
  <2>. QED BY <2>1, <2>3, <2>4 DEF Lifecycle!Open
<1>3. ASSUME NEW o \in Order, NEW s \in Status, MoveOrder(o, s)
      PROVE  Lifecycle!Close(o) \/ UNCHANGED <<life, booked>>
  <2>1. /\ \A p \in Order \ {o} : orders'[p] = orders[p]
        /\ orders'[o].filled = orders[o].filled /\ orders'[o].status = s
    BY <1>3 DEF MoveOrder
  <2>2. booked' = booked
    BY <2>1
  <2>3. orders[o].status # Absent /\ s # Absent
    BY <1>3 DEF MoveOrder, MayMove, Status, Terminal, Absent
  <2>4. orders[o].status \in Terminal => s = orders[o].status
    BY <1>3 DEF MoveOrder, MayMove, LegalTransitions, Status, Terminal
  <2>5. life' = [life EXCEPT ![o] = IF s \in Terminal THEN "closed" ELSE "open"]
    <3>1. /\ \A p \in Order \ {o} : Life(p)' = Life(p)
          /\ Life(o)' = IF s \in Terminal THEN "closed" ELSE "open"
      BY <2>1, <2>3 DEF Life
    <3>. QED BY <3>1
  <2>6. Life(o) = IF orders[o].status \in Terminal THEN "closed" ELSE "open"
    BY <2>3 DEF Life
  <2>7. CASE s \in Terminal /\ orders[o].status \notin Terminal
    BY <2>2, <2>5, <2>6, <2>7 DEF Lifecycle!Close
  <2>8. CASE ~(s \in Terminal /\ orders[o].status \notin Terminal)
    BY <2>2, <2>4, <2>5, <2>6, <2>8
  <2>. QED BY <2>7, <2>8
<1>4. ASSUME NEW f \in Fill, MayBook(f), BookFill(f)
      PROVE  Lifecycle!Book(f.order) \/ Lifecycle!Complete(f.order)
  <2> DEFINE o == f.order
             total == orders[o].filled + f.qty
  <2>1. /\ o \in Order /\ f.qty \in 1..Quantity /\ Quantity \in Nat
        /\ orders[o].filled \in 0..Quantity
    BY QuantityAssumption DEF Fill
  <2>2. total <= Quantity /\ MayMove(o, StatusAfter(total))
    BY <1>4 DEF MayBook
  <2>3. /\ \A p \in Order \ {o} : orders'[p] = orders[p]
        /\ orders'[o].filled = total /\ orders'[o].status = StatusAfter(total)
    BY <1>4, <2>1 DEF BookFill
  <2>4. orders[o].status # Absent
    BY <2>2 DEF MayMove
  <2>5. StatusAfter(total) # Absent
        /\ (StatusAfter(total) \in Terminal <=> total = Quantity)
    BY DEF StatusAfter, Absent, Terminal
  <2> HIDE DEF total
  <2>6. booked' = [booked EXCEPT ![o] = total]
    BY <2>3
  <2>7. life' = [life EXCEPT ![o] = IF total = Quantity THEN "closed" ELSE "open"]
    <3>1. /\ \A p \in Order \ {o} : Life(p)' = Life(p)
          /\ Life(o)' = IF total = Quantity THEN "closed" ELSE "open"
      BY <2>1, <2>3, <2>5 DEF Life
    <3>. QED BY <3>1
  <2>8. CASE orders[o].status \in Terminal
    <3>1. Life(o) = "closed"
      BY <2>4, <2>8 DEF Life
    <3>2. total = Quantity
      BY <2>2, <2>5, <2>8 DEF MayMove, LegalTransitions, Status, Terminal
    <3>. QED BY <2>1, <2>6, <2>7, <3>1, <3>2 DEF Lifecycle!Complete
  <2>9. CASE orders[o].status \notin Terminal
    <3>1. Life(o) = "open"
      BY <2>4, <2>9 DEF Life
    <3>2. /\ f.qty \in 1..(Quantity - booked[o])
          /\ booked' = [booked EXCEPT ![o] = booked[o] + f.qty]
      <4>1. booked[o] = orders[o].filled
        BY <2>1
      <4>2. orders[o].filled + f.qty <= Quantity
        BY <2>2 DEF total
      <4>3. f.qty \in 1..(Quantity - orders[o].filled)
        BY <2>1, <4>2
      <4>4. booked' = [booked EXCEPT ![o] = orders[o].filled + f.qty]
        BY <2>6 DEF total
      <4> HIDE DEF booked
      <4>. QED BY <4>1, <4>3, <4>4
    <3>3. life' = [life EXCEPT ![o] = IF booked[o] + f.qty = Quantity THEN "closed" ELSE @]
      BY <2>1, <2>7, <3>1 DEF total
    <3>. QED BY <2>1, <3>1, <3>2, <3>3 DEF Lifecycle!Book
  <2>. QED BY <2>8, <2>9
<1>. QED BY <1>1, <1>2, <1>3, <1>4
         DEF OrdersMove, Fill, Lifecycle!Next, Lifecycle!lifecycleVars

\* The order book starts blank.
LEMMA BlankInit == Init => AbsentIsBlank
BY DEF Init, StoreInit, NoRecord, AbsentIsBlank

\* In every state, what is not recorded has nothing booked.
LEMMA BlankInvariant == Spec => []AbsentIsBlank
<1>1. TypeInv /\ AbsentIsBlank /\ [Next]_vars => AbsentIsBlank'
  BY StepMoves, AbsentIsBlankStep DEF TypeInv, TypeOK
<1>. QED BY BlankInit, <1>1, TypeInvariant, PTL DEF Spec

\* Whatever the venue, the threads and the crashes do, an authorisation is opened
\* once, its booked quantity only grows and stays within what was approved, and
\* once closed it stays closed.
THEOREM ImplementsItsLifecycle == Spec => ImplementsLifecycle
<1>1. Init => Lifecycle!Init
  <2> SUFFICES ASSUME Init PROVE Lifecycle!Init
    OBVIOUS
  <2>1. \A o \in Order : orders[o].status = Absent /\ orders[o].filled = 0
    BY DEF Init, StoreInit, NoRecord
  <2>2. \A o \in Order : Life(o) = "none"
    BY <2>1 DEF Life
  <2>. QED BY <2>1, <2>2 DEF Lifecycle!Init
<1>2. TypeInv /\ AbsentIsBlank /\ [Next]_vars => [Lifecycle!Next]_(Lifecycle!lifecycleVars)
  BY StepMoves, OrdersMoveIsLifecycle DEF TypeInv, TypeOK
<1>. QED BY <1>1, <1>2, TypeInvariant, BlankInvariant, PTL
         DEF Spec, ImplementsLifecycle, Lifecycle!Spec

-----------------------------------------------------------------------------
(* What the order book and the venue never take back *)

\* A recorded order stays recorded, in the mode it was created in.
LEMMA OrdersKeep ==
    ASSUME StoreTypeOK, OrdersMove, NEW o \in Order, orders[o].status # Absent
    PROVE  orders'[o].status # Absent /\ orders'[o].shadow = orders[o].shadow
<1> USE DEF StoreTypeOK, OrderRecord
<1>1. ASSUME NEW p \in Order, NEW shadow \in BOOLEAN, CreateOrder(p, shadow)
      PROVE  orders'[o] = orders[o]
  BY <1>1 DEF CreateOrder
<1>2. ASSUME NEW p \in Order, NEW s \in Status, MoveOrder(p, s)
      PROVE  orders'[o].status # Absent /\ orders'[o].shadow = orders[o].shadow
  BY <1>2 DEF MoveOrder, Status, Terminal, Absent
<1>3. ASSUME NEW f \in Fill, MayBook(f), BookFill(f)
      PROVE  orders'[o].status # Absent /\ orders'[o].shadow = orders[o].shadow
  BY <1>3 DEF BookFill, StatusAfter, Fill, Absent
<1>. QED BY <1>1, <1>2, <1>3 DEF OrdersMove

\* A rejection by the venue is final.
LEMMA RejectionIsFinal ==
    ASSUME VenueTypeOK, VenueMove, NEW o \in Order, venue[o].status = "REJECTED"
    PROVE  venue'[o].status = "REJECTED"
<1> USE DEF VenueTypeOK, VenueRecord, WorkingAtVenue
<1>1. ASSUME NEW p \in Order, Accept(p)
      PROVE  venue'[o] = venue[o]
  BY <1>1 DEF Accept, AtVenue, Absent
<1>2. ASSUME NEW p \in Order, Trade(p) \/ Expire(p) \/ Cancel(p) \/ ConfirmCancel(p)
      PROVE  venue'[o] = venue[o]
  BY <1>2 DEF Trade, Expire, Cancel, ConfirmCancel
<1>. QED BY <1>1, <1>2 DEF VenueMove

\* An execution belongs to the order it is listed under, which the venue has.
OwnExecutions ==
    \A o \in Order :
        /\ ~AtVenue(o) => venue[o].fills = {}
        /\ \A f \in venue[o].fills : f.order = o

\* Executions stay executed.
LEMMA ExecutionsStay ==
    ASSUME VenueTypeOK, OwnExecutions, VenueMove
    PROVE  /\ OwnExecutions'
           /\ \A o \in Order : venue[o].fills \subseteq venue'[o].fills
<1> USE DEF VenueTypeOK, VenueRecord, OwnExecutions, AtVenue
<1>1. CASE UNCHANGED venue
  BY <1>1
<1>2. ASSUME NEW p \in Order, Accept(p)
      PROVE  /\ OwnExecutions'
             /\ \A o \in Order : venue[o].fills \subseteq venue'[o].fills
  BY <1>2 DEF Accept, NotAtVenue, Absent
<1>3. ASSUME NEW p \in Order, Trade(p)
      PROVE  /\ OwnExecutions'
             /\ \A o \in Order : venue[o].fills \subseteq venue'[o].fills
  BY <1>3 DEF Trade, WorkingAtVenue, StatusAfter, Absent
<1>4. ASSUME NEW p \in Order, Expire(p) \/ Cancel(p) \/ ConfirmCancel(p)
      PROVE  /\ OwnExecutions'
             /\ \A o \in Order : venue[o].fills \subseteq venue'[o].fills
  BY <1>4 DEF Expire, Cancel, ConfirmCancel, WorkingAtVenue, Absent
<1>. QED BY <1>1, <1>2, <1>3, <1>4 DEF VenueMove

-----------------------------------------------------------------------------
(* Submitters *)

\* The thread that drives an order created it, and is the only one.
Driving ==
    /\ \A s \in Submitter : pc[s] # "idle" =>
        /\ orders[job[s]].status # Absent
        /\ pc[s] # "shadow" => ~orders[job[s]].shadow
    /\ OneSubmitterPerOrder

\* With a lookup that shows every order the venue has, what a thread does next
\* rests on what the venue still says.
AnswersHold ==
    /\ NoBlindResubmit
    /\ RejectedIsTrue
    /\ \A s \in Submitter : pc[s] = "settle" => ~AtVenue(job[s])
    /\ \A t \in Thread :
        pc[t] = "adopt" /\ answer[t] = "REJECTED" => venue[job[t]].status = "REJECTED"

\* A submitter creates the order it drives, and drives no other.
LEMMA SubmitterDriving ==
    ASSUME TypeInv, Driving, NEW s \in Submitter, SubmitterStep(s), OrdersMove, VenueMove
    PROVE  Driving'
<1>1. /\ StoreTypeOK /\ VenueTypeOK /\ ThreadTypeOK
      /\ \A r \in Submitter : pc[r] # "idle" => job[r] \in Order
  BY DEF TypeInv, TypeOK, CallsOK
<1>2. \A o \in Order : orders[o].status # Absent =>
        orders'[o].status # Absent /\ orders'[o].shadow = orders[o].shadow
  BY <1>1, OrdersKeep
<1> USE <1>1, <1>2 DEF Driving, OneSubmitterPerOrder, ThreadTypeOK, Thread, Goto
<1>3. CASE Execute(s)
  <2>1. PICK o \in Order, shadow \in BOOLEAN :
            /\ CreateOrder(o, shadow)
            /\ Goto(s, IF shadow THEN "shadow" ELSE "submit")
            /\ job' = [job EXCEPT ![s] = o]
    BY <1>3 DEF Execute
  <2>2. orders[o].status = Absent
    BY <2>1 DEF CreateOrder
  <2>3. orders'[o].status # Absent /\ orders'[o].shadow = shadow
    BY <2>1, <1>1 DEF CreateOrder, NewRecord, StoreTypeOK, Absent
  <2>4. UNCHANGED venue
    BY <1>3 DEF Execute
  <2>. QED BY <2>1, <2>2, <2>3, <2>4 DEF AtVenue
<1>4. CASE SubmitArrives(s)
  <2>1. \A o \in Order : AtVenue(o)' => AtVenue(o) \/ o = job[s]
    BY <1>4 DEF SubmitArrives, Accept, AtVenue, VenueTypeOK
  <2>. QED BY <1>4, <2>1 DEF SubmitArrives
<1>5. CASE ~SubmitArrives(s) /\ ~Execute(s)
  <2>1. UNCHANGED <<venue, job>> /\ (pc[s] = "idle" => pc'[s] = "idle")
        /\ (pc[s] = "shadow" => pc'[s] \in {"shadow", "idle"})
        /\ \A r \in Submitter \ {s} : pc'[r] = pc[r]
    BY <1>5 DEF SubmitterStep, CloseShadow, SubmitLost, SubmitRefused, SubmitRaises,
                SubmitDuplicate, Reply, ReplyLost, QueryFinds, QueryMisses, NextAttempt,
                QueryFails, AdoptAck, AdoptAnswer, Settle
  <2>. QED BY <2>1 DEF AtVenue
<1>. QED BY <1>3, <1>4, <1>5

\* What is not a step of a submitter leaves the submitters where they are, or
\* crashes them, and sends nothing new to the venue.
LEMMA OthersKeepSubmitters ==
    ASSUME TypeInv, [Next]_vars, ~(\E s \in Submitter : SubmitterStep(s))
    PROVE  /\ \A s \in Submitter :
                /\ pc'[s] \in {pc[s], "idle"} /\ job'[s] = job[s] /\ left'[s] = left[s]
                /\ pc'[s] # "idle" => answer'[s] = answer[s]
           /\ \A o \in Order : AtVenue(o)' => AtVenue(o)
<1>1. VenueTypeOK /\ ThreadTypeOK
  BY DEF TypeInv, TypeOK
<1>2. \A w \in Worker : w \notin Submitter
  BY ThreadAssumption
<1> DEFINE Kept == \A s \in Submitter :
                pc'[s] = pc[s] /\ job'[s] = job[s] /\ answer'[s] = answer[s] /\ left'[s] = left[s]
           NoneNew == \A o \in Order : AtVenue(o)' => AtVenue(o)
<1> USE <1>1, <1>2 DEF ThreadTypeOK, Thread, Goto
<1>3. ASSUME NEW w \in Worker, WorkerStep(w)
      PROVE  Kept /\ NoneNew
  <2>1. CASE VisitCancel(w)
    BY <2>1 DEF VisitCancel, TakeAnswer, ScanFrame, Cancel, AtVenue, WorkingAtVenue,
                VenueTypeOK, VenueRecord, Absent
  <2>2. CASE ~VisitCancel(w)
    <3>1. UNCHANGED <<venue, left>>
      BY <1>3, <2>2
         DEF WorkerStep, TakeFill, RecordFill, CheckApplied, AddFill, PollFills, PollBlind,
             FillsDone, StartRecover, StartCancelStale, VisitFails, VisitPoll, SyncStatus,
             VisitRecover, FetchFills, AdoptStatus, ScanDone, ScanFrame
    <3>2. CASE TakeFill(w) \/ RecordFill(w) \/ CheckApplied(w) \/ AddFill(w) \/ PollFills(w)
               \/ PollBlind(w) \/ FillsDone(w) \/ StartRecover(w) \/ StartCancelStale(w)
      BY <3>1, <3>2 DEF TakeFill, RecordFill, CheckApplied, AddFill, PollFills, PollBlind,
                        FillsDone, StartRecover, StartCancelStale, AtVenue
    <3>3. CASE VisitFails(w) \/ VisitPoll(w) \/ VisitRecover(w) \/ FetchFills(w)
               \/ AdoptStatus(w) \/ ScanDone(w)
      BY <3>1, <3>3 DEF VisitFails, VisitPoll, SyncStatus, VisitRecover, FetchFills,
                        AdoptStatus, AdoptAnswer, ScanDone, TakeAnswer, AtVenue
    <3>. QED BY <1>3, <2>2, <3>2, <3>3 DEF WorkerStep
  <2>. QED BY <2>1, <2>2
<1>4. CASE VenueMoves
  <2>1. \A o \in Order : AtVenue(o)' => AtVenue(o)
    <3>1. PICK o \in Order : Trade(o) \/ Expire(o) \/ ConfirmCancel(o)
      BY <1>4 DEF VenueMoves, VenueStep
    <3>2. CASE Trade(o)
      BY <3>2 DEF Trade, WorkingAtVenue, AtVenue, Absent, VenueTypeOK
    <3>3. CASE Expire(o) \/ ConfirmCancel(o)
      BY <3>3 DEF Expire, ConfirmCancel, WorkingAtVenue, AtVenue, Absent, VenueTypeOK
    <3>. QED BY <3>1, <3>2, <3>3
  <2> HIDE DEF AtVenue
  <2>. QED BY <1>4, <2>1 DEF VenueMoves, threadVars
<1>5. CASE Crash
  BY <1>5 DEF Crash, AtVenue
<1>6. CASE UNCHANGED vars
  BY <1>6 DEF vars, threadVars, AtVenue
<1>. QED BY <1>3, <1>4, <1>5, <1>6 DEF Next

\* Driving is inductive.
LEMMA DrivingStep ==
    ASSUME TypeInv, Driving, [Next]_vars
    PROVE  Driving'
<1>1. OrdersMove /\ VenueMove /\ StoreTypeOK /\ VenueTypeOK /\ ThreadTypeOK
      /\ \A r \in Submitter : pc[r] # "idle" => job[r] \in Order
  BY StepMoves DEF TypeInv, TypeOK, CallsOK
<1>2. \A o \in Order : orders[o].status # Absent =>
        orders'[o].status # Absent /\ orders'[o].shadow = orders[o].shadow
  BY <1>1, OrdersKeep
<1>3. CASE \E s \in Submitter : SubmitterStep(s)
  BY <1>1, <1>3, SubmitterDriving
<1>4. CASE ~(\E s \in Submitter : SubmitterStep(s))
  <2>1. /\ \A s \in Submitter : pc'[s] \in {pc[s], "idle"} /\ job'[s] = job[s]
        /\ \A o \in Order : AtVenue(o)' => AtVenue(o)
    BY <1>4, OthersKeepSubmitters
  <2> HIDE DEF AtVenue
  <2>. QED BY <1>1, <1>2, <2>1 DEF Driving, OneSubmitterPerOrder
<1>. QED BY <1>3, <1>4

\* The thread that drives an order is its creator, in every state.
LEMMA DrivingInvariant == Spec => []Driving
<1>1. Init => Driving
  <2> SUFFICES ASSUME Init PROVE Driving
    OBVIOUS
  <2>1. /\ \A s \in Submitter : pc[s] = "idle"
        /\ \A o \in Order : ~AtVenue(o)
    BY DEF Init, VenueInit, NotAtVenue, AtVenue, Thread
  <2>. QED BY <2>1 DEF Driving, OneSubmitterPerOrder
<1>2. TypeInv /\ Driving /\ [Next]_vars => Driving'
  BY DrivingStep
<1>. QED BY <1>1, <1>2, TypeInvariant, PTL DEF Spec

\* Only the thread that created an order ever drives it to the venue, whatever
\* the number of threads, and never one that runs in shadow mode.
THEOREM OrderHasOneSubmitter == Spec => []OneSubmitterPerOrder
<1>1. Driving => OneSubmitterPerOrder
  BY DEF Driving
<1>. QED BY <1>1, DrivingInvariant, PTL

-----------------------------------------------------------------------------
(* What a thread does next rests on what the venue still says *)

\* Kept by the steps of a submitter.
LEMMA SubmitterAnswers ==
    ASSUME Lagging = FALSE, TypeInv, Driving, AnswersHold,
           NEW s \in Submitter, SubmitterStep(s), VenueMove
    PROVE  AnswersHold'
<1>1. /\ StoreTypeOK /\ VenueTypeOK /\ ThreadTypeOK /\ s \in Thread
      /\ pc[s] # "idle" => job[s] \in Order
  BY DEF TypeInv, TypeOK, CallsOK, Thread
<1>2. \A o \in Order : venue[o].status = "REJECTED" => venue'[o].status = "REJECTED"
  BY <1>1, RejectionIsFinal
<1>3. \A r \in Submitter : pc[s] # "idle" /\ pc[r] # "idle" /\ job[r] = job[s] => r = s
  BY DEF Driving, OneSubmitterPerOrder
<1>4. \A r \in Submitter : pc[r] # "idle" => orders[job[r]].status # Absent
  BY DEF Driving
<1> HIDE DEF AtVenue
<1> USE <1>1, <1>2, <1>3
    DEF AnswersHold, NoBlindResubmit, RejectedIsTrue, ThreadTypeOK, Thread, Goto
<1>5. CASE Execute(s)
  <2>1. PICK o \in Order, shadow \in BOOLEAN :
            /\ CreateOrder(o, shadow)
            /\ Goto(s, IF shadow THEN "shadow" ELSE "submit")
            /\ job' = [job EXCEPT ![s] = o]
            /\ left' = [left EXCEPT ![s] = MaxAttempts]
    BY <1>5 DEF Execute
  <2>2. /\ orders'[o].status = "PENDING_NEW"
        /\ \A p \in Order \ {o} : orders'[p] = orders[p]
    BY <2>1 DEF CreateOrder, NewRecord, StoreTypeOK
  <2>3. UNCHANGED <<venue, answer>>
    BY <1>5 DEF Execute
  <2>4. NoBlindResubmit'
    BY <2>1, <2>3, AttemptsAssumption DEF AtVenue
  <2>5. RejectedIsTrue'
    BY <2>1, <2>2, <2>3 DEF AtVenue
  <2>. QED BY <2>1, <2>3, <2>4, <2>5 DEF AtVenue
<1>6. CASE SubmitArrives(s)
  <2>1. \A o \in Order \ {job[s]} : venue'[o] = venue[o]
    BY <1>6 DEF SubmitArrives, Accept, VenueTypeOK
  <2>2. orders[job[s]].status = "REJECTED" => venue[job[s]].status = "REJECTED"
    BY <1>6 DEF SubmitArrives
  <2>3. /\ UNCHANGED <<orders, job, answer>> /\ pc[s] = "submit"
        /\ pc' = [pc EXCEPT ![s] = "reply"]
        /\ \A r \in Submitter \ {s} : left'[r] = left[r]
    BY <1>6 DEF SubmitArrives
  <2>4. \A r \in Submitter \ {s} : pc[r] # "idle" => job[r] # job[s]
    BY <2>3
  <2>5. NoBlindResubmit'
    BY <2>1, <2>3, <2>4 DEF AtVenue, TypeInv, CallsOK
  <2>6. RejectedIsTrue'
    BY <2>1, <2>2, <2>3 DEF AtVenue
  <2>7. \A r \in Submitter : pc'[r] = "settle" => ~AtVenue(job[r])'
    BY <2>1, <2>3, <2>4 DEF AtVenue, TypeInv, CallsOK
  <2>8. \A t \in Thread : pc'[t] = "adopt" /\ answer'[t] = "REJECTED" =>
            venue'[job'[t]].status = "REJECTED"
    BY <2>3 DEF TypeInv, CallsOK
  <2>. QED BY <2>5, <2>6, <2>7, <2>8
<1>7. CASE CloseShadow(s)
  <2>1. \A o \in Order : orders'[o].status = "REJECTED" => orders[o].status = "REJECTED"
    <3>1. orders' = orders \/ orders' = [orders EXCEPT ![job[s]].status = "CANCELED"]
      BY <1>7 DEF CloseShadow, TryMove, MoveOrder
    <3>2. orders \in [Order -> OrderRecord]
      BY DEF StoreTypeOK
    <3>. QED BY <3>1, <3>2 DEF OrderRecord
  <2>2. UNCHANGED <<venue, job, answer, left>> /\ pc' = [pc EXCEPT ![s] = "idle"]
    BY <1>7 DEF CloseShadow
  <2>. QED BY <2>1, <2>2 DEF AtVenue
<1>8. CASE SubmitLost(s) \/ SubmitRefused(s) \/ SubmitRaises(s) \/ SubmitDuplicate(s)
  BY <1>8 DEF SubmitLost, SubmitRefused, SubmitRaises, SubmitDuplicate, AtVenue
<1>9. CASE Reply(s) \/ ReplyLost(s)
  BY <1>9 DEF Reply, ReplyLost, AtVenue
<1>10. CASE QueryFinds(s) \/ QueryMisses(s) \/ QueryFails(s)
  <2>1. UNCHANGED <<orders, venue, job, left>>
    BY <1>10 DEF QueryFinds, QueryMisses, QueryFails
  <2>2. CASE QueryFinds(s)
    BY <2>1, <2>2 DEF QueryFinds, AtVenue
  <2>3. CASE QueryMisses(s) \/ QueryFails(s)
    BY <2>1, <2>3 DEF QueryMisses, NextAttempt, QueryFails, AtVenue
  <2>. QED BY <1>10, <2>2, <2>3
<1>11. CASE AdoptAck(s)
  <2>1. \A o \in Order : orders'[o].status = "REJECTED" =>
            orders[o].status = "REJECTED" \/ venue[o].status = "REJECTED"
    <3>1. answer[s] = "REJECTED" => venue[job[s]].status = "REJECTED"
      BY <1>11 DEF AdoptAck, AdoptAnswer
    <3>2. orders' = orders \/ orders' = [orders EXCEPT ![job[s]].status = answer[s]]
      BY <1>11 DEF AdoptAck, AdoptAnswer, TryMove, MoveOrder
    <3>3. job[s] \in Order
      BY <1>11 DEF AdoptAck, AdoptAnswer
    <3>. QED BY <3>1, <3>2, <3>3 DEF StoreTypeOK, OrderRecord
  <2>2. /\ UNCHANGED <<venue, job, left>>
        /\ pc' = [pc EXCEPT ![s] = "idle"] /\ answer' = [answer EXCEPT ![s] = None]
    BY <1>11 DEF AdoptAck, AdoptAnswer
  <2>. QED BY <2>1, <2>2 DEF AtVenue
<1>12. CASE Settle(s)
  <2>1. \A o \in Order : orders'[o].status = "REJECTED" =>
            orders[o].status = "REJECTED" \/ o = job[s]
    BY <1>12 DEF Settle, TryMove, MoveOrder, StoreTypeOK, OrderRecord
  <2>2. /\ UNCHANGED <<venue, job, answer, left>>
        /\ pc[s] = "settle" /\ pc' = [pc EXCEPT ![s] = "idle"]
    BY <1>12 DEF Settle
  <2>. QED BY <2>1, <2>2 DEF AtVenue
<1>. QED BY <1>5, <1>6, <1>7, <1>8, <1>9, <1>10, <1>11, <1>12 DEF SubmitterStep

\* Booking an execution rejects no order.
LEMMA BookingIsNoRejection ==
    ASSUME StoreTypeOK, NEW f \in Fill, BookFill(f), NEW o \in Order,
           orders'[o].status = "REJECTED"
    PROVE  orders[o].status = "REJECTED"
BY DEF BookFill, StatusAfter, Fill, StoreTypeOK, OrderRecord

\* Kept by every other step.
LEMMA OtherAnswers ==
    ASSUME TypeInv, AnswersHold, [Next]_vars, ~(\E s \in Submitter : SubmitterStep(s)),
           VenueMove
    PROVE  AnswersHold'
<1>1. /\ StoreTypeOK /\ VenueTypeOK /\ ThreadTypeOK
      /\ \A w \in Worker : pc[w] = "adopt" => job[w] \in Order
      /\ \A s \in Submitter : pc[s] # "idle" => job[s] \in Order
      /\ Submitter \cap Worker = {}
  BY ThreadAssumption DEF TypeInv, TypeOK, CallsOK
<1>2. \A o \in Order : venue[o].status = "REJECTED" => venue'[o].status = "REJECTED"
  BY <1>1, RejectionIsFinal
<1>3. /\ \A s \in Submitter :
            /\ pc'[s] \in {pc[s], "idle"} /\ job'[s] = job[s] /\ left'[s] = left[s]
            /\ pc'[s] # "idle" => answer'[s] = answer[s]
      /\ \A o \in Order : AtVenue(o)' => AtVenue(o)
  BY OthersKeepSubmitters
<1>4. /\ \A o \in Order : orders'[o].status = "REJECTED" =>
            orders[o].status = "REJECTED" \/ venue[o].status = "REJECTED"
      /\ \A w \in Worker : pc'[w] = "adopt" /\ answer'[w] = "REJECTED" =>
            venue'[job'[w]].status = "REJECTED"
  <2>1. ASSUME NEW w \in Worker, WorkerStep(w)
        PROVE  <1>4
    <3> USE <1>1, <1>2 DEF ThreadTypeOK, Thread, Goto
    <3>1. CASE AdoptStatus(w)
      <4>1. answer[w] = "REJECTED" => venue[job[w]].status = "REJECTED"
        BY <3>1 DEF AdoptStatus, AdoptAnswer, AnswersHold
      <4>2. orders' = orders \/ orders' = [orders EXCEPT ![job[w]].status = answer[w]]
        BY <3>1 DEF AdoptStatus, AdoptAnswer, TryMove, MoveOrder
      <4>3. job[w] \in Order
        BY <3>1 DEF AdoptStatus, AdoptAnswer
      <4>4. UNCHANGED <<venue, job>> /\ pc' = [pc EXCEPT ![w] = "scan"]
            /\ answer' = [answer EXCEPT ![w] = None]
        BY <3>1 DEF AdoptStatus, AdoptAnswer
      <4>. QED BY <4>1, <4>2, <4>3, <4>4 DEF StoreTypeOK, OrderRecord, AnswersHold
    <3>2. CASE RecordFill(w)
      <4>1. orders' = orders \/ BookFill(hand[w])
        BY <3>2 DEF RecordFill, storeVars
      <4>2. hand[w] \in Fill
        BY <3>2 DEF RecordFill, TypeInv, CallsOK
      <4>3. \A o \in Order : orders'[o].status = "REJECTED" => orders[o].status = "REJECTED"
        BY <1>1, <4>1, <4>2, BookingIsNoRejection
      <4>. QED BY <3>2, <4>3 DEF RecordFill, AnswersHold
    <3>3. CASE UNCHANGED orders
      <4>1. CASE VisitCancel(w)
        BY <4>1, <3>3 DEF VisitCancel, TakeAnswer, ScanFrame, AnswersHold
      <4>2. CASE VisitPoll(w)
        BY <4>2, <3>3 DEF VisitPoll, SyncStatus, TakeAnswer, AnswersHold
      <4>3. CASE VisitRecover(w)
        BY <4>3, <3>3 DEF VisitRecover, TakeAnswer, AnswersHold
      <4>4. CASE TakeFill(w) \/ CheckApplied(w) \/ AddFill(w) \/ PollFills(w) \/ PollBlind(w)
                 \/ FillsDone(w) \/ StartRecover(w) \/ StartCancelStale(w) \/ VisitFails(w)
                 \/ FetchFills(w) \/ ScanDone(w)
        BY <4>4, <3>3 DEF TakeFill, CheckApplied, AddFill, PollFills, PollBlind, FillsDone,
                          StartRecover, StartCancelStale, VisitFails, FetchFills, ScanDone,
                          AnswersHold
      <4>. QED BY <2>1, <3>1, <3>2, <4>1, <4>2, <4>3, <4>4 DEF WorkerStep
    <3>. QED BY <2>1, <3>1, <3>2, <3>3
             DEF WorkerStep, TakeFill, CheckApplied, AddFill, PollFills, PollBlind, FillsDone,
                 StartRecover, StartCancelStale, VisitFails, VisitPoll, SyncStatus,
                 VisitRecover, VisitCancel, FetchFills, ScanDone, storeVars
  <2>2. CASE VenueMoves \/ UNCHANGED vars
    BY <1>1, <1>2, <2>2
       DEF VenueMoves, vars, threadVars, storeVars, ThreadTypeOK, Thread, AnswersHold, TypeInv,
           CallsOK
  <2>3. CASE Crash
    <3>1. \A o \in Order : orders'[o].status = "REJECTED" => orders[o].status = "REJECTED"
      <4>1. orders' = orders \/ \E f \in Fill : BookFill(f)
        BY <2>3 DEF Crash, TornPut, storeVars, TypeInv, CallsOK
      <4>. QED BY <1>1, <4>1, BookingIsNoRejection
    <3>. QED BY <2>3, <3>1 DEF Crash, Thread
  <2>. QED BY <2>1, <2>2, <2>3 DEF Next
<1> HIDE DEF AtVenue
<1>. QED BY <1>1, <1>2, <1>3, <1>4
         DEF AnswersHold, NoBlindResubmit, RejectedIsTrue, ThreadTypeOK, Thread

\* When a lookup shows every order the venue has, an order is sent again only
\* after the venue said it does not have it, and an order the book calls
\* rejected trades nowhere: for any number of orders, threads, attempts and
\* crashes.
THEOREM SubmissionIsIdempotent ==
    ASSUME Lagging = FALSE
    PROVE  Spec => [](NoBlindResubmit /\ RejectedIsTrue)
<1>1. Init => AnswersHold
  <2> SUFFICES ASSUME Init PROVE AnswersHold
    OBVIOUS
  <2>1. /\ \A t \in Thread : pc[t] = "idle"
        /\ \A o \in Order : orders[o].status = Absent
    BY DEF Init, StoreInit, NoRecord
  <2>. QED BY <2>1 DEF AnswersHold, NoBlindResubmit, RejectedIsTrue, Thread, Absent
<1>2. TypeInv /\ Driving /\ AnswersHold /\ [Next]_vars => AnswersHold'
  BY StepMoves, SubmitterAnswers, OtherAnswers
<1>3. AnswersHold => NoBlindResubmit /\ RejectedIsTrue
  BY DEF AnswersHold
<1>. QED BY <1>1, <1>2, <1>3, TypeInvariant, DrivingInvariant, PTL DEF Spec

\* When a lookup shows every order the venue has, an order the book calls
\* rejected trades nowhere.
THEOREM RejectionsAreTrue == ASSUME Lagging = FALSE PROVE Spec => []RejectedIsTrue
BY SubmissionIsIdempotent, PTL

-----------------------------------------------------------------------------
(* From the order book to the index of fills and to the portfolio *)

\* What is booked stays booked.
LEMMA BookedStays ==
    ASSUME StoreTypeOK, AbsentIsBlank, OrdersMove, NEW o \in Order
    PROVE  orders[o].fills \subseteq orders'[o].fills
<1> USE DEF StoreTypeOK, OrderRecord
<1>1. ASSUME NEW p \in Order, NEW shadow \in BOOLEAN, CreateOrder(p, shadow)
      PROVE  orders[o].fills \subseteq orders'[o].fills
  BY <1>1 DEF CreateOrder, NewRecord, AbsentIsBlank
<1>2. ASSUME NEW p \in Order, NEW s \in Status, MoveOrder(p, s)
      PROVE  orders[o].fills \subseteq orders'[o].fills
  BY <1>2 DEF MoveOrder
<1>3. ASSUME NEW f \in Fill, MayBook(f), BookFill(f)
      PROVE  orders[o].fills \subseteq orders'[o].fills
  BY <1>3 DEF BookFill, Fill
<1>. QED BY <1>1, <1>2, <1>3 DEF OrdersMove

\* A fill enters the index only in a step that books it.
LEMMA IndexMoves ==
    ASSUME TypeInv, [Next]_vars
    PROVE  \/ UNCHANGED fillIndex
           \/ \E f \in Fill : BookFill(f) /\ IndexFill(f)
<1>1. CASE \E s \in Submitter : SubmitterStep(s)
  <2>1. PICK s \in Submitter : SubmitterStep(s)
    BY <1>1
  <2>. QED BY <2>1
           DEF SubmitterStep, Execute, CloseShadow, SubmitArrives, SubmitLost, SubmitRefused,
               SubmitRaises, SubmitDuplicate, Reply, ReplyLost, QueryFinds, QueryMisses,
               QueryFails, AdoptAck, Settle, SubmitterFrame
<1>2. ASSUME NEW w \in Worker, WorkerStep(w)
      PROVE  \/ UNCHANGED fillIndex
             \/ \E f \in Fill : BookFill(f) /\ IndexFill(f)
  <2>1. CASE RecordFill(w)
    BY <2>1 DEF RecordFill, storeVars, TypeInv, CallsOK
  <2>2. CASE ~RecordFill(w)
    BY <1>2, <2>2
       DEF WorkerStep, TakeFill, CheckApplied, AddFill, PollFills, PollBlind, FillsDone,
           StartRecover, StartCancelStale, VisitFails, VisitPoll, SyncStatus, VisitRecover,
           VisitCancel, FetchFills, AdoptStatus, ScanDone, ScanFrame, storeVars
  <2>. QED BY <2>1, <2>2
<1>3. CASE VenueMoves \/ Crash \/ UNCHANGED vars
  BY <1>3 DEF VenueMoves, Crash, TornPut, vars, storeVars
<1>. QED BY <1>1, <1>2, <1>3 DEF Next

\* A fill that polls skip as already found is booked in its order, whichever put
\* of record_fill() a crash came after.
THEOREM IndexIsBooked == Spec => []IndexedFillsAreBooked
<1>1. Init => IndexedFillsAreBooked
  BY DEF Init, StoreInit, IndexedFillsAreBooked
<1>2. ASSUME TypeInv, AbsentIsBlank, IndexedFillsAreBooked, [Next]_vars
      PROVE  IndexedFillsAreBooked'
  <2>1. StoreTypeOK /\ OrdersMove /\ fillIndex \subseteq Fill
    BY <1>2, StepMoves DEF TypeInv, TypeOK, StoreTypeOK
  <2>2. \A f \in fillIndex : f \in orders'[f.order].fills
    BY <1>2, <2>1, BookedStays DEF IndexedFillsAreBooked, Fill
  <2>3. ASSUME NEW f \in Fill, BookFill(f)
        PROVE  f \in orders'[f.order].fills
    BY <2>1, <2>3 DEF BookFill, Fill, StoreTypeOK, OrderRecord
  <2>. QED BY <1>2, <2>2, <2>3, IndexMoves DEF IndexFill, IndexedFillsAreBooked
<1>. QED BY <1>1, <1>2, TypeInvariant, BlankInvariant, PTL DEF Spec

\* A step of a submitter books nothing and takes nothing from the workers.
LEMMA SubmitterBooksNothing ==
    ASSUME TypeInv, AbsentIsBlank, NEW s \in Submitter, SubmitterStep(s)
    PROVE  /\ \A o \in Order : orders'[o].fills = orders[o].fills
           /\ UNCHANGED <<applied, hand, crashes>>
           /\ \A w \in Worker : pc'[w] = pc[w]
<1>1. /\ StoreTypeOK /\ ThreadTypeOK /\ (pc[s] # "idle" => job[s] \in Order)
      /\ \A w \in Worker : w # s
  BY ThreadAssumption DEF TypeInv, TypeOK, CallsOK
<1>2. SubmitterFrame /\ \A w \in Worker : pc'[w] = pc[w]
  BY <1>1 DEF SubmitterStep, Execute, CloseShadow, SubmitArrives, SubmitLost, SubmitRefused,
              SubmitRaises, SubmitDuplicate, Reply, ReplyLost, QueryFinds, QueryMisses,
              QueryFails, NextAttempt, AdoptAck, AdoptAnswer, Settle, Goto, ThreadTypeOK, Thread
<1>3. \/ UNCHANGED orders
      \/ \E o \in Order, shadow \in BOOLEAN : CreateOrder(o, shadow)
      \/ \E o \in Order, st \in {"CANCELED", "REJECTED", answer[s]} : MoveOrder(o, st)
  BY <1>1 DEF SubmitterStep, Execute, CloseShadow, SubmitArrives, SubmitLost, SubmitRefused,
              SubmitRaises, SubmitDuplicate, Reply, ReplyLost, QueryFinds, QueryMisses,
              QueryFails, AdoptAck, AdoptAnswer, Settle, TryMove
<1>4. \A o \in Order : orders'[o].fills = orders[o].fills
  <2>1. ASSUME NEW p \in Order, NEW shadow \in BOOLEAN, CreateOrder(p, shadow)
        PROVE  \A o \in Order : orders'[o].fills = orders[o].fills
    BY <1>1, <2>1 DEF CreateOrder, NewRecord, AbsentIsBlank, StoreTypeOK, OrderRecord
  <2>2. ASSUME NEW p \in Order, NEW st, MoveOrder(p, st)
        PROVE  \A o \in Order : orders'[o].fills = orders[o].fills
    BY <1>1, <2>2 DEF MoveOrder, StoreTypeOK, OrderRecord
  <2>. QED BY <1>3, <2>1, <2>2
<1>. QED BY <1>2, <1>4 DEF SubmitterFrame, portfolioVars

\* On its way to the portfolio.
OnItsWay(f) == f \in applied \/ \E w \in Worker : pc[w] \in {"apply", "add"} /\ hand[w] = f

\* A step of a worker takes a fill it books on its way, and loses none.
LEMMA WorkerDelivers ==
    ASSUME TypeInv, NEW w \in Worker, WorkerStep(w)
    PROVE  /\ \A f : OnItsWay(f) => OnItsWay(f)'
           /\ \A o \in Order : \A f \in orders'[o].fills :
                f \in orders[o].fills \/ OnItsWay(f)'
<1>1. /\ StoreTypeOK /\ ThreadTypeOK
      /\ pc[w] \in {"fetch", "adopt"} => job[w] \in Order
      /\ pc[w] = "record" => hand[w] \in Fill
  BY DEF TypeInv, TypeOK, CallsOK
<1> USE <1>1 DEF ThreadTypeOK, Thread, Goto, OnItsWay
<1>2. CASE RecordFill(w)
  <2>1. \A v \in Worker : pc[v] \in {"apply", "add"} =>
            v # w /\ pc'[v] = pc[v] /\ hand'[v] = hand[v]
    BY <1>2 DEF RecordFill
  <2>2. CASE BookFill(hand[w]) /\ pc' = [pc EXCEPT ![w] = "apply"] /\ UNCHANGED hand
    <3>1. \A o \in Order : orders'[o].fills \subseteq orders[o].fills \cup {hand[w]}
      BY <1>2, <2>2 DEF RecordFill, BookFill, StoreTypeOK, OrderRecord, Fill
    <3>. QED BY <1>2, <2>1, <2>2, <3>1 DEF RecordFill, portfolioVars
  <2>3. CASE UNCHANGED orders
    BY <1>2, <2>1, <2>3 DEF RecordFill, portfolioVars
  <2>. QED BY <1>2, <2>2, <2>3 DEF RecordFill, storeVars
<1>3. CASE CheckApplied(w)
  BY <1>3 DEF CheckApplied, IsApplied, storeVars, portfolioVars
<1>4. CASE AddFill(w)
  BY <1>4 DEF AddFill, ApplyFill, storeVars
<1>5. CASE TakeFill(w)
  BY <1>5 DEF TakeFill, storeVars, portfolioVars
<1>6. CASE ~RecordFill(w) /\ ~CheckApplied(w) /\ ~AddFill(w) /\ ~TakeFill(w)
  <2>1. /\ ScanFrame /\ pc[w] \notin {"apply", "add"}
        /\ \A v \in Worker \ {w} : pc'[v] = pc[v]
    BY <1>6, WorkerStep(w)
       DEF WorkerStep, PollFills, PollBlind, FillsDone, StartRecover, StartCancelStale,
           VisitFails, VisitPoll, SyncStatus, VisitRecover, VisitCancel, FetchFills,
           AdoptStatus, AdoptAnswer, ScanDone, TakeAnswer
  <2>2. UNCHANGED orders \/ AdoptStatus(w)
    BY <1>6, WorkerStep(w)
       DEF WorkerStep, PollFills, PollBlind, FillsDone, StartRecover, StartCancelStale,
           VisitFails, VisitPoll, SyncStatus, VisitRecover, VisitCancel, FetchFills, ScanDone
  <2>3. \A o \in Order : orders'[o].fills = orders[o].fills
    BY <2>2 DEF AdoptStatus, AdoptAnswer, TryMove, MoveOrder, StoreTypeOK, OrderRecord
  <2>. QED BY <2>1, <2>3 DEF ScanFrame, portfolioVars
<1>. QED BY <1>2, <1>3, <1>4, <1>5, <1>6

\* Until a crash, what is booked is in the portfolio or in the hands of a worker
\* on its way there, however many workers poll and recover at once.
THEOREM BookReachesPortfolio == Spec => []BookedReachesPortfolio
<1>1. Init => BookedReachesPortfolio
  BY DEF Init, StoreInit, NoRecord, BookedReachesPortfolio
<1>2. ASSUME TypeInv, AbsentIsBlank, BookedReachesPortfolio, [Next]_vars
      PROVE  BookedReachesPortfolio'
  <2>1. CASE Crash
    BY <1>2, <2>1, CrashAssumption DEF Crash, TypeInv, TypeOK, BookedReachesPortfolio
  <2>2. ASSUME NEW s \in Submitter, SubmitterStep(s)
        PROVE  BookedReachesPortfolio'
    BY <1>2, <2>2, SubmitterBooksNothing DEF BookedReachesPortfolio
  <2>3. ASSUME NEW w \in Worker, WorkerStep(w)
        PROVE  BookedReachesPortfolio'
    <3>1. crashes' = crashes
      BY <2>3
         DEF WorkerStep, TakeFill, RecordFill, CheckApplied, AddFill, PollFills, PollBlind,
             FillsDone, StartRecover, StartCancelStale, VisitFails, VisitPoll, SyncStatus,
             VisitRecover, VisitCancel, FetchFills, AdoptStatus, ScanDone, ScanFrame
    <3>. QED BY <1>2, <2>3, <3>1, WorkerDelivers DEF OnItsWay, BookedReachesPortfolio
  <2>4. CASE VenueMoves \/ UNCHANGED vars
    BY <1>2, <2>4 DEF VenueMoves, vars, storeVars, portfolioVars, threadVars,
                      BookedReachesPortfolio
  <2>. QED BY <1>2, <2>1, <2>2, <2>3, <2>4 DEF Next
<1>. QED BY <1>1, <1>2, TypeInvariant, BlankInvariant, PTL DEF Spec

-----------------------------------------------------------------------------
(* The quantity booked is the sum of the executions booked *)

\* The quantity of each fill, as a weight.
FillQty == [f \in Fill |-> f.qty]

\* The sum of the quantities of some fills, as BookMatchesExecutions takes it.
QtySum(S) == MapThenSumSet(LAMBDA f : f.qty, S)

\* It is their sum by weight.
LEMMA QtySumIsSum ==
    ASSUME NEW S \in SUBSET Fill, IsFiniteSet(S)
    PROVE  QtySum(S) = SumOver(FillQty, S)
<1> DEFINE T(s, g) == IF s = {} THEN 0 ELSE Picked(s).qty + g[s \ {Picked(s)}]
           Q(g) == g = [s \in SUBSET S |-> T(s, g)]
<1>1. QtySum(S) = (CHOOSE g : Q(g))[S]
  BY DEF QtySum, MapThenSumSet, MapThenFoldSet, Picked
<1>2. \A s \in SUBSET S : \A g : T(s, g) = Total(FillQty, s, g)
  BY PickedIn DEF FillQty, Total
<1>3. \A g : Q(g) <=> Adds(FillQty, S, g)
  BY <1>2 DEF Adds
<1>4. \E g : Q(g)
  BY <1>3, SumIsAdded
<1> HIDE DEF Q
<1>5. Q(CHOOSE g : Q(g))
  BY <1>4
<1>. QED BY <1>1, <1>3, <1>5, SumIsSolution

\* What a worker is to book is an execution of the venue.
CarriesExecutions ==
    \A w \in Worker :
        /\ \A f \in todo[w] : f \in venue[f.order].fills
        /\ pc[w] \in {"record", "apply", "add"} => hand[w] \in venue[hand[w].order].fills

\* A step of a worker takes up nothing but executions.
LEMMA WorkerCarries ==
    ASSUME TypeInv, OwnExecutions, CarriesExecutions, NEW w \in Worker, WorkerStep(w), VenueMove
    PROVE  CarriesExecutions'
<1>1. /\ ThreadTypeOK /\ VenueTypeOK
      /\ pc[w] \in {"fetch", "adopt"} => job[w] \in Order
  BY DEF TypeInv, TypeOK, CallsOK
<1>2. \A f \in Fill : f \in venue[f.order].fills => f \in venue'[f.order].fills
  BY <1>1, ExecutionsStay DEF Fill
<1>3. \A f \in VenueFills : f \in venue[f.order].fills
  BY DEF VenueFills, OwnExecutions
<1>4. pc[w] = "fetch" => \A f \in venue[job[w]].fills : f \in venue[f.order].fills
  BY <1>1 DEF OwnExecutions
<1>5. /\ \A v \in Worker : todo[v] \subseteq Fill
      /\ \A v \in Worker : pc[v] \in {"record", "apply", "add"} => hand[v] \in Fill
  BY DEF TypeInv, TypeOK, ThreadTypeOK, CallsOK
<1>6. ASSUME NEW v \in Worker
      PROVE  \A f \in todo[v] : f \in venue'[f.order].fills
  BY <1>2, <1>5 DEF CarriesExecutions
<1>7. ASSUME NEW v \in Worker, pc[v] \in {"record", "apply", "add"}
      PROVE  hand[v] \in venue'[hand[v].order].fills
  BY <1>2, <1>5, <1>7 DEF CarriesExecutions
<1> DEFINE Safe(v) ==
        /\ \A f \in todo'[v] : f \in venue'[f.order].fills
        /\ pc'[v] \in {"record", "apply", "add"} => hand'[v] \in venue'[hand'[v].order].fills
<1>8. ASSUME NEW v \in Worker, todo'[v] = todo[v], hand'[v] = hand[v],
             pc'[v] \in {"record", "apply", "add"} => pc[v] \in {"record", "apply", "add"}
      PROVE  Safe(v)
  BY <1>6, <1>7, <1>8
<1>9. ASSUME NEW v \in Worker, v # w
      PROVE  todo'[v] = todo[v] /\ hand'[v] = hand[v] /\ pc'[v] = pc[v]
  BY <1>1, <1>9, WorkerStep(w)
     DEF WorkerStep, TakeFill, RecordFill, CheckApplied, AddFill, PollFills, PollBlind,
         FillsDone, StartRecover, StartCancelStale, VisitFails, VisitPoll, SyncStatus,
         VisitRecover, VisitCancel, FetchFills, AdoptStatus, AdoptAnswer, ScanDone, ScanFrame,
         TakeAnswer, Goto, ThreadTypeOK, Thread
<1>10. Safe(w)
  <2> USE <1>1 DEF ThreadTypeOK, Thread, Goto
  <2>1. CASE TakeFill(w)
    <3>1. PICK f \in todo[w] :
            /\ todo' = [todo EXCEPT ![w] = @ \ {f}]
            /\ IF f \in fillIndex
               THEN UNCHANGED <<pc, hand>>
               ELSE Goto(w, "record") /\ hand' = [hand EXCEPT ![w] = f]
      BY <2>1 DEF TakeFill
    <3>2. pc[w] = "fills" /\ todo'[w] \subseteq todo[w] /\ f \in venue'[f.order].fills
      BY <2>1, <3>1, <1>6 DEF TakeFill
    <3>. QED BY <1>6, <3>1, <3>2
  <2>2. CASE RecordFill(w)
    <3>1. todo'[w] = todo[w] /\ pc[w] = "record"
      BY <2>2 DEF RecordFill
    <3>2. hand'[w] = hand[w] \/ pc'[w] = "fills"
      BY <2>2 DEF RecordFill
    <3>. QED BY <1>6, <1>7, <3>1, <3>2
  <2>3. CASE CheckApplied(w) \/ AddFill(w)
    <3>1. todo'[w] = todo[w] /\ pc[w] \in {"apply", "add"}
      BY <2>3 DEF CheckApplied, AddFill
    <3>2. hand'[w] = hand[w] \/ pc'[w] = "fills"
      BY <2>3 DEF CheckApplied, AddFill
    <3>. QED BY <1>6, <1>7, <3>1, <3>2
  <2>4. CASE PollFills(w)
    <3>1. todo'[w] = VenueFills /\ pc'[w] = "fills" /\ venue' = venue
      BY <2>4 DEF PollFills
    <3>. QED BY <1>3, <3>1
  <2>5. CASE FetchFills(w)
    <3>1. todo'[w] \in {{}, venue[job[w]].fills} /\ pc'[w] = "fills" /\ venue' = venue
          /\ pc[w] = "fetch"
      BY <2>5 DEF FetchFills
    <3>. QED BY <1>4, <3>1
  <2>6. CASE PollBlind(w) \/ FillsDone(w) \/ StartRecover(w) \/ StartCancelStale(w)
             \/ VisitFails(w) \/ VisitPoll(w) \/ VisitRecover(w) \/ VisitCancel(w)
             \/ AdoptStatus(w) \/ ScanDone(w)
    <3>1. todo'[w] = todo[w] /\ hand'[w] = hand[w] /\ pc'[w] \notin {"record", "apply", "add"}
      BY <2>6 DEF PollBlind, FillsDone, StartRecover, StartCancelStale, VisitFails, VisitPoll,
                  SyncStatus, VisitRecover, VisitCancel, AdoptStatus, AdoptAnswer, ScanDone,
                  ScanFrame, TakeAnswer
    <3>. QED BY <1>8, <3>1
  <2>. QED BY <2>1, <2>2, <2>3, <2>4, <2>5, <2>6 DEF WorkerStep
<1>. QED BY <1>8, <1>9, <1>10 DEF CarriesExecutions

\* No other step takes up anything, and every execution stays one.
LEMMA StepCarries ==
    ASSUME TypeInv, OwnExecutions, CarriesExecutions, [Next]_vars
    PROVE  CarriesExecutions' /\ OwnExecutions'
<1>1. VenueMove /\ VenueTypeOK /\ ThreadTypeOK
  BY StepMoves DEF TypeInv, TypeOK
<1>2. /\ OwnExecutions'
      /\ \A o \in Order : venue[o].fills \subseteq venue'[o].fills
  BY <1>1, ExecutionsStay
<1>3. CASE \E w \in Worker : WorkerStep(w)
  BY <1>1, <1>2, <1>3, WorkerCarries
<1>4. ASSUME \A w \in Worker : todo'[w] = todo[w] /\ hand'[w] = hand[w] /\ pc'[w] = pc[w]
      PROVE  CarriesExecutions'
  BY <1>1, <1>2, <1>4 DEF CarriesExecutions, TypeInv, CallsOK, ThreadTypeOK, Fill
<1>5. ASSUME NEW s \in Submitter, SubmitterStep(s)
      PROVE  \A w \in Worker : todo'[w] = todo[w] /\ hand'[w] = hand[w] /\ pc'[w] = pc[w]
  <2>1. SubmitterFrame
    BY <1>5 DEF SubmitterStep, Execute, CloseShadow, SubmitArrives, SubmitLost, SubmitRefused,
                SubmitRaises, SubmitDuplicate, Reply, ReplyLost, QueryFinds, QueryMisses,
                QueryFails, AdoptAck, Settle
  <2>2. \A w \in Worker : w # s
    BY ThreadAssumption
  <2>3. \A w \in Worker : pc'[w] = pc[w]
    BY <1>1, <1>5, <2>2
       DEF SubmitterStep, Execute, CloseShadow, SubmitArrives, SubmitLost, SubmitRefused,
           SubmitRaises, SubmitDuplicate, Reply, ReplyLost, QueryFinds, QueryMisses,
           QueryFails, NextAttempt, AdoptAck, AdoptAnswer, Settle, Goto, ThreadTypeOK, Thread
  <2>. QED BY <2>1, <2>3 DEF SubmitterFrame
<1>6. CASE VenueMoves \/ UNCHANGED vars
  BY <1>2, <1>4, <1>6 DEF VenueMoves, vars, threadVars
<1>7. CASE Crash
  BY <1>2, <1>7 DEF Crash, CarriesExecutions, Thread
<1>. QED BY <1>2, <1>3, <1>4, <1>5, <1>6, <1>7 DEF Next

\* The book as it was, but for statuses and new blank records.
BooksNothing ==
    \A o \in Order : orders'[o].fills = orders[o].fills /\ orders'[o].filled = orders[o].filled

\* Neither a creation nor a move of a status books anything.
LEMMA MovesBookNothing ==
    ASSUME StoreTypeOK, AbsentIsBlank,
           \/ UNCHANGED orders
           \/ \E o \in Order, shadow \in BOOLEAN : CreateOrder(o, shadow)
           \/ \E o \in Order, s \in Status : MoveOrder(o, s)
    PROVE  BooksNothing
<1>1. ASSUME NEW o \in Order, NEW shadow \in BOOLEAN, CreateOrder(o, shadow)
      PROVE  BooksNothing
  BY <1>1 DEF BooksNothing, CreateOrder, NewRecord, AbsentIsBlank, StoreTypeOK, OrderRecord
<1>2. ASSUME NEW o \in Order, NEW s \in Status, MoveOrder(o, s)
      PROVE  BooksNothing
  BY <1>2 DEF BooksNothing, MoveOrder, StoreTypeOK, OrderRecord
<1>. QED BY <1>1, <1>2 DEF BooksNothing

\* No step of a submitter books anything.
LEMMA SubmittersBookNothing ==
    ASSUME TypeInv, AbsentIsBlank, NEW s \in Submitter, SubmitterStep(s)
    PROVE  BooksNothing
<1>1. /\ StoreTypeOK
      /\ pc[s] # "idle" => job[s] \in Order
      /\ pc[s] = "adopt" => answer[s] \in Status
      /\ {"CANCELED", "REJECTED"} \subseteq Status
  BY DEF TypeInv, TypeOK, CallsOK, Thread, Status, Terminal
<1>2. \/ UNCHANGED orders
      \/ \E o \in Order, shadow \in BOOLEAN : CreateOrder(o, shadow)
      \/ \E o \in Order, st \in Status : MoveOrder(o, st)
  BY <1>1 DEF SubmitterStep, Execute, CloseShadow, SubmitArrives, SubmitLost, SubmitRefused,
              SubmitRaises, SubmitDuplicate, Reply, ReplyLost, QueryFinds, QueryMisses,
              QueryFails, AdoptAck, AdoptAnswer, Settle, TryMove
<1>. QED BY <1>1, <1>2, MovesBookNothing

\* Nor does a step of a worker but record_fill().
LEMMA OnlyRecordFillBooks ==
    ASSUME TypeInv, AbsentIsBlank, NEW w \in Worker, WorkerStep(w), ~RecordFill(w)
    PROVE  BooksNothing
<1>1. /\ StoreTypeOK
      /\ pc[w] = "adopt" => job[w] \in Order
      /\ pc[w] = "adopt" => answer[w] \in Status
  BY DEF TypeInv, TypeOK, CallsOK, Thread
<1>2. UNCHANGED orders \/ \E o \in Order, st \in Status : MoveOrder(o, st)
  BY <1>1
     DEF WorkerStep, TakeFill, CheckApplied, AddFill, PollFills, PollBlind, FillsDone,
         StartRecover, StartCancelStale, VisitFails, VisitPoll, SyncStatus, VisitRecover,
         VisitCancel, FetchFills, AdoptStatus, AdoptAnswer, ScanDone, TryMove, storeVars
<1>. QED BY <1>1, <1>2, MovesBookNothing

\* A step books nothing, or one more execution of the venue that fits.
LEMMA StepBooks ==
    ASSUME TypeInv, AbsentIsBlank, CarriesExecutions, [Next]_vars
    PROVE  \/ BooksNothing
           \/ \E f \in Fill : f \in venue[f.order].fills /\ MayBook(f) /\ BookFill(f)
<1>1. /\ StoreTypeOK
      /\ \A w \in Worker : pc[w] = "record" =>
            hand[w] \in Fill /\ hand[w] \in venue[hand[w].order].fills
  BY DEF TypeInv, TypeOK, CallsOK, CarriesExecutions
<1>2. ASSUME NEW s \in Submitter, SubmitterStep(s)
      PROVE  BooksNothing
  BY <1>2, SubmittersBookNothing
<1>3. ASSUME NEW w \in Worker, WorkerStep(w), ~RecordFill(w)
      PROVE  BooksNothing
  BY <1>3, OnlyRecordFillBooks
<1>4. ASSUME NEW w \in Worker, RecordFill(w)
      PROVE  \/ BooksNothing
             \/ \E f \in Fill : f \in venue[f.order].fills /\ MayBook(f) /\ BookFill(f)
  BY <1>1, <1>4, MovesBookNothing DEF RecordFill, storeVars
<1>5. CASE Crash
  BY <1>1, <1>5, MovesBookNothing DEF Crash, TornPut, storeVars
<1>6. CASE VenueMoves \/ UNCHANGED vars
  BY <1>1, <1>6, MovesBookNothing DEF VenueMoves, vars, storeVars
<1>. QED BY <1>2, <1>3, <1>4, <1>5, <1>6 DEF Next

\* BookMatchesExecutions, by the sum that QtySumIsSum is about.
SumsMatch ==
    \A o \in Order : /\ orders[o].fills \subseteq venue[o].fills
                     /\ orders[o].filled = QtySum(orders[o].fills)

\* The sum over the executions booked stays the quantity booked.
LEMMA SumsStep ==
    ASSUME TypeInv, AbsentIsBlank, OwnExecutions, CarriesExecutions, SumsMatch, [Next]_vars
    PROVE  SumsMatch'
<1>1. /\ StoreTypeOK /\ VenueTypeOK /\ VenueMove
      /\ \A o \in Order : IsFiniteSet(venue[o].fills) /\ venue[o].fills \subseteq Fill
  BY StepMoves DEF TypeInv, TypeOK, ExecutionsCounted, VenueTypeOK, VenueRecord
<1>2. \A o \in Order : venue[o].fills \subseteq venue'[o].fills
  BY <1>1, ExecutionsStay
<1>3. \A o \in Order : orders[o].fills \subseteq venue[o].fills
                       /\ orders[o].filled = QtySum(orders[o].fills)
  BY DEF SumsMatch
<1> DEFINE Matches(o) == /\ orders'[o].fills \subseteq venue'[o].fills
                         /\ orders'[o].filled = QtySum(orders'[o].fills)
<1>4. ASSUME NEW o \in Order, orders'[o].fills = orders[o].fills,
             orders'[o].filled = orders[o].filled
      PROVE  Matches(o)
  BY <1>2, <1>3, <1>4
<1>5. ASSUME NEW f \in Fill, f \in venue[f.order].fills, MayBook(f), BookFill(f), NEW o \in Order
      PROVE  Matches(o)
  <2>1. CASE o # f.order
    BY <1>1, <1>4, <1>5, <2>1 DEF BookFill, StoreTypeOK
  <2>2. CASE o = f.order
    <3> DEFINE S == orders[o].fills
    <3>1. f \notin S
      BY <1>5, <2>2 DEF MayBook, IsRedelivery
    <3>2. /\ orders'[o].fills = S \cup {f}
          /\ orders'[o].filled = orders[o].filled + f.qty
      BY <1>1, <1>5, <2>2 DEF BookFill, StoreTypeOK, OrderRecord
    <3>3. S \subseteq venue[o].fills /\ S \subseteq Fill /\ IsFiniteSet(S)
      BY <1>1, <1>3, FS_Subset
    <3>4. S \cup {f} \subseteq venue'[o].fills
      BY <1>2, <1>5, <2>2, <3>3
    <3>5. S \cup {f} \subseteq Fill /\ IsFiniteSet(S \cup {f})
      BY <3>3, FS_AddElement
    <3> HIDE DEF S
    <3>6. QtySum(S) = SumOver(FillQty, S) /\ QtySum(S \cup {f}) = SumOver(FillQty, S \cup {f})
      BY <3>3, <3>5, QtySumIsSum
    <3>7. \A x \in Fill : FillQty[x] = x.qty /\ FillQty[x] \in Int
      BY QuantityAssumption DEF FillQty, Fill
    <3>8. SumOver(FillQty, S \cup {f}) = SumOver(FillQty, S) + f.qty
      <4>1. \A x \in S \cup {f} : FillQty[x] \in Int
        BY <3>5, <3>7
      <4>2. SumOver(FillQty, S \cup {f}) = SumOver(FillQty, S) + FillQty[f]
        BY <3>1, <3>3, <4>1, SumTakesIn
      <4>. QED BY <3>7, <4>2
    <3>9. orders[o].filled = QtySum(S)
      BY <1>3 DEF S
    <3>. QED BY <3>2, <3>4, <3>6, <3>8, <3>9
  <2>. QED BY <2>1, <2>2
<1>6. \A o \in Order : Matches(o)
  BY <1>4, <1>5, StepBooks DEF BooksNothing
<1>. QED BY <1>6 DEF SumsMatch

\* What workers carry was executed, and fills add up, in every state.
LEMMA SumsInvariant == Spec => [](OwnExecutions /\ CarriesExecutions /\ SumsMatch)
<1>1. Init => OwnExecutions /\ CarriesExecutions /\ SumsMatch
  <2> SUFFICES ASSUME Init PROVE OwnExecutions /\ CarriesExecutions /\ SumsMatch
    OBVIOUS
  <2>1. \A o \in Order : orders[o].fills = {} /\ orders[o].filled = 0 /\ venue[o].fills = {}
    BY DEF Init, StoreInit, NoRecord, VenueInit, NotAtVenue
  <2>2. QtySum({}) = 0
    BY QtySumIsSum, SumOfNone, FS_EmptySet
  <2>. QED BY <2>1, <2>2
           DEF Init, OwnExecutions, CarriesExecutions, SumsMatch, Thread
<1>2. TypeInv /\ AbsentIsBlank /\ OwnExecutions /\ CarriesExecutions /\ SumsMatch
        /\ [Next]_vars => (OwnExecutions /\ CarriesExecutions /\ SumsMatch)'
  BY StepCarries, SumsStep
<1>. QED BY <1>1, <1>2, TypeInvariant, BlankInvariant, PTL DEF Spec

\* However fills are redelivered, polled by several workers at once or caught by a
\* crash between two puts, the quantity the book has for an order is the sum of
\* its fills, each counted once, and each of them was executed by the venue.
THEOREM BookIsTheSumOfExecutions == Spec => []BookMatchesExecutions
<1>1. SumsMatch => BookMatchesExecutions
  BY DEF SumsMatch, QtySum, BookMatchesExecutions
<1>. QED BY <1>1, SumsInvariant, PTL

-----------------------------------------------------------------------------
(* What is booked, applied and on its way *)

\* The quantity booked for each order.
Booked == [o \in Order |-> orders[o].filled]

\* The sum of PositionAgreesWithBook over the orders is a sum by weight.
LEMMA BookedSumIsSum ==
    ASSUME IsFiniteSet(Order)
    PROVE  MapThenSumSet(LAMBDA o : orders[o].filled, Order) = SumOver(Booked, Order)
<1> DEFINE T(s, g) == IF s = {} THEN 0 ELSE orders[Picked(s)].filled + g[s \ {Picked(s)}]
           Q(g) == g = [s \in SUBSET Order |-> T(s, g)]
<1>1. MapThenSumSet(LAMBDA o : orders[o].filled, Order) = (CHOOSE g : Q(g))[Order]
  BY DEF MapThenSumSet, MapThenFoldSet, Picked
<1>2. \A s \in SUBSET Order : \A g : T(s, g) = Total(Booked, s, g)
  BY PickedIn DEF Booked, Total
<1>3. \A g : Q(g) <=> Adds(Booked, Order, g)
  BY <1>2 DEF Adds
<1>4. \E g : Q(g)
  BY <1>3, SumIsAdded
<1> HIDE DEF Q
<1>5. Q(CHOOSE g : Q(g))
  BY <1>4
<1>. QED BY <1>1, <1>3, <1>5, SumIsSolution

\* What is applied or about to be is booked.
AppliedIsBooked ==
    /\ \A f \in applied : f \in orders[f.order].fills
    /\ \A w \in Worker :
        pc[w] \in {"apply", "add"} => hand[w] \in orders[hand[w].order].fills

\* Booking takes nothing from what is applied, and adds what the worker applies.
LEMMA AppliedStep ==
    ASSUME TypeInv, AbsentIsBlank, AppliedIsBooked, [Next]_vars
    PROVE  AppliedIsBooked'
<1>1. /\ StoreTypeOK /\ ThreadTypeOK /\ applied \subseteq Fill /\ OrdersMove
      /\ \A w \in Worker : pc[w] \in {"record", "apply", "add"} => hand[w] \in Fill
  BY StepMoves DEF TypeInv, TypeOK, CallsOK
<1>2. \A f \in Fill : f \in orders[f.order].fills => f \in orders'[f.order].fills
  BY <1>1, BookedStays DEF Fill
<1>3. /\ \A f \in applied : f \in orders'[f.order].fills
      /\ \A w \in Worker : pc[w] \in {"apply", "add"} => hand[w] \in orders'[hand[w].order].fills
  BY <1>1, <1>2 DEF AppliedIsBooked
<1>4. CASE \E s \in Submitter : SubmitterStep(s)
  BY <1>3, <1>4, SubmitterBooksNothing DEF AppliedIsBooked
<1>5. ASSUME NEW w \in Worker, WorkerStep(w)
      PROVE  AppliedIsBooked'
  <2>1. \A v \in Worker \ {w} : pc'[v] = pc[v] /\ hand'[v] = hand[v]
    BY <1>1, <1>5
       DEF WorkerStep, TakeFill, RecordFill, CheckApplied, AddFill, PollFills, PollBlind,
           FillsDone, StartRecover, StartCancelStale, VisitFails, VisitPoll, SyncStatus,
           VisitRecover, VisitCancel, FetchFills, AdoptStatus, AdoptAnswer, ScanDone,
           ScanFrame, TakeAnswer, Goto, ThreadTypeOK, Thread
  <2>2. /\ \A f \in applied' : f \in applied \/ (pc[w] = "add" /\ f = hand[w])
        /\ pc'[w] \in {"apply", "add"} =>
              \/ pc[w] \in {"apply", "add"} /\ hand'[w] = hand[w]
              \/ RecordFill(w) /\ pc'[w] = "apply"
    BY <1>1, <1>5
       DEF WorkerStep, TakeFill, RecordFill, CheckApplied, AddFill, ApplyFill, PollFills,
           PollBlind, FillsDone, StartRecover, StartCancelStale, VisitFails, VisitPoll,
           SyncStatus, VisitRecover, VisitCancel, FetchFills, AdoptStatus, AdoptAnswer,
           ScanDone, ScanFrame, TakeAnswer, Goto, ThreadTypeOK, Thread, portfolioVars
  <2>3. ASSUME RecordFill(w), pc'[w] = "apply"
        PROVE  hand'[w] \in orders'[hand'[w].order].fills
    <3>1. hand[w] \in Fill /\ hand'[w] = hand[w]
      BY <1>1, <2>3 DEF RecordFill, Goto, ThreadTypeOK, Thread
    <3>2. IsRedelivery(hand[w]) \/ BookFill(hand[w])
      BY <1>1, <2>3 DEF RecordFill, Goto, ThreadTypeOK, Thread
    <3>. QED BY <1>1, <1>2, <3>1, <3>2 DEF IsRedelivery, BookFill, StoreTypeOK, OrderRecord, Fill
  <2>. QED BY <1>3, <2>1, <2>2, <2>3 DEF AppliedIsBooked
<1>6. CASE Crash
  BY <1>6 DEF Crash, LosePortfolio, AppliedIsBooked, Thread
<1>7. CASE VenueMoves \/ UNCHANGED vars
  BY <1>3, <1>7 DEF VenueMoves, vars, storeVars, portfolioVars, threadVars, AppliedIsBooked
<1>. QED BY <1>4, <1>5, <1>6, <1>7 DEF Next

\* The quantity of each order is a number, and moves by what is booked.
LEMMA BookedMoves ==
    ASSUME TypeInv, IsFiniteSet(Order)
    PROVE  /\ SumOver(Booked, Order) \in Int
           /\ BooksNothing => SumOver(Booked, Order)' = SumOver(Booked, Order)
           /\ \A f \in Fill : BookFill(f) =>
                SumOver(Booked, Order)' = SumOver(Booked, Order) + f.qty
<1>1. /\ StoreTypeOK
      /\ \A o \in Order : Booked[o] = orders[o].filled /\ Booked[o] \in Int
      /\ \A o \in Order : Booked'[o] = orders'[o].filled
  BY QuantityAssumption DEF TypeInv, TypeOK, StoreTypeOK, OrderRecord, Booked
<1>2. SumOver(Booked, Order) \in Int
  BY <1>1, SumType
<1>3. ASSUME BooksNothing
      PROVE  SumOver(Booked, Order)' = SumOver(Booked, Order)
  <2>1. Booked' = Booked
    BY <1>3 DEF BooksNothing, Booked
  <2>. QED BY <2>1
<1>4. ASSUME NEW f \in Fill, BookFill(f)
      PROVE  SumOver(Booked, Order)' = SumOver(Booked, Order) + f.qty
  <2>1. f.order \in Order /\ f.qty \in Int
    BY QuantityAssumption DEF Fill
  <2>2. /\ Booked'[f.order] = Booked[f.order] + f.qty
        /\ \A o \in Order \ {f.order} : Booked'[o] = Booked[o]
    BY <1>1, <1>4, <2>1 DEF BookFill, StoreTypeOK, OrderRecord
  <2> DEFINE B == Booked'
  <2>3. \A o \in Order : B[o] \in Int
    BY <1>1, <2>1, <2>2
  <2> HIDE DEF B
  <2>4. SumOver(B, Order) = SumOver(Booked, Order) + (B[f.order] - Booked[f.order])
    <3>1. \A o \in Order \ {f.order} : Booked[o] = B[o]
      BY <2>2 DEF B
    <3>2. \A o \in Order : Booked[o] \in Int /\ B[o] \in Int
      BY <1>1, <2>3
    <3>. QED BY <2>1, <3>1, <3>2, SumShifts
  <2>5. B[f.order] = Booked[f.order] + f.qty
    BY <2>2 DEF B
  <2>6. SumOver(B, Order) = SumOver(Booked, Order) + f.qty
    BY <1>1, <1>2, <2>1, <2>4, <2>5
  <2>. QED BY <2>6 DEF B
<1>. QED BY <1>2, <1>3, <1>4

\* Every fill that is booked for some order.
AllBooked == UNION {orders[o].fills : o \in Order}

\* They add up to what the orders have booked.
BookAddsUp == IsFiniteSet(AllBooked) /\ SumOver(FillQty, AllBooked) = SumOver(Booked, Order)

\* A fill that is booked is booked for one order, and was not booked before.
LEMMA BookAddsUpStep ==
    ASSUME IsFiniteSet(Order), TypeInv, AbsentIsBlank, OwnExecutions, CarriesExecutions,
           SumsMatch, BookAddsUp, [Next]_vars
    PROVE  BookAddsUp'
<1>1. CASE BooksNothing
  <2>1. AllBooked' = AllBooked
    BY <1>1 DEF BooksNothing, AllBooked
  <2>2. SumOver(Booked, Order)' = SumOver(Booked, Order)
    BY <1>1, BookedMoves
  <2>. QED BY <2>1, <2>2 DEF BookAddsUp, FillQty
<1>2. ASSUME NEW f \in Fill, MayBook(f), BookFill(f)
      PROVE  BookAddsUp'
  <2>1. /\ f.order \in Order /\ orders \in [Order -> OrderRecord]
        /\ \A g \in Fill : FillQty[g] = g.qty /\ FillQty[g] \in Int
    BY QuantityAssumption DEF Fill, FillQty, TypeInv, TypeOK, StoreTypeOK
  <2>2. /\ orders'[f.order].fills = orders[f.order].fills \cup {f}
        /\ \A o \in Order \ {f.order} : orders'[o].fills = orders[o].fills
    BY <1>2, <2>1 DEF BookFill, OrderRecord
  <2>3. AllBooked' = AllBooked \cup {f}
    BY <2>1, <2>2 DEF AllBooked
  <2>4. f \notin AllBooked
    <3>1. \A o \in Order : f \in orders[o].fills => o = f.order
      BY DEF SumsMatch, OwnExecutions
    <3>. QED BY <1>2, <3>1 DEF AllBooked, MayBook, IsRedelivery
  <2>5. AllBooked \subseteq Fill
    BY <2>1 DEF AllBooked, OrderRecord
  <2>6. SumOver(FillQty, AllBooked \cup {f}) = SumOver(FillQty, AllBooked) + f.qty
    <3>1. \A g \in AllBooked \cup {f} : FillQty[g] \in Int
      BY <2>1, <2>5
    <3>2. SumOver(FillQty, AllBooked \cup {f}) = SumOver(FillQty, AllBooked) + FillQty[f]
      BY <2>4, <3>1, SumTakesIn DEF BookAddsUp
    <3>. QED BY <2>1, <3>2
  <2>7. SumOver(Booked, Order)' = SumOver(Booked, Order) + f.qty
    BY <1>2, BookedMoves
  <2>8. IsFiniteSet(AllBooked')
    BY <2>3, FS_AddElement DEF BookAddsUp
  <2>9. SumOver(FillQty, AllBooked)' = SumOver(FillQty, AllBooked \cup {f})
    BY <2>3 DEF FillQty
  <2>. QED BY <2>6, <2>7, <2>8, <2>9 DEF BookAddsUp
<1>. QED BY <1>1, <1>2, StepBooks

-----------------------------------------------------------------------------
(* One fill in the hands of several workers *)

\* What a worker is about to add, to an order of S, although another has done so
\* meanwhile.
Late(S, w) ==
    IF pc[w] = "add" /\ hand[w] \in applied /\ hand[w].order \in S THEN hand[w].qty ELSE 0

Lates(S) == [w \in Worker |-> Late(S, w)]

\* The fills of the orders of S that count as applied, and their quantity.
Part(S) == {f \in applied : f.order \in S}

PartQty(S) == SumOver(FillQty, Part(S))

\* p counts each fill of S at least once, and the late applications are within
\* what each may be counted for.
Race(S, p) ==
    /\ PartQty(S) <= p
    /\ p + SumOver(Lates(S), Worker) <= Cardinality(Worker) * PartQty(S)

\* The position is what the workers have counted bought, less what they have
\* counted sold.
RaceInv ==
    /\ IsFiniteSet(applied)
    /\ \E bought, sold \in Int :
          /\ position = bought - sold
          /\ Race(Order \ Sale, bought)
          /\ Race(Sale, sold)

\* The numbers of the invariant are numbers.
LEMMA RaceTypes ==
    ASSUME IsFiniteSet(Worker), TypeInv, IsFiniteSet(applied), NEW S
    PROVE  /\ applied \subseteq Fill /\ Part(S) \subseteq Fill /\ IsFiniteSet(Part(S))
           /\ \A f \in Fill : f.qty \in Nat /\ FillQty[f] = f.qty
           /\ \A v \in Worker : Lates(S)[v] = Late(S, v) /\ Late(S, v) \in Int
           /\ PartQty(S) \in Int /\ SumOver(Lates(S), Worker) \in Int
           /\ Cardinality(Worker) \in Nat
<1>1. /\ applied \subseteq Fill /\ Part(S) \subseteq applied
      /\ \A f \in Fill : f.qty \in Nat /\ FillQty[f] = f.qty
      /\ \A v \in Worker : pc[v] = "add" => hand[v] \in Fill
  BY QuantityAssumption DEF TypeInv, TypeOK, CallsOK, Fill, FillQty, Part
<1>2. \A v \in Worker : Lates(S)[v] = Late(S, v) /\ Late(S, v) \in Int
  BY <1>1 DEF Lates, Late
<1>3. IsFiniteSet(Part(S)) /\ PartQty(S) \in Int
  <2>1. \A f \in Part(S) : FillQty[f] \in Int
    BY <1>1
  <2>2. IsFiniteSet(Part(S))
    BY <1>1, FS_Subset
  <2>. QED BY <2>1, <2>2, SumType DEF PartQty
<1>4. SumOver(Lates(S), Worker) \in Int
  BY <1>2, SumType
<1>. QED BY <1>1, <1>2, <1>3, <1>4, FS_CardinalityType

\* An application that is late was counted as one that may come, and one that is
\* not makes as many late as there are other workers at most.
LEMMA AddKeepsRace ==
    ASSUME IsFiniteSet(Worker), TypeInv, IsFiniteSet(applied), NEW w \in Worker, AddFill(w),
           NEW S, NEW p \in Int, Race(S, p), hand[w].order \in S,
           NEW q, q = hand[w].qty
    PROVE  Race(S, p + q)'
<1> DEFINE f == hand[w]
           n == Cardinality(Worker)
           Old == Lates(S)
           New == Lates(S)'
<1>1. /\ f \in Fill /\ f.qty \in Nat /\ pc[w] = "add" /\ applied' = applied \cup {f}
      /\ pc' = [pc EXCEPT ![w] = "fills"] /\ hand' = [hand EXCEPT ![w] = None]
  BY RaceTypes DEF AddFill, ApplyFill, Goto, TypeInv, CallsOK
<1>2. /\ pc'[w] = "fills" /\ \A v \in Worker \ {w} : pc'[v] = pc[v] /\ hand'[v] = hand[v]
  BY <1>1 DEF TypeInv, TypeOK, ThreadTypeOK, Thread
<1>3. New[w] = 0 /\ \A v \in Worker \ {w} :
          New[v] = IF pc[v] = "add" /\ hand[v] \in applied \cup {f} /\ hand[v].order \in S
                   THEN hand[v].qty ELSE 0
  BY <1>1, <1>2 DEF Lates, Late
<1>4. /\ \A v \in Worker : Old[v] = Late(S, v) /\ Old[v] \in Int
      /\ \A v \in Worker : pc[v] = "add" => hand[v] \in Fill
      /\ \A g \in Fill : g.qty \in Nat /\ FillQty[g] = g.qty
      /\ Part(S) \subseteq Fill /\ IsFiniteSet(Part(S)) /\ n \in Nat
      /\ PartQty(S) \in Int /\ SumOver(Old, Worker) \in Int
  BY RaceTypes DEF TypeInv, CallsOK
<1>5. \A v \in Worker : New[v] \in Int
  BY <1>3, <1>4
<1>6. q \in Nat /\ q = f.qty
  BY <1>1
<1>7. CASE f \in applied
  <2>1. Old[w] = q /\ \A v \in Worker \ {w} : Old[v] = New[v]
    BY <1>1, <1>3, <1>4, <1>7 DEF Late
  <2>2. SumOver(New, Worker) = SumOver(Old, Worker) + (New[w] - Old[w])
    <3> HIDE DEF New, Old
    <3>. QED BY <1>4, <1>5, <2>1, SumShifts
  <2>3. PartQty(S)' = PartQty(S)
    <3>1. applied' = applied
      BY <1>1, <1>7
    <3>. QED BY <3>1 DEF PartQty, Part, FillQty
  <2>4. (p + q) + SumOver(New, Worker) = p + SumOver(Old, Worker)
    <3> HIDE DEF New, Old, f
    <3>. QED BY <1>3, <1>4, <1>6, <2>1, <2>2
  <2>5. PartQty(S) <= p + q
    BY <1>4, <1>6 DEF Race
  <2>. QED BY <2>3, <2>4, <2>5 DEF Race
<1>8. CASE f \notin applied
  <2> DEFINE R == Worker \ {w}
  <2>1. IsFiniteSet(R) /\ Cardinality(R) = n - 1
    BY FS_RemoveElement
  <2>2. Old[w] = 0
    BY <1>4, <1>8 DEF Late
  <2>3. \A v \in R : New[v] <= Old[v] + q
    BY <1>1, <1>3, <1>4, <1>6, <1>8 DEF Late
  <2>4. SumOver(New, R) <= SumOver(Old, R) + q * Cardinality(R)
    <3>1. \A v \in R : Old[v] \in Int /\ New[v] \in Int /\ New[v] <= Old[v] + q
      BY <1>4, <1>5, <2>3
    <3>2. q \in Int
      BY <1>6
    <3> HIDE DEF New, Old, R
    <3>. QED BY <2>1, <3>1, <3>2, SumGrowsBy
  <2>5. /\ SumOver(New, Worker) = New[w] + SumOver(New, R)
        /\ SumOver(Old, Worker) = Old[w] + SumOver(Old, R)
    <3> HIDE DEF New, Old
    <3>. QED BY <1>4, <1>5, SumTakesOut
  <2>6. PartQty(S)' = PartQty(S) + q
    <3>1. Part(S)' = Part(S) \cup {f} /\ f \notin Part(S)
      BY <1>1, <1>8 DEF Part
    <3>2. \A g \in Part(S) \cup {f} : FillQty[g] \in Int
      BY <1>1, <1>4
    <3>3. SumOver(FillQty, Part(S) \cup {f}) = SumOver(FillQty, Part(S)) + FillQty[f]
      <4> HIDE DEF f
      <4>. QED BY <1>4, <3>1, <3>2, SumTakesIn
    <3>. QED BY <1>1, <1>4, <1>6, <3>1, <3>3 DEF PartQty, FillQty
  <2>7. SumOver(New, R) \in Int /\ SumOver(Old, R) \in Int
    <3>1. \A v \in R : Old[v] \in Int /\ New[v] \in Int
      BY <1>4, <1>5
    <3> HIDE DEF New, Old, R
    <3>. QED BY <2>1, <3>1, SumType
  <2>8. (p + q) + SumOver(New, Worker) <= n * PartQty(S)'
    <3>1. \A c, a, b \in Int : c * (a + b) = c * a + c * b /\ b * (c - 1) = c * b - b
      OBVIOUS
    <3>2. n * (PartQty(S) + q) = n * PartQty(S) + n * q /\ q * (n - 1) = n * q - q
      <4>1. n \in Int /\ PartQty(S) \in Int /\ q \in Int
        BY <1>4, <1>6
      <4> HIDE DEF n
      <4>. QED BY <3>1, <4>1
    <3>3. n * PartQty(S) \in Int /\ n * q \in Int
      BY <1>4, <1>6
    <3>4. p + SumOver(Old, Worker) <= n * PartQty(S)
      BY DEF Race
    <3> HIDE DEF n, f, New, Old, R
    <3>. QED BY <1>3, <1>4, <1>6, <2>1, <2>2, <2>4, <2>5, <2>6, <2>7, <3>2, <3>3, <3>4
  <2>9. PartQty(S)' <= p + q
    BY <1>4, <1>6, <2>6 DEF Race
  <2>. QED BY <2>8, <2>9 DEF Race
<1>. QED BY <1>7, <1>8

\* A fill of another side is nothing to the orders of S.
LEMMA AddLeavesRace ==
    ASSUME IsFiniteSet(Worker), TypeInv, NEW w \in Worker, AddFill(w),
           NEW S, NEW p, Race(S, p), hand[w].order \notin S
    PROVE  Race(S, p)'
<1> DEFINE f == hand[w]
<1>1. /\ pc[w] = "add" /\ applied' = applied \cup {f}
      /\ pc' = [pc EXCEPT ![w] = "fills"] /\ hand' = [hand EXCEPT ![w] = None]
  BY DEF AddFill, ApplyFill, Goto
<1>2. /\ pc'[w] = "fills" /\ \A v \in Worker \ {w} : pc'[v] = pc[v] /\ hand'[v] = hand[v]
  BY <1>1 DEF TypeInv, TypeOK, ThreadTypeOK, Thread
<1>3. \A v \in Worker : Late(S, v)' = Late(S, v)
  BY <1>1, <1>2 DEF Late
<1>4. Part(S)' = Part(S)
  BY <1>1 DEF Part
<1>5. Lates(S)' = Lates(S)
  BY <1>3 DEF Lates
<1>. QED BY <1>4, <1>5 DEF Race, PartQty, FillQty

\* An application that is counted is counted on one side.
LEMMA AddKeepsRaceInv ==
    ASSUME IsFiniteSet(Worker), TypeInv, RaceInv, NEW w \in Worker, AddFill(w)
    PROVE  RaceInv'
<1>1. PICK bought, sold \in Int :
          position = bought - sold /\ Race(Order \ Sale, bought) /\ Race(Sale, sold)
  BY DEF RaceInv
<1>2. PICK q : q = hand[w].qty
  OBVIOUS
<1>3. /\ hand[w] \in Fill /\ hand[w].order \in Order /\ q \in Nat
      /\ applied' = applied \cup {hand[w]} /\ position' = position + Signed(hand[w])
      /\ IsFiniteSet(applied)
  BY <1>2, QuantityAssumption DEF AddFill, ApplyFill, TypeInv, CallsOK, RaceInv, Fill
<1>4. IsFiniteSet(applied')
  BY <1>3, FS_AddElement
<1>5. CASE hand[w].order \in Sale
  <2>1. Race(Sale, sold + q)'
    BY <1>1, <1>2, <1>3, <1>5, AddKeepsRace
  <2>2. Race(Order \ Sale, bought)'
    BY <1>1, <1>5, AddLeavesRace
  <2>3. position' = bought - (sold + q) /\ sold + q \in Int
    BY <1>1, <1>2, <1>3, <1>5 DEF Signed
  <2>. QED BY <1>4, <2>1, <2>2, <2>3 DEF RaceInv
<1>6. CASE hand[w].order \notin Sale
  <2>1. Race(Order \ Sale, bought + q)'
    BY <1>1, <1>2, <1>3, <1>6, AddKeepsRace
  <2>2. Race(Sale, sold)'
    BY <1>1, <1>6, AddLeavesRace
  <2>3. position' = (bought + q) - sold /\ bought + q \in Int
    BY <1>1, <1>2, <1>3, <1>6 DEF Signed
  <2>. QED BY <1>4, <2>1, <2>2, <2>3 DEF RaceInv
<1>. QED BY <1>5, <1>6

\* No other step of a worker applies a fill, and none but a test that finds the
\* fill new comes to where one is added.
LEMMA RaceStep ==
    ASSUME IsFiniteSet(Worker), TypeInv, AbsentIsBlank, RaceInv, [Next]_vars
    PROVE  RaceInv'
<1>1. ASSUME UNCHANGED <<applied, position>>,
             \A v \in Worker, S \in {Sale, Order \ Sale} : Late(S, v)' = Late(S, v)
      PROVE  RaceInv'
  <2>1. \A S \in {Sale, Order \ Sale} :
            Lates(S)' = Lates(S) /\ Part(S)' = Part(S) /\ PartQty(S)' = PartQty(S)
    BY <1>1 DEF Lates, Part, PartQty, FillQty
  <2>. QED BY <1>1, <2>1 DEF RaceInv, Race
<1>2. ASSUME NEW s \in Submitter, SubmitterStep(s)
      PROVE  RaceInv'
  <2>1. UNCHANGED <<applied, hand>> /\ \A v \in Worker : pc'[v] = pc[v]
    BY <1>2, SubmitterBooksNothing
  <2>2. UNCHANGED position
    BY <1>2 DEF SubmitterStep, Execute, CloseShadow, SubmitArrives, SubmitLost, SubmitRefused,
                SubmitRaises, SubmitDuplicate, Reply, ReplyLost, QueryFinds, QueryMisses,
                QueryFails, AdoptAck, Settle, SubmitterFrame, portfolioVars
  <2>. QED BY <1>1, <2>1, <2>2 DEF Late
<1>3. ASSUME NEW w \in Worker, WorkerStep(w), ~AddFill(w)
      PROVE  RaceInv'
  <2>1. /\ UNCHANGED <<applied, position>>
        /\ \A v \in Worker \ {w} : pc'[v] = pc[v] /\ hand'[v] = hand[v]
    BY <1>3
       DEF WorkerStep, TakeFill, RecordFill, CheckApplied, PollFills, PollBlind,
           FillsDone, StartRecover, StartCancelStale, VisitFails, VisitPoll, SyncStatus,
           VisitRecover, VisitCancel, FetchFills, AdoptStatus, AdoptAnswer, ScanDone,
           ScanFrame, TakeAnswer, Goto, TypeInv, TypeOK, ThreadTypeOK, Thread, portfolioVars
  <2>2. pc[w] # "add" /\ (pc'[w] = "add" => hand'[w] \notin applied)
    BY <1>3
       DEF WorkerStep, TakeFill, RecordFill, CheckApplied, IsApplied, PollFills, PollBlind,
           FillsDone, StartRecover, StartCancelStale, VisitFails, VisitPoll, SyncStatus,
           VisitRecover, VisitCancel, FetchFills, AdoptStatus, AdoptAnswer, ScanDone,
           ScanFrame, TakeAnswer, Goto, TypeInv, TypeOK, ThreadTypeOK, Thread
  <2>. QED BY <1>1, <2>1, <2>2 DEF Late
<1>4. CASE Crash
  <2>1. applied' = {} /\ position' = 0 /\ \A v \in Worker : pc'[v] = "idle"
    BY <1>4 DEF Crash, LosePortfolio, Thread
  <2>2. ASSUME NEW S
        PROVE  Race(S, 0)'
    <3> DEFINE L == Lates(S)'
    <3>1. \A v \in Worker : L[v] = 0
      BY <2>1 DEF Lates, Late
    <3>2. SumOver(L, Worker) = 0
      <4> HIDE DEF L
      <4>. QED BY <3>1, SumOfZeros
    <3>3. PartQty(S)' = 0
      <4>1. Part(S)' = {}
        BY <2>1 DEF Part
      <4>. QED BY <4>1, SumOfNone DEF PartQty, FillQty
    <3>4. Cardinality(Worker) * 0 = 0
      BY FS_CardinalityType
    <3>. QED BY <3>2, <3>3, <3>4 DEF Race
  <2>3. position' = 0 - 0
    BY <2>1
  <2>. QED BY <2>1, <2>2, <2>3, FS_EmptySet DEF RaceInv
<1>5. CASE VenueMoves \/ UNCHANGED vars
  BY <1>1, <1>5 DEF VenueMoves, vars, storeVars, portfolioVars, threadVars, Late
<1>. QED BY <1>2, <1>3, <1>4, <1>5, AddKeepsRaceInv DEF Next

\* However many workers race on a fill, and however often it is redelivered, the
\* portfolio counts it once at least and once for each worker at most, whichever
\* side it is of, which bounds what the missing lock of apply_fill() can do; and,
\* until a crash, what it has counted or is about to is what the book has booked.
THEOREM PositionFollowsTheBook ==
    ASSUME IsFiniteSet(Order), IsFiniteSet(Worker)
    PROVE  Spec => []PositionAgreesWithBook
<1>1. Init => RaceInv /\ AppliedIsBooked /\ BookAddsUp
  <2> SUFFICES ASSUME Init PROVE RaceInv /\ AppliedIsBooked /\ BookAddsUp
    OBVIOUS
  <2>1. /\ applied = {} /\ position = 0 - 0
        /\ \A v \in Worker : pc[v] = "idle"
    BY DEF Init, PortfolioInit, Thread
  <2>2. ASSUME NEW S
        PROVE  Race(S, 0)
    <3>1. /\ \A v \in Worker : Lates(S)[v] = 0
          /\ Part(S) = {}
      BY <2>1 DEF Lates, Late, Part
    <3>2. SumOver(Lates(S), Worker) = 0 /\ PartQty(S) = 0
      BY <3>1, SumOfZeros, SumOfNone DEF PartQty
    <3>3. Cardinality(Worker) * 0 = 0
      BY FS_CardinalityType
    <3>. QED BY <3>2, <3>3 DEF Race
  <2>3. RaceInv
    BY <2>1, <2>2, FS_EmptySet DEF RaceInv
  <2>4. AllBooked = {} /\ \A o \in Order : Booked[o] = 0
    BY DEF Init, StoreInit, NoRecord, AllBooked, Booked
  <2>5. BookAddsUp
    BY <2>4, SumOfZeros, SumOfNone, FS_EmptySet DEF BookAddsUp
  <2>. QED BY <2>1, <2>3, <2>5 DEF AppliedIsBooked
<1> DEFINE sales == {f \in applied : f.order \in Sale}
           buys == {f \in applied : f.order \notin Sale}
<1>2. ASSUME TypeInv, RaceInv
      PROVE  /\ QtySum(buys) - Cardinality(Worker) * QtySum(sales) <= position
             /\ position <= Cardinality(Worker) * QtySum(buys) - QtySum(sales)
  <2>1. IsFiniteSet(applied) /\ applied \subseteq Fill
    BY <1>2 DEF RaceInv, TypeInv, TypeOK
  <2>2. sales = Part(Sale) /\ buys = Part(Order \ Sale)
    BY <2>1 DEF Part, Fill
  <2>3. QtySum(sales) = PartQty(Sale) /\ QtySum(buys) = PartQty(Order \ Sale)
    <3>1. \A S : Part(S) \subseteq Fill /\ IsFiniteSet(Part(S))
      BY <1>2, <2>1, RaceTypes
    <3> HIDE DEF sales, buys
    <3>. QED BY <2>2, <3>1, QtySumIsSum DEF PartQty
  <2>4. ASSUME NEW S, NEW p \in Int, Race(S, p)
        PROVE  /\ PartQty(S) <= p /\ p <= Cardinality(Worker) * PartQty(S)
               /\ PartQty(S) \in Int /\ Cardinality(Worker) * PartQty(S) \in Int
    <3>1. \A v \in Worker : Lates(S)[v] \in Nat
      BY <1>2, QuantityAssumption DEF TypeInv, CallsOK, Lates, Late, Fill
    <3>2. SumOver(Lates(S), Worker) \in Nat
      BY <3>1, SumCounts
    <3>3. PartQty(S) \in Int /\ Cardinality(Worker) * PartQty(S) \in Int
      BY <1>2, <2>1, RaceTypes
    <3>. QED BY <2>4, <3>2, <3>3 DEF Race
  <2>5. PICK bought, sold \in Int :
            position = bought - sold /\ Race(Order \ Sale, bought) /\ Race(Sale, sold)
    BY <1>2 DEF RaceInv
  <2>6. /\ PartQty(Sale) <= sold /\ sold <= Cardinality(Worker) * PartQty(Sale)
        /\ PartQty(Sale) \in Int /\ Cardinality(Worker) * PartQty(Sale) \in Int
    BY <2>4, <2>5
  <2>7. /\ PartQty(Order \ Sale) <= bought
        /\ bought <= Cardinality(Worker) * PartQty(Order \ Sale)
        /\ PartQty(Order \ Sale) \in Int /\ Cardinality(Worker) * PartQty(Order \ Sale) \in Int
    BY <2>4, <2>5
  <2> HIDE DEF sales, buys
  <2>. QED BY <2>3, <2>5, <2>6, <2>7
<1> DEFINE due == {hand[w] : w \in {v \in Worker : pc[v] \in {"apply", "add"}}}
<1>3. ASSUME TypeInv, AppliedIsBooked, BookAddsUp, BookedReachesPortfolio, crashes = 0
      PROVE  QtySum(applied \cup due) = MapThenSumSet(LAMBDA o : orders[o].filled, Order)
  <2>1. /\ applied \subseteq Fill /\ orders \in [Order -> OrderRecord]
        /\ \A v \in Worker : pc[v] \in {"apply", "add"} => hand[v] \in Fill
    BY <1>3 DEF TypeInv, TypeOK, StoreTypeOK, CallsOK
  <2>2. applied \cup due = AllBooked
    <3>1. applied \cup due \subseteq AllBooked
      BY <1>3, <2>1 DEF AppliedIsBooked, AllBooked, Fill
    <3>2. AllBooked \subseteq applied \cup due
      BY <1>3 DEF BookedReachesPortfolio, AllBooked
    <3>. QED BY <3>1, <3>2
  <2>3. AllBooked \in SUBSET Fill
    BY <2>1 DEF AllBooked, OrderRecord
  <2>4. QtySum(AllBooked) = SumOver(FillQty, AllBooked)
    BY <1>3, <2>3, QtySumIsSum DEF BookAddsUp
  <2>5. MapThenSumSet(LAMBDA o : orders[o].filled, Order) = SumOver(Booked, Order)
    BY BookedSumIsSum
  <2>6. SumOver(FillQty, AllBooked) = SumOver(Booked, Order)
    BY <1>3 DEF BookAddsUp
  <2> HIDE DEF due
  <2>. QED BY <2>2, <2>4, <2>5, <2>6, Zenon
<1>4. TypeInv /\ RaceInv /\ AppliedIsBooked /\ BookAddsUp /\ BookedReachesPortfolio
        => PositionAgreesWithBook
  BY <1>2, <1>3, Zenon DEF QtySum, PositionAgreesWithBook
<1>5. TypeInv /\ AbsentIsBlank /\ OwnExecutions /\ CarriesExecutions /\ SumsMatch
        /\ RaceInv /\ AppliedIsBooked /\ BookAddsUp /\ [Next]_vars
        => RaceInv' /\ AppliedIsBooked' /\ BookAddsUp'
  BY RaceStep, AppliedStep, BookAddsUpStep
<1>. QED BY <1>1, <1>4, <1>5, TypeInvariant, BlankInvariant, SumsInvariant,
            BookReachesPortfolio, PTL DEF Spec
=============================================================================
