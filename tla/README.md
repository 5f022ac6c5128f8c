# Olympus in TLA+

Olympus is a personal assistant that prepares actions for its owner and runs
them behind an approval gate, with a trading domain beside it. What it promises
is mostly about *effects*: an e-mail is sent when a human approved it, a note
exists when its record says so, an order is submitted once, a fill is counted
once. The modules here are about those promises, under the threads, processes,
crashes and unreliable answers the code was written for.

## 1. Inventory

Paths are under `src/olympus/`.

| Component | State | Operations | What makes it correct |
|---|---|---|---|
| Order book `trading/oms.py` | one record per `client_order_id` (status, quantity filled, fills), an index of fills by `fill_id` | create, get_or_create, transition, record_fill | one record per authorisation; a fill counts once; the status only moves along the table; the quantity never passes the approved one |
| Execution engine `trading/execution.py` | none of its own; the book, the portfolio and the venue | execute, poll, recover, cancel_stale_orders | no submission is repeated blindly; a rejection is true; what is over at the venue comes to be closed here; booked fills reach the portfolio |
| Venue adapters `trading/brokers/` | the venue's orders and executions | submit, cancel, query, list fills | the client id is idempotent |
| Portfolio `trading/portfolio.py` | applied fill ids, positions, cash, marks (memory) | apply_fill, mark, save, load | each fill is applied once; the position agrees with the book |
| Reconciler, kill switches, modes `trading/reconcile.py`, `killswitch.py`, `modes.py` | reports; switches per scope; the current mode | reconcile; engage, disengage, check; request | a real break trips and a moving venue does not; an automatic trip needs an override; live mode needs every gate |
| Pipeline, risk, strategy `trading/pipeline.py`, `risk.py`, ... | caches and a risk snapshot | run one instrument through the layers | risk is never skipped |
| Evolution governance `trading/champion.py`, `rollback.py`, `governance.py`, `proposals.py`, ... | champion, deployment and proposal records | promote, deploy, roll back, approve | every deployment has a version to fall back to; only humans roll forward |
| Action spine `actions.py` | one record per action; scopes, autonomy level and limits (preferences) | prepare, edit, approve, reject, auto_or_hold, undo, retry_note | nothing irreversible without a human; caps; the record agrees with the effect |
| Contracts `behavioral_contracts.py` | none | evaluate, enforce | a violated contract takes the action back |
| Note journal `note_evidence.py`, `note_archive.py` | plan, pointer and result files, the notes | transact, recover, create, undo_note | several files change together or not at all |
| Mandates and payment `mandate.py`, `mandate_store.py`, `payrail.py`, `paylive.py` | nonces, mandate records, a signed charge ledger | store, charge, reconcile | a cart is authorised once; a mandate is billed once; caps hold |
| Cost accounting `usage.py` | per day a snapshot and a journal of calls; an admission queue | check, admit, record, compact | spend is counted once; work stops at the budget |
| Primitives `proclock.py`, `store.py`, `atomicio.py` | lock files, key-value store | lock, put, publish | locks exclude; a put is atomic and durable |
| Browser lease `browserlease.py` | one lease file | claim, verify, release | one owner at a time |
| Scheduler, heartbeat, watchdog | jobs and cadences | add, remove, enable, run_due, tick | what the owner asked last stands; a change is run once; one stuck job does not stop the rest |
| Session journal, replay store, ledger, signatures | append-only chains | append, verify, replay | a verified prefix survives |
| Owner evidence and memory | per-owner documents | read, publish, migrate | as the note journal |
| Orchestrator, specialists, routing, tools, gateways, web, CLI, providers, code graph, calibration, packaging | caches, logs | calls to models and services | the text of prompts and answers; I/O |

**How they interact.** A trading decision passes risk and comes as an
authorisation to `execute()`, which derives the order id from it, creates the
record under the lock of that order and drives the venue. `poll()`, `recover()`
and `cancel_stale_orders()` may run in other threads and touch the same records
under the same lock, but the queries of the venue and the portfolio are outside
it. The book is durable; the portfolio is in memory. Before an authorisation
there is a pass of the pipeline, which asks the kill switches and the
strategy's record at three stages, each time as they are stored then; the
monitor, the reconciler and operators change those records in other threads
and processes. `execute()` asks once more for the operating mode. The
reconciler compares book, portfolio and venue, adopts what the venue knows
better, and trips a switch over what it cannot explain. The spine is called by the
threads of the web server, by chat gateways and by CLI processes on the same
files. Calls on notes hold the notes guard from end to end; calls on other
actions hold nothing between the read of a record and the write.

**What is hard.** Lost and late answers of the venue against retries; stale
answers adopted after fills; two threads with the same authorisation, fill or
approval; a crash between two puts, between an effect and its record, in the
middle of a note transaction, between a nonce and the record it is for,
between two versions; caps and budgets read before an effect and increased
after; records tested outside the lock under which they are written; scopes,
autonomy, modes and jobs changing under a call. `PROJECT.json` lists each
hazard at its line, with the properties that watch it or the reason none does.

## 2. Modules

### Trading

| Module | Models |
|---|---|
| `OrderStore` | `oms.py`: records, the transition table, `create`, `transition`, `record_fill` as two puts |
| `Venue` | what `brokers/` shows of a venue |
| `Portfolio` | `apply_fill` as a test and an application; a position that sales lower |
| `ExecutionEngine` | `execution.py` on the three, as the steps of submitter and worker threads, with crashes |
| `OrderLifecycle` | the abstract specification: an authorisation is opened once, its booked quantity grows to at most the approved one, it closes for good |
| `MCExecutionEngine` | symmetry for TLC |
| `ExecutionEngineProofs` | the proofs |
| `SetSums` | what the sums of quantities over finite sets are, for the proofs |

A step of the model is what the code does without another thread being able to
come between: one request at the venue, one update under the lock of an order,
or one half of the unlocked `apply_fill()`. `pc` says where a thread is:

| pc | code |
|---|---|
| `shadow` | between `get_or_create()` and the close of a shadow order |
| `submit`, `reply` | `broker.submit_order()` before and after it arrives |
| `query` | `_query_and_adopt()` after an unavailable or refusing venue |
| `adopt` | the answer is here and not yet in the book: what it says may be stale |
| `settle` | `_settle_rejected()` |
| `fills`, `record`, `apply`, `add` | the loop of `poll()` and `_adopt_fills_for()` |
| `scan` | the open orders, as snapshotted by `open_orders()`, still to visit |
| `fetch` | `recover()` before `get_fills()` |

`Execute` has no action for an order that exists: `execute()` then returns it
and changes nothing. A `BrokerError` sets the attempts left to 0 (the loop is
left by `break` if the query finds nothing); `BrokerUnavailable` decrements
them. `Lagging` says whether a lookup may miss an order the venue holds.
Quantities are lots. `Sale` is the set of the orders that sell; the others buy.
All orders are in one instrument, so there is one position.

Left out: the pure checks of `_verify_authorisation` and of the price collar
(they refuse before anything is written), audit events, the broker's order id
and its index, prices, cash and fees, backoff. The price of an order being
data, a limit order and a market order are the same order here.

### Actions

| Module | Models |
|---|---|
| `ActionSpine` | `actions.py` with the clauses of the `action_execution` contract, the notes guard and the journal as far as the spine sees it |
| `ActionLifecycle` | the diagram at the head of `actions.py`, with the effect outside, and the one move that is not in it: `Misreport` |
| `MCActionSpine` | the instances for TLC: a behaviour is of a note and a file, or of e-mails (`cast`) |
| `ActionSpineProofs` | the proofs |

Every caller works on its own copy (`held`) and writes the whole of it back, as
the code does with the object it read. A note's record and effect are one
transaction: it commits, or the journal is left in doubt, every guard refuses,
and `RecoverNotes` decides. `outside` counts what happened in the world. Three
variables are history: `by` (who authorised a call), `licensed` (the scope was
granted at some moment of the call) and `misread` (the notes one of whose calls
met a failing read); no guard reads them.

After the commit the code reads the note back (`note_result()`, pc `confirm`).
A read that fails raises a plain `OwnerEvidenceStateError`
(`owner_evidence.py:94-95`), which the handlers of `_execute()` and `undo()` do
not take for a `NoteStateError`: they write their copy of the record, already
marked as failed or as undone (pc `unread`), over the one that is stored. These
are `NoteUnread`, `UndoUnread` and `SaveUnread`. A note that stands under a
record that says undone can be undone again (`UndoneInVain`).

The three types stand for the risk classes the registered actions have: a note
(trivial, serialised), a workspace file (notable, reversible), an e-mail
(irreversible). `auto_or_hold()` takes an optional earned level from the
operator loop; it is one of the values `level` may have.

Left out: records of a former boundary version and unregistered types (refused
first thing), the audit and outcome logs, `set_limit`, quarantine, more than
one owner (records, scopes and counts are per owner), and midnight.

### Note journal

| Module | Models |
|---|---|
| `NoteJournal` | `transact()`, `_finish()` and `recover()` of `note_evidence.py`, one step per file published or removed |
| `AtomicFiles` | the abstract specification: a transaction changes all its files at once or none, and is decided once |
| `MCNoteJournal` | a note and the record of its action, for TLC |
| `NoteJournalProofs` | the proofs |

The guard lets one call in at a time, so there is one process: `at` says where
it is, and `Recover` is the call that is let in while the pointer is there.
Every file is there twice: what processes see, and in `disk` what is synced. A
publication changes the first and then the second; a failure, of the I/O or of
the process, may come in between, and what follows it is the next call. A power
loss leaves any mixture of what was seen and what was synced. The refinement
puts a transaction's moment at its result becoming safe: until then a file is
taken for what the transaction found.

`PointerTears` says whether the pointer too may be left replaced and not
synced. With it the promise is broken (`note_durable`); without it, and with
every other write as likely to tear, it holds (`note_journal`).

Files are edited by hand only outside a call: between the check of a target and
its publication nothing in the code could notice. Left out: checks of paths,
sizes and inventories and of damaged evidence, all of which refuse before the
first write; staging files; `recovery_status()`, which reads; and
`note_archive.py`.

### Before and after an order

| Module | Models |
|---|---|
| `TradingGate` | `killswitch.py`, the status and the drawdown halt of `strategy.py`, and the stages of one pass of `pipeline.py` with what each asks |
| `ModeControl` | `modes.py`: a request with its slow gates and its commit, `current()`, and the two questions of `execute()` |
| `Reconciler` | `reconcile.py` on the engine's modules: one pass read by read, over a venue that trades on |

Every write of these files replaces a whole record, so what is tested and what
is overwritten may be different records. `disengage()` and `enable()` are two
steps: the check, and the write. `standing` is history: the halts in force
since the pass could last have seen them. So is `tripped`: the scopes a rule has
stopped and nobody has lifted since, whatever their records say by now.
`lift[o].overtaken` tells a call whose check was made before the halt it lifts,
`lift[o].masked` one that found a manual switch over a trip.

`Reconciler` extends `ExecutionEngine`: a worker polls and a submitter submits
between any two reads of the pass. The remote orders are read first, then the
local ones, then fills, then positions and cash; what the pass adopts goes
through the book's own `TryMove` and `BookFill`. The comparison is the code's: the
net quantity bought less sold here against the net quantity there (`Agrees`).
`vouched` and `offset` are history: what the venue had executed when the last
clean pass began, and what the portfolio missed of it as positions were compared.
Prices are left out, so the comparison of the cash may come out either way:
what cancels in quantity may cancel in cash too, as two trades at one price do.
`TradingControlProofs` holds the
proofs of the three, and of `DeploymentLedger` below.

Left out: which rule trips a switch (an input: `Engage` with `auto`), the
report's wording, close-all, the checks a deployment gate makes.

### Money

| Module | Models |
|---|---|
| `MandateStore` | `mandate_store.py`: `record()` as the publication of nonces and then of rows, each of which may fail or be the last thing a process does; the check before the lock and the one under it |
| `PaymentRail` | `payrail.py` and `paylive.py`: a charge as read, attempt, second read, processor, record; the ledger keeps its newest records only |
| `UsageLedger` | `usage.py`: the budget check as two reads, `record()`, `compact()` as publication, removal and sync; torn writes, kills, power losses |

The processor of `PaymentRail` answers a key it has seen without billing again:
the program ships no live adapter, and asks this of one. `recorded` is history: what
was ever recorded as charged. In `UsageLedger` a call
costs one unit and a request makes one call; `made`, `logged`, `glued`, `cut`
and `misled` are history, for properties that name their exceptions.
`PaymentProofs` and `OperationsProofs` hold the proofs.

### Versions and jobs

| Module | Models |
|---|---|
| `DeploymentLedger` | `rollback.py`: `deploy()` and `rollback()` as two writes each under one lock, and a process that dies between them |
| `Scheduler` | `scheduler.py`: owners who add, replace, remove, enable and disable jobs, and rounds of `run_due()` that find, mark, run and mark again, each mark one locked load, modify and save |

A round holds what it read of a job; `added` tells a job from the one it
replaced under its name. Rounds may overlap: the heartbeat abandons a tick after
its deadline and starts the next. The proofs are in `OperationsProofs`.

`MCComponents` puts these eight components side by side for one run: `subject`
is the component a behaviour is of, and the others rest. They share no state in
the models, so nothing is lost by not interleaving them; `ComponentsProofs` shows
that every behaviour of the composition is one of each component.

## 3. Runs

| Run | Instance | Shows |
|---|---|---|
| `exec_safety` | 1 order of 2 lots that sells, 2 submitters, 2 workers, 2 attempts, 1 crash | the type invariant and the eight safety invariants; the engine implements `OrderLifecycle` |
| `exec_liveness` | 1 order, 1 submitter, 1 worker, a lagging venue, 1 crash | `execute()` returns; what is over at the venue is closed in the book |
| `exec_filled_status` | 1 order, 1 submitter, 1 worker | violation: FILLED without fills |
| `exec_restart` | the same with 1 crash | violation: a restart forgets positions |
| `action_safety` | 2 callers, levels 1 and 4; a note and a file with 1 edit and 1 mishap, or 3 e-mails under a cap of 1 with shadow on or off and 1 drift | the record agrees with the effect and follows the lifecycle, but for failing reads; nothing is left approved; only humans send; a revocation stops; the cap is passed by at most the other callers |
| `note_journal` | 2 files, 2 transactions, 2 failures, 1 power loss, 1 edit by hand | files change together; an edit by hand is kept; the pointer has its plan; the doubt ends |
| `note_durable` | 2 files, 1 transaction, 1 failure, 1 power loss | violation: a recovery trusts a pointer that is not synced |
| `action_twice` | 1 e-mail, 2 callers | violation: approved twice, sent twice |
| `action_cap_broken` | 2 e-mails, cap 1, 2 callers | violation: the cap is passed |
| `rail_cap` | 1 payer, 2 mandates, a cap of 1, a ledger of 2 | violation: a charge leaves the ledger and the cap with it |
| `components` | eight components, each in behaviours of its own (below) | halts and modes stop orders; a clean reconciliation misses only what cancelled; carts, mandates and spend are counted once; one version is active; the owner has the last word |
| `usage_torn` | 1 process, 3 calls, 1 torn write | violation: a torn write makes the day's spend unreadable |

**Why the bounds are enough.** Orders do not interact: the lock, the table and
the fills are per order, and a worker's snapshot treats each of them alone, so
one order shows what an order can suffer, and the proofs cover any number. Two
lots are the least with a partial fill before the last; two attempts the least
with a retry; two submitters and two workers the least that race on an
authorisation and on a fill. One crash separates the two puts and lets the next
poll find the result; a second would start from a state the first already
reaches. For the spine, two callers race on a record; three e-mails under a cap
of one let two callers pass it and be stopped afterwards; one mishap is a crash,
a failed commit or a failing read at every place of every call. The two kinds of
behaviour are apart because they ask different questions: races of e-mails need
no edit, and a note has no shadow mode. `Outside.times` stops at 2,
which tells once from more. Notes and files carry a daily limit of one in
`action_safety`, so that the count is read there too.

In `components`:

| Component | Instance | Why it is enough |
|---|---|---|
| reconciler | 2 orders of 1 lot, one buys and one sells, 1 submitter, 1 worker, 1 attempt, 1 crash, a venue that lags | every read of the pass with a fill, a close or a crash before and after it; two fills the book refuses or the restart loses, which cancel, and one which nothing cancels. With a second worker a fill applied twice (`portfolio.py:293`) may hide one that was missed, so the property is of one |
| gate | 1 operator, 3 scopes, 1 pass | a pass against everything that changes its records; two lifts only meet in the record, where one and a rule already do |
| modes | 3 processes, 2 with the token | two requests that race, and one reader without the token |
| mandates | 3 carts under 2 intents, a record of 1 row, 4 nonces, 2 approvers | two carts of one intent, rows cut from the record, two callers with the same cart |
| rail | 3 mandates, 2 payers, a cap of 1, a ledger of 3 | a retry, a race, and a charge that leaves the ledger |
| deployments | 4 versions | two behind the one a rollback restores |
| scheduler | 1 name, 2 rounds, 2 adds, clock 0 to 1, 2 outputs | a job that is replaced while two rounds hold it; names do not interact |
| usage | 2 processes, 4 calls, a budget of 1, compaction at 2 lines, 2 troubles | calls on both sides of a compaction, a reader across it, a second trouble on what the first left |

These components stop when their names and bounds are used up, so the run does
not check deadlock.

For the journal, two files are the least that can be torn. Two failures let a
recovery fail after the call it recovers; two transactions let the second meet
what is left of the first: an old pointer that a power loss brings back, files
it has to find as they are. The requests overlap in one file, and one asks for
what may be there already. The bound on transaction ids is why the runs
do not check deadlock: when they are used up nothing is left to do.

**Fairness** (`exec_liveness`). A submitter inside a call goes on, as does a
worker: weak fairness of their steps, which is the scheduler's. The order comes
to be closed only if somebody polls and the venue answers: strong fairness of
`PollFills` and of `SyncStatus` for each order, because the embedding program
polls on a cadence and a venue that fails every lookup for ever is one the code
cannot do anything about. Nothing is assumed of `Execute`, of the venue's own
steps, of `recover()` or of `cancel_stale_orders()`.

In `note_journal` a call goes on (weak fairness of `Work`) and the operator
keeps trying each decision while the journal is in doubt: strong fairness of
`Recover` for `resume` and for `rollback`, since the one that was decided is the
only one accepted afterwards. The guard stays shut for as long as nobody tries,
by design. Nothing is assumed of `Transact`, and failures are bounded.

**Symmetry** is used only for safety properties: invariants, refinements and
action properties. In `components` only the rounds of the scheduler are
interchangeable.

**The seven violations** quote a line of the repository and show what the code
does instead; see `findings` in `PROJECT.json`. The bounds that do hold in
place of the broken caps are `CapOvershootBounded` and `OvershootBounded`.

**What the passing properties leave open**, by name:

- `BudgetOvershootBounded` counts as exceptions records that were lost and work
  started on a read that a compaction overtook: `today_spend()` reads the
  snapshot and then the journal without the lock, and a compaction in between
  hides the whole journal from it (`usage.py:1379-1381` expects no gain from a
  lock).
- `SpendIsKept` excepts records glued to a torn line, which `usage_torn` shows,
  and compactions cut short, after which spend is counted twice.
- `OvershootBounded` is of what the processor billed. It counts as exceptions the
  charges the ledger has forgotten: their answer or record was lost, or their
  record was cut. The cut alone breaks the cap that `payrail.py:15` calls
  fail-closed and `payrail.py:107-108` derives from an append-only ledger; that is
  `rail_cap`. `BilledOnce` then rests on the processor's idempotency.
- `AutomaticHaltsHold` has two exceptions. One is a lift whose check was made before
  the trip. The other contradicts `killswitch.py:11-12`, "Auto-trips here require
  an explicit operator override to disengage": a manual `engage()` over a trip
  stores `auto=False` (`killswitch.py:174`) and a plain `disengage()` then lifts
  it, with nothing concurrent. The property follows the scope from the trip on and
  names this as `LiftedMasked`; without that disjunct it is violated.
- `NoteMatchesRecord` and `NotesFollowLifecycle` except the records written over
  after a failing read. `actions.py:762` says of a note's record "Never overwrite
  it as failed", and the handler two lines below does so when the error of the
  read is not a `NoteStateError`. What is left is still checked: such a record
  says failed or undone, and nothing approves or saves the note again.
- `CleanPassIsCaughtUp` excepts what cancelled: executions missed on both sides
  whose net quantity is nought, as refused fills of a purchase and a sale can be.
  The comment at `reconcile.py:271-273` says a refused fill is "a real break,
  surfaced by the position comparison below"; one alone is, two that cancel are
  not. Orders of one side have no such exception (`OneSidedPassesMissNothing`).
- `LiveIsEarned` is of the live mode that is in force. Live trading called off
  while gates run is called on again by the commit that follows them; a step
  down from `live_bounded` to `live_restricted` stores no gate results, so
  `current()` reads paper. Both fail to the side the docs choose or say nothing
  of.
- `HaltsStopOrders` is of halts that fall before the last question of the
  pass; `execute()` asks no switch.
- `CleanPassIsCaughtUp` is of a pass and of one process. `last_success` outlives a restart, and the
  portfolio does not (`reconcile.py:345-360`).
- `ChangeFiresOnce` is of rounds that do not overlap. A job that replaces a
  running one-shot under its name is disabled with it (`scheduler.py:654`), and
  a change whose baseline could not be taken fires at the first look.
- `OneActive` allows none: after a crash between two writes `rollback()` is
  refused, and the next deployment has nothing to fall back to.

## 4. Proofs

Every invariant, action property and refinement that a passing run checks is
proved by TLAPS, for any sets of orders, threads, callers, files, names and
versions and any bounds, under the assumptions named in the modules (thread
kinds are disjoint, the "none" values are none of what they stand beside, bounds
are numbers) and those said below. A theorem states the property that the run
checks, of the specification that the run explores.

### Execution engine (`ExecutionEngineProofs`)

| Theorem | Property | Argument |
|---|---|---|
| `TypeCorrect` | `TypeOK` | `TypeInv` is inductive: a submitter past `idle` has an order, a thread at `adopt` an answer, a worker booking a fill has one in hand, attempts are left where one is made, and the venue's executions are as many as fit in what it filled (the number of a new fill is then in range) |
| `BookIsAdmitted` | `StatusAdmitsBook` | the transition table against every action that moves a status |
| `ImplementsItsLifecycle` | `ImplementsLifecycle` | each move maps to Open, Close, Book, Complete or a stutter. An absent record is blank, and a full one FILLED: without both, a booked quantity could appear from nothing or a close be undone |
| `OrderHasOneSubmitter` | `OneSubmitterPerOrder` | a thread drives only an order that exists, so the creator of a record is the only one that can |
| `SubmissionIsIdempotent`, `RejectionsAreTrue` | `NoBlindResubmit`, `RejectedIsTrue` | with `Lagging = FALSE`: what threads have as an answer is what the venue said and a rejection there is final; a thread at `submit` after the first attempt has just been told the order is not there, and nobody else may submit it |
| `IndexIsBooked` | `IndexedFillsAreBooked` | the index is put second |
| `BookReachesPortfolio` | `BookedReachesPortfolio` | a worker puts a fill down only when it is applied |
| `BookIsTheSumOfExecutions` | `BookMatchesExecutions` | `OwnExecutions`, `CarriesExecutions`, `SumsMatch`: what workers carry was executed, and an order's fills, which are finitely many because its executions are, add up to its quantity. A fill is added to both or, redelivered, to neither |
| `PositionFollowsTheBook` | `PositionAgreesWithBook` | for finitely many orders and workers: `RaceInv`, for each side, what was bought or sold and what is *late* (about to be added though it was added meanwhile) are within the quantity applied times the workers, and the position is the difference of the sides; the first to add a fill makes at most the others late, and nobody is late who tests afterwards. `AppliedIsBooked` and `BookAddsUp`: what is applied or on its way is booked, by `BookReachesPortfolio` nothing else is, and all that is booked adds up to the orders' quantities |

The sums are folds of the community modules, and the library's induction
theorems cannot be instantiated here. `SetSums` proves what is needed of them by
descent: the subsets of a finite set that break a claim would include a smallest
one, since strict inclusion is well-founded on them, and a break is shown to
have a smaller one.

### Action spine (`ActionSpineProofs`)

| Theorem | Property | Argument |
|---|---|---|
| `SpineTypes` | `TypeOK` | `TypeInv`: a caller outside a call has no action, the holder of the guard works on a note, an edit was found to fit when it was begun |
| `IrreversibleIsHuman` | `IrreversibleByHumanOnly` | `CallsOK`: past its decision a call knows who authorised it, and policy authorises nothing irreversible |
| `RevocationIsFelt` | `RevocationStops` | `CallsOK`: a call that has asked is licensed as soon as the scope is granted, and no effect is reached without |
| `NotesAreTrue` | `NoteMatchesRecord` | `NotesInv`: every note's record agrees with what is outside, or the note is in `misread` and its record says failed or undone; a call on a note holds the guard, and its copy is the record until a read fails in it; no transaction is in doubt, and a doubtful one agrees with itself and follows on what is stored. Without the last, a recovery to `resume` could bring in anything |
| `NotesKeepLifecycle` | `NotesFollowLifecycle` | `NotesInv` with `NotesMove`: one note moves at a time, along the diagram or by `Misreport` |
| `ApprovedHasDriver` | `ApprovedIsDriven` | `Driven`: a journal in doubt is the trace of a mishap, so that no recovery approves what nobody drives |
| `CapIsNearlyKept` | `CapOvershootBounded` | for finitely many callers: `CapInv` bounds what is executed *or under way, or in doubt*, since what a caller has under way was counted by nobody. A caller that passes the limit read fewer than the limit, all others have one action each |

### Note journal (`NoteJournalProofs`)

| Theorem | Property | Argument |
|---|---|---|
| `JournalTypes` | `TypeOK` | with `TodoOK`: what is left to publish is of the plan |
| `PointerKeepsPlan` | `PointerHasPlan` | `Journal`: plans are synced before they are pointed to, and never change |
| `NothingOverwritesTheHand` | `HandIsKept` | `Journal`: at `publish` every file of the plan holds what was found or what was asked for (`PublishCall`), so that one which holds neither is at no step written; unsynced bytes are of the active plan only (`DiskOK`), and what the owner wrote, once, is in no plan made before (`HandOK`) |
| `JournalIsAtomic` | `ImplementsAtomicFiles` | if not `PointerTears`: `Pointed` (the synced pointer is the visible one, or one whose result is on disk), `DecidedOK` (a result on disk is borne out by every file of its plan, but for those the owner has changed since), `OthersOK` (no other file moved). Publications are then stutters and the write of the result is the commit |

The hypothesis `~PointerTears` is the one the code does not keep: `note_durable`
is the counterexample, and the theorem says it is the only one. `HandIsKept` is
of transactions that are pointed to: it is the pointer by which a recovery
knows what it may write.

### Around an order (`TradingControlProofs`)

| Theorem | Property | Argument |
|---|---|---|
| `LiveModesAreEarned`, `CallingOffStopsOrders` | `LiveIsEarned`, `StopBeatsExecute` | `ModeInv`: `earned` is what the record says and no more, and between its two questions an `execute()` that was overtaken finds no live mode |
| `HaltsComeFirst` | `HaltsStopOrders` | `HaltInv`: a halt that has stood since the pass could see it stands in the record, and is among the questions yet to come |
| `AutomaticHaltsAreKept` | `AutomaticHaltsHold` | `CheckedInv`: a tripped scope is engaged until it is lifted, and who is about to lift it was given an override, was overtaken or found the trip masked; likewise for a drawdown halt, which nothing masks |
| `NeverTwoActive` | `OneActive`, and the type | `LedgerInv`: while a call is between its two writes nothing is active, and what it has in hand is what it read |
| `RetreatIsFinal` | `RolledBackStaysBack` | the same: what a version that may come to be active would retreat to was superseded, so `previous` never names a version rolled back that could be restored, through any crash |
| `PassesAreTyped` | `ReconTypeOK`, `TypeOK` | for any workers: the steps of a pass are reads, or steps of the engine |
| `CleanPassesAreCaughtUp` | `CleanPassIsCaughtUp` | for one worker and finitely many orders: `ReconInv`. Positions agree at the last comparison, both are signed sums of executions, of each once (`ExecutionsAddUp`, `PortfolioAddsUp`), and what is applied was executed; so what the venue has and the portfolio misses adds up to nought (`AgreementCancels`), and it holds all that was missing of before |
| `OneSidedPassesMissNothing` | `vouched \subseteq applied` always, if all orders buy or all sell | the same, and a set of fills of one sign that adds up to nought is empty (`SumCancelsNothing`) |

The last two are of one worker, because with two it is false: `apply_fill()` tests and
adds without a lock (`portfolio.py:293`), two threads with the same fill apply it
twice, and that may hide one that was missed. `PositionFollowsTheBook` says how
far the race goes with any number.

### Money and jobs (`PaymentProofs`, `OperationsProofs`)

| Theorem | Property | Argument |
|---|---|---|
| `RecordStaysReadable`, `NoReplay` | `InterruptionLeavesSound`, `AuthorisedOnce` | `MandateInv`: one approver holds the lock, what it has read is what is stored, and a cart that was ever authorised has its nonce consumed, in the record or not |
| `MandatesAreBilledOnce` | `BilledOnce` | `BillingOK`: a nonce is billed exactly when its key was answered, and the ledger names only such |
| `OvershootIsBounded` | `OvershootBounded` | for finitely many payers, at least one: `Committed` bounds what is in the ledger *and* what was let through. What is billed is in the ledger, about to be recorded, or forgotten; a charge that leaves the ledger is forgotten from then on |
| `RoundsObeyOwners` | `OwnerHasTheLastWord` | `SchedInv`: nothing a round holds is of a later addition or output than there was; a mark then finds the job it is for, or none |
| `ChangesAreRunOnce` | `ChangeFiresOnce` | `OnceInv`: while rounds do not overlap, what a round is to run is later than all that was run under that name, and the store knows it |
| `JobsAreTyped` | `SchedTypeOK` | `TimesArePast`: times that are stored or held are past, so the clock's bound is theirs |
| `SpendIsNeverLost` | `SpendIsKept` | `UsageInv`: what is in a journal was made and is there once; a compaction unlinks only what it has published; only the end of a journal is torn, unless something was glued to it; a journal a power loss brings back was published |
| `BudgetIsNearlyKept` | `BudgetOvershootBounded` | for finitely many processes and calls: `BudgetInv` bounds what a reader counts *and* what was let through and is not counted yet. `GhostIsCounted` says that a journal that comes back adds nothing |

### Composition (`ComponentsProofs`)

`ReconcilerAlone`, `GateAlone` and their like show that a behaviour of
`ComponentsSpec` is one of each component's specification, so that each theorem
above holds of what the run `components` explores; `ComponentTypes` states
`TypesOK` so.

**Assumptions the code does not always keep** are `Lagging = FALSE` and
`~PointerTears`. The first is of the venue, which must show what it holds
(`recover()` says it may not); the code relies on it, since a lookup that finds
nothing licenses the next attempt and the final rejection. The finite sets are
the orders, callers, payers, processes and calls of an installation.

**Only model-checked.** Liveness under fairness, which this prover does not do:
`SubmissionEnds`, `VenueClosureReachesBook`, `DoubtEnds`. The seven properties the
code violates. That `ActionSpine`'s journal, one step that commits or is left in
doubt, is what `NoteJournal` does in many: both are proved about, and the step
from one to the other is in their descriptions only.

## 5. Plan

1. **Done**: order book, venue, portfolio, execution engine and lifecycle;
   action spine; note journal; reconciler, trading gate and modes; mandates and
   payment rail; deployments; scheduler; usage ledger. All with proofs of every
   safety property that is checked.
2. Next to prove: what a clean pass vouches for with several workers, whose
   positions agree up to the race; that the steps of `NoteJournal`, seen from
   outside, are the one step that `ActionSpine` takes.
3. Candidates for modelling: the admission queue of `usage.py`, `proclock`'s
   bounded wait, the journal of `sessionlog.py`, promotion of native models.

## 6. Not modelled

Numerical code (features, forecasts, backtests, training), the text of prompts
and model answers, transports and user interfaces, filters of text, packaging.
Each is a component in `PROJECT.json` with its reason.
