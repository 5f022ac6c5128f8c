----------------------------- MODULE UsageLedger -----------------------------
(***************************************************************************)
(* The usage ledger and the daily budget (olympus/usage.py).  A model call *)
(* is recorded as one line appended to the day's journal; a compaction     *)
(* folds the journal into the day's snapshot and removes it.  Both take    *)
(* the cross-process lock.  The budget is checked before work is started,  *)
(* on the snapshot and then the journal, without the lock.                 *)
(*                                                                         *)
(* One day; a request makes one call and a call costs one unit.  The       *)
(* totals per user and per model are left out: they are the same sum.      *)
(***************************************************************************)
EXTENDS Integers, Sequences, FiniteSets, FiniteSetsExt

CONSTANTS
    Spender,        \* processes that make model calls; each may compact
    ModelCall,      \* the calls of the day
    Budget,         \* daily_budget(), in calls
    CompactAt,      \* compact_at_bytes(), in lines
    MaxTrouble,     \* bound: failed writes, crashes and power losses
    Torn,           \* a line that does not parse
    Unlocked        \* nobody has the lock

ASSUME BudgetAssumption ==
    Budget \in Nat \ {0} /\ CompactAt \in Nat \ {0} /\ MaxTrouble \in Nat
ASSUME LineAssumption == Torn \notin ModelCall /\ Unlocked \notin Spender

VARIABLES
    snapshot,       \* how often each call is in the day's snapshot
    lines,          \* the journal
    unfinished,     \* its last line has no newline
    synced,         \* how many of its lines are on disk for certain
    ghost,          \* an unlinked journal that a power loss may bring back
    compactor,      \* who has the lock between the steps of a compaction
    spender,        \* each process's place, what it read, the call it made
    made,           \* history: the calls that were made
    logged,         \* history: the calls appended, but for unsynced lines that went with the power
    glued,          \* history: the calls appended to an unfinished line
    cut,            \* history: a compaction was cut short after its publication
    misled,         \* history: work started on a read that a compaction overtook
    trouble

usageVars == <<snapshot, lines, unfinished, synced, ghost, compactor, spender,
               made, logged, glued, cut, misled, trouble>>

Between == [at |-> "idle", seen |-> 0, call |-> Torn]

Move(p, at) == spender' = [spender EXCEPT ![p].at = at]

Done(p) == spender' = [spender EXCEPT ![p] = Between]

Trouble == trouble < MaxTrouble /\ trouble' = trouble + 1

\* The lines a replay takes into account: a last line without its newline is dropped.
Finished == IF unfinished THEN SubSeq(lines, 1, Len(lines) - 1) ELSE lines

\* A line that does not parse is forgiven where it is the last.
Replayable == \A i \in 1 .. Len(Finished) - 1 : Finished[i] # Torn

Events == {i \in DOMAIN Finished : Finished[i] # Torn}

InSnapshot == MapThenSumSet(LAMBDA c : snapshot[c], ModelCall)

\* Mutant: a day without a snapshot has no spend.
ReportedOnceCompacted(p) ==
    IF spender[p].seen = 0 THEN 0 ELSE spender[p].seen + Cardinality(Events)

\* What ledger() adds up to for a reader that has read the snapshot.
Reported(p) == spender[p].seen + Cardinality(Events)

-----------------------------------------------------------------------------
(* The budget guard *)

\* check_budget() reads the snapshot ...
ReadSnapshot(p) ==
    /\ spender[p] = Between
    /\ spender' = [spender EXCEPT ![p] = [Between EXCEPT !.at = "check", !.seen = InSnapshot]]
    /\ UNCHANGED <<snapshot, lines, unfinished, synced, ghost, compactor,
                   made, logged, glued, cut, misled, trouble>>

\* ... and the journal, and lets the work start or refuses.  A journal that
\* cannot be replayed makes it raise.
ReadJournal(p) ==
    /\ spender[p].at = "check"
    /\ \/ /\ Replayable /\ Reported(p) < Budget
          /\ Move(p, "call")
          /\ misled' = misled + (IF spender[p].seen < InSnapshot THEN 1 ELSE 0)
       \/ /\ ~Replayable \/ Reported(p) >= Budget
          /\ Done(p)
          /\ UNCHANGED misled
    /\ UNCHANGED <<snapshot, lines, unfinished, synced, ghost, compactor,
                   made, logged, glued, cut, trouble>>

MakeCall(p) ==
    /\ spender[p].at = "call"
    /\ \E c \in ModelCall \ made :
          /\ made' = made \cup {c}
          /\ spender' = [spender EXCEPT ![p].at = "record", ![p].call = c]
    /\ UNCHANGED <<snapshot, lines, unfinished, synced, ghost, compactor,
                   logged, glued, cut, misled, trouble>>

-----------------------------------------------------------------------------
(* record() *)

\* The line goes where the file ends, after an unfinished line if there is one.
\* An append that creates the file syncs its directory.
AppendUsage(c) ==
    /\ lines' = IF unfinished THEN lines ELSE Append(lines, c)
    /\ unfinished' = FALSE
    /\ glued' = IF unfinished THEN glued \cup {c} ELSE glued
    /\ logged' = logged \cup {c}
    /\ ghost' = IF lines = <<>> THEN <<>> ELSE ghost

\* The append, under the lock; it is synced if the interval has passed.  The
\* journal is compacted when it is over its size.
Record(p) ==
    /\ spender[p].at = "record" /\ compactor = Unlocked
    /\ AppendUsage(spender[p].call)
    /\ synced' \in {synced, Len(lines')}
    /\ IF Len(lines') >= CompactAt THEN Move(p, "compact") ELSE Done(p)
    /\ UNCHANGED <<snapshot, compactor, made, cut, misled, trouble>>

\* The lock is not had in time, or nothing can be written: the line is lost.
LoseRecord(p) ==
    /\ spender[p].at = "record"
    /\ Done(p)
    /\ UNCHANGED <<snapshot, lines, unfinished, synced, ghost, compactor,
                   made, logged, glued, cut, misled, trouble>>

\* The disk is full in the middle of the line.
TearRecord(p) ==
    /\ spender[p].at = "record" /\ compactor = Unlocked /\ Trouble
    /\ lines' = IF unfinished THEN lines ELSE Append(lines, Torn)
    /\ unfinished' = TRUE
    /\ Done(p)
    /\ UNCHANGED <<snapshot, synced, ghost, compactor, made, logged, glued, cut, misled>>

-----------------------------------------------------------------------------
(* compact() *)

\* The daily maintenance of the heartbeat; record() comes here by itself.
Maintain(p) ==
    /\ spender[p] = Between /\ lines # <<>>
    /\ Move(p, "compact")
    /\ UNCHANGED <<snapshot, lines, unfinished, synced, ghost, compactor,
                   made, logged, glued, cut, misled, trouble>>

\* With the lock, the journal is folded into the snapshot and that published.
\* A journal that cannot be replayed raises; one without events is left.
PublishSnapshot(p) ==
    /\ spender[p].at = "compact" /\ compactor = Unlocked
    /\ IF Replayable /\ Events # {}
       THEN /\ snapshot' = [c \in ModelCall |->
                  snapshot[c] + Cardinality({i \in Events : Finished[i] = c})]
            /\ compactor' = p
            /\ Move(p, "unlink")
       ELSE Done(p) /\ UNCHANGED <<snapshot, compactor>>
    /\ UNCHANGED <<lines, unfinished, synced, ghost, made, logged, glued, cut, misled, trouble>>

\* The journal is removed, for processes at once ...
Unlink(p) ==
    /\ spender[p].at = "unlink"
    /\ ghost' = Finished
    /\ lines' = <<>> /\ unfinished' = FALSE /\ synced' = 0
    /\ Move(p, "sync")
    /\ UNCHANGED <<snapshot, compactor, made, logged, glued, cut, misled, trouble>>

\* Mutant: the compaction ends with the unlink.
SyncNothing(p) ==
    /\ spender[p].at = "sync"
    /\ compactor' = Unlocked
    /\ Done(p)
    /\ UNCHANGED <<snapshot, lines, unfinished, synced, ghost,
                   made, logged, glued, cut, misled, trouble>>

\* ... and on disk with the sync of the directory.
SyncDirectory(p) ==
    /\ spender[p].at = "sync"
    /\ ghost' = <<>>
    /\ compactor' = Unlocked
    /\ Done(p)
    /\ UNCHANGED <<snapshot, lines, unfinished, synced, made, logged, glued, cut, misled, trouble>>

\* Nothing is published, the lock not being had in time or the disk full; or
\* the unlink fails after the publication.
CompactFails(p) ==
    /\ \/ /\ spender[p].at = "compact"
          /\ UNCHANGED <<compactor, cut, trouble>>
       \/ /\ spender[p].at = "unlink" /\ Trouble
          /\ compactor' = Unlocked /\ cut' = TRUE
    /\ Done(p)
    /\ UNCHANGED <<snapshot, lines, unfinished, synced, ghost, made, logged, glued, misled>>

-----------------------------------------------------------------------------
(* Crashes and power losses *)

\* A process is killed; the kernel gives its lock back.
Kill(p) ==
    /\ spender[p] # Between /\ Trouble
    /\ Done(p)
    /\ compactor' = IF compactor = p THEN Unlocked ELSE compactor
    /\ cut' = (cut \/ compactor = p)
    /\ UNCHANGED <<snapshot, lines, unfinished, synced, ghost, made, logged, glued, misled>>

\* The power goes: unsynced lines may be lost from some line on, that line may
\* be left torn, and a journal whose removal is not synced may be back.
LosePower ==
    /\ Trouble
    /\ \/ \E k \in synced .. Len(lines), torn \in BOOLEAN :
             /\ torn => k < Len(lines)
             /\ lines' = SubSeq(lines, 1, k) \o (IF torn THEN <<Torn>> ELSE <<>>)
             /\ unfinished' = IF k = Len(lines) THEN unfinished ELSE torn
             /\ logged' = logged \ {lines[i] : i \in k + 1 .. Len(lines)}
       \/ /\ lines = <<>> /\ lines' = ghost
          /\ UNCHANGED <<unfinished, logged>>
    /\ synced' = Len(lines')
    /\ ghost' = <<>>
    /\ spender' = [p \in Spender |-> Between]
    /\ compactor' = Unlocked
    /\ cut' = (cut \/ compactor # Unlocked)
    /\ UNCHANGED <<snapshot, made, glued, misled>>

UsageInit ==
    /\ snapshot = [c \in ModelCall |-> 0]
    /\ lines = <<>> /\ unfinished = FALSE /\ synced = 0 /\ ghost = <<>>
    /\ compactor = Unlocked
    /\ spender = [p \in Spender |-> Between]
    /\ made = {} /\ logged = {} /\ glued = {}
    /\ cut = FALSE /\ misled = 0 /\ trouble = 0

UsageNext ==
    \/ \E p \in Spender :
          \/ ReadSnapshot(p) \/ ReadJournal(p) \/ MakeCall(p)
          \/ Record(p) \/ LoseRecord(p) \/ TearRecord(p)
          \/ Maintain(p) \/ PublishSnapshot(p) \/ Unlink(p) \/ SyncDirectory(p)
          \/ CompactFails(p) \/ Kill(p)
    \/ LosePower

UsageSpec == UsageInit /\ [][UsageNext]_usageVars

-----------------------------------------------------------------------------
(* Properties *)

\* A process has the lock between its publication and the end of its compaction.
UsageTypeOK ==
    /\ snapshot \in [ModelCall -> Nat]
    /\ lines \in Seq(ModelCall \cup {Torn}) /\ ghost \in Seq(ModelCall \cup {Torn})
    /\ unfinished => lines # <<>> /\ lines[Len(lines)] = Torn
    /\ synced \in 0 .. Len(lines)
    /\ \A p \in Spender : (spender[p].at \in {"unlink", "sync"}) <=> (compactor = p)
    /\ logged \subseteq made /\ glued \subseteq made

InJournal(c) == \E i \in DOMAIN lines : lines[i] = c

\* Spend is neither dropped nor counted twice as it moves from the journal to
\* the snapshot.  A call that was appended is in one of them, unless it was
\* appended to a torn line; nobody is then kept from reading the journal.  It
\* is in both only after a compaction was cut short past its publication
\* (usage.py, compact(): "compaction moves where the numbers live").
SpendIsKept ==
    /\ \A c \in logged \ glued : snapshot[c] > 0 \/ InJournal(c)
    /\ glued = {} => Replayable
    /\ compactor = Unlocked /\ ~cut =>
          \A c \in ModelCall : snapshot[c] + (IF InJournal(c) THEN 1 ELSE 0) <= 1

\* Calls that were made and are neither counted nor about to be recorded.
Unaccounted ==
    {c \in made : /\ snapshot[c] = 0 /\ ~InJournal(c)
                  /\ \A p \in Spender : spender[p].call # c}

\* The calls of the day exceed the budget by less than one for each process,
\* but for calls whose record was lost, and for work started on a snapshot read
\* before a compaction and a journal read after it (check_budget(): a soft line).
BudgetOvershootBounded ==
    Cardinality(made) <=
        Budget + Cardinality(Spender) - 1 + Cardinality(Unaccounted) + misled

\* A write that was torn makes nobody unable to read the day's spend: every
\* record before it survives (usage.py, _replay_journal()).
TornTailIsForgiven == Replayable
=============================================================================
