----------------------------- MODULE ActionSpine -----------------------------
(***************************************************************************)
(* The action spine (olympus/actions.py): actions are prepared as data,    *)
(* and run only through an approval or a policy.  A record is one file;    *)
(* every call reads it, works on its own copy and writes the whole copy    *)
(* back.  Calls on a save_note action hold the notes guard from end to     *)
(* end and commit through its journal; calls on any other action hold      *)
(* nothing between the read and the write, and the threads of the web      *)
(* server and the processes of the CLI interleave there.                   *)
(*                                                                         *)
(* One day of one owner.  Legacy and unregistered records, refused before  *)
(* anything is read, and the audit and outcome logs are left out.          *)
(***************************************************************************)
EXTENDS Integers, FiniteSets

CONSTANTS
    Action,         \* action ids
    Caller,         \* threads and processes that call the spine
    KindOf,         \* the registered type of each action
    Limit,          \* daily_limit() of each type, 0 for none
    Level,          \* the autonomy levels the owner moves between
    ShadowModes,    \* whether the deployment runs in shadow mode
    MaxRevision,    \* bound on the edits of an action's payload
    MaxDrift,       \* bound on the changes of what previews are rendered from
    MaxMishaps,     \* bound on crashes and I/O failures
    None

Kind == {"save_note", "write_file", "send_email"}

ASSUME KindAssumption == KindOf \in [Action -> Kind] /\ Limit \in [Kind -> Nat]
ASSUME SettingsAssumption == Level \subseteq 0..4 /\ 1 \in Level /\ ShadowModes \subseteq BOOLEAN
ASSUME BoundAssumption == MaxRevision \in Nat /\ MaxDrift \in Nat /\ MaxMishaps \in Nat
ASSUME NobodyAssumption == None \notin Action \cup Caller

Note == {a \in Action : KindOf[a] = "save_note"}

Irreversible(a) == KindOf[a] = "send_email"

VARIABLES
    record,     \* the record of each action, as its file has it
    outside,    \* each action's effect on the world: times taken, and if it stands
    level,      \* the owner's effective autonomy level
    granted,    \* the types whose scope the owner has granted
    world,      \* what previews are rendered from besides the payload
    shadow,     \* shadow mode
    pc,         \* where each caller is
    job,        \* the action a caller works on
    held,       \* the caller's copy of its record
    by,         \* what authorised the call: nothing yet, a human, or policy
    licensed,   \* the scope has been granted at some moment of the call
    guard,      \* the caller that holds the notes guard
    journal,    \* the note mutation left in doubt, if any
    mishaps,    \* crashes and I/O failures so far
    misread     \* history: the notes one of whose calls met a read that failed

settings == <<level, granted, world, shadow>>
kept == <<settings, misread>>
vars == <<record, outside, kept, pc, job, held, by, licensed, guard, journal, mishaps>>

Recorded == {"prepared", "approved", "executed", "failed", "rejected", "undone"}

Preview == [rev : 0..MaxRevision, world : 0..MaxDrift]

\* approved_at is kept apart from the status, which a hold takes back.
Record == [status : Recorded \cup {"absent"}, approved : BOOLEAN,
           rev : 0..MaxRevision, shown : Preview]

NoRecord == [status |-> "absent", approved |-> FALSE, rev |-> 0,
             shown |-> [rev |-> 0, world |-> 0]]

\* Effects are counted up to two.
Outside == [times : 0..2, stands : BOOLEAN]

Untouched == [times |-> 0, stands |-> FALSE]

Took(a) == [times |-> IF outside[a].times = 2 THEN 2 ELSE outside[a].times + 1,
            stands |-> TRUE]

Undone(a) == [outside[a] EXCEPT !.stands = FALSE]

Doubt == [action : Action, record : Record, outside : Outside]

-----------------------------------------------------------------------------
(* Policy *)

\* Mutant: standing authority covers everything.
MinLevelStanding(a) == IF a \in Note THEN 3 ELSE 4

\* _min_level_to_auto(), by risk class.
MinLevel(a) == IF Irreversible(a) THEN 99 ELSE IF a \in Note THEN 3 ELSE 4

\* Mutant: the scope is not asked for.
HasScopeAlways(a) == TRUE

HasScope(a) == KindOf[a] \in granted

\* What the history of a call remembers of it.
GrantedNow(a) == KindOf[a] \in granted

\* can_auto_execute()
CanAuto(a) == HasScope(a) /\ level >= MinLevel(a)

Render(rev) == [rev |-> rev, world |-> world]

\* The gates of _execute() that read no other action: the preview still is what
\* would run, shadow mode performs nothing irreversible, and the scope is granted.
Blocked(a, r) ==
    \/ Render(r.rev) # r.shown
    \/ shadow /\ Irreversible(a)
    \/ ~HasScope(a)

\* _executed_today()
ExecutedToday(k) == {a \in Action : KindOf[a] = k /\ record[a].status = "executed"}

\* Mutant: the cap is compared off by one.
CapReachedLate(k) == Limit[k] > 0 /\ Cardinality(ExecutedToday(k)) > Limit[k]

CapReached(k) == Limit[k] > 0 /\ Cardinality(ExecutedToday(k)) >= Limit[k]

-----------------------------------------------------------------------------
(* The notes guard and what a call's step writes *)

\* guard(): free or re-entered, and refused while a mutation is in doubt.
GuardOpen(c) == guard \in {None, c} /\ journal = None

\* Mutant: note transitions are not serialised.
SerializedNothing(a) == FALSE

\* _note_transition(): calls on a note hold the guard throughout.
Serialized(a) == a \in Note

Goto(c, there) == pc' = [pc EXCEPT ![c] = there]

\* Mutant: a call that raises keeps the guard.
LeaveHoldingGuard(c) ==
    /\ Goto(c, "idle")
    /\ job' = [job EXCEPT ![c] = None]
    /\ held' = [held EXCEPT ![c] = NoRecord]
    /\ by' = [by EXCEPT ![c] = "nothing"]
    /\ licensed' = [licensed EXCEPT ![c] = FALSE]
    /\ UNCHANGED guard

\* The call returns or raises: its copy is dropped and its guard released.
Leave(c) ==
    /\ Goto(c, "idle")
    /\ job' = [job EXCEPT ![c] = None]
    /\ held' = [held EXCEPT ![c] = NoRecord]
    /\ by' = [by EXCEPT ![c] = "nothing"]
    /\ licensed' = [licensed EXCEPT ![c] = FALSE]
    /\ guard' = IF guard = c THEN None ELSE guard

\* The call goes on with r as its copy.
GoOn(c, r, there) ==
    /\ Goto(c, there)
    /\ held' = [held EXCEPT ![c] = r]
    /\ UNCHANGED <<job, licensed, guard>>

Mishap == mishaps < MaxMishaps /\ mishaps' = mishaps + 1

\* The record and the effect reach the disk together ...
Store(c, r, out) ==
    /\ record' = [record EXCEPT ![job[c]] = r]
    /\ outside' = [outside EXCEPT ![job[c]] = out]
    /\ UNCHANGED <<kept, journal, mishaps>>

\* ... or, for a note, the journal is left with both and the call raises.
LeaveInDoubt(c, r, out) ==
    /\ job[c] \in Note
    /\ Mishap
    /\ journal' = [action |-> job[c], record |-> r, outside |-> out]
    /\ Leave(c)
    /\ UNCHANGED <<record, outside, kept>>

\* A write that ends the call.
SaveAndLeave(c, r, out) ==
    \/ Store(c, r, out) /\ Leave(c)
    \/ LeaveInDoubt(c, r, out)

\* A write the call goes on after.
SaveAndGoOn(c, r, out, there) ==
    \/ Store(c, r, out) /\ GoOn(c, r, there)
    \/ LeaveInDoubt(c, r, out)

Now(c) == outside[job[c]]

With(c, status) == [held[c] EXCEPT !.status = status]

Approving(c) == [held[c] EXCEPT !.status = "approved", !.approved = TRUE]

Quiet == UNCHANGED <<record, outside, kept, journal, mishaps>>

-----------------------------------------------------------------------------
(* Calls *)

\* prepare(), by a tool that then asks auto_or_hold(), or by one that leaves
\* the action for approval.
Prepare(c, a) ==
    /\ pc[c] = "idle"
    /\ record[a].status = "absent"
    /\ a \in Note => GuardOpen(c)
    /\ LET r == [NoRecord EXCEPT !.status = "prepared", !.shown = Render(0)]
       IN  \/ /\ record' = [record EXCEPT ![a] = r]
              /\ \/ /\ Goto(c, "decide")
                    /\ job' = [job EXCEPT ![c] = a]
                    /\ held' = [held EXCEPT ![c] = r]
                 \/ UNCHANGED <<pc, job, held>>
              /\ UNCHANGED <<journal, mishaps>>
           \/ /\ a \in Note
              /\ Mishap
              /\ journal' = [action |-> a, record |-> r, outside |-> outside[a]]
              /\ UNCHANGED <<record, pc, job, held>>
    /\ UNCHANGED <<outside, kept, by, licensed, guard>>

\* Mutant: a stale object is taken for the recorded action.
IsCurrentAnyway(c) == TRUE

\* The object auto_or_hold() was given is what the record says.
IsCurrent(c) == held[c] = record[job[c]]

\* auto_or_hold(): policy allows it, and the given object goes on to be approved ...
AutoApprove(c) ==
    /\ pc[c] = "decide"
    /\ CanAuto(job[c])
    /\ job[c] \in Note => GuardOpen(c) /\ IsCurrent(c)
    /\ Goto(c, "approve")
    /\ by' = [by EXCEPT ![c] = "policy"]
    /\ licensed' = [licensed EXCEPT ![c] = GrantedNow(job[c])]
    /\ guard' = IF Serialized(job[c]) THEN c ELSE guard
    /\ Quiet /\ UNCHANGED <<job, held>>

\* ... or it does not, or the object is stale, or the guard refuses.
LeaveToHuman(c) ==
    /\ pc[c] = "decide"
    /\ \/ ~CanAuto(job[c])
       \/ job[c] \in Note /\ (journal # None \/ ~IsCurrent(c))
    /\ Leave(c)
    /\ Quiet

\* undo() of a note recorded as undone is allowed; it confirms that the note is
\* gone, and removes one that still stands.
UndoneInVain(a) == a \in Note /\ record[a].status = "undone" /\ outside[a].stands

\* approve(), reject(), edit() and undo() read the record and check its status:
\* only a prepared action is decided on, only an executed one is undone.
Call(c, a) ==
    /\ pc[c] = "idle"
    /\ GuardOpen(c)
    /\ \/ /\ record[a].status = "prepared"
          /\ \/ Goto(c, "approve") \/ Goto(c, "reject")
             \/ record[a].rev < MaxRevision /\ Goto(c, "edit")
       \/ /\ (record[a].status = "executed" /\ ~Irreversible(a)) \/ UndoneInVain(a)
          /\ Goto(c, "undo")
    /\ job' = [job EXCEPT ![c] = a]
    /\ held' = [held EXCEPT ![c] = record[a]]
    /\ licensed' = [licensed EXCEPT ![c] = GrantedNow(a)]
    /\ guard' = IF Serialized(a) THEN c ELSE guard
    /\ Quiet /\ UNCHANGED by

\* retry_note(): an approved note that an interruption left behind.
RetryNote(c, a) ==
    /\ pc[c] = "idle"
    /\ a \in Note /\ GuardOpen(c)
    /\ record[a].status = "approved" /\ record[a].approved
    /\ Goto(c, "verify")
    /\ job' = [job EXCEPT ![c] = a]
    /\ held' = [held EXCEPT ![c] = record[a]]
    /\ licensed' = [licensed EXCEPT ![c] = GrantedNow(a)]
    /\ by' = [by EXCEPT ![c] = "human"]
    /\ guard' = IF Serialized(a) THEN c ELSE guard
    /\ Quiet

\* The copy is written as approved, by a human or by policy.
Approve(c) ==
    /\ pc[c] = "approve"
    /\ SaveAndGoOn(c, Approving(c), Now(c), "verify")
    /\ by' = [by EXCEPT ![c] = CASE pc'[c] = "idle" -> "nothing"
                                [] by[c] = "policy" -> "policy"
                                [] OTHER -> "human"]

Reject(c) ==
    /\ pc[c] = "reject"
    /\ SaveAndLeave(c, With(c, "rejected"), Now(c))

\* edit(): the preview is rendered again from the edited payload.
Edit(c) ==
    /\ pc[c] = "edit"
    /\ LET rev == held[c].rev + 1
       IN  SaveAndLeave(c, [held[c] EXCEPT !.rev = rev, !.shown = Render(rev)], Now(c))

-----------------------------------------------------------------------------
(* _execute() *)

Fail(c) == SaveAndLeave(c, With(c, "failed"), Now(c))

Verify(c) ==
    /\ pc[c] = "verify"
    /\ IF Blocked(job[c], held[c])
       THEN Fail(c)
       ELSE GoOn(c, held[c], "limit") /\ Quiet /\ UNCHANGED by

\* A daily limit counts the records of the owner, read under the guard.
CheckLimit(c) ==
    /\ pc[c] = "limit"
    /\ Limit[KindOf[job[c]]] > 0 => GuardOpen(c)
    /\ IF CapReached(KindOf[job[c]])
       THEN Fail(c)
       ELSE GoOn(c, held[c], "contract") /\ Quiet /\ UNCHANGED by

\* A note mutation in doubt refuses the read, and the call raises.
LimitRaises(c) ==
    /\ pc[c] = "limit"
    /\ Limit[KindOf[job[c]]] > 0
    /\ journal # None
    /\ Leave(c)
    /\ Quiet

\* Mutant: a held action stays approved.
HoldApproved(c) == held[c]

\* Recovery of a contract violation: back to the human.
Hold(c) == [held[c] EXCEPT !.status = "prepared", !.approved = FALSE]

\* The clauses of the action_execution contract that can fail.
ContractHolds(c) ==
    /\ HasScope(job[c])
    /\ Irreversible(job[c]) => held[c].status = "approved" /\ held[c].approved
    /\ held[c].approved \/ CanAuto(job[c])

Contract(c) ==
    /\ pc[c] = "contract"
    /\ IF ContractHolds(c)
       THEN GoOn(c, held[c], "effect") /\ Quiet /\ UNCHANGED by
       ELSE SaveAndLeave(c, Hold(c), Now(c))

\* The effect takes place ...
Perform(c) ==
    /\ pc[c] = "effect" /\ job[c] \notin Note
    /\ outside' = [outside EXCEPT ![job[c]] = Took(job[c])]
    /\ Goto(c, "executed")
    /\ UNCHANGED <<record, kept, job, held, by, licensed, guard, journal, mishaps>>

\* ... a note's together with its record, to be read back ...
PerformNote(c) ==
    /\ pc[c] = "effect" /\ job[c] \in Note
    /\ SaveAndGoOn(c, With(c, "executed"), Took(job[c]), "confirm")
    /\ by' = IF pc'[c] = "idle" THEN [by EXCEPT ![c] = "nothing"] ELSE by

\* ... or raises before it does.
PerformFails(c) ==
    /\ pc[c] = "effect"
    /\ Fail(c)

\* The record follows the effect, as executed or, after a late exception, failed.
Executed(c) ==
    /\ pc[c] = "executed"
    /\ \E s \in {"executed", "failed"} : SaveAndLeave(c, With(c, s), Now(c))

\* note_result(): the committed note is read back, and the call returns ...
NoteConfirmed(c) ==
    /\ pc[c] = "confirm"
    /\ Leave(c)
    /\ Quiet

\* A read fails with an error that is not of the notes: the copy of the call, on
\* which its outcome is already marked, is about to be written as it is.
ReadFails(c, status) ==
    /\ Mishap
    /\ misread' = misread \cup {job[c]}
    /\ GoOn(c, With(c, status), "unread")
    /\ UNCHANGED <<record, outside, settings, by, journal>>

\* ... or it cannot be read, and the executed record is taken for a failed one.
NoteUnread(c) ==
    /\ pc[c] = "confirm"
    /\ ReadFails(c, "failed")

\* The handler of the failed read saves the copy.
SaveUnread(c) ==
    /\ pc[c] = "unread"
    /\ SaveAndLeave(c, held[c], Now(c))

-----------------------------------------------------------------------------
(* undo() *)

\* Reversed at once with its record, for a note ...
UndoNote(c) ==
    /\ pc[c] = "undo" /\ job[c] \in Note
    /\ SaveAndLeave(c, With(c, "undone"), Undone(job[c]))

\* ... or first reversed and then recorded ...
UndoEffect(c) ==
    /\ pc[c] = "undo" /\ job[c] \notin Note
    /\ outside' = [outside EXCEPT ![job[c]] = Undone(job[c])]
    /\ Goto(c, "undone")
    /\ UNCHANGED <<record, kept, job, held, by, licensed, guard, journal, mishaps>>

UndoRecord(c) ==
    /\ pc[c] = "undone"
    /\ SaveAndLeave(c, With(c, "undone"), Now(c))

\* ... or a read of the transaction fails, after the copy was marked as undone ...
UndoUnread(c) ==
    /\ pc[c] = "undo" /\ job[c] \in Note
    /\ ReadFails(c, "undone")

\* ... or not reversed, and the copy is written back with the error.
UndoFails(c) ==
    /\ pc[c] = "undo"
    /\ SaveAndLeave(c, held[c], Now(c))

-----------------------------------------------------------------------------
(* Crashes, recovery and settings *)

\* The process of a caller dies, or a note's state cannot be read: the guard is
\* released by the kernel and the record stays as it is.
Crash(c) ==
    /\ pc[c] # "idle"
    /\ Mishap
    /\ Leave(c)
    /\ UNCHANGED <<record, outside, kept, journal>>

\* recover(): the operator resumes or rolls back the mutation in doubt.
RecoverNotes ==
    /\ journal # None /\ guard = None
    /\ journal' = None
    /\ \/ /\ record' = [record EXCEPT ![journal.action] = journal.record]
          /\ outside' = [outside EXCEPT ![journal.action] = journal.outside]
       \/ UNCHANGED <<record, outside>>
    /\ UNCHANGED <<kept, pc, job, held, by, licensed, guard, mishaps>>

Untouching ==
    UNCHANGED <<record, outside, shadow, pc, job, held, by, guard, journal, mishaps, misread>>

SetAutonomy ==
    /\ level' \in Level \ {level}
    /\ Untouching /\ UNCHANGED <<granted, world, licensed>>

GrantScope ==
    /\ \E k \in {KindOf[a] : a \in Action} \ granted :
        /\ granted' = granted \cup {k}
        /\ licensed' = [c \in Caller |->
                licensed[c] \/ (job[c] # None /\ KindOf[job[c]] = k)]
    /\ Untouching /\ UNCHANGED <<level, world>>

\* revoke_scope(), and revoke_all(), "the kill switch".
Revoke ==
    /\ \E k \in granted : granted' \in {granted \ {k}, {}}
    /\ Untouching /\ UNCHANGED <<level, world, licensed>>

\* A template, a file or a workspace changes under a preview.
Drift ==
    /\ world < MaxDrift
    /\ world' = world + 1
    /\ Untouching /\ UNCHANGED <<level, granted, licensed>>

Step(c) ==
    \/ \E a \in Action : Prepare(c, a) \/ Call(c, a) \/ RetryNote(c, a)
    \/ AutoApprove(c) \/ LeaveToHuman(c)
    \/ Approve(c) \/ Reject(c) \/ Edit(c)
    \/ Verify(c) \/ CheckLimit(c) \/ LimitRaises(c) \/ Contract(c)
    \/ Perform(c) \/ PerformNote(c) \/ PerformFails(c) \/ Executed(c)
    \/ NoteConfirmed(c) \/ NoteUnread(c) \/ SaveUnread(c)
    \/ UndoNote(c) \/ UndoUnread(c) \/ UndoEffect(c) \/ UndoRecord(c) \/ UndoFails(c)
    \/ Crash(c)

Init ==
    /\ record = [a \in Action |-> NoRecord]
    /\ outside = [a \in Action |-> Untouched]
    /\ level = 1
    /\ granted = {}
    /\ world = 0
    /\ shadow \in ShadowModes
    /\ pc = [c \in Caller |-> "idle"]
    /\ job = [c \in Caller |-> None]
    /\ held = [c \in Caller |-> NoRecord]
    /\ by = [c \in Caller |-> "nothing"]
    /\ licensed = [c \in Caller |-> FALSE]
    /\ guard = None
    /\ journal = None
    /\ mishaps = 0
    /\ misread = {}

Next ==
    \/ \E c \in Caller : Step(c)
    \/ RecoverNotes
    \/ SetAutonomy \/ GrantScope \/ Revoke \/ Drift

Spec == Init /\ [][Next]_vars

-----------------------------------------------------------------------------
(* Properties *)

Inside == {"decide", "approve", "reject", "edit", "verify", "limit", "contract",
           "effect", "executed", "confirm", "unread", "undo", "undone"}

\* The calls that have approved their action and not yet settled it.
Executing == {"verify", "limit", "contract", "effect", "executed"}

TypeOK ==
    /\ record \in [Action -> Record]
    /\ outside \in [Action -> Outside]
    /\ level \in Level /\ granted \subseteq Kind /\ world \in 0..MaxDrift /\ shadow \in BOOLEAN
    /\ pc \in [Caller -> {"idle"} \cup Inside]
    /\ job \in [Caller -> Action \cup {None}]
    /\ held \in [Caller -> Record]
    /\ by \in [Caller -> {"nothing", "human", "policy"}]
    /\ licensed \in [Caller -> BOOLEAN]
    /\ guard \in Caller \cup {None}
    /\ journal \in Doubt \cup {None}
    /\ mishaps \in 0..MaxMishaps
    /\ misread \subseteq Note
    /\ \A c \in Caller : job[c] = None <=> pc[c] = "idle"
    /\ guard # None => job[guard] \in Note

\* THREAT_MODEL.md: "irreversible actions never auto-execute".  Whatever the
\* autonomy level does meanwhile, a human's call is behind every irreversible
\* effect.
IrreversibleByHumanOnly ==
    \A c \in Caller :
        pc[c] \in Executing /\ Irreversible(job[c]) => by[c] = "human"

\* A note is saved at most once, and its record never says executed of a note that
\* does not stand, through retries, undos, races, crashes and either recovery.  A
\* note that stands is recorded as executed, unless a read failed in one of its
\* calls; it may then be recorded as failed or as undone (_execute() and undo()
\* write over the record on any error that is not a NoteStateError), never as one
\* that could be approved or executed again.
NoteMatchesRecord ==
    \A a \in Note :
        /\ outside[a].times <= 1
        /\ record[a].status = "executed" => outside[a].stands
        /\ outside[a].stands =>
              \/ record[a].status = "executed"
              \/ a \in misread /\ record[a].status \in {"failed", "undone"}

\* revoke_all() as the kill switch, and revoke_scope(): nothing takes effect in
\* a call that began after it with no scope granted since.
RevocationStops ==
    \A c \in Caller : pc[c] \in {"effect", "executed"} => licensed[c]

\* Callers read the daily count, act, and only then add to it; so the recorded
\* executions may pass the limit, but by no more than the other callers there are.
CapOvershootBounded ==
    \A k \in Kind : Limit[k] > 0 =>
        Cardinality(ExecutedToday(k)) <= Limit[k] + Cardinality(Caller) - 1

\* Unless something crashed, an approved action has a call that is executing
\* it: none is left approved with nobody to settle it.
ApprovedIsDriven ==
    mishaps = 0 =>
        \A a \in Action : record[a].status = "approved" =>
            \E c \in Caller : job[c] = a /\ pc[c] \in Executing

\* Notes follow the documented lifecycle, effect included, but for the record of
\* a note that stands being written over after a failed read.
NoteLifecycle == INSTANCE ActionLifecycle WITH
    Action <- Note,
    status <- [a \in Note |-> record[a].status],
    stands <- [a \in Note |-> outside[a].stands]

NotesFollowLifecycle == NoteLifecycle!Spec

\* approve(), "Explicit human approval -> executes immediately. The gate": what
\* a human approves takes effect once.
IrreversibleTakesEffectOnce ==
    \A a \in Action : Irreversible(a) => outside[a].times <= 1

\* README.md: "A daily cap on how many times each action type may actually
\* execute, so even fast-clicked approvals [...] can't flood your contacts".
CapHolds ==
    \A k \in Kind : Limit[k] > 0 =>
        Cardinality({a \in Action : KindOf[a] = k /\ outside[a].times > 0}) <= Limit[k]
=============================================================================
