----------------------------- MODULE NoteJournal -----------------------------
(***************************************************************************)
(* The journal of the file notes (olympus/note_evidence.py).  A mutation   *)
(* of several files is first written down as a plan with the bytes before  *)
(* and after, then pointed at by active.json, then carried out file by     *)
(* file, then closed by a result; removing the pointer ends it.  While the *)
(* pointer is there the guard refuses everybody but recover(), which       *)
(* finishes the plan either way.                                           *)
(*                                                                         *)
(* Processes see what was replaced; a power loss is sure to leave only     *)
(* what was synced since.  publish() and remove() do both or raise.  The   *)
(* bounds on sizes and counts, and the checks of paths and of damaged      *)
(* evidence, refuse before anything is written and are left out.           *)
(***************************************************************************)
EXTENDS Integers, FiniteSets

CONSTANTS
    Target,         \* the files under the journal
    Value,          \* what a file may hold, absence included
    Hand,           \* what the owner writes into a file by hand, once
    Start,          \* what the files may hold to begin with
    Request,        \* the changes callers ask for: some files to their values
    Tx,             \* transaction ids
    PointerTears,   \* TRUE if a failure may leave the pointer replaced, not synced
    MaxFailures,    \* bound on I/O failures and crashed processes
    MaxLosses,      \* bound on power losses
    None

ASSUME ValueAssumption == Hand \in Value /\ Start \subseteq [Target -> Value \ {Hand}]
ASSUME RequestAssumption ==
    Request \subseteq UNION {[T -> Value \ {Hand}] : T \in SUBSET Target}
ASSUME NobodyAssumption == None \notin Tx \cup {"resume", "rollback"}
ASSUME FaultAssumption ==
    PointerTears \in BOOLEAN /\ MaxFailures \in Nat /\ MaxLosses \in Nat

VARIABLES
    file,       \* the targets
    plan,       \* <id>/plan.json, of each transaction
    active,     \* active.json
    result,     \* <id>/result.json
    disk,       \* of all four, what is synced
    at,         \* where the process in the guard is, "outside" if there is none
    tx,         \* the transaction it works on
    decision,   \* "resume" or "rollback"
    todo,       \* the targets it has yet to publish
    edited,     \* the owner has written by hand
    failures, losses

journalVars == <<file, plan, active, result>>
callVars == <<at, tx, decision, todo>>
faultVars == <<edited, failures, losses>>
vars == <<journalVars, disk, callVars, faultVars>>

Decision == {"resume", "rollback"}

NoPlan == [changes |-> {}, before |-> <<>>, after |-> <<>>]

Files == [Target -> Value]

Plan == [changes : SUBSET Target, before : Files, after : Files] \cup {NoPlan}

-----------------------------------------------------------------------------
(* The guard and the ways out of it *)

\* Mutant: the call forgets its transaction only when it starts another.
LeaveHolding ==
    at' = "outside" /\ UNCHANGED <<tx, decision, todo>>

\* The call returns, or raises: the lock is released.
Leave ==
    /\ at' = "outside" /\ tx' = None
    /\ decision' = "resume" /\ todo' = {}

GoOn(there) == at' = there /\ UNCHANGED <<tx, decision, todo>>

\* The I/O fails, or the process dies.
Fails == failures < MaxFailures /\ failures' = failures + 1 /\ Leave

\* What follows a replacement: it is synced and the call goes on, or it is not
\* and the call is over.
Synced(now, there) ==
    \/ disk' = now /\ GoOn(there) /\ UNCHANGED failures
    \/ Fails /\ UNCHANGED disk

-----------------------------------------------------------------------------
(* transact() *)

\* Mutant: the plan is not synced.
PreservedLater(i, made) == disk

\* The plan is synced, directory included.
Preserved(i, made) == [disk EXCEPT !.plan[i] = made]

Changed(r) == {t \in DOMAIN r : r[t] # file[t]}

\* A request that changes nothing returns, as one made on targets that have
\* since changed raises; otherwise the plan is made, under a fresh id.
Transact ==
    /\ at = "outside" /\ active = None
    /\ \E r \in Request, i \in Tx :
        /\ Changed(r) # {}
        /\ plan[i] = NoPlan /\ disk.plan[i] = NoPlan
        /\ LET made == [changes |-> Changed(r), before |-> file,
                        after |-> [t \in Target |-> IF t \in DOMAIN r THEN r[t] ELSE file[t]]]
           IN  /\ plan' = [plan EXCEPT ![i] = made]
               /\ \/ /\ disk' = Preserved(i, made)
                     /\ at' = "pointer" /\ tx' = i
                     /\ UNCHANGED <<decision, todo, failures>>
                  \/ Fails /\ UNCHANGED disk
    /\ UNCHANGED <<file, active, result, edited, losses>>

Point ==
    /\ at = "pointer"
    /\ active' = tx
    /\ Synced([disk EXCEPT !.active = tx], "check")
    /\ PointerTears \/ disk'.active = tx
    /\ UNCHANGED <<file, plan, result, edited, losses>>

-----------------------------------------------------------------------------
(* recover() and _finish() *)

\* The operator names the transaction in doubt and a decision.  Asked about one
\* that is finished, recover() only reads.
Recover(d) ==
    /\ at = "outside" /\ active # None
    /\ at' = "check" /\ tx' = active /\ decision' = d
    /\ UNCHANGED <<journalVars, disk, todo, faultVars>>

\* Mutant: a terminal decision refuses whatever is asked for.
AgreesWithNone == result[tx] = None

\* A terminal decision that is there is this one.
Agrees == result[tx] \in {None, decision}

\* Mutant: a changed target is overwritten.
UntouchedAnyway == TRUE

\* No target holds anything but its bytes before or after.
Untouched ==
    \A t \in plan[tx].changes : file[t] \in {plan[tx].before[t], plan[tx].after[t]}

Check ==
    /\ at = "check"
    /\ IF plan[tx] # NoPlan /\ Agrees /\ Untouched
       THEN /\ at' = "publish" /\ todo' = plan[tx].changes
            /\ UNCHANGED <<tx, decision>>
       ELSE Leave
    /\ UNCHANGED <<journalVars, disk, faultVars>>

Selected(t) == IF decision = "resume" THEN plan[tx].after[t] ELSE plan[tx].before[t]

\* Mutant: bytes that match already are not published again.
PublishedUnlessEqual(t) ==
    IF file[t] = Selected(t) THEN disk ELSE [disk EXCEPT !.file[t] = Selected(t)]

\* Even matching bytes are published again, which syncs them.
Published(t) == [disk EXCEPT !.file[t] = Selected(t)]

\* The code goes in the order of the plan; here, in any.
Publish ==
    /\ at = "publish"
    /\ \E t \in todo :
        /\ file' = [file EXCEPT ![t] = Selected(t)]
        /\ \/ /\ disk' = Published(t)
              /\ todo' = todo \ {t}
              /\ UNCHANGED <<at, tx, decision, failures>>
           \/ Fails /\ UNCHANGED disk
    /\ UNCHANGED <<plan, active, result, edited, losses>>

Close ==
    /\ at = "publish" /\ todo = {}
    /\ result' = [result EXCEPT ![tx] = decision]
    /\ Synced([disk EXCEPT !.result[tx] = decision], "remove")
    /\ UNCHANGED <<file, plan, active, edited, losses>>

Remove ==
    /\ at = "remove"
    /\ active' = None
    /\ \/ disk' = [disk EXCEPT !.active = None] /\ Leave /\ UNCHANGED failures
       \/ Fails /\ UNCHANGED disk
    /\ UNCHANGED <<file, plan, result, edited, losses>>

\* A call fails, or its process dies, between two writes.
Abandon ==
    /\ at # "outside"
    /\ Fails
    /\ UNCHANGED <<journalVars, disk, edited, losses>>

-----------------------------------------------------------------------------
(* The world *)

\* Of what was not synced, the disk has the old or the new.
PowerLoss ==
    /\ losses < MaxLosses /\ losses' = losses + 1
    /\ \E T \in SUBSET Target, P, R \in SUBSET Tx, kept \in BOOLEAN :
        LET f == [t \in Target |-> IF t \in T THEN file[t] ELSE disk.file[t]]
            p == [i \in Tx |-> IF i \in P THEN plan[i] ELSE disk.plan[i]]
            r == [i \in Tx |-> IF i \in R THEN result[i] ELSE disk.result[i]]
            a == IF kept THEN active ELSE disk.active
        IN  /\ file' = f /\ plan' = p /\ result' = r /\ active' = a
            /\ disk' = [file |-> f, plan |-> p, result |-> r, active |-> a]
    /\ Leave
    /\ UNCHANGED <<edited, failures>>

\* The owner writes into a file, in no call of ours.
Edit ==
    /\ ~edited /\ edited' = TRUE
    /\ at = "outside"
    /\ \E t \in Target :
        /\ file' = [file EXCEPT ![t] = Hand]
        /\ disk' = [disk EXCEPT !.file[t] = Hand]
    /\ UNCHANGED <<plan, active, result, callVars, failures, losses>>

Init ==
    /\ file \in Start
    /\ plan = [i \in Tx |-> NoPlan]
    /\ active = None
    /\ result = [i \in Tx |-> None]
    /\ disk = [file |-> file, plan |-> plan, result |-> result, active |-> active]
    /\ at = "outside" /\ tx = None
    /\ decision = "resume" /\ todo = {}
    /\ edited = FALSE /\ failures = 0 /\ losses = 0

Work == Point \/ Check \/ Publish \/ Close \/ Remove

Next ==
    \/ Transact
    \/ \E d \in Decision : Recover(d)
    \/ Work
    \/ Abandon \/ PowerLoss \/ Edit

Spec == Init /\ [][Next]_vars

\* A call goes on, and the operator keeps trying each of the two decisions.
Fairness ==
    /\ WF_vars(Work)
    /\ \A d \in Decision : SF_vars(Recover(d))

FairSpec == Spec /\ Fairness

-----------------------------------------------------------------------------
(* Properties *)

TypeOK ==
    /\ file \in Files /\ plan \in [Tx -> Plan]
    /\ active \in Tx \cup {None} /\ result \in [Tx -> Decision \cup {None}]
    /\ disk \in [file : Files, plan : [Tx -> Plan], active : Tx \cup {None},
                 result : [Tx -> Decision \cup {None}]]
    /\ at \in {"outside", "pointer", "check", "publish", "remove"}
    /\ tx \in Tx \cup {None} /\ decision \in Decision /\ todo \subseteq Target
    /\ edited \in BOOLEAN /\ failures \in 0..MaxFailures /\ losses \in 0..MaxLosses
    /\ tx = None <=> at = "outside"

\* The pointer is never without its plan, whatever a power loss left of either:
\* otherwise no decision could be carried out and the guard would stay shut.
PointerHasPlan ==
    \A a \in {active, disk.active} : a # None =>
        plan[a] # NoPlan /\ disk.plan[a] = plan[a]

\* _finish(): "A stale/corrupt target is never overwritten to force recovery".
\* What no plan in doubt accounts for stays, unless its owner writes again.
HandIsKept ==
    [][ \A t \in Target :
          /\ active # None /\ edited' = edited
          /\ t \in plan[active].changes
          /\ file[t] \notin {plan[active].before[t], plan[active].after[t]}
          => file'[t] = file[t] ]_vars

\* Until the decision on it is synced, a file is taken for what the transaction
\* in doubt found, unless the owner has written it since.
Undecided(t) ==
    /\ active # None /\ disk.result[active] = None
    /\ t \in plan[active].changes /\ file[t] # Hand

\* A transaction happens at the moment its result is safe.
Atomic == INSTANCE AtomicFiles WITH
    contents <- [t \in Target |-> IF Undecided(t) THEN plan[active].before[t] ELSE file[t]],
    outcome <- [i \in Tx |-> IF disk.result[i] = None THEN "none" ELSE disk.result[i]]

ImplementsAtomicFiles == Atomic!Spec

\* The guard opens again, unless a target was changed by hand.
DoubtEnds == active # None ~> (active = None \/ edited)

\* transact(): "Durably preserve before/after bytes before a multi-file
\* mutation"; the guard: "an interrupted mutation requires memory
\* notes-recover".  While the only transaction there was is undecided and the
\* guard does not point at it, no file has come to hold what it asked for.
OnlyPlan(i) == plan[i] # NoPlan /\ \A j \in Tx \ {i} : plan[j] = NoPlan

InterruptedIsGuarded ==
    \A i \in Tx : OnlyPlan(i) /\ result[i] = None /\ active # i =>
        \A t \in plan[i].changes : file[t] # plan[i].after[t]
=============================================================================
