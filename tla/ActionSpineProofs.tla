-------------------------- MODULE ActionSpineProofs --------------------------
(***************************************************************************)
(* Proofs of the safety of the action spine: for any number of actions and *)
(* callers, any limits, and any interleaving of calls, crashes, recoveries *)
(* and changes of the owner's kept, settings.                                    *)
(***************************************************************************)
EXTENDS ActionSpine, FiniteSetTheorems, TLAPS

-----------------------------------------------------------------------------
(* Types *)

StoreTypeOK ==
    /\ record \in [Action -> Record] /\ outside \in [Action -> Outside]
    /\ level \in Level /\ granted \subseteq Kind /\ world \in 0..MaxDrift /\ shadow \in BOOLEAN
    /\ journal \in Doubt \cup {None} /\ mishaps \in 0..MaxMishaps /\ misread \subseteq Note

CallTypeOK ==
    /\ pc \in [Caller -> {"idle"} \cup Inside]
    /\ job \in [Caller -> Action \cup {None}] /\ held \in [Caller -> Record]
    /\ by \in [Caller -> {"nothing", "human", "policy"}] /\ licensed \in [Caller -> BOOLEAN]
    /\ guard \in Caller \cup {None}
    /\ \A c \in Caller : job[c] = None <=> pc[c] = "idle"
    /\ guard # None => job[guard] \in Note

\* An edit was found to fit when it was begun, and only notes are read back.
CallFits ==
    \A c \in Caller :
        /\ pc[c] = "edit" => held[c].rev < MaxRevision
        /\ pc[c] = "confirm" => job[c] \in Note

TypeInv == StoreTypeOK /\ CallTypeOK /\ CallFits

\* The strengthened invariant includes the type invariant.
LEMMA TypeInvIsTypeOK == TypeInv => TypeOK
BY DEF TypeInv, StoreTypeOK, CallTypeOK, TypeOK

\* A caller that leaves keeps no copy and no guard.
LEMMA LeaveType ==
    ASSUME TypeInv, NEW c \in Caller, Leave(c)
    PROVE  CallTypeOK' /\ CallFits'
BY BoundAssumption, NobodyAssumption
   DEF TypeInv, CallTypeOK, CallFits, Leave, Goto, NoRecord, Record, Preview, Inside, Note

\* A caller that goes on does so with a copy that is a record.
LEMMA GoOnType ==
    ASSUME TypeInv, NEW c \in Caller, pc[c] # "idle", NEW r \in Record, NEW there \in Inside,
           there # "edit", there = "confirm" => job[c] \in Note, GoOn(c, r, there),
           by' \in [Caller -> {"nothing", "human", "policy"}]
    PROVE  CallTypeOK' /\ CallFits'
BY DEF TypeInv, CallTypeOK, CallFits, GoOn, Goto, Inside

\* What is stored is a record, whether the store is in doubt or not.
LEMMA StoreType ==
    ASSUME TypeInv, NEW c \in Caller, NEW r \in Record, NEW out \in Outside,
           Store(c, r, out) \/ LeaveInDoubt(c, r, out)
    PROVE  StoreTypeOK'
<1>1. UNCHANGED <<level, granted, world, shadow, misread>>
  BY DEF Store, LeaveInDoubt, kept, settings
<1>2. record' \in [Action -> Record] /\ outside' \in [Action -> Outside]
  BY DEF TypeInv, StoreTypeOK, CallTypeOK, Store, LeaveInDoubt
<1>3. journal' \in Doubt \cup {None} /\ mishaps' \in 0..MaxMishaps
  BY BoundAssumption
     DEF TypeInv, StoreTypeOK, CallTypeOK, Store, LeaveInDoubt, Mishap, Doubt, Note
<1>. QED BY <1>1, <1>2, <1>3 DEF TypeInv, StoreTypeOK, Note

\* A call that ends with a save leaves everything typed.
LEMMA SaveAndLeaveType ==
    ASSUME TypeInv, NEW c \in Caller, NEW r \in Record, NEW out \in Outside,
           SaveAndLeave(c, r, out)
    PROVE  TypeInv'
BY StoreType, LeaveType DEF SaveAndLeave, TypeInv, LeaveInDoubt

\* What a caller holds and writes has the type of a record, and what it does
\* outside that of an effect.
LEMMA CopyTypes ==
    ASSUME TypeInv, NEW c \in Caller, pc[c] # "idle"
    PROVE  /\ job[c] \in Action
           /\ \A s \in Recorded : With(c, s) \in Record
           /\ Approving(c) \in Record /\ Hold(c) \in Record /\ held[c] \in Record
           /\ Now(c) \in Outside /\ Took(job[c]) \in Outside /\ Undone(job[c]) \in Outside
<1>1. job[c] \in Action /\ held[c] \in Record
  BY DEF TypeInv, CallTypeOK
<1>2. /\ \A s \in Recorded : With(c, s) \in Record
      /\ Approving(c) \in Record /\ Hold(c) \in Record
  BY <1>1 DEF With, Approving, Hold, Record, Recorded
<1>3. Now(c) \in Outside /\ Took(job[c]) \in Outside /\ Undone(job[c]) \in Outside
  <2>1. outside[job[c]] \in Outside
    BY <1>1 DEF TypeInv, StoreTypeOK
  <2>2. outside[job[c]].times \in 0..2
    BY <2>1 DEF Outside
  <2>3. Took(job[c]) \in Outside
    BY <2>2 DEF Took, Outside
  <2>4. Undone(job[c]) \in Outside
    BY <2>1 DEF Undone, Outside
  <2>. QED BY <2>1, <2>3, <2>4 DEF Now
<1>. QED BY <1>1, <1>2, <1>3

\* A failed read is noted of a note.
LEMMA ReadFailsType ==
    ASSUME TypeInv, NEW c \in Caller, pc[c] # "idle", job[c] \in Note, NEW s \in Recorded,
           ReadFails(c, s)
    PROVE  TypeInv'
<1>1. StoreTypeOK'
  BY BoundAssumption DEF ReadFails, Mishap, settings, TypeInv, StoreTypeOK, Note
<1>2. With(c, s) \in Record /\ UNCHANGED by /\ GoOn(c, With(c, s), "unread")
  BY CopyTypes DEF ReadFails
<1>3. by' \in [Caller -> {"nothing", "human", "policy"}]
  BY <1>2 DEF TypeInv, CallTypeOK
<1>. QED BY <1>1, <1>2, <1>3, GoOnType DEF TypeInv, Inside

\* A rendering is a preview.
LEMMA RenderType ==
    ASSUME TypeInv, NEW rev \in 0..MaxRevision
    PROVE  Render(rev) \in Preview
BY DEF TypeInv, StoreTypeOK, Render, Preview

\* Each step of a caller keeps the types.
LEMMA StepType ==
    ASSUME TypeInv, NEW c \in Caller, Step(c)
    PROVE  TypeInv'
<1>1. ASSUME NEW a \in Action, Prepare(c, a)
      PROVE  TypeInv'
  <2>1. [NoRecord EXCEPT !.status = "prepared", !.shown = Render(0)] \in Record
    <3>1. Render(0) \in Preview
      BY RenderType, BoundAssumption
    <3>2. NoRecord \in Record
      BY BoundAssumption DEF NoRecord, Record, Preview
    <3>. QED BY <3>1, <3>2 DEF Record, Recorded
  <2>2. StoreTypeOK'
    BY <1>1, <2>1, BoundAssumption, KindAssumption
       DEF Prepare, TypeInv, StoreTypeOK, Mishap, Doubt, kept, settings
  <2>3. CallTypeOK' /\ CallFits'
    BY <1>1, <2>1, NobodyAssumption
       DEF Prepare, TypeInv, CallTypeOK, CallFits, Goto, Inside, Note
  <2>. QED BY <2>2, <2>3 DEF TypeInv
<1>2. ASSUME NEW a \in Action, Call(c, a) \/ RetryNote(c, a)
      PROVE  TypeInv'
  <2>1. StoreTypeOK'
    BY <1>2 DEF Call, RetryNote, Quiet, TypeInv, StoreTypeOK, kept, settings
  <2>2. /\ pc[c] = "idle" /\ \E there \in Inside : pc' = [pc EXCEPT ![c] = there]
        /\ job' = [job EXCEPT ![c] = a] /\ held' = [held EXCEPT ![c] = record[a]]
        /\ licensed' = [licensed EXCEPT ![c] = GrantedNow(a)]
        /\ guard' = IF a \in Note THEN c ELSE guard
    BY <1>2 DEF Call, RetryNote, Goto, Serialized, Inside
  <2>3. by' \in [Caller -> {"nothing", "human", "policy"}]
    BY <1>2 DEF Call, RetryNote, TypeInv, CallTypeOK
  <2>4. CallTypeOK'
    <3>1. licensed' \in [Caller -> BOOLEAN]
      BY <2>2 DEF TypeInv, CallTypeOK, GrantedNow
    <3>2. /\ pc' \in [Caller -> {"idle"} \cup Inside] /\ job' \in [Caller -> Action \cup {None}]
          /\ held' \in [Caller -> Record] /\ guard' \in Caller \cup {None}
      BY <2>2 DEF TypeInv, StoreTypeOK, CallTypeOK
    <3>3. \A d \in Caller : job'[d] = None <=> pc'[d] = "idle"
      BY <2>2, NobodyAssumption DEF TypeInv, CallTypeOK, Inside
    <3>4. guard' # None => job'[guard'] \in Note
      BY <2>2, NobodyAssumption DEF TypeInv, CallTypeOK, Note
    <3>. QED BY <2>3, <3>1, <3>2, <3>3, <3>4 DEF CallTypeOK
  <2>5. CallFits'
    BY <1>2, <2>2 DEF Call, RetryNote, Goto, TypeInv, CallTypeOK, CallFits
  <2>. QED BY <2>1, <2>4, <2>5 DEF TypeInv
<1>3. CASE AutoApprove(c)
  <2>1. StoreTypeOK'
    BY <1>3 DEF AutoApprove, Quiet, TypeInv, StoreTypeOK, kept, settings
  <2>2. CallTypeOK' /\ CallFits'
    BY <1>3, NobodyAssumption
       DEF AutoApprove, Quiet, GuardOpen, GrantedNow, Serialized, Goto, TypeInv,
           CallTypeOK, CallFits, Inside, Note
  <2>. QED BY <2>1, <2>2 DEF TypeInv
<1>4. CASE LeaveToHuman(c) \/ LimitRaises(c) \/ NoteConfirmed(c) \/ Crash(c)
  <2>1. Leave(c)
    BY <1>4 DEF LeaveToHuman, LimitRaises, NoteConfirmed, Crash
  <2>2. StoreTypeOK'
    BY <1>4, BoundAssumption
       DEF LeaveToHuman, LimitRaises, NoteConfirmed, Crash, Quiet, Mishap, TypeInv, StoreTypeOK, kept, settings
  <2>. QED BY <2>1, <2>2, LeaveType DEF TypeInv
<1>5. CASE Approve(c)
  <2>1. pc[c] # "idle" /\ Approving(c) \in Record /\ Now(c) \in Outside
    BY <1>5, CopyTypes DEF Approve
  <2>2. CASE LeaveInDoubt(c, Approving(c), Now(c))
    BY <2>1, <2>2, StoreType, LeaveType DEF LeaveInDoubt, TypeInv
  <2>3. CASE Store(c, Approving(c), Now(c)) /\ GoOn(c, Approving(c), "verify")
    <3>1. by' \in [Caller -> {"nothing", "human", "policy"}]
      BY <1>5 DEF Approve, TypeInv, CallTypeOK
    <3>. QED BY <2>1, <2>3, <3>1, StoreType, GoOnType DEF TypeInv, Inside
  <2>. QED BY <1>5, <2>2, <2>3 DEF Approve, SaveAndGoOn
<1>6. CASE Reject(c) \/ UndoRecord(c) \/ UndoFails(c) \/ PerformFails(c) \/ Executed(c)
           \/ SaveUnread(c) \/ UndoNote(c)
  <2>1. pc[c] # "idle"
    BY <1>6 DEF Reject, UndoRecord, UndoFails, PerformFails, Executed, SaveUnread, UndoNote
  <2>2. \E r \in Record, out \in Outside : SaveAndLeave(c, r, out)
    BY <1>6, <2>1, CopyTypes
       DEF Reject, UndoRecord, UndoFails, PerformFails, Fail, Executed, SaveUnread, UndoNote,
           Recorded
  <2>. QED BY <2>2, SaveAndLeaveType
<1>7. CASE Edit(c)
  <2>1. /\ Now(c) \in Outside /\ held[c] \in Record
        /\ held[c].rev + 1 \in 0..MaxRevision
    BY <1>7, CopyTypes, BoundAssumption DEF Edit, TypeInv, CallTypeOK, CallFits, Record
  <2>2. [held[c] EXCEPT !.rev = held[c].rev + 1, !.shown = Render(held[c].rev + 1)] \in Record
    BY <2>1, RenderType DEF Record
  <2>. QED BY <1>7, <2>1, <2>2, SaveAndLeaveType DEF Edit
<1>8. CASE Verify(c) \/ CheckLimit(c) \/ Contract(c)
  <2>1. pc[c] # "idle"
    BY <1>8 DEF Verify, CheckLimit, Contract
  <2>2. CASE \E there \in {"limit", "contract", "effect"} :
                GoOn(c, held[c], there) /\ Quiet /\ UNCHANGED by
    <3>1. StoreTypeOK'
      BY <2>2 DEF Quiet, TypeInv, StoreTypeOK, kept, settings
    <3>2. held[c] \in Record
      BY <2>1, CopyTypes
    <3>3. by' \in [Caller -> {"nothing", "human", "policy"}]
      BY <2>2 DEF TypeInv, CallTypeOK
    <3>. QED BY <2>1, <2>2, <3>1, <3>2, <3>3, GoOnType DEF TypeInv, Inside
  <2>3. CASE \E r \in {With(c, "failed"), Hold(c)} : SaveAndLeave(c, r, Now(c))
    BY <2>1, <2>3, CopyTypes, SaveAndLeaveType DEF Recorded
  <2>. QED BY <1>8, <2>2, <2>3 DEF Verify, CheckLimit, Contract, Fail
<1>9. CASE Perform(c) \/ UndoEffect(c)
  <2>1. pc[c] # "idle"
    BY <1>9 DEF Perform, UndoEffect
  <2>2. StoreTypeOK'
    BY <1>9, <2>1, CopyTypes DEF Perform, UndoEffect, TypeInv, StoreTypeOK, kept, settings
  <2>3. CallTypeOK' /\ CallFits'
    BY <1>9 DEF Perform, UndoEffect, Goto, TypeInv, CallTypeOK, CallFits, Inside
  <2>. QED BY <2>2, <2>3 DEF TypeInv
<1>10. CASE PerformNote(c)
  <2>1. /\ pc[c] # "idle" /\ job[c] \in Note
        /\ With(c, "executed") \in Record /\ Took(job[c]) \in Outside
    BY <1>10, CopyTypes DEF PerformNote, Recorded
  <2>2. CASE LeaveInDoubt(c, With(c, "executed"), Took(job[c]))
    BY <2>1, <2>2, StoreType, LeaveType DEF LeaveInDoubt, TypeInv
  <2>3. CASE Store(c, With(c, "executed"), Took(job[c]))
             /\ GoOn(c, With(c, "executed"), "confirm")
    <3>1. by' \in [Caller -> {"nothing", "human", "policy"}]
      BY <1>10 DEF PerformNote, TypeInv, CallTypeOK
    <3>. QED BY <2>1, <2>3, <3>1, StoreType, GoOnType DEF TypeInv, Inside
  <2>. QED BY <1>10, <2>2, <2>3 DEF PerformNote, SaveAndGoOn
<1>11. CASE NoteUnread(c) \/ UndoUnread(c)
  <2>1. pc[c] # "idle" /\ (ReadFails(c, "failed") \/ ReadFails(c, "undone"))
    BY <1>11 DEF NoteUnread, UndoUnread
  <2>2. job[c] \in Note
    BY <1>11 DEF NoteUnread, UndoUnread, TypeInv, CallFits
  <2>. QED BY <2>1, <2>2, ReadFailsType DEF Recorded
<1>. QED BY <1>1, <1>2, <1>3, <1>4, <1>5, <1>6, <1>7, <1>8, <1>9, <1>10, <1>11 DEF Step

\* The strengthened type invariant is inductive.
LEMMA TypeInvNext == TypeInv /\ [Next]_vars => TypeInv'
<1> SUFFICES ASSUME TypeInv, [Next]_vars PROVE TypeInv'
  OBVIOUS
<1>1. CASE RecoverNotes
  BY <1>1 DEF RecoverNotes, TypeInv, StoreTypeOK, CallTypeOK, CallFits, kept, settings, Doubt
<1>2. CASE SetAutonomy \/ GrantScope \/ Revoke \/ Drift
  <2>1. StoreTypeOK'
    BY <1>2, KindAssumption, SettingsAssumption, BoundAssumption
       DEF SetAutonomy, GrantScope, Revoke, Drift, Untouching, TypeInv, StoreTypeOK
  <2>2. licensed' \in [Caller -> BOOLEAN]
    BY <1>2 DEF SetAutonomy, GrantScope, Revoke, Drift, Untouching, TypeInv, CallTypeOK
  <2>3. UNCHANGED <<pc, job, held, by, guard>>
    BY <1>2 DEF SetAutonomy, GrantScope, Revoke, Drift, Untouching
  <2>. QED BY <2>1, <2>2, <2>3 DEF TypeInv, CallTypeOK, CallFits
<1>3. CASE UNCHANGED vars
  BY <1>3 DEF vars, kept, settings, TypeInv, StoreTypeOK, CallTypeOK, CallFits
<1>. QED BY <1>1, <1>2, <1>3, StepType DEF Next

\* The spine starts typed.
LEMMA TypeInvInit == Init => TypeInv
BY KindAssumption, SettingsAssumption, BoundAssumption, NobodyAssumption
   DEF Init, TypeInv, StoreTypeOK, CallTypeOK, CallFits, NoRecord, Record, Preview, Outside,
       Untouched, Inside

\* The strengthened type invariant holds in every state.
LEMMA TypeInvariant == Spec => []TypeInv
BY TypeInvInit, TypeInvNext, PTL DEF Spec

\* Records, effects, the journal and the callers' copies keep their types, and
\* whoever holds the notes guard works on a note.
THEOREM SpineTypes == Spec => []TypeOK
BY TypeInvariant, TypeInvIsTypeOK, PTL

-----------------------------------------------------------------------------
(* What a caller knows *)

\* A call that has read its action and may write it.
Asked(c) == pc[c] \notin {"idle", "decide"}

\* What the status of its copy, the authority and the scope of a call are at each
\* place of it.
CallOK(c) ==
    /\ pc[c] \in {"decide", "approve", "reject", "edit"} => held[c].status = "prepared"
    /\ pc[c] \in Executing => held[c].status = "approved"
    /\ pc[c] = "undo" =>
          held[c].status = "executed" \/ (held[c].status = "undone" /\ job[c] \in Note)
    /\ pc[c] \in {"undone", "confirm"} => held[c].status = "executed"
    /\ pc[c] = "unread" => held[c].status \in {"failed", "undone"} /\ job[c] \in Note
    /\ pc[c] \in {"executed", "undone"} => job[c] \notin Note
    /\ ~Asked(c) => by[c] = "nothing"
    /\ pc[c] \in Executing => by[c] # "nothing"
    /\ by[c] = "policy" => ~Irreversible(job[c])
    /\ Asked(c) /\ GrantedNow(job[c]) => licensed[c]
    /\ pc[c] \in {"effect", "executed"} => licensed[c]

CallsOK == \A c \in Caller : CallOK(c)

\* A step of one caller changes neither another's place nor the kept, settings.
LEMMA OthersStay ==
    ASSUME TypeInv, NEW c \in Caller, Step(c)
    PROVE  /\ UNCHANGED settings
           /\ \A d \in Caller \ {c} :
                /\ pc'[d] = pc[d] /\ job'[d] = job[d] /\ held'[d] = held[d]
                /\ by'[d] = by[d] /\ licensed'[d] = licensed[d]
<1> USE DEF TypeInv, CallTypeOK, Goto
<1>1. ASSUME NEW a \in Action, Prepare(c, a) \/ Call(c, a) \/ RetryNote(c, a)
      PROVE  /\ UNCHANGED settings
             /\ \A d \in Caller \ {c} :
                  /\ pc'[d] = pc[d] /\ job'[d] = job[d] /\ held'[d] = held[d]
                  /\ by'[d] = by[d] /\ licensed'[d] = licensed[d]
  BY <1>1 DEF Prepare, Call, RetryNote, Quiet, kept
<1>2. CASE AutoApprove(c) \/ LeaveToHuman(c) \/ LimitRaises(c) \/ NoteConfirmed(c) \/ Crash(c)
  BY <1>2 DEF AutoApprove, LeaveToHuman, LimitRaises, NoteConfirmed, Crash, Leave, Quiet, kept
<1>3. CASE Approve(c) \/ PerformNote(c)
  BY <1>3 DEF Approve, PerformNote, SaveAndGoOn, Store, GoOn, LeaveInDoubt, Leave, kept
<1>4. ASSUME NEW r, NEW out, SaveAndLeave(c, r, out)
      PROVE  /\ UNCHANGED settings
             /\ \A d \in Caller \ {c} :
                  /\ pc'[d] = pc[d] /\ job'[d] = job[d] /\ held'[d] = held[d]
                  /\ by'[d] = by[d] /\ licensed'[d] = licensed[d]
  BY <1>4 DEF SaveAndLeave, Store, LeaveInDoubt, Leave, kept
<1>5. CASE Reject(c) \/ Edit(c) \/ UndoRecord(c) \/ UndoFails(c) \/ PerformFails(c)
           \/ Executed(c) \/ SaveUnread(c) \/ UndoNote(c)
  BY <1>4, <1>5 DEF Reject, Edit, UndoRecord, UndoFails, PerformFails, Fail, Executed,
                    SaveUnread, UndoNote
<1>6. CASE Verify(c) \/ CheckLimit(c) \/ Contract(c)
  <2>1. CASE \E there \in {"limit", "contract", "effect"} :
                GoOn(c, held[c], there) /\ Quiet /\ UNCHANGED by
    BY <2>1 DEF GoOn, Quiet, kept
  <2>. QED BY <1>4, <1>6, <2>1 DEF Verify, CheckLimit, Contract, Fail
<1>7. CASE Perform(c) \/ UndoEffect(c)
  BY <1>7 DEF Perform, UndoEffect, kept
<1>8. CASE NoteUnread(c) \/ UndoUnread(c)
  BY <1>8 DEF NoteUnread, UndoUnread, ReadFails, GoOn
<1>. QED BY <1>1, <1>2, <1>3, <1>5, <1>6, <1>7, <1>8 DEF Step

\* Leaving leaves nothing to know.
LEMMA LeaveCallOK ==
    ASSUME TypeInv, NEW c \in Caller, Leave(c)
    PROVE  CallOK(c)'
BY DEF TypeInv, CallTypeOK, Leave, Goto, CallOK, Asked, Executing

\* A step of a call leads to a place it knows what it needs for.
LEMMA StepCallOK ==
    ASSUME TypeInv, NEW c \in Caller, CallOK(c), Step(c)
    PROVE  CallOK(c)'
<1> USE DEF TypeInv, CallTypeOK, Goto
<1>1. ASSUME NEW a \in Action, Prepare(c, a)
      PROVE  CallOK(c)'
  <2>1. /\ UNCHANGED <<by, licensed>> /\ pc[c] = "idle"
        /\ \/ pc'[c] = "decide" /\ held'[c].status = "prepared"
           \/ pc'[c] = "idle"
    <3>1. [NoRecord EXCEPT !.status = "prepared", !.shown = Render(0)].status = "prepared"
      BY DEF NoRecord
    <3>. QED BY <1>1, <3>1 DEF Prepare
  <2>. QED BY <2>1 DEF CallOK, Asked, Executing
<1>2. ASSUME NEW a \in Action, Call(c, a)
      PROVE  CallOK(c)'
  <2>1. /\ pc'[c] \in {"approve", "reject", "edit", "undo"} /\ pc[c] = "idle" /\ UNCHANGED by
        /\ held'[c] = record[a] /\ job'[c] = a /\ UNCHANGED settings
        /\ licensed'[c] = GrantedNow(a)
    BY <1>2 DEF Call, Quiet, kept
  <2>2. IF pc'[c] = "undo"
        THEN record[a].status = "executed" \/ (record[a].status = "undone" /\ a \in Note)
        ELSE record[a].status = "prepared"
    BY <1>2 DEF Call, UndoneInVain
  <2>. QED BY <2>1, <2>2 DEF CallOK, Asked, Executing, settings, GrantedNow
<1>3. ASSUME NEW a \in Action, RetryNote(c, a)
      PROVE  CallOK(c)'
  BY <1>3 DEF RetryNote, Quiet, CallOK, Asked, Executing, kept, settings, GrantedNow
<1>4. CASE AutoApprove(c)
  <2>1. ~Irreversible(job[c])
    BY <1>4, SettingsAssumption DEF AutoApprove, CanAuto, MinLevel, StoreTypeOK
  <2>. QED BY <1>4, <2>1
           DEF AutoApprove, Quiet, CallOK, Asked, Executing, kept, settings, GrantedNow, Irreversible
<1>5. CASE LeaveToHuman(c) \/ LimitRaises(c) \/ NoteConfirmed(c) \/ Crash(c)
  BY <1>5, LeaveCallOK DEF LeaveToHuman, LimitRaises, NoteConfirmed, Crash
<1>6. CASE Approve(c)
  <2>1. CASE Leave(c)
    BY <2>1, LeaveCallOK
  <2>2. CASE Store(c, Approving(c), Now(c)) /\ GoOn(c, Approving(c), "verify")
    BY <1>6, <2>2
       DEF Approve, Store, GoOn, Approving, CallOK, Asked, Executing, kept, settings, GrantedNow,
           Irreversible
  <2>. QED BY <1>6, <2>1, <2>2 DEF Approve, SaveAndGoOn, LeaveInDoubt
<1>7. ASSUME NEW r, NEW out, SaveAndLeave(c, r, out)
      PROVE  CallOK(c)'
  BY <1>7, LeaveCallOK DEF SaveAndLeave, LeaveInDoubt
<1>8. CASE Reject(c) \/ Edit(c) \/ UndoRecord(c) \/ UndoFails(c) \/ PerformFails(c)
           \/ Executed(c) \/ SaveUnread(c) \/ UndoNote(c)
  BY <1>7, <1>8 DEF Reject, Edit, UndoRecord, UndoFails, PerformFails, Fail, Executed,
                    SaveUnread, UndoNote
<1>9. CASE Verify(c) \/ CheckLimit(c) \/ Contract(c)
  <2>1. CASE \E there \in {"limit", "contract", "effect"} :
                GoOn(c, held[c], there) /\ Quiet /\ UNCHANGED by
    <3>1. pc[c] \in {"verify", "limit", "contract"}
      BY <1>9 DEF Verify, CheckLimit, Contract
    <3>2. pc'[c] = "effect" => licensed[c]
      BY <1>9, <2>1, <3>1
         DEF Verify, CheckLimit, Contract, ContractHolds, HasScope, GrantedNow, CallOK, Asked,
             GoOn, Fail, SaveAndLeave, LeaveInDoubt, Leave
    <3>. QED BY <2>1, <3>1, <3>2
             DEF GoOn, Quiet, CallOK, Asked, Executing, kept, settings, GrantedNow, Irreversible
  <2>. QED BY <1>7, <1>9, <2>1 DEF Verify, CheckLimit, Contract, Fail
<1>10. CASE Perform(c)
  BY <1>10 DEF Perform, CallOK, Asked, Executing, kept, settings, GrantedNow, Irreversible
<1>11. CASE UndoEffect(c)
  BY <1>11 DEF UndoEffect, CallOK, Asked, Executing, kept, settings, GrantedNow, Irreversible
<1>12. pc[c] # "idle" => \A s \in Recorded : With(c, s).status = s
  BY DEF With, Record
<1>13. CASE PerformNote(c)
  <2>1. CASE Leave(c)
    BY <2>1, LeaveCallOK
  <2>2. CASE Store(c, With(c, "executed"), Took(job[c]))
             /\ GoOn(c, With(c, "executed"), "confirm")
    <3>1. /\ pc'[c] = "confirm" /\ held'[c].status = "executed"
          /\ UNCHANGED <<job, licensed, by, settings>> /\ Asked(c)
      BY <1>12, <1>13, <2>2 DEF PerformNote, Store, GoOn, kept, Asked, Recorded
    <3>. QED BY <3>1 DEF CallOK, Asked, Executing, GrantedNow, settings, Irreversible
  <2>. QED BY <1>13, <2>1, <2>2 DEF PerformNote, SaveAndGoOn, LeaveInDoubt
<1>14. CASE NoteUnread(c) \/ UndoUnread(c)
  <2>1. /\ pc'[c] = "unread" /\ held'[c].status \in {"failed", "undone"} /\ job[c] \in Note
        /\ UNCHANGED <<job, licensed, by, settings>> /\ Asked(c)
    BY <1>12, <1>14
       DEF NoteUnread, UndoUnread, ReadFails, GoOn, Asked, Recorded, CallFits
  <2>. QED BY <2>1 DEF CallOK, Asked, Executing, GrantedNow, settings, Irreversible
<1>. QED BY <1>1, <1>2, <1>3, <1>4, <1>5, <1>6, <1>8, <1>9, <1>10, <1>11, <1>13, <1>14 DEF Step

\* What the calls know of the kept, settings and the record is inductive.
LEMMA CallsOKNext == TypeInv /\ CallsOK /\ [Next]_vars => CallsOK'
<1> SUFFICES ASSUME TypeInv, CallsOK, [Next]_vars, NEW d \in Caller PROVE CallOK(d)'
  BY DEF CallsOK
<1>1. CallOK(d)
  BY DEF CallsOK
<1>2. ASSUME NEW c \in Caller, Step(c)
      PROVE  CallOK(d)'
  <2>1. CASE c = d
    BY <1>1, <1>2, <2>1, StepCallOK
  <2>2. CASE c # d
    BY <1>1, <1>2, <2>2, OthersStay
       DEF CallOK, Asked, Executing, kept, settings, GrantedNow, Irreversible
  <2>. QED BY <2>1, <2>2
<1>3. CASE GrantScope
  BY <1>1, <1>3, NobodyAssumption
     DEF GrantScope, Untouching, CallOK, Asked, Executing, GrantedNow, Irreversible,
         TypeInv, CallTypeOK
<1>4. CASE RecoverNotes \/ SetAutonomy \/ Revoke \/ Drift \/ UNCHANGED vars
  BY <1>1, <1>4
     DEF RecoverNotes, SetAutonomy, Revoke, Drift, Untouching, vars, kept, settings, CallOK, Asked,
         Executing, GrantedNow, Irreversible
<1>. QED BY <1>2, <1>3, <1>4 DEF Next

\* What the calls know holds in every state.
LEMMA CallsInvariant == Spec => []CallsOK
<1>1. Init => CallsOK
  BY DEF Init, CallsOK, CallOK, Asked, Executing
<1>. QED BY <1>1, CallsOKNext, TypeInvariant, PTL DEF Spec

\* Whatever the autonomy level does meanwhile, a human's call is behind every
\* irreversible effect (THREAT_MODEL.md: "irreversible actions never
\* auto-execute").
THEOREM IrreversibleIsHuman == Spec => []IrreversibleByHumanOnly
<1>1. TypeInv /\ CallsOK => IrreversibleByHumanOnly
  BY DEF TypeInv, CallTypeOK, CallsOK, CallOK, IrreversibleByHumanOnly
<1>. QED BY <1>1, TypeInvariant, CallsInvariant, PTL

\* Nothing takes effect in a call that began after a revocation, unless the scope
\* was granted again since: revoke_scope() and revoke_all() stop what they are
\* said to stop.
THEOREM RevocationIsFelt == Spec => []RevocationStops
<1>1. CallsOK => RevocationStops
  BY DEF CallsOK, CallOK, RevocationStops
<1>. QED BY <1>1, CallsInvariant, PTL

-----------------------------------------------------------------------------
(* Notes *)

\* The moves of the documented lifecycle.
Lifecycle ==
    {<<"absent", "prepared">>, <<"prepared", "rejected">>, <<"prepared", "approved">>,
     <<"approved", "prepared">>, <<"approved", "failed">>, <<"approved", "executed">>,
     <<"executed", "undone">>}

\* A move leaves the effect that goes with its status, or is one of the exceptions.
Moves(from, to, effect) ==
    \/ <<from, to>> \in Lifecycle /\ (effect <=> to = "executed")
    \/ from = "executed" /\ to \in {"failed", "undone"} /\ effect
    \/ from = "undone" /\ to = "undone" /\ ~effect

Follows(from, before, to, effect) ==
    (from = to /\ (before <=> effect)) \/ Moves(from, to, effect)

\* The effect a note has is the one its record tells of, unless a read failed.
Agrees(a, r, out) ==
    /\ out.times <= 1
    /\ r.status = "executed" => out.stands
    /\ out.stands => r.status = "executed" \/ (a \in misread /\ r.status \in {"failed", "undone"})
    /\ r.status \notin {"executed", "undone", "failed"} => out.times = 0

NotesAgree == \A a \in Note : Agrees(a, record[a], outside[a])

\* The copy of a call on a note is what is recorded, until a read fails in it.
CopyTrue(c) ==
    IF pc[c] = "unread"
    THEN job[c] \in misread /\ record[job[c]].status \in {"executed", held[c].status}
    ELSE held[c] = record[job[c]]

\* A call on a note holds the guard.
GuardOK ==
    /\ guard # None => Asked(guard) /\ journal = None
    /\ \A c \in Caller : Asked(c) /\ job[c] \in Note => guard = c /\ CopyTrue(c)

\* What a mutation in doubt would write follows from what is recorded.
DoubtOK ==
    journal # None =>
        /\ journal.action \in Note
        /\ Agrees(journal.action, journal.record, journal.outside)
        /\ Follows(record[journal.action].status, outside[journal.action].stands,
                   journal.record.status, journal.outside.stands)

NotesInv == NotesAgree /\ GuardOK /\ DoubtOK

\* Of the notes, at most one makes a move.
NotesMove ==
    \/ \A a \in Note : /\ record'[a].status = record[a].status
                       /\ outside'[a].stands <=> outside[a].stands
    \/ \E a \in Note :
          /\ Moves(record[a].status, record'[a].status, outside'[a].stands)
          /\ \A b \in Note \ {a} : record'[b] = record[b] /\ outside'[b] = outside[b]

\* A write of a note by its caller, whether it reaches the disk or is left in doubt.
LEMMA NoteWritten ==
    ASSUME TypeInv, NotesInv, NEW c \in Caller, Asked(c), NEW r \in Record, NEW out \in Outside,
           job[c] \in Note =>
              /\ Agrees(job[c], r, out)
              /\ Follows(record[job[c]].status, Now(c).stands, r.status, out.stands),
           \A d \in Caller \ {c} : pc'[d] = pc[d] /\ job'[d] = job[d] /\ held'[d] = held[d],
           \/ SaveAndLeave(c, r, out)
           \/ \E there \in Inside \ {"decide", "unread"} : SaveAndGoOn(c, r, out, there)
    PROVE  NotesInv' /\ NotesMove
<1> USE DEF TypeInv, StoreTypeOK, CallTypeOK
<1>1. job[c] \in Action /\ Note \subseteq Action
  BY DEF Asked, Note
<1>2. \A d \in Caller \ {c} : Asked(d)' = Asked(d)
  BY DEF Asked
<1>3. CASE Store(c, r, out)
  <2>1. /\ record' = [record EXCEPT ![job[c]] = r] /\ outside' = [outside EXCEPT ![job[c]] = out]
        /\ UNCHANGED <<journal, misread>>
    BY <1>3 DEF Store, kept
  <2>2. job[c] \in Note => journal = None /\ guard = c
    BY NobodyAssumption DEF NotesInv, GuardOK
  <2>3. NotesAgree'
    BY <1>1, <2>1 DEF NotesInv, NotesAgree, Agrees
  <2>4. DoubtOK'
    BY <1>1, <2>1, <2>2 DEF NotesInv, DoubtOK, Agrees
  <2>5. NotesMove
    <3>1. CASE job[c] \in Note
      <4>1. record'[job[c]] = r /\ outside'[job[c]] = out
        BY <1>1, <2>1
      <4>2. \A b \in Note \ {job[c]} : record'[b] = record[b] /\ outside'[b] = outside[b]
        BY <1>1, <2>1
      <4>3. CASE Moves(record[job[c]].status, r.status, out.stands)
        BY <3>1, <4>1, <4>2, <4>3 DEF NotesMove
      <4>4. CASE record[job[c]].status = r.status /\ (Now(c).stands <=> out.stands)
        BY <3>1, <4>1, <4>2, <4>4 DEF NotesMove, Now
      <4>. QED BY <3>1, <4>3, <4>4 DEF Follows
    <3>2. CASE job[c] \notin Note
      BY <1>1, <2>1, <3>2 DEF NotesMove
    <3>. QED BY <3>1, <3>2
  <2>6. \A d \in Caller \ {c} : Asked(d)' /\ job'[d] \in Note => guard = d /\ CopyTrue(d)'
    <3> SUFFICES ASSUME NEW d \in Caller \ {c}, Asked(d), job[d] \in Note
                 PROVE  guard = d /\ CopyTrue(d)'
      BY <1>2
    <3>1. guard = d /\ CopyTrue(d)
      BY DEF NotesInv, GuardOK
    <3>2. job[d] # job[c]
      BY <2>2, <3>1
    <3>3. record'[job[d]] = record[job[d]]
      BY <1>1, <2>1, <3>2
    <3>. QED BY <2>1, <3>1, <3>3 DEF CopyTrue
  <2>7. CASE Leave(c)
    <3>1. ~Asked(c)' /\ guard' = IF guard = c THEN None ELSE guard
      BY <2>7 DEF Leave, Goto, Asked
    <3>2. GuardOK'
      BY <1>2, <2>1, <2>6, <3>1 DEF NotesInv, GuardOK
    <3>. QED BY <2>3, <2>4, <2>5, <3>2 DEF NotesInv
  <2>8. CASE \E there \in Inside \ {"decide", "unread"} : GoOn(c, r, there)
    <3>1. Asked(c)' /\ guard' = guard /\ job' = job /\ held'[c] = r /\ pc'[c] # "unread"
      BY <2>8 DEF GoOn, Goto, Asked, Inside
    <3>2. job[c] \in Note => CopyTrue(c)'
      BY <1>1, <2>1, <3>1 DEF CopyTrue
    <3>3. GuardOK'
      BY <1>2, <2>1, <2>2, <2>6, <3>1, <3>2 DEF NotesInv, GuardOK
    <3>. QED BY <2>3, <2>4, <2>5, <3>3 DEF NotesInv
  <2>9. Leave(c) \/ \E there \in Inside \ {"decide", "unread"} : GoOn(c, r, there)
    BY DEF SaveAndLeave, SaveAndGoOn, LeaveInDoubt
  <2>. QED BY <2>7, <2>8, <2>9
<1>4. CASE LeaveInDoubt(c, r, out)
  <2>1. /\ job[c] \in Note /\ Leave(c) /\ UNCHANGED <<record, outside, misread>>
        /\ journal' = [action |-> job[c], record |-> r, outside |-> out]
    BY <1>4 DEF LeaveInDoubt, kept
  <2>2. guard = c
    BY <2>1 DEF NotesInv, GuardOK
  <2>3. guard' = None /\ ~Asked(c)'
    BY <2>1, <2>2 DEF Leave, Goto, Asked
  <2>4. \A d \in Caller \ {c} : ~(Asked(d)' /\ job'[d] \in Note)
    BY <1>2, <2>2 DEF NotesInv, GuardOK
  <2>5. GuardOK'
    BY <2>3, <2>4 DEF GuardOK
  <2>6. DoubtOK'
    BY <2>1 DEF DoubtOK, Agrees, Now
  <2>7. NotesAgree' /\ NotesMove
    BY <2>1 DEF NotesInv, NotesAgree, NotesMove, Agrees
  <2>. QED BY <2>5, <2>6, <2>7 DEF NotesInv
<1>. QED BY <1>3, <1>4 DEF SaveAndLeave, SaveAndGoOn

\* A read that fails changes the copy of its call, and nothing that is recorded.
LEMMA NoteUnreadable ==
    ASSUME TypeInv, NotesInv, NEW c \in Caller, pc[c] \in {"confirm", "undo"}, job[c] \in Note,
           NEW s \in {"failed", "undone"}, ReadFails(c, s),
           held[c].status = "executed" \/ (held[c].status = "undone" /\ s = "undone"),
           \A d \in Caller \ {c} : pc'[d] = pc[d] /\ job'[d] = job[d] /\ held'[d] = held[d]
    PROVE  NotesInv' /\ NotesMove
<1> USE DEF TypeInv, StoreTypeOK, CallTypeOK
<1>1. /\ UNCHANGED <<record, outside, journal, job, guard>> /\ misread' = misread \cup {job[c]}
      /\ pc'[c] = "unread" /\ held'[c] = With(c, s)
  BY DEF ReadFails, GoOn, Goto
<1>2. held'[c].status = s
  BY <1>1 DEF With, Record
<1>3. NotesAgree' /\ DoubtOK' /\ NotesMove
  BY <1>1, NobodyAssumption DEF NotesInv, NotesAgree, DoubtOK, NotesMove, Agrees
<1>4. Asked(c) /\ guard = c /\ held[c] = record[job[c]]
  BY DEF NotesInv, GuardOK, Asked, CopyTrue
<1>5. CopyTrue(c)'
  BY <1>1, <1>2, <1>4 DEF CopyTrue
<1>6. \A d \in Caller \ {c} : Asked(d)' = Asked(d) /\ (Asked(d) /\ job[d] \in Note => guard = d)
  BY DEF Asked, NotesInv, GuardOK
<1>7. GuardOK'
  BY <1>1, <1>4, <1>5, <1>6 DEF NotesInv, GuardOK, Asked
<1>. QED BY <1>3, <1>7 DEF NotesInv

\* What leaves the records and the effects of the notes alone, and lets no call
\* take the guard.
LEMMA NotesRest ==
    ASSUME TypeInv, NotesInv, NEW c \in Caller, UNCHANGED <<record, journal, misread>>,
           \A a \in Note : outside'[a] = outside[a],
           \A d \in Caller \ {c} : pc'[d] = pc[d] /\ job'[d] = job[d] /\ held'[d] = held[d],
           \/ Leave(c)
           \/ /\ Asked(c) /\ Asked(c)' /\ UNCHANGED <<job, held, guard>>
              /\ pc[c] # "unread" /\ pc'[c] # "unread"
    PROVE  NotesInv' /\ NotesMove
<1> USE DEF TypeInv, CallTypeOK
<1>1. NotesAgree' /\ DoubtOK' /\ NotesMove
  BY NobodyAssumption DEF NotesInv, NotesAgree, DoubtOK, GuardOK, NotesMove, Agrees, Leave
<1>2. \A d \in Caller \ {c} : Asked(d)' = Asked(d)
  BY DEF Asked
<1>3. GuardOK'
  BY <1>2 DEF NotesInv, GuardOK, CopyTrue, Leave, Goto, Asked
<1>. QED BY <1>1, <1>3 DEF NotesInv

\* Each step of a caller keeps the notes, and moves them along their lifecycle.
LEMMA StepNotes ==
    ASSUME TypeInv, CallsOK, NotesInv, NEW c \in Caller, Step(c)
    PROVE  NotesInv' /\ NotesMove
<1> USE DEF TypeInv, CallTypeOK
<1>1. \A d \in Caller \ {c} : pc'[d] = pc[d] /\ job'[d] = job[d] /\ held'[d] = held[d]
  BY OthersStay
<1>2. CallOK(c)
  BY DEF CallsOK
<1>3. job[c] \in Note => Agrees(job[c], record[job[c]], outside[job[c]])
  BY DEF NotesInv, NotesAgree
<1>4. Asked(c) /\ job[c] \in Note /\ pc[c] # "unread" => guard = c /\ held[c] = record[job[c]]
  BY DEF NotesInv, GuardOK, CopyTrue
<1>5. ASSUME NEW a \in Action, Prepare(c, a)
      PROVE  NotesInv' /\ NotesMove
  <2> DEFINE r == [NoRecord EXCEPT !.status = "prepared", !.shown = Render(0)]
  <2>1. r.status = "prepared"
    BY DEF NoRecord
  <2> HIDE DEF r
  <2>2. /\ ~Asked(c) /\ ~Asked(c)' /\ UNCHANGED <<outside, guard, misread>>
        /\ record[a].status = "absent"
        /\ \/ record' = [record EXCEPT ![a] = r] /\ UNCHANGED journal
           \/ /\ a \in Note /\ UNCHANGED record
              /\ journal' = [action |-> a, record |-> r, outside |-> outside[a]]
    BY <1>5 DEF Prepare, Asked, Goto, kept, r
  <2>3. a \in Note => guard = None /\ journal = None
    BY <1>5, <2>2 DEF Prepare, GuardOpen, NotesInv, GuardOK
  <2>4. a \in Note => /\ Agrees(a, r, outside[a])
                      /\ Moves(record[a].status, r.status, outside[a].stands)
    BY <2>1, <2>2 DEF NotesInv, NotesAgree, Agrees, Moves, Lifecycle
  <2>5. \A d \in Caller : Asked(d)' = Asked(d)
    BY <1>1, <2>2 DEF Asked
  <2>6. CASE record' = [record EXCEPT ![a] = r] /\ UNCHANGED journal
    <3>1. NotesAgree'
      BY <2>2, <2>4, <2>6 DEF NotesInv, NotesAgree, Agrees, StoreTypeOK, Note
    <3>2. GuardOK'
      <4> SUFFICES ASSUME NEW d \in Caller \ {c}, Asked(d), job[d] \in Note
                   PROVE  guard = d /\ CopyTrue(d)'
        BY <1>1, <2>2, <2>5, <2>6 DEF NotesInv, GuardOK
      <4>1. guard = d /\ CopyTrue(d)
        BY DEF NotesInv, GuardOK
      <4>2. job[d] # a
        BY <2>3, <4>1, NobodyAssumption
      <4>3. record'[job[d]] = record[job[d]]
        BY <2>6, <4>2 DEF StoreTypeOK
      <4>. QED BY <1>1, <2>2, <4>1, <4>3 DEF CopyTrue
    <3>3. DoubtOK'
      BY <2>2, <2>3, <2>6, NobodyAssumption DEF NotesInv, DoubtOK, Agrees, StoreTypeOK
    <3>4. NotesMove
      BY <2>2, <2>4, <2>6 DEF NotesMove, StoreTypeOK, Note
    <3>. QED BY <3>1, <3>2, <3>3, <3>4 DEF NotesInv
  <2>7. CASE a \in Note /\ UNCHANGED record
             /\ journal' = [action |-> a, record |-> r, outside |-> outside[a]]
    <3>1. GuardOK'
      BY <1>1, <2>2, <2>3, <2>5, <2>7, NobodyAssumption DEF NotesInv, GuardOK, CopyTrue
    <3>. QED BY <2>2, <2>4, <2>7, <3>1
             DEF NotesInv, NotesAgree, DoubtOK, NotesMove, Agrees, Follows
  <2>. QED BY <2>2, <2>6, <2>7
<1>6. ASSUME NEW a \in Action, Call(c, a) \/ RetryNote(c, a)
      PROVE  NotesInv' /\ NotesMove
  <2>1. /\ UNCHANGED <<record, outside, journal, misread>> /\ GuardOpen(c)
        /\ ~Asked(c) /\ Asked(c)' /\ pc'[c] # "unread"
        /\ job'[c] = a /\ held'[c] = record[a] /\ guard' = IF a \in Note THEN c ELSE guard
    BY <1>6 DEF Call, RetryNote, Quiet, kept, Goto, Asked, Serialized
  <2>2. guard = None /\ journal = None
    BY <2>1 DEF GuardOpen, NotesInv, GuardOK
  <2>3. \A d \in Caller \ {c} : Asked(d)' = Asked(d)
    BY <1>1 DEF Asked
  <2>. QED BY <1>1, <2>1, <2>2, <2>3, NobodyAssumption
           DEF NotesInv, NotesAgree, GuardOK, CopyTrue, DoubtOK, NotesMove, Agrees
<1>7. CASE AutoApprove(c)
  <2>1. /\ UNCHANGED <<record, outside, journal, misread, job, held>>
        /\ ~Asked(c) /\ Asked(c)' /\ pc'[c] # "unread"
        /\ guard' = IF job[c] \in Note THEN c ELSE guard
        /\ job[c] \in Note => GuardOpen(c) /\ held[c] = record[job[c]]
    BY <1>7 DEF AutoApprove, Quiet, kept, Goto, Asked, Serialized, IsCurrent
  <2>2. job[c] \in Note => guard = None /\ journal = None
    BY <2>1 DEF GuardOpen, NotesInv, GuardOK
  <2>3. \A d \in Caller \ {c} : Asked(d)' = Asked(d)
    BY <1>1 DEF Asked
  <2>. QED BY <1>1, <2>1, <2>2, <2>3, NobodyAssumption
           DEF NotesInv, NotesAgree, GuardOK, CopyTrue, DoubtOK, NotesMove, Agrees
<1>8. CASE LeaveToHuman(c) \/ LimitRaises(c) \/ NoteConfirmed(c) \/ Crash(c)
  BY <1>1, <1>8, NotesRest DEF LeaveToHuman, LimitRaises, NoteConfirmed, Crash, Quiet, kept
<1>9. CASE Approve(c)
  <2>1. /\ Asked(c) /\ held[c].status = "prepared"
        /\ Approving(c) \in Record /\ Now(c) \in Outside
    BY <1>2, <1>9, CopyTypes DEF Approve, Asked, CallOK
  <2>2. Approving(c).status = "approved"
    BY <2>1 DEF Approving, StoreTypeOK, Record
  <2>3. job[c] \in Note =>
            /\ Agrees(job[c], Approving(c), Now(c))
            /\ Follows(record[job[c]].status, Now(c).stands, Approving(c).status, Now(c).stands)
    BY <1>3, <1>4, <1>9, <2>1, <2>2 DEF Approve, Agrees, Follows, Moves, Lifecycle, Now
  <2>. QED BY <1>1, <1>9, <2>1, <2>3, NoteWritten DEF Approve, Inside
<1>10. ASSUME NEW r \in Record, NEW out \in Outside, Asked(c), SaveAndLeave(c, r, out),
              job[c] \in Note =>
                 /\ Agrees(job[c], r, out)
                 /\ Follows(record[job[c]].status, Now(c).stands, r.status, out.stands)
       PROVE  NotesInv' /\ NotesMove
  BY <1>1, <1>10, NoteWritten
<1>11. ASSUME Asked(c), NEW s \in Recorded
       PROVE  With(c, s) \in Record /\ With(c, s).status = s
  BY <1>11, CopyTypes DEF Asked, With, StoreTypeOK, Record
<1>12. Asked(c) => Now(c) \in Outside /\ Took(job[c]) \in Outside /\ Undone(job[c]) \in Outside
                    /\ held[c] \in Record
  BY CopyTypes DEF Asked
<1>13. CASE Reject(c) \/ UndoRecord(c) \/ Executed(c)
  <2>1. /\ Asked(c) /\ \E s \in Recorded : SaveAndLeave(c, With(c, s), Now(c))
                                /\ ((Reject(c) /\ s = "rejected") \/ job[c] \notin Note)
    BY <1>2, <1>13 DEF Reject, UndoRecord, Executed, Asked, CallOK, Recorded
  <2>2. Reject(c) => held[c].status = "prepared" /\ pc[c] # "unread"
    BY <1>2 DEF Reject, CallOK
  <2>3. PICK s \in Recorded : /\ SaveAndLeave(c, With(c, s), Now(c))
                              /\ (Reject(c) /\ s = "rejected") \/ job[c] \notin Note
    BY <2>1
  <2>4. With(c, s) \in Record /\ With(c, s).status = s
    BY <1>11, <2>1
  <2>5. job[c] \in Note =>
            /\ Agrees(job[c], With(c, s), Now(c))
            /\ Follows(record[job[c]].status, Now(c).stands, With(c, s).status, Now(c).stands)
    BY <1>3, <1>4, <2>1, <2>2, <2>3, <2>4 DEF Agrees, Follows, Moves, Lifecycle, Now
  <2>. QED BY <1>10, <1>12, <2>1, <2>3, <2>4, <2>5
<1>14. CASE \/ PerformFails(c)
            \/ Fail(c) /\ pc[c] \in {"verify", "limit"}
  <2>1. Asked(c) /\ SaveAndLeave(c, With(c, "failed"), Now(c)) /\ held[c].status = "approved"
    BY <1>2, <1>14 DEF PerformFails, Fail, Asked, CallOK, Executing
  <2>2. With(c, "failed") \in Record /\ With(c, "failed").status = "failed"
    BY <1>11, <2>1 DEF Recorded
  <2>3. job[c] \in Note =>
            /\ Agrees(job[c], With(c, "failed"), Now(c))
            /\ Follows(record[job[c]].status, Now(c).stands, With(c, "failed").status,
                       Now(c).stands)
    BY <1>3, <1>4, <1>14, <2>1, <2>2
       DEF PerformFails, Agrees, Follows, Moves, Lifecycle, Now
  <2>. QED BY <1>10, <1>12, <2>1, <2>2, <2>3
<1>15. CASE Edit(c) \/ UndoFails(c)
  <2>1. \E r \in Record : r.status = held[c].status /\ SaveAndLeave(c, r, Now(c)) /\ Asked(c)
    <3>1. CASE UndoFails(c)
      BY <1>12, <3>1 DEF UndoFails, Asked
    <3>2. CASE Edit(c)
      <4>1. Asked(c) /\ held[c] \in Record /\ held[c].rev + 1 \in 0..MaxRevision
        BY <1>12, <3>2, BoundAssumption DEF Edit, Asked, CallFits, Record
      <4>2. Render(held[c].rev + 1) \in Preview
        BY <4>1, RenderType
      <4> DEFINE r == [held[c] EXCEPT !.rev = held[c].rev + 1,
                                      !.shown = Render(held[c].rev + 1)]
      <4>3. r \in Record /\ r.status = held[c].status
        BY <4>1, <4>2 DEF Record
      <4>. QED BY <3>2, <4>1, <4>3 DEF Edit
    <3>. QED BY <1>15, <3>1, <3>2
  <2>2. pc[c] # "unread"
    BY <1>15 DEF Edit, UndoFails
  <2>3. PICK r \in Record : r.status = held[c].status /\ SaveAndLeave(c, r, Now(c))
    BY <2>1
  <2>4. job[c] \in Note =>
            /\ Agrees(job[c], r, Now(c))
            /\ Follows(record[job[c]].status, Now(c).stands, r.status, Now(c).stands)
    BY <1>3, <1>4, <2>1, <2>2, <2>3 DEF Agrees, Follows, Now
  <2>. QED BY <1>10, <1>12, <2>1, <2>3, <2>4
<1>16. CASE PerformNote(c)
  <2>1. /\ Asked(c) /\ job[c] \in Note /\ held[c].status = "approved" /\ pc[c] # "unread"
        /\ SaveAndGoOn(c, With(c, "executed"), Took(job[c]), "confirm")
    BY <1>2, <1>16 DEF PerformNote, Asked, CallOK, Executing
  <2>2. Took(job[c]).times <= 1 /\ Took(job[c]).stands
    BY <1>3, <1>4, <2>1 DEF Agrees, Took
  <2>3. With(c, "executed") \in Record /\ With(c, "executed").status = "executed"
    BY <1>11, <2>1 DEF Recorded
  <2>4. /\ Agrees(job[c], With(c, "executed"), Took(job[c]))
        /\ Follows(record[job[c]].status, Now(c).stands, With(c, "executed").status,
                   Took(job[c]).stands)
    BY <1>3, <1>4, <2>1, <2>2, <2>3 DEF Agrees, Follows, Moves, Lifecycle
  <2>. QED BY <1>1, <1>12, <2>1, <2>3, <2>4, NoteWritten DEF Inside
<1>17. CASE UndoNote(c)
  <2>1. /\ Asked(c) /\ job[c] \in Note /\ held[c].status \in {"executed", "undone"}
        /\ pc[c] # "unread" /\ SaveAndLeave(c, With(c, "undone"), Undone(job[c]))
    BY <1>2, <1>17 DEF UndoNote, Asked, CallOK
  <2>2. Undone(job[c]).times <= 1 /\ ~Undone(job[c]).stands
    BY <1>3, <2>1 DEF Agrees, Undone, StoreTypeOK, Outside, Note
  <2>3. With(c, "undone") \in Record /\ With(c, "undone").status = "undone"
    BY <1>11, <2>1 DEF Recorded
  <2>4. /\ Agrees(job[c], With(c, "undone"), Undone(job[c]))
        /\ Follows(record[job[c]].status, Now(c).stands, With(c, "undone").status,
                   Undone(job[c]).stands)
    BY <1>3, <1>4, <2>1, <2>2, <2>3 DEF Agrees, Follows, Moves, Lifecycle
  <2>. QED BY <1>10, <1>12, <2>1, <2>3, <2>4
<1>18. CASE Verify(c) \/ CheckLimit(c) \/ Contract(c)
  <2>1. /\ Asked(c) /\ held[c].status = "approved"
    BY <1>2, <1>18 DEF Verify, CheckLimit, Contract, Asked, CallOK, Executing
  <2>2. CASE \E there \in {"limit", "contract", "effect"} :
                GoOn(c, held[c], there) /\ Quiet /\ UNCHANGED by
    <3>1. pc[c] # "unread"
      BY <1>18 DEF Verify, CheckLimit, Contract
    <3>2. /\ UNCHANGED <<record, outside, journal, misread, job, guard>>
          /\ Asked(c)' /\ pc'[c] # "unread" /\ held' = held
      BY <2>2 DEF GoOn, Quiet, kept, Goto, Asked
    <3>. QED BY <1>1, <2>1, <3>1, <3>2, NotesRest
  <2>3. CASE SaveAndLeave(c, Hold(c), Now(c))
    <3>1. Hold(c) \in Record /\ Hold(c).status = "prepared"
      BY <1>12, <2>1 DEF Hold, Record, Recorded
    <3>2. pc[c] # "unread"
      BY <1>18 DEF Verify, CheckLimit, Contract
    <3>3. job[c] \in Note =>
              /\ Agrees(job[c], Hold(c), Now(c))
              /\ Follows(record[job[c]].status, Now(c).stands, Hold(c).status, Now(c).stands)
      BY <1>3, <1>4, <2>1, <3>1, <3>2 DEF Agrees, Follows, Moves, Lifecycle, Now
    <3>. QED BY <1>10, <1>12, <2>1, <2>3, <3>1, <3>3
  <2>. QED BY <1>14, <1>18, <2>2, <2>3 DEF Verify, CheckLimit, Contract
<1>19. CASE Perform(c) \/ UndoEffect(c)
  <2>1. /\ UNCHANGED <<record, journal, misread, job, held, guard>>
        /\ Asked(c) /\ Asked(c)' /\ pc[c] # "unread" /\ pc'[c] # "unread"
        /\ \A a \in Note : outside'[a] = outside[a]
    BY <1>19 DEF Perform, UndoEffect, kept, Asked, Goto, StoreTypeOK, Note
  <2>. QED BY <1>1, <2>1, NotesRest
<1>20. CASE NoteUnread(c) \/ UndoUnread(c)
  <2>1. \E s \in {"failed", "undone"} :
          /\ ReadFails(c, s) /\ pc[c] \in {"confirm", "undo"} /\ job[c] \in Note
          /\ held[c].status = "executed" \/ (held[c].status = "undone" /\ s = "undone")
    BY <1>2, <1>20 DEF NoteUnread, UndoUnread, CallOK, CallFits
  <2>. QED BY <1>1, <2>1, NoteUnreadable
<1>21. CASE SaveUnread(c)
  <2>1. /\ Asked(c) /\ SaveAndLeave(c, held[c], Now(c)) /\ pc[c] = "unread"
        /\ held[c].status \in {"failed", "undone"} /\ job[c] \in Note
    BY <1>2, <1>21 DEF SaveUnread, Asked, CallOK
  <2>2. job[c] \in misread /\ record[job[c]].status \in {"executed", held[c].status}
    BY <2>1 DEF NotesInv, GuardOK, CopyTrue
  <2>3. Agrees(job[c], held[c], Now(c))
    BY <1>3, <2>1, <2>2 DEF Agrees, Now
  <2>4. Follows(record[job[c]].status, Now(c).stands, held[c].status, Now(c).stands)
    BY <1>3, <2>1, <2>2 DEF Agrees, Follows, Moves, Now
  <2>. QED BY <1>10, <1>12, <2>1, <2>3, <2>4
<1> HIDE DEF TypeInv, CallTypeOK
<1>. QED BY <1>5, <1>6, <1>7, <1>8, <1>9, <1>13, <1>14, <1>15, <1>16, <1>17, <1>18, <1>19,
            <1>20, <1>21 DEF Step

\* Every step keeps the notes, a recovery and a crash included.
LEMMA NotesNext ==
    ASSUME TypeInv, CallsOK, NotesInv, [Next]_vars
    PROVE  NotesInv' /\ NotesMove
<1>1. CASE RecoverNotes
  <2>1. /\ journal # None /\ guard = None /\ journal' = None
        /\ UNCHANGED <<pc, job, held, guard, misread>>
        /\ \/ /\ record' = [record EXCEPT ![journal.action] = journal.record]
              /\ outside' = [outside EXCEPT ![journal.action] = journal.outside]
           \/ UNCHANGED <<record, outside>>
    BY <1>1 DEF RecoverNotes, kept
  <2>2. /\ journal.action \in Note /\ journal.action \in Action
        /\ Agrees(journal.action, journal.record, journal.outside)
        /\ Follows(record[journal.action].status, outside[journal.action].stands,
                   journal.record.status, journal.outside.stands)
    BY <2>1 DEF NotesInv, DoubtOK, Note
  <2>3. NotesAgree'
    <3>1. \A a \in Note :
            \/ record'[a] = record[a] /\ outside'[a] = outside[a]
            \/ /\ a = journal.action
               /\ record'[a] = journal.record /\ outside'[a] = journal.outside
      BY <2>1, <2>2 DEF TypeInv, StoreTypeOK, Note
    <3>2. \A a \in Note : Agrees(a, record[a], outside[a])
      BY DEF NotesInv, NotesAgree
    <3>3. \A a \in Note : Agrees(a, record'[a], outside'[a])
      BY <2>2, <3>1, <3>2
    <3>. QED BY <2>1, <3>3 DEF NotesAgree, Agrees
  <2>4. GuardOK' /\ DoubtOK'
    BY <2>1, <2>2, NobodyAssumption
       DEF NotesInv, GuardOK, DoubtOK, Asked, TypeInv, StoreTypeOK, CallTypeOK
  <2>5. NotesMove
    <3>1. CASE UNCHANGED <<record, outside>>
      BY <3>1 DEF NotesMove
    <3>2. CASE /\ record' = [record EXCEPT ![journal.action] = journal.record]
               /\ outside' = [outside EXCEPT ![journal.action] = journal.outside]
      <4>1. /\ record'[journal.action] = journal.record
            /\ outside'[journal.action] = journal.outside
            /\ \A b \in Note \ {journal.action} :
                  record'[b] = record[b] /\ outside'[b] = outside[b]
        BY <2>2, <3>2 DEF TypeInv, StoreTypeOK, Note
      <4>. QED BY <2>2, <4>1 DEF NotesMove, Follows
    <3>. QED BY <2>1, <3>1, <3>2
  <2>. QED BY <2>3, <2>4, <2>5 DEF NotesInv
<1>2. CASE SetAutonomy \/ GrantScope \/ Revoke \/ Drift \/ UNCHANGED vars
  <2>1. UNCHANGED <<record, outside, pc, job, held, guard, journal, misread>>
    BY <1>2 DEF SetAutonomy, GrantScope, Revoke, Drift, Untouching, vars, kept
  <2>. QED BY <2>1 DEF NotesInv, NotesAgree, Agrees, GuardOK, CopyTrue, DoubtOK, Asked,
                       NotesMove
<1>. QED BY <1>1, <1>2, StepNotes DEF Next

\* The invariant of the notes holds in every state.
LEMMA NotesInvariant == Spec => []NotesInv
<1>1. Init => NotesInv
  BY DEF Init, NotesInv, NotesAgree, Agrees, GuardOK, DoubtOK, Asked, NoRecord, Untouched, Note
<1>2. TypeInv /\ CallsOK /\ NotesInv /\ [Next]_vars => NotesInv'
  BY NotesNext
<1>. QED BY <1>1, <1>2, TypeInvariant, CallsInvariant, PTL DEF Spec

\* A note is saved at most once.  Through retries, undos, races of any number of
\* callers, mutations left in doubt and either recovery, its record says executed
\* only of a note that stands; a note that stands is recorded as executed, or a read
\* failed in one of its calls and it is recorded as failed or as undone: never as one
\* that could be approved and saved again (note_evidence.guard() around each
\* transition, the record in the journal with its note, and the handlers of
\* _execute() and undo() that write over it).
THEOREM NotesAreTrue == Spec => []NoteMatchesRecord
<1>1. NotesInv => NoteMatchesRecord
  BY DEF NotesInv, NotesAgree, Agrees, NoteMatchesRecord
<1>. QED BY <1>1, NotesInvariant, PTL

\* The notes' records and effects only ever move along the lifecycle that the
\* head of actions.py draws, one note at a time; but for a failed read, after which
\* the record of a note that stands may go from executed to failed or to undone,
\* and a note recorded as undone may still be removed.
THEOREM NotesKeepLifecycle == Spec => NotesFollowLifecycle
<1>1. Init => NoteLifecycle!Init
  BY DEF Init, NoteLifecycle!Init, NoRecord, Untouched, Note
<1>2. ASSUME TypeInv, TypeInv', CallsOK, NotesInv, NotesInv', [Next]_vars
      PROVE  [NoteLifecycle!Next]_NoteLifecycle!lifecycleVars
  <2>1. NotesMove
    BY <1>2, NotesNext
  <2>2. \A a \in Note : outside[a].stands \in BOOLEAN /\ outside'[a].stands \in BOOLEAN
    BY <1>2 DEF TypeInv, StoreTypeOK, Outside, Note
  <2>3. CASE \A a \in Note : /\ record'[a].status = record[a].status
                             /\ outside'[a].stands <=> outside[a].stands
    <3>1. ASSUME NEW a \in Note
          PROVE  outside'[a].stands = outside[a].stands
      <4>1. CASE outside[a].stands
        <5>1. outside[a].stands = TRUE /\ outside'[a].stands = TRUE
          BY <2>2, <2>3, <4>1
        <5>. QED BY <5>1
      <4>2. CASE ~outside[a].stands
        <5>1. ~outside'[a].stands
          BY <2>3, <4>2
        <5>2. outside[a].stands = FALSE
          BY <2>2, <4>2, Zenon
        <5>3. outside'[a].stands = FALSE
          BY <2>2, <5>1, Zenon
        <5>. QED BY <5>2, <5>3, Zenon
      <4>. QED BY <4>1, <4>2
    <3>2. [a \in Note |-> record'[a].status] = [a \in Note |-> record[a].status]
      BY <2>3
    <3>3. [a \in Note |-> outside'[a].stands] = [a \in Note |-> outside[a].stands]
      BY <3>1
    <3>. QED BY <3>2, <3>3 DEF NoteLifecycle!lifecycleVars
  <2>4. ASSUME NEW a \in Note, Moves(record[a].status, record'[a].status, outside'[a].stands),
               \A b \in Note \ {a} : record'[b] = record[b] /\ outside'[b] = outside[b]
        PROVE  NoteLifecycle!Next
    <3> DEFINE to == record'[a].status
    <3>2. CASE <<record[a].status, to>> \in Lifecycle /\ (outside'[a].stands <=> to = "executed")
      <4>1. outside'[a].stands = (to = "executed")
        BY <2>2, <3>2
      <4>2. NoteLifecycle!Move(a, record[a].status, to, to = "executed")
        BY <2>4, <4>1 DEF NoteLifecycle!Move
      <4>3. \/ NoteLifecycle!Prepare(a) \/ NoteLifecycle!Reject(a) \/ NoteLifecycle!Approve(a)
            \/ NoteLifecycle!Hold(a) \/ NoteLifecycle!Fail(a) \/ NoteLifecycle!Execute(a)
            \/ NoteLifecycle!Undo(a)
        BY <3>2, <4>2
           DEF Lifecycle, NoteLifecycle!Move, NoteLifecycle!Prepare, NoteLifecycle!Reject,
               NoteLifecycle!Approve, NoteLifecycle!Hold, NoteLifecycle!Fail,
               NoteLifecycle!Execute, NoteLifecycle!Undo
      <4>. QED BY <4>3 DEF NoteLifecycle!Next
    <3>3. CASE record[a].status = "executed" /\ to \in {"failed", "undone"} /\ outside'[a].stands
      <4>1. outside'[a].stands = TRUE
        BY <2>2, <3>3
      <4>2. NoteLifecycle!Move(a, "executed", to, TRUE)
        BY <2>4, <3>3, <4>1 DEF NoteLifecycle!Move
      <4>3. NoteLifecycle!Misreport(a)
        BY <3>3, <4>2 DEF NoteLifecycle!Misreport
      <4>. QED BY <4>3 DEF NoteLifecycle!Next
    <3>4. CASE record[a].status = "undone" /\ to = "undone" /\ ~outside'[a].stands
      <4>1. outside'[a].stands = FALSE
        BY <2>2, <3>4
      <4>2. NoteLifecycle!Move(a, "undone", "undone", FALSE)
        BY <2>4, <3>4, <4>1 DEF NoteLifecycle!Move
      <4>. QED BY <4>2 DEF NoteLifecycle!UndoLate, NoteLifecycle!Next
    <3>. QED BY <2>4, <3>2, <3>3, <3>4 DEF Moves
  <2>. QED BY <2>1, <2>3, <2>4 DEF NotesMove
<1>. QED BY <1>1, <1>2, TypeInvariant, CallsInvariant, NotesInvariant, PTL
         DEF Spec, NotesFollowLifecycle, NoteLifecycle!Spec

-----------------------------------------------------------------------------
(* Who drives an approved action *)

\* Nothing is in doubt unless something went wrong.
Driven == ApprovedIsDriven /\ (journal # None => mishaps > 0)

\* A caller stops driving an action only when it is no longer approved.
LEMMA StepDriven ==
    ASSUME TypeInv, CallsOK, Driven, NEW c \in Caller, Step(c)
    PROVE  Driven'
<1> USE DEF TypeInv, CallTypeOK, StoreTypeOK, Driven, ApprovedIsDriven
<1> DEFINE Drives(a) == job[c] = a /\ pc[c] \in Executing
<1>1. \A d \in Caller \ {c} : pc'[d] = pc[d] /\ job'[d] = job[d]
  BY OthersStay
<1>2. CallOK(c)
  BY DEF CallsOK
<1>3. ASSUME UNCHANGED <<journal, mishaps>>,
             \A a \in Action : record'[a].status = "approved" =>
                \/ Drives(a)'
                \/ record[a].status = "approved" /\ ~Drives(a)
      PROVE  Driven'
  BY <1>1, <1>3
<1>4. ASSUME mishaps' = mishaps + 1
      PROVE  Driven'
  BY <1>4, BoundAssumption
<1> HIDE DEF Driven, ApprovedIsDriven
<1>5. ASSUME NEW a \in Action, Prepare(c, a)
      PROVE  Driven'
  <2> DEFINE r == [NoRecord EXCEPT !.status = "prepared", !.shown = Render(0)]
  <2>1. r.status = "prepared"
    BY DEF NoRecord
  <2> HIDE DEF r
  <2>2. CASE record' = [record EXCEPT ![a] = r] /\ UNCHANGED <<journal, mishaps>>
    BY <1>3, <1>5, <2>1, <2>2 DEF Prepare, Executing
  <2>3. CASE Mishap
    BY <1>4, <2>3 DEF Mishap
  <2>. QED BY <1>5, <2>2, <2>3 DEF Prepare, r
<1>6. ASSUME NEW a \in Action, Call(c, a) \/ RetryNote(c, a)
      PROVE  Driven'
  <2>1. UNCHANGED <<record, journal, mishaps>> /\ pc[c] = "idle"
    BY <1>6 DEF Call, RetryNote, Quiet
  <2>. QED BY <1>3, <2>1 DEF Executing
<1>7. CASE AutoApprove(c) \/ LeaveToHuman(c) \/ NoteConfirmed(c)
  <2>1. UNCHANGED <<record, journal, mishaps>> /\ pc[c] \in {"decide", "confirm"}
    BY <1>7 DEF AutoApprove, LeaveToHuman, NoteConfirmed, Quiet
  <2>. QED BY <1>3, <2>1 DEF Executing
<1>8. CASE LimitRaises(c)
  BY <1>8, BoundAssumption DEF LimitRaises, Quiet, Driven, ApprovedIsDriven
<1>9. CASE Crash(c)
  BY <1>4, <1>9 DEF Crash, Mishap
<1>10. CASE Approve(c)
  <2>1. CASE LeaveInDoubt(c, Approving(c), Now(c))
    BY <1>4, <2>1 DEF LeaveInDoubt, Mishap
  <2>2. CASE Store(c, Approving(c), Now(c)) /\ GoOn(c, Approving(c), "verify")
    BY <1>3, <2>2 DEF Store, GoOn, Goto, Executing
  <2>. QED BY <1>10, <2>1, <2>2 DEF Approve, SaveAndGoOn
<1>11. ASSUME NEW r \in Record, NEW out, pc[c] # "idle", r.status # "approved",
              SaveAndLeave(c, r, out)
       PROVE  Driven'
  <2>1. CASE LeaveInDoubt(c, r, out)
    BY <1>4, <2>1 DEF LeaveInDoubt, Mishap
  <2>2. CASE Store(c, r, out)
    BY <1>3, <1>11, <2>2 DEF Store
  <2>. QED BY <1>11, <2>1, <2>2 DEF SaveAndLeave
<1>12. pc[c] # "idle" => /\ held[c] \in Record
                        /\ \A s \in Recorded : With(c, s) \in Record /\ With(c, s).status = s
  BY CopyTypes DEF With, Record
<1>13. CASE \/ Reject(c) \/ UndoRecord(c) \/ Executed(c) \/ UndoNote(c)
            \/ Fail(c) /\ pc[c] # "idle"
  <2>1. pc[c] # "idle" /\ \E s \in Recorded \ {"approved"}, out \in {Now(c), Undone(job[c])} :
            SaveAndLeave(c, With(c, s), out)
    BY <1>13 DEF Reject, UndoRecord, Executed, UndoNote, Fail, Recorded
  <2>. QED BY <1>11, <1>12, <2>1
<1>14. CASE PerformFails(c)
  BY <1>13, <1>14 DEF PerformFails
<1>15. CASE Edit(c)
  <2>1. /\ pc[c] # "idle" /\ held[c] \in Record /\ held[c].rev + 1 \in 0..MaxRevision
        /\ held[c].status = "prepared"
    BY <1>2, <1>12, <1>15, BoundAssumption DEF Edit, CallOK, CallFits, Record
  <2>2. Render(held[c].rev + 1) \in Preview
    BY <2>1, RenderType
  <2> DEFINE r == [held[c] EXCEPT !.rev = held[c].rev + 1, !.shown = Render(held[c].rev + 1)]
  <2>3. r \in Record /\ r.status = "prepared"
    BY <2>1, <2>2 DEF Record
  <2>. QED BY <1>11, <1>15, <2>1, <2>3 DEF Edit
<1>16. CASE UndoFails(c) \/ SaveUnread(c)
  <2>1. pc[c] # "idle" /\ held[c].status # "approved" /\ SaveAndLeave(c, held[c], Now(c))
    BY <1>2, <1>16 DEF UndoFails, SaveUnread, CallOK
  <2>. QED BY <1>11, <1>12, <2>1
<1>17. CASE Verify(c) \/ CheckLimit(c) \/ Contract(c)
  <2>1. pc[c] # "idle"
    BY <1>17 DEF Verify, CheckLimit, Contract
  <2>2. CASE \E there \in {"limit", "contract", "effect"} :
                GoOn(c, held[c], there) /\ Quiet /\ UNCHANGED by
    BY <1>3, <2>2 DEF GoOn, Quiet, Goto, Executing
  <2>3. CASE SaveAndLeave(c, Hold(c), Now(c))
    <3>1. \E r \in Record, out \in {Now(c)} : r.status # "approved" /\ SaveAndLeave(c, r, out)
      <4>1. Hold(c) \in Record /\ Hold(c).status # "approved"
        BY <2>1, CopyTypes DEF Hold, Record
      <4>. QED BY <2>3, <4>1
    <3>. QED BY <1>11, <2>1, <3>1
  <2>. QED BY <1>13, <1>17, <2>1, <2>2, <2>3 DEF Verify, CheckLimit, Contract
<1>18. CASE Perform(c) \/ UndoEffect(c)
  <2>1. UNCHANGED <<record, journal, mishaps, job>> /\ (Perform(c) \/ pc[c] = "undo")
    BY <1>18 DEF Perform, UndoEffect
  <2>2. Perform(c) => pc'[c] \in Executing
    BY DEF Perform, Goto, Executing
  <2>. QED BY <1>3, <2>1, <2>2 DEF Executing
<1>19. CASE PerformNote(c)
  <2>1. pc[c] # "idle" /\ With(c, "executed").status # "approved"
    BY <1>12, <1>19 DEF PerformNote, Recorded
  <2>2. CASE LeaveInDoubt(c, With(c, "executed"), Took(job[c]))
    BY <1>4, <2>2 DEF LeaveInDoubt, Mishap
  <2>3. CASE Store(c, With(c, "executed"), Took(job[c]))
    BY <1>3, <2>1, <2>3 DEF Store
  <2>. QED BY <1>19, <2>2, <2>3 DEF PerformNote, SaveAndGoOn
<1>20. CASE NoteUnread(c) \/ UndoUnread(c)
  BY <1>4, <1>20 DEF NoteUnread, UndoUnread, ReadFails, Mishap
<1> HIDE DEF TypeInv, CallTypeOK, StoreTypeOK
<1>. QED BY <1>5, <1>6, <1>7, <1>8, <1>9, <1>10, <1>13, <1>14, <1>15, <1>16, <1>17, <1>18,
            <1>19, <1>20 DEF Step

\* Unless something crashed, an approved action has a call that is executing it,
\* whatever other callers write over its record from stale copies.
THEOREM ApprovedHasDriver == Spec => []ApprovedIsDriven
<1>1. Init => Driven
  BY DEF Init, Driven, ApprovedIsDriven, NoRecord
<1>2. ASSUME TypeInv, CallsOK, Driven, [Next]_vars
      PROVE  Driven'
  <2>1. CASE RecoverNotes
    BY <1>2, <2>1 DEF RecoverNotes, Driven, ApprovedIsDriven, TypeInv, StoreTypeOK
  <2>2. CASE SetAutonomy \/ GrantScope \/ Revoke \/ Drift \/ UNCHANGED vars
    <3>1. UNCHANGED <<record, pc, job, journal, mishaps>>
      BY <2>2 DEF SetAutonomy, GrantScope, Revoke, Drift, Untouching, vars
    <3>. QED BY <1>2, <3>1 DEF Driven, ApprovedIsDriven
  <2>. QED BY <1>2, <2>1, <2>2, StepDriven DEF Next
<1>3. Driven => ApprovedIsDriven
  BY DEF Driven
<1>. QED BY <1>1, <1>2, <1>3, TypeInvariant, CallsInvariant, PTL DEF Spec

-----------------------------------------------------------------------------
(* The daily cap *)

\* A call that may yet write its action as executed: it has passed the limit, or
\* it undoes what its copy says was executed.
AtWork(c) ==
    \/ pc[c] \in {"contract", "effect", "executed", "undone"}
    \/ pc[c] = "undo" /\ held[c].status = "executed"

\* An action that counts against its type's limit, or may come to without another
\* look at it.
MayCount(a) ==
    \/ record[a].status = "executed"
    \/ \E c \in Caller : job[c] = a /\ AtWork(c)
    \/ journal # None /\ journal.action = a /\ journal.record.status = "executed"

Counted(k) == {a \in Action : KindOf[a] = k /\ MayCount(a)}

WithinCap(k) ==
    /\ IsFiniteSet(Counted(k))
    /\ Cardinality(Counted(k)) <= Limit[k] + Cardinality(Caller) - 1

CapInv == \A k \in Kind : Limit[k] > 0 => WithinCap(k)

\* A step after which its caller is past the limit.
Passes(c) ==
    /\ GoOn(c, held[c], "contract") /\ UNCHANGED record
    /\ Limit[KindOf[job[c]]] > 0 => journal' = None /\ ~CapReached(KindOf[job[c]])

\* The only step that makes an action count is the one that looks at the limit.
LEMMA StepCounts ==
    ASSUME TypeInv, CallsOK, NEW c \in Caller, Step(c), NEW a \in Action, MayCount(a)'
    PROVE  MayCount(a) \/ (Passes(c) /\ a = job[c])
<1> SUFFICES ASSUME ~MayCount(a) PROVE Passes(c) /\ a = job[c]
  OBVIOUS
<1> USE DEF TypeInv, CallTypeOK, StoreTypeOK
<1>1. \A d \in Caller \ {c} : pc'[d] = pc[d] /\ job'[d] = job[d] /\ held'[d] = held[d]
  BY OthersStay
<1>2. CallOK(c)
  BY DEF CallsOK
<1>3. ASSUME UNCHANGED <<record, journal>>, ~AtWork(c)' \/ (AtWork(c) /\ job'[c] = job[c])
      PROVE  FALSE
  BY <1>1, <1>3 DEF MayCount, AtWork
<1>4. ASSUME NEW r \in Record, NEW out, r.status = "executed" => AtWork(c),
             Store(c, r, out) \/ LeaveInDoubt(c, r, out), pc[c] # "idle",
             ~AtWork(c)'
      PROVE  FALSE
  <2>1. job[c] \in Action
    BY <1>4
  <2>2. CASE Store(c, r, out)
    <3>1. journal' = journal /\ record' = [record EXCEPT ![job[c]] = r]
      BY <2>2 DEF Store
    <3>2. record'[a].status = "executed" => record[a].status = "executed" \/ (a = job[c] /\ AtWork(c))
      BY <1>4, <2>1, <3>1
    <3>. QED BY <1>1, <1>4, <3>1, <3>2 DEF MayCount, AtWork
  <2>3. CASE LeaveInDoubt(c, r, out)
    <3>1. record' = record /\ journal' = [action |-> job[c], record |-> r, outside |-> out]
      BY <2>3 DEF LeaveInDoubt
    <3>2. journal'.action = job[c] /\ journal'.record = r
      BY <3>1
    <3>. QED BY <1>1, <1>4, <3>1, <3>2 DEF MayCount, AtWork
  <2>. QED BY <1>4, <2>2, <2>3
<1>5. ASSUME Leave(c)
      PROVE  ~AtWork(c)'
  BY <1>5 DEF Leave, Goto, AtWork
<1>6. ASSUME NEW r \in Record, NEW out, r.status = "executed" => AtWork(c),
             pc[c] # "idle", SaveAndLeave(c, r, out)
      PROVE  FALSE
  BY <1>4, <1>5, <1>6 DEF SaveAndLeave, LeaveInDoubt
<1>7. pc[c] # "idle" => /\ held[c] \in Record /\ Hold(c) \in Record /\ Approving(c) \in Record
                        /\ Hold(c).status = "prepared" /\ Approving(c).status = "approved"
                        /\ \A s \in Recorded : With(c, s) \in Record /\ With(c, s).status = s
  BY CopyTypes DEF With, Hold, Approving, Record
<1>8. ASSUME NEW b \in Action, Prepare(c, b)
      PROVE  FALSE
  <2> DEFINE r == [NoRecord EXCEPT !.status = "prepared", !.shown = Render(0)]
  <2>1. r.status = "prepared"
    BY DEF NoRecord
  <2> HIDE DEF r
  <2>2. ~AtWork(c)'
    BY <1>8 DEF Prepare, Goto, AtWork
  <2>3. CASE record' = [record EXCEPT ![b] = r] /\ UNCHANGED journal
    <3>1. record'[a].status = "executed" => record[a].status = "executed"
      BY <2>1, <2>3
    <3>. QED BY <1>1, <2>2, <2>3, <3>1 DEF MayCount, AtWork
  <2>4. CASE record' = record /\ journal' = [action |-> b, record |-> r, outside |-> outside[b]]
    <3>1. journal'.record = r
      BY <2>4
    <3>. QED BY <1>1, <2>1, <2>2, <2>4, <3>1 DEF MayCount, AtWork
  <2>. QED BY <1>8, <2>3, <2>4 DEF Prepare, r
<1>9. ASSUME NEW b \in Action, Call(c, b)
      PROVE  FALSE
  <2>1. UNCHANGED <<record, journal>> /\ job'[c] = b
        /\ (AtWork(c)' => record[b].status = "executed") /\ held'[c] = record[b]
    BY <1>9 DEF Call, Quiet, Goto, AtWork
  <2>. QED BY <1>1, <2>1 DEF MayCount, AtWork
<1>10. ASSUME NEW b \in Action, RetryNote(c, b)
       PROVE  FALSE
  <2>1. UNCHANGED <<record, journal>> /\ ~AtWork(c)'
    BY <1>10 DEF RetryNote, Quiet, Goto, AtWork
  <2>. QED BY <1>3, <2>1
<1>11. CASE \/ AutoApprove(c) \/ LeaveToHuman(c) \/ LimitRaises(c) \/ NoteConfirmed(c)
            \/ Crash(c)
  <2>1. UNCHANGED <<record, journal>>
    BY <1>11 DEF AutoApprove, LeaveToHuman, LimitRaises, NoteConfirmed, Crash, Quiet
  <2>2. ~AtWork(c)'
    BY <1>5, <1>11
       DEF AutoApprove, LeaveToHuman, LimitRaises, NoteConfirmed, Crash, Goto, AtWork
  <2>. QED BY <1>3, <2>1, <2>2
<1>12. CASE Approve(c)
  <2>1. pc[c] # "idle" /\ (Store(c, Approving(c), Now(c)) \/ LeaveInDoubt(c, Approving(c), Now(c)))
        /\ ~AtWork(c)'
    BY <1>12 DEF Approve, SaveAndGoOn, GoOn, LeaveInDoubt, Leave, Goto, AtWork
  <2>. QED BY <1>4, <1>7, <2>1
<1>13. CASE Reject(c) \/ UndoRecord(c) \/ UndoNote(c) \/ (Fail(c) /\ pc[c] # "idle")
  <2>1. pc[c] # "idle" /\ \E s \in Recorded \ {"executed"}, out \in {Now(c), Undone(job[c])} :
            SaveAndLeave(c, With(c, s), out)
    BY <1>13 DEF Reject, UndoRecord, UndoNote, Fail, Recorded
  <2>. QED BY <1>6, <1>7, <2>1
<1>14. CASE PerformFails(c)
  BY <1>13, <1>14 DEF PerformFails
<1>15. CASE Executed(c)
  <2>1. AtWork(c) /\ pc[c] # "idle" /\ \E s \in Recorded : SaveAndLeave(c, With(c, s), Now(c))
    BY <1>15 DEF Executed, AtWork, Recorded
  <2>. QED BY <1>6, <1>7, <2>1
<1>16. CASE Edit(c)
  <2>1. /\ pc[c] # "idle" /\ held[c] \in Record /\ held[c].rev + 1 \in 0..MaxRevision
        /\ held[c].status = "prepared"
    BY <1>2, <1>7, <1>16, BoundAssumption DEF Edit, CallOK, CallFits, Record
  <2>2. Render(held[c].rev + 1) \in Preview
    BY <2>1, RenderType
  <2> DEFINE r == [held[c] EXCEPT !.rev = held[c].rev + 1, !.shown = Render(held[c].rev + 1)]
  <2>3. r \in Record /\ r.status = "prepared"
    BY <2>1, <2>2 DEF Record
  <2>. QED BY <1>6, <1>16, <2>1, <2>3 DEF Edit
<1>17. CASE UndoFails(c) \/ SaveUnread(c)
  <2>1. /\ pc[c] # "idle" /\ SaveAndLeave(c, held[c], Now(c))
        /\ held[c].status = "executed" => AtWork(c)
    BY <1>2, <1>17 DEF UndoFails, SaveUnread, AtWork, CallOK
  <2>. QED BY <1>6, <1>7, <2>1
<1>18. CASE Verify(c)
  BY <1>3, <1>13, <1>18 DEF Verify, GoOn, Quiet, Goto, AtWork
<1>19. CASE CheckLimit(c)
  <2>1. pc[c] # "idle"
    BY <1>19 DEF CheckLimit
  <2> SUFFICES ASSUME ~Fail(c) PROVE Passes(c) /\ a = job[c]
    BY <1>13, <2>1
  <2>2. GoOn(c, held[c], "contract") /\ Quiet /\ ~CapReached(KindOf[job[c]])
    BY <1>19 DEF CheckLimit
  <2>3. Limit[KindOf[job[c]]] > 0 => journal' = None
    BY <1>19, <2>2 DEF CheckLimit, GuardOpen, Quiet
  <2>4. Passes(c)
    BY <2>2, <2>3 DEF Passes, Quiet
  <2>5. job' = job /\ UNCHANGED <<record, journal>>
    BY <2>2 DEF GoOn, Quiet
  <2>. QED BY <1>1, <2>4, <2>5 DEF MayCount, AtWork
<1>20. CASE Contract(c)
  <2>1. CASE GoOn(c, held[c], "effect") /\ Quiet
    BY <1>3, <1>20, <2>1 DEF Contract, GoOn, Quiet, Goto, AtWork
  <2>2. CASE SaveAndLeave(c, Hold(c), Now(c))
    <3>1. pc[c] # "idle"
      BY <1>20 DEF Contract
    <3>2. \E r \in Record, out \in {Now(c)} : r.status = "prepared" /\ SaveAndLeave(c, r, out)
      BY <1>7, <2>2, <3>1
    <3>. QED BY <1>6, <3>1, <3>2
  <2>. QED BY <1>20, <2>1, <2>2 DEF Contract
<1>21. CASE Perform(c) \/ UndoEffect(c)
  <2>1. /\ UNCHANGED <<record, journal, job>> /\ AtWork(c)
    BY <1>2, <1>21 DEF Perform, UndoEffect, AtWork, CallOK
  <2>. QED BY <1>3, <2>1
<1>22. CASE PerformNote(c)
  <2>1. AtWork(c) /\ pc[c] # "idle" /\ With(c, "executed") \in Record
    BY <1>7, <1>22 DEF PerformNote, AtWork, Recorded
  <2>2. \/ Store(c, With(c, "executed"), Took(job[c]))
        \/ LeaveInDoubt(c, With(c, "executed"), Took(job[c]))
    BY <1>22 DEF PerformNote, SaveAndGoOn
  <2>3. ~AtWork(c)'
    BY <1>5, <1>22 DEF PerformNote, SaveAndGoOn, GoOn, LeaveInDoubt, Goto, AtWork
  <2>. QED BY <1>4, <2>1, <2>2, <2>3
<1>23. CASE NoteUnread(c) \/ UndoUnread(c)
  <2>1. UNCHANGED <<record, journal>> /\ ~AtWork(c)'
    BY <1>23 DEF NoteUnread, UndoUnread, ReadFails, GoOn, Goto, AtWork
  <2>. QED BY <1>3, <2>1
<1> HIDE DEF TypeInv, CallTypeOK, StoreTypeOK
<1>. QED BY <1>8, <1>9, <1>10, <1>11, <1>12, <1>13, <1>14, <1>15, <1>16, <1>17, <1>18, <1>19,
            <1>20, <1>21, <1>22, <1>23 DEF Step

\* Callers work on no more actions than there are callers.
LEMMA JobsAreFew ==
    ASSUME IsFiniteSet(Caller), NEW jobs \in [Caller -> Action \cup {None}]
    PROVE  /\ IsFiniteSet({jobs[d] : d \in Caller})
           /\ Cardinality({jobs[d] : d \in Caller}) <= Cardinality(Caller)
<1> DEFINE T == {jobs[d] : d \in Caller}
<1>1. jobs \in Surjection(Caller, T)
  BY DEF Surjection
<1>. QED BY <1>1, FS_Surjection

\* An invariant that is kept by what adds nothing.
LEMMA FewerAreWithin ==
    ASSUME IsFiniteSet(Caller), NEW k \in Kind, WithinCap(k), Counted(k)' \subseteq Counted(k)
    PROVE  WithinCap(k)'
<1>1. /\ IsFiniteSet(Counted(k)') /\ Cardinality(Counted(k)') <= Cardinality(Counted(k))
      /\ Cardinality(Counted(k)) \in Nat /\ Cardinality(Counted(k)') \in Nat
      /\ Cardinality(Caller) \in Nat /\ Limit[k] \in Nat
  BY FS_Subset, FS_CardinalityType, KindAssumption DEF WithinCap
<1>. QED BY <1>1 DEF WithinCap

\* A caller that passes the limit finds fewer than it recorded, and every other
\* caller may be past it too.
LEMMA PassingIsWithin ==
    ASSUME TypeInv, TypeInv', IsFiniteSet(Caller), NEW c \in Caller, Passes(c), NEW k \in Kind,
           KindOf[job[c]] = k, Limit[k] > 0, IsFiniteSet(Counted(k))
    PROVE  WithinCap(k)'
<1> DEFINE T == {job'[d] : d \in Caller}
<1> DEFINE E == ExecutedToday(k)
<1>1. IsFiniteSet(T) /\ Cardinality(T) <= Cardinality(Caller)
  BY JobsAreFew DEF TypeInv, CallTypeOK
<1>2. Counted(k)' \subseteq E \cup T
  BY DEF Passes, Counted, MayCount, ExecutedToday
<1>3. E \subseteq Counted(k)
  BY DEF ExecutedToday, Counted, MayCount
<1>4. IsFiniteSet(E) /\ Cardinality(E) \in Nat /\ Limit[k] \in Nat
  BY <1>3, FS_Subset, FS_CardinalityType, KindAssumption
<1>5. Cardinality(E) < Limit[k]
  BY <1>4 DEF Passes, CapReached
<1>6. /\ IsFiniteSet(E \cup T) /\ Cardinality(E \cup T) <= Cardinality(E) + Cardinality(T)
      /\ Cardinality(E \cup T) \in Nat /\ Cardinality(T) \in Nat /\ Cardinality(Caller) \in Nat
  <2>1. IsFiniteSet(E \cap T) /\ Cardinality(E \cap T) \in Nat
    BY <1>4, FS_Subset, FS_CardinalityType, Zenon
  <2>2. /\ IsFiniteSet(E \cup T)
        /\ Cardinality(E \cup T) = Cardinality(E) + Cardinality(T) - Cardinality(E \cap T)
    BY <1>1, <1>4, FS_Union, Zenon
  <2>3. Cardinality(E \cup T) \in Nat /\ Cardinality(T) \in Nat /\ Cardinality(Caller) \in Nat
    BY <1>1, <2>2, FS_CardinalityType, Zenon
  <2>4. Cardinality(E) \in Nat
    BY <1>4
  <2> HIDE DEF E, T
  <2>. QED BY <2>1, <2>2, <2>3, <2>4
<1>7. /\ IsFiniteSet(Counted(k)') /\ Cardinality(Counted(k)') <= Cardinality(E \cup T)
      /\ Cardinality(Counted(k)') \in Nat
  BY <1>2, <1>6, FS_Subset, FS_CardinalityType
<1> HIDE DEF E, T
<1>. QED BY <1>1, <1>4, <1>5, <1>6, <1>7 DEF WithinCap

\* Callers read the daily count, act, and only then add to it.  However many of
\* them race, fail, undo or crash, what is recorded as executed passes the limit by
\* no more than the other callers there are.
THEOREM CapIsNearlyKept ==
    ASSUME IsFiniteSet(Caller)
    PROVE  Spec => []CapOvershootBounded
<1>1. Init => CapInv
  <2> SUFFICES ASSUME Init, NEW k \in Kind, Limit[k] > 0 PROVE WithinCap(k)
    BY DEF CapInv
  <2>1. Counted(k) = {}
    BY DEF Init, Counted, MayCount, AtWork, NoRecord
  <2>. QED BY <2>1, FS_EmptySet, FS_CardinalityType, KindAssumption DEF WithinCap
<1>2. ASSUME TypeInv, TypeInv', CallsOK, CapInv, [Next]_vars
      PROVE  CapInv'
  <2> SUFFICES ASSUME NEW k \in Kind, Limit[k] > 0 PROVE WithinCap(k)'
    BY DEF CapInv
  <2>1. WithinCap(k)
    BY <1>2 DEF CapInv
  <2>2. ASSUME \A a \in Action : MayCount(a)' => MayCount(a)
        PROVE  WithinCap(k)'
    BY <2>1, <2>2, FewerAreWithin DEF Counted
  <2>3. ASSUME NEW c \in Caller, Step(c)
        PROVE  WithinCap(k)'
    <3>1. CASE Passes(c) /\ KindOf[job[c]] = k
      BY <1>2, <2>1, <3>1, PassingIsWithin DEF WithinCap
    <3>2. CASE ~(Passes(c) /\ KindOf[job[c]] = k)
      <4>1. Counted(k)' \subseteq Counted(k)
        BY <1>2, <2>3, <3>2, StepCounts DEF Counted
      <4>. QED BY <2>1, <4>1, FewerAreWithin
    <3>. QED BY <3>1, <3>2
  <2>4. CASE RecoverNotes
    BY <1>2, <2>2, <2>4 DEF RecoverNotes, MayCount, AtWork, TypeInv, StoreTypeOK, Doubt
  <2>5. CASE SetAutonomy \/ GrantScope \/ Revoke \/ Drift \/ UNCHANGED vars
    <3>1. UNCHANGED <<record, pc, job, held, journal>>
      BY <2>5 DEF SetAutonomy, GrantScope, Revoke, Drift, Untouching, vars
    <3>. QED BY <2>2, <3>1 DEF MayCount, AtWork
  <2>. QED BY <1>2, <2>3, <2>4, <2>5 DEF Next
<1>3. CapInv => CapOvershootBounded
  <2> SUFFICES ASSUME CapInv, NEW k \in Kind, Limit[k] > 0
               PROVE  Cardinality(ExecutedToday(k)) <= Limit[k] + Cardinality(Caller) - 1
    BY DEF CapOvershootBounded
  <2>1. WithinCap(k) /\ ExecutedToday(k) \subseteq Counted(k)
    BY DEF CapInv, ExecutedToday, Counted, MayCount
  <2>2. /\ Cardinality(ExecutedToday(k)) <= Cardinality(Counted(k))
        /\ Cardinality(ExecutedToday(k)) \in Nat /\ Cardinality(Counted(k)) \in Nat
        /\ Cardinality(Caller) \in Nat /\ Limit[k] \in Nat
    BY <2>1, FS_Subset, FS_CardinalityType, KindAssumption DEF WithinCap
  <2>. QED BY <2>1, <2>2 DEF WithinCap
<1>. QED BY <1>1, <1>2, <1>3, TypeInvariant, CallsInvariant, PTL DEF Spec
=============================================================================
