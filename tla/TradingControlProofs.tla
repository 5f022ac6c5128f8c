------------------------- MODULE TradingControlProofs -------------------------
(***************************************************************************)
(* Proofs about what stands around the trading of orders: the operating    *)
(* mode and the kill switches, which stop an order before it exists, the   *)
(* versions that are deployed, for any number of processes, operators,     *)
(* versions and crashes, and the reconciler, which looks at the orders     *)
(* after the fact.                                                         *)
(***************************************************************************)
EXTENDS ModeControl, TradingGate, DeploymentLedger, Reconciler, ExecutionEngineProofs, TLAPS

-----------------------------------------------------------------------------
(* The operating mode *)

\* The record says what was earned, and an execute() that asks again while live
\* trading is off finds it off.
ModeInv ==
    /\ ModeTypeOK
    /\ earned = IF modeRecord.gates THEN modeRecord.mode ELSE "paper"
    /\ \A p \in Process : control[p].at = "verify" /\ control[p].halted => ~IsLive(earned)
    /\ \A p \in Process : control[p].at = "send" =>
          ~IsLive(control[p].wants) \/ ~control[p].halted

\* A live mode that a process finds in force is one that was earned.
LEMMA CurrentMode ==
    ASSUME ModeInv, NEW p \in Process
    PROVE  /\ Current(p) \in Mode /\ "paper" \in Mode
           /\ IsLive(Current(p)) => p \in Trusted /\ Current(p) = earned
BY DEF ModeInv, ModeTypeOK, Current, Credible, Mode, Rank, IsLive

\* Each step of a process keeps the invariant of the mode.
LEMMA ModeStep ==
    ASSUME ModeInv, NEW p \in Process,
           \/ \E m \in Mode : Request(p, m)
           \/ GatesPass(p) \/ Refuse(p) \/ AuditLive(p) \/ Commit(p)
           \/ ReadMode(p) \/ VerifyMode(p) \/ FinishExecute(p)
    PROVE  ModeInv'
<1> DEFINE Control == [at : Step, wants : Mode, proven : BOOLEAN, halted : BOOLEAN]
<1>. /\ modeRecord \in [mode : Mode, gates : BOOLEAN]
     /\ control \in [Process -> Control]
     /\ earned \in Mode
  BY DEF ModeInv, ModeTypeOK
<1>0. AtRest \in Control
  BY DEF AtRest, Step, Mode, Rank
\* A step of one process that does not write the record.
<1>1. ASSUME NEW r \in Control, Become(p, r), UNCHANGED <<modeRecord, earned>>,
             r.at = "verify" /\ r.halted => ~IsLive(earned),
             r.at = "send" => ~IsLive(r.wants) \/ ~r.halted
      PROVE  ModeInv'
  <2>1. /\ control' \in [Process -> Control] /\ control'[p] = r
        /\ \A q \in Process \ {p} : control'[q] = control[q]
    BY <1>1 DEF Become
  <2> HIDE DEF Control
  <2>2. ModeTypeOK'
    BY <1>1, <2>1 DEF ModeTypeOK, Control
  <2>. QED BY <1>1, <2>1, <2>2 DEF ModeInv
<1>2. ASSUME NEW m \in Mode, Request(p, m)
      PROVE  ModeInv'
  <2>1. PICK at \in {"gates", "audit", "put"} :
          /\ Become(p, [AtRest EXCEPT !.wants = m, !.at = at])
          /\ UNCHANGED <<modeRecord, earned>>
    BY <1>2 DEF Request
  <2> DEFINE r == [AtRest EXCEPT !.wants = m, !.at = at]
  <2>2. r \in Control /\ r.at = at
    BY <1>2 DEF AtRest, Step
  <2>. QED BY <1>1, <2>1, <2>2
<1>3. CASE GatesPass(p) \/ AuditLive(p)
  <2>1. PICK r \in Control :
          /\ r.at \in {"audit", "put"} /\ Become(p, r)
          /\ UNCHANGED <<modeRecord, earned>>
    BY <1>3 DEF GatesPass, AuditLive, Step
  <2>. QED BY <1>1, <2>1
<1>4. CASE Refuse(p) \/ FinishExecute(p)
  <2>1. Become(p, AtRest) /\ UNCHANGED <<modeRecord, earned>> /\ AtRest.at = "idle"
    BY <1>4 DEF Refuse, FinishExecute, AtRest
  <2>. QED BY <1>0, <1>1, <2>1
<1>5. CASE Commit(p)
  <2>1. /\ modeRecord' = [mode |-> control[p].wants, gates |-> control[p].proven]
        /\ earned' = IF control[p].proven THEN control[p].wants ELSE "paper"
        /\ control' = [q \in Process |->
               IF q = p THEN AtRest
               ELSE IF control[q].at = "verify" THEN [control[q] EXCEPT !.halted = ~IsLive(earned')]
               ELSE control[q]]
    BY <1>5 DEF Commit
  <2>2. /\ modeRecord' \in [mode : Mode, gates : BOOLEAN] /\ earned' \in Mode
        /\ earned' = IF modeRecord'.gates THEN modeRecord'.mode ELSE "paper"
    BY <2>1, CurrentMode
  <2>3. \A q \in Process :
          /\ control'[q] \in Control
          /\ control'[q].at = "verify" => control'[q].halted = ~IsLive(earned')
          /\ control'[q].at = "send" => control'[q] = control[q]
    BY <1>0, <2>1 DEF AtRest, IsLive
  <2>4. control' \in [Process -> Control]
    BY <2>1, <2>3
  <2> HIDE DEF Control
  <2>5. ModeTypeOK'
    BY <2>2, <2>4 DEF ModeTypeOK, Control
  <2>. QED BY <2>2, <2>3, <2>5 DEF ModeInv
<1>6. CASE ReadMode(p)
  <2> DEFINE r == [AtRest EXCEPT !.wants = Current(p),
                                 !.at = IF IsLive(Current(p)) THEN "verify" ELSE "send"]
  <2>1. Become(p, r) /\ UNCHANGED <<modeRecord, earned>>
    BY <1>6 DEF ReadMode
  <2>2. /\ r \in Control /\ ~r.halted
    BY CurrentMode DEF AtRest, Step
  <2>. QED BY <1>1, <2>1, <2>2
<1>7. CASE VerifyMode(p)
  <2>1. /\ control[p].at = "verify" /\ UNCHANGED <<modeRecord, earned>>
        /\ Become(p, IF IsLive(Current(p)) THEN [control[p] EXCEPT !.at = "send"] ELSE AtRest)
    BY <1>7 DEF VerifyMode
  <2>2. CASE ~IsLive(Current(p))
    BY <1>0, <1>1, <2>1, <2>2 DEF AtRest
  <2>3. CASE IsLive(Current(p))
    <3>1. ~control[p].halted
      BY <2>1, <2>3, CurrentMode DEF ModeInv
    <3> DEFINE r == [control[p] EXCEPT !.at = "send"]
    <3>2. r \in Control /\ r.at = "send" /\ r.halted = control[p].halted
      BY DEF Step
    <3>. QED BY <1>1, <2>1, <2>3, <3>1, <3>2
  <2>. QED BY <2>2, <2>3
<1>. QED BY <1>2, <1>3, <1>4, <1>5, <1>6, <1>7

\* The invariant of the mode holds in every state.
LEMMA ModeInvariant == ModeSpec => []ModeInv
<1>1. ModeInit => ModeInv
  BY DEF ModeInit, ModeInv, ModeTypeOK, AtRest, Step, Mode, Rank, IsLive
<1>2. ModeInv /\ [ModeNext]_modeVars => ModeInv'
  <2>1. CASE UNCHANGED modeVars
    BY <2>1 DEF modeVars, ModeInv, ModeTypeOK
  <2>. QED BY <2>1, ModeStep DEF ModeNext
<1>. QED BY <1>1, <1>2, PTL DEF ModeSpec

\* No process finds a live mode in force but the one that the last request to
\* write the record passed every gate for, and only if it holds the token.
THEOREM LiveModesAreEarned == ModeSpec => []LiveIsEarned
<1>1. ModeInv => LiveIsEarned
  BY CurrentMode DEF LiveIsEarned
<1>. QED BY <1>1, ModeInvariant, PTL

\* Live trading that is called off before an execute() asks its second question
\* stops that order, whichever process calls it off.
THEOREM CallingOffStopsOrders == ModeSpec => []StopBeatsExecute
<1>1. ModeInv => StopBeatsExecute
  BY DEF ModeInv, StopBeatsExecute
<1>. QED BY <1>1, ModeInvariant, PTL

-----------------------------------------------------------------------------
(* The kill switches and the halt of the strategy *)

Halt == Scope \cup {"status"}

\* The scopes that the pass has yet to ask about at its present stage.
YetToRead == {pass.reads[i] : i \in DOMAIN pass.reads}

\* A halt that has stood since the pass could see it still stands, and there is
\* a question before the order that will find it.
HaltInv ==
    /\ GateTypeOK
    /\ strategy.status = "enabled" => "status" \notin standing
    /\ \A s \in Scope : s \in standing => Engaged(s)
    /\ pass.at \in {"idle", "killswitch", "strategies", "active"} => standing \subseteq {"status"}
    /\ pass.at \in {"active", "risk", "execute"} => "status" \notin standing
    /\ pass.at = "risk" => standing \subseteq YetToRead
    /\ pass.at = "execute" => standing = {}

\* What is left to read of a sequence is its head and the rest.
LEMMA HeadAndTail ==
    ASSUME NEW S, NEW seq \in Seq(S), seq # <<>>
    PROVE  /\ Tail(seq) \in Seq(S) /\ Head(seq) \in S
           /\ \A i \in DOMAIN seq :
                 seq[i] = Head(seq) \/ \E j \in DOMAIN Tail(seq) : Tail(seq)[j] = seq[i]
<1>1. ASSUME NEW i \in DOMAIN seq, i # 1
      PROVE  i - 1 \in DOMAIN Tail(seq) /\ Tail(seq)[i - 1] = seq[i]
  BY <1>1
<1>2. Tail(seq) \in Seq(S) /\ Head(seq) \in S /\ Head(seq) = seq[1]
  OBVIOUS
<1>3. ASSUME NEW i \in DOMAIN seq
      PROVE  seq[i] = Head(seq) \/ \E j \in DOMAIN Tail(seq) : Tail(seq)[j] = seq[i]
  BY <1>1, <1>2
<1>. QED BY <1>2, <1>3

\* What the operators do to the switches, the strategy and their own calls.
LEMMA OperatorTypes ==
    ASSUME GateTypeOK, OperatorStep
    PROVE  /\ switch' \in [Scope -> Setting]
           /\ strategy' \in [status : {"enabled", "paused", "disabled"}, halted : BOOLEAN]
           /\ lift' \in [Operator -> Lift \cup {NoLift}]
           /\ tripped' \subseteq Scope
           /\ pass' = pass
<1>1. \A h \in Halt : Overtake(h) \in [Operator -> Lift \cup {NoLift}]
  <2>1. ASSUME NEW h \in Halt, NEW o \in Operator, lift[o].of = h
        PROVE  [lift[o] EXCEPT !.overtaken = TRUE] \in Lift
    <3>1. lift[o] \in Lift
      BY <2>1, LiftAssumption DEF GateTypeOK, NoLift, Halt
    <3>. QED BY <3>1 DEF Lift
  <2>. QED BY <2>1 DEF Overtake, GateTypeOK
<1>2. ASSUME NEW s \in Scope, NEW auto \in BOOLEAN, Engage(s, auto)
      PROVE  /\ switch' \in [Scope -> Setting] /\ lift' \in [Operator -> Lift \cup {NoLift}]
             /\ tripped' \subseteq Scope
  BY <1>1, <1>2 DEF Engage, GateTypeOK, Setting, Halt
<1>3. ASSUME NEW h \in Halt, NEW override \in BOOLEAN
      PROVE  \A masked \in BOOLEAN : Lifting(h, override, masked) \in Lift
  BY DEF Lifting, Lift, Halt
<1>4. CASE \E s \in Scope, auto \in BOOLEAN : Engage(s, auto)
  BY <1>2, <1>4 DEF Engage, GateTypeOK
<1>5. CASE \E o \in Operator, s \in Scope, override \in BOOLEAN : Disengage(o, s, override)
  <2>1. PICK o \in Operator, s \in Scope, override \in BOOLEAN : Disengage(o, s, override)
    BY <1>5
  <2>2. Masked(s) \in BOOLEAN /\ s \in Halt
    BY DEF Masked, Halt
  <2>3. Lifting(s, override, Masked(s)) \in Lift
    BY <1>3, <2>2
  <2>. QED BY <2>1, <2>3 DEF Disengage, GateTypeOK
<1>6. CASE \E o \in Operator, override \in BOOLEAN : Enable(o, override)
  <2>1. "status" \in Halt
    BY DEF Halt
  <2>2. \A override \in BOOLEAN : Lifting("status", override, FALSE) \in Lift
    BY <1>3, <2>1
  <2>. QED BY <1>6, <2>2 DEF Enable, GateTypeOK
<1>7. CASE \E o \in Operator : WriteDisengaged(o)
  BY <1>7 DEF WriteDisengaged, GateTypeOK, Setting
<1>10. CASE \E o \in Operator : TransitionEnabled(o)
  <2>1. [status |-> "enabled", halted |-> FALSE] \in
            [status : {"enabled", "paused", "disabled"}, halted : BOOLEAN]
    OBVIOUS
  <2>. QED BY <1>10, <2>1 DEF TransitionEnabled, GateTypeOK
<1>8. CASE \E status \in {"paused", "disabled"} : Suspend(status)
  BY <1>8 DEF Suspend, GateTypeOK
<1>9. CASE DrawdownHalt
  BY <1>1, <1>9 DEF DrawdownHalt, GateTypeOK, Halt
<1>. QED BY <1>4, <1>5, <1>6, <1>7, <1>8, <1>9, <1>10 DEF OperatorStep

\* A halt leaves the history when it is lifted, and only then is it gone.
LEMMA OperatorKeepsHalts ==
    ASSUME HaltInv, OperatorStep
    PROVE  /\ standing' \subseteq standing
           /\ \A s \in Scope : s \in standing' => Engaged(s)'
           /\ strategy'.status = "enabled" => "status" \notin standing'
<1>1. CASE \E s \in Scope, auto \in BOOLEAN : Engage(s, auto)
  BY <1>1 DEF HaltInv, GateTypeOK, Engage, Engaged
<1>2. CASE \E o \in Operator, s \in Scope, override \in BOOLEAN : Disengage(o, s, override)
  BY <1>2 DEF HaltInv, Disengage, Engaged
<1>3. CASE \E o \in Operator, override \in BOOLEAN : Enable(o, override)
  BY <1>3 DEF HaltInv, Enable, Engaged
<1>4. CASE \E o \in Operator : WriteDisengaged(o) \/ TransitionEnabled(o)
  BY <1>4 DEF HaltInv, GateTypeOK, WriteDisengaged, TransitionEnabled, Engaged
<1>5. CASE \E status \in {"paused", "disabled"} : Suspend(status)
  BY <1>5 DEF HaltInv, GateTypeOK, Suspend, Engaged
<1>6. CASE DrawdownHalt
  BY <1>6 DEF HaltInv, GateTypeOK, DrawdownHalt, Engaged
<1>. QED BY <1>1, <1>2, <1>3, <1>4, <1>5, <1>6 DEF OperatorStep

\* What operators do is within what the pass still has to read.
LEMMA OperatorStepKeepsHaltInv ==
    ASSUME HaltInv, OperatorStep
    PROVE  HaltInv'
<1>1. GateTypeOK'
  BY OperatorTypes, OperatorKeepsHalts DEF HaltInv, GateTypeOK
<1>2. YetToRead' = YetToRead /\ pass' = pass
  BY OperatorTypes DEF HaltInv, YetToRead
<1>. QED BY <1>1, <1>2, OperatorKeepsHalts DEF HaltInv

\* What the pass has read was not engaged then, and what has been since is counted.
LEMMA PassStepKeepsHaltInv ==
    ASSUME HaltInv, PassStep
    PROVE  HaltInv'
<1>1. UNCHANGED <<switch, strategy, lift, tripped>> /\ \A s \in Scope : Engaged(s)' <=> Engaged(s)
  BY DEF PassStep, Begin, ReadSwitch, EndPass, CollectSignals, ReadStatus, Propose, Approve,
         SendOrder, PassFrame, Engaged
\* It is enough to look at the pass and the history.
<1>2. ASSUME pass' \in [at : Stage, reads : Seq(Scope)],
             standing' \subseteq Scope \cup {"status"},
             strategy.status = "enabled" => "status" \notin standing',
             \A s \in Scope : s \in standing' => Engaged(s),
             pass'.at \in {"idle", "killswitch", "strategies", "active"} => standing' \subseteq {"status"},
             pass'.at \in {"active", "risk", "execute"} => "status" \notin standing',
             pass'.at = "risk" => standing' \subseteq YetToRead',
             pass'.at = "execute" => standing' = {}
      PROVE  HaltInv'
  <2>1. GateTypeOK'
    BY <1>1, <1>2 DEF HaltInv, GateTypeOK
  <2>. QED BY <1>1, <1>2, <2>1 DEF HaltInv
<1>3. <<>> \in Seq(Scope)
  OBVIOUS
<1>4. CASE Stop
  BY <1>2, <1>3, <1>4 DEF Stop, Resting, Stage
<1>5. CASE Begin
  <2> DEFINE scopes == <<"global", "instrument">>
  <2>1. scopes \in Seq(Scope)
    BY DEF Scope
  <2>2. /\ pass' = [at |-> "killswitch", reads |-> scopes]
        /\ standing' = IF strategy.status = "enabled" THEN {} ELSE {"status"}
    BY <1>5 DEF Begin, Ask
  <2> HIDE DEF scopes
  <2>. QED BY <1>2, <2>1, <2>2 DEF Stage, Scope
<1>6. CASE ReadSwitch
  <2>1. CASE Engaged(Head(pass.reads))
    BY <1>4, <1>6, <2>1 DEF ReadSwitch
  <2>2. CASE ~Engaged(Head(pass.reads))
    <3>1. /\ pass.reads \in Seq(Scope) /\ pass.reads # <<>> /\ pass.at \in Stage
          /\ pass' = [pass EXCEPT !.reads = Tail(@)] /\ standing' = standing
      BY <1>6, <2>2 DEF ReadSwitch, HaltInv, GateTypeOK
    <3>2. pass' \in [at : Stage, reads : Seq(Scope)]
          /\ pass'.at = pass.at /\ pass'.reads = Tail(pass.reads)
      BY <3>1, HeadAndTail DEF HaltInv, GateTypeOK
    <3>3. Head(pass.reads) \notin standing
      BY <2>2, <3>1, HeadAndTail DEF HaltInv
    <3>4. \A s \in YetToRead : s = Head(pass.reads) \/ s \in YetToRead'
      BY <3>1, <3>2, HeadAndTail DEF YetToRead
    <3>. QED BY <1>2, <3>1, <3>2, <3>3, <3>4 DEF HaltInv, GateTypeOK
  <2>. QED BY <2>1, <2>2
<1>7. CASE CollectSignals
  BY <1>2, <1>3, <1>7 DEF CollectSignals, Asked, Ask, Stage, HaltInv, GateTypeOK
<1>8. CASE ReadStatus
  <2> DEFINE scopes == <<"global", "strategy">>
  <2>1. scopes \in Seq(Scope)
    BY DEF Scope
  <2>2. \/ Stop
        \/ /\ strategy.status = "enabled" /\ pass.at = "strategies"
           /\ pass' = [at |-> "active", reads |-> scopes] /\ standing' = standing
    BY <1>8 DEF ReadStatus, Asked, Ask
  <2> HIDE DEF scopes
  <2>. QED BY <1>2, <1>4, <2>1, <2>2 DEF Stage, HaltInv, GateTypeOK
<1>9. CASE Propose
  <2> DEFINE scopes == <<"global", "strategy", "instrument">>
  <2>1. scopes \in Seq(Scope) /\ Scope \subseteq {scopes[i] : i \in DOMAIN scopes}
    <3>1. DOMAIN scopes = 1 .. 3
      OBVIOUS
    <3>. QED BY <3>1 DEF Scope
  <2>2. /\ pass.at = "active" /\ pass' = [at |-> "risk", reads |-> scopes]
        /\ standing' = standing \cup {s \in Scope : Engaged(s)}
    BY <1>9 DEF Propose, Asked, Ask
  <2>3. YetToRead' = {scopes[i] : i \in DOMAIN scopes}
    BY <2>2 DEF YetToRead
  <2> HIDE DEF scopes
  <2>4. standing = {} /\ "status" \notin Scope
    BY <2>2 DEF HaltInv, Scope
  <2>. QED BY <1>2, <2>1, <2>2, <2>3, <2>4 DEF Stage
<1>10. CASE Approve
  <2>1. standing = {}
    BY <1>10 DEF Approve, Asked, HaltInv, YetToRead
  <2>. QED BY <1>2, <1>3, <1>10, <2>1 DEF Approve, Ask, Stage
<1>. QED BY <1>4, <1>5, <1>6, <1>7, <1>8, <1>9, <1>10 DEF PassStep, EndPass, SendOrder

\* No switch stands at the start.
LEMMA HaltInit == GateInit => HaltInv
<1>1. GateInit => pass \in [at : Stage, reads : Seq(Scope)] /\ pass.at = "idle"
  BY DEF GateInit, Resting, Stage
<1>. QED BY <1>1 DEF GateInit, HaltInv, GateTypeOK, Setting

\* The invariant of the switches holds in every state.
LEMMA HaltInvariant == GateSpec => []HaltInv
<1>1. HaltInv /\ UNCHANGED gateVars => HaltInv'
  BY DEF gateVars, HaltInv, GateTypeOK, YetToRead, Engaged
<1>. QED BY <1>1, HaltInit, PassStepKeepsHaltInv, OperatorStepKeepsHaltInv, PTL DEF GateSpec, GateNext

\* No order goes out under a switch that has stood since the intent was put to
\* risk, or for a strategy that was not enabled at any moment of the pass,
\* whatever operators and rules do between the questions.
THEOREM HaltsComeFirst == GateSpec => []HaltsStopOrders
<1>1. HaltInv => HaltsStopOrders
  BY DEF HaltInv, HaltsStopOrders
<1>. QED BY <1>1, HaltInvariant, PTL

\* A call that is about to lift a halt was given an override, passed its check
\* before the halt fell, or, for a scope, found the trip hidden by a manual switch;
\* and a scope that has been tripped stays stopped until it is lifted.
CheckedInv ==
    /\ GateTypeOK
    /\ \A s \in tripped : Engaged(s)
    /\ \A o \in Operator :
          \/ lift[o].override \/ lift[o].overtaken
          \/ /\ lift[o].of \in tripped => lift[o].masked
             /\ lift[o].of = "status" => ~strategy.halted

\* Of a call that is overtaken only that changes.
LEMMA Overtaken ==
    ASSUME GateTypeOK, NEW h \in Halt, NEW o \in Operator
    PROVE  /\ Overtake(h)[o].of = lift[o].of
           /\ Overtake(h)[o].override = lift[o].override
           /\ Overtake(h)[o].masked = lift[o].masked
           /\ lift[o].overtaken \/ lift[o].of = h => Overtake(h)[o].overtaken
<1>1. lift[o] \in Lift \cup {NoLift}
  BY DEF GateTypeOK
<1>2. Overtake(h)[o] = IF lift[o].of = h THEN [lift[o] EXCEPT !.overtaken = TRUE] ELSE lift[o]
  BY DEF Overtake
<1>3. CASE lift[o].of = h
  BY <1>1, <1>2, <1>3 DEF Lift, NoLift
<1>4. CASE lift[o].of # h
  BY <1>2, <1>4
<1>. QED BY <1>3, <1>4

\* What an operator has checked is no halt that a rule made, or was overtaken by
\* one, or was hidden from the check.
LEMMA OperatorStepKeepsChecked ==
    ASSUME CheckedInv, OperatorStep, NEW o \in Operator
    PROVE  \/ lift'[o].override \/ lift'[o].overtaken
           \/ /\ lift'[o].of \in tripped' => lift'[o].masked
              /\ lift'[o].of = "status" => ~strategy'.halted
<1>1. /\ GateTypeOK /\ lift[o] \in Lift \cup {NoLift} /\ tripped \subseteq Scope
      /\ switch \in [Scope -> Setting] /\ lift \in [Operator -> Lift \cup {NoLift}]
      /\ "status" \notin Scope /\ Scope \subseteq Halt /\ "status" \in Halt
      /\ \A h \in Halt : NoLift.of # h
  BY LiftAssumption DEF CheckedInv, GateTypeOK, Scope, Halt, NoLift
<1>2. CASE \E s \in Scope, auto \in BOOLEAN : Engage(s, auto)
  <2>1. PICK s \in Scope, auto \in BOOLEAN : Engage(s, auto)
    BY <1>2
  <2>2. CASE auto
    <3>1. lift' = Overtake(s) /\ tripped' = tripped \cup {s} /\ strategy' = strategy
      BY <2>1, <2>2 DEF Engage
    <3>2. /\ lift'[o].of = lift[o].of /\ lift'[o].override = lift[o].override
          /\ lift'[o].masked = lift[o].masked
          /\ lift[o].overtaken \/ lift[o].of = s => lift'[o].overtaken
      BY <1>1, <3>1, Overtaken
    <3>. QED BY <3>1, <3>2 DEF CheckedInv
  <2>3. CASE ~auto
    BY <1>1, <2>1, <2>3 DEF CheckedInv, Engage
  <2>. QED BY <2>2, <2>3
<1>3. CASE \E q \in Operator, s \in Scope, override \in BOOLEAN : Disengage(q, s, override)
  <2>1. PICK q \in Operator, s \in Scope, override \in BOOLEAN : Disengage(q, s, override)
    BY <1>3
  <2>2. CASE q = o
    <3>1. /\ lift'[o] = Lifting(s, override, Masked(s))
          /\ switch[s] = "auto" => override
          /\ tripped' = tripped
      BY <1>1, <2>1, <2>2 DEF Disengage
    <3>2. ASSUME s \in tripped, switch[s] # "auto"
          PROVE  Masked(s)
      BY <1>1, <3>2 DEF CheckedInv, Engaged, Masked, Setting
    <3>. QED BY <1>1, <3>1, <3>2 DEF Lifting
  <2>3. CASE q # o
    BY <1>1, <2>1, <2>3 DEF CheckedInv, Disengage
  <2>. QED BY <2>2, <2>3
<1>4. CASE \E q \in Operator, override \in BOOLEAN : Enable(q, override)
  <2>1. PICK q \in Operator, override \in BOOLEAN : Enable(q, override)
    BY <1>4
  <2>2. CASE q = o
    BY <1>1, <2>1, <2>2 DEF Enable, Lifting
  <2>3. CASE q # o
    BY <1>1, <2>1, <2>3 DEF CheckedInv, Enable
  <2>. QED BY <2>2, <2>3
<1>5. CASE \E q \in Operator : WriteDisengaged(q)
  <2>1. PICK q \in Operator : WriteDisengaged(q)
    BY <1>5
  <2>2. lift'[o] = IF q = o THEN NoLift ELSE lift[o]
    BY <1>1, <2>1 DEF WriteDisengaged
  <2>3. tripped' \subseteq tripped /\ strategy' = strategy
    BY <2>1 DEF WriteDisengaged
  <2>4. NoLift.of \notin tripped /\ NoLift.of # "status"
    BY <1>1
  <2>. QED BY <2>2, <2>3, <2>4 DEF CheckedInv
<1>6. CASE \E q \in Operator : TransitionEnabled(q)
  <2>1. PICK q \in Operator : TransitionEnabled(q)
    BY <1>6
  <2>2. lift'[o] = IF q = o THEN NoLift ELSE lift[o]
    BY <1>1, <2>1 DEF TransitionEnabled
  <2>3. tripped' = tripped /\ strategy'.halted = FALSE
    BY <2>1 DEF TransitionEnabled
  <2>4. NoLift.of \notin tripped
    BY <1>1
  <2>. QED BY <2>2, <2>3, <2>4 DEF CheckedInv
<1>7. CASE \E status \in {"paused", "disabled"} : Suspend(status)
  BY <1>7 DEF CheckedInv, GateTypeOK, Suspend
<1>8. CASE DrawdownHalt
  <2>1. lift' = Overtake("status") /\ tripped' = tripped
    BY <1>8 DEF DrawdownHalt
  <2>2. /\ lift'[o].of = lift[o].of /\ lift'[o].override = lift[o].override
        /\ lift'[o].masked = lift[o].masked
        /\ lift[o].overtaken \/ lift[o].of = "status" => lift'[o].overtaken
    BY <1>1, <2>1, Overtaken
  <2>. QED BY <2>1, <2>2 DEF CheckedInv
<1>. QED BY <1>2, <1>3, <1>4, <1>5, <1>6, <1>7, <1>8 DEF OperatorStep

\* A scope that has been tripped is stopped until somebody lifts it.
LEMMA OperatorStepKeepsTrips ==
    ASSUME CheckedInv, OperatorStep, NEW s \in tripped'
    PROVE  Engaged(s)'
<1>1. /\ switch \in [Scope -> Setting] /\ tripped \subseteq Scope
      /\ \A c \in tripped : Engaged(c)
  BY DEF CheckedInv, GateTypeOK
<1>2. CASE \E c \in Scope, auto \in BOOLEAN : Engage(c, auto)
  BY <1>1, <1>2 DEF Engage, Engaged
<1>3. CASE \E q \in Operator : WriteDisengaged(q)
  BY <1>1, <1>3 DEF WriteDisengaged, Engaged
<1>4. CASE UNCHANGED <<switch, tripped>>
  BY <1>1, <1>4 DEF Engaged
<1>. QED BY <1>2, <1>3, <1>4 DEF OperatorStep, Disengage, Enable, TransitionEnabled, Suspend, DrawdownHalt

\* What operators have checked holds in every state.
LEMMA CheckedInvariant == GateSpec => []CheckedInv
<1>1. GateInit => CheckedInv
  <2>1. GateInit => HaltInv
    BY HaltInit
  <2>. QED BY <2>1 DEF GateInit, HaltInv, CheckedInv
<1>2. HaltInv' /\ CheckedInv /\ [GateNext]_gateVars => CheckedInv'
  <2> SUFFICES ASSUME HaltInv', CheckedInv, [GateNext]_gateVars
               PROVE  CheckedInv'
    OBVIOUS
  <2>1. GateTypeOK'
    BY DEF HaltInv
  <2>2. CASE OperatorStep
    BY <2>1, <2>2, OperatorStepKeepsChecked, OperatorStepKeepsTrips DEF CheckedInv
  <2>3. CASE PassStep
    <3>1. UNCHANGED <<switch, strategy, lift, tripped>>
      BY <2>3 DEF PassStep, Begin, ReadSwitch, EndPass, CollectSignals, ReadStatus, Propose,
             Approve, SendOrder, PassFrame
    <3>. QED BY <2>1, <3>1 DEF CheckedInv, Engaged
  <2>4. CASE UNCHANGED gateVars
    BY <2>1, <2>4 DEF gateVars, CheckedInv, Engaged
  <2>. QED BY <2>2, <2>3, <2>4 DEF GateNext
<1>. QED BY <1>1, <1>2, HaltInvariant, PTL DEF GateSpec

\* For any number of operators whose calls overlap, whoever lifts the halt of a
\* strategy, or a scope that a rule has stopped and nobody has lifted since, was
\* given an override or made the check before the halt fell; or, for a scope,
\* found the trip hidden by an operator who had engaged the switch again, which
\* is the one way around the override that engage() leaves open.
THEOREM AutomaticHaltsAreKept == GateSpec => AutomaticHaltsHold
<1>1. ASSUME CheckedInv, [GateNext]_gateVars
      PROVE  [ /\ \A s \in tripped :
                     switch'[s] = "off" => LiftedProperly(s) \/ LiftedMasked(s)
               /\ strategy.halted /\ ~strategy'.halted => LiftedProperly("status") ]_gateVars
  <2>1. /\ lift \in [Operator -> Lift \cup {NoLift}] /\ switch \in [Scope -> Setting]
        /\ tripped \subseteq Scope /\ \A s \in tripped : switch[s] # "off"
    BY <1>1 DEF CheckedInv, GateTypeOK, Engaged
  <2>2. CASE \E o \in Operator : WriteDisengaged(o)
    <3>1. PICK o \in Operator : WriteDisengaged(o)
      BY <2>2
    <3>2. /\ lift'[o] = NoLift /\ strategy' = strategy
          /\ \A s \in Scope : switch'[s] = IF s = lift[o].of THEN "off" ELSE switch[s]
      BY <2>1, <3>1 DEF WriteDisengaged
    <3>3. ASSUME NEW s \in tripped, switch'[s] = "off"
          PROVE  LiftedProperly(s) \/ LiftedMasked(s)
      <4>1. lift[o].of = s
        BY <2>1, <3>2, <3>3
      <4>2. lift[o].override \/ lift[o].overtaken \/ lift[o].masked
        BY <1>1, <4>1 DEF CheckedInv
      <4>. QED BY <3>2, <4>1, <4>2 DEF LiftedProperly, LiftedMasked
    <3>. QED BY <3>2, <3>3
  <2>3. CASE \E o \in Operator : TransitionEnabled(o)
    BY <1>1, <2>1, <2>3 DEF CheckedInv, TransitionEnabled, LiftedProperly
  <2>4. CASE \E s \in Scope, auto \in BOOLEAN : Engage(s, auto)
    BY <2>1, <2>4 DEF Engage
  <2>5. CASE \E status \in {"paused", "disabled"} : Suspend(status)
    BY <1>1, <2>1, <2>5 DEF CheckedInv, GateTypeOK, Suspend
  <2>6. CASE DrawdownHalt
    BY <2>1, <2>6 DEF DrawdownHalt
  <2>7. CASE UNCHANGED <<switch, strategy>>
    BY <2>1, <2>7
  <2>8. ASSUME ~UNCHANGED gateVars, ~UNCHANGED <<switch, strategy>>
        PROVE  \/ \E o \in Operator : WriteDisengaged(o) \/ TransitionEnabled(o)
               \/ \E s \in Scope, auto \in BOOLEAN : Engage(s, auto)
               \/ \E status \in {"paused", "disabled"} : Suspend(status)
               \/ DrawdownHalt
    BY <1>1, <2>8 DEF GateNext, OperatorStep, Disengage, Enable, PassStep, Begin, ReadSwitch,
           EndPass, CollectSignals, ReadStatus, Propose, Approve, SendOrder, PassFrame
  <2>. QED BY <2>2, <2>3, <2>4, <2>5, <2>6, <2>7, <2>8
<1>. QED BY <1>1, CheckedInvariant, PTL DEF GateSpec, AutomaticHaltsHold

-----------------------------------------------------------------------------
(* Deployments *)

\* The versions a rollback may still leave or restore.
Live == {d \in Deployment : deployed[d].state \in {"active", "superseded"}}

\* What a live version replaced is superseded, and no other live version
\* replaced it: the versions one can retreat to form a chain.
RetreatsLineUp ==
    /\ \A d \in Live : deployed[d].previous # NoDeployment =>
          deployed[deployed[d].previous].state = "superseded"
    /\ \A c, d \in Live :
          deployed[c].previous = deployed[d].previous /\ deployed[c].previous # NoDeployment => c = d

\* Nobody live replaced the version this change is about.
Unclaimed(p) == \A d \in Live : deployed[d].previous # p

\* What the holder of the lock relies on between its read and its last write.
ChangeOK ==
    /\ change.at = "settled" => change = Settled
    /\ change.at \in {"supersede", "activate"} =>
          change.of \in Deployment /\ deployed[change.of].state = "absent"
    /\ change.at = "supersede" =>
          change.previous \in Deployment /\ deployed[change.previous].state = "active"
    /\ change.at \in {"activate", "restore"} => Active = {}
    /\ change.at = "activate" /\ change.previous # NoDeployment =>
          deployed[change.previous].state = "superseded" /\ Unclaimed(change.previous)
    /\ change.at = "retreat" =>
          /\ change.of \in Active
          /\ change.previous \in Deployment /\ change.previous = deployed[change.of].previous
    /\ change.at = "restore" =>
          /\ change.previous \in Deployment
          /\ deployed[change.previous].state = "superseded" /\ Unclaimed(change.previous)

LedgerInv == LedgerTypeOK /\ OneActive /\ RetreatsLineUp /\ ChangeOK

-----------------------------------------------------------------------------
(* The inductive invariant *)

\* The ledger starts with nothing deployed.
LEMMA LedgerInvInit == LedgerInit => LedgerInv
BY NoDeploymentAssumption
   DEF LedgerInit, LedgerInv, LedgerTypeOK, OneActive, RetreatsLineUp, ChangeOK, Live, Active,
       Settled, State

\* A call reads under the lock and writes nothing yet.
LEMMA DeployKeeps ==
    ASSUME LedgerInv, NEW d \in Deployment, Deploy(d)
    PROVE  LedgerInv'
BY NoDeploymentAssumption
   DEF Deploy, LedgerInv, LedgerTypeOK, OneActive, RetreatsLineUp, ChangeOK, Live, Active,
       Unclaimed, Settled, State

\* The start of a rollback keeps the invariant.
LEMMA RollbackKeeps ==
    ASSUME LedgerInv, Rollback
    PROVE  LedgerInv'
BY NoDeploymentAssumption
   DEF Rollback, Previous, LedgerInv, LedgerTypeOK, OneActive, RetreatsLineUp, ChangeOK, Live,
       Active, Unclaimed, Settled, State

\* The active version steps down; nobody live has replaced it.
LEMMA SupersedeKeeps ==
    ASSUME LedgerInv, Supersede
    PROVE  LedgerInv'
<1> USE NoDeploymentAssumption
    DEF Supersede, Mark, Write, Then, LedgerInv, LedgerTypeOK, Live, Active, Settled, State
<1>1. LedgerTypeOK'
  OBVIOUS
<1>2. Active' = {} /\ Unclaimed(change.previous)
  BY DEF OneActive, RetreatsLineUp, ChangeOK, Unclaimed
<1>3. Live' = Live /\ \A d \in Deployment : deployed'[d].previous = deployed[d].previous
  BY DEF ChangeOK
<1>4. RetreatsLineUp'
  BY <1>3 DEF RetreatsLineUp, ChangeOK
<1>5. ChangeOK'
  BY <1>2, <1>3 DEF ChangeOK, Unclaimed
<1>. QED BY <1>1, <1>2, <1>4, <1>5 DEF OneActive

\* The new version claims the one it replaced.
LEMMA ActivateKeeps ==
    ASSUME LedgerInv, Activate
    PROVE  LedgerInv'
<1> USE NoDeploymentAssumption
    DEF Activate, Write, LedgerInv, LedgerTypeOK, Live, Active, Settled, State
<1>1. LedgerTypeOK'
  OBVIOUS
<1>2. Active' = {change.of} /\ Live' = Live \cup {change.of}
  BY DEF ChangeOK
<1>3. RetreatsLineUp'
  BY <1>2 DEF RetreatsLineUp, ChangeOK, Unclaimed
<1>4. ChangeOK'
  BY DEF ChangeOK
<1>. QED BY <1>1, <1>2, <1>3, <1>4 DEF OneActive

\* The active version is given up; what it had replaced is free.
LEMMA RetreatKeeps ==
    ASSUME LedgerInv, Retreat
    PROVE  LedgerInv'
<1> USE NoDeploymentAssumption
    DEF Retreat, Mark, Write, Then, LedgerInv, LedgerTypeOK, Live, Active, Settled, State
<1>1. LedgerTypeOK'
  OBVIOUS
<1>2. Active' = {} /\ Live' = Live \ {change.of}
  BY DEF OneActive, ChangeOK
<1>3. RetreatsLineUp'
  BY <1>2 DEF RetreatsLineUp, ChangeOK
<1>4. ChangeOK'
  BY <1>2 DEF RetreatsLineUp, ChangeOK, Unclaimed
<1>. QED BY <1>1, <1>2, <1>3, <1>4 DEF OneActive

\* The version that is restored is the only active one.
LEMMA RestoreKeeps ==
    ASSUME LedgerInv, Restore
    PROVE  LedgerInv'
<1> USE NoDeploymentAssumption
    DEF Restore, Mark, Write, LedgerInv, LedgerTypeOK, Live, Active, Settled, State
<1>1. LedgerTypeOK'
  OBVIOUS
<1>2. Active' = {change.previous} /\ Live' = Live
  BY DEF ChangeOK
<1>3. RetreatsLineUp'
  BY <1>2 DEF RetreatsLineUp, ChangeOK, Unclaimed
<1>4. ChangeOK'
  BY DEF ChangeOK
<1>. QED BY <1>1, <1>2, <1>3, <1>4 DEF OneActive

\* The invariant of the ledger of versions is inductive.
LEMMA LedgerInvNext == LedgerInv /\ [LedgerNext]_ledgerVars => LedgerInv'
<1> SUFFICES ASSUME LedgerInv, [LedgerNext]_ledgerVars PROVE LedgerInv'
  OBVIOUS
<1>1. CASE Die
  BY <1>1 DEF Die, LedgerInv, LedgerTypeOK, OneActive, RetreatsLineUp, ChangeOK, Live, Active,
              Settled
<1>2. CASE UNCHANGED ledgerVars
  BY <1>2 DEF ledgerVars, LedgerInv, LedgerTypeOK, OneActive, RetreatsLineUp, ChangeOK, Live,
              Active, Unclaimed
<1>. QED
  BY <1>1, <1>2, DeployKeeps, RollbackKeeps, SupersedeKeeps, ActivateKeeps, RetreatKeeps,
     RestoreKeeps DEF LedgerNext

\* The invariant of the ledger of versions holds in every state.
LEMMA LedgerInvariant == LedgerSpec => []LedgerInv
BY LedgerInvInit, LedgerInvNext, PTL DEF LedgerSpec

-----------------------------------------------------------------------------
(* What the records keep through any calls and crashes *)

\* Whatever calls, refusals and crashes, at most one version is active, and the
\* records keep their types (deploy() and rollback() of rollback.py).
THEOREM NeverTwoActive == LedgerSpec => [](LedgerTypeOK /\ OneActive)
<1>1. LedgerInv => LedgerTypeOK /\ OneActive
  BY DEF LedgerInv
<1>. QED BY <1>1, LedgerInvariant, PTL

\* No step takes a version back that was retreated from: a deployment is of an
\* id that is not known, and a rollback goes where only superseded versions are
\* ("rollback that cannot overshoot").
THEOREM RetreatIsFinal == LedgerSpec => RolledBackStaysBack
<1>1. LedgerInv /\ [LedgerNext]_ledgerVars =>
        [\A d \in Deployment :
            deployed[d].state = "rolled_back" => deployed'[d].state = "rolled_back"]_ledgerVars
  <2> SUFFICES ASSUME LedgerInv, [LedgerNext]_ledgerVars, NEW d \in Deployment,
                      deployed[d].state = "rolled_back"
               PROVE  deployed'[d].state = "rolled_back"
    OBVIOUS
  <2>1. CASE Supersede
    BY <2>1 DEF Supersede, Mark, Write, LedgerInv, LedgerTypeOK, ChangeOK
  <2>2. CASE Activate
    BY <2>2 DEF Activate, Write, LedgerInv, LedgerTypeOK, ChangeOK
  <2>3. CASE Retreat
    BY <2>3 DEF Retreat, Mark, Write, LedgerInv, LedgerTypeOK, ChangeOK
  <2>4. CASE Restore
    BY <2>4 DEF Restore, Mark, Write, LedgerInv, LedgerTypeOK, ChangeOK
  <2>5. CASE UNCHANGED deployed
    BY <2>5
  <2>. QED BY <2>1, <2>2, <2>3, <2>4, <2>5 DEF LedgerNext, Deploy, Rollback, Die, ledgerVars
<1>. QED BY <1>1, LedgerInvariant, PTL DEF LedgerSpec, RolledBackStaysBack

-----------------------------------------------------------------------------
(* The reconciler: what the venue traded *)

\* The quantity of each fill with the sign of its side, as a weight.
FillNet == [f \in Fill |-> Signed(f)]

\* What the venue filled of each order, with the sign of its side.
TradedQty == [o \in Order |-> IF o \in Sale THEN -venue[o].filled ELSE venue[o].filled]

\* Traded, as a sum by weight.
LEMMA TradedIsSum ==
    ASSUME IsFiniteSet(Order)
    PROVE  Traded = SumOver(TradedQty, Order)
<1> DEFINE w(o) == IF o \in Sale THEN -venue[o].filled ELSE venue[o].filled
           T(s, g) == IF s = {} THEN 0 ELSE w(Picked(s)) + g[s \ {Picked(s)}]
           Q(g) == g = [s \in SUBSET Order |-> T(s, g)]
<1>1. Traded = (CHOOSE g : Q(g))[Order]
  BY DEF Traded, MapThenSumSet, MapThenFoldSet, Picked
<1>2. \A s \in SUBSET Order : \A g : T(s, g) = Total(TradedQty, s, g)
  BY PickedIn DEF TradedQty, Total
<1>3. \A g : Q(g) <=> Adds(TradedQty, Order, g)
  BY <1>2 DEF Adds
<1>4. \E g : Q(g)
  BY <1>3, SumIsAdded
<1> HIDE DEF Q
<1>5. Q(CHOOSE g : Q(g))
  BY <1>4
<1>. QED BY <1>1, <1>3, <1>5, SumIsSolution

\* Net, as a sum by weight.
LEMMA NetIsSum ==
    ASSUME NEW S \in SUBSET Fill, IsFiniteSet(S)
    PROVE  Net(S) = SumOver(FillNet, S)
<1> DEFINE T(s, g) == IF s = {} THEN 0 ELSE Signed(Picked(s)) + g[s \ {Picked(s)}]
           Q(g) == g = [s \in SUBSET S |-> T(s, g)]
<1>1. Net(S) = (CHOOSE g : Q(g))[S]
  BY DEF Net, MapThenSumSet, MapThenFoldSet, Picked
<1>2. \A s \in SUBSET S : \A g : T(s, g) = Total(FillNet, s, g)
  BY PickedIn DEF FillNet, Total
<1>3. \A g : Q(g) <=> Adds(FillNet, S, g)
  BY <1>2 DEF Adds
<1>4. \E g : Q(g)
  BY <1>3, SumIsAdded
<1> HIDE DEF Q
<1>5. Q(CHOOSE g : Q(g))
  BY <1>4
<1>. QED BY <1>1, <1>3, <1>5, SumIsSolution

\* The weight of a fill is its quantity, or that below nought.
LEMMA NetOfFill ==
    ASSUME NEW f \in Fill
    PROVE  /\ FillNet[f] = Signed(f) /\ Signed(f) \in Int /\ f.qty \in Nat \ {0}
           /\ Signed(f) = IF f.order \in Sale THEN -f.qty ELSE f.qty
BY QuantityAssumption DEF FillNet, Signed, Fill

\* The venue's executions are numbered, and add up to what it filled.
ExecutionsAddUp ==
    /\ IsFiniteSet(VenueFills)
    /\ SumOver(TradedQty, Order) = SumOver(FillNet, VenueFills)
    /\ \A o \in Order :
        /\ ~AtVenue(o) => venue[o].filled = 0
        /\ \A f \in venue[o].fills : f.nr <= Cardinality(venue[o].fills)

\* A trade adds an execution and its quantity; nothing else at the venue adds any.
LEMMA TradesAddUp ==
    ASSUME IsFiniteSet(Order), VenueTypeOK, ExecutionsCounted, OwnExecutions, ExecutionsAddUp,
           VenueMove
    PROVE  ExecutionsAddUp' /\ VenueFills \subseteq VenueFills'
<1>1. \A o \in Order : TradedQty[o] \in Int /\ venue[o].fills \subseteq Fill
  BY QuantityAssumption DEF VenueTypeOK, VenueRecord, TradedQty
<1>2. \A f \in Fill : FillNet[f] = Signed(f) /\ Signed(f) \in Int
  BY NetOfFill
<1>3. VenueFills \subseteq Fill
  BY <1>1 DEF VenueFills
<1>4. ASSUME \A o \in Order : venue'[o].fills = venue[o].fills /\ venue'[o].filled = venue[o].filled,
             \A o \in Order : ~AtVenue(o)' => ~AtVenue(o)
      PROVE  ExecutionsAddUp' /\ VenueFills \subseteq VenueFills'
  <2>1. VenueFills' = VenueFills
    BY <1>4 DEF VenueFills
  <2>2. TradedQty' = TradedQty
    BY <1>4 DEF TradedQty
  <2>3. /\ IsFiniteSet(VenueFills')
        /\ SumOver(TradedQty, Order)' = SumOver(FillNet, VenueFills)'
    BY <2>1, <2>2 DEF ExecutionsAddUp, FillNet, Signed
  <2>4. \A o \in Order :
          /\ ~AtVenue(o)' => venue'[o].filled = 0
          /\ \A f \in venue'[o].fills : f.nr <= Cardinality(venue'[o].fills)
    BY <1>4 DEF ExecutionsAddUp
  <2>. QED BY <2>1, <2>3, <2>4 DEF ExecutionsAddUp
<1>5. ASSUME NEW o \in Order, Trade(o)
      PROVE  ExecutionsAddUp' /\ VenueFills \subseteq VenueFills'
  <2> DEFINE n == Cardinality(venue[o].fills)
  <2>1. PICK q \in 1..(Quantity - venue[o].filled) :
          venue' = [venue EXCEPT ![o] =
              [status |-> StatusAfter(venue[o].filled + q), filled |-> venue[o].filled + q,
               fills |-> @.fills \cup {[order |-> o, nr |-> n + 1, qty |-> q]}]]
    BY <1>5 DEF Trade
  <2> DEFINE f == [order |-> o, nr |-> n + 1, qty |-> q]
             d == Signed(f)
  <2>2. n \in Nat /\ n <= venue[o].filled /\ IsFiniteSet(venue[o].fills)
        /\ venue[o].filled \in 0..Quantity
    BY FS_CardinalityType DEF ExecutionsCounted, VenueTypeOK, VenueRecord
  <2>3. f \in Fill /\ f.qty = q /\ f.order = o /\ f.nr = n + 1 /\ q \in Int
    BY <2>2, QuantityAssumption DEF Fill
  <2>13. d = (IF o \in Sale THEN -q ELSE q) /\ d \in Int
    BY <2>3 DEF Signed
  <2>4. f \notin venue[o].fills
    BY <2>2, <2>3 DEF ExecutionsAddUp
  <2>5. f \notin VenueFills
    BY <2>3, <2>4 DEF VenueFills, OwnExecutions
  <2> HIDE DEF n, f, d
  <2>6. /\ venue'[o].filled = venue[o].filled + q
        /\ venue'[o].fills = venue[o].fills \cup {f}
        /\ venue'[o].status # Absent
        /\ \A p \in Order \ {o} : venue'[p] = venue[p]
    BY <2>1 DEF VenueTypeOK, f, StatusAfter, Absent
  <2>7. VenueFills' = VenueFills \cup {f}
    BY <2>6 DEF VenueFills
  <2>8. Cardinality(venue'[o].fills) = n + 1
    BY <2>2, <2>4, <2>6, FS_AddElement DEF n
  <2>9. IsFiniteSet(VenueFills')
    BY <2>7, FS_AddElement DEF ExecutionsAddUp
  <2>10. SumOver(FillNet, VenueFills') = SumOver(FillNet, VenueFills) + d
    <3>1. \A x \in VenueFills \cup {f} : FillNet[x] \in Int
      BY <1>2, <1>3, <2>3
    <3>2. SumOver(FillNet, VenueFills \cup {f}) = SumOver(FillNet, VenueFills) + FillNet[f]
      BY <2>5, <3>1, SumTakesIn DEF ExecutionsAddUp
    <3>3. FillNet[f] = d
      BY <1>2, <2>3 DEF d
    <3>. QED BY <2>7, <3>2, <3>3
  <2>11. SumOver(TradedQty', Order) = SumOver(TradedQty, Order) + d
    <3> DEFINE B == TradedQty'
    <3>1. \A p \in Order \ {o} : TradedQty[p] = B[p]
      BY <2>6 DEF TradedQty
    <3>2. B[o] = TradedQty[o] + d
      BY <2>2, <2>3, <2>6, <2>13, QuantityAssumption DEF TradedQty
    <3>3. \A p \in Order : TradedQty[p] \in Int /\ B[p] \in Int
      BY <1>1, <2>13, <3>1, <3>2
    <3> HIDE DEF B
    <3>4. SumOver(B, Order) = SumOver(TradedQty, Order) + (B[o] - TradedQty[o])
      BY <3>1, <3>3, SumShifts
    <3>5. SumOver(B, Order) = SumOver(TradedQty, Order) + d
      <4>1. SumOver(TradedQty, Order) \in Int
        BY <3>3, SumType
      <4>. QED BY <2>13, <3>2, <3>3, <3>4, <4>1
    <3>. QED BY <3>5 DEF B
  <2>12. \A p \in Order :
          /\ ~AtVenue(p)' => venue'[p].filled = 0
          /\ \A g \in venue'[p].fills : g.nr <= Cardinality(venue'[p].fills)
    <3>1. ASSUME NEW p \in Order, p # o
          PROVE  /\ ~AtVenue(p)' => venue'[p].filled = 0
                 /\ \A g \in venue'[p].fills : g.nr <= Cardinality(venue'[p].fills)
      BY <2>6, <3>1 DEF ExecutionsAddUp, AtVenue
    <3>2. ~AtVenue(o)' => venue'[o].filled = 0
      BY <2>6 DEF AtVenue
    <3>3. ASSUME NEW g \in venue'[o].fills
          PROVE  g.nr <= n + 1
      <4>1. CASE g \in venue[o].fills
        <5>1. g.nr <= n /\ g.nr \in Int
          BY <1>1, <4>1, QuantityAssumption DEF ExecutionsAddUp, Fill, n
        <5>. QED BY <2>2, <5>1
      <4>2. CASE g = f
        BY <2>2, <2>3, <4>2
      <4>. QED BY <2>6, <3>3, <4>1, <4>2
    <3>. QED BY <2>8, <3>1, <3>2, <3>3
  <2>14. SumOver(FillNet, VenueFills)' = SumOver(FillNet, VenueFills')
    BY DEF FillNet, Signed
  <2>. QED BY <2>7, <2>9, <2>10, <2>11, <2>12, <2>14 DEF ExecutionsAddUp
<1>6. ASSUME NEW o \in Order, Accept(o)
      PROVE  ExecutionsAddUp' /\ VenueFills \subseteq VenueFills'
  <2>1. CASE AtVenue(o)
    BY <1>4, <1>6, <2>1 DEF Accept, AtVenue
  <2>2. CASE ~AtVenue(o)
    <3>1. venue[o].fills = {} /\ venue[o].filled = 0
      BY <2>2 DEF OwnExecutions, ExecutionsAddUp
    <3>2. /\ venue'[o].fills = {} /\ venue'[o].filled = 0
          /\ \A p \in Order \ {o} : venue'[p] = venue[p]
      BY <1>6, <2>2 DEF Accept, VenueTypeOK, NotAtVenue
    <3>. QED BY <1>4, <2>2, <3>1, <3>2 DEF AtVenue
  <2>. QED BY <2>1, <2>2
<1>7. ASSUME NEW o \in Order, Expire(o) \/ Cancel(o) \/ ConfirmCancel(o)
      PROVE  ExecutionsAddUp' /\ VenueFills \subseteq VenueFills'
  <2>1. \/ UNCHANGED venue
        \/ \E s : WorkingAtVenue(o) /\ venue' = [venue EXCEPT ![o].status = s]
    BY <1>7 DEF Expire, Cancel, ConfirmCancel, WorkingAtVenue
  <2>2. \A p \in Order : venue'[p].fills = venue[p].fills /\ venue'[p].filled = venue[p].filled
    BY <2>1 DEF VenueTypeOK, VenueRecord
  <2>3. \A p \in Order : ~AtVenue(p)' => ~AtVenue(p)
    BY <1>7, VenueKeeps DEF VenueMove
  <2>. QED BY <1>4, <2>2, <2>3
<1>8. CASE UNCHANGED venue
  BY <1>4, <1>8 DEF AtVenue
<1>. QED BY <1>5, <1>6, <1>7, <1>8 DEF VenueMove

-----------------------------------------------------------------------------
(* The reconciler: its steps are the engine's, or read, or adopt a status *)

ReconRecord == [at : ReconAt, by : Worker \cup {None},
                theirs : SUBSET Snapshot, ours : SUBSET Snapshot,
                found : Snapshot \cup {None}, broken : BOOLEAN, before : SUBSET Fill,
                missed : SUBSET Fill]

\* The pass has compared the positions, and found nothing wrong so far.
Compared == recon.at \in {"cash", "report"} /\ ~recon.broken

\* A pass under way is in the thread of a worker.
PassHasWorker ==
    /\ recon.at # "idle" => recon.by \in Worker
    /\ recon.at = "lookup" => recon.found \in Snapshot

\* What a step of the pass does to the pass: each field keeps its kind, a break
\* once noted stays, and the comparison of the positions is passed only by agreement.
PassMove ==
    /\ recon' \in ReconRecord
    /\ PassHasWorker'
    /\ recon'.before \subseteq recon.before \cup VenueFills
    /\ Compared' => /\ recon'.before = recon.before
                    /\ \/ Compared /\ recon'.missed = recon.missed
                       \/ Agrees /\ recon'.missed = VenueFills \ applied

\* What a step that is no step of the engine does to the engine.
ReadsOrAdopts ==
    /\ \/ UNCHANGED orders
       \/ \E o \in Order, s \in Status : MoveOrder(o, s)
    /\ \/ UNCHANGED <<pc, todo>>
       \/ \E w \in Worker :
            /\ pc' = [pc EXCEPT ![w] = "fills"] /\ todo' = [todo EXCEPT ![w] = VenueFills]
       \/ \E w \in Worker : pc' = [pc EXCEPT ![w] = "idle"] /\ UNCHANGED todo
    /\ UNCHANGED <<fillIndex, venue, portfolioVars, job, answer, left, task, scan, hand, crashes>>

\* Every listed status is one an order can have.
LEMMA ListsAreSnapshots ==
    ASSUME StoreTypeOK, VenueTypeOK
    PROVE  /\ OpenSnapshot \subseteq Snapshot
           /\ {[order |-> o, status |-> venue[o].status] : o \in {p \in Order : WorkingAtVenue(p)}}
                \subseteq Snapshot
           /\ \A o \in Order : venue[o].status = Absent
                \/ [order |-> o, status |-> venue[o].status] \in Snapshot
           /\ VenueFills \subseteq Fill
BY DEF OpenSnapshot, OpenOrders, IsOpen, StoreTypeOK, OrderRecord, VenueTypeOK, VenueRecord,
       WorkingAtVenue, Status, Snapshot, VenueFills

\* A status is adopted from a listing that has it.
LEMMA AdoptMoves ==
    ASSUME NEW x \in Snapshot, NEW done \in ReconRecord, ReconAdopt(x.order, x.status, done)
    PROVE  /\ UNCHANGED orders \/ \E o \in Order, s \in Status : MoveOrder(o, s)
           /\ recon' \in ReconRecord
           /\ recon'.at = done.at /\ recon'.by = done.by /\ recon'.found = done.found
           /\ recon'.before = done.before /\ recon'.missed = done.missed
<1>1. x.order \in Order /\ x.status \in Status
  BY DEF Snapshot
<1>2. UNCHANGED orders \/ MoveOrder(x.order, x.status)
  BY DEF ReconAdopt, TryMove
<1>3. recon' = [done EXCEPT !.broken = done.broken \/ ~MayMove(x.order, x.status)]
  BY DEF ReconAdopt
<1>4. (done.broken \/ ~MayMove(x.order, x.status)) \in BOOLEAN
  BY Zenon
<1>. QED BY <1>1, <1>2, <1>3, <1>4 DEF ReconRecord

\* Each step of the pass.
LEMMA PassMoves ==
    ASSUME StoreTypeOK, VenueTypeOK, recon \in ReconRecord, PassHasWorker, ReconStep
    PROVE  /\ PassMove
           /\ ReadsOrAdopts \/ (UNCHANGED recon /\ \E w \in Worker : WorkerStep(w))
           /\ UNCHANGED lastClean \/ (recon.at = "report" /\ Compared
                                      /\ lastClean' = <<recon.before, recon.missed>>)
<1>1. /\ OpenSnapshot \subseteq Snapshot
      /\ {[order |-> o, status |-> venue[o].status] : o \in {p \in Order : WorkingAtVenue(p)}}
           \subseteq Snapshot
      /\ \A o \in Order : venue[o].status = Absent
           \/ [order |-> o, status |-> venue[o].status] \in Snapshot
      /\ VenueFills \subseteq Fill
  BY ListsAreSnapshots
<1> DEFINE Goal == /\ PassMove
                   /\ ReadsOrAdopts \/ (UNCHANGED recon /\ \E w \in Worker : WorkerStep(w))
                   /\ UNCHANGED lastClean \/ (recon.at = "report" /\ Compared
                                              /\ lastClean' = <<recon.before, recon.missed>>)
<1>2. ASSUME Asking
      PROVE  ReadsOrAdopts /\ UNCHANGED lastClean
  BY <1>2 DEF Asking, vars, threadVars, storeVars, portfolioVars, ReadsOrAdopts
<1>3. ASSUME NEW w \in Worker, Reconcile(w)
      PROVE  Goal
  <2>1. recon' = [NoPass EXCEPT !.at = "remote", !.by = w, !.before = VenueFills]
    BY <1>3 DEF Reconcile
  <2>2. recon' = [at |-> "remote", by |-> w, theirs |-> {}, ours |-> {}, found |-> None,
                  broken |-> FALSE, before |-> VenueFills, missed |-> {}]
    BY <2>1 DEF NoPass
  <2>3. PassMove
    BY <1>1, <2>2 DEF PassMove, Compared, PassHasWorker, ReconRecord, ReconAt
  <2>. QED BY <1>2, <1>3, <2>3 DEF Reconcile
<1>4. CASE ReadRemote
  <2>1. PassMove
    BY <1>1, <1>4 DEF ReadRemote, ReconBroken, PassMove, Compared, PassHasWorker, ReconRecord, ReconAt
  <2>. QED BY <1>2, <1>4, <2>1 DEF ReadRemote
<1>5. CASE ReadLocal
  <2>1. PassMove
    BY <1>1, <1>5 DEF ReadLocal, PassMove, Compared, PassHasWorker, ReconRecord, ReconAt
  <2>. QED BY <1>2, <1>5, <2>1 DEF ReadLocal
<1>6. CASE VisitTheirs
  <2>1. PICK x \in recon.theirs :
          LET done == [recon EXCEPT !.theirs = @ \ {x},
                                    !.ours = {y \in @ : y.order # x.order}]
          IN  \/ recon' = [done EXCEPT !.broken = TRUE] /\ UNCHANGED orders
              \/ recon' = done /\ UNCHANGED orders
              \/ ReconAdopt(x.order, x.status, done)
    BY <1>6 DEF VisitTheirs
  <2> DEFINE done == [recon EXCEPT !.theirs = recon.theirs \ {x},
                                   !.ours = {y \in recon.ours : y.order # x.order}]
  <2>2. x \in Snapshot /\ recon.at = "visit"
    BY <1>6 DEF ReconRecord, VisitTheirs
  <2>3. done \in ReconRecord /\ done.at = "visit" /\ done.by = recon.by
        /\ done.before = recon.before
    BY <2>2 DEF ReconRecord
  <2> HIDE DEF done
  <2>4. \/ recon' = [done EXCEPT !.broken = TRUE] /\ UNCHANGED orders
        \/ recon' = done /\ UNCHANGED orders
        \/ ReconAdopt(x.order, x.status, done)
    BY <2>1 DEF done
  <2>5. /\ recon' \in ReconRecord /\ recon'.at = "visit" /\ recon'.by = recon.by
        /\ recon'.before = recon.before
        /\ UNCHANGED orders \/ \E o \in Order, s \in Status : MoveOrder(o, s)
    <3>1. CASE recon' = [done EXCEPT !.broken = TRUE] /\ UNCHANGED orders
      BY <2>3, <3>1 DEF ReconRecord
    <3>2. CASE ReconAdopt(x.order, x.status, done)
      BY <2>2, <2>3, <3>2, AdoptMoves
    <3>. QED BY <2>3, <2>4, <3>1, <3>2
  <2>6. PassMove
    BY <2>2, <2>5 DEF PassMove, Compared, PassHasWorker
  <2>7. ReadsOrAdopts /\ UNCHANGED lastClean
    BY <1>6, <2>5 DEF VisitTheirs, ReadsOrAdopts, threadVars
  <2>. QED BY <2>6, <2>7
<1>7. CASE VisitOurs
  <2>1. PICK x \in recon.ours :
          LET done == [recon EXCEPT !.ours = @ \ {x}]
              there == venue[x.order].status
          IN  \/ recon' = [done EXCEPT !.broken = TRUE]
              \/ recon' = done
              \/ /\ there \notin {Absent, x.status}
                 /\ recon' = [done EXCEPT !.at = "lookup",
                                          !.found = [order |-> x.order, status |-> there]]
    BY <1>7 DEF VisitOurs
  <2> DEFINE done == [recon EXCEPT !.ours = recon.ours \ {x}]
             found == [order |-> x.order, status |-> venue[x.order].status]
  <2>2. x \in Snapshot /\ x.order \in Order /\ recon.at = "visit"
    BY <1>7 DEF ReconRecord, VisitOurs, Snapshot
  <2>3. done \in ReconRecord /\ done.at = "visit" /\ done.by = recon.by
        /\ done.before = recon.before
    BY <2>2 DEF ReconRecord
  <2>4. venue[x.order].status # Absent => found \in Snapshot
    BY <1>1, <2>2
  <2>5. \/ recon' = [done EXCEPT !.broken = TRUE]
        \/ recon' = done
        \/ found \in Snapshot /\ recon' = [done EXCEPT !.at = "lookup", !.found = found]
    BY <2>1, <2>4
  <2> HIDE DEF done, found
  <2>6. PassMove
    BY <2>2, <2>3, <2>5 DEF PassMove, Compared, PassHasWorker, ReconRecord, ReconAt
  <2>. QED BY <1>2, <1>7, <2>6 DEF VisitOurs
<1>8. CASE AdoptOurs
  <2> DEFINE done == [recon EXCEPT !.at = "visit", !.found = None]
  <2>1. recon.found \in Snapshot /\ recon.at = "lookup"
    BY <1>8 DEF AdoptOurs, PassHasWorker
  <2>2. done \in ReconRecord /\ done.at = "visit" /\ done.by = recon.by
        /\ done.before = recon.before
    BY DEF ReconRecord, ReconAt
  <2>3. ReconAdopt(recon.found.order, recon.found.status, done)
    BY <1>8 DEF AdoptOurs
  <2> HIDE DEF done
  <2>4. /\ recon' \in ReconRecord /\ recon'.at = "visit" /\ recon'.by = recon.by
        /\ recon'.before = recon.before
        /\ UNCHANGED orders \/ \E o \in Order, s \in Status : MoveOrder(o, s)
    BY <2>1, <2>2, <2>3, AdoptMoves
  <2>5. PassMove
    BY <2>1, <2>4 DEF PassMove, Compared, PassHasWorker
  <2>6. ReadsOrAdopts /\ UNCHANGED lastClean
    BY <1>8, <2>4 DEF AdoptOurs, ReadsOrAdopts, threadVars
  <2>. QED BY <2>5, <2>6
<1>9. CASE OrdersDone
  <2>1. PassMove
    BY <1>9 DEF OrdersDone, Recon, PassMove, Compared, PassHasWorker, ReconRecord, ReconAt
  <2>. QED BY <1>2, <1>9, <2>1 DEF OrdersDone
<1>10. CASE ReadFills
  <2>1. PassMove
    BY <1>10 DEF ReadFills, Recon, ReconBroken, PassMove, Compared, PassHasWorker, ReconRecord, ReconAt
  <2>2. recon.by \in Worker
    BY <1>10 DEF ReadFills, PassHasWorker
  <2>3. ReadsOrAdopts /\ UNCHANGED lastClean
    BY <1>10, <2>2 DEF ReadFills, ReadsOrAdopts, Goto, storeVars
  <2>. QED BY <2>1, <2>3
<1>11. CASE AdoptFill
  <2>1. recon.by \in Worker /\ recon.at = "booking" /\ UNCHANGED recon /\ UNCHANGED lastClean
    BY <1>11 DEF AdoptFill, PassHasWorker, reconVars, lastClean
  <2>2. PassMove
    BY <2>1 DEF PassMove, Compared, PassHasWorker
  <2>3. WorkerStep(recon.by)
    BY <1>11 DEF AdoptFill, WorkerStep
  <2>. QED BY <2>1, <2>2, <2>3
<1>12. CASE FillsAdopted
  <2>1. PassMove
    BY <1>12 DEF FillsAdopted, Recon, PassMove, Compared, PassHasWorker, ReconRecord, ReconAt
  <2>2. recon.by \in Worker
    BY <1>12 DEF FillsAdopted, PassHasWorker
  <2>3. ReadsOrAdopts /\ UNCHANGED lastClean
    BY <1>12, <2>2 DEF FillsAdopted, ReadsOrAdopts, Goto, storeVars
  <2>. QED BY <2>1, <2>3
<1>13. CASE ComparePositions
  <2>1. ASSUME Agrees, recon' = [recon EXCEPT !.at = "cash", !.missed = VenueFills \ applied]
        PROVE  PassMove
    <3>1. VenueFills \ applied \subseteq Fill
      BY <1>1
    <3>. QED BY <1>13, <2>1, <3>1
             DEF ComparePositions, PassMove, Compared, PassHasWorker, ReconRecord, ReconAt
  <2>2. ASSUME ReconBroken("cash")
        PROVE  PassMove
    BY <1>13, <2>2 DEF ComparePositions, ReconBroken, PassMove, Compared, PassHasWorker,
                       ReconRecord, ReconAt
  <2>3. PassMove
    BY <1>13, <2>1, <2>2 DEF ComparePositions
  <2>. QED BY <1>2, <1>13, <2>3 DEF ComparePositions
<1>14. CASE CompareCash
  <2>1. PassMove
    BY <1>14 DEF CompareCash, Recon, ReconBroken, PassMove, Compared, PassHasWorker,
                 ReconRecord, ReconAt
  <2>. QED BY <1>2, <1>14, <2>1 DEF CompareCash
<1>15. CASE Report
  <2>1. recon' = [at |-> "idle", by |-> None, theirs |-> {}, ours |-> {}, found |-> None,
                  broken |-> FALSE, before |-> {}, missed |-> {}]
    BY <1>15 DEF Report, NoPass
  <2>2. PassMove
    BY <2>1 DEF PassMove, Compared, PassHasWorker, ReconRecord, ReconAt
  <2>3. ReadsOrAdopts
    BY <1>15 DEF Report, vars, threadVars, storeVars, ReadsOrAdopts
  <2>4. UNCHANGED lastClean \/ (recon.at = "report" /\ Compared
                                /\ lastClean' = <<recon.before, recon.missed>>)
    BY <1>15 DEF Report, Compared, lastClean
  <2>. QED BY <2>2, <2>3, <2>4
<1>. QED BY <1>3, <1>4, <1>5, <1>6, <1>7, <1>8, <1>9, <1>10, <1>11, <1>12, <1>13, <1>14, <1>15
         DEF ReconStep

-----------------------------------------------------------------------------
(* The reconciler: what a clean pass vouches for *)

\* The portfolio holds what was executed, each execution once.
PortfolioAddsUp ==
    /\ applied \subseteq VenueFills
    /\ position = SumOver(FillNet, applied)
    /\ \A w \in Worker : pc[w] = "add" => hand[w] \notin applied

\* Fills that come to nothing, bought against sold.
Cancelling(fills) == fills \subseteq Fill /\ IsFiniteSet(fills) /\ SumOver(FillNet, fills) = 0

\* A pass that has compared the positions began with nothing that is not in the
\* portfolio by now, but for what cancelled out.
PassVouches ==
    /\ recon.before \subseteq VenueFills
    /\ Compared => recon.before \ applied \subseteq recon.missed /\ Cancelling(recon.missed)
    /\ vouched \ applied \subseteq offset /\ Cancelling(offset)
    /\ vouched \subseteq Fill

ReconInv ==
    /\ TypeInv /\ OwnExecutions /\ CarriesExecutions /\ ExecutionsAddUp /\ PortfolioAddsUp
    /\ recon \in ReconRecord /\ PassHasWorker /\ PassVouches

\* Reading the fills or adopting a status keeps what the engine's proofs rest on.
LEMMA ReadsKeepTypes ==
    ASSUME TypeInv, OwnExecutions, CarriesExecutions, ReadsOrAdopts
    PROVE  TypeInv' /\ OwnExecutions' /\ CarriesExecutions'
<1>1. /\ StoreTypeOK /\ VenueTypeOK /\ ThreadTypeOK /\ CallsOK /\ ExecutionsCounted
      /\ applied \subseteq Fill /\ position \in Int /\ crashes \in 0..MaxCrashes
  BY DEF TypeInv, TypeOK
<1>2. UNCHANGED <<fillIndex, venue, portfolioVars, job, answer, left, task, scan, hand, crashes>>
  BY DEF ReadsOrAdopts
<1>3. StoreTypeOK'
  <2>1. CASE UNCHANGED orders
    BY <1>1, <1>2, <2>1 DEF StoreTypeOK
  <2>2. ASSUME NEW o \in Order, NEW s \in Status, MoveOrder(o, s)
        PROVE  StoreTypeOK'
    BY <1>1, <1>2, <2>2, MoveOrderType DEF StoreTypeOK
  <2>. QED BY <2>1, <2>2 DEF ReadsOrAdopts
<1>4. VenueTypeOK' /\ ExecutionsCounted' /\ OwnExecutions'
  BY <1>1, <1>2 DEF VenueTypeOK, ExecutionsCounted, OwnExecutions, AtVenue
<1>5. VenueFills \subseteq Fill /\ \A f \in VenueFills : f \in venue[f.order].fills
  BY <1>1 DEF VenueFills, VenueTypeOK, VenueRecord, OwnExecutions
<1>6. ThreadTypeOK' /\ CallsOK' /\ CarriesExecutions'
  <2>1. CASE UNCHANGED <<pc, todo>>
    BY <1>1, <1>2, <2>1 DEF ThreadTypeOK, CallsOK, CarriesExecutions, AtVenue
  <2>2. ASSUME NEW w \in Worker, pc' = [pc EXCEPT ![w] = "fills"],
               todo' = [todo EXCEPT ![w] = VenueFills]
        PROVE  ThreadTypeOK' /\ CallsOK' /\ CarriesExecutions'
    BY <1>1, <1>2, <1>5, <2>2, ThreadAssumption
       DEF ThreadTypeOK, CallsOK, CarriesExecutions, AtVenue, Thread, SubmitterAt, WorkerAt
  <2>3. ASSUME NEW w \in Worker, pc' = [pc EXCEPT ![w] = "idle"], UNCHANGED todo
        PROVE  ThreadTypeOK' /\ CallsOK' /\ CarriesExecutions'
    BY <1>1, <1>2, <2>3, ThreadAssumption
       DEF ThreadTypeOK, CallsOK, CarriesExecutions, AtVenue, Thread, SubmitterAt, WorkerAt
  <2>. QED BY <2>1, <2>2, <2>3 DEF ReadsOrAdopts
<1>. QED BY <1>1, <1>2, <1>3, <1>4, <1>6 DEF TypeInv, TypeOK, portfolioVars

\* A step of the engine applies a fill in hand, or none, or loses the portfolio.
LEMMA PortfolioMoves ==
    ASSUME NEW w, Worker = {w}, TypeInv, [Next]_vars
    PROVE  \/ /\ UNCHANGED <<applied, position>>
              /\ pc'[w] = "add" => hand'[w] \notin applied'
                                   \/ (pc[w] = "add" /\ hand'[w] = hand[w])
           \/ pc[w] = "add" /\ ApplyFill(hand[w]) /\ pc'[w] = "fills"
           \/ Crash
<1>1. /\ ThreadTypeOK /\ w \in Worker
      /\ \A s \in Submitter : w # s
  BY ThreadAssumption DEF TypeInv, TypeOK
<1> USE <1>1 DEF ThreadTypeOK, Thread, Goto
<1>2. ASSUME NEW s \in Submitter, SubmitterStep(s)
      PROVE  UNCHANGED <<applied, position, hand>> /\ pc'[w] = pc[w]
  <2>1. SubmitterFrame
    BY <1>2 DEF SubmitterStep, Execute, CloseShadow, SubmitArrives, SubmitLost, SubmitRefused,
                SubmitRaises, SubmitDuplicate, Reply, ReplyLost, QueryFinds, QueryMisses,
                QueryFails, AdoptAck, Settle
  <2>2. pc'[w] = pc[w]
    BY <1>2 DEF SubmitterStep, Execute, CloseShadow, SubmitArrives, SubmitLost, SubmitRefused,
                SubmitRaises, SubmitDuplicate, Reply, ReplyLost, QueryFinds, QueryMisses,
                QueryFails, NextAttempt, AdoptAck, AdoptAnswer, Settle
  <2>. QED BY <2>1, <2>2 DEF SubmitterFrame, portfolioVars
<1>3. CASE AddFill(w)
  BY <1>3 DEF AddFill
<1>4. CASE CheckApplied(w)
  BY <1>4 DEF CheckApplied, IsApplied, portfolioVars
<1>5. CASE TakeFill(w) \/ RecordFill(w)
  BY <1>5 DEF TakeFill, RecordFill, portfolioVars
<1>6. CASE PollFills(w) \/ PollBlind(w) \/ FillsDone(w) \/ StartRecover(w) \/ StartCancelStale(w)
           \/ VisitFails(w) \/ VisitPoll(w) \/ VisitRecover(w) \/ VisitCancel(w)
           \/ FetchFills(w) \/ AdoptStatus(w) \/ ScanDone(w)
  BY <1>6 DEF PollFills, PollBlind, FillsDone, StartRecover, StartCancelStale, VisitFails,
              VisitPoll, SyncStatus, VisitRecover, VisitCancel, FetchFills, AdoptStatus,
              AdoptAnswer, ScanDone, ScanFrame, TakeAnswer, portfolioVars
<1>7. CASE VenueMoves \/ UNCHANGED vars
  BY <1>7 DEF VenueMoves, vars, threadVars, portfolioVars
<1>. QED BY <1>2, <1>3, <1>4, <1>5, <1>6, <1>7 DEF Next, WorkerStep

\* The portfolio goes on adding up, and until a crash loses nothing.
LEMMA PortfolioGoesOn ==
    ASSUME IsFiniteSet(Order), NEW w, Worker = {w}, TypeInv, OwnExecutions, CarriesExecutions,
           ExecutionsAddUp, PortfolioAddsUp, [Next]_vars \/ ReadsOrAdopts
    PROVE  /\ ExecutionsAddUp' /\ PortfolioAddsUp'
           /\ VenueFills \subseteq VenueFills'
           /\ Crash \/ applied \subseteq applied'
<1>1. ExecutionsAddUp' /\ VenueFills \subseteq VenueFills'
  <2>1. VenueMove
    BY StepMoves DEF ReadsOrAdopts, VenueMove
  <2>. QED BY <2>1, TradesAddUp DEF TypeInv, TypeOK
<1>2. /\ w \in Worker /\ ThreadTypeOK /\ VenueFills \subseteq Fill
      /\ IsFiniteSet(applied)
      /\ pc[w] = "add" => hand[w] \in Fill /\ hand[w] \in VenueFills
  <2>1. VenueFills \subseteq Fill
    BY DEF TypeInv, TypeOK, VenueTypeOK, VenueRecord, VenueFills
  <2>2. IsFiniteSet(applied)
    BY FS_Subset DEF ExecutionsAddUp, PortfolioAddsUp
  <2>3. pc[w] = "add" => hand[w] \in Fill /\ hand[w] \in VenueFills
    BY DEF TypeInv, CallsOK, CarriesExecutions, VenueFills, Fill
  <2>. QED BY <2>1, <2>2, <2>3 DEF TypeInv, TypeOK
<1>3. \A f \in Fill : FillNet[f] = Signed(f) /\ FillNet[f] \in Int
  BY NetOfFill
<1>4. ASSUME UNCHANGED <<applied, position>>,
             pc'[w] = "add" => hand'[w] \notin applied' \/ (pc[w] = "add" /\ hand'[w] = hand[w])
      PROVE  PortfolioAddsUp' /\ applied \subseteq applied'
  BY <1>1, <1>4 DEF PortfolioAddsUp, FillNet, Signed
<1>5. CASE pc[w] = "add" /\ ApplyFill(hand[w]) /\ pc'[w] = "fills"
  <2>1. SumOver(FillNet, applied \cup {hand[w]}) = SumOver(FillNet, applied) + FillNet[hand[w]]
    <3>1. hand[w] \notin applied /\ \A f \in applied \cup {hand[w]} : FillNet[f] \in Int
      BY <1>2, <1>3, <1>5 DEF PortfolioAddsUp
    <3>. QED BY <1>2, <3>1, SumTakesIn
  <2>2. position' = SumOver(FillNet, applied')
    BY <1>2, <1>3, <1>5, <2>1 DEF ApplyFill, PortfolioAddsUp
  <2>3. position' = SumOver(FillNet, applied)'
    BY <2>2 DEF FillNet, Signed
  <2>. QED BY <1>1, <1>2, <1>5, <2>3 DEF ApplyFill, PortfolioAddsUp
<1>6. CASE Crash
  BY <1>1, <1>6, SumOfNone DEF Crash, LosePortfolio, PortfolioAddsUp, Thread, FillNet
<1>7. CASE ReadsOrAdopts
  <2>1. UNCHANGED <<applied, position, hand>> /\ pc'[w] \in {pc[w], "fills", "idle"}
    BY <1>2, <1>7 DEF ReadsOrAdopts, portfolioVars, ThreadTypeOK, Thread
  <2>. QED BY <1>1, <1>4, <2>1
<1>8. CASE [Next]_vars
  BY <1>1, <1>4, <1>5, <1>6, <1>8, PortfolioMoves
<1>. QED BY <1>7, <1>8

\* Of a position that is what the venue traded, whatever is missing cancels out.
LEMMA AgreementCancels ==
    ASSUME IsFiniteSet(Order), VenueTypeOK, ExecutionsAddUp, PortfolioAddsUp, Agrees
    PROVE  Cancelling(VenueFills \ applied)
<1>1. /\ VenueFills \subseteq Fill /\ IsFiniteSet(VenueFills)
      /\ VenueFills \cap applied = applied
  BY DEF VenueFills, VenueTypeOK, VenueRecord, ExecutionsAddUp, PortfolioAddsUp
<1>2. \A f \in VenueFills : FillNet[f] \in Int
  BY <1>1, NetOfFill
<1>3. SumOver(FillNet, VenueFills) =
          SumOver(FillNet, VenueFills \cap applied) + SumOver(FillNet, VenueFills \ applied)
  BY <1>1, <1>2, SumSplits
<1>4. SumOver(FillNet, applied) = SumOver(FillNet, VenueFills)
  BY TradedIsSum DEF Agrees, PortfolioAddsUp, ExecutionsAddUp
<1>5. IsFiniteSet(VenueFills \ applied) /\ IsFiniteSet(applied)
  BY <1>1, FS_Subset
<1>6. SumOver(FillNet, VenueFills \ applied) \in Int /\ SumOver(FillNet, applied) \in Int
  BY <1>1, <1>2, <1>5, SumType
<1>7. SumOver(FillNet, VenueFills \ applied) = 0
  <2>1. SumOver(FillNet, VenueFills \cap applied) = SumOver(FillNet, applied)
    BY <1>1
  <2>. QED BY <1>3, <1>4, <1>6, <2>1
<1>. QED BY <1>1, <1>5, <1>7 DEF Cancelling

\* Every step keeps it all.
LEMMA ReconKeeps ==
    ASSUME IsFiniteSet(Order), NEW w, Worker = {w}, ReconInv, [ReconNext]_<<vars, reconVars>>
    PROVE  ReconInv'
<1>1. /\ TypeInv /\ OwnExecutions /\ CarriesExecutions /\ ExecutionsAddUp /\ PortfolioAddsUp
      /\ recon \in ReconRecord /\ PassHasWorker /\ PassVouches
      /\ StoreTypeOK /\ VenueTypeOK
  BY DEF ReconInv, TypeInv, TypeOK
<1>2. ASSUME [Next]_vars \/ ReadsOrAdopts
      PROVE  /\ TypeInv' /\ OwnExecutions' /\ CarriesExecutions'
             /\ ExecutionsAddUp' /\ PortfolioAddsUp'
             /\ VenueFills \subseteq VenueFills'
             /\ Crash \/ applied \subseteq applied'
  BY <1>1, <1>2, PortfolioGoesOn, TypeStep, StepCarries, ReadsKeepTypes
<1>3. CASE ReconStep
  <2>1. /\ PassMove
        /\ ReadsOrAdopts \/ (UNCHANGED recon /\ \E v \in Worker : WorkerStep(v))
        /\ UNCHANGED lastClean \/ (recon.at = "report" /\ Compared
                                   /\ lastClean' = <<recon.before, recon.missed>>)
    BY <1>1, <1>3, PassMoves
  <2>2. [Next]_vars \/ ReadsOrAdopts
    BY <2>1 DEF Next
  <2>3. applied \subseteq applied'
    <3>1. CASE ReadsOrAdopts
      BY <3>1 DEF ReadsOrAdopts, portfolioVars
    <3>2. ASSUME NEW v \in Worker, WorkerStep(v)
          PROVE  applied \subseteq applied'
      BY <3>2 DEF WorkerStep, TakeFill, RecordFill, CheckApplied, AddFill, ApplyFill, PollFills,
                  PollBlind, FillsDone, StartRecover, StartCancelStale, VisitFails, VisitPoll,
                  SyncStatus, VisitRecover, VisitCancel, FetchFills, AdoptStatus, ScanDone,
                  ScanFrame, portfolioVars
    <3>. QED BY <2>1, <3>1, <3>2
  <2>4. recon' \in ReconRecord /\ PassHasWorker' /\ recon'.before \subseteq VenueFills'
    BY <1>1, <1>2, <2>1, <2>2 DEF PassMove, PassVouches
  <2>5. ASSUME Compared'
        PROVE  recon'.before \ applied' \subseteq recon'.missed /\ Cancelling(recon'.missed)
    <3>1. CASE Compared /\ recon'.missed = recon.missed
      BY <1>1, <2>1, <2>3, <2>5, <3>1 DEF PassMove, PassVouches
    <3>2. CASE Agrees /\ recon'.missed = VenueFills \ applied
      <4>1. Cancelling(VenueFills \ applied)
        BY <1>1, <3>2, AgreementCancels
      <4>. QED BY <1>1, <2>1, <2>3, <2>5, <3>2, <4>1 DEF PassMove, PassVouches
    <3>. QED BY <2>1, <2>5, <3>1, <3>2 DEF PassMove
  <2>6. /\ vouched' \ applied' \subseteq offset' /\ Cancelling(offset')
        /\ vouched' \subseteq Fill
    <3>1. CASE UNCHANGED lastClean
      BY <1>1, <2>3, <3>1 DEF PassVouches, lastClean
    <3>2. CASE Compared /\ lastClean' = <<recon.before, recon.missed>>
      BY <1>1, <2>3, <3>2 DEF PassVouches, lastClean, ReconRecord
    <3>. QED BY <2>1, <3>1, <3>2
  <2>7. PassVouches'
    BY <2>4, <2>5, <2>6 DEF PassVouches, Cancelling, FillNet, Signed
  <2>. QED BY <1>2, <2>2, <2>4, <2>7 DEF ReconInv
<1>4. CASE EngineStep \/ UNCHANGED <<vars, reconVars>>
  <2>1. [Next]_vars /\ UNCHANGED <<recon, vouched, offset>>
    BY <1>4 DEF EngineStep, Next, reconVars
  <2>2. applied \subseteq applied'
    <3>1. UNCHANGED crashes \/ ~EngineStep
      BY DEF EngineStep, SubmitterStep, Execute, CloseShadow, SubmitArrives, SubmitLost,
             SubmitRefused, SubmitRaises, SubmitDuplicate, Reply, ReplyLost, QueryFinds,
             QueryMisses, QueryFails, AdoptAck, Settle, SubmitterFrame,
             WorkerStep, TakeFill, RecordFill, CheckApplied, AddFill, PollFills,
             PollBlind, FillsDone, StartRecover, StartCancelStale, VisitFails, VisitPoll,
             SyncStatus, VisitRecover, VisitCancel, FetchFills, AdoptStatus, ScanDone,
             ScanFrame, VenueMoves
    <3>2. Crash => crashes' # crashes
      BY <1>1, CrashAssumption DEF Crash, TypeInv, TypeOK
    <3>3. UNCHANGED <<vars, reconVars>> => applied \subseteq applied'
      BY DEF vars, portfolioVars
    <3>. QED BY <1>2, <1>4, <2>1, <3>1, <3>2, <3>3
  <2>3. PassHasWorker' /\ recon' \in ReconRecord
    BY <1>1, <2>1 DEF PassHasWorker
  <2>4. PassVouches'
    BY <1>1, <1>2, <2>1, <2>2 DEF PassVouches, Compared, Cancelling, FillNet, Signed
  <2>. QED BY <1>2, <2>1, <2>3, <2>4 DEF ReconInv
<1>5. CASE ReconCrash
  <2>1. [Next]_vars
    BY <1>5 DEF ReconCrash, Next
  <2>2. recon' = [at |-> "idle", by |-> None, theirs |-> {}, ours |-> {}, found |-> None,
                  broken |-> FALSE, before |-> {}, missed |-> {}]
        /\ vouched' = {} /\ offset' = {}
    BY <1>5 DEF ReconCrash, NoPass
  <2>3. recon' \in ReconRecord /\ PassHasWorker' /\ PassVouches'
    BY <2>2, SumOfNone, FS_EmptySet
       DEF ReconRecord, ReconAt, PassHasWorker, PassVouches, Compared, Cancelling, FillNet
  <2>. QED BY <1>2, <2>1, <2>3 DEF ReconInv
<1>. QED BY <1>3, <1>4, <1>5 DEF ReconNext

\* It holds at the start.
LEMMA ReconStarts ==
    ASSUME IsFiniteSet(Order)
    PROVE  ReconInit => ReconInv
<1> SUFFICES ASSUME ReconInit PROVE ReconInv
  OBVIOUS
<1>1. TypeInv
  BY TypeInit DEF ReconInit
<1>2. /\ \A o \in Order : venue[o].fills = {} /\ venue[o].filled = 0
      /\ applied = {} /\ position = 0 /\ \A v \in Worker : pc[v] = "idle" /\ todo[v] = {}
  BY DEF ReconInit, Init, VenueInit, NotAtVenue, PortfolioInit, Thread
<1>3. VenueFills = {}
  BY <1>2 DEF VenueFills
<1>4. OwnExecutions /\ CarriesExecutions
  BY <1>2 DEF OwnExecutions, CarriesExecutions
<1>5. ExecutionsAddUp
  <2>1. \A o \in Order : TradedQty[o] = 0
    BY <1>2 DEF TradedQty
  <2>2. SumOver(TradedQty, Order) = 0 /\ SumOver(FillNet, {}) = 0
    BY <2>1, SumOfZeros, SumOfNone
  <2>. QED BY <1>2, <1>3, <2>2, FS_EmptySet DEF ExecutionsAddUp
<1>6. PortfolioAddsUp
  BY <1>2, SumOfNone DEF PortfolioAddsUp
<1>7. recon = [at |-> "idle", by |-> None, theirs |-> {}, ours |-> {}, found |-> None,
               broken |-> FALSE, before |-> {}, missed |-> {}]
      /\ vouched = {} /\ offset = {}
  BY DEF ReconInit, NoPass
<1>8. recon \in ReconRecord /\ PassHasWorker /\ PassVouches
  BY <1>7, SumOfNone, FS_EmptySet
     DEF ReconRecord, ReconAt, PassHasWorker, PassVouches, Compared, Cancelling
<1>. QED BY <1>1, <1>4, <1>5, <1>6, <1>8 DEF ReconInv

\* With one worker, whatever order statuses, fills and positions are read in from
\* a venue that trades on, whichever fills the book refuses and whatever a restart
\* loses: the executions a clean pass began with are in the portfolio, or they were
\* among those that cancelled out, bought against sold, when it compared positions.
THEOREM CleanPassesAreCaughtUp ==
    ASSUME IsFiniteSet(Order), NEW CONSTANT w, Worker = {w}
    PROVE  ReconSpec => []CleanPassIsCaughtUp
<1>1. ReconInit => ReconInv
  BY ReconStarts
<1>2. ReconInv /\ [ReconNext]_<<vars, reconVars>> => ReconInv'
  BY ReconKeeps
<1>3. ReconInv => CleanPassIsCaughtUp
  BY NetIsSum DEF ReconInv, PassVouches, Cancelling, CleanPassIsCaughtUp
<1>. QED BY <1>1, <1>2, <1>3, PTL DEF ReconSpec

\* Where all the orders are of one side nothing cancels out: a clean pass began
\* with no execution that is not in the portfolio.
THEOREM OneSidedPassesMissNothing ==
    ASSUME IsFiniteSet(Order), NEW CONSTANT w, Worker = {w}, Sale = {} \/ Sale = Order
    PROVE  ReconSpec => [](vouched \subseteq applied)
<1>1. ReconInit => ReconInv
  BY ReconStarts
<1>2. ReconInv /\ [ReconNext]_<<vars, reconVars>> => ReconInv'
  BY ReconKeeps
<1>3. ASSUME NEW S, Cancelling(S)
      PROVE  S = {}
  <2>1. S \subseteq Fill /\ IsFiniteSet(S) /\ SumOver(FillNet, S) = 0
    BY <1>3 DEF Cancelling
  <2>2. \/ \A f \in S : FillNet[f] \in Int /\ FillNet[f] > 0
        \/ \A f \in S : FillNet[f] \in Int /\ FillNet[f] < 0
    <3>1. \A f \in S : f \in Fill /\ f.order \in Order
      BY <2>1 DEF Fill
    <3>. QED BY <3>1, NetOfFill
  <2>. QED BY <2>1, <2>2, SumCancelsNothing
<1>4. ReconInv => vouched \subseteq applied
  <2>1. ReconInv => vouched \ applied \subseteq offset /\ Cancelling(offset)
    BY DEF ReconInv, PassVouches
  <2>. QED BY <1>3, <2>1
<1>. QED BY <1>1, <1>2, <1>4, PTL DEF ReconSpec

-----------------------------------------------------------------------------
(* The reconciler: types, for any number of workers *)

ReconTyped ==
    /\ TypeInv /\ OwnExecutions /\ CarriesExecutions
    /\ recon \in ReconRecord /\ PassHasWorker /\ lastClean \in (SUBSET Fill) \X (SUBSET Fill)

\* A pass works on orders, statuses and fills that there are, whatever the
\* workers, submitters and venue do around it; so does the engine with a pass in it.
THEOREM PassesAreTyped == ReconSpec => [](TypeOK /\ ReconTypeOK)
<1>1. NoPass \in ReconRecord /\ NoPass.at = "idle"
  BY DEF NoPass, ReconRecord, ReconAt
<1>2. ReconInit => ReconTyped
  <2> SUFFICES ASSUME ReconInit PROVE ReconTyped
    OBVIOUS
  <2>1. TypeInv
    BY TypeInit DEF ReconInit
  <2>2. /\ \A o \in Order : venue[o].fills = {} /\ venue[o].filled = 0
        /\ applied = {} /\ position = 0 /\ \A v \in Worker : pc[v] = "idle" /\ todo[v] = {}
    BY DEF ReconInit, Init, VenueInit, NotAtVenue, PortfolioInit, Thread
  <2>3. OwnExecutions /\ CarriesExecutions
    BY <2>2 DEF OwnExecutions, CarriesExecutions
  <2>. QED BY <1>1, <2>1, <2>3 DEF ReconInit, ReconTyped, PassHasWorker, lastClean
<1>3. ASSUME ReconTyped, [ReconNext]_<<vars, reconVars>>
      PROVE  ReconTyped'
  <2>1. ASSUME [Next]_vars \/ ReadsOrAdopts
        PROVE  TypeInv' /\ OwnExecutions' /\ CarriesExecutions'
    BY <1>3, <2>1, TypeStep, StepCarries, ReadsKeepTypes DEF ReconTyped
  <2>2. StoreTypeOK /\ VenueTypeOK
    BY <1>3 DEF ReconTyped, TypeInv, TypeOK
  <2>3. CASE ReconStep
    <3>1. /\ PassMove
          /\ ReadsOrAdopts \/ (UNCHANGED recon /\ \E v \in Worker : WorkerStep(v))
          /\ UNCHANGED lastClean \/ lastClean' = <<recon.before, recon.missed>>
      BY <1>3, <2>2, <2>3, PassMoves DEF ReconTyped
    <3>2. [Next]_vars \/ ReadsOrAdopts
      BY <3>1 DEF Next
    <3>3. lastClean' \in (SUBSET Fill) \X (SUBSET Fill)
      BY <1>3, <3>1 DEF ReconTyped, ReconRecord
    <3>. QED BY <2>1, <3>1, <3>2, <3>3 DEF ReconTyped, PassMove
  <2>4. CASE EngineStep \/ UNCHANGED <<vars, reconVars>>
    <3>1. [Next]_vars /\ UNCHANGED recon /\ UNCHANGED lastClean
      BY <2>4 DEF EngineStep, Next, reconVars, lastClean
    <3>. QED BY <1>3, <2>1, <3>1 DEF ReconTyped, PassHasWorker
  <2>5. CASE ReconCrash
    <3>1. [Next]_vars /\ recon' = NoPass /\ lastClean' = <<{}, {}>>
      BY <2>5 DEF ReconCrash, Next, lastClean
    <3>. QED BY <1>1, <2>1, <3>1 DEF ReconTyped, PassHasWorker
  <2>. QED BY <1>3, <2>3, <2>4, <2>5 DEF ReconNext
<1>4. ReconTyped => TypeOK /\ ReconTypeOK
  BY DEF ReconTyped, TypeInv, ReconTypeOK, ReconRecord, lastClean
<1>. QED BY <1>2, <1>3, <1>4, PTL DEF ReconSpec
=============================================================================
