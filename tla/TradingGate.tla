----------------------------- MODULE TradingGate -----------------------------
(***************************************************************************)
(* What may stop an order before it exists: the kill switches              *)
(* (olympus/trading/killswitch.py), the status and drawdown halt of the    *)
(* strategy (strategy.py), and the order in which a pass of the pipeline   *)
(* (pipeline.py, risk.py) asks for them.  Every question is a read of the  *)
(* durable store, one switch at a time; operators, the monitor and the     *)
(* reconciler change the same records in between.                          *)
(*                                                                         *)
(* One strategy and one instrument.  Market data, forecasts, the limits    *)
(* and the operating mode are left out: a pass may stop at any stage.      *)
(***************************************************************************)
EXTENDS Integers, Sequences

CONSTANTS
    Operator,       \* threads and processes that lift switches and halts
    Nobody          \* of no switch and no halt

Scope == {"global", "strategy", "instrument"}

ASSUME LiftAssumption == Nobody \notin Scope \cup {"status"}

Setting == {"off", "manual", "auto"}

VARIABLES
    switch,         \* the stored state of each scope's switch
    strategy,       \* the strategy's stored record
    pass,           \* the stage of the trading pass, and the switches it has yet to read
    lift,           \* what each operator is about to lift, after its check
    standing,       \* history: the halts that have stood since the pass could last see them
    tripped         \* history: the scopes a rule has stopped and nobody has lifted since

gateVars == <<switch, strategy, pass, lift, standing, tripped>>

Stage == {"idle", "killswitch", "strategies", "active", "risk", "execute"}

Engaged(s) == switch[s] # "off"

Resting == [at |-> "idle", reads |-> <<>>]

\* A call that has passed its check.  "overtaken" and "masked" are history: the
\* halt it is about to lift fell after the check, or had been hidden from it by an
\* operator who engaged the tripped switch again.
Lift == [of : Scope \cup {"status"}, override : BOOLEAN, overtaken : BOOLEAN, masked : BOOLEAN]
NoLift == [of |-> Nobody, override |-> FALSE, overtaken |-> FALSE, masked |-> FALSE]

Masked(s) == s \in tripped /\ switch[s] = "manual"

Lifting(h, override, masked) ==
    [of |-> h, override |-> override, overtaken |-> FALSE, masked |-> masked]

-----------------------------------------------------------------------------
(* KillSwitchRegistry.  Every write replaces the whole record. *)

Overtake(h) == [o \in Operator |-> IF lift[o].of = h
                                   THEN [lift[o] EXCEPT !.overtaken = TRUE]
                                   ELSE lift[o]]

\* engage(): by an operator, or by a rule of the monitor or the reconciler.
Engage(s, auto) ==
    /\ switch' = [switch EXCEPT ![s] = IF auto THEN "auto" ELSE "manual"]
    /\ lift' = IF auto THEN Overtake(s) ELSE lift
    /\ tripped' = IF auto THEN tripped \cup {s} ELSE tripped
    /\ UNCHANGED <<strategy, pass, standing>>

\* Mutant: any caller may clear an automatic trip.
LiftUnchecked(o, s, override) ==
    /\ lift[o] = NoLift
    /\ lift' = [lift EXCEPT ![o] = Lifting(s, override, Masked(s))]
    /\ UNCHANGED <<switch, strategy, pass, standing, tripped>>

\* disengage() reads the switch, and refuses an automatic trip without an override ...
Disengage(o, s, override) ==
    /\ lift[o] = NoLift
    /\ switch[s] = "auto" => override
    /\ lift' = [lift EXCEPT ![o] = Lifting(s, override, Masked(s))]
    /\ UNCHANGED <<switch, strategy, pass, standing, tripped>>

\* ... and writes it off, whatever it holds by then.
WriteDisengaged(o) ==
    /\ lift[o].of \in Scope
    /\ switch' = [switch EXCEPT ![lift[o].of] = "off"]
    /\ standing' = standing \ {lift[o].of}
    /\ tripped' = tripped \ {lift[o].of}
    /\ lift' = [lift EXCEPT ![o] = NoLift]
    /\ UNCHANGED <<strategy, pass>>

-----------------------------------------------------------------------------
(* StrategyManager *)

\* pause() and disable(): one locked transition, which keeps the halt.
Suspend(status) ==
    /\ strategy' = [strategy EXCEPT !.status = status]
    /\ UNCHANGED <<switch, pass, lift, standing, tripped>>

\* record_equity() at the drawdown limit, under the strategy's lock.
DrawdownHalt ==
    /\ strategy.status = "enabled"
    /\ strategy' = [status |-> "paused", halted |-> TRUE]
    /\ lift' = Overtake("status")
    /\ UNCHANGED <<switch, pass, standing, tripped>>

\* enable() checks the record outside the lock ...
Enable(o, override) ==
    /\ lift[o] = NoLift
    /\ strategy.halted => override
    /\ lift' = [lift EXCEPT ![o] = Lifting("status", override, FALSE)]
    /\ UNCHANGED <<switch, strategy, pass, standing, tripped>>

\* ... and the transition clears the halt under it.
TransitionEnabled(o) ==
    /\ lift[o].of = "status"
    /\ strategy' = [status |-> "enabled", halted |-> FALSE]
    /\ standing' = standing \ {"status"}
    /\ lift' = [lift EXCEPT ![o] = NoLift]
    /\ UNCHANGED <<switch, pass, tripped>>

-----------------------------------------------------------------------------
(* One pass of TradingPipeline.process() *)

PassFrame == UNCHANGED <<switch, strategy, lift, tripped>>

\* Every question is put to the registry broadest scope first.
Ask(stage, scopes) == pass' = [at |-> stage, reads |-> scopes]

Stop == pass' = Resting /\ standing' = {}

\* A pass begins with the switches of everything and of the instrument.
Begin ==
    /\ pass = Resting
    /\ Ask("killswitch", <<"global", "instrument">>)
    /\ standing' = IF strategy.status = "enabled" THEN {} ELSE {"status"}
    /\ PassFrame

\* check(): the next read of the registry; an engaged switch ends the pass.
ReadSwitch ==
    /\ pass.reads # <<>>
    /\ IF Engaged(Head(pass.reads))
       THEN Stop
       ELSE pass' = [pass EXCEPT !.reads = Tail(@)] /\ UNCHANGED standing
    /\ PassFrame

\* Any stage may end the pass: an unreadable registry, unusable data, no
\* signal, a refusal by risk or by execute().
EndPass ==
    /\ pass.at # "idle"
    /\ Stop
    /\ PassFrame

Asked(stage) == pass.at = stage /\ pass.reads = <<>>

\* Data, forecasts and signals; then the manager is asked who may propose.
CollectSignals ==
    /\ Asked("killswitch")
    /\ Ask("strategies", <<>>)
    /\ UNCHANGED standing /\ PassFrame

\* is_active(): the record, then the switches of the strategy.
ReadStatus ==
    /\ Asked("strategies")
    /\ IF strategy.status = "enabled"
       THEN Ask("active", <<"global", "strategy">>) /\ UNCHANGED standing
       ELSE Stop
    /\ PassFrame

\* Mutant: risk asks without the strategy.
ProposeUnnamed ==
    /\ Asked("active")
    /\ Ask("risk", <<"global", "instrument">>)
    /\ standing' = standing \cup {s \in Scope : Engaged(s)}
    /\ PassFrame

\* The strategy proposes and authorise() begins, with all three scopes.
Propose ==
    /\ Asked("active")
    /\ Ask("risk", <<"global", "strategy", "instrument">>)
    /\ standing' = standing \cup {s \in Scope : Engaged(s)}
    /\ PassFrame

\* Risk approves: execute() is entered, and asks no switch again.
Approve ==
    /\ Asked("risk")
    /\ Ask("execute", <<>>)
    /\ UNCHANGED standing /\ PassFrame

\* The order goes out, and the pass is complete.
SendOrder ==
    /\ pass.at = "execute"
    /\ Stop
    /\ PassFrame

-----------------------------------------------------------------------------
GateInit ==
    /\ switch = [s \in Scope |-> "off"]
    /\ strategy = [status |-> "enabled", halted |-> FALSE]
    /\ pass = Resting
    /\ lift = [o \in Operator |-> NoLift]
    /\ standing = {}
    /\ tripped = {}

PassStep ==
    \/ Begin \/ ReadSwitch \/ EndPass
    \/ CollectSignals \/ ReadStatus \/ Propose \/ Approve \/ SendOrder

OperatorStep ==
    \/ \E s \in Scope, auto \in BOOLEAN : Engage(s, auto)
    \/ \E o \in Operator, s \in Scope, override \in BOOLEAN : Disengage(o, s, override)
    \/ \E o \in Operator : WriteDisengaged(o) \/ TransitionEnabled(o)
    \/ \E o \in Operator, override \in BOOLEAN : Enable(o, override)
    \/ \E status \in {"paused", "disabled"} : Suspend(status)
    \/ DrawdownHalt

GateNext == PassStep \/ OperatorStep

GateSpec == GateInit /\ [][GateNext]_gateVars

-----------------------------------------------------------------------------
(* Properties *)

\* The records are records of the classes that write them.
GateTypeOK ==
    /\ switch \in [Scope -> Setting]
    /\ strategy \in [status : {"enabled", "paused", "disabled"}, halted : BOOLEAN]
    /\ pass \in [at : Stage, reads : Seq(Scope)]
    /\ lift \in [Operator -> Lift \cup {NoLift}]
    /\ standing \subseteq Scope \cup {"status"}
    /\ tripped \subseteq Scope

\* An order goes out only if no switch has stood, over the market, the
\* strategy or the instrument, since the intent was put to risk, and the
\* strategy has been enabled at some moment of the pass (the order of the
\* checks of pipeline.process() and risk.authorise()).
HaltsStopOrders == pass.at = "execute" => standing = {}

\* Whoever lifts h in this step was given an override, or checked before h fell.
LiftedProperly(h) ==
    \E o \in Operator :
        /\ lift[o].of = h /\ lift'[o] = NoLift
        /\ lift[o].override \/ lift[o].overtaken

\* Whoever lifts h in this step saw a manual switch where a rule had tripped one.
LiftedMasked(h) == \E o \in Operator : lift[o].of = h /\ lift'[o] = NoLift /\ lift[o].masked

\* A scope that a rule has stopped and a strategy halted at its drawdown limit go on
\* only by an override, or by a call that had made its check before the halt fell, or,
\* for a scope, after an operator engaged the tripped switch again: engage() writes
\* "not automatic" over the trip, and a plain disengage() then passes its check
\* (killswitch.py and the enable() of strategy.py).
AutomaticHaltsHold ==
    [][ /\ \A s \in tripped : switch'[s] = "off" => LiftedProperly(s) \/ LiftedMasked(s)
        /\ strategy.halted /\ ~strategy'.halted => LiftedProperly("status") ]_gateVars
=============================================================================
