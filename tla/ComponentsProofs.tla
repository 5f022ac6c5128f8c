-------------------------- MODULE ComponentsProofs --------------------------
(***************************************************************************)
(* Proofs about the components side by side: what is proved of each of     *)
(* them by itself is so of every behaviour of the composition, which is    *)
(* what the model checker explores, and every component keeps its types.   *)
(***************************************************************************)
EXTENDS MCComponents, TradingControlProofs, PaymentProofs, OperationsProofs

-----------------------------------------------------------------------------
(* A component at rest, and one that moves *)

\* In the composition the engine under its reconciler does what it does alone.
LEMMA ReconcilerAlone == ComponentsSpec => ReconSpec
<1>1. ComponentsInit => ReconInit
  BY DEF ComponentsInit
<1>2. [ComponentsNext]_<<subject, Engine, gateVars, modeVars, mandateVars, railVars, ledgerVars,
                         schedVars, usageVars>>
      => [ReconNext]_<<vars, reconVars>>
  BY DEF ComponentsNext, Engine
<1>. QED BY <1>1, <1>2, PTL DEF ComponentsSpec, ReconSpec

\* So does the pipeline with its switches.
LEMMA GateAlone == ComponentsSpec => GateSpec
<1>1. ComponentsInit => GateInit
  BY DEF ComponentsInit
<1>2. [ComponentsNext]_<<subject, Engine, gateVars, modeVars, mandateVars, railVars, ledgerVars,
                         schedVars, usageVars>>
      => [GateNext]_gateVars
  BY DEF ComponentsNext
<1>. QED BY <1>1, <1>2, PTL DEF ComponentsSpec, GateSpec

\* So does the operating mode.
LEMMA ModeAlone == ComponentsSpec => ModeSpec
<1>1. ComponentsInit => ModeInit
  BY DEF ComponentsInit
<1>2. [ComponentsNext]_<<subject, Engine, gateVars, modeVars, mandateVars, railVars, ledgerVars,
                         schedVars, usageVars>>
      => [ModeNext]_modeVars
  BY DEF ComponentsNext
<1>. QED BY <1>1, <1>2, PTL DEF ComponentsSpec, ModeSpec

\* So does the record of mandates.
LEMMA MandatesAlone == ComponentsSpec => MandateSpec
<1>1. ComponentsInit => MandateInit
  BY DEF ComponentsInit
<1>2. [ComponentsNext]_<<subject, Engine, gateVars, modeVars, mandateVars, railVars, ledgerVars,
                         schedVars, usageVars>>
      => [MandateNext]_mandateVars
  BY DEF ComponentsNext
<1>. QED BY <1>1, <1>2, PTL DEF ComponentsSpec, MandateSpec

\* So does the payment rail.
LEMMA RailAlone == ComponentsSpec => RailSpec
<1>1. ComponentsInit => RailInit
  BY DEF ComponentsInit
<1>2. [ComponentsNext]_<<subject, Engine, gateVars, modeVars, mandateVars, railVars, ledgerVars,
                         schedVars, usageVars>>
      => [RailNext]_railVars
  BY DEF ComponentsNext
<1>. QED BY <1>1, <1>2, PTL DEF ComponentsSpec, RailSpec

\* So does the ledger of versions.
LEMMA DeploymentsAlone == ComponentsSpec => LedgerSpec
<1>1. ComponentsInit => LedgerInit
  BY DEF ComponentsInit
<1>2. [ComponentsNext]_<<subject, Engine, gateVars, modeVars, mandateVars, railVars, ledgerVars,
                         schedVars, usageVars>>
      => [LedgerNext]_ledgerVars
  BY DEF ComponentsNext
<1>. QED BY <1>1, <1>2, PTL DEF ComponentsSpec, LedgerSpec

\* So does the scheduler.
LEMMA JobsAlone == ComponentsSpec => SchedSpec
<1>1. ComponentsInit => SchedInit
  BY DEF ComponentsInit
<1>2. [ComponentsNext]_<<subject, Engine, gateVars, modeVars, mandateVars, railVars, ledgerVars,
                         schedVars, usageVars>>
      => [SchedNext]_schedVars
  BY DEF ComponentsNext
<1>. QED BY <1>1, <1>2, PTL DEF ComponentsSpec, SchedSpec

\* So does the usage ledger.
LEMMA UsageAlone == ComponentsSpec => UsageSpec
<1>1. ComponentsInit => UsageInit
  BY DEF ComponentsInit
<1>2. [ComponentsNext]_<<subject, Engine, gateVars, modeVars, mandateVars, railVars, ledgerVars,
                         schedVars, usageVars>>
      => [UsageNext]_usageVars
  BY DEF ComponentsNext
<1>. QED BY <1>1, <1>2, PTL DEF ComponentsSpec, UsageSpec

-----------------------------------------------------------------------------
(* Types *)

\* A line of the journal is a call or torn, and so on: what the proofs about the
\* usage ledger call typed is the type invariant of the model.
LEMMA LedgerOfCallsTyped == UsageSpec => []UsageTypeOK
<1>1. UsageInv => UsageTypeOK
  BY DEF UsageInv, UsageTyped, UsageTypeOK, Line
<1>. QED BY <1>1, UsageInvariant, PTL

\* Each component keeps its types whatever its actors do, and the engine keeps
\* its own with a pass of the reconciler in it.
THEOREM ComponentTypes == ComponentsSpec => []TypesOK
<1>1. ReconSpec => []TypeOK /\ []ReconTypeOK
  BY PassesAreTyped, PTL
<1>2. GateSpec => []GateTypeOK
  <2>1. HaltInv => GateTypeOK
    BY DEF HaltInv
  <2>. QED BY <2>1, HaltInvariant, PTL
<1>3. ModeSpec => []ModeTypeOK
  <2>1. ModeInv => ModeTypeOK
    BY DEF ModeInv
  <2>. QED BY <2>1, ModeInvariant, PTL
<1>4. MandateSpec => []MandateTypeOK
  <2>1. MandateInv => MandateTypeOK
    BY DEF MandateInv
  <2>. QED BY <2>1, MandateInvariant, PTL
<1>5. RailSpec => []RailTypeOK
  <2>1. RailInv => RailTypeOK
    BY DEF RailInv
  <2>. QED BY <2>1, RailInvariant, PTL
<1>6. LedgerSpec => []LedgerTypeOK
  <2>1. LedgerInv => LedgerTypeOK
    BY DEF LedgerInv
  <2>. QED BY <2>1, LedgerInvariant, PTL
<1>7. /\ TypeOK /\ ReconTypeOK /\ GateTypeOK /\ ModeTypeOK /\ MandateTypeOK /\ RailTypeOK
      /\ LedgerTypeOK /\ SchedTypeOK /\ UsageTypeOK
      => TypesOK
  BY DEF TypesOK
<1>. QED BY <1>1, <1>2, <1>3, <1>4, <1>5, <1>6, <1>7, JobsAreTyped, LedgerOfCallsTyped,
            ReconcilerAlone, GateAlone, ModeAlone, MandatesAlone, RailAlone, DeploymentsAlone,
            JobsAlone, UsageAlone, PTL
=============================================================================
