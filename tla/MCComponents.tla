----------------------------- MODULE MCComponents -----------------------------
(***************************************************************************)
(* Eight components that share no state in the models, side by side: a     *)
(* behaviour is one of them, chosen at the start, while the others rest.   *)
(***************************************************************************)
EXTENDS Reconciler, TradingGate, ModeControl, MandateStore, PaymentRail, DeploymentLedger,
        Scheduler, UsageLedger, TLC

CONSTANTS c3, i1, i2

\* The first two carts are drawn under one intent.
TwoUnderOne == [c \in Cart |-> IF c = c3 THEN i2 ELSE i1]

Interchangeable == Permutations(Round)

VARIABLE subject    \* the component this behaviour is of

Subject == {"reconciler", "gate", "mode", "mandates", "rail", "deployments", "scheduler",
            "usage"}

Engine == <<vars, reconVars>>

ComponentsInit ==
    /\ subject \in Subject
    /\ ReconInit /\ GateInit /\ ModeInit /\ MandateInit /\ RailInit /\ LedgerInit /\ SchedInit
    /\ UsageInit

ComponentsNext ==
    /\ UNCHANGED subject
    /\ \/ /\ subject = "reconciler" /\ ReconNext
          /\ UNCHANGED <<gateVars, modeVars, mandateVars, railVars, ledgerVars, schedVars,
                          usageVars>>
       \/ /\ subject = "gate" /\ GateNext
          /\ UNCHANGED <<Engine, modeVars, mandateVars, railVars, ledgerVars, schedVars,
                          usageVars>>
       \/ /\ subject = "mode" /\ ModeNext
          /\ UNCHANGED <<Engine, gateVars, mandateVars, railVars, ledgerVars, schedVars,
                          usageVars>>
       \/ /\ subject = "mandates" /\ MandateNext
          /\ UNCHANGED <<Engine, gateVars, modeVars, railVars, ledgerVars, schedVars,
                          usageVars>>
       \/ /\ subject = "rail" /\ RailNext
          /\ UNCHANGED <<Engine, gateVars, modeVars, mandateVars, ledgerVars, schedVars,
                          usageVars>>
       \/ /\ subject = "deployments" /\ LedgerNext
          /\ UNCHANGED <<Engine, gateVars, modeVars, mandateVars, railVars, schedVars,
                          usageVars>>
       \/ /\ subject = "scheduler" /\ SchedNext
          /\ UNCHANGED <<Engine, gateVars, modeVars, mandateVars, railVars, ledgerVars,
                          usageVars>>
       \/ /\ subject = "usage" /\ UsageNext
          /\ UNCHANGED <<Engine, gateVars, modeVars, mandateVars, railVars, ledgerVars,
                          schedVars>>

ComponentsSpec == ComponentsInit /\ [][ComponentsNext]_<<subject, Engine, gateVars, modeVars,
                                        mandateVars, railVars, ledgerVars, schedVars,
                          usageVars>>

\* The types of the components, and of the engine under its reconciler.
TypesOK ==
    /\ TypeOK /\ ReconTypeOK /\ GateTypeOK /\ ModeTypeOK
    /\ MandateTypeOK /\ RailTypeOK /\ LedgerTypeOK /\ SchedTypeOK
    /\ UsageTypeOK
=============================================================================
