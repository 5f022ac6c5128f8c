----------------------------- MODULE ModeControl -----------------------------
(***************************************************************************)
(* The operating mode (olympus/trading/modes.py) and the engine's question *)
(* for it (execution.py).  request() reads the mode in force, lets every   *)
(* step down through, and asks a token and every deployment gate of a step *)
(* up; the gates are slow, and the record is written whole at the end,     *)
(* over whatever another process wrote meanwhile.  execute() asks for the  *)
(* mode twice before it sends an order.                                    *)
(*                                                                         *)
(* The modes that trade no real money (backtest, paper, shadow) are one,   *)
(* and "current" stands for what a process makes of the record.            *)
(***************************************************************************)
EXTENDS Integers

CONSTANTS
    Process,        \* processes with a mode controller
    Trusted         \* those constructed with the operator token

ASSUME TrustedAssumption == Trusted \subseteq Process

Rank == [paper |-> 1, live_restricted |-> 3, live_bounded |-> 4]
Mode == DOMAIN Rank
IsLive(m) == m # "paper"

VARIABLES
    modeRecord,     \* the stored record: its mode, and whether it carries gate results
    control,        \* where each process is, and what its call read or proved
    earned          \* history: the live mode a request last earned, no other written since

modeVars == <<modeRecord, control, earned>>

Step == {"idle", "gates", "audit", "put", "verify", "send"}

\* wants: the mode asked for, or the mode an order would carry; proven: the
\* request's own gates all passed; halted: history, live trading was called off
\* before this execute() asked a second time, and is off since.
AtRest == [at |-> "idle", wants |-> "paper", proven |-> FALSE, halted |-> FALSE]

\* Mutant: any record of a live mode is believed.
CredibleIfWritten(p) == p \in Trusted

\* _live_record_is_credible(): this process holds the token, and the record
\* carries the results of gates that passed.
Credible(p) == p \in Trusted /\ modeRecord.gates

\* current(): paper, unless a credible record says otherwise.
Current(p) ==
    IF IsLive(modeRecord.mode) /\ ~Credible(p) THEN "paper" ELSE modeRecord.mode

Become(p, r) == control' = [control EXCEPT ![p] = r]

-----------------------------------------------------------------------------
(* request() *)

\* The previous mode is read, and a step down needs nothing.  (A wrong or missing
\* token, or no operator's name, raises and changes nothing.)
Request(p, m) ==
    /\ control[p] = AtRest
    /\ LET down == ~IsLive(m) \/ Rank[m] < Rank[Current(p)] IN
        /\ down \/ p \in Trusted
        /\ Become(p, [AtRest EXCEPT
               !.wants = m,
               !.at = IF ~down THEN "gates" ELSE IF IsLive(m) THEN "audit" ELSE "put"])
    /\ UNCHANGED <<modeRecord, earned>>

\* Every gate passes, by run_gates() or by presented results that are complete.
GatesPass(p) ==
    /\ control[p].at = "gates"
    /\ Become(p, [control[p] EXCEPT !.at = "audit", !.proven = TRUE])
    /\ UNCHANGED <<modeRecord, earned>>

\* A failed gate, or a trail that cannot record a change to a live mode, raises.
Refuse(p) ==
    /\ control[p].at \in {"gates", "audit"}
    /\ Become(p, AtRest)
    /\ UNCHANGED <<modeRecord, earned>>

\* MODE_CHANGED is on the trail before the mode is live.
AuditLive(p) ==
    /\ control[p].at = "audit"
    /\ Become(p, [control[p] EXCEPT !.at = "put"])
    /\ UNCHANGED <<modeRecord, earned>>

\* _commit() writes the record, with the evidence of this request only.
Commit(p) ==
    /\ control[p].at = "put"
    /\ modeRecord' = [mode |-> control[p].wants, gates |-> control[p].proven]
    /\ earned' = IF control[p].proven THEN control[p].wants ELSE "paper"
    /\ control' = [q \in Process |->
           IF q = p THEN AtRest
           ELSE IF control[q].at = "verify" THEN [control[q] EXCEPT !.halted = ~IsLive(earned')]
           ELSE control[q]]

-----------------------------------------------------------------------------
(* execute() *)

\* _effective_mode(): the mode the order will carry.
ReadMode(p) ==
    /\ control[p] = AtRest
    /\ Become(p, [AtRest EXCEPT !.wants = Current(p),
                                !.at = IF IsLive(Current(p)) THEN "verify" ELSE "send"])
    /\ UNCHANGED <<modeRecord, earned>>

\* Mutant: the mode that was read is enough.
VerifyRead(p) ==
    /\ control[p].at = "verify"
    /\ Become(p, [control[p] EXCEPT !.at = "send"])
    /\ UNCHANGED <<modeRecord, earned>>

\* permits_live_orders(): asked again, and any live mode will do.
VerifyMode(p) ==
    /\ control[p].at = "verify"
    /\ Become(p, IF IsLive(Current(p)) THEN [control[p] EXCEPT !.at = "send"] ELSE AtRest)
    /\ UNCHANGED <<modeRecord, earned>>

\* The order goes out, or a later check of execute() refuses it.
FinishExecute(p) ==
    /\ control[p].at = "send"
    /\ Become(p, AtRest)
    /\ UNCHANGED <<modeRecord, earned>>

-----------------------------------------------------------------------------
ModeInit ==
    /\ modeRecord = [mode |-> "paper", gates |-> FALSE]
    /\ control = [p \in Process |-> AtRest]
    /\ earned = "paper"

ModeNext ==
    \E p \in Process :
        \/ \E m \in Mode : Request(p, m)
        \/ GatesPass(p) \/ Refuse(p) \/ AuditLive(p) \/ Commit(p)
        \/ ReadMode(p) \/ VerifyMode(p) \/ FinishExecute(p)

ModeSpec == ModeInit /\ [][ModeNext]_modeVars
-----------------------------------------------------------------------------
(* Properties *)

\* The record is one of _commit()'s, and the history is of the processes' steps.
ModeTypeOK ==
    /\ modeRecord \in [mode : Mode, gates : BOOLEAN]
    /\ control \in [Process -> [at : Step, wants : Mode, proven : BOOLEAN, halted : BOOLEAN]]
    /\ earned \in Mode

\* A process finds a live mode in force only if the last request to write the
\* record passed every gate for that very mode: no step down on a stale reading
\* and no race between two operators makes live what was not earned
\* (_live_record_is_credible()).
LiveIsEarned ==
    \A p \in Process : IsLive(Current(p)) => p \in Trusted /\ Current(p) = earned

\* Live trading called off before execute() asks its second question stops the
\* order (disable_live() against _verify_mode_permits_orders()).
StopBeatsExecute ==
    \A p \in Process : control[p].at = "send" /\ IsLive(control[p].wants) => ~control[p].halted
=============================================================================
