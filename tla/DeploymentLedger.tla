--------------------------- MODULE DeploymentLedger ---------------------------
(***************************************************************************)
(* The deployments of one capability (olympus/trading/rollback.py).  An    *)
(* operator deploys, which supersedes the active version; a trigger or an  *)
(* operator rolls back, which restores the version the active one          *)
(* replaced.  Either is two writes under the capability's lock, and the    *)
(* process may die between them.  Authorisation, evidence and the          *)
(* thresholds of the triggers are left out: any call may be refused.       *)
(***************************************************************************)
CONSTANTS
    Deployment,     \* deployment ids
    NoDeployment

ASSUME NoDeploymentAssumption == NoDeployment \notin Deployment

VARIABLES
    deployed,       \* the stored records: their state, and the one they replaced
    change          \* what the holder of the lock has read and is about to write

ledgerVars == <<deployed, change>>

State == {"absent", "active", "superseded", "rolled_back"}
Settled == [at |-> "settled", of |-> NoDeployment, previous |-> NoDeployment]

Write(d, record) == deployed' = [deployed EXCEPT ![d] = record]
Mark(d, state) == Write(d, [deployed[d] EXCEPT !.state = state])
Then(at) == change' = [change EXCEPT !.at = at]

\* active(): the newest active record; OneActive says the order is immaterial.
Active == {d \in Deployment : deployed[d].state = "active"}

\* Mutant: retreat to whatever was deployed, not to what this one replaced.
AnyOther(d) == {e \in Deployment \ {d} : deployed[e].state # "absent"}

\* The version a rollback restores; a first deployment has none.
Previous(d) == {deployed[d].previous} \ {NoDeployment}

-----------------------------------------------------------------------------

\* deploy() takes the lock; a known id is refused.
Deploy(d) ==
    /\ change = Settled
    /\ deployed[d].state = "absent"
    /\ \/ \E c \in Active :
              change' = [at |-> "supersede", of |-> d, previous |-> c]
       \/ /\ Active = {}
          /\ change' = [at |-> "activate", of |-> d, previous |-> NoDeployment]
    /\ UNCHANGED deployed

\* Mutant: the new version is written first.
SupersedeLate ==
    /\ change.at = "supersede"
    /\ Write(change.of, [state |-> "active", previous |-> change.previous])
    /\ Then("activate")

Supersede ==
    /\ change.at = "supersede"
    /\ Mark(change.previous, "superseded")
    /\ Then("activate")

Activate ==
    /\ change.at = "activate"
    /\ Write(change.of, [state |-> "active", previous |-> change.previous])
    /\ change' = Settled

\* rollback() of the active version; without a previous one it is refused.
Rollback ==
    /\ change = Settled
    /\ \E c \in Active : \E p \in Previous(c) :
           change' = [at |-> "retreat", of |-> c, previous |-> p]
    /\ UNCHANGED deployed

Retreat ==
    /\ change.at = "retreat"
    /\ Mark(change.of, "rolled_back")
    /\ Then("restore")

Restore ==
    /\ change.at = "restore"
    /\ Mark(change.previous, "active")
    /\ change' = Settled

\* The process dies, and its lock goes with it.
Die ==
    /\ change # Settled
    /\ change' = Settled
    /\ UNCHANGED deployed

LedgerInit ==
    /\ deployed = [d \in Deployment |-> [state |-> "absent", previous |-> NoDeployment]]
    /\ change = Settled

LedgerNext ==
    \/ \E d \in Deployment : Deploy(d)
    \/ Supersede \/ Activate \/ Rollback \/ Retreat \/ Restore \/ Die

LedgerSpec == LedgerInit /\ [][LedgerNext]_ledgerVars

-----------------------------------------------------------------------------
(* Properties *)

\* The records are deployments, and one call holds the lock.
LedgerTypeOK ==
    /\ deployed \in [Deployment -> [state : State, previous : Deployment \cup {NoDeployment}]]
    /\ change \in [at : {"settled", "supersede", "activate", "retreat", "restore"},
                   of : Deployment \cup {NoDeployment},
                   previous : Deployment \cup {NoDeployment}]

\* However deployments, rollbacks and crashes alternate, two versions are never
\* active (the order of the two writes of deploy() and of rollback()).
OneActive == \A c, d \in Active : c = d

\* A version that was retreated from is never restored, however many rollbacks
\* and deployments follow ("rollback that cannot overshoot").
RolledBackStaysBack ==
    [][\A d \in Deployment :
          deployed[d].state = "rolled_back" => deployed'[d].state = "rolled_back"]_ledgerVars
=============================================================================
