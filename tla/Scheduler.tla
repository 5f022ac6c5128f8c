------------------------------- MODULE Scheduler -------------------------------
(***************************************************************************)
(* The scheduled jobs of an installation (olympus/scheduler.py): users add *)
(* and change them while calls of run_due() (a tick of the heartbeat, one  *)
(* that was abandoned and still runs, the command line) find what is due,  *)
(* interrupted or changed, and mark, run and mark again each.  Every       *)
(* change is one locked load, modify and save of the whole file; between   *)
(* two of them a round holds only what it has read.                        *)
(*                                                                         *)
(* A name stands for an owner's job name.  Quarantined jobs, quotas and    *)
(* delivery are left out.  Each output of a watched command is a new one,  *)
(* and output 0 is none.                                                   *)
(***************************************************************************)
EXTENDS Integers

CONSTANTS
    Name,           \* names of jobs
    Round,           \* calls of run_due() that may be under way at a time
    Interval,       \* of the interval jobs
    ResumeAfter,    \* RESUME_AFTER
    ChangePoll,     \* ON_CHANGE_POLL
    MaxClock, MaxOutput, MaxAdds    \* bounds

ASSUME PeriodAssumption == Interval \in Nat \ {0} /\ ResumeAfter \in Nat /\ ChangePoll \in Nat
ASSUME BoundAssumption == MaxClock \in Nat /\ MaxOutput \in Nat /\ MaxAdds \in Nat

VARIABLES
    clock,
    jobs,           \* the stored jobs
    living,         \* the names whose watched process lives
    output,         \* the output of each watched command
    round,          \* what each round has read, and what it is doing
    wanted,         \* history: what the owner last asked of each name, and the adds so far
    fired,          \* history: the changes that were run
    refired,        \* history: those run more than once
    overlapped      \* history: two rounds have been under way at a time

schedVars == <<clock, jobs, living, output, round, wanted, fired, refired, overlapped>>

Kind == {"interval", "on_exit", "on_change"}

\* "added" is history: it tells a job from the one it replaced under its name.
Nothing == [kind |-> "none", enabled |-> FALSE, last |-> 0, started |-> 0,
            attempts |-> 0, hash |-> 0, added |-> 0]
Stored == {n \in Name : jobs[n] # Nothing}

\* A round: its time, the jobs it will run as it read them, those it resumes, the
\* changes it saw and has not marked, and the job in hand.
Hold(n, h) == [name |-> n, kind |-> jobs[n].kind, added |-> jobs[n].added, hash |-> h]
Idle == [at |-> "idle", now |-> 0, ready |-> {}, resumed |-> {}, seen |-> {}, job |-> Nothing]
Names(held) == {h.name : h \in held}

Be(p, r) == round' = [round EXCEPT ![p] = r]

\* Mutant: the job in hand is written back, whatever became of it.
PutAnyway(n, job) == jobs' = [jobs EXCEPT ![n] = job]

\* One locked load, modify and save: a job that is gone stays gone.
Put(n, job) == jobs' = [jobs EXCEPT ![n] = IF @ = Nothing THEN Nothing ELSE job]

-----------------------------------------------------------------------------
(* The owners, and the world *)

OwnerFrame == UNCHANGED <<clock, output, round, fired, refired, overlapped>>

\* add(), add_on_exit() with a living process, add_on_change() with a baseline,
\* or none when the command fails; each replaces the job of that name.
Add(n, kind, baseline) ==
    /\ wanted[n].adds < MaxAdds
    /\ LET job == [Nothing EXCEPT !.kind = kind, !.enabled = TRUE, !.added = wanted[n].adds + 1]
       IN  jobs' = [jobs EXCEPT ![n] =
               IF kind = "on_change" THEN [job EXCEPT !.last = clock, !.hash = baseline] ELSE job]
    /\ living' = IF kind = "on_exit" THEN living \cup {n} ELSE living
    /\ wanted' = [wanted EXCEPT ![n] = [word |-> "on", adds |-> @.adds + 1]]
    /\ OwnerFrame

Remove(n) ==
    /\ jobs' = [jobs EXCEPT ![n] = Nothing]
    /\ wanted' = [wanted EXCEPT ![n].word = "gone"]
    /\ UNCHANGED living /\ OwnerFrame

SetEnabled(n, on) ==
    /\ n \in Stored
    /\ Put(n, [jobs[n] EXCEPT !.enabled = on])
    /\ wanted' = [wanted EXCEPT ![n].word = IF on THEN "on" ELSE "off"]
    /\ UNCHANGED living /\ OwnerFrame

ProcessExits(n) ==
    /\ living' = living \ {n}
    /\ UNCHANGED <<jobs, wanted>> /\ OwnerFrame

NewOutput(n) ==
    /\ output[n] < MaxOutput
    /\ output' = [output EXCEPT ![n] = @ + 1]
    /\ UNCHANGED <<clock, jobs, living, round, wanted, fired, refired, overlapped>>

TimePasses ==
    /\ clock < MaxClock
    /\ clock' = clock + 1
    /\ UNCHANGED <<jobs, living, output, round, wanted, fired, refired, overlapped>>

-----------------------------------------------------------------------------
(* run_due() *)

World == UNCHANGED <<clock, living, output, wanted>>
Reading == World /\ UNCHANGED <<jobs, fired, refired>>
Marking == World /\ UNCHANGED <<fired, refired, overlapped>>

\* Job.due()
Due(n, now) ==
    /\ jobs[n].enabled
    /\ \/ jobs[n].kind = "interval" /\ now - jobs[n].last >= Interval
       \/ jobs[n].kind = "on_exit" /\ n \notin living

\* Each question loads the jobs again: what is due ...
BeginRound(p) ==
    /\ round[p] = Idle
    /\ Be(p, [Idle EXCEPT !.at = "interrupted", !.now = clock,
                          !.ready = {Hold(n, 0) : n \in {m \in Stored : Due(m, clock)}}])
    /\ overlapped' = (overlapped \/ \E q \in Round : round[q] # Idle)
    /\ Reading

\* ... which runs started, long ago, and never finished ...
Interrupted(n, now) ==
    /\ jobs[n].enabled /\ jobs[n].attempts < 1
    /\ jobs[n].started > jobs[n].last /\ now - jobs[n].started >= ResumeAfter

FindInterrupted(p) ==
    /\ round[p].at = "interrupted"
    /\ LET found == {n \in Stored \ Names(round[p].ready) : Interrupted(n, round[p].now)}
       IN  Be(p, [round[p] EXCEPT !.at = "changed", !.resumed = found,
                                 !.ready = @ \cup {Hold(n, 0) : n \in found}])
    /\ UNCHANGED overlapped /\ Reading

\* ... and which watched output differs, of the commands that can be run.
Changed(n, now) ==
    /\ jobs[n].enabled /\ jobs[n].kind = "on_change"
    /\ now - jobs[n].last >= ChangePoll
    /\ output[n] # jobs[n].hash

FindChanged(p) ==
    /\ round[p].at = "changed"
    /\ \E s \in SUBSET {n \in Stored \ Names(round[p].ready) : Changed(n, round[p].now)} :
           Be(p, [round[p] EXCEPT !.at = "next", !.seen = {Hold(n, output[n]) : n \in s}])
    /\ UNCHANGED overlapped /\ Reading

\* Mutant: the poll is noted and the output is not.
MarkPoll(p) ==
    /\ round[p].at = "next"
    /\ \E h \in round[p].seen :
        /\ Put(h.name, [jobs[h.name] EXCEPT !.last = round[p].now])
        /\ Be(p, [round[p] EXCEPT !.seen = @ \ {h}, !.ready = @ \cup {h}])
    /\ Marking

\* A change is marked before anything is run.
MarkHash(p) ==
    /\ round[p].at = "next"
    /\ \E h \in round[p].seen :
        /\ Put(h.name, [jobs[h.name] EXCEPT !.hash = h.hash, !.last = round[p].now])
        /\ Be(p, [round[p] EXCEPT !.seen = @ \ {h}, !.ready = @ \cup {h}])
    /\ Marking

NextJob(p) ==
    /\ round[p].at = "next" /\ round[p].seen = {}
    /\ \E h \in round[p].ready :
           Be(p, [round[p] EXCEPT !.job = h, !.ready = @ \ {h},
                     !.at = IF h.name \in round[p].resumed THEN "resume" ELSE "start"])
    /\ UNCHANGED overlapped /\ Reading

\* _bump_resume(), _mark_started() and, when the runner is back, _mark_ran().
MarkJob(p, at, job, then) ==
    /\ round[p].at = at
    /\ Put(round[p].job.name, job)
    /\ Be(p, [round[p] EXCEPT !.at = then, !.job = IF then = "next" THEN Nothing ELSE @])
    /\ Marking

InHand(p) == jobs[round[p].job.name]

BumpResume(p) == MarkJob(p, "resume", [InHand(p) EXCEPT !.attempts = @ + 1], "start")
MarkStarted(p) == MarkJob(p, "start", [InHand(p) EXCEPT !.started = round[p].now], "run")
MarkRan(p) ==
    MarkJob(p, "ran", [InHand(p) EXCEPT !.last = round[p].now, !.attempts = 0],
         IF round[p].job.kind = "on_exit" THEN "disable" ELSE "next")

\* A one-shot is off once it has run.
DisableOneShot(p) == MarkJob(p, "disable", [InHand(p) EXCEPT !.enabled = FALSE], "next")

\* The runner answers or raises.
RunJob(p) ==
    /\ round[p].at = "run"
    /\ Be(p, [round[p] EXCEPT !.at = "ran"])
    /\ LET h == round[p].job
           run == IF h.hash = 0 THEN {} ELSE {<<h.name, h.added, h.hash>>}
       IN  fired' = fired \cup run /\ refired' = refired \cup (fired \cap run)
    /\ UNCHANGED <<jobs, overlapped>> /\ World

\* The round is complete, its process dies, or a lock is not had in time.
EndRound(p) ==
    /\ round[p] # Idle
    /\ Be(p, Idle)
    /\ UNCHANGED overlapped /\ Reading

-----------------------------------------------------------------------------
SchedInit ==
    /\ clock = 0
    /\ jobs = [n \in Name |-> Nothing]
    /\ living = {}
    /\ output = [n \in Name |-> 1]
    /\ round = [p \in Round |-> Idle]
    /\ wanted = [n \in Name |-> [word |-> "gone", adds |-> 0]]
    /\ fired = {} /\ refired = {}
    /\ overlapped = FALSE

OwnerStep(n) ==
    \/ \E kind \in Kind, baseline \in {0, output[n]} : Add(n, kind, baseline)
    \/ \E on \in BOOLEAN : SetEnabled(n, on)
    \/ Remove(n) \/ ProcessExits(n) \/ NewOutput(n)

RoundStep(p) ==
    \/ BeginRound(p) \/ FindInterrupted(p) \/ FindChanged(p)
    \/ MarkHash(p) \/ NextJob(p) \/ BumpResume(p) \/ MarkStarted(p)
    \/ RunJob(p) \/ MarkRan(p) \/ DisableOneShot(p) \/ EndRound(p)

SchedNext ==
    \/ TimePasses
    \/ \E n \in Name : OwnerStep(n)
    \/ \E p \in Round : RoundStep(p)

SchedSpec == SchedInit /\ [][SchedNext]_schedVars

-----------------------------------------------------------------------------
(* Properties *)

\* The stored jobs are jobs.
SchedTypeOK ==
    /\ \A n \in Stored :
          jobs[n] \in [kind : Kind, enabled : BOOLEAN, last : 0 .. clock, started : 0 .. clock,
                       attempts : Nat, hash : 0 .. output[n], added : 1 .. wanted[n].adds]
    /\ living \subseteq Name

\* What an owner asked last stands, whatever rounds were running jobs on what
\* they had read before: a removed job stays removed, one that replaced another
\* is the one that is stored, a disabled one is not enabled again (the marks of
\* run_due() are each a load, modify and save under the mutex).
OwnerHasTheLastWord ==
    \A n \in Name :
        /\ n \in Stored <=> wanted[n].word # "gone"
        /\ n \in Stored => jobs[n].added = wanted[n].adds
        /\ wanted[n].word = "off" => ~jobs[n].enabled

\* As long as rounds have not overlapped, a change of a watched output is run at
\* most once, also when a run raises or the process dies at any point (the new
\* hash is stored before the run).
ChangeFiresOnce == ~overlapped => refired = {}
=============================================================================
