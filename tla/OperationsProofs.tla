--------------------------- MODULE OperationsProofs ---------------------------
(***************************************************************************)
(* Proofs about what an installation does by itself: the scheduled jobs    *)
(* and the ledger of what its model calls cost, for any number of jobs,    *)
(* rounds, processes and calls.                                            *)
(***************************************************************************)
EXTENDS Scheduler, UsageLedger, SetSums, FiniteSetTheorems, TLAPS

-----------------------------------------------------------------------------
(* The scheduled jobs *)

Job == [kind : Kind, enabled : BOOLEAN, last : Nat, started : Nat,
        attempts : Nat, hash : Nat, added : Nat \ {0}]

\* A job as a round holds it.
Held == [name : Name, kind : Kind, added : Nat \ {0}, hash : Nat]

Working == {"resume", "start", "run", "ran", "disable"}

RoundState == [at : {"idle", "interrupted", "changed", "next"} \cup Working, now : Nat,
               ready : SUBSET Held, resumed : SUBSET Name, seen : SUBSET Held,
               job : Held \cup {Nothing}]

Wish == [word : {"gone", "on", "off"}, adds : Nat]

\* A round state carries h: it waits for its turn or is in hand.
Carries(r, h) == h \in r.seen \cup r.ready \/ (r.at \in Working /\ h = r.job)

SchedTyped ==
    /\ clock \in Nat
    /\ jobs \in [Name -> Job \cup {Nothing}]
    /\ output \in [Name -> Nat]
    /\ round \in [Round -> RoundState]
    /\ wanted \in [Name -> Wish]
    /\ fired \subseteq Name \X (Nat \ {0}) \X Nat
    /\ \A p \in Round : round[p].at \in Working => round[p].job \in Held

\* Nothing is of a later time than the present: no output and no job.
NothingAhead ==
    /\ \A n \in Name : jobs[n].hash <= output[n]
    /\ \A p \in Round, h \in Held : Carries(round[p], h) =>
          h.added <= wanted[h.name].adds /\ h.hash <= output[h.name]
    /\ \A t \in fired : t[2] <= wanted[t[1]].adds

SchedInv == SchedTyped /\ NothingAhead /\ OwnerHasTheLastWord

\* A job is never mistaken for none.
LEMMA JobIsSomething ==
    /\ Nothing \notin Job /\ Nothing \notin Held
    /\ \A job \in Job : job # Nothing
    /\ Nothing.added = 0 /\ Nothing.hash = 0 /\ Nothing.enabled = FALSE
BY DEF Nothing, Job, Held, Kind

\* What a round may do to the job of a name: it does not come or go, it is the
\* one that was added, and it is not enabled.
Respects(n) ==
    /\ jobs'[n] \in Job \cup {Nothing}
    /\ jobs'[n] = Nothing <=> jobs[n] = Nothing
    /\ jobs'[n].added = jobs[n].added
    /\ jobs'[n].enabled => jobs[n].enabled

\* One locked load, modify and save of a job that is as before but for its marks.
LEMMA PutRespects ==
    ASSUME SchedTyped, NEW n \in Name, NEW job, Put(n, job),
           jobs[n] \in Job => /\ job \in Job /\ job.added = jobs[n].added
                              /\ job.enabled => jobs[n].enabled
    PROVE  /\ jobs' \in [Name -> Job \cup {Nothing}]
           /\ \A m \in Name : Respects(m) /\ (m # n => jobs'[m] = jobs[m])
           /\ jobs'[n] = IF jobs[n] = Nothing THEN Nothing ELSE job
<1>1. \A m \in Name : jobs[m] \in Job \cup {Nothing}
  BY DEF SchedTyped
<1>2. jobs' = [jobs EXCEPT ![n] = IF jobs[n] = Nothing THEN Nothing ELSE job]
  BY DEF Put
<1>3. /\ \A m \in Name : m # n => jobs'[m] = jobs[m]
      /\ jobs'[n] = IF jobs[n] = Nothing THEN Nothing ELSE job
  BY <1>2 DEF SchedTyped
<1>4. \A m \in Name : Respects(m)
  BY <1>1, <1>3, JobIsSomething DEF Respects
<1>. QED BY <1>1, <1>2, <1>3, <1>4 DEF SchedTyped, Respects

\* The marks of a job in hand leave what it was added for, and may put it off.
LEMMA MarkRespects ==
    ASSUME SchedTyped, NEW p \in Round, NEW job, round[p].at \in Working,
           Put(round[p].job.name, job),
           \/ job = [InHand(p) EXCEPT !.attempts = @ + 1]
           \/ job = [InHand(p) EXCEPT !.started = round[p].now]
           \/ job = [InHand(p) EXCEPT !.last = round[p].now, !.attempts = 0]
           \/ job = [InHand(p) EXCEPT !.enabled = FALSE]
    PROVE  /\ jobs' \in [Name -> Job \cup {Nothing}]
           /\ \A m \in Name : Respects(m) /\ jobs'[m].hash = jobs[m].hash
<1> DEFINE n == round[p].job.name
<1>1. n \in Name /\ round[p].now \in Nat
  BY DEF SchedTyped, Held, RoundState
<1>2. ASSUME jobs[n] \in Job
      PROVE  /\ job \in Job /\ job.added = jobs[n].added /\ job.hash = jobs[n].hash
             /\ job.enabled => jobs[n].enabled
  <2>1. PICK j \in Job :
          /\ j = jobs[n]
          /\ \/ job = [j EXCEPT !.attempts = @ + 1]
             \/ job = [j EXCEPT !.started = round[p].now]
             \/ job = [j EXCEPT !.last = round[p].now, !.attempts = 0]
             \/ job = [j EXCEPT !.enabled = FALSE]
    BY <1>2 DEF InHand
  <2> HIDE DEF n
  <2>2. /\ job \in Job /\ job.added = j.added /\ job.hash = j.hash
        /\ job.enabled => j.enabled
    <3>1. j.attempts + 1 \in Nat /\ round[p].now \in Nat /\ 0 \in Nat /\ FALSE \in BOOLEAN
      BY <1>1 DEF Job
    <3>2. CASE job = [j EXCEPT !.attempts = @ + 1]
      BY <3>1, <3>2 DEF Job
    <3>3. CASE job = [j EXCEPT !.started = round[p].now]
      BY <3>1, <3>3 DEF Job
    <3>4. CASE job = [j EXCEPT !.last = round[p].now, !.attempts = 0]
      BY <3>1, <3>4 DEF Job
    <3>5. CASE job = [j EXCEPT !.enabled = FALSE]
      BY <3>5 DEF Job
    <3>. QED BY <2>1, <3>2, <3>3, <3>4, <3>5
  <2>. QED BY <2>1, <2>2
<1>3. jobs[n] \in Job \cup {Nothing}
  BY <1>1 DEF SchedTyped
<1> HIDE DEF n
<1>4. Put(n, job)
  BY DEF n
<1>. QED BY <1>1, <1>2, <1>3, <1>4, PutRespects

\* A job held with the output that is stored for it, or with none.
LEMMA HoldIsHeld ==
    ASSUME SchedInv, NEW n \in Stored, NEW h \in {0, output[n]}
    PROVE  /\ Hold(n, h) \in Held /\ Hold(n, h).name = n /\ Hold(n, h).hash = h
           /\ Hold(n, h).added = jobs[n].added
           /\ Hold(n, h).added <= wanted[n].adds /\ h <= output[n]
<1>1. n \in Name /\ jobs[n] \in Job /\ output[n] \in Nat /\ wanted[n] \in Wish
  BY DEF SchedInv, SchedTyped, Stored
<1>2. jobs[n].added = wanted[n].adds
  BY <1>1 DEF SchedInv, OwnerHasTheLastWord
<1>. QED BY <1>1, <1>2 DEF Hold, Held, Job, Wish

\* Where a step takes a round that was at r: it carries what it carried, or jobs
\* that it has just read.
Onwards(p, r) ==
    /\ r \in RoundState
    /\ round' = [round EXCEPT ![p] = r]
    /\ r.at \in Working => r.job \in Held
    /\ \A h : Carries(r, h) =>
          Carries(round[p], h) \/ \E n \in Stored : \E o \in {0, output[n]} : h = Hold(n, o)

\* Each step of a round carries on with what it had, or with what it has just read.
LEMMA RoundGoesOn ==
    ASSUME SchedInv, NEW p \in Round, RoundStep(p)
    PROVE  \E r : Onwards(p, r)
<1> DEFINE q == round[p]
<1>1. q \in RoundState /\ (q.at \in Working => q.job \in Held) /\ clock \in Nat
  BY DEF SchedInv, SchedTyped
<1>2. Idle \in RoundState /\ Idle.at = "idle" /\ Idle.seen = {} /\ Idle.ready = {}
  BY DEF Idle, RoundState
<1>3. "idle" \notin Working /\ "interrupted" \notin Working /\ "changed" \notin Working /\ "next" \notin Working
  BY DEF Working
<1>4. CASE BeginRound(p)
  <2> DEFINE found == {Hold(n, 0) : n \in {m \in Stored : Due(m, clock)}}
             r == [Idle EXCEPT !.at = "interrupted", !.now = clock, !.ready = found]
  <2>1. found \subseteq Held /\ \A h \in found : \E n \in Stored : h = Hold(n, 0)
    BY HoldIsHeld
  <2>2. round' = [round EXCEPT ![p] = r]
    BY <1>4 DEF BeginRound, Be
  <2> HIDE DEF found
  <2>3. r \in RoundState /\ r.at = "interrupted" /\ r.seen = {} /\ r.ready = found
    BY <1>1, <2>1 DEF Idle, RoundState
  <2> HIDE DEF r
  <2>. QED BY <1>3, <2>1, <2>2, <2>3 DEF Onwards, Carries
<1>5. CASE FindInterrupted(p)
  <2> DEFINE found == {n \in Stored \ Names(q.ready) : Interrupted(n, q.now)}
             more == {Hold(n, 0) : n \in found}
             r == [q EXCEPT !.at = "changed", !.resumed = found, !.ready = @ \cup more]
  <2>1. more \subseteq Held /\ \A h \in more : \E n \in Stored : h = Hold(n, 0)
    BY HoldIsHeld
  <2>2. round' = [round EXCEPT ![p] = r] /\ found \subseteq Name
    BY <1>5 DEF FindInterrupted, Be, Stored
  <2> HIDE DEF more, found
  <2>3. r \in RoundState /\ r.at = "changed" /\ r.seen = q.seen /\ r.ready = q.ready \cup more
    BY <1>1, <2>1, <2>2 DEF RoundState
  <2> HIDE DEF r
  <2>4. \A h \in more : \E n \in Stored : \E o \in {0, output[n]} : h = Hold(n, o)
    BY <2>1
  <2>5. \A h : Carries(r, h) => Carries(q, h) \/ h \in more
    BY <1>3, <2>3 DEF Carries
  <2>6. Onwards(p, r)
    BY <1>3, <2>2, <2>3, <2>4, <2>5 DEF Onwards
  <2>. QED BY <2>6
<1>6. CASE FindChanged(p)
  <2>1. PICK s \in SUBSET {n \in Stored \ Names(q.ready) : Changed(n, q.now)} :
          Be(p, [q EXCEPT !.at = "next", !.seen = {Hold(n, output[n]) : n \in s}])
    BY <1>6 DEF FindChanged
  <2> DEFINE found == {Hold(n, output[n]) : n \in s}
             r == [q EXCEPT !.at = "next", !.seen = found]
  <2>2. found \subseteq Held /\ \A h \in found : \E n \in Stored : h = Hold(n, output[n])
    BY HoldIsHeld
  <2>3. round' = [round EXCEPT ![p] = r]
    BY <2>1 DEF Be
  <2> HIDE DEF found
  <2>4. r \in RoundState /\ r.at = "next" /\ r.seen = found /\ r.ready = q.ready
    BY <1>1, <2>2 DEF RoundState
  <2> HIDE DEF r
  <2>5. \A h \in found : \E n \in Stored : \E o \in {0, output[n]} : h = Hold(n, o)
    BY <2>2
  <2>6. \A h : Carries(r, h) => Carries(q, h) \/ h \in found
    BY <1>3, <2>4 DEF Carries
  <2>7. Onwards(p, r)
    BY <1>3, <2>3, <2>4, <2>5, <2>6 DEF Onwards
  <2>. QED BY <2>7
<1>7. CASE MarkHash(p)
  <2>1. PICK h \in q.seen : Be(p, [q EXCEPT !.seen = @ \ {h}, !.ready = @ \cup {h}])
    BY <1>7 DEF MarkHash
  <2> DEFINE r == [q EXCEPT !.seen = @ \ {h}, !.ready = @ \cup {h}]
  <2>2. round' = [round EXCEPT ![p] = r] /\ q.at = "next"
    BY <1>7, <2>1 DEF MarkHash, Be
  <2>3. /\ r \in RoundState /\ r.at = "next"
        /\ r.seen = q.seen \ {h} /\ r.ready = q.ready \cup {h}
    BY <1>1, <2>1, <2>2 DEF RoundState
  <2> HIDE DEF r
  <2>. QED BY <1>3, <2>1, <2>2, <2>3 DEF Onwards, Carries
<1>8. CASE NextJob(p)
  <2>1. PICK h \in q.ready : Be(p, [q EXCEPT !.job = h, !.ready = @ \ {h},
                                !.at = IF h.name \in q.resumed THEN "resume" ELSE "start"])
    BY <1>8 DEF NextJob
  <2> DEFINE at == IF h.name \in q.resumed THEN "resume" ELSE "start"
             r == [q EXCEPT !.job = h, !.ready = @ \ {h}, !.at = at]
  <2>2. round' = [round EXCEPT ![p] = r] /\ at \in Working
    BY <2>1 DEF Be, Working
  <2> HIDE DEF at
  <2>3. /\ r \in RoundState /\ r.at = at /\ r.job = h /\ h \in Held
        /\ r.seen = q.seen /\ r.ready = q.ready \ {h}
    BY <1>1, <2>1, <2>2 DEF RoundState
  <2> HIDE DEF r
  <2>. QED BY <2>1, <2>2, <2>3 DEF Onwards, Carries
<1>9. ASSUME NEW at \in Working, NEW job, NEW then \in Working \cup {"next"}, MarkJob(p, at, job, then)
      PROVE  \E r : Onwards(p, r)
  <2> DEFINE r == [q EXCEPT !.at = then, !.job = IF then = "next" THEN Nothing ELSE @]
  <2>1. round' = [round EXCEPT ![p] = r] /\ q.at \in Working
    BY <1>9 DEF MarkJob, Be
  <2>2. /\ r \in RoundState /\ r.at = then /\ r.seen = q.seen /\ r.ready = q.ready
        /\ then # "next" => r.job = q.job
    BY <1>1 DEF RoundState
  <2> HIDE DEF r
  <2>. QED BY <1>1, <1>3, <2>1, <2>2 DEF Onwards, Carries
<1>10. CASE BumpResume(p) \/ MarkStarted(p) \/ MarkRan(p) \/ DisableOneShot(p)
  BY <1>9, <1>10 DEF BumpResume, MarkStarted, MarkRan, DisableOneShot, Working
<1>11. CASE RunJob(p)
  <2> DEFINE r == [q EXCEPT !.at = "ran"]
  <2>1. round' = [round EXCEPT ![p] = r] /\ q.at = "run"
    BY <1>11 DEF RunJob, Be
  <2>2. r \in RoundState /\ r.at = "ran" /\ r.seen = q.seen /\ r.ready = q.ready /\ r.job = q.job
    BY <1>1 DEF RoundState, Working
  <2> HIDE DEF r
  <2>. QED BY <1>1, <2>1, <2>2 DEF Onwards, Carries, Working
<1>12. CASE EndRound(p)
  BY <1>2, <1>3, <1>12 DEF EndRound, Be, Onwards, Carries
<1>. QED BY <1>4, <1>5, <1>6, <1>7, <1>8, <1>10, <1>11, <1>12 DEF RoundStep

\* What a step of a round does to the store, and to the history.
LEMMA RoundRespects ==
    ASSUME SchedInv, NEW p \in Round, RoundStep(p)
    PROVE  /\ UNCHANGED <<clock, output, wanted>>
           /\ jobs' \in [Name -> Job \cup {Nothing}]
           /\ \A n \in Name : Respects(n) /\ jobs'[n].hash <= output[n]
           /\ \A t \in fired' \ fired : \E h \in Held :
                 Carries(round[p], h) /\ t = <<h.name, h.added, h.hash>>
<1>1. /\ UNCHANGED <<clock, output, wanted>>
      /\ RunJob(p) \/ fired' = fired
  BY DEF RoundStep, BeginRound, FindInterrupted, FindChanged, MarkHash, NextJob, BumpResume,
         MarkStarted, RunJob, MarkRan, DisableOneShot, EndRound, MarkJob, Reading, Marking, World
<1>2. /\ round[p] \in RoundState /\ (round[p].at \in Working => round[p].job \in Held)
      /\ \A n \in Name : jobs[n].hash <= output[n]
  BY DEF SchedInv, SchedTyped, NothingAhead
<1>3. CASE UNCHANGED <<jobs, fired>>
  BY <1>1, <1>2, <1>3 DEF SchedInv, SchedTyped, Respects
<1>4. CASE MarkHash(p)
  <2>1. PICK h \in round[p].seen :
            Put(h.name, [jobs[h.name] EXCEPT !.hash = h.hash, !.last = round[p].now])
    BY <1>4 DEF MarkHash
  <2> DEFINE n == h.name
             job == [jobs[n] EXCEPT !.hash = h.hash, !.last = round[p].now]
  <2>2. h \in Held /\ n \in Name /\ h.hash \in Nat /\ round[p].now \in Nat /\ Carries(round[p], h)
    BY <1>2 DEF RoundState, Held, Carries
  <2>3. h.hash <= output[n]
    BY <2>2 DEF SchedInv, NothingAhead
  <2>4. ASSUME jobs[n] \in Job
        PROVE  /\ job \in Job /\ job.added = jobs[n].added /\ job.hash = h.hash
               /\ job.enabled = jobs[n].enabled
    <3>1. PICK j \in Job : j = jobs[n]
      BY <2>4
    <3>2. job = [j EXCEPT !.hash = h.hash, !.last = round[p].now]
      BY <3>1
    <3> HIDE DEF job, n
    <3>. QED BY <2>2, <3>1, <3>2 DEF Job
  <2>5. Put(n, job)
    BY <2>1
  <2> HIDE DEF job, n
  <2>6. jobs[n] \in Job \cup {Nothing}
    BY <2>2 DEF SchedInv, SchedTyped
  <2>. QED BY <1>1, <1>2, <2>2, <2>3, <2>4, <2>5, <2>6, PutRespects, JobIsSomething, <1>4
           DEF SchedInv, MarkHash, Marking
<1>5. CASE BumpResume(p) \/ MarkStarted(p) \/ MarkRan(p) \/ DisableOneShot(p)
  <2>1. PICK job :
          /\ round[p].at \in Working /\ Put(round[p].job.name, job)
          /\ \/ job = [InHand(p) EXCEPT !.attempts = @ + 1]
             \/ job = [InHand(p) EXCEPT !.started = round[p].now]
             \/ job = [InHand(p) EXCEPT !.last = round[p].now, !.attempts = 0]
             \/ job = [InHand(p) EXCEPT !.enabled = FALSE]
    BY <1>5 DEF BumpResume, MarkStarted, MarkRan, DisableOneShot, MarkJob, Working
  <2>2. /\ jobs' \in [Name -> Job \cup {Nothing}]
        /\ \A m \in Name : Respects(m) /\ jobs'[m].hash = jobs[m].hash
    BY <2>1, MarkRespects DEF SchedInv
  <2>3. fired' = fired
    BY <1>5 DEF BumpResume, MarkStarted, MarkRan, DisableOneShot, MarkJob, Marking
  <2>. QED BY <1>1, <1>2, <2>2, <2>3
<1>6. CASE RunJob(p)
  <2>1. /\ UNCHANGED jobs /\ round[p].at = "run"
        /\ fired' \subseteq fired \cup {<<round[p].job.name, round[p].job.added, round[p].job.hash>>}
    BY <1>6 DEF RunJob
  <2>2. round[p].job \in Held /\ Carries(round[p], round[p].job)
    BY <1>2, <2>1 DEF Working, Carries
  <2>. QED BY <1>1, <1>2, <2>1, <2>2 DEF SchedInv, SchedTyped, Respects
<1>7. \/ UNCHANGED <<jobs, fired>>
      \/ MarkHash(p) \/ BumpResume(p) \/ MarkStarted(p) \/ MarkRan(p) \/ DisableOneShot(p)
      \/ RunJob(p)
  BY DEF RoundStep, BeginRound, FindInterrupted, FindChanged, NextJob, EndRound, Reading
<1>. QED BY <1>3, <1>4, <1>5, <1>6, <1>7

\* A round keeps the invariant of the jobs.
LEMMA RoundStepKeepsSched ==
    ASSUME SchedInv, NEW p \in Round, RoundStep(p)
    PROVE  SchedInv'
<1>1. PICK r : Onwards(p, r)
  BY RoundGoesOn
<1>2. /\ clock \in Nat /\ output \in [Name -> Nat] /\ wanted \in [Name -> Wish]
      /\ fired \subseteq Name \X (Nat \ {0}) \X Nat
      /\ round \in [Round -> RoundState]
      /\ \A q \in Round : round[q].at \in Working => round[q].job \in Held
  BY DEF SchedInv, SchedTyped
<1>3. \A q \in Round : round'[q] = IF q = p THEN r ELSE round[q]
  BY <1>1, <1>2 DEF Onwards
<1>4. round' \in [Round -> RoundState]
  BY <1>1, <1>2 DEF Onwards
<1>5. \A h \in Held : <<h.name, h.added, h.hash>> \in Name \X (Nat \ {0}) \X Nat
  BY DEF Held
<1>6. SchedTyped'
  BY <1>1, <1>2, <1>3, <1>4, <1>5, RoundRespects DEF SchedTyped, Onwards
<1>7. \A h \in Held : Carries(r, h) => h.added <= wanted[h.name].adds /\ h.hash <= output[h.name]
  <2>1. TAKE h \in Held
  <2>2. CASE Carries(round[p], h)
    BY <2>2 DEF SchedInv, NothingAhead
  <2>3. CASE \E n \in Stored : \E o \in {0, output[n]} : h = Hold(n, o)
    BY <2>3, HoldIsHeld
  <2>. QED BY <1>1, <2>2, <2>3 DEF Onwards
<1>8. NothingAhead'
  <2>1. \A q \in Round, h \in Held : Carries(round'[q], h) =>
            h.added <= wanted[h.name].adds /\ h.hash <= output[h.name]
    BY <1>3, <1>7 DEF SchedInv, NothingAhead
  <2>2. \A t \in fired' : t[2] <= wanted[t[1]].adds
    BY RoundRespects DEF SchedInv, NothingAhead
  <2>3. NothingAhead' <=>
          /\ \A n \in Name : jobs'[n].hash <= output'[n]
          /\ \A q \in Round, h \in Held : Carries(round'[q], h) =>
                h.added <= wanted'[h.name].adds /\ h.hash <= output'[h.name]
          /\ \A t \in fired' : t[2] <= wanted'[t[1]].adds
    BY DEF NothingAhead, Carries
  <2>. QED BY <2>1, <2>2, <2>3, RoundRespects
<1>9. OwnerHasTheLastWord'
  BY RoundRespects DEF SchedInv, OwnerHasTheLastWord, Stored, Respects
<1>. QED BY <1>6, <1>8, <1>9 DEF SchedInv

\* A job as add() makes it.
LEMMA NewJob ==
    ASSUME NEW kind \in Kind, NEW a \in Nat \ {0}
    PROVE  LET new == [Nothing EXCEPT !.kind = kind, !.enabled = TRUE, !.added = a]
           IN  new \in Job /\ new.added = a /\ new.hash = 0 /\ new.last = 0 /\ new.started = 0
<1> DEFINE Draft == [kind : Kind, enabled : BOOLEAN, last : Nat, started : Nat,
                     attempts : Nat, hash : Nat, added : Nat]
           named == [Nothing EXCEPT !.kind = kind]
           on == [named EXCEPT !.enabled = TRUE]
           new == [on EXCEPT !.added = a]
<1>1. named \in Draft /\ named.hash = 0 /\ named.last = 0 /\ named.started = 0
  BY DEF Nothing
<1> HIDE DEF named
<1>2. on \in Draft /\ on.hash = 0 /\ on.last = 0 /\ on.started = 0
  BY <1>1
<1> HIDE DEF on
<1>3. new \in Job /\ new.added = a /\ new.hash = 0 /\ new.last = 0 /\ new.started = 0
  BY <1>2 DEF Job
<1>. QED BY <1>3 DEF on, named

\* What an owner and the world do: jobs are added afresh, what the rounds hold
\* is not touched, and neither the outputs nor the adds go back.
LEMMA OwnerMoves ==
    ASSUME SchedInv, NEW n \in Name, OwnerStep(n)
    PROVE  /\ UNCHANGED <<clock, round, fired, refired, overlapped>>
           /\ jobs' \in [Name -> Job \cup {Nothing}]
           /\ output' \in [Name -> Nat] /\ wanted' \in [Name -> Wish]
           /\ \A m \in Name : /\ wanted[m].adds <= wanted'[m].adds /\ output[m] <= output'[m]
                              /\ jobs'[m].hash <= output'[m]
                              /\ \/ jobs'[m].added = jobs[m].added /\ jobs'[m].hash = jobs[m].hash
                                 \/ jobs'[m].added \in {0, wanted[m].adds + 1}
           /\ OwnerHasTheLastWord'
<1>1. /\ jobs \in [Name -> Job \cup {Nothing}] /\ output \in [Name -> Nat] /\ clock \in Nat
      /\ wanted \in [Name -> Wish] /\ \A m \in Name : jobs[m].hash <= output[m]
      /\ \A m \in Name : wanted[m].adds \in Nat /\ output[m] \in Nat
      /\ OwnerHasTheLastWord
  BY DEF SchedInv, SchedTyped, NothingAhead, Wish
<1>2. CASE \E kind \in Kind, baseline \in {0, output[n]} : Add(n, kind, baseline)
  <2>1. PICK kind \in Kind, baseline \in {0, output[n]} : Add(n, kind, baseline)
    BY <1>2
  <2> DEFINE new == [Nothing EXCEPT !.kind = kind, !.enabled = TRUE, !.added = wanted[n].adds + 1]
             job == IF kind = "on_change" THEN [new EXCEPT !.last = clock, !.hash = baseline] ELSE new
  <2>2. new \in Job /\ new.added = wanted[n].adds + 1 /\ new.hash = 0
    <3>1. wanted[n].adds + 1 \in Nat \ {0}
      BY <1>1
    <3>. QED BY <3>1, NewJob
  <2> HIDE DEF new
  <2>3. job \in Job /\ job.added = wanted[n].adds + 1 /\ job.hash \in {0, baseline}
    BY <1>1, <2>2 DEF Job
  <2> HIDE DEF job
  <2>4. /\ jobs' = [jobs EXCEPT ![n] = job]
        /\ wanted' = [wanted EXCEPT ![n] = [word |-> "on", adds |-> @.adds + 1]]
        /\ UNCHANGED <<clock, output, round, fired, refired, overlapped>>
    BY <2>1 DEF Add, OwnerFrame, job, new
  <2>5. jobs' \in [Name -> Job \cup {Nothing}] /\ wanted' \in [Name -> Wish]
    BY <1>1, <2>3, <2>4 DEF Wish
  <2>6. \A m \in Name : /\ jobs'[m] = IF m = n THEN job ELSE jobs[m]
                        /\ wanted'[m].adds = IF m = n THEN wanted[n].adds + 1 ELSE wanted[m].adds
                        /\ wanted'[m].word = IF m = n THEN "on" ELSE wanted[m].word
    BY <1>1, <2>4
  <2>7. OwnerHasTheLastWord'
    BY <1>1, <2>3, <2>6, JobIsSomething DEF OwnerHasTheLastWord, Stored
  <2>. QED BY <1>1, <2>3, <2>4, <2>5, <2>6, <2>7
<1>3. CASE Remove(n)
  <2>1. /\ jobs' = [jobs EXCEPT ![n] = Nothing]
        /\ wanted' = [wanted EXCEPT ![n].word = "gone"]
        /\ UNCHANGED <<clock, output, round, fired, refired, overlapped>>
    BY <1>3 DEF Remove, OwnerFrame
  <2>2. jobs' \in [Name -> Job \cup {Nothing}] /\ wanted' \in [Name -> Wish]
    BY <1>1, <2>1 DEF Wish
  <2>3. \A m \in Name : /\ jobs'[m] = IF m = n THEN Nothing ELSE jobs[m]
                        /\ wanted'[m].adds = wanted[m].adds
                        /\ wanted'[m].word = IF m = n THEN "gone" ELSE wanted[m].word
    BY <1>1, <2>1 DEF Wish
  <2>4. OwnerHasTheLastWord'
    BY <1>1, <2>3, JobIsSomething DEF OwnerHasTheLastWord, Stored
  <2>. QED BY <1>1, <2>1, <2>2, <2>3, <2>4, JobIsSomething
<1>4. CASE \E on \in BOOLEAN : SetEnabled(n, on)
  <2>1. PICK on \in BOOLEAN : SetEnabled(n, on)
    BY <1>4
  <2> DEFINE job == [jobs[n] EXCEPT !.enabled = on]
  <2>2. n \in Stored /\ jobs[n] \in Job /\ jobs[n] # Nothing
    BY <1>1, <2>1 DEF SetEnabled, Stored
  <2>3. job \in Job /\ job.added = jobs[n].added /\ job.hash = jobs[n].hash /\ job.enabled = on
    BY <2>2 DEF Job
  <2> HIDE DEF job
  <2>4. /\ jobs' = [jobs EXCEPT ![n] = job]
        /\ wanted' = [wanted EXCEPT ![n].word = IF on THEN "on" ELSE "off"]
        /\ UNCHANGED <<clock, output, round, fired, refired, overlapped>>
    BY <2>1, <2>2 DEF SetEnabled, OwnerFrame, Put, job
  <2>5. jobs' \in [Name -> Job \cup {Nothing}] /\ wanted' \in [Name -> Wish]
    BY <1>1, <2>3, <2>4 DEF Wish
  <2>6. \A m \in Name : /\ jobs'[m] = IF m = n THEN job ELSE jobs[m]
                        /\ wanted'[m].adds = wanted[m].adds
                        /\ m # n => wanted'[m].word = wanted[m].word
    BY <1>1, <2>4 DEF Wish
  <2>7. wanted'[n].word = IF on THEN "on" ELSE "off"
    BY <1>1, <2>4 DEF Wish
  <2>8. OwnerHasTheLastWord'
    BY <1>1, <2>2, <2>3, <2>6, <2>7, JobIsSomething DEF OwnerHasTheLastWord, Stored
  <2>. QED BY <1>1, <2>3, <2>4, <2>5, <2>6, <2>8
<1>5. CASE ProcessExits(n)
  BY <1>1, <1>5 DEF ProcessExits, OwnerFrame, OwnerHasTheLastWord, Stored
<1>6. CASE NewOutput(n)
  <2>1. /\ output' = [output EXCEPT ![n] = @ + 1]
        /\ UNCHANGED <<clock, jobs, round, wanted, fired, refired, overlapped>>
    BY <1>6 DEF NewOutput
  <2>2. OwnerHasTheLastWord' <=> OwnerHasTheLastWord
    BY <2>1 DEF OwnerHasTheLastWord, Stored
  <2>3. \A m \in Name : output[m] <= output'[m] /\ jobs[m].hash \in Nat
    BY <1>1, <2>1, JobIsSomething DEF Job
  <2>. QED BY <1>1, <2>1, <2>2, <2>3
<1>. QED BY <1>2, <1>3, <1>4, <1>5, <1>6 DEF OwnerStep

\* So do the owners and the world.
LEMMA OwnerStepKeepsSched ==
    ASSUME SchedInv, NEW n \in Name, OwnerStep(n)
    PROVE  SchedInv'
<1>1. SchedTyped'
  BY OwnerMoves DEF SchedInv, SchedTyped
<1>2. \A h \in Held : h.name \in Name /\ h.hash \in Nat /\ h.added \in Nat
  BY DEF Held
<1>3. \A m \in Name : output[m] \in Nat /\ wanted[m].adds \in Nat /\ output'[m] \in Nat /\ wanted'[m].adds \in Nat
  BY <1>1 DEF SchedInv, SchedTyped, Wish
<1>4. \A t \in fired : t[1] \in Name /\ t[2] \in Nat
  BY DEF SchedInv, SchedTyped
<1>5. \A p \in Round, h \in Held : Carries(round[p], h) =>
          h.added <= wanted'[h.name].adds /\ h.hash <= output'[h.name]
  BY <1>2, <1>3, OwnerMoves DEF SchedInv, NothingAhead
<1>6. \A t \in fired : t[2] <= wanted'[t[1]].adds
  BY <1>3, <1>4, OwnerMoves DEF SchedInv, NothingAhead
<1>7. NothingAhead'
  BY <1>5, <1>6, OwnerMoves DEF NothingAhead, Carries
<1>. QED BY <1>1, <1>7, OwnerMoves DEF SchedInv

\* There are no jobs at the start.
LEMMA SchedStarts == SchedInit => SchedInv
<1> SUFFICES ASSUME SchedInit PROVE SchedInv
  OBVIOUS
<1>1. Idle \in RoundState /\ Idle.at \notin Working /\ Idle.seen = {} /\ Idle.ready = {}
  BY DEF Idle, RoundState, Working
<1>2. SchedTyped
  BY <1>1 DEF SchedInit, SchedTyped, Wish
<1>3. NothingAhead
  BY <1>1, JobIsSomething DEF SchedInit, NothingAhead, Carries
<1>. QED BY <1>2, <1>3, JobIsSomething DEF SchedInit, SchedInv, OwnerHasTheLastWord, Stored

\* The invariant of the jobs is inductive.
LEMMA SchedGoesOn ==
    ASSUME SchedInv, [SchedNext]_schedVars
    PROVE  SchedInv'
<1>1. CASE TimePasses \/ UNCHANGED schedVars
  BY <1>1 DEF TimePasses, schedVars, SchedInv, SchedTyped, NothingAhead, Carries,
     OwnerHasTheLastWord, Stored
<1>. QED BY <1>1, OwnerStepKeepsSched, RoundStepKeepsSched DEF SchedNext

\* The invariant of the jobs holds in every state.
LEMMA SchedInvariant == SchedSpec => []SchedInv
<1>1. SchedInv /\ [SchedNext]_schedVars => SchedInv'
  BY SchedGoesOn
<1>. QED BY <1>1, SchedStarts, PTL DEF SchedSpec

\* No round undoes what an owner asked, however many are under way and however
\* long ago they read the jobs: what is removed stays removed, what replaced
\* another is what is stored, and what is disabled is not enabled again.
THEOREM RoundsObeyOwners == SchedSpec => []OwnerHasTheLastWord
<1>1. SchedInv => OwnerHasTheLastWord
  BY DEF SchedInv
<1>. QED BY <1>1, SchedInvariant, PTL

\* A round has each name at most once: among what it found, or in hand.
DistinctNames(r) ==
    /\ r.at \in {"interrupted", "changed"} => r.seen = {}
    /\ \A g, h \in r.seen \cup r.ready : g.name = h.name => g = h
    /\ r.at \in Working => \A h \in r.seen \cup r.ready : h.name # r.job.name

\* What h holds is later than every change of its name that was run.
IsNews(h) ==
    \A t \in fired : t[1] = h.name => t[2] < h.added \/ (t[2] = h.added /\ t[3] < h.hash)

\* The store knows the output that h holds.
IsMarked(h) == jobs[h.name].added = h.added => h.hash <= jobs[h.name].hash

ToRun(r, h) ==
    /\ h.hash # 0
    /\ h \in r.ready \/ (r.at \in {"resume", "start", "run"} /\ h = r.job)

\* A round will run nothing but news, which it has marked.
RunsNews(r) ==
    /\ \A h \in r.seen : IsNews(h)
    /\ \A h \in Held : ToRun(r, h) => IsNews(h) /\ IsMarked(h)

\* The store knows every change that was run.
FiredIsMarked == \A t \in fired : jobs[t[1]].added = t[2] => t[3] <= jobs[t[1]].hash

OnceInv ==
    /\ SchedInv
    /\ \A p \in Round : DistinctNames(round[p])
    /\ ~overlapped => /\ refired = {} /\ FiredIsMarked
                      /\ \A p, q \in Round : round[p] # Idle /\ round[q] # Idle => p = q
                      /\ \A p \in Round : RunsNews(round[p])

\* A change that is seen is news: its job is the one that was added last, and
\* its output is not the one that the store knows.
LEMMA SeenIsNews ==
    ASSUME SchedInv, FiredIsMarked, NEW n \in Stored, output[n] # jobs[n].hash
    PROVE  IsNews(Hold(n, output[n]))
<1> DEFINE h == Hold(n, output[n])
<1>1. /\ n \in Name /\ h.name = n /\ h.hash = output[n] /\ h.added = jobs[n].added
      /\ output[n] \in Nat /\ jobs[n] \in Job /\ jobs[n].hash <= output[n]
      /\ jobs[n].hash \in Nat /\ jobs[n].added \in Nat /\ jobs[n].added = wanted[n].adds
  BY HoldIsHeld DEF SchedInv, SchedTyped, NothingAhead, OwnerHasTheLastWord, Stored, Job
<1> HIDE DEF h
<1>2. ASSUME NEW t \in fired, t[1] = n
      PROVE  t[2] < h.added \/ (t[2] = h.added /\ t[3] < h.hash)
  <2>1. t[2] \in Nat /\ t[3] \in Nat /\ t[2] <= wanted[n].adds
    BY <1>2 DEF SchedInv, SchedTyped, NothingAhead
  <2>2. CASE t[2] = jobs[n].added
    BY <1>1, <1>2, <2>1, <2>2 DEF FiredIsMarked
  <2>. QED BY <1>1, <2>1, <2>2
<1>. QED BY <1>1, <1>2 DEF IsNews, h

\* As long as rounds do not overlap, the others rest.
LEMMA OthersRest ==
    ASSUME OnceInv, NEW p \in Round, RoundStep(p), ~overlapped'
    PROVE  /\ ~overlapped
           /\ \A q \in Round \ {p} : round[q] = Idle /\ round'[q] = Idle
<1>1. \E r : round' = [round EXCEPT ![p] = r]
  BY RoundGoesOn DEF OnceInv, Onwards
<1>2. \A q \in Round \ {p} : round'[q] = round[q]
  BY <1>1 DEF OnceInv, SchedInv, SchedTyped
<1>3. BeginRound(p) \/ (round[p] # Idle /\ overlapped' = overlapped)
  <2>1. Idle.at = "idle"
    BY DEF Idle
  <2>. QED BY <2>1 DEF RoundStep, FindInterrupted, FindChanged, MarkHash, NextJob, BumpResume,
           MarkStarted, RunJob, MarkRan, DisableOneShot, EndRound, MarkJob, Reading, Marking, World
<1>4. CASE BeginRound(p)
  <2>1. overlapped' = (overlapped \/ \E q \in Round : round[q] # Idle)
    BY <1>4 DEF BeginRound
  <2>. QED BY <1>2, <2>1
<1>5. CASE round[p] # Idle /\ overlapped' = overlapped
  BY <1>2, <1>5 DEF OnceInv
<1>. QED BY <1>3, <1>4, <1>5

\* Each step of a round, by what the round holds after it.
Began(r) ==
    /\ r.at = "interrupted" /\ r.seen = {}
    /\ r.ready = {Hold(n, 0) : n \in {m \in Stored : Due(m, clock)}}

FoundInterrupted(q, r) ==
    /\ q.at = "interrupted" /\ r.at = "changed" /\ r.seen = q.seen
    /\ r.ready = q.ready \cup
          {Hold(n, 0) : n \in {m \in Stored \ Names(q.ready) : Interrupted(m, q.now)}}

FoundChanged(q, r) ==
    /\ q.at = "changed" /\ r.at = "next" /\ r.ready = q.ready
    /\ \E s \in SUBSET {n \in Stored \ Names(q.ready) : Changed(n, q.now)} :
          r.seen = {Hold(n, output[n]) : n \in s}

TookJob(q, r) ==
    /\ q.at = "next" /\ q.seen = {} /\ r.seen = {} /\ r.at \in {"resume", "start"}
    /\ r.job \in q.ready /\ r.ready = q.ready \ {r.job}

MovedOn(q, r) ==
    /\ r.seen = q.seen /\ r.ready = q.ready
    /\ \/ q.at = "resume" /\ r.at = "start" /\ r.job = q.job
       \/ q.at = "start" /\ r.at = "run" /\ r.job = q.job
       \/ q.at = "ran" /\ r.at = "disable" /\ r.job = q.job
       \/ q.at \in {"ran", "disable"} /\ r.at = "next"

Ran(q, r) ==
    /\ q.at = "run" /\ r.at = "ran" /\ r.seen = q.seen /\ r.ready = q.ready /\ r.job = q.job

MarkedOne(q, r) ==
    /\ q.at = "next" /\ r.at = "next"
    /\ \E h \in q.seen : /\ r.seen = q.seen \ {h} /\ r.ready = q.ready \cup {h}
                         /\ Put(h.name, [jobs[h.name] EXCEPT !.hash = h.hash, !.last = q.now])

\* A step that only looks, or that marks a job in hand.
Keeps == /\ UNCHANGED <<fired, refired>>
         /\ \A n \in Name : jobs'[n].added = jobs[n].added /\ jobs'[n].hash = jobs[n].hash

\* A step of a round is one of a few, told by what it does to the changes it holds.
LEMMA RoundParts ==
    ASSUME SchedInv, NEW p \in Round, RoundStep(p)
    PROVE  \/ Keeps /\ Began(round'[p])
           \/ Keeps /\ FoundInterrupted(round[p], round'[p])
           \/ Keeps /\ FoundChanged(round[p], round'[p])
           \/ UNCHANGED <<fired, refired>> /\ MarkedOne(round[p], round'[p])
           \/ Keeps /\ TookJob(round[p], round'[p])
           \/ Keeps /\ MovedOn(round[p], round'[p])
           \/ RunJob(p) /\ Ran(round[p], round'[p])
           \/ Keeps /\ round'[p] = Idle
<1> DEFINE q == round[p]
<1>1. q \in RoundState /\ round \in [Round -> RoundState]
  BY DEF SchedInv, SchedTyped
<1>2. ASSUME NEW r, Be(p, r)
      PROVE  round'[p] = r
  BY <1>1, <1>2 DEF Be
<1>3. UNCHANGED <<jobs, fired, refired>> => Keeps
  BY DEF Keeps
<1>4. CASE BeginRound(p)
  BY <1>2, <1>3, <1>4 DEF BeginRound, Reading, Began, Idle
<1>5. CASE FindInterrupted(p)
  BY <1>1, <1>2, <1>3, <1>5 DEF FindInterrupted, Reading, FoundInterrupted, RoundState
<1>6. CASE FindChanged(p)
  BY <1>1, <1>2, <1>3, <1>6 DEF FindChanged, Reading, FoundChanged, RoundState
<1>7. CASE MarkHash(p)
  BY <1>1, <1>2, <1>7 DEF MarkHash, Marking, MarkedOne, RoundState
<1>8. CASE NextJob(p)
  <2>1. PICK h \in q.ready : Be(p, [q EXCEPT !.job = h, !.ready = @ \ {h},
                                !.at = IF h.name \in q.resumed THEN "resume" ELSE "start"])
    BY <1>8 DEF NextJob
  <2>2. round'[p] = [q EXCEPT !.job = h, !.ready = @ \ {h},
                              !.at = IF h.name \in q.resumed THEN "resume" ELSE "start"]
    BY <1>2, <2>1
  <2>3. TookJob(q, round'[p])
    BY <1>1, <1>8, <2>1, <2>2 DEF NextJob, TookJob, RoundState
  <2>. QED BY <1>3, <1>8, <2>3 DEF NextJob, Reading
<1>9. ASSUME NEW at \in Working, NEW job, NEW then \in Working \cup {"next"},
             MarkJob(p, at, job, then),
             \/ at = "resume" /\ then = "start"
             \/ at = "start" /\ then = "run"
             \/ at = "ran" /\ then \in {"disable", "next"}
             \/ at = "disable" /\ then = "next",
             \/ job = [InHand(p) EXCEPT !.attempts = @ + 1]
             \/ job = [InHand(p) EXCEPT !.started = round[p].now]
             \/ job = [InHand(p) EXCEPT !.last = round[p].now, !.attempts = 0]
             \/ job = [InHand(p) EXCEPT !.enabled = FALSE]
      PROVE  Keeps /\ MovedOn(q, round'[p])
  <2>1. /\ q.at = at /\ Put(q.job.name, job) /\ UNCHANGED <<fired, refired>>
        /\ round'[p] = [q EXCEPT !.at = then, !.job = IF then = "next" THEN Nothing ELSE @]
    BY <1>2, <1>9 DEF MarkJob, Marking
  <2>2. Keeps
    BY <1>9, <2>1, MarkRespects DEF SchedInv, Respects, Keeps
  <2>3. MovedOn(q, round'[p])
    BY <1>1, <1>9, <2>1 DEF MovedOn, RoundState
  <2>. QED BY <2>2, <2>3
<1>12. CASE BumpResume(p)
  BY <1>9, <1>12 DEF BumpResume, Working
<1>13. CASE MarkStarted(p)
  BY <1>9, <1>13 DEF MarkStarted, Working
<1>14. CASE MarkRan(p)
  BY <1>9, <1>14 DEF MarkRan, Working
<1>15. CASE DisableOneShot(p)
  BY <1>9, <1>15 DEF DisableOneShot, Working
<1>10. CASE RunJob(p)
  BY <1>1, <1>2, <1>10 DEF RunJob, Ran, RoundState
<1>11. CASE EndRound(p)
  BY <1>2, <1>3, <1>11 DEF EndRound, Reading
<1>. QED BY <1>4, <1>5, <1>6, <1>7, <1>8, <1>10, <1>11, <1>12, <1>13, <1>14, <1>15 DEF RoundStep

\* A round holds each name once.
LEMMA RoundStepKeepsNames ==
    ASSUME OnceInv, NEW p \in Round, RoundStep(p)
    PROVE  DistinctNames(round'[p])
<1> DEFINE q == round[p]
           r == round'[p]
<1>1. /\ SchedInv /\ DistinctNames(q)
      /\ \A n \in Stored : \A o \in {0, output[n]} : Hold(n, o).name = n
  BY HoldIsHeld DEF OnceInv
<1> SUFFICES DistinctNames(r)
  OBVIOUS
<1> HIDE DEF q, r
<1>2. CASE Began(r)
  BY <1>1, <1>2 DEF Began, DistinctNames, Working
<1>3. CASE FoundInterrupted(q, r)
  BY <1>1, <1>3 DEF FoundInterrupted, DistinctNames, Working, Names
<1>4. CASE FoundChanged(q, r)
  BY <1>1, <1>4 DEF FoundChanged, DistinctNames, Working, Names
<1>5. CASE MarkedOne(q, r)
  BY <1>1, <1>5 DEF MarkedOne, DistinctNames, Working
<1>6. CASE TookJob(q, r)
  BY <1>1, <1>6 DEF TookJob, DistinctNames, Working
<1>7. CASE MovedOn(q, r)
  BY <1>1, <1>7 DEF MovedOn, DistinctNames, Working
<1>8. CASE Ran(q, r)
  BY <1>1, <1>8 DEF Ran, DistinctNames, Working
<1>9. CASE r = Idle
  BY <1>9 DEF Idle, DistinctNames, Working
<1>. QED BY <1>1, <1>2, <1>3, <1>4, <1>5, <1>6, <1>7, <1>8, <1>9, RoundParts DEF q, r

\* Marking one change: the store knows it then, and still knows what was run.
LEMMA MarkingKeepsNews ==
    ASSUME OnceInv, NEW p \in Round, RoundStep(p), MarkedOne(round[p], round'[p]),
           UNCHANGED <<fired, refired>>, refired = {}, FiredIsMarked, RunsNews(round[p])
    PROVE  refired' = {} /\ FiredIsMarked' /\ RunsNews(round[p])'
<1> DEFINE q == round[p]
           r == round'[p]
<1>1. PICK h \in q.seen :
          /\ r.seen = q.seen \ {h} /\ r.ready = q.ready \cup {h}
          /\ Put(h.name, [jobs[h.name] EXCEPT !.hash = h.hash, !.last = q.now])
          /\ q.at = "next" /\ r.at = "next"
  BY DEF MarkedOne
<1>2. /\ SchedInv /\ DistinctNames(q) /\ q \in RoundState
      /\ \A t \in fired : t[1] \in Name /\ t[2] \in Nat \ {0} /\ t[3] \in Nat /\ t[2] <= wanted[t[1]].adds
      /\ \A n \in Name : jobs[n] \in Job \cup {Nothing} /\ wanted[n] \in Wish
      /\ OwnerHasTheLastWord
  BY DEF OnceInv, SchedInv, SchedTyped, NothingAhead
<1>3. h \in Held /\ h.name \in Name /\ h.added \in Nat \ {0} /\ h.hash \in Nat /\ IsNews(h)
  BY <1>1, <1>2 DEF RoundState, Held, RunsNews
<1>4. h.added <= wanted[h.name].adds
  BY <1>1, <1>2, <1>3 DEF SchedInv, NothingAhead, Carries
<1>5. \A n \in Name : /\ jobs'[n].added = jobs[n].added
                      /\ n # h.name => jobs'[n].hash = jobs[n].hash
  BY <1>1, <1>2, <1>3, RoundRespects DEF Respects, Put, SchedInv, SchedTyped
<1>6. jobs[h.name].added # 0 =>
          jobs'[h.name].hash = h.hash /\ jobs[h.name].added = wanted[h.name].adds
  <2>1. ASSUME jobs[h.name].added # 0
        PROVE  jobs[h.name] \in Job /\ jobs[h.name] # Nothing /\ h.name \in Stored
    BY <1>2, <1>3, <2>1, JobIsSomething DEF Stored
  <2>2. ASSUME jobs[h.name] \in Job
        PROVE  [jobs[h.name] EXCEPT !.hash = h.hash, !.last = q.now].hash = h.hash
    BY <2>2 DEF Job
  <2>3. ASSUME jobs[h.name] # Nothing
        PROVE  jobs'[h.name] = [jobs[h.name] EXCEPT !.hash = h.hash, !.last = q.now]
    BY <1>1, <1>2, <1>3, <2>3 DEF Put, SchedInv, SchedTyped
  <2>. QED BY <1>2, <1>3, <2>1, <2>2, <2>3 DEF OwnerHasTheLastWord
<1> HIDE DEF q, r
<1>7. ASSUME NEW t \in fired, jobs'[t[1]].added = t[2]
      PROVE  t[3] <= jobs'[t[1]].hash
  <2>1. CASE t[1] # h.name
    BY <1>2, <1>5, <1>7, <2>1 DEF FiredIsMarked
  <2>2. CASE t[1] = h.name
    <3>1. t[2] = jobs[h.name].added /\ t[2] # 0
      BY <1>2, <1>3, <1>5, <1>7, <2>2
    <3>2. jobs'[h.name].hash = h.hash /\ h.added <= t[2]
      BY <1>4, <1>6, <3>1
    <3>. QED BY <1>2, <1>3, <2>2, <3>2 DEF IsNews
  <2>. QED BY <2>1, <2>2
<1>8. IsMarked(h)'
  BY <1>3, <1>5, <1>6 DEF IsMarked
<1>9. ASSUME NEW g \in Held, ToRun(r, g), g # h
      PROVE  IsMarked(g)'
  <2>1. g \in q.ready /\ g.name # h.name /\ g.hash # 0
    BY <1>1, <1>2, <1>9 DEF ToRun, DistinctNames
  <2>2. IsMarked(g)
    BY <1>9, <2>1 DEF RunsNews, ToRun, q
  <2>3. g.name \in Name
    BY DEF Held
  <2>. QED BY <1>5, <2>1, <2>2, <2>3 DEF IsMarked
<1>10. ASSUME NEW g \in Held, ToRun(r, g)
       PROVE  IsNews(g)'
  <2>1. g = h \/ ToRun(q, g)
    BY <1>1, <1>10 DEF ToRun
  <2>2. IsNews(g)
    BY <1>3, <2>1 DEF RunsNews, q
  <2>. QED BY <2>2 DEF IsNews
<1>11. \A g \in r.seen : IsNews(g)'
  BY <1>1 DEF RunsNews, IsNews, q
<1>12. RunsNews(round[p])'
  BY <1>8, <1>9, <1>10, <1>11 DEF RunsNews, r, ToRun
<1>. QED BY <1>7, <1>12 DEF FiredIsMarked

\* Running news: it was never run before, and it is news no longer.
LEMMA RunningKeepsNews ==
    ASSUME OnceInv, NEW p \in Round, RunJob(p), Ran(round[p], round'[p]),
           refired = {}, FiredIsMarked, RunsNews(round[p])
    PROVE  refired' = {} /\ FiredIsMarked' /\ RunsNews(round[p])'
<1> DEFINE q == round[p]
           r == round'[p]
           j == q.job
           run == IF j.hash = 0 THEN {} ELSE {<<j.name, j.added, j.hash>>}
<1>1. /\ DistinctNames(q) /\ q \in RoundState /\ j \in Held
      /\ q.at = "run" /\ r.at = "ran" /\ r.seen = q.seen /\ r.ready = q.ready
      /\ \A t \in fired : t[1] \in Name /\ t[2] \in Nat /\ t[3] \in Nat
  BY DEF OnceInv, SchedInv, SchedTyped, Ran, Working
<1>2. fired' = fired \cup run /\ refired' = refired \cup (fired \cap run) /\ jobs' = jobs
  BY DEF RunJob
<1>3. j.hash # 0 => IsNews(j) /\ IsMarked(j)
  BY <1>1 DEF RunsNews, ToRun
<1>4. j.name \in Name /\ j.added \in Nat /\ j.hash \in Nat
  BY <1>1 DEF Held
<1> HIDE DEF q, r, j
<1>5. ASSUME NEW t \in run
      PROVE  /\ t \notin fired /\ t[1] = j.name /\ t[2] = j.added /\ t[3] = j.hash
             /\ IsMarked(j)
  <2>1. j.hash # 0 /\ t = <<j.name, j.added, j.hash>>
    BY <1>5
  <2>. QED BY <1>3, <1>4, <2>1 DEF IsNews
<1> HIDE DEF run
<1>6. FiredIsMarked'
  BY <1>2, <1>5 DEF FiredIsMarked, IsMarked
<1>7. \A h \in q.seen \cup q.ready : h.name # j.name
  BY <1>1 DEF DistinctNames, Working, j
<1>8. ASSUME NEW h \in q.seen \cup q.ready, IsNews(h)
      PROVE  IsNews(h)'
  BY <1>2, <1>5, <1>7, <1>8 DEF IsNews
<1>9. ASSUME NEW h \in Held, ToRun(r, h)
      PROVE  h \in q.ready /\ ToRun(q, h)
  BY <1>1, <1>9 DEF ToRun
<1>10. \A h \in Held : IsMarked(h) => IsMarked(h)'
  BY <1>2 DEF IsMarked
<1>11. RunsNews(q) /\ (RunsNews(round[p])' <=> /\ \A h \in r.seen : IsNews(h)'
                                              /\ \A h \in Held : ToRun(r, h) => IsNews(h)' /\ IsMarked(h)')
  BY DEF RunsNews, ToRun, q, r
<1>12. RunsNews(round[p])'
  BY <1>1, <1>8, <1>9, <1>10, <1>11 DEF RunsNews
<1>. QED BY <1>2, <1>5, <1>6, <1>12

\* A round that no other overlaps runs only changes that were not run.
LEMMA RoundStepKeepsNews ==
    ASSUME OnceInv, NEW p \in Round, RoundStep(p), ~overlapped'
    PROVE  refired' = {} /\ FiredIsMarked' /\ RunsNews(round[p])'
<1> DEFINE q == round[p]
           r == round'[p]
<1>1. /\ SchedInv /\ refired = {} /\ FiredIsMarked /\ RunsNews(q) /\ DistinctNames(q)
      /\ q \in RoundState
  BY OthersRest DEF OnceInv, SchedInv, SchedTyped
<1>2. r \in RoundState /\ (r.at \in Working => r.job \in Held)
  BY RoundStepKeepsSched DEF OnceInv, SchedInv, SchedTyped
<1>3. (RunsNews(round[p]))' <=> /\ \A h \in r.seen : IsNews(h)'
                                /\ \A h \in Held : ToRun(r, h) => IsNews(h)' /\ IsMarked(h)'
  BY DEF RunsNews, ToRun
<1>4. ASSUME Keeps, RunsNews(r)
      PROVE  refired' = {} /\ FiredIsMarked' /\ RunsNews(round[p])'
  <2>1. /\ \A t \in fired : t[1] \in Name
        /\ \A h \in Held : h.name \in Name
    BY <1>1 DEF SchedInv, SchedTyped, Held
  <2>2. refired' = {} /\ FiredIsMarked'
    BY <1>1, <1>4, <2>1 DEF Keeps, FiredIsMarked
  <2>3. \A h : IsNews(h) => IsNews(h)'
    BY <1>4 DEF Keeps, IsNews
  <2>4. \A h \in Held : IsMarked(h) => IsMarked(h)'
    BY <1>4, <2>1 DEF Keeps, IsMarked
  <2>. QED BY <1>3, <1>4, <2>2, <2>3, <2>4 DEF RunsNews
<1>5. \A n \in Stored : Hold(n, 0).hash = 0
  BY <1>1, HoldIsHeld
<1> HIDE DEF q, r
<1>6. CASE Keeps /\ Began(r)
  <2>1. RunsNews(r)
    BY <1>5, <1>6 DEF Began, RunsNews, ToRun
  <2>. QED BY <1>4, <1>6, <2>1
<1>7. CASE Keeps /\ FoundInterrupted(q, r)
  <2>1. RunsNews(r)
    BY <1>1, <1>5, <1>7 DEF FoundInterrupted, RunsNews, ToRun
  <2>. QED BY <1>4, <1>7, <2>1
<1>8. CASE Keeps /\ FoundChanged(q, r)
  <2>1. \A h \in r.seen : IsNews(h)
    BY <1>1, <1>8, SeenIsNews DEF FoundChanged, Changed
  <2>2. RunsNews(r)
    BY <1>1, <1>8, <2>1 DEF FoundChanged, RunsNews, ToRun
  <2>. QED BY <1>4, <1>8, <2>2
<1>9. CASE Keeps /\ TookJob(q, r)
  <2>1. RunsNews(r)
    BY <1>1, <1>9 DEF TookJob, RunsNews, ToRun
  <2>. QED BY <1>4, <1>9, <2>1
<1>10. CASE Keeps /\ MovedOn(q, r)
  <2>1. RunsNews(r)
    BY <1>1, <1>10 DEF MovedOn, RunsNews, ToRun
  <2>. QED BY <1>4, <1>10, <2>1
<1>11. CASE Keeps /\ r = Idle
  <2>1. RunsNews(r)
    BY <1>11 DEF Idle, RunsNews, ToRun
  <2>. QED BY <1>4, <1>11, <2>1
<1>12. CASE UNCHANGED <<fired, refired>> /\ MarkedOne(q, r)
  BY <1>1, <1>12, MarkingKeepsNews DEF q, r
<1>13. CASE RunJob(p) /\ Ran(q, r)
  BY <1>1, <1>13, RunningKeepsNews DEF q, r
<1>. QED BY <1>1, <1>6, <1>7, <1>8, <1>9, <1>10, <1>11, <1>12, <1>13, RoundParts DEF q, r

\* A round keeps changes from being run again.
LEMMA RoundStepKeepsOnce ==
    ASSUME OnceInv, NEW p \in Round, RoundStep(p)
    PROVE  OnceInv'
<1>1. \A q \in Round \ {p} : round'[q] = round[q]
  BY RoundGoesOn DEF OnceInv, SchedInv, SchedTyped, Onwards
<1>2. SchedInv' /\ \A q \in Round : DistinctNames(round'[q])
  BY <1>1, RoundStepKeepsSched, RoundStepKeepsNames DEF OnceInv
<1>3. ASSUME ~overlapped'
      PROVE  /\ refired' = {} /\ FiredIsMarked'
             /\ \A q, s \in Round : round'[q] # Idle /\ round'[s] # Idle => q = s
             /\ \A q \in Round : RunsNews(round[q])'
  <2>1. ASSUME NEW q \in Round, q # p
        PROVE  RunsNews(round[q])'
    <3>1. round'[q] = Idle
      BY <1>3, <2>1, OthersRest
    <3>. QED BY <3>1 DEF RunsNews, ToRun, Idle
  <2>. QED BY <1>3, <2>1, OthersRest, RoundStepKeepsNews
<1>4. (\A q \in Round : DistinctNames(round[q]))'
  BY <1>2 DEF DistinctNames
<1>. QED BY <1>2, <1>3, <1>4 DEF OnceInv

\* So do the owners and the world.
LEMMA OwnerStepKeepsOnce ==
    ASSUME OnceInv, NEW n \in Name, OwnerStep(n)
    PROVE  OnceInv'
<1>1. /\ UNCHANGED <<round, fired, refired, overlapped>> /\ SchedInv'
      /\ \A m \in Name :
            \/ jobs'[m].added = jobs[m].added /\ jobs'[m].hash = jobs[m].hash
            \/ jobs'[m].added \in {0, wanted[m].adds + 1}
  BY OwnerMoves, OwnerStepKeepsSched DEF OnceInv
<1>2. /\ \A t \in fired : t[1] \in Name /\ t[2] \in Nat \ {0} /\ t[2] <= wanted[t[1]].adds
      /\ \A m \in Name : wanted[m].adds \in Nat
  BY DEF OnceInv, SchedInv, SchedTyped, NothingAhead, Wish
<1>3. ASSUME FiredIsMarked
      PROVE  FiredIsMarked'
  BY <1>1, <1>2, <1>3 DEF FiredIsMarked
<1>4. ASSUME NEW p \in Round, RunsNews(round[p])
      PROVE  RunsNews(round[p])'
  <2>1. ASSUME NEW h \in Held, ToRun(round[p], h)
        PROVE  IsMarked(h)'
    <3>1. IsMarked(h) /\ Carries(round[p], h)
      BY <1>4, <2>1 DEF RunsNews, ToRun, Carries, Working
    <3>2. h.name \in Name /\ h.added \in Nat \ {0} /\ h.added <= wanted[h.name].adds
      BY <3>1 DEF Held, OnceInv, SchedInv, NothingAhead
    <3>. QED BY <1>1, <1>2, <3>1, <3>2 DEF IsMarked
  <2>2. \A h : IsNews(h) => IsNews(h)'
    BY <1>1 DEF IsNews
  <2>. QED BY <1>1, <1>4, <2>1, <2>2 DEF RunsNews, ToRun
<1>. QED BY <1>1, <1>3, <1>4 DEF OnceInv, DistinctNames

\* The invariant of the changes holds in every state.
LEMMA OnceInvariant == SchedSpec => []OnceInv
<1>1. SchedInit => OnceInv
  <2> SUFFICES ASSUME SchedInit, SchedInv PROVE OnceInv
    BY SchedStarts
  <2>. QED BY DEF SchedInit, OnceInv, FiredIsMarked, RunsNews, ToRun, DistinctNames, Idle, Working
<1>2. OnceInv /\ [SchedNext]_schedVars => OnceInv'
  <2> SUFFICES ASSUME OnceInv, [SchedNext]_schedVars PROVE OnceInv'
    OBVIOUS
  <2>1. CASE TimePasses \/ UNCHANGED schedVars
    <3>1. UNCHANGED <<jobs, round, fired, refired, overlapped>>
      BY <2>1 DEF TimePasses, schedVars
    <3>2. SchedInv'
      BY SchedGoesOn DEF OnceInv
    <3>. QED BY <3>1, <3>2 DEF OnceInv, FiredIsMarked, RunsNews, ToRun, IsNews, IsMarked, DistinctNames
  <2>. QED BY <2>1, OwnerStepKeepsOnce, RoundStepKeepsOnce DEF SchedNext
<1>. QED BY <1>1, <1>2, PTL DEF SchedSpec

\* As long as rounds do not overlap, no change of a watched output is run twice,
\* however often rounds die between the mark and the run, and whatever owners do
\* to the job meanwhile.
THEOREM ChangesAreRunOnce == SchedSpec => []ChangeFiresOnce
<1>1. OnceInv => ChangeFiresOnce
  BY DEF OnceInv, ChangeFiresOnce
<1>. QED BY <1>1, OnceInvariant, PTL

-----------------------------------------------------------------------------
(* The scheduled jobs: their types, and their times *)

\* A job that neither ran nor started after time t.
Past(job, t) == job.last <= t /\ job.started <= t

\* Every time that is written down is past, and only watched names have processes.
TimesArePast ==
    /\ living \subseteq Name
    /\ \A n \in Name : Past(jobs[n], clock)
    /\ \A p \in Round : round[p].now <= clock

\* One locked load, modify and save of times that are past leaves them past.
LEMMA PutKeepsTimes ==
    ASSUME SchedInv, TimesArePast, NEW n \in Name, NEW job, Put(n, job),
           jobs[n] \in Job => Past(job, clock)
    PROVE  \A m \in Name : Past(jobs'[m], clock)
<1>1. /\ jobs \in [Name -> Job \cup {Nothing}] /\ \A m \in Name : Past(jobs[m], clock)
      /\ clock \in Nat
  BY DEF SchedInv, SchedTyped, TimesArePast
<1>2. jobs' = [jobs EXCEPT ![n] = IF jobs[n] = Nothing THEN Nothing ELSE job]
  BY DEF Put
<1>3. \A m \in Name : jobs'[m] = IF m = n THEN IF jobs[n] = Nothing THEN Nothing ELSE job
                                 ELSE jobs[m]
  BY <1>1, <1>2
<1>4. Past(Nothing, clock)
  BY <1>1 DEF Past, Nothing
<1>. QED BY <1>1, <1>3, <1>4

\* Marks carry the time of their round.
LEMMA RoundKeepsTimes ==
    ASSUME SchedInv, TimesArePast, NEW p \in Round, RoundStep(p)
    PROVE  TimesArePast'
<1> DEFINE q == round[p]
<1>1. /\ q \in RoundState /\ (q.at \in Working => q.job \in Held) /\ clock \in Nat
      /\ q.now \in Nat /\ q.now <= clock /\ round \in [Round -> RoundState]
      /\ jobs \in [Name -> Job \cup {Nothing}]
      /\ \A n \in Name : Past(jobs[n], clock)
  BY DEF SchedInv, SchedTyped, RoundState, TimesArePast
<1>2. UNCHANGED <<clock, living>>
  BY DEF RoundStep, BeginRound, FindInterrupted, FindChanged, MarkHash, NextJob, BumpResume,
         MarkStarted, RunJob, MarkRan, DisableOneShot, EndRound, MarkJob, Reading, Marking, World
<1>3. \E r : round' = [round EXCEPT ![p] = r] /\ r.now \in {0, clock, q.now}
  <2>1. CASE BeginRound(p)
    <3> DEFINE found == {Hold(n, 0) : n \in {m \in Stored : Due(m, clock)}}
               r == [Idle EXCEPT !.at = "interrupted", !.now = clock, !.ready = found]
    <3>1. round' = [round EXCEPT ![p] = r]
      BY <2>1 DEF BeginRound, Be
    <3> HIDE DEF found
    <3>2. r.now = clock
      BY DEF Idle
    <3>. QED BY <3>1, <3>2
  <2>2. CASE EndRound(p)
    <3>1. round' = [round EXCEPT ![p] = Idle] /\ Idle.now = 0
      BY <2>2 DEF EndRound, Be, Idle
    <3>. QED BY <3>1
  <2>3. ASSUME NEW r, round' = [round EXCEPT ![p] = r], r.now = q.now
        PROVE  \E s : round' = [round EXCEPT ![p] = s] /\ s.now \in {0, clock, q.now}
    BY <2>3
  <2>4. CASE FindInterrupted(p)
    <3>1. PICK found, more : Be(p, [q EXCEPT !.at = "changed", !.resumed = found, !.ready = more])
      BY <2>4 DEF FindInterrupted
    <3>. QED BY <1>1, <2>3, <3>1 DEF Be, RoundState
  <2>5. CASE FindChanged(p)
    <3>1. PICK more : Be(p, [q EXCEPT !.at = "next", !.seen = more])
      BY <2>5 DEF FindChanged
    <3>. QED BY <1>1, <2>3, <3>1 DEF Be, RoundState
  <2>6. CASE MarkHash(p)
    <3>1. PICK h \in q.seen : Be(p, [q EXCEPT !.seen = @ \ {h}, !.ready = @ \cup {h}])
      BY <2>6 DEF MarkHash
    <3>. QED BY <1>1, <2>3, <3>1 DEF Be, RoundState
  <2>7. CASE NextJob(p)
    <3>1. \E h \in q.ready : \E at :
            Be(p, [q EXCEPT !.job = h, !.ready = @ \ {h}, !.at = at])
      BY <2>7 DEF NextJob
    <3>. QED BY <1>1, <2>3, <3>1 DEF Be, RoundState
  <2>8. CASE BumpResume(p) \/ MarkStarted(p) \/ MarkRan(p) \/ DisableOneShot(p)
    <3>1. PICK at, then : round' = [round EXCEPT ![p] = [q EXCEPT !.at = at, !.job = then]]
      BY <2>8 DEF BumpResume, MarkStarted, MarkRan, DisableOneShot, MarkJob, Be
    <3>. QED BY <1>1, <2>3, <3>1 DEF RoundState
  <2>9. CASE RunJob(p)
    BY <1>1, <2>3, <2>9 DEF RunJob, Be, RoundState
  <2>. QED BY <2>1, <2>2, <2>4, <2>5, <2>6, <2>7, <2>8, <2>9 DEF RoundStep
<1>4. \A s \in Round : round'[s].now <= clock
  BY <1>1, <1>3 DEF TimesArePast
<1>5. \A n \in Name : Past(jobs'[n], clock)
  <2>1. CASE UNCHANGED jobs
    BY <1>1, <2>1
  <2>2. CASE MarkHash(p)
    <3>1. PICK h \in q.seen : Put(h.name, [jobs[h.name] EXCEPT !.hash = h.hash, !.last = q.now])
      BY <2>2 DEF MarkHash
    <3> DEFINE n == h.name
               job == [jobs[n] EXCEPT !.hash = h.hash, !.last = q.now]
    <3>2. n \in Name
      BY <1>1 DEF RoundState, Held
    <3>3. ASSUME jobs[n] \in Job
          PROVE  Past(job, clock)
      <4>1. PICK j \in Job : j = jobs[n]
        BY <3>3
      <4>2. job = [j EXCEPT !.hash = h.hash, !.last = q.now] /\ Past(j, clock)
        BY <1>1, <3>2, <4>1
      <4> HIDE DEF job, n
      <4>. QED BY <1>1, <4>1, <4>2 DEF Job, Past
    <3>. QED BY <3>1, <3>2, <3>3, PutKeepsTimes
  <2>3. CASE BumpResume(p) \/ MarkStarted(p) \/ MarkRan(p) \/ DisableOneShot(p)
    <3>1. PICK job :
            /\ q.at \in Working /\ Put(q.job.name, job)
            /\ \/ job = [InHand(p) EXCEPT !.attempts = @ + 1]
               \/ job = [InHand(p) EXCEPT !.started = q.now]
               \/ job = [InHand(p) EXCEPT !.last = q.now, !.attempts = 0]
               \/ job = [InHand(p) EXCEPT !.enabled = FALSE]
      BY <2>3 DEF BumpResume, MarkStarted, MarkRan, DisableOneShot, MarkJob, Working
    <3> DEFINE n == q.job.name
    <3>2. n \in Name
      BY <1>1, <3>1 DEF Held
    <3>3. ASSUME jobs[n] \in Job
          PROVE  Past(job, clock)
      <4>1. PICK j \in Job :
              /\ j = jobs[n]
              /\ \/ job = [j EXCEPT !.attempts = @ + 1]
                 \/ job = [j EXCEPT !.started = q.now]
                 \/ job = [j EXCEPT !.last = q.now, !.attempts = 0]
                 \/ job = [j EXCEPT !.enabled = FALSE]
        BY <3>1, <3>3 DEF InHand
      <4>2. Past(j, clock)
        BY <1>1, <3>2, <4>1
      <4> HIDE DEF n
      <4>3. CASE job = [j EXCEPT !.attempts = @ + 1]
        BY <4>2, <4>3 DEF Job, Past
      <4>4. CASE job = [j EXCEPT !.started = q.now]
        BY <1>1, <4>2, <4>4 DEF Job, Past
      <4>5. CASE job = [j EXCEPT !.last = q.now, !.attempts = 0]
        BY <1>1, <4>2, <4>5 DEF Job, Past
      <4>6. CASE job = [j EXCEPT !.enabled = FALSE]
        BY <4>2, <4>6 DEF Job, Past
      <4>. QED BY <4>1, <4>3, <4>4, <4>5, <4>6
    <3>. QED BY <3>1, <3>2, <3>3, PutKeepsTimes
  <2>. QED BY <2>1, <2>2, <2>3 DEF RoundStep, BeginRound, FindInterrupted, FindChanged, NextJob,
              RunJob, EndRound, Reading
<1>. QED BY <1>2, <1>4, <1>5 DEF TimesArePast

\* An owner adds jobs that have not run, or whose first poll is now.
LEMMA OwnerKeepsTimes ==
    ASSUME SchedInv, TimesArePast, NEW n \in Name, OwnerStep(n)
    PROVE  TimesArePast'
<1>1. /\ jobs \in [Name -> Job \cup {Nothing}] /\ clock \in Nat
      /\ wanted[n].adds \in Nat /\ output[n] \in Nat
      /\ living \subseteq Name /\ \A m \in Name : Past(jobs[m], clock)
  BY DEF SchedInv, SchedTyped, TimesArePast, Wish
<1>2. UNCHANGED <<clock, round>>
  BY OwnerMoves
<1>3. living' \subseteq Name
  BY <1>1 DEF OwnerStep, Add, SetEnabled, Remove, ProcessExits, NewOutput
<1>4. \A m \in Name : Past(jobs'[m], clock)
  <2>1. ASSUME NEW kind \in Kind, NEW baseline \in {0, output[n]}, Add(n, kind, baseline)
        PROVE  \A m \in Name : Past(jobs'[m], clock)
    <3> DEFINE new == [Nothing EXCEPT !.kind = kind, !.enabled = TRUE,
                                      !.added = wanted[n].adds + 1]
               job == IF kind = "on_change" THEN [new EXCEPT !.last = clock, !.hash = baseline]
                      ELSE new
    <3>1. jobs' = [jobs EXCEPT ![n] = job]
      BY <2>1 DEF Add
    <3>2. new \in Job /\ new.last = 0 /\ new.started = 0
      <4>1. wanted[n].adds + 1 \in Nat \ {0}
        BY <1>1
      <4>. QED BY <4>1, NewJob
    <3> HIDE DEF new
    <3>3. Past(job, clock)
      BY <1>1, <3>2 DEF Job, Past
    <3> HIDE DEF job
    <3>. QED BY <1>1, <3>1, <3>3
  <2>2. CASE Remove(n)
    <3>1. Past(Nothing, clock)
      BY <1>1 DEF Past, Nothing
    <3>. QED BY <1>1, <2>2, <3>1 DEF Remove
  <2>3. ASSUME NEW on \in BOOLEAN, SetEnabled(n, on)
        PROVE  \A m \in Name : Past(jobs'[m], clock)
    <3>1. ASSUME jobs[n] \in Job
          PROVE  Past([jobs[n] EXCEPT !.enabled = on], clock)
      <4>1. PICK j \in Job : j = jobs[n]
        BY <3>1
      <4>2. Past([j EXCEPT !.enabled = on], clock)
        BY <1>1, <4>1 DEF Job, Past
      <4>. QED BY <4>1, <4>2
    <3>2. Put(n, [jobs[n] EXCEPT !.enabled = on])
      BY <2>3 DEF SetEnabled
    <3>. QED BY <3>1, <3>2, PutKeepsTimes
  <2>4. CASE ProcessExits(n) \/ NewOutput(n)
    BY <1>1, <2>4 DEF ProcessExits, NewOutput
  <2>. QED BY <2>1, <2>2, <2>3, <2>4 DEF OwnerStep
<1>. QED BY <1>2, <1>3, <1>4 DEF TimesArePast

\* The stored jobs are jobs: no time in them is to come, no output is one that
\* was not, and each was added by an owner.
THEOREM JobsAreTyped == SchedSpec => []SchedTypeOK
<1>1. SchedInit => TimesArePast
  <2> SUFFICES ASSUME SchedInit PROVE TimesArePast
    OBVIOUS
  <2>1. Past(Nothing, 0) /\ Idle.now = 0
    BY DEF Past, Nothing, Idle
  <2>. QED BY <2>1 DEF SchedInit, TimesArePast
<1>2. SchedInv /\ TimesArePast /\ [SchedNext]_schedVars => TimesArePast'
  <2> SUFFICES ASSUME SchedInv, TimesArePast, [SchedNext]_schedVars
               PROVE  TimesArePast'
    OBVIOUS
  <2>1. CASE UNCHANGED schedVars
    BY <2>1 DEF schedVars, TimesArePast
  <2>2. CASE TimePasses
    <3>1. /\ clock' = clock + 1 /\ UNCHANGED <<jobs, living, round>> /\ clock \in Nat
          /\ \A n \in Name : jobs[n].last \in Nat /\ jobs[n].started \in Nat
          /\ \A p \in Round : round[p].now \in Nat
      <4>1. \A n \in Name : jobs[n] \in Job \cup {Nothing}
        BY DEF SchedInv, SchedTyped
      <4>2. Nothing.last \in Nat /\ Nothing.started \in Nat
        BY DEF Nothing
      <4>. QED BY <2>2, <4>1, <4>2 DEF TimePasses, SchedInv, SchedTyped, RoundState, Job
    <3>. QED BY <3>1 DEF TimesArePast, Past
  <2>. QED BY <2>1, <2>2, RoundKeepsTimes, OwnerKeepsTimes DEF SchedNext
<1>3. SchedInv /\ TimesArePast => SchedTypeOK
  <2> SUFFICES ASSUME SchedInv, TimesArePast PROVE SchedTypeOK
    OBVIOUS
  <2>1. ASSUME NEW n \in Stored
        PROVE  jobs[n] \in [kind : Kind, enabled : BOOLEAN, last : 0 .. clock,
                            started : 0 .. clock, attempts : Nat, hash : 0 .. output[n],
                            added : 1 .. wanted[n].adds]
    <3>1. /\ n \in Name /\ jobs[n] \in Job /\ clock \in Nat /\ output[n] \in Nat
          /\ Past(jobs[n], clock) /\ jobs[n].hash <= output[n] /\ jobs[n].added = wanted[n].adds
      BY DEF SchedInv, SchedTyped, TimesArePast, NothingAhead, OwnerHasTheLastWord, Stored
    <3>. QED BY <3>1 DEF Job, Past
  <2>. QED BY <2>1 DEF SchedTypeOK, TimesArePast
<1>. QED BY <1>1, <1>2, <1>3, SchedInvariant, PTL DEF SchedSpec

-----------------------------------------------------------------------------
(* The usage ledger *)

Line == ModelCall \cup {Torn}

\* The calls in a journal; each is in it once.
Written(s) == {s[i] : i \in DOMAIN s} \ {Torn}
WrittenOnce(s) == \A i, j \in DOMAIN s : s[i] = s[j] /\ s[i] # Torn => i = j

\* No line of a journal is torn before place n.
WholeBefore(s, n) == \A i \in DOMAIN s : i < n => s[i] # Torn

SpenderPlace == {"idle", "check", "call", "record", "compact", "unlink", "sync"}

IsSpender(r) ==
    /\ r = [at |-> r.at, seen |-> r.seen, call |-> r.call]
    /\ r.at \in SpenderPlace /\ r.call \in Line

UsageTyped ==
    /\ snapshot \in [ModelCall -> Nat]
    /\ lines \in Seq(Line) /\ ghost \in Seq(Line)
    /\ unfinished \in BOOLEAN
    /\ unfinished => lines # <<>> /\ lines[Len(lines)] = Torn
    /\ synced \in 0 .. Len(lines)
    /\ spender = [p \in Spender |-> spender[p]]
    /\ \A p \in Spender : IsSpender(spender[p])
    /\ \A p \in Spender : (spender[p].at \in {"unlink", "sync"}) <=> (compactor = p)
    /\ compactor \in Spender \cup {Unlocked}
    /\ made \subseteq ModelCall /\ logged \subseteq made /\ glued \subseteq made
    /\ cut \in BOOLEAN

\* A journal that somebody will append to is not torn but where it ends.
TailTorn ==
    glued = {} =>
        /\ WholeBefore(lines, Len(lines))
        /\ ~unfinished /\ lines # <<>> => lines[Len(lines)] # Torn
        /\ WholeBefore(ghost, Len(ghost) + 1)

\* What is in the ledger was made, and is in a journal once.
LedgerIsMade ==
    /\ Written(lines) \cup Written(ghost) \subseteq made
    /\ WrittenOnce(lines) /\ WrittenOnce(ghost)
    /\ \A c \in ModelCall \ made : snapshot[c] = 0

\* What a process is about to record is its own call, and in the ledger nowhere.
PendingIsNew ==
    \A p \in Spender : spender[p].at = "record" =>
        /\ spender[p].call \in made /\ snapshot[spender[p].call] = 0
        /\ spender[p].call \notin Written(lines) \cup Written(ghost)
        /\ \A q \in Spender : spender[q].at = "record" /\ spender[q].call = spender[p].call => q = p

\* A compaction removes only what it has published.
CompactionIsSafe ==
    /\ \A p \in Spender : spender[p].at = "unlink" => \A c \in Written(lines) : snapshot[c] > 0
    /\ \A p \in Spender : spender[p].at = "sync" => lines = <<>>

\* Nothing is counted twice unless a compaction was cut short.
CountedOnce ==
    ~cut => /\ \A c \in ModelCall : snapshot[c] <= 1
            /\ compactor = Unlocked => ghost = <<>> /\ \A c \in Written(lines) : snapshot[c] = 0

NothingIsLost == \A c \in logged \ glued : snapshot[c] > 0 \/ c \in Written(lines)

UsageInv ==
    /\ UsageTyped /\ TailTorn /\ LedgerIsMade /\ PendingIsNew
    /\ CompactionIsSafe /\ CountedOnce /\ NothingIsLost

-----------------------------------------------------------------------------
(* Journals *)

\* What an append adds to a journal.
LEMMA Appended ==
    ASSUME NEW s \in Seq(Line), NEW c \in Line
    PROVE  /\ Append(s, c) \in Seq(Line) /\ Append(s, c) # <<>>
           /\ Len(Append(s, c)) = Len(s) + 1 /\ Append(s, c)[Len(s) + 1] = c
           /\ Written(Append(s, c)) = Written(s) \cup ({c} \ {Torn})
           /\ WrittenOnce(s) /\ c \notin Written(s) => WrittenOnce(Append(s, c))
           /\ WholeBefore(s, Len(s) + 1) => WholeBefore(Append(s, c), Len(s) + 1)
<1> DEFINE t == Append(s, c)
<1>1. /\ t \in Seq(Line) /\ t # <<>> /\ Len(t) = Len(s) + 1 /\ t[Len(s) + 1] = c
      /\ DOMAIN t = 1 .. Len(s) + 1 /\ DOMAIN s = 1 .. Len(s) /\ Len(s) \in Nat
      /\ \A i \in 1 .. Len(s) : t[i] = s[i]
  OBVIOUS
<1> HIDE DEF t
<1>2. \A i \in DOMAIN t : (i \in DOMAIN s /\ t[i] = s[i]) \/ (i = Len(s) + 1 /\ t[i] = c)
  BY <1>1
<1>3. \A i \in DOMAIN s : i \in DOMAIN t /\ t[i] = s[i]
  BY <1>1
<1>4. Written(t) = Written(s) \cup ({c} \ {Torn})
  BY <1>1, <1>2, <1>3 DEF Written
<1>5. ASSUME WrittenOnce(s), c \notin Written(s)
      PROVE  WrittenOnce(t)
  BY <1>1, <1>2, <1>5 DEF WrittenOnce, Written
<1>6. ASSUME WholeBefore(s, Len(s) + 1)
      PROVE  WholeBefore(t, Len(s) + 1)
  BY <1>1, <1>2, <1>6 DEF WholeBefore
<1>. QED BY <1>1, <1>4, <1>5, <1>6 DEF t

\* What is left of a journal that is cut after k lines.
LEMMA Shortened ==
    ASSUME NEW s \in Seq(Line), NEW k \in 0 .. Len(s)
    PROVE  /\ SubSeq(s, 1, k) \in Seq(Line) /\ Len(SubSeq(s, 1, k)) = k
           /\ \A i \in 1 .. k : SubSeq(s, 1, k)[i] = s[i]
           /\ Written(SubSeq(s, 1, k)) \subseteq Written(s)
           /\ \A i \in DOMAIN s : i <= k /\ s[i] # Torn => s[i] \in Written(SubSeq(s, 1, k))
           /\ WrittenOnce(s) => WrittenOnce(SubSeq(s, 1, k))
           /\ WholeBefore(s, k + 1) => WholeBefore(SubSeq(s, 1, k), k + 1)
<1> DEFINE t == SubSeq(s, 1, k)
<1>1. /\ t \in Seq(Line) /\ Len(t) = k /\ DOMAIN t = 1 .. k
      /\ DOMAIN s = 1 .. Len(s) /\ Len(s) \in Nat /\ k \in Nat /\ k <= Len(s)
      /\ \A i \in 1 .. k : t[i] = s[i]
  OBVIOUS
<1> HIDE DEF t
<1>2. \A i \in DOMAIN t : i \in DOMAIN s /\ i <= k /\ t[i] = s[i]
  BY <1>1
<1>3. \A i \in DOMAIN s : i <= k => i \in DOMAIN t /\ t[i] = s[i]
  BY <1>1
<1>4. Written(t) \subseteq Written(s) /\ \A i \in DOMAIN s : i <= k /\ s[i] # Torn => s[i] \in Written(t)
  BY <1>2, <1>3 DEF Written
<1>5. WrittenOnce(s) => WrittenOnce(t)
  BY <1>2 DEF WrittenOnce
<1>6. WholeBefore(s, k + 1) => WholeBefore(t, k + 1)
  BY <1>1, <1>2 DEF WholeBefore
<1>. QED BY <1>1, <1>4, <1>5, <1>6 DEF t

\* The lines that a replay takes into account hold every call of the journal.
LEMMA FinishedLines ==
    ASSUME UsageTyped
    PROVE  /\ Finished \in Seq(Line) /\ Written(Finished) = Written(lines)
           /\ WrittenOnce(lines) => WrittenOnce(Finished)
           /\ TailTorn /\ glued = {} => WholeBefore(Finished, Len(Finished) + 1)
           /\ Len(Finished) <= Len(lines)
<1>1. /\ lines \in Seq(Line) /\ Len(lines) \in Nat /\ DOMAIN lines = 1 .. Len(lines)
      /\ unfinished => lines # <<>> /\ lines[Len(lines)] = Torn
  BY DEF UsageTyped
<1>2. CASE unfinished
  <2> DEFINE k == Len(lines) - 1
  <2>1. k \in 0 .. Len(lines) /\ Finished = SubSeq(lines, 1, k)
    BY <1>1, <1>2 DEF Finished
  <2>2. \A i \in DOMAIN lines : i <= k \/ lines[i] = Torn
    BY <1>1, <1>2
  <2>3. Written(Finished) = Written(lines)
    <3> HIDE DEF k
    <3>1. ASSUME NEW c \in Written(lines)
          PROVE  c \in Written(Finished)
      <4>1. PICK i \in DOMAIN lines : lines[i] = c /\ c # Torn
        BY DEF Written
      <4>2. i <= k
        BY <2>2, <4>1
      <4>. QED BY <1>1, <2>1, <4>1, <4>2, Shortened
    <3>. QED BY <1>1, <2>1, <3>1, Shortened
  <2>4. TailTorn /\ glued = {} => WholeBefore(lines, k + 1)
    BY <1>1 DEF TailTorn, WholeBefore
  <2>. QED BY <1>1, <2>1, <2>3, <2>4, Shortened
<1>3. CASE ~unfinished
  <2>1. Finished = lines
    BY <1>3 DEF Finished
  <2>2. TailTorn /\ glued = {} => WholeBefore(lines, Len(lines) + 1)
    BY <1>1, <1>3 DEF TailTorn, WholeBefore
  <2>. QED BY <1>1, <2>1, <2>2
<1>. QED BY <1>2, <1>3

\* A compaction counts each call of the journal once.
LEMMA FoldedOnce ==
    ASSUME UsageTyped, WrittenOnce(lines), NEW c \in ModelCall
    PROVE  Cardinality({i \in Events : Finished[i] = c}) = IF c \in Written(lines) THEN 1 ELSE 0
<1> DEFINE s == Finished
           places == {i \in Events : Finished[i] = c}
<1>1. /\ c # Torn /\ Written(s) = Written(lines) /\ WrittenOnce(s)
      /\ \A i : i \in places <=> i \in DOMAIN s /\ s[i] = c
  BY FinishedLines, LineAssumption DEF Events
<1>2. CASE c \in Written(lines)
  <2>1. PICK i \in DOMAIN s : s[i] = c
    BY <1>1, <1>2 DEF Written
  <2>2. places = {i}
    BY <1>1, <2>1 DEF WrittenOnce
  <2>. QED BY <1>2, <2>2, FS_Singleton
<1>3. CASE c \notin Written(lines)
  <2>1. places = {}
    BY <1>1, <1>3 DEF Written
  <2>. QED BY <1>3, <2>1, FS_EmptySet
<1>. QED BY <1>2, <1>3

-----------------------------------------------------------------------------
(* The steps of a process *)

\* A process goes on to another place, or is done.
LEMMA Moved ==
    ASSUME UsageTyped, NEW p \in Spender,
           \/ \E at \in SpenderPlace : Move(p, at)
           \/ Done(p)
    PROVE  /\ spender' = [q \in Spender |-> spender'[q]]
           /\ \A q \in Spender : IsSpender(spender'[q]) /\ (q # p => spender'[q] = spender[q])
           /\ Done(p) => spender'[p].at = "idle"
           /\ \A at \in SpenderPlace : Move(p, at) =>
                 spender'[p].at = at /\ spender'[p].call = spender[p].call
<1> DEFINE r == spender[p]
<1>1. spender = [q \in Spender |-> spender[q]] /\ \A q \in Spender : IsSpender(spender[q])
  BY DEF UsageTyped
<1>2. IsSpender(Between) /\ Between.at = "idle"
  BY DEF Between, IsSpender, SpenderPlace, Line
<1>3. CASE Done(p)
  <2>1. spender' = [spender EXCEPT ![p] = Between]
    BY <1>3 DEF Done
  <2>2. \A q \in Spender : spender'[q] = IF q = p THEN Between ELSE spender[q]
    BY <1>1, <2>1
  <2>3. ASSUME NEW at \in SpenderPlace, Move(p, at)
        PROVE  spender'[p].at = at /\ spender'[p].call = spender[p].call
    <3>1. spender'[p] = [r EXCEPT !.at = at]
      BY <1>1, <2>3 DEF Move
    <3>. QED BY <1>1, <3>1 DEF IsSpender
  <2>. QED BY <1>1, <1>2, <2>1, <2>2, <2>3
<1>4. ASSUME NEW at \in SpenderPlace, Move(p, at)
      PROVE  /\ spender' = [q \in Spender |-> spender'[q]]
             /\ \A q \in Spender : q # p => spender'[q] = spender[q]
             /\ IsSpender(spender'[p])
             /\ spender'[p].at = at /\ spender'[p].call = spender[p].call
  <2>1. spender' = [spender EXCEPT ![p] = [r EXCEPT !.at = at]]
    BY <1>4 DEF Move
  <2>2. \A q \in Spender : spender'[q] = IF q = p THEN [r EXCEPT !.at = at] ELSE spender[q]
    BY <1>1, <2>1
  <2>3. spender' = [q \in Spender |-> spender'[q]]
    BY <1>1, <2>1, <2>2
  <2>4. [r EXCEPT !.at = at] = [at |-> at, seen |-> r.seen, call |-> r.call]
    BY <1>1 DEF IsSpender
  <2>5. IsSpender(spender'[p])
    BY <1>1, <2>2, <2>4 DEF IsSpender
  <2>. QED BY <2>2, <2>3, <2>4, <2>5
<1>5. Done(p) => spender'[p].at = "idle" /\ spender'[p] = Between
  BY <1>1, <1>2 DEF Done
<1>. QED BY <1>1, <1>3, <1>4, <1>5

\* A step that leaves the ledger alone, and takes one process on.
LEMMA QuietStep ==
    ASSUME UsageInv, NEW p \in Spender,
           UNCHANGED <<snapshot, lines, unfinished, synced, logged, glued>>,
           ghost' = ghost \/ ghost' = <<>>,
           spender' = [q \in Spender |-> spender'[q]],
           \A q \in Spender : IsSpender(spender'[q]) /\ (q # p => spender'[q] = spender[q]),
           made \subseteq made', made' \subseteq ModelCall,
           cut' \in BOOLEAN, cut => cut',
           \/ compactor' = compactor /\ (spender'[p].at \in {"unlink", "sync"} <=> compactor = p)
           \/ /\ compactor = p /\ compactor' = Unlocked /\ spender'[p].at = "idle"
              /\ ~cut' => ghost' = <<>> /\ lines = <<>>,
           spender'[p].at \in {"unlink", "sync"} => spender'[p].at = spender[p].at,
           spender'[p].at = "record" => /\ spender'[p].call \in made' \ made
    PROVE  UsageInv'
<1>1. /\ UsageTyped /\ LedgerIsMade /\ PendingIsNew /\ CompactionIsSafe /\ CountedOnce
      /\ NothingIsLost /\ TailTorn
  BY DEF UsageInv
<1>2. Unlocked \notin Spender /\ <<>> \in Seq(Line) /\ Written(<<>>) = {} /\ WrittenOnce(<<>>)
      /\ WholeBefore(<<>>, Len(<<>>) + 1)
  BY LineAssumption DEF Written, WrittenOnce, WholeBefore
<1>3. UsageTyped'
  BY <1>1, <1>2 DEF UsageTyped
<1>5. LedgerIsMade'
  <2>1. Written(lines) \cup Written(ghost') \subseteq made' /\ WrittenOnce(lines) /\ WrittenOnce(ghost')
    BY <1>1, <1>2 DEF LedgerIsMade
  <2>. QED BY <1>1, <2>1 DEF LedgerIsMade, Written, WrittenOnce
<1>6. PendingIsNew'
  <2>1. ASSUME NEW q \in Spender, spender'[q].at = "record"
        PROVE  /\ spender'[q].call \in made' /\ snapshot[spender'[q].call] = 0
               /\ spender'[q].call \notin Written(lines) \cup Written(ghost')
               /\ \A s \in Spender :
                     spender'[s].at = "record" /\ spender'[s].call = spender'[q].call => s = q
    <3>1. Written(ghost') \subseteq Written(ghost)
      BY <1>2
    <3>2. CASE q = p
      BY <1>1, <2>1, <3>1, <3>2 DEF LedgerIsMade, PendingIsNew
    <3>3. CASE q # p
      BY <1>1, <2>1, <3>1, <3>3 DEF LedgerIsMade, PendingIsNew
    <3>. QED BY <3>2, <3>3
  <2>. QED BY <2>1 DEF PendingIsNew, Written
<1>7. CompactionIsSafe'
  BY <1>1 DEF CompactionIsSafe, Written
<1>8. CountedOnce'
  BY <1>1, <1>2 DEF CountedOnce, Written
<1>9. NothingIsLost'
  BY <1>1 DEF NothingIsLost, Written
<1>10. TailTorn'
  BY <1>1, <1>2 DEF TailTorn, WholeBefore
<1>. QED BY <1>3, <1>5, <1>6, <1>7, <1>8, <1>9, <1>10 DEF UsageInv

\* The budget guard, and what ends a record or a compaction without a trace.
LEMMA QuietSteps ==
    ASSUME UsageInv, NEW p \in Spender,
           \/ ReadSnapshot(p) \/ ReadJournal(p) \/ MakeCall(p) \/ LoseRecord(p)
           \/ Maintain(p) \/ SyncDirectory(p) \/ CompactFails(p) \/ Kill(p)
    PROVE  UsageInv'
<1>1. /\ UsageTyped /\ IsSpender(spender[p]) /\ spender = [q \in Spender |-> spender[q]]
      /\ \A q \in Spender : IsSpender(spender[q])
      /\ Unlocked \notin Spender /\ made \subseteq ModelCall /\ cut \in BOOLEAN
      /\ (spender[p].at \in {"unlink", "sync"}) <=> compactor = p
      /\ spender[p].at = "sync" => lines = <<>>
  BY LineAssumption DEF UsageInv, UsageTyped, CompactionIsSafe
<1>2. CASE ReadSnapshot(p)
  <2>1. spender' = [spender EXCEPT ![p] = [Between EXCEPT !.at = "check", !.seen = InSnapshot]]
    BY <1>2 DEF ReadSnapshot
  <2> DEFINE r == [Between EXCEPT !.at = "check", !.seen = InSnapshot]
  <2>2. r = [at |-> "check", seen |-> r.seen, call |-> Torn]
    <3> DEFINE asked == [Between EXCEPT !.at = "check"]
    <3>1. asked = [at |-> "check", seen |-> 0, call |-> Torn]
      BY DEF Between
    <3> HIDE DEF asked
    <3>2. [asked EXCEPT !.seen = InSnapshot] = [at |-> "check", seen |-> InSnapshot, call |-> Torn]
      BY <3>1
    <3>. QED BY <3>2 DEF asked
  <2> HIDE DEF r
  <2>3. IsSpender(r) /\ r.at = "check"
    BY <2>2 DEF IsSpender, SpenderPlace, Line
  <2>4. /\ spender' = [q \in Spender |-> spender'[q]]
        /\ \A q \in Spender : spender'[q] = IF q = p THEN r ELSE spender[q]
    BY <1>1, <2>1 DEF r
  <2>5. compactor # p
    BY <1>1, <1>2 DEF ReadSnapshot, Between
  <2>. QED BY <1>1, <1>2, <2>3, <2>4, <2>5, QuietStep DEF ReadSnapshot
<1>3. CASE ReadJournal(p)
  <2>1. spender[p].at = "check" /\ (Move(p, "call") \/ Done(p))
    BY <1>3 DEF ReadJournal
  <2>2. "call" \in SpenderPlace
    BY DEF SpenderPlace
  <2>. QED BY <1>1, <1>3, <2>1, <2>2, Moved, QuietStep DEF ReadJournal
<1>4. CASE MakeCall(p)
  <2>1. PICK c \in ModelCall \ made :
          /\ made' = made \cup {c} /\ spender[p].at = "call"
          /\ spender' = [spender EXCEPT ![p].at = "record", ![p].call = c]
          /\ UNCHANGED <<snapshot, lines, unfinished, synced, ghost, compactor,
                         logged, glued, cut, misled, trouble>>
    BY <1>4 DEF MakeCall
  <2> DEFINE r == [at |-> "record", seen |-> spender[p].seen, call |-> c]
  <2>2. spender' = [spender EXCEPT ![p] = r]
    <3> DEFINE e == [spender[p] EXCEPT !.at = "record"]
    <3>1. e = [at |-> "record", seen |-> spender[p].seen, call |-> spender[p].call]
      BY <1>1 DEF IsSpender
    <3> HIDE DEF e
    <3>2. [e EXCEPT !.call = c] = r
      BY <3>1
    <3>3. spender' = [spender EXCEPT ![p] = [e EXCEPT !.call = c]]
      BY <1>1, <2>1 DEF e
    <3>. QED BY <3>2, <3>3
  <2>3. IsSpender(r) /\ r.at = "record" /\ r.call = c
    BY DEF IsSpender, SpenderPlace, Line
  <2> HIDE DEF r
  <2>4. /\ spender' = [q \in Spender |-> spender'[q]]
        /\ \A q \in Spender : spender'[q] = IF q = p THEN r ELSE spender[q]
    BY <1>1, <2>2
  <2>. QED BY <1>1, <2>1, <2>3, <2>4, QuietStep
<1>5. CASE LoseRecord(p)
  BY <1>1, <1>5, Moved, QuietStep DEF LoseRecord
<1>6. CASE Maintain(p)
  <2>1. "compact" \in SpenderPlace /\ spender[p].at = "idle"
    BY <1>6 DEF SpenderPlace, Maintain, Between
  <2>. QED BY <1>1, <1>6, <2>1, Moved, QuietStep DEF Maintain
<1>7. CASE SyncDirectory(p)
  BY <1>1, <1>7, Moved, QuietStep DEF SyncDirectory
<1>8. CASE CompactFails(p)
  <2>1. /\ Done(p) /\ UNCHANGED <<snapshot, lines, unfinished, synced, ghost, made, logged, glued, misled>>
        /\ \/ spender[p].at = "compact" /\ UNCHANGED <<compactor, cut>>
           \/ spender[p].at = "unlink" /\ compactor' = Unlocked /\ cut' = TRUE
    BY <1>8 DEF CompactFails
  <2>2. CASE spender[p].at = "compact" /\ UNCHANGED <<compactor, cut>>
    BY <1>1, <2>1, <2>2, Moved, QuietStep
  <2>3. CASE spender[p].at = "unlink" /\ compactor' = Unlocked /\ cut' = TRUE
    BY <1>1, <2>1, <2>3, Moved, QuietStep
  <2>. QED BY <2>1, <2>2, <2>3
<1>9. CASE Kill(p)
  <2>1. /\ Done(p) /\ UNCHANGED <<snapshot, lines, unfinished, synced, ghost, made, logged, glued, misled>>
        /\ compactor' = IF compactor = p THEN Unlocked ELSE compactor
        /\ cut' = (cut \/ compactor = p)
    BY <1>9 DEF Kill
  <2>2. CASE compactor = p
    BY <1>1, <2>1, <2>2, Moved, QuietStep
  <2>3. CASE compactor # p
    BY <1>1, <2>1, <2>3, Moved, QuietStep
  <2>. QED BY <2>2, <2>3
<1>. QED BY <1>2, <1>3, <1>4, <1>5, <1>6, <1>7, <1>8, <1>9

\* Nobody is between a publication and its end while another appends.
LEMMA FreeLock ==
    ASSUME UsageInv, compactor = Unlocked
    PROVE  \A p \in Spender : spender[p].at \notin {"unlink", "sync"}
BY LineAssumption DEF UsageInv, UsageTyped

\* Lines appended under the lock, none of them a call that is in the ledger.
LEMMA AppendStep ==
    ASSUME UsageInv, NEW p \in Spender, spender[p].at = "record", compactor = Unlocked,
           UNCHANGED <<snapshot, compactor, made, cut>>,
           spender' = [q \in Spender |-> spender'[q]],
           \A q \in Spender : IsSpender(spender'[q]) /\ (q # p => spender'[q] = spender[q]),
           spender'[p].at \in {"idle", "compact"},
           ghost' = ghost \/ ghost' = <<>>,
           synced' \in {synced, Len(lines')},
           NEW c \in Line,
           lines' = (IF unfinished THEN lines ELSE Append(lines, c)),
           unfinished' = (c = Torn),
           \/ c = Torn /\ logged' = logged /\ glued' = glued
           \/ /\ c = spender[p].call /\ c # Torn /\ logged' = logged \cup {c}
              /\ glued' = IF unfinished THEN glued \cup {c} ELSE glued
    PROVE  UsageInv'
<1>1. /\ UsageTyped /\ LedgerIsMade /\ PendingIsNew /\ CountedOnce /\ NothingIsLost /\ TailTorn
      /\ \A q \in Spender : spender[q].at \notin {"unlink", "sync"}
      /\ lines \in Seq(Line) /\ Len(lines) \in Nat /\ synced \in 0 .. Len(lines)
      /\ unfinished => lines # <<>> /\ lines[Len(lines)] = Torn
  BY FreeLock DEF UsageInv, UsageTyped
<1>2. /\ Unlocked \notin Spender /\ <<>> \in Seq(Line) /\ Written(<<>>) = {} /\ WrittenOnce(<<>>)
      /\ WholeBefore(<<>>, Len(<<>>) + 1)
  BY LineAssumption DEF Written, WrittenOnce, WholeBefore
<1>3. c # Torn => /\ c \in made /\ c \notin Written(lines) \cup Written(ghost) /\ snapshot[c] = 0
                  /\ \A q \in Spender \ {p} : spender[q].at = "record" => spender[q].call # c
  BY <1>1 DEF PendingIsNew
<1>4. /\ lines' \in Seq(Line) /\ Len(lines') \in Nat /\ Len(lines) <= Len(lines') /\ lines' # <<>>
      /\ unfinished' => lines'[Len(lines')] = Torn
      /\ Written(lines') \subseteq Written(lines) \cup ({c} \ {Torn})
      /\ Written(lines) \subseteq Written(lines')
      /\ ~unfinished => c \in Written(lines') \cup {Torn}
      /\ WrittenOnce(lines')
  <2>1. CASE unfinished
    BY <1>1, <2>1 DEF LedgerIsMade
  <2>2. CASE ~unfinished
    <3>1. lines' = Append(lines, c)
      BY <2>2
    <3>2. WrittenOnce(lines) /\ c \notin Written(lines)
      BY <1>1, <1>3 DEF LedgerIsMade, Written
    <3>3. /\ lines' \in Seq(Line) /\ Len(lines') = Len(lines) + 1 /\ lines' # <<>>
          /\ lines'[Len(lines) + 1] = c
          /\ Written(lines') = Written(lines) \cup ({c} \ {Torn})
          /\ WrittenOnce(lines')
      BY <1>1, <3>1, <3>2, Appended
    <3>4. /\ Len(lines') \in Nat /\ Len(lines) <= Len(lines')
          /\ lines'[Len(lines')] = c
      BY <1>1, <3>3
    <3>5. unfinished' => c = Torn
      OBVIOUS
    <3>. QED BY <3>3, <3>4, <3>5
  <2>. QED BY <2>1, <2>2
<1>5. Written(ghost') \subseteq Written(ghost) /\ WrittenOnce(ghost')
  BY <1>1, <1>2 DEF LedgerIsMade
<1>6. UsageTyped'
  <2>1. synced' \in 0 .. Len(lines') /\ unfinished' \in BOOLEAN
    BY <1>1, <1>4
  <2>2. ghost' \in Seq(Line) /\ logged' \subseteq made' /\ glued' \subseteq made'
    BY <1>1, <1>2, <1>3 DEF UsageTyped
  <2>3. \A q \in Spender : (spender'[q].at \in {"unlink", "sync"}) <=> (compactor' = q)
    BY <1>1, <1>2
  <2>. QED BY <1>1, <1>4, <2>1, <2>2, <2>3 DEF UsageTyped
<1>7. LedgerIsMade'
  <2>1. Written(lines') \cup Written(ghost') \subseteq made
    BY <1>1, <1>3, <1>4, <1>5 DEF LedgerIsMade
  <2>. QED BY <1>1, <1>4, <1>5, <2>1 DEF LedgerIsMade, Written, WrittenOnce
<1>8. PendingIsNew'
  <2>1. ASSUME NEW q \in Spender, spender'[q].at = "record"
        PROVE  /\ spender'[q].call \in made' /\ snapshot[spender'[q].call] = 0
               /\ spender'[q].call \notin Written(lines') \cup Written(ghost')
               /\ \A s \in Spender :
                     spender'[s].at = "record" /\ spender'[s].call = spender'[q].call => s = q
    <3>1. q # p /\ spender'[q] = spender[q]
      BY <2>1
    <3>. QED BY <1>1, <1>3, <1>4, <1>5, <2>1, <3>1 DEF PendingIsNew
  <2>. QED BY <2>1 DEF PendingIsNew, Written
<1>9. CompactionIsSafe'
  BY <1>1 DEF CompactionIsSafe
<1>10. CountedOnce'
  <2>1. ASSUME ~cut
        PROVE  /\ \A d \in ModelCall : snapshot[d] <= 1
               /\ ghost' = <<>> /\ \A d \in Written(lines') : snapshot[d] = 0
    BY <1>1, <1>3, <1>4, <2>1 DEF CountedOnce
  <2>. QED BY <2>1 DEF CountedOnce, Written
<1>11. NothingIsLost'
  <2>1. \A d \in logged' \ glued' : snapshot[d] > 0 \/ d \in Written(lines')
    BY <1>1, <1>4 DEF NothingIsLost
  <2>. QED BY <2>1 DEF NothingIsLost, Written
<1>12. TailTorn'
  <2>1. ASSUME glued' = {}
        PROVE  /\ WholeBefore(lines', Len(lines')) /\ WholeBefore(ghost', Len(ghost') + 1)
               /\ ~unfinished' => lines'[Len(lines')] # Torn
    <3>1. glued = {} /\ (unfinished => c = Torn)
      BY <2>1
    <3>2. WholeBefore(lines, Len(lines)) /\ WholeBefore(ghost', Len(ghost') + 1)
      BY <1>1, <1>2, <3>1 DEF TailTorn
    <3>3. CASE unfinished
      BY <3>1, <3>2, <3>3
    <3>4. CASE ~unfinished
      <4>1. WholeBefore(lines, Len(lines) + 1)
        BY <1>1, <3>1, <3>4 DEF TailTorn, WholeBefore
      <4>. QED BY <1>1, <3>2, <3>4, <4>1, Appended
    <3>. QED BY <3>3, <3>4
  <2>. QED BY <2>1 DEF TailTorn, WholeBefore
<1>. QED BY <1>6, <1>7, <1>8, <1>9, <1>10, <1>11, <1>12 DEF UsageInv

\* A record, whole or torn, keeps the ledger.
LEMMA RecordSteps ==
    ASSUME UsageInv, NEW p \in Spender, Record(p) \/ TearRecord(p)
    PROVE  UsageInv'
<1>1. UsageTyped /\ spender[p].call \in Line /\ spender[p].at = "record" /\ compactor = Unlocked
  BY DEF UsageInv, UsageTyped, IsSpender, Record, TearRecord
<1>2. "compact" \in SpenderPlace /\ Torn \in Line
  BY DEF SpenderPlace, Line
<1>3. CASE Record(p)
  <2>1. spender[p].call # Torn
    BY <1>1, LineAssumption DEF UsageInv, UsageTyped, PendingIsNew
  <2>2. Move(p, "compact") \/ Done(p)
    BY <1>3 DEF Record
  <2>3. /\ spender' = [q \in Spender |-> spender'[q]]
        /\ \A q \in Spender : IsSpender(spender'[q]) /\ (q # p => spender'[q] = spender[q])
        /\ spender'[p].at \in {"idle", "compact"}
    BY <1>1, <1>2, <2>2, Moved
  <2>4. /\ lines' = (IF unfinished THEN lines ELSE Append(lines, spender[p].call))
        /\ unfinished' = FALSE
        /\ ghost' = ghost \/ ghost' = <<>>
        /\ logged' = logged \cup {spender[p].call}
        /\ glued' = (IF unfinished THEN glued \cup {spender[p].call} ELSE glued)
        /\ synced' \in {synced, Len(lines')}
        /\ UNCHANGED <<snapshot, compactor, made, cut>>
    BY <1>3 DEF Record, AppendUsage
  <2>. QED BY <1>1, <2>1, <2>3, <2>4, AppendStep
<1>4. CASE TearRecord(p)
  BY <1>1, <1>2, <1>4, Moved, AppendStep DEF TearRecord
<1>. QED BY <1>3, <1>4

\* A publication counts what the journal has, once.
LEMMA PublishStep ==
    ASSUME UsageInv, NEW p \in Spender, PublishSnapshot(p)
    PROVE  UsageInv'
<1>1. /\ UsageTyped /\ LedgerIsMade /\ PendingIsNew /\ CountedOnce /\ NothingIsLost /\ TailTorn
      /\ spender[p].at = "compact" /\ compactor = Unlocked
      /\ \A q \in Spender : spender[q].at \notin {"unlink", "sync"}
      /\ UNCHANGED <<lines, unfinished, synced, ghost, made, logged, glued, misled, trouble, cut>>
  BY FreeLock DEF UsageInv, UsageTyped, PublishSnapshot
<1>2. Unlocked \notin Spender /\ "unlink" \in SpenderPlace /\ Torn \notin ModelCall
  BY LineAssumption DEF SpenderPlace
<1>3. CASE Done(p) /\ UNCHANGED <<snapshot, compactor>>
  BY <1>1, <1>2, <1>3, Moved, QuietStep DEF UsageTyped
<1>4. CASE /\ snapshot' = [c \in ModelCall |->
                  snapshot[c] + Cardinality({i \in Events : Finished[i] = c})]
           /\ compactor' = p /\ Move(p, "unlink")
  <2>1. \A c \in ModelCall : /\ snapshot[c] \in Nat
                             /\ snapshot'[c] = snapshot[c] + IF c \in Written(lines) THEN 1 ELSE 0
    BY <1>1, <1>4, FoldedOnce DEF UsageTyped, LedgerIsMade
  <2>2. snapshot' \in [ModelCall -> Nat]
    <3>1. snapshot' = [c \in ModelCall |-> snapshot'[c]]
      BY <1>4
    <3>2. \A c \in ModelCall : snapshot'[c] \in Nat
      BY <2>1
    <3>. QED BY <3>1, <3>2
  <2>3. /\ spender' = [q \in Spender |-> spender'[q]]
        /\ \A q \in Spender : IsSpender(spender'[q]) /\ (q # p => spender'[q] = spender[q])
        /\ spender'[p].at = "unlink"
    BY <1>1, <1>2, <1>4, Moved
  <2>4. made \subseteq ModelCall /\ Written(lines) \subseteq made /\ logged \subseteq ModelCall
    BY <1>1 DEF UsageTyped, LedgerIsMade
  <2>5. UsageTyped'
    <3>1. \A q \in Spender : (spender'[q].at \in {"unlink", "sync"}) <=> (compactor' = q)
      BY <1>1, <1>4, <2>3
    <3>. QED BY <1>1, <1>4, <2>2, <2>3, <3>1 DEF UsageTyped
  <2>6. LedgerIsMade'
    <3>1. \A c \in ModelCall \ made : snapshot'[c] = 0
      BY <1>1, <2>1, <2>4 DEF LedgerIsMade
    <3>. QED BY <1>1, <3>1 DEF LedgerIsMade, Written, WrittenOnce
  <2>7. PendingIsNew'
    <3>1. ASSUME NEW q \in Spender, spender'[q].at = "record"
          PROVE  /\ spender'[q].call \in made' /\ snapshot'[spender'[q].call] = 0
                 /\ spender'[q].call \notin Written(lines) \cup Written(ghost)
                 /\ \A s \in Spender :
                       spender'[s].at = "record" /\ spender'[s].call = spender'[q].call => s = q
      BY <1>1, <2>1, <2>3, <2>4, <3>1 DEF PendingIsNew
    <3>. QED BY <1>1, <3>1 DEF PendingIsNew, Written
  <2>8. CompactionIsSafe'
    <3>1. \A c \in Written(lines) : snapshot'[c] > 0
      BY <2>1, <2>4
    <3>2. \A q \in Spender : spender'[q].at # "sync"
      BY <1>1, <2>3
    <3>. QED BY <1>1, <3>1, <3>2 DEF CompactionIsSafe, Written
  <2>9. CountedOnce'
    BY <1>1, <1>2, <1>4, <2>1 DEF CountedOnce
  <2>10. NothingIsLost'
    <3>1. \A c \in logged \ glued : snapshot'[c] > 0 \/ c \in Written(lines)
      BY <1>1, <2>1, <2>4 DEF NothingIsLost
    <3>. QED BY <1>1, <3>1 DEF NothingIsLost, Written
  <2>11. TailTorn'
    BY <1>1 DEF TailTorn, WholeBefore
  <2>. QED BY <2>5, <2>6, <2>7, <2>8, <2>9, <2>10, <2>11 DEF UsageInv
<1>. QED BY <1>3, <1>4 DEF PublishSnapshot

\* The journal goes when all of it is in the snapshot.
LEMMA UnlinkStep ==
    ASSUME UsageInv, NEW p \in Spender, Unlink(p)
    PROVE  UsageInv'
<1>1. /\ UsageTyped /\ LedgerIsMade /\ PendingIsNew /\ CountedOnce /\ NothingIsLost /\ TailTorn
      /\ CompactionIsSafe
      /\ spender[p].at = "unlink" /\ compactor = p
      /\ ghost' = Finished /\ lines' = <<>> /\ unfinished' = FALSE /\ synced' = 0
      /\ Move(p, "sync")
      /\ UNCHANGED <<snapshot, compactor, made, logged, glued, cut>>
  BY DEF UsageInv, UsageTyped, Unlink
<1>2. /\ Unlocked \notin Spender /\ "sync" \in SpenderPlace
      /\ <<>> \in Seq(Line) /\ Len(<<>>) = 0
      /\ Written(<<>>) = {} /\ WrittenOnce(<<>>) /\ WholeBefore(<<>>, 0)
  BY LineAssumption DEF SpenderPlace, Written, WrittenOnce, WholeBefore
<1>3. /\ ghost' \in Seq(Line) /\ Written(ghost') = Written(lines) /\ WrittenOnce(ghost')
      /\ glued = {} => WholeBefore(ghost', Len(ghost') + 1)
  BY <1>1, FinishedLines DEF LedgerIsMade
<1>4. /\ spender' = [q \in Spender |-> spender'[q]]
      /\ \A q \in Spender : IsSpender(spender'[q]) /\ (q # p => spender'[q] = spender[q])
      /\ spender'[p].at = "sync"
  BY <1>1, <1>2, Moved
<1>5. \A q \in Spender : q # p => spender[q].at \notin {"unlink", "sync"}
  BY <1>1 DEF UsageTyped
<1>6. UsageTyped'
  <2>1. \A q \in Spender : (spender'[q].at \in {"unlink", "sync"}) <=> (compactor' = q)
    BY <1>1, <1>4, <1>5
  <2>2. synced' \in 0 .. Len(lines')
    BY <1>1, <1>2
  <2>. QED BY <1>1, <1>2, <1>3, <1>4, <2>1, <2>2 DEF UsageTyped
<1>7. LedgerIsMade'
  BY <1>1, <1>2, <1>3 DEF LedgerIsMade
<1>8. PendingIsNew'
  BY <1>1, <1>2, <1>3, <1>4 DEF PendingIsNew
<1>9. CompactionIsSafe'
  BY <1>1, <1>4, <1>5 DEF CompactionIsSafe
<1>10. CountedOnce'
  BY <1>1, <1>2 DEF CountedOnce
<1>11. NothingIsLost'
  BY <1>1 DEF NothingIsLost, CompactionIsSafe
<1>12. TailTorn'
  BY <1>1, <1>2, <1>3 DEF TailTorn
<1>. QED BY <1>6, <1>7, <1>8, <1>9, <1>10, <1>11, <1>12 DEF UsageInv

-----------------------------------------------------------------------------
(* A power loss *)

\* A journal that is cut somewhere before its end ...
LEMMA CutJournal ==
    ASSUME UsageInv, NEW k \in Nat, k < Len(lines)
    PROVE  LET s == SubSeq(lines, 1, k)
           IN  /\ s \in Seq(Line) /\ Len(s) = k
               /\ Written(s) \subseteq Written(lines) /\ WrittenOnce(s)
               /\ \A i \in DOMAIN lines : i <= k /\ lines[i] # Torn => lines[i] \in Written(s)
               /\ glued = {} => WholeBefore(s, k + 1) /\ (s # <<>> => s[k] # Torn)
<1> DEFINE s == SubSeq(lines, 1, k)
<1>1. /\ lines \in Seq(Line) /\ Len(lines) \in Nat /\ DOMAIN lines = 1 .. Len(lines)
      /\ WrittenOnce(lines) /\ TailTorn
  BY DEF UsageInv, UsageTyped, LedgerIsMade
<1>2. k \in 0 .. Len(lines)
  BY <1>1
<1>3. /\ s \in Seq(Line) /\ Len(s) = k
      /\ Written(s) \subseteq Written(lines) /\ WrittenOnce(s)
      /\ \A i \in DOMAIN lines : i <= k /\ lines[i] # Torn => lines[i] \in Written(s)
      /\ WholeBefore(lines, k + 1) => WholeBefore(s, k + 1)
  BY <1>1, <1>2, Shortened
<1>4. TailTorn /\ glued = {} => WholeBefore(lines, k + 1)
  BY <1>1 DEF TailTorn, WholeBefore
<1> HIDE DEF s
<1>5. ASSUME WholeBefore(s, k + 1), s # <<>>
      PROVE  s[k] # Torn
  <2>1. k \in DOMAIN s
    BY <1>3, <1>5
  <2>. QED BY <1>5, <2>1 DEF WholeBefore
<1>. QED BY <1>1, <1>3, <1>4, <1>5 DEF s

\* ... and then torn.
LEMMA TornJournal ==
    ASSUME NEW s \in Seq(Line), WrittenOnce(s)
    PROVE  LET t == s \o <<Torn>>
           IN  /\ t \in Seq(Line) /\ t # <<>> /\ t[Len(t)] = Torn
               /\ Written(t) = Written(s) /\ WrittenOnce(t)
               /\ WholeBefore(s, Len(s) + 1) => WholeBefore(t, Len(t))
<1>1. Torn \in Line /\ Torn \notin Written(s)
  BY DEF Line, Written
<1>2. s \o <<Torn>> = Append(s, Torn)
  OBVIOUS
<1> DEFINE t == Append(s, Torn)
<1>3. /\ t \in Seq(Line) /\ t # <<>> /\ Len(t) = Len(s) + 1 /\ t[Len(s) + 1] = Torn
      /\ Written(t) = Written(s) \cup ({Torn} \ {Torn}) /\ WrittenOnce(t)
      /\ WholeBefore(s, Len(s) + 1) => WholeBefore(t, Len(s) + 1)
  BY <1>1, Appended
<1> HIDE DEF t
<1>4. s \o <<Torn>> = t
  BY <1>2 DEF t
<1>. QED BY <1>3, <1>4

\* A power loss takes only what was not synced, and may bring back what was published.
LEMMA PowerStep ==
    ASSUME UsageInv, LosePower
    PROVE  UsageInv'
<1>1. /\ UsageTyped /\ LedgerIsMade /\ PendingIsNew /\ CountedOnce /\ NothingIsLost /\ TailTorn
      /\ synced' = Len(lines') /\ ghost' = <<>> /\ compactor' = Unlocked
      /\ spender' = [p \in Spender |-> Between]
      /\ cut' = (cut \/ compactor # Unlocked)
      /\ UNCHANGED <<snapshot, made, glued, misled>>
  BY DEF UsageInv, LosePower
<1>2. /\ Unlocked \notin Spender /\ IsSpender(Between) /\ Between.at = "idle"
      /\ <<>> \in Seq(Line) /\ Len(<<>>) = 0
      /\ Written(<<>>) = {} /\ WrittenOnce(<<>>) /\ WholeBefore(<<>>, 1)
  BY LineAssumption DEF Between, IsSpender, SpenderPlace, Line, Written, WrittenOnce, WholeBefore
\* The journal after it is as sound as the journals before it.
<1>3. /\ lines' \in Seq(Line) /\ unfinished' \in BOOLEAN
      /\ unfinished' => lines' # <<>> /\ lines'[Len(lines')] = Torn
      /\ Written(lines') \subseteq Written(lines) \cup Written(ghost) /\ WrittenOnce(lines')
      /\ ~cut' => Written(lines') \subseteq Written(lines)
      /\ logged' \subseteq logged
      /\ \A c \in logged' : c \in Written(lines) => c \in Written(lines')
      /\ glued = {} => /\ WholeBefore(lines', Len(lines'))
                       /\ ~unfinished' /\ lines' # <<>> => lines'[Len(lines')] # Torn
  <2>1. CASE \E k \in synced .. Len(lines), torn \in BOOLEAN :
               /\ torn => k < Len(lines)
               /\ lines' = SubSeq(lines, 1, k) \o (IF torn THEN <<Torn>> ELSE <<>>)
               /\ unfinished' = IF k = Len(lines) THEN unfinished ELSE torn
               /\ logged' = logged \ {lines[i] : i \in k + 1 .. Len(lines)}
    <3>1. PICK k \in synced .. Len(lines), torn \in BOOLEAN :
               /\ torn => k < Len(lines)
               /\ lines' = SubSeq(lines, 1, k) \o (IF torn THEN <<Torn>> ELSE <<>>)
               /\ unfinished' = IF k = Len(lines) THEN unfinished ELSE torn
               /\ logged' = logged \ {lines[i] : i \in k + 1 .. Len(lines)}
      BY <2>1
    <3>2. /\ k \in Nat /\ Len(lines) \in Nat /\ DOMAIN lines = 1 .. Len(lines)
      BY <1>1 DEF UsageTyped
    <3>3. ASSUME NEW c \in logged', c \in Written(lines)
          PROVE  \E i \in DOMAIN lines : i <= k /\ lines[i] # Torn /\ lines[i] = c
      <4>1. PICK i \in DOMAIN lines : lines[i] = c /\ c # Torn
        BY <3>3 DEF Written
      <4>2. i \notin k + 1 .. Len(lines)
        BY <3>1, <3>3, <4>1
      <4>. QED BY <3>2, <4>1, <4>2
    <3>4. logged' \subseteq logged
      BY <3>1
    <3>5. /\ lines' \in Seq(Line) /\ unfinished' \in BOOLEAN
          /\ unfinished' => lines' # <<>> /\ lines'[Len(lines')] = Torn
          /\ Written(lines') \subseteq Written(lines) /\ WrittenOnce(lines')
          /\ \A i \in DOMAIN lines : i <= k /\ lines[i] # Torn => lines[i] \in Written(lines')
          /\ glued = {} => /\ WholeBefore(lines', Len(lines'))
                           /\ ~unfinished' /\ lines' # <<>> => lines'[Len(lines')] # Torn
      <4>1. CASE k = Len(lines)
        <5>1. SubSeq(lines, 1, k) \o <<>> = lines
          BY <1>1, <4>1 DEF UsageTyped
        <5>2. ~torn
          BY <3>1, <3>2, <4>1
        <5>3. lines' = lines /\ unfinished' = unfinished
          BY <3>1, <4>1, <5>1, <5>2, Zenon
        <5>4. \A i \in DOMAIN lines : lines[i] # Torn => lines[i] \in Written(lines)
          BY DEF Written
        <5>. QED BY <1>1, <5>3, <5>4, Zenon DEF UsageTyped, LedgerIsMade, TailTorn
      <4>2. CASE k < Len(lines)
        <5> DEFINE s == SubSeq(lines, 1, k)
        <5>1. /\ s \in Seq(Line) /\ Len(s) = k
              /\ Written(s) \subseteq Written(lines) /\ WrittenOnce(s)
              /\ \A i \in DOMAIN lines : i <= k /\ lines[i] # Torn => lines[i] \in Written(s)
              /\ glued = {} => WholeBefore(s, k + 1) /\ (s # <<>> => s[k] # Torn)
          BY <3>2, <4>2, CutJournal
        <5>2. k # Len(lines)
          <6>1. \A m, n \in Nat : m < n => m # n
            OBVIOUS
          <6>. QED BY <3>2, <4>2, <6>1, Zenon
        <5>3. lines' = s \o (IF torn THEN <<Torn>> ELSE <<>>) /\ unfinished' = torn
          BY <3>1, <5>2, Zenon
        <5> HIDE DEF s
        <5>4. CASE torn
          <6>1. lines' = s \o <<Torn>> /\ unfinished' = TRUE
            BY <5>3, <5>4, Zenon
          <6>. QED BY <5>1, <6>1, TornJournal
        <5>5. CASE ~torn
          <6>1. lines' = s \o <<>> /\ unfinished' = FALSE
            BY <5>3, <5>5, Zenon
          <6>2. lines' = s
            BY <5>1, <6>1
          <6>3. WholeBefore(s, k + 1) => WholeBefore(s, k)
            BY <3>2, <5>1 DEF WholeBefore
          <6>. QED BY <5>1, <6>1, <6>2, <6>3
        <5>. QED BY <5>4, <5>5
      <4>. QED BY <1>1, <3>2, <4>1, <4>2 DEF UsageTyped
    <3>6. \A c \in logged' : c \in Written(lines) => c \in Written(lines')
      BY <3>3, <3>5
    <3>. QED BY <3>4, <3>5, <3>6
  <2>2. CASE lines = <<>> /\ lines' = ghost /\ UNCHANGED <<unfinished, logged>>
    <3>1. /\ ~unfinished /\ ghost \in Seq(Line) /\ WrittenOnce(ghost)
          /\ glued = {} => WholeBefore(ghost, Len(ghost) + 1)
          /\ ~cut' => ghost = <<>>
      BY <1>1, <2>2 DEF UsageTyped, LedgerIsMade, TailTorn, CountedOnce
    <3>2. glued = {} => WholeBefore(ghost, Len(ghost)) /\ (ghost # <<>> => ghost[Len(ghost)] # Torn)
      BY <3>1 DEF WholeBefore
    <3>. QED BY <1>1, <1>2, <2>2, <3>1, <3>2 DEF UsageTyped
  <2>. QED BY <2>1, <2>2 DEF LosePower
<1>4. Len(lines') \in Nat
  BY <1>3
<1>5. \A p \in Spender : spender'[p] = Between
  BY <1>1
<1>6. UsageTyped'
  <2>1. synced' \in 0 .. Len(lines')
    BY <1>1, <1>4
  <2>2. /\ spender' = [p \in Spender |-> spender'[p]] /\ \A p \in Spender : IsSpender(spender'[p])
        /\ \A p \in Spender : (spender'[p].at \in {"unlink", "sync"}) <=> (compactor' = p)
    BY <1>1, <1>2, <1>5
  <2>3. cut' \in BOOLEAN /\ logged' \subseteq made'
    BY <1>1, <1>3 DEF UsageTyped
  <2>. QED BY <1>1, <1>2, <1>3, <2>1, <2>2, <2>3 DEF UsageTyped
<1>7. LedgerIsMade'
  BY <1>1, <1>2, <1>3 DEF LedgerIsMade
<1>8. PendingIsNew' /\ CompactionIsSafe'
  BY <1>2, <1>5 DEF PendingIsNew, CompactionIsSafe
<1>9. CountedOnce'
  <2>1. ASSUME ~cut'
        PROVE  ~cut /\ compactor = Unlocked
    BY <1>1, <2>1
  <2>. QED BY <1>1, <1>3, <2>1 DEF CountedOnce
<1>10. NothingIsLost'
  BY <1>1, <1>3 DEF NothingIsLost
<1>11. TailTorn'
  BY <1>1, <1>2, <1>3 DEF TailTorn
<1>. QED BY <1>6, <1>7, <1>8, <1>9, <1>10, <1>11 DEF UsageInv

\* The invariant of the usage ledger holds in every state.
LEMMA UsageInvariant == UsageSpec => []UsageInv
<1>1. UsageInit => UsageInv
  <2> SUFFICES ASSUME UsageInit PROVE UsageInv
    OBVIOUS
  <2>1. /\ <<>> \in Seq(Line) /\ Len(<<>>) = 0 /\ Written(<<>>) = {} /\ WrittenOnce(<<>>)
        /\ WholeBefore(<<>>, 0) /\ WholeBefore(<<>>, 1)
    BY DEF Written, WrittenOnce, WholeBefore
  <2>2. IsSpender(Between) /\ Between.at = "idle" /\ Unlocked \notin Spender
    BY LineAssumption DEF Between, IsSpender, SpenderPlace, Line
  <2>3. \A p \in Spender : spender[p] = Between
    BY DEF UsageInit
  <2>4. UsageTyped
    <3>1. snapshot \in [ModelCall -> Nat] /\ synced \in 0 .. Len(lines)
      BY <2>1 DEF UsageInit
    <3>2. spender = [p \in Spender |-> spender[p]]
      BY <2>3 DEF UsageInit
    <3>. QED BY <2>1, <2>2, <2>3, <3>1, <3>2 DEF UsageInit, UsageTyped
  <2>5. PendingIsNew /\ CompactionIsSafe
    BY <2>2, <2>3 DEF PendingIsNew, CompactionIsSafe
  <2>6. TailTorn /\ LedgerIsMade /\ CountedOnce /\ NothingIsLost
    BY <2>1 DEF UsageInit, TailTorn, LedgerIsMade, CountedOnce, NothingIsLost
  <2>. QED BY <2>4, <2>5, <2>6 DEF UsageInv
<1>2. UsageInv /\ UNCHANGED usageVars => UsageInv'
  BY DEF usageVars, UsageInv, UsageTyped, TailTorn, LedgerIsMade, PendingIsNew, CompactionIsSafe,
     CountedOnce, NothingIsLost, Written, WrittenOnce, WholeBefore
<1>3. UsageInv /\ UsageNext => UsageInv'
  BY QuietSteps, RecordSteps, PublishStep, UnlinkStep, PowerStep DEF UsageNext
<1>. QED BY <1>1, <1>2, <1>3, PTL DEF UsageSpec

\* Spend moves from the journal to the snapshot and is neither dropped nor
\* counted twice: processes record and compact, are killed, write lines that are
\* torn and lose the power in any order.
THEOREM SpendIsNeverLost == UsageSpec => []SpendIsKept
<1>1. UsageInv => SpendIsKept
  <2> SUFFICES ASSUME UsageInv PROVE SpendIsKept
    OBVIOUS
  <2>1. \A c \in ModelCall : InJournal(c) <=> c \in Written(lines)
    BY LineAssumption DEF InJournal, Written
  <2>2. \A c \in logged \ glued : snapshot[c] > 0 \/ InJournal(c)
    BY <2>1 DEF UsageInv, UsageTyped, NothingIsLost
  <2>3. ASSUME glued = {}
        PROVE  Replayable
    <3>1. Finished \in Seq(Line) /\ WholeBefore(Finished, Len(Finished) + 1)
      BY <2>3, FinishedLines DEF UsageInv
    <3>. QED BY <3>1 DEF Replayable, WholeBefore
  <2>4. ASSUME compactor = Unlocked, ~cut, NEW c \in ModelCall
        PROVE  snapshot[c] + (IF InJournal(c) THEN 1 ELSE 0) <= 1
    BY <2>1, <2>4 DEF UsageInv, UsageTyped, CountedOnce
  <2>. QED BY <2>2, <2>3, <2>4 DEF SpendIsKept
<1>. QED BY <1>1, UsageInvariant, PTL

-----------------------------------------------------------------------------
(* The daily budget *)

\* The calls that a reader of the snapshot and the journal counts.
Counted == {c \in made : snapshot[c] > 0 \/ c \in Written(lines)}

\* The processes that were let through and whose call is not counted yet.
Busy == {p \in Spender : \/ spender[p].at = "call"
                         \/ spender[p].call # Torn /\ spender[p].call \notin Counted}

\* A journal that may come back holds only what the snapshot counts.
GhostIsCounted == \A c \in Written(ghost) : snapshot[c] > 0

GuardTyped == misled \in Nat /\ \A p \in Spender : spender[p].seen \in Int

\* What is counted and what is on its way stay within the bound.
WithinBound ==
    Cardinality(Counted) + Cardinality(Busy) <= Budget + Cardinality(Spender) - 1 + misled

BudgetInv == GuardTyped /\ GhostIsCounted /\ WithinBound

\* A set grows by one at most when an element is put in it.
LEMMA OneMore ==
    ASSUME NEW S, IsFiniteSet(S), NEW x
    PROVE  /\ IsFiniteSet(S \cup {x}) /\ Cardinality(S \cup {x}) <= Cardinality(S) + 1
           /\ Cardinality(S) \in Nat /\ Cardinality(S \cup {x}) \in Nat
<1>1. /\ IsFiniteSet(S \cup {x})
      /\ Cardinality(S \cup {x}) = IF x \in S THEN Cardinality(S) ELSE Cardinality(S) + 1
  BY FS_AddElement
<1>2. Cardinality(S) \in Nat /\ Cardinality(S \cup {x}) \in Nat
  BY <1>1, FS_CardinalityType
<1>3. CASE x \in S
  BY <1>1, <1>2, <1>3
<1>4. CASE x \notin S
  BY <1>1, <1>2, <1>4
<1>. QED BY <1>3, <1>4

\* Two sets have no more elements together than apart.
LEMMA TwoTogether ==
    ASSUME NEW S, IsFiniteSet(S), NEW T, IsFiniteSet(T)
    PROVE  /\ IsFiniteSet(S \cup T) /\ Cardinality(S \cup T) <= Cardinality(S) + Cardinality(T)
           /\ Cardinality(S) \in Nat /\ Cardinality(T) \in Nat /\ Cardinality(S \cup T) \in Nat
<1>1. /\ IsFiniteSet(S \cup T) /\ IsFiniteSet(S \cap T)
      /\ Cardinality(S \cup T) = Cardinality(S) + Cardinality(T) - Cardinality(S \cap T)
  BY FS_Union, FS_Intersection
<1>. QED BY <1>1, FS_CardinalityType

\* What the bound counts is finite.
LEMMA FiniteCounts ==
    ASSUME UsageTyped, IsFiniteSet(ModelCall), IsFiniteSet(Spender)
    PROVE  /\ IsFiniteSet(Counted) /\ IsFiniteSet(Busy) /\ IsFiniteSet(made)
           /\ Cardinality(Counted) \in Nat /\ Cardinality(Busy) \in Nat
           /\ Cardinality(Spender) \in Nat /\ Cardinality(Busy) <= Cardinality(Spender)
           /\ Cardinality(made) \in Nat /\ Budget \in Nat \ {0}
<1>1. Counted \subseteq made /\ made \subseteq ModelCall /\ Busy \subseteq Spender
  BY DEF UsageTyped, Counted, Busy
<1>2. IsFiniteSet(made) /\ IsFiniteSet(Counted)
  BY <1>1, FS_Subset
<1>. QED BY <1>1, <1>2, FS_Subset, FS_CardinalityType, BudgetAssumption

\* What a reader counts is no more than what it adds up to.
LEMMA CountedIsReported ==
    ASSUME UsageTyped, IsFiniteSet(ModelCall), IsFiniteSet(Spender)
    PROVE  /\ InSnapshot \in Nat /\ Cardinality(Events) \in Nat
           /\ Cardinality(Counted) <= InSnapshot + Cardinality(Events)
<1> DEFINE published == {c \in ModelCall : snapshot[c] > 0}
           written == Written(lines)
<1>1. InSnapshot = SumOver(snapshot, ModelCall)
  BY DEF InSnapshot, SumOver
<1>2. /\ IsFiniteSet(published) /\ Cardinality(published) <= InSnapshot /\ InSnapshot \in Nat
  <2>1. \A c \in ModelCall : snapshot[c] \in Nat
    BY DEF UsageTyped
  <2>. QED BY <1>1, <2>1, SumCounts
<1>3. IsFiniteSet(Events) /\ Cardinality(Events) \in Nat
  <2>1. Events \subseteq 1 .. Len(Finished) /\ Len(Finished) \in Nat
    BY FinishedLines DEF Events
  <2>2. IsFiniteSet(1 .. Len(Finished))
    BY <2>1, FS_Interval
  <2>. QED BY <2>1, <2>2, FS_Subset, FS_CardinalityType
<1>4. IsFiniteSet(written) /\ Cardinality(written) <= Cardinality(Events)
  <2> DEFINE f == [i \in Events |-> Finished[i]]
  <2>1. written = Written(Finished)
    BY FinishedLines
  <2>2. f \in Surjection(Events, written)
    BY <2>1 DEF Surjection, Events, Written
  <2>. QED BY <1>3, <2>2, FS_Surjection
<1>5. Counted \subseteq published \cup written
  BY DEF Counted, UsageTyped
<1> HIDE DEF published, written
<1>6. /\ IsFiniteSet(published \cup written)
      /\ Cardinality(published \cup written) <= Cardinality(published) + Cardinality(written)
      /\ Cardinality(published) \in Nat /\ Cardinality(written) \in Nat
      /\ Cardinality(published \cup written) \in Nat
  BY <1>2, <1>4, TwoTogether
<1>7. Cardinality(Counted) <= Cardinality(published \cup written)
  BY <1>5, <1>6, FS_Subset
<1>. QED BY <1>2, <1>3, <1>4, <1>6, <1>7, FiniteCounts

\* A step that counts nothing more and lets nobody through.
LEMMA BoundIsKept ==
    ASSUME IsFiniteSet(Counted), IsFiniteSet(Busy), IsFiniteSet(Spender), WithinBound,
           misled \in Nat, Counted' \subseteq Counted, Busy' \subseteq Busy, misled' = misled
    PROVE  WithinBound'
<1>1. /\ IsFiniteSet(Counted') /\ Cardinality(Counted') <= Cardinality(Counted)
      /\ IsFiniteSet(Busy') /\ Cardinality(Busy') <= Cardinality(Busy)
  BY FS_Subset
<1>2. /\ Cardinality(Counted) \in Nat /\ Cardinality(Counted') \in Nat
      /\ Cardinality(Busy) \in Nat /\ Cardinality(Busy') \in Nat /\ Cardinality(Spender) \in Nat
  BY <1>1, FS_CardinalityType
<1>. QED BY <1>1, <1>2, BudgetAssumption DEF WithinBound

\* A step that counts the call of a process.
LEMMA BoundIsPassedOn ==
    ASSUME IsFiniteSet(Counted), IsFiniteSet(Busy), IsFiniteSet(Spender), WithinBound,
           misled \in Nat, NEW c, Counted' \subseteq Counted \cup {c},
           NEW p \in Busy, Busy' \subseteq Busy \ {p}, misled' = misled
    PROVE  WithinBound'
<1>1. /\ IsFiniteSet(Counted \cup {c}) /\ Cardinality(Counted \cup {c}) <= Cardinality(Counted) + 1
      /\ Cardinality(Counted) \in Nat /\ Cardinality(Counted \cup {c}) \in Nat
  BY OneMore
<1>2. /\ IsFiniteSet(Busy \ {p}) /\ Cardinality(Busy \ {p}) = Cardinality(Busy) - 1
      /\ Cardinality(Busy) \in Nat /\ Cardinality(Busy \ {p}) \in Nat
  BY FS_RemoveElement, FS_CardinalityType
<1>3. /\ IsFiniteSet(Counted') /\ Cardinality(Counted') <= Cardinality(Counted \cup {c})
      /\ IsFiniteSet(Busy') /\ Cardinality(Busy') <= Cardinality(Busy \ {p})
  BY <1>1, <1>2, FS_Subset
<1>4. Cardinality(Counted') \in Nat /\ Cardinality(Busy') \in Nat /\ Cardinality(Spender) \in Nat
  BY <1>3, FS_CardinalityType
<1>. QED BY <1>1, <1>2, <1>3, <1>4, BudgetAssumption DEF WithinBound

\* Nobody is let through by a step of p that does not take it to its call.
LEMMA NobodyIsLetThrough ==
    ASSUME NEW p \in Spender, Counted \subseteq Counted',
           \A q \in Spender : q # p => spender'[q] = spender[q],
           spender'[p].at # "call", spender'[p].call \in {Torn, spender[p].call}
    PROVE  Busy' \subseteq Busy
BY DEF Busy

\* A step that goes on, or is done, brings no other call and no other count.
LEMMA GoesOn ==
    ASSUME UsageTyped, NEW p \in Spender, NEW at \in SpenderPlace, Move(p, at) \/ Done(p)
    PROVE  /\ \A q \in Spender : q # p => spender'[q] = spender[q]
           /\ spender'[p].at \in {at, "idle"} /\ spender'[p].call \in {Torn, spender[p].call}
           /\ spender'[p].seen \in {0, spender[p].seen}
<1>1. spender = [q \in Spender |-> spender[q]] /\ IsSpender(spender[p])
  BY DEF UsageTyped
<1>2. CASE Done(p)
  <2>1. \A q \in Spender : spender'[q] = IF q = p THEN Between ELSE spender[q]
    BY <1>1, <1>2 DEF Done
  <2>. QED BY <2>1 DEF Between
<1>3. CASE Move(p, at)
  <2> DEFINE r == spender[p]
  <2>1. \A q \in Spender : spender'[q] = IF q = p THEN [r EXCEPT !.at = at] ELSE spender[q]
    BY <1>1, <1>3 DEF Move
  <2>2. [r EXCEPT !.at = at] = [at |-> at, seen |-> r.seen, call |-> r.call]
    BY <1>1 DEF IsSpender
  <2>. QED BY <2>1, <2>2
<1>. QED BY <1>2, <1>3

\* What the budget guard and the calls that are let through change.
LEMMA CheckingKeepsBudget ==
    ASSUME UsageInv, BudgetInv, NEW p \in Spender, ReadSnapshot(p) \/ ReadJournal(p),
           IsFiniteSet(ModelCall), IsFiniteSet(Spender)
    PROVE  BudgetInv'
<1>1. /\ UsageTyped /\ GuardTyped /\ GhostIsCounted /\ WithinBound
      /\ spender = [q \in Spender |-> spender[q]] /\ IsSpender(spender[p])
  BY DEF UsageInv, UsageTyped, BudgetInv
<1>2. UNCHANGED <<snapshot, lines, made, ghost>>
  BY DEF ReadSnapshot, ReadJournal
<1>3. GhostIsCounted' /\ Counted' = Counted
  BY <1>1, <1>2 DEF GhostIsCounted, Counted, Written
<1>4. CASE ReadSnapshot(p)
  <2> DEFINE asked == [Between EXCEPT !.at = "check"]
             r == [asked EXCEPT !.seen = InSnapshot]
  <2>1. asked = [at |-> "check", seen |-> 0, call |-> Torn]
    BY DEF Between
  <2>2. spender' = [spender EXCEPT ![p] = r]
    BY <1>4 DEF ReadSnapshot
  <2> HIDE DEF asked
  <2>3. r = [at |-> "check", seen |-> InSnapshot, call |-> Torn]
    BY <2>1
  <2> HIDE DEF r
  <2>4. \A q \in Spender : spender'[q] = IF q = p THEN r ELSE spender[q]
    BY <1>1, <2>2
  <2>5. InSnapshot \in Int
    BY <1>1, CountedIsReported
  <2>6. Busy' \subseteq Busy
    <3>1. Counted \subseteq Counted'
      BY <1>3
    <3>. QED BY <2>3, <2>4, <3>1, NobodyIsLetThrough
  <2>7. misled' = misled /\ GuardTyped'
    BY <1>1, <1>4, <2>3, <2>4, <2>5 DEF ReadSnapshot, GuardTyped
  <2>8. WithinBound'
    BY <1>1, <1>3, <2>6, <2>7, FiniteCounts, BoundIsKept DEF GuardTyped
  <2>. QED BY <1>3, <2>7, <2>8 DEF BudgetInv
<1>5. CASE ReadJournal(p)
  <2>1. "call" \in SpenderPlace
    BY DEF SpenderPlace
  <2>2. CASE Done(p) /\ UNCHANGED misled
    <3>1. \A q \in Spender : q # p => spender'[q] = spender[q]
      BY <1>1, <2>1, <2>2, GoesOn
    <3>2. spender'[p] = Between
      BY <1>1, <2>2 DEF Done
    <3>3. Busy' \subseteq Busy
      <4>1. Counted \subseteq Counted' /\ spender'[p].at # "call" /\ spender'[p].call = Torn
        BY <1>3, <3>2 DEF Between
      <4>. QED BY <3>1, <4>1, NobodyIsLetThrough
    <3>4. GuardTyped'
      BY <1>1, <2>2, <3>1, <3>2 DEF GuardTyped, Between
    <3>5. WithinBound'
      BY <1>1, <1>3, <2>2, <3>3, FiniteCounts, BoundIsKept DEF GuardTyped
    <3>. QED BY <1>3, <3>4, <3>5 DEF BudgetInv
  <2>3. CASE /\ Move(p, "call") /\ Reported(p) < Budget
             /\ misled' = misled + (IF spender[p].seen < InSnapshot THEN 1 ELSE 0)
    <3>1. /\ \A q \in Spender : q # p => spender'[q] = spender[q]
          /\ spender'[p].seen \in {0, spender[p].seen}
      BY <1>1, <2>1, <2>3, GoesOn
    <3>2. Busy' \subseteq Busy \cup {p} /\ Busy' \subseteq Spender
      BY <1>3, <3>1 DEF Busy
    <3>3. /\ InSnapshot \in Nat /\ Cardinality(Events) \in Nat /\ misled \in Nat
          /\ spender[p].seen \in Int /\ Cardinality(Counted) <= InSnapshot + Cardinality(Events)
      BY <1>1, CountedIsReported DEF GuardTyped
    <3>4. GuardTyped'
      BY <1>1, <2>3, <3>1, <3>3 DEF GuardTyped
    <3>5. /\ IsFiniteSet(Counted) /\ IsFiniteSet(Busy) /\ Cardinality(Counted) \in Nat
          /\ Cardinality(Busy) \in Nat /\ Cardinality(Spender) \in Nat /\ Budget \in Nat \ {0}
      BY <1>1, FiniteCounts
    <3>6. /\ IsFiniteSet(Busy \cup {p}) /\ Cardinality(Busy \cup {p}) <= Cardinality(Busy) + 1
          /\ Cardinality(Busy \cup {p}) \in Nat
      BY <3>5, OneMore
    <3>7. /\ Cardinality(Busy') <= Cardinality(Busy \cup {p})
          /\ Cardinality(Busy') <= Cardinality(Spender) /\ Cardinality(Busy') \in Nat
      BY <3>2, <3>6, FS_Subset, FS_CardinalityType
    <3>8. CASE spender[p].seen < InSnapshot
      <4>1. misled' = misled + 1
        BY <2>3, <3>8
      <4>2. Cardinality(Counted) + Cardinality(Busy)
               <= Budget + Cardinality(Spender) - 1 + misled
        BY <1>1 DEF WithinBound
      <4>3. Cardinality(Counted) + Cardinality(Busy')
               <= Budget + Cardinality(Spender) - 1 + misled'
        BY <3>3, <3>5, <3>6, <3>7, <4>1, <4>2
      <4>4. WithinBound'
        BY <1>3, <4>3 DEF WithinBound
      <4>. QED BY <1>3, <3>4, <4>4 DEF BudgetInv
    <3>9. CASE ~(spender[p].seen < InSnapshot)
      <4>1. misled' = misled
        BY <2>3, <3>3, <3>9
      <4>2. spender[p].seen + Cardinality(Events) < Budget
        BY <2>3 DEF Reported
      <4>3. Cardinality(Counted) <= Budget - 1
        BY <3>3, <3>5, <3>9, <4>2
      <4>4. Cardinality(Counted) + Cardinality(Busy')
               <= Budget + Cardinality(Spender) - 1 + misled'
        BY <3>3, <3>5, <3>7, <4>1, <4>3
      <4>5. WithinBound'
        BY <1>3, <4>4 DEF WithinBound
      <4>. QED BY <1>3, <3>4, <4>5 DEF BudgetInv
    <3>. QED BY <3>8, <3>9
  <2>. QED BY <1>5, <2>2, <2>3 DEF ReadJournal
<1>. QED BY <1>4, <1>5

\* A call that was let through is made, and is on its way.
LEMMA CallingKeepsBudget ==
    ASSUME UsageInv, BudgetInv, NEW p \in Spender, MakeCall(p),
           IsFiniteSet(ModelCall), IsFiniteSet(Spender)
    PROVE  BudgetInv'
<1>1. /\ UsageTyped /\ LedgerIsMade /\ GuardTyped /\ GhostIsCounted /\ WithinBound
      /\ spender = [q \in Spender |-> spender[q]] /\ IsSpender(spender[p])
  BY DEF UsageInv, UsageTyped, BudgetInv
<1>2. PICK c \in ModelCall \ made :
        /\ made' = made \cup {c} /\ spender[p].at = "call"
        /\ spender' = [spender EXCEPT ![p].at = "record", ![p].call = c]
        /\ UNCHANGED <<snapshot, lines, ghost, misled>>
  BY DEF MakeCall
<1> DEFINE e == [spender[p] EXCEPT !.at = "record"]
           r == [e EXCEPT !.call = c]
<1>3. e = [at |-> "record", seen |-> spender[p].seen, call |-> spender[p].call]
  BY <1>1 DEF IsSpender
<1>4. spender' = [spender EXCEPT ![p] = r]
  BY <1>1, <1>2
<1> HIDE DEF e
<1>5. r = [at |-> "record", seen |-> spender[p].seen, call |-> c]
  BY <1>3
<1> HIDE DEF r
<1>6. \A q \in Spender : spender'[q] = IF q = p THEN r ELSE spender[q]
  BY <1>1, <1>4
<1>7. Counted' = Counted
  <2>1. snapshot[c] = 0 /\ c \notin Written(lines)
    BY <1>1, <1>2 DEF LedgerIsMade
  <2>2. ~(snapshot[c] > 0)
    BY <2>1
  <2>3. Written(lines)' = Written(lines) /\ snapshot' = snapshot /\ made' = made \cup {c}
    BY <1>2 DEF Written
  <2>. QED BY <2>1, <2>2, <2>3 DEF Counted
<1>8. p \in Busy
  BY <1>2 DEF Busy
<1>9. Busy' \subseteq Busy
  BY <1>6, <1>7, <1>8 DEF Busy
<1>10. GuardTyped' /\ GhostIsCounted'
  BY <1>1, <1>2, <1>5, <1>6 DEF GuardTyped, GhostIsCounted, Written
<1>11. WithinBound'
  BY <1>1, <1>2, <1>7, <1>9, FiniteCounts, BoundIsKept DEF GuardTyped
<1>. QED BY <1>10, <1>11 DEF BudgetInv

\* What is written of a call moves it from under way to counted, and adds none.
LEMMA WritingKeepsBudget ==
    ASSUME UsageInv, BudgetInv, NEW p \in Spender,
           Record(p) \/ TearRecord(p) \/ PublishSnapshot(p) \/ Unlink(p),
           IsFiniteSet(ModelCall), IsFiniteSet(Spender)
    PROVE  BudgetInv'
<1>1. /\ UsageTyped /\ LedgerIsMade /\ PendingIsNew /\ CompactionIsSafe
      /\ GuardTyped /\ GhostIsCounted /\ WithinBound
      /\ spender = [q \in Spender |-> spender[q]] /\ IsSpender(spender[p]) /\ lines \in Seq(Line)
  BY DEF UsageInv, UsageTyped, BudgetInv
<1>2. {"compact", "unlink", "sync"} \subseteq SpenderPlace
  BY DEF SpenderPlace
<1>3. \E at \in {"compact", "unlink", "sync"} : Move(p, at) \/ Done(p)
  BY DEF Record, TearRecord, PublishSnapshot, Unlink
<1>4. /\ \A q \in Spender : q # p => spender'[q] = spender[q]
      /\ spender'[p].at # "call" /\ spender'[p].call \in {Torn, spender[p].call}
      /\ spender'[p].seen \in {0, spender[p].seen}
  BY <1>1, <1>2, <1>3, GoesOn
<1>5. misled' = misled /\ made' = made /\ GuardTyped'
  BY <1>1, <1>4 DEF GuardTyped, Record, TearRecord, PublishSnapshot, Unlink
<1>6. Written(<<>>) = {}
  BY DEF Written
<1>7. ASSUME Counted' = Counted
      PROVE  WithinBound'
  <2>1. Counted \subseteq Counted' /\ Counted' \subseteq Counted
    BY <1>7
  <2>2. Busy' \subseteq Busy
    BY <1>4, <2>1, NobodyIsLetThrough
  <2>. QED BY <1>1, <1>5, <2>1, <2>2, FiniteCounts, BoundIsKept DEF GuardTyped
<1>8. CASE Record(p)
  <2> DEFINE c == spender[p].call
  <2>1. /\ AppendUsage(c) /\ spender[p].at = "record" /\ snapshot' = snapshot
        /\ c \in made /\ c \in ModelCall /\ c # Torn /\ c \in Line
        /\ snapshot[c] = 0 /\ c \notin Written(lines)
    BY <1>1, <1>8, LineAssumption DEF Record, PendingIsNew, UsageTyped, Line
  <2>2. GhostIsCounted'
    <3>1. ghost' = ghost \/ ghost' = <<>>
      BY <2>1 DEF AppendUsage
    <3>2. \A d \in Written(ghost') : snapshot[d] > 0
      BY <1>1, <1>6, <3>1 DEF GhostIsCounted
    <3>. QED BY <2>1, <3>2 DEF GhostIsCounted, Written
  <2>3. CASE unfinished
    <3>1. lines' = lines
      BY <2>1, <2>3 DEF AppendUsage
    <3>2. Counted' = Counted
      BY <1>5, <2>1, <3>1 DEF Counted, Written
    <3>. QED BY <1>5, <1>7, <2>2, <3>2 DEF BudgetInv
  <2>4. CASE ~unfinished
    <3>1. lines' = Append(lines, c)
      BY <2>1, <2>4 DEF AppendUsage
    <3>2. Written(lines') = Written(lines) \cup {c}
      <4>1. Written(Append(lines, c)) = Written(lines) \cup ({c} \ {Torn})
        BY <1>1, <2>1, Appended
      <4>. QED BY <2>1, <3>1, <4>1
    <3>3. Counted' = {d \in made' : snapshot'[d] > 0 \/ d \in Written(lines')}
      BY DEF Counted, Written
    <3>4. Counted' = Counted \cup {c}
      BY <1>5, <2>1, <3>2, <3>3 DEF Counted
    <3>5. p \in Busy
      <4>1. ~(snapshot[c] > 0)
        BY <2>1
      <4>. QED BY <2>1, <4>1 DEF Busy, Counted
    <3>6. Busy' \subseteq Busy
      BY <1>4, <3>4, NobodyIsLetThrough
    <3>7. p \notin Busy'
      BY <1>4, <3>4 DEF Busy
    <3>8. WithinBound'
      BY <1>1, <1>5, <3>4, <3>5, <3>6, <3>7, FiniteCounts, BoundIsPassedOn DEF GuardTyped
    <3>. QED BY <1>5, <2>2, <3>8 DEF BudgetInv
  <2>. QED BY <2>3, <2>4
<1>9. CASE TearRecord(p)
  <2>1. /\ UNCHANGED <<snapshot, ghost>> /\ lines' = IF unfinished THEN lines ELSE Append(lines, Torn)
    BY <1>9 DEF TearRecord
  <2>2. Written(lines') = Written(lines)
    <3>1. Torn \in Line
      BY DEF Line
    <3>2. Written(Append(lines, Torn)) = Written(lines) \cup ({Torn} \ {Torn})
      BY <1>1, <3>1, Appended
    <3>. QED BY <2>1, <3>2
  <2>3. Counted' = {d \in made' : snapshot'[d] > 0 \/ d \in Written(lines')}
    BY DEF Counted, Written
  <2>4. Counted' = Counted
    BY <1>5, <2>1, <2>2, <2>3 DEF Counted
  <2>5. GhostIsCounted'
    BY <1>1, <2>1 DEF GhostIsCounted, Written
  <2>. QED BY <1>5, <1>7, <2>4, <2>5 DEF BudgetInv
<1>10. CASE PublishSnapshot(p)
  <2>1. UNCHANGED <<lines, ghost>>
    BY <1>10 DEF PublishSnapshot
  <2>2. CASE UNCHANGED snapshot
    <3>1. Counted' = Counted /\ GhostIsCounted'
      BY <1>1, <1>5, <2>1, <2>2 DEF Counted, GhostIsCounted, Written
    <3>. QED BY <1>5, <1>7, <3>1 DEF BudgetInv
  <2>3. CASE snapshot' = [c \in ModelCall |->
                 snapshot[c] + Cardinality({i \in Events : Finished[i] = c})]
    <3>1. \A c \in ModelCall : snapshot[c] \in Nat
      BY <1>1 DEF UsageTyped
    <3>2. ASSUME NEW c \in ModelCall
          PROVE  snapshot'[c] = snapshot[c] + IF c \in Written(lines) THEN 1 ELSE 0
      <4>1. snapshot'[c] = snapshot[c] + Cardinality({i \in Events : Finished[i] = c})
        BY <2>3
      <4>2. Cardinality({i \in Events : Finished[i] = c}) = IF c \in Written(lines) THEN 1 ELSE 0
        BY <1>1, FoldedOnce DEF LedgerIsMade
      <4>. QED BY <4>1, <4>2
    <3>3. \A c \in ModelCall : snapshot'[c] > 0 <=> snapshot[c] > 0 \/ c \in Written(lines)
      BY <3>1, <3>2
    <3>4. Written(lines)' = Written(lines) /\ Written(ghost)' = Written(ghost)
      BY <2>1 DEF Written
    <3>5. made \subseteq ModelCall /\ Written(ghost) \subseteq made
      BY <1>1 DEF UsageTyped, LedgerIsMade
    <3>6. Counted' = Counted
      BY <1>5, <3>3, <3>4, <3>5 DEF Counted
    <3>7. GhostIsCounted'
      BY <1>1, <3>3, <3>4, <3>5 DEF GhostIsCounted
    <3>. QED BY <1>5, <1>7, <3>6, <3>7 DEF BudgetInv
  <2>. QED BY <1>10, <2>2, <2>3 DEF PublishSnapshot
<1>11. CASE Unlink(p)
  <2>1. /\ snapshot' = snapshot /\ lines' = <<>> /\ ghost' = Finished
        /\ \A c \in Written(lines) : snapshot[c] > 0
    BY <1>1, <1>11 DEF Unlink, CompactionIsSafe
  <2>2. Written(ghost') = Written(lines)
    BY <1>1, <2>1, FinishedLines
  <2>3. /\ Counted' = {d \in made' : snapshot'[d] > 0 \/ d \in Written(lines')}
        /\ GhostIsCounted' <=> \A c \in Written(ghost') : snapshot'[c] > 0
    BY DEF Counted, Written, GhostIsCounted
  <2>4. Counted' = Counted
    BY <1>5, <1>6, <2>1, <2>3 DEF Counted
  <2>5. GhostIsCounted'
    BY <2>1, <2>2, <2>3
  <2>. QED BY <1>5, <1>7, <2>4, <2>5 DEF BudgetInv
<1>. QED BY <1>8, <1>9, <1>10, <1>11

\* What gives up, goes to compact, or ends a compaction.
LEMMA RestingKeepsBudget ==
    ASSUME UsageInv, BudgetInv, NEW p \in Spender,
           LoseRecord(p) \/ Maintain(p) \/ SyncDirectory(p) \/ CompactFails(p) \/ Kill(p),
           IsFiniteSet(ModelCall), IsFiniteSet(Spender)
    PROVE  BudgetInv'
<1>1. UsageTyped /\ GuardTyped /\ GhostIsCounted /\ WithinBound
  BY DEF UsageInv, BudgetInv
<1>2. /\ UNCHANGED <<snapshot, lines, made, misled>> /\ ghost' \in {ghost, <<>>}
      /\ Move(p, "compact") \/ Done(p)
  BY DEF LoseRecord, Maintain, SyncDirectory, CompactFails, Kill
<1>3. "compact" \in SpenderPlace
  BY DEF SpenderPlace
<1>4. /\ \A q \in Spender : q # p => spender'[q] = spender[q]
      /\ spender'[p].at # "call" /\ spender'[p].call \in {Torn, spender[p].call}
      /\ spender'[p].seen \in {0, spender[p].seen}
  BY <1>1, <1>2, <1>3, GoesOn
<1>5. GuardTyped'
  BY <1>1, <1>2, <1>4 DEF GuardTyped
<1>6. GhostIsCounted'
  <2>1. \A d \in Written(ghost') : snapshot[d] > 0
    BY <1>1, <1>2 DEF GhostIsCounted, Written
  <2>. QED BY <1>2, <2>1 DEF GhostIsCounted, Written
<1>7. Counted' = Counted
  BY <1>2 DEF Counted, Written
<1>8. Counted \subseteq Counted' /\ Counted' \subseteq Counted
  BY <1>7
<1>9. Busy' \subseteq Busy
  BY <1>4, <1>8, NobodyIsLetThrough
<1>10. WithinBound'
  BY <1>1, <1>2, <1>8, <1>9, FiniteCounts, BoundIsKept DEF GuardTyped
<1>. QED BY <1>5, <1>6, <1>10 DEF BudgetInv

\* A power loss leaves no process on its way, and counts nothing more.
LEMMA PowerKeepsBudget ==
    ASSUME UsageInv, BudgetInv, LosePower, IsFiniteSet(ModelCall), IsFiniteSet(Spender)
    PROVE  BudgetInv'
<1>1. /\ UsageTyped /\ GuardTyped /\ GhostIsCounted /\ WithinBound
      /\ lines \in Seq(Line) /\ Len(lines) \in Nat /\ synced \in 0 .. Len(lines)
  BY DEF UsageInv, UsageTyped, BudgetInv
<1>2. /\ UNCHANGED <<snapshot, made, misled>> /\ ghost' = <<>>
      /\ \A p \in Spender : spender'[p] = Between
  BY DEF LosePower
<1>3. Written(<<>>) = {}
  BY DEF Written
<1>4. GhostIsCounted' /\ GuardTyped'
  <2>1. \A d \in Written(ghost') : snapshot[d] > 0
    BY <1>2, <1>3
  <2>2. Between.seen = 0
    BY DEF Between
  <2>. QED BY <1>1, <1>2, <2>1, <2>2 DEF GhostIsCounted, GuardTyped, Written
<1>5. Busy' \subseteq Busy
  BY <1>2 DEF Busy, Between
<1>6. \A c \in Written(lines') : c \in Written(lines) \/ snapshot[c] > 0
  <2>1. CASE lines' = ghost
    BY <1>1, <2>1 DEF GhostIsCounted
  <2>2. ASSUME NEW k \in synced .. Len(lines), NEW torn \in BOOLEAN,
               lines' = SubSeq(lines, 1, k) \o (IF torn THEN <<Torn>> ELSE <<>>)
        PROVE  Written(lines') \subseteq Written(lines)
    <3> DEFINE s == SubSeq(lines, 1, k)
    <3>1. k \in 0 .. Len(lines)
      BY <1>1
    <3>2. s \in Seq(Line) /\ Written(s) \subseteq Written(lines)
      BY <1>1, <3>1, Shortened
    <3> HIDE DEF s
    <3>3. CASE torn
      <4>1. lines' = Append(s, Torn)
        BY <2>2, <3>2, <3>3 DEF s
      <4>2. Written(Append(s, Torn)) = Written(s) \cup ({Torn} \ {Torn})
        BY <3>2, Appended DEF Line
      <4>. QED BY <3>2, <4>1, <4>2
    <3>4. CASE ~torn
      <4>1. lines' = s
        BY <2>2, <3>2, <3>4 DEF s
      <4>. QED BY <3>2, <4>1
    <3>. QED BY <3>3, <3>4
  <2>. QED BY <2>1, <2>2 DEF LosePower
<1>7. Counted' = {d \in made' : snapshot'[d] > 0 \/ d \in Written(lines')}
  BY DEF Counted, Written
<1>8. Counted' \subseteq Counted
  BY <1>2, <1>6, <1>7 DEF Counted
<1>9. WithinBound'
  BY <1>1, <1>2, <1>5, <1>8, FiniteCounts, BoundIsKept DEF GuardTyped
<1>. QED BY <1>4, <1>9 DEF BudgetInv

\* The calls of the day exceed the budget by less than one for each process, but
\* for calls whose record was lost and for work that was started on two halves of
\* a compaction: however many processes check, call, record and compact.
THEOREM BudgetIsNearlyKept ==
    ASSUME IsFiniteSet(ModelCall), IsFiniteSet(Spender)
    PROVE  UsageSpec => []BudgetOvershootBounded
<1>1. UsageInit => BudgetInv
  <2> SUFFICES ASSUME UsageInit PROVE BudgetInv
    OBVIOUS
  <2>1. /\ made = {} /\ ghost = <<>> /\ misled = 0 /\ \A p \in Spender : spender[p] = Between
    BY DEF UsageInit
  <2>2. Counted = {} /\ Busy = {} /\ Written(<<>>) = {}
    BY <2>1 DEF Counted, Busy, Between, Written
  <2>3. Cardinality({}) = 0 /\ Cardinality(Spender) \in Nat
    BY FS_EmptySet, FS_CardinalityType
  <2>4. WithinBound
    BY <2>1, <2>2, <2>3, BudgetAssumption DEF WithinBound
  <2>. QED BY <2>1, <2>2, <2>4 DEF BudgetInv, GuardTyped, GhostIsCounted, Between
<1>2. UsageInv /\ BudgetInv /\ UNCHANGED usageVars => BudgetInv'
  BY DEF usageVars, BudgetInv, GuardTyped, GhostIsCounted, WithinBound, Counted, Busy, Written
<1>3. UsageInv /\ BudgetInv /\ UsageNext => BudgetInv'
  BY CheckingKeepsBudget, CallingKeepsBudget, WritingKeepsBudget, RestingKeepsBudget,
     PowerKeepsBudget DEF UsageNext
<1>4. ASSUME UsageInv, BudgetInv
      PROVE  BudgetOvershootBounded
  <2> DEFINE late == {spender[p].call : p \in Busy}
             f == [p \in Busy |-> spender[p].call]
  <2>1. UsageTyped /\ WithinBound /\ misled \in Nat
    BY <1>4 DEF UsageInv, BudgetInv, GuardTyped
  <2>2. /\ IsFiniteSet(Counted) /\ IsFiniteSet(Busy) /\ IsFiniteSet(made)
        /\ Cardinality(Counted) \in Nat /\ Cardinality(Busy) \in Nat
        /\ Cardinality(Spender) \in Nat /\ Cardinality(made) \in Nat /\ Budget \in Nat
    BY <2>1, FiniteCounts
  <2>3. IsFiniteSet(late) /\ Cardinality(late) <= Cardinality(Busy) /\ Cardinality(late) \in Nat
    <3>1. f \in Surjection(Busy, late)
      BY DEF Surjection
    <3> HIDE DEF f, late
    <3>. QED BY <2>2, <3>1, FS_Surjection, FS_CardinalityType
  <2>4. IsFiniteSet(Unaccounted) /\ Cardinality(Unaccounted) \in Nat
    BY <2>2, FS_Subset, FS_CardinalityType DEF Unaccounted
  <2>5. made \subseteq (Counted \cup late) \cup Unaccounted
    <3>1. made \subseteq ModelCall /\ \A c \in ModelCall : c # Torn /\ snapshot[c] \in Nat
      BY <2>1, LineAssumption DEF UsageTyped
    <3>2. ASSUME NEW c \in made, c \notin Counted, c \notin Unaccounted
          PROVE  c \in late
      <4>1. snapshot[c] = 0 /\ c \notin Written(lines) /\ c # Torn
        BY <3>1, <3>2 DEF Counted
      <4>2. ~InJournal(c)
        BY <4>1 DEF InJournal, Written
      <4>3. PICK p \in Spender : spender[p].call = c
        BY <3>2, <4>1, <4>2 DEF Unaccounted
      <4>. QED BY <3>2, <4>1, <4>3 DEF Busy
    <3>. QED BY <3>2
  <2> HIDE DEF late
  <2>6. /\ IsFiniteSet(Counted \cup late)
        /\ Cardinality(Counted \cup late) <= Cardinality(Counted) + Cardinality(late)
        /\ Cardinality(Counted \cup late) \in Nat
    BY <2>2, <2>3, TwoTogether
  <2>7. /\ IsFiniteSet((Counted \cup late) \cup Unaccounted)
        /\ Cardinality((Counted \cup late) \cup Unaccounted)
              <= Cardinality(Counted \cup late) + Cardinality(Unaccounted)
        /\ Cardinality((Counted \cup late) \cup Unaccounted) \in Nat
    BY <2>4, <2>6, TwoTogether
  <2>8. Cardinality(made) <= Cardinality((Counted \cup late) \cup Unaccounted)
    BY <2>5, <2>7, FS_Subset
  <2>9. Cardinality(Counted) + Cardinality(Busy) <= Budget + Cardinality(Spender) - 1 + misled
    BY <2>1 DEF WithinBound
  <2>10. Cardinality(made)
            <= Budget + Cardinality(Spender) - 1 + Cardinality(Unaccounted) + misled
    BY <2>1, <2>2, <2>3, <2>4, <2>6, <2>7, <2>8, <2>9
  <2>. QED BY <2>10 DEF BudgetOvershootBounded
<1>. QED BY <1>1, <1>2, <1>3, <1>4, UsageInvariant, PTL DEF UsageSpec
=============================================================================
