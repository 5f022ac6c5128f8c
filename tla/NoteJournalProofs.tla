--------------------------- MODULE NoteJournalProofs ---------------------------
(***************************************************************************)
(* What holds of the note journal for all files, values, requests and      *)
(* transaction ids: the pointer is never without its plan, a file that was *)
(* changed by hand is never overwritten, and, if the pointer cannot be     *)
(* left replaced and unsynced, every transaction is atomic and durable.    *)
(***************************************************************************)
EXTENDS NoteJournal, TLAPS

\* A plan is what transact() made of some request and the files it found.
Made(p) ==
    \/ p = NoPlan
    \/ /\ p \in [changes : SUBSET Target, before : Files, after : Files]
       /\ p.changes # {}
       /\ \E r \in Request :
            /\ p.changes = {t \in DOMAIN r : r[t] # p.before[t]}
            /\ p.after = [t \in Target |-> IF t \in DOMAIN r THEN r[t] ELSE p.before[t]]

PlansOK == \A i \in Tx : Made(plan[i]) /\ Made(disk.plan[i])

Found(p, t) == p.before[t]

Asked(p, t) == p.after[t]

\* What the files of a plan hold once it was carried out with decision d.
Final(p, d, t) == IF d = "resume" THEN Asked(p, t) ELSE Found(p, t)

InDoubt(p, t, v) == v \in {Found(p, t), Asked(p, t)}

\* Only a file being published may differ from its synced bytes.
DiskOK ==
    \A t \in Target : disk.file[t] # file[t] =>
        /\ active # None /\ t \in plan[active].changes
        /\ InDoubt(plan[active], t, file[t]) /\ InDoubt(plan[active], t, disk.file[t])

\* A decision is on a plan that is safe, and unsynced only on the active one.
ResultsOK ==
    \A i \in Tx :
        /\ result[i] # None => plan[i] # NoPlan /\ disk.plan[i] = plan[i]
        /\ disk.result[i] \in {None, result[i]}
        /\ disk.result[i] # result[i] => active = i

\* What a call knows at each of its steps.
PointerCall ==
    at = "pointer" =>
        /\ active = None
        /\ plan[tx] # NoPlan /\ disk.plan[tx] = plan[tx]
        /\ plan[tx].before = file
        /\ result[tx] = None

PublishCall ==
    at = "publish" =>
        /\ todo \subseteq plan[tx].changes
        /\ result[tx] \in {None, decision}
        /\ \A t \in plan[tx].changes :
            /\ InDoubt(plan[tx], t, file[t])
            /\ t \notin todo => file[t] = Selected(t) /\ disk.file[t] = Selected(t)

RemoveCall == at = "remove" => disk.file = file /\ disk.result[tx] # None

CallsOK ==
    /\ PointerCall
    /\ at \in {"check", "publish", "remove"} => active = tx
    /\ PublishCall
    /\ RemoveCall

\* The hand writes once.
HandOK ==
    ~edited => \A t \in Target :
        /\ file[t] # Hand
        /\ \A i \in Tx : plan[i] # NoPlan => Found(plan[i], t) # Hand
        /\ \A i \in Tx : disk.plan[i] # NoPlan => Found(disk.plan[i], t) # Hand

\* The rest needs a pointer that is synced whenever it is there.
Pointed ==
    /\ active # None => disk.active = active
    /\ active = None /\ disk.active # None => disk.result[disk.active] # None

DecidedOK ==
    \A a \in Tx : a \in {active, disk.active} /\ result[a] # None =>
        \A t \in plan[a].changes :
            /\ disk.file[t] = file[t]
            /\ \/ file[t] = Final(plan[a], result[a], t)
               \/ file[t] = Hand /\ Found(plan[a], t) # Hand

\* A file no change is asked of holds what was found, or what the owner wrote.
OthersOK ==
    active # None /\ disk.result[active] = None =>
        \A t \in Target \ plan[active].changes : file[t] \in {Found(plan[active], t), Hand}

-----------------------------------------------------------------------------
(* Types *)

DiskType == [file : Files, plan : [Tx -> Plan], active : Tx \cup {None},
             result : [Tx -> Decision \cup {None}]]

TodoOK == at = "publish" => plan[tx] # NoPlan /\ todo \subseteq plan[tx].changes

\* What each way of syncing one thing does to the synced copy.
LEMMA DiskUpdates ==
    ASSUME disk \in DiskType
    PROVE  /\ \A t \in Target, v \in Value :
                LET d == [disk EXCEPT !.file[t] = v]
                IN  /\ d \in DiskType
                    /\ d.file = [disk.file EXCEPT ![t] = v]
                    /\ d.plan = disk.plan /\ d.active = disk.active /\ d.result = disk.result
           /\ \A i \in Tx, p \in Plan :
                LET d == [disk EXCEPT !.plan[i] = p]
                IN  /\ d \in DiskType
                    /\ d.plan = [disk.plan EXCEPT ![i] = p]
                    /\ d.file = disk.file /\ d.active = disk.active /\ d.result = disk.result
           /\ \A i \in Tx \cup {None} :
                LET d == [disk EXCEPT !.active = i]
                IN  /\ d \in DiskType
                    /\ d.active = i
                    /\ d.file = disk.file /\ d.plan = disk.plan /\ d.result = disk.result
           /\ \A i \in Tx, e \in Decision :
                LET d == [disk EXCEPT !.result[i] = e]
                IN  /\ d \in DiskType
                    /\ d.result = [disk.result EXCEPT ![i] = e]
                    /\ d.file = disk.file /\ d.plan = disk.plan /\ d.active = disk.active
<1> USE DEF DiskType
<1>1. ASSUME NEW t \in Target, NEW v \in Value
      PROVE  LET d == [disk EXCEPT !.file[t] = v]
             IN  /\ d \in DiskType
                 /\ d.file = [disk.file EXCEPT ![t] = v]
                 /\ d.plan = disk.plan /\ d.active = disk.active /\ d.result = disk.result
  <2>1. [disk.file EXCEPT ![t] = v] \in Files
    BY <1>1 DEF Files
  <2>. QED BY <2>1
<1>2. ASSUME NEW i \in Tx, NEW p \in Plan
      PROVE  LET d == [disk EXCEPT !.plan[i] = p]
             IN  /\ d \in DiskType
                 /\ d.plan = [disk.plan EXCEPT ![i] = p]
                 /\ d.file = disk.file /\ d.active = disk.active /\ d.result = disk.result
  <2>1. [disk.plan EXCEPT ![i] = p] \in [Tx -> Plan]
    BY <1>2
  <2>. QED BY <2>1
<1>3. ASSUME NEW i \in Tx, NEW e \in Decision
      PROVE  LET d == [disk EXCEPT !.result[i] = e]
             IN  /\ d \in DiskType
                 /\ d.result = [disk.result EXCEPT ![i] = e]
                 /\ d.file = disk.file /\ d.plan = disk.plan /\ d.active = disk.active
  <2>1. [disk.result EXCEPT ![i] = e] \in [Tx -> Decision \cup {None}]
    BY <1>3
  <2>. QED BY <2>1
<1>. QED BY <1>1, <1>2, <1>3
Typed == TypeOK /\ TodoOK

\* A transaction is planned under a fresh id, from what the files hold.
LEMMA TransactStep ==
    ASSUME Typed, Transact
    PROVE  \E i \in Tx, p \in Plan :
            /\ at = "outside" /\ active = None
            /\ plan[i] = NoPlan /\ disk.plan[i] = NoPlan
            /\ p # NoPlan /\ Made(p) /\ p.before = file
            /\ plan' = [plan EXCEPT ![i] = p]
            /\ UNCHANGED <<file, active, result, edited, losses>>
            /\ \/ /\ disk' \in DiskType /\ disk'.plan = [disk.plan EXCEPT ![i] = p]
                  /\ UNCHANGED <<disk.file, disk.active, disk.result>>
                  /\ at' = "pointer" /\ tx' = i
                  /\ UNCHANGED <<decision, todo, failures>>
               \/ Fails /\ UNCHANGED disk
<1>1. PICK r \in Request, i \in Tx :
        /\ Changed(r) # {}
        /\ plan[i] = NoPlan /\ disk.plan[i] = NoPlan
        /\ LET made == [changes |-> Changed(r), before |-> file,
                        after |-> [t \in Target |-> IF t \in DOMAIN r THEN r[t] ELSE file[t]]]
           IN  /\ plan' = [plan EXCEPT ![i] = made]
               /\ \/ /\ disk' = Preserved(i, made)
                     /\ at' = "pointer" /\ tx' = i
                     /\ UNCHANGED <<decision, todo, failures>>
                  \/ Fails /\ UNCHANGED disk
  BY DEF Transact
<1> DEFINE p == [changes |-> Changed(r), before |-> file,
                 after |-> [t \in Target |-> IF t \in DOMAIN r THEN r[t] ELSE file[t]]]
<1>2. /\ DOMAIN r \subseteq Target
      /\ \A t \in DOMAIN r : r[t] \in Value \ {Hand}
  BY RequestAssumption
<1>3. Changed(r) \subseteq Target /\ Changed(r) # {}
  BY <1>1, <1>2 DEF Changed
<1>4. file \in Files
  BY DEF Typed, TypeOK
<1>5. p.after \in Files
  BY <1>2, <1>4 DEF Files
<1>6. /\ p \in [changes : SUBSET Target, before : Files, after : Files]
      /\ p.changes # {} /\ p.before = file
  BY <1>3, <1>4, <1>5
<1>7. p \in Plan /\ p # NoPlan
  BY <1>6 DEF Plan, NoPlan
<1>8. Made(p)
  BY <1>6 DEF Made, Changed
<1>9. disk \in DiskType
  BY DEF Typed, TypeOK, DiskType
<1>10. /\ at = "outside" /\ active = None
       /\ UNCHANGED <<file, active, result, edited, losses>>
  BY DEF Transact
<1>11. /\ plan' = [plan EXCEPT ![i] = p]
       /\ \/ /\ disk' = Preserved(i, p)
             /\ at' = "pointer" /\ tx' = i
             /\ UNCHANGED <<decision, todo, failures>>
          \/ Fails /\ UNCHANGED disk
  BY <1>1
<1> HIDE DEF p
<1>12. CASE /\ disk' = Preserved(i, p)
            /\ at' = "pointer" /\ tx' = i
            /\ UNCHANGED <<decision, todo, failures>>
  <2>1. /\ disk' \in DiskType /\ disk'.plan = [disk.plan EXCEPT ![i] = p]
        /\ disk'.file = disk.file /\ disk'.active = disk.active /\ disk'.result = disk.result
    BY <1>7, <1>9, <1>12, DiskUpdates DEF Preserved
  <2>. QED BY <1>1, <1>6, <1>7, <1>8, <1>10, <1>11, <1>12, <2>1
<1>13. CASE Fails /\ UNCHANGED disk
  BY <1>1, <1>6, <1>7, <1>8, <1>10, <1>11, <1>13
<1>. QED BY <1>11, <1>12, <1>13

\* The bytes being published are of the plan.
LEMMA SelectedFact ==
    ASSUME Typed, NEW t \in plan[tx].changes, plan[tx] # NoPlan, tx \in Tx
    PROVE  /\ t \in Target
           /\ Selected(t) \in {Found(plan[tx], t), Asked(plan[tx], t)}
           /\ Found(plan[tx], t) \in Value /\ Asked(plan[tx], t) \in Value
<1>1. plan[tx] \in [changes : SUBSET Target, before : Files, after : Files]
  BY DEF Typed, TypeOK, Plan
<1>. QED BY <1>1 DEF Selected, Found, Asked, Files

\* What the publication of one target changes, in memory and on disk.
LEMMA PublishStep ==
    ASSUME Typed, Publish
    PROVE  \E t \in todo :
            /\ at = "publish" /\ tx \in Tx /\ plan[tx] # NoPlan
            /\ t \in plan[tx].changes /\ t \in Target /\ Selected(t) \in Value
            /\ file' = [file EXCEPT ![t] = Selected(t)]
            /\ UNCHANGED <<plan, active, result, edited, losses>>
            /\ \/ /\ disk' \in DiskType /\ disk'.file = [disk.file EXCEPT ![t] = Selected(t)]
                  /\ UNCHANGED <<disk.plan, disk.active, disk.result>>
                  /\ todo' = todo \ {t}
                  /\ UNCHANGED <<at, tx, decision, failures>>
               \/ Fails /\ UNCHANGED disk
<1>1. PICK t \in todo :
        /\ file' = [file EXCEPT ![t] = Selected(t)]
        /\ \/ /\ disk' = Published(t)
              /\ todo' = todo \ {t}
              /\ UNCHANGED <<at, tx, decision, failures>>
           \/ Fails /\ UNCHANGED disk
  BY DEF Publish
<1>2. /\ at = "publish" /\ tx \in Tx /\ plan[tx] # NoPlan
      /\ t \in plan[tx].changes
      /\ UNCHANGED <<plan, active, result, edited, losses>>
  BY DEF Publish, Typed, TypeOK, TodoOK
<1>3. t \in Target /\ Selected(t) \in Value
  BY <1>2, SelectedFact
<1>4. disk \in DiskType
  BY DEF Typed, TypeOK, DiskType
<1>5. disk' = Published(t) =>
        /\ disk' \in DiskType /\ disk'.file = [disk.file EXCEPT ![t] = Selected(t)]
        /\ disk'.plan = disk.plan /\ disk'.active = disk.active /\ disk'.result = disk.result
  BY <1>3, <1>4, DiskUpdates DEF Published
<1>. QED BY <1>1, <1>2, <1>3, <1>5

\* What setting the pointer changes.
LEMMA PointStep ==
    ASSUME Typed, Point
    PROVE  /\ at = "pointer" /\ tx \in Tx /\ active' = tx
           /\ UNCHANGED <<file, plan, result, edited, losses>>
           /\ \/ /\ disk' \in DiskType /\ disk'.active = tx
                 /\ UNCHANGED <<disk.file, disk.plan, disk.result>>
                 /\ GoOn("check") /\ UNCHANGED failures
              \/ Fails /\ UNCHANGED disk
           /\ PointerTears \/ disk'.active = tx
<1>1. /\ at = "pointer" /\ tx \in Tx /\ active' = tx
      /\ UNCHANGED <<file, plan, result, edited, losses>>
      /\ Synced([disk EXCEPT !.active = tx], "check")
      /\ PointerTears \/ disk'.active = tx
  BY DEF Point, Typed, TypeOK
<1>2. disk \in DiskType
  BY DEF Typed, TypeOK, DiskType
<1>3. disk' = [disk EXCEPT !.active = tx] =>
        /\ disk' \in DiskType /\ disk'.active = tx
        /\ disk'.file = disk.file /\ disk'.plan = disk.plan /\ disk'.result = disk.result
  BY <1>1, <1>2, DiskUpdates
<1>. QED BY <1>1, <1>3 DEF Synced

\* What writing the result changes.
LEMMA CloseStep ==
    ASSUME Typed, Close
    PROVE  /\ at = "publish" /\ todo = {} /\ tx \in Tx /\ decision \in Decision
           /\ plan[tx] # NoPlan
           /\ result' = [result EXCEPT ![tx] = decision]
           /\ UNCHANGED <<file, plan, active, edited, losses>>
           /\ \/ /\ disk' \in DiskType /\ disk'.result = [disk.result EXCEPT ![tx] = decision]
                 /\ UNCHANGED <<disk.file, disk.plan, disk.active>>
                 /\ GoOn("remove") /\ UNCHANGED failures
              \/ Fails /\ UNCHANGED disk
<1>1. /\ at = "publish" /\ todo = {} /\ tx \in Tx /\ decision \in Decision
      /\ plan[tx] # NoPlan
      /\ result' = [result EXCEPT ![tx] = decision]
      /\ Synced([disk EXCEPT !.result[tx] = decision], "remove")
      /\ UNCHANGED <<file, plan, active, edited, losses>>
  BY DEF Close, Typed, TypeOK, TodoOK
<1>2. disk \in DiskType
  BY DEF Typed, TypeOK, DiskType
<1>3. disk' = [disk EXCEPT !.result[tx] = decision] =>
        /\ disk' \in DiskType /\ disk'.result = [disk.result EXCEPT ![tx] = decision]
        /\ disk'.file = disk.file /\ disk'.plan = disk.plan /\ disk'.active = disk.active
  BY <1>1, <1>2, DiskUpdates
<1>. QED BY <1>1, <1>3 DEF Synced

\* What removing the pointer changes.
LEMMA RemoveStep ==
    ASSUME Typed, Remove
    PROVE  /\ at = "remove" /\ tx \in Tx /\ active' = None
           /\ UNCHANGED <<file, plan, result, edited, losses>>
           /\ \/ /\ disk' \in DiskType /\ disk'.active = None
                 /\ UNCHANGED <<disk.file, disk.plan, disk.result>>
                 /\ Leave /\ UNCHANGED failures
              \/ Fails /\ UNCHANGED disk
<1>1. disk \in DiskType
  BY DEF Typed, TypeOK, DiskType
<1>2. disk' = [disk EXCEPT !.active = None] =>
        /\ disk' \in DiskType /\ disk'.active = None
        /\ disk'.file = disk.file /\ disk'.plan = disk.plan /\ disk'.result = disk.result
  BY <1>1, DiskUpdates
<1>. QED BY <1>2 DEF Remove, Typed, TypeOK

\* What an edit by hand changes.
LEMMA EditStep ==
    ASSUME Typed, Edit
    PROVE  \E t \in Target :
            /\ ~edited /\ edited' = TRUE /\ at = "outside"
            /\ file' = [file EXCEPT ![t] = Hand]
            /\ disk' \in DiskType /\ disk'.file = [disk.file EXCEPT ![t] = Hand]
            /\ UNCHANGED <<disk.plan, disk.active, disk.result>>
            /\ UNCHANGED <<plan, active, result, callVars, failures, losses>>
<1>1. PICK t \in Target : /\ file' = [file EXCEPT ![t] = Hand]
                          /\ disk' = [disk EXCEPT !.file[t] = Hand]
  BY DEF Edit
<1>2. disk \in DiskType
  BY DEF Typed, TypeOK, DiskType
<1>3. /\ disk' \in DiskType /\ disk'.file = [disk.file EXCEPT ![t] = Hand]
      /\ disk'.plan = disk.plan /\ disk'.active = disk.active /\ disk'.result = disk.result
  BY <1>1, <1>2, DiskUpdates, ValueAssumption
<1>. QED BY <1>1, <1>3 DEF Edit

\* A power loss leaves of each thing the old or the new, and both agree.
LEMMA PowerLossStep ==
    ASSUME Typed, PowerLoss
    PROVE  /\ Leave /\ UNCHANGED <<edited, failures>>
           /\ losses' \in 0..MaxLosses
           /\ disk' \in DiskType
           /\ disk'.file = file' /\ disk'.plan = plan'
           /\ disk'.active = active' /\ disk'.result = result'
           /\ \A t \in Target : file'[t] \in {file[t], disk.file[t]}
           /\ \A i \in Tx : /\ plan'[i] \in {plan[i], disk.plan[i]}
                            /\ result'[i] \in {result[i], disk.result[i]}
           /\ active' \in {active, disk.active}
<1>1. PICK T \in SUBSET Target, P \in SUBSET Tx, R \in SUBSET Tx, kept \in BOOLEAN :
        /\ file' = [t \in Target |-> IF t \in T THEN file[t] ELSE disk.file[t]]
        /\ plan' = [i \in Tx |-> IF i \in P THEN plan[i] ELSE disk.plan[i]]
        /\ result' = [i \in Tx |-> IF i \in R THEN result[i] ELSE disk.result[i]]
        /\ active' = IF kept THEN active ELSE disk.active
        /\ disk' = [file |-> file', plan |-> plan', result |-> result', active |-> active']
  BY DEF PowerLoss
<1>2. /\ disk \in DiskType /\ file \in Files /\ plan \in [Tx -> Plan]
      /\ active \in Tx \cup {None} /\ result \in [Tx -> Decision \cup {None}]
  BY DEF Typed, TypeOK, DiskType
<1>3. /\ \A t \in Target : file'[t] \in {file[t], disk.file[t]}
      /\ \A i \in Tx : /\ plan'[i] \in {plan[i], disk.plan[i]}
                       /\ result'[i] \in {result[i], disk.result[i]}
      /\ active' \in {active, disk.active}
  BY <1>1
<1>4. file' \in Files
  BY <1>1, <1>2 DEF DiskType, Files
<1>5. plan' \in [Tx -> Plan]
  BY <1>1, <1>2 DEF DiskType
<1>6. result' \in [Tx -> Decision \cup {None}]
  BY <1>1, <1>2 DEF DiskType
<1>7. active' \in Tx \cup {None}
  BY <1>2, <1>3 DEF DiskType
<1>8. disk' \in DiskType
  BY <1>1, <1>4, <1>5, <1>6, <1>7 DEF DiskType
<1>9. losses' \in 0..MaxLosses
  BY FaultAssumption DEF PowerLoss, Typed, TypeOK
<1>. QED BY <1>1, <1>3, <1>8, <1>9 DEF PowerLoss

\* Outside, a call has nothing in hand.
LEMMA LeaveTyped == ASSUME Leave PROVE /\ at' = "outside" /\ tx' = None /\ decision' \in Decision
                                       /\ todo' \subseteq Target /\ TodoOK'
BY DEF Leave, Decision, TodoOK

\* A failure leaves the call, and is counted.
LEMMA FailsTyped == ASSUME Typed, Fails PROVE Leave /\ failures' \in 0..MaxFailures
BY FaultAssumption DEF Fails, Typed, TypeOK

\* The strengthened type invariant holds in every state.
LEMMA TypedInvariant == Spec => []Typed
<1> USE DEF DiskType
<1>1. Init => Typed
  <2>1. SUFFICES ASSUME Init PROVE Typed
    OBVIOUS
  <2>2. file \in Files
    BY <2>1, ValueAssumption DEF Init, Files
  <2>3. plan \in [Tx -> Plan] /\ result \in [Tx -> Decision \cup {None}] /\ active = None
    BY <2>1 DEF Init, Plan
  <2>4. disk \in DiskType
    BY <2>1, <2>2, <2>3 DEF Init
  <2>5. /\ at = "outside" /\ tx = None /\ decision \in Decision /\ todo \subseteq Target
        /\ edited \in BOOLEAN /\ failures \in 0..MaxFailures /\ losses \in 0..MaxLosses
    <3>1. at = "outside" /\ tx = None /\ decision \in Decision /\ todo \subseteq Target
      BY <2>1 DEF Init, Decision
    <3>2. edited \in BOOLEAN
      BY <2>1 DEF Init
    <3>3. failures \in 0..MaxFailures /\ losses \in 0..MaxLosses
      BY <2>1, FaultAssumption DEF Init
    <3>. QED BY <3>1, <3>2, <3>3
  <2>. QED BY <2>2, <2>3, <2>4, <2>5 DEF Typed, TypeOK, TodoOK
<1>2. ASSUME Typed, [Next]_vars
      PROVE  Typed'
  <2> USE <1>2
  <2>1. CASE Transact
    <3>1. PICK i \in Tx, p \in Plan :
            /\ plan' = [plan EXCEPT ![i] = p]
            /\ UNCHANGED <<file, active, result, edited, losses>>
            /\ \/ /\ disk' \in DiskType /\ at' = "pointer" /\ tx' = i
                  /\ UNCHANGED <<decision, todo, failures>>
               \/ Fails /\ UNCHANGED disk
      BY <2>1, TransactStep
    <3>2. plan' \in [Tx -> Plan]
      BY <3>1 DEF Typed, TypeOK
    <3>3. CASE disk' \in DiskType /\ at' = "pointer" /\ tx' = i /\ UNCHANGED <<decision, todo, failures>>
      BY <3>1, <3>2, <3>3, NobodyAssumption DEF Typed, TypeOK, TodoOK
    <3>4. CASE Fails /\ UNCHANGED disk
      BY <3>1, <3>2, <3>4, FailsTyped, LeaveTyped DEF Typed, TypeOK
    <3>. QED BY <3>1, <3>3, <3>4
  <2>2. CASE Point
    BY <2>2, PointStep, FailsTyped, LeaveTyped, NobodyAssumption DEF Typed, TypeOK, TodoOK, GoOn
  <2>3. ASSUME NEW d \in Decision, Recover(d)
        PROVE  Typed'
    BY <2>3, NobodyAssumption
       DEF Recover, Typed, TypeOK, TodoOK, journalVars, faultVars
  <2>4. CASE Check
    <3>1. tx \in Tx /\ tx # None
      BY <2>4, NobodyAssumption DEF Check, Typed, TypeOK
    <3>2. plan[tx] # NoPlan => plan[tx].changes \subseteq Target
      BY <3>1 DEF Typed, TypeOK, Plan
    <3>3. CASE Leave
      BY <2>4, <3>3, LeaveTyped DEF Check, journalVars, faultVars, Typed, TypeOK
    <3>4. CASE plan[tx] # NoPlan /\ at' = "publish" /\ todo' = plan[tx].changes
               /\ UNCHANGED <<tx, decision>>
      BY <2>4, <3>1, <3>2, <3>4 DEF Check, journalVars, faultVars, Typed, TypeOK, TodoOK
    <3>. QED BY <2>4, <3>3, <3>4 DEF Check
  <2>5. CASE Publish
    <3>1. PICK t \in todo :
            /\ at = "publish" /\ tx \in Tx /\ plan[tx] # NoPlan /\ Selected(t) \in Value
            /\ file' = [file EXCEPT ![t] = Selected(t)]
            /\ UNCHANGED <<plan, active, result, edited, losses>>
            /\ \/ /\ disk' \in DiskType /\ todo' = todo \ {t}
                  /\ UNCHANGED <<at, tx, decision, failures>>
               \/ Fails /\ UNCHANGED disk
      BY <2>5, PublishStep
    <3>2. file' \in Files
      BY <3>1 DEF Typed, TypeOK, Files
    <3>3. CASE disk' \in DiskType /\ todo' = todo \ {t} /\ UNCHANGED <<at, tx, decision, failures>>
      BY <3>1, <3>2, <3>3 DEF Typed, TypeOK, TodoOK
    <3>4. CASE Fails /\ UNCHANGED disk
      BY <3>1, <3>2, <3>4, FailsTyped, LeaveTyped DEF Typed, TypeOK
    <3>. QED BY <3>1, <3>3, <3>4
  <2>6. CASE Close
    <3>1. result' \in [Tx -> Decision \cup {None}]
      BY <2>6, CloseStep DEF Typed, TypeOK
    <3>2. disk' \in DiskType
      BY <2>6, CloseStep DEF Typed, TypeOK
    <3>3. CASE GoOn("remove") /\ UNCHANGED failures
      BY <2>6, <3>1, <3>2, <3>3, CloseStep DEF Typed, TypeOK, TodoOK, GoOn
    <3>4. CASE Fails
      BY <2>6, <3>1, <3>2, <3>4, CloseStep, FailsTyped, LeaveTyped DEF Typed, TypeOK
    <3>. QED BY <2>6, <3>3, <3>4, CloseStep
  <2>7. CASE Remove
    BY <2>7, RemoveStep, FailsTyped, LeaveTyped DEF Typed, TypeOK
  <2>8. CASE Abandon
    BY <2>8, FailsTyped, LeaveTyped DEF Abandon, journalVars, Typed, TypeOK
  <2>9. CASE PowerLoss
    <3>1. /\ disk' \in DiskType /\ file' = disk'.file /\ plan' = disk'.plan
          /\ active' = disk'.active /\ result' = disk'.result
          /\ Leave /\ UNCHANGED <<edited, failures>> /\ losses' \in 0..MaxLosses
      BY <2>9, PowerLossStep
    <3>. QED BY <3>1, LeaveTyped DEF Typed, TypeOK
  <2>10. CASE Edit
    <3>1. PICK t \in Target :
            /\ edited' = TRUE
            /\ file' = [file EXCEPT ![t] = Hand]
            /\ disk' \in DiskType
            /\ UNCHANGED <<plan, active, result, callVars, failures, losses>>
      BY <2>10, EditStep
    <3>2. file' \in Files
      BY <3>1, ValueAssumption DEF Typed, TypeOK, Files
    <3>. QED BY <3>1, <3>2 DEF Typed, TypeOK, TodoOK, callVars
  <2>11. CASE UNCHANGED vars
    BY <2>11 DEF vars, journalVars, callVars, faultVars, Typed, TypeOK, TodoOK
  <2>. QED BY <2>1, <2>2, <2>3, <2>4, <2>5, <2>6, <2>7, <2>8, <2>9, <2>10, <2>11 DEF Next, Work
<1>. QED BY <1>1, <1>2, PTL DEF Spec

\* What the journal keeps has the types its reader takes for granted, and a
\* process is at work exactly while it has a transaction.
THEOREM JournalTypes == Spec => []TypeOK
<1>1. Typed => TypeOK
  BY DEF Typed
<1>. QED BY <1>1, TypedInvariant, PTL

-----------------------------------------------------------------------------
(* What holds however the pointer fails *)

Journal == PlansOK /\ PointerHasPlan /\ ResultsOK /\ CallsOK /\ DiskOK /\ HandOK

\* No request asks for what only the owner writes.
LEMMA AskedOfRequest ==
    ASSUME NEW p, Made(p), p # NoPlan, NEW t \in p.changes
    PROVE  t \in Target /\ Asked(p, t) # Hand /\ Found(p, t) # Asked(p, t)
<1>1. PICK r \in Request :
        /\ p.changes = {u \in DOMAIN r : r[u] # p.before[u]}
        /\ p.after = [u \in Target |-> IF u \in DOMAIN r THEN r[u] ELSE p.before[u]]
  BY DEF Made
<1>2. DOMAIN r \subseteq Target /\ \A u \in DOMAIN r : r[u] # Hand
  BY RequestAssumption
<1>3. p.after[t] = r[t] /\ r[t] # Hand /\ r[t] # p.before[t] /\ t \in Target
  BY <1>1, <1>2
<1>. QED BY <1>3 DEF Asked, Found

\* The steps that write neither files nor plans, nor what was decided.
LEMMA QuietSteps ==
    ASSUME Typed, [Next]_vars
    PROVE  \/ Transact \/ Point \/ Publish \/ Close \/ Remove \/ PowerLoss \/ Edit
           \/ /\ UNCHANGED <<journalVars, disk, edited>>
              /\ \/ UNCHANGED callVars
                 \/ Leave
                 \/ at' = "check" /\ tx' = active
                 \/ Check
BY DEF Next, Work, Abandon, Fails, Recover, Check, vars, journalVars, faultVars

\* Plans stay as they were made.
LEMMA PlansStep ==
    ASSUME Typed, PlansOK, [Next]_vars
    PROVE  PlansOK'
<1>1. CASE Transact
  <2>1. PICK i \in Tx, p \in Plan :
          /\ Made(p) /\ plan' = [plan EXCEPT ![i] = p]
          /\ disk'.plan = [disk.plan EXCEPT ![i] = p] \/ disk'.plan = disk.plan
    BY <1>1, TransactStep
  <2>2. plan \in [Tx -> Plan] /\ disk.plan \in [Tx -> Plan]
    BY DEF Typed, TypeOK
  <2>. QED BY <2>1, <2>2 DEF PlansOK
<1>2. CASE PowerLoss
  <2>1. \A j \in Tx : plan'[j] \in {plan[j], disk.plan[j]} /\ disk'.plan = plan'
    BY <1>2, PowerLossStep
  <2>. QED BY <2>1 DEF PlansOK
<1>3. CASE UNCHANGED <<plan, disk.plan>>
  BY <1>3 DEF PlansOK
<1>. QED BY <1>1, <1>2, <1>3, QuietSteps, PointStep, PublishStep, CloseStep, RemoveStep, EditStep
         DEF journalVars

\* The plan of a pointer survives whatever the pointer itself goes through.
LEMMA PointerStep ==
    ASSUME Typed, PointerHasPlan, CallsOK, [Next]_vars
    PROVE  PointerHasPlan'
<1>1. CASE Transact
  <2>1. PICK i \in Tx, p \in Plan :
          /\ plan[i] = NoPlan /\ disk.plan[i] = NoPlan
          /\ plan' = [plan EXCEPT ![i] = p]
          /\ disk'.plan = [disk.plan EXCEPT ![i] = p] \/ disk'.plan = disk.plan
          /\ UNCHANGED <<active, disk.active>>
    BY <1>1, TransactStep
  <2>2. /\ plan \in [Tx -> Plan] /\ disk.plan \in [Tx -> Plan]
        /\ active \in Tx \cup {None} /\ disk.active \in Tx \cup {None}
    BY DEF Typed, TypeOK
  <2>. QED BY <2>1, <2>2 DEF PointerHasPlan
<1>2. CASE Point
  <2>1. /\ active' = tx /\ UNCHANGED <<plan, disk.plan>> /\ disk'.active \in {tx, disk.active}
        /\ plan[tx] # NoPlan /\ disk.plan[tx] = plan[tx]
    BY <1>2, PointStep DEF CallsOK, PointerCall
  <2>. QED BY <2>1 DEF PointerHasPlan
<1>3. CASE Remove
  <2>1. active' = None /\ UNCHANGED <<plan, disk.plan>> /\ disk'.active \in {None, disk.active}
    BY <1>3, RemoveStep
  <2>. QED BY <2>1 DEF PointerHasPlan
<1>4. CASE PowerLoss
  <2>1. /\ active' \in {active, disk.active} /\ disk'.active = active' /\ disk'.plan = plan'
        /\ \A j \in Tx : plan'[j] \in {plan[j], disk.plan[j]}
        /\ active \in Tx \cup {None} /\ disk.active \in Tx \cup {None}
    BY <1>4, PowerLossStep DEF Typed, TypeOK
  <2>. QED BY <2>1 DEF PointerHasPlan
<1>5. CASE UNCHANGED <<plan, disk.plan, active, disk.active>>
  BY <1>5 DEF PointerHasPlan
<1>. QED BY <1>1, <1>2, <1>3, <1>4, <1>5, QuietSteps, PublishStep, CloseStep, EditStep
         DEF journalVars

\* A result stays that of a plan that was carried out or taken back.
LEMMA ResultsStep ==
    ASSUME Typed, PointerHasPlan, CallsOK, ResultsOK, [Next]_vars
    PROVE  ResultsOK'
<1>. /\ plan \in [Tx -> Plan] /\ disk.plan \in [Tx -> Plan]
     /\ active \in Tx \cup {None}
     /\ result \in [Tx -> Decision \cup {None}] /\ disk.result \in [Tx -> Decision \cup {None}]
  BY DEF Typed, TypeOK
<1>1. CASE Transact
  <2>1. PICK i \in Tx, p \in Plan :
          /\ plan[i] = NoPlan
          /\ plan' = [plan EXCEPT ![i] = p]
          /\ disk'.plan = [disk.plan EXCEPT ![i] = p] \/ disk'.plan = disk.plan
          /\ UNCHANGED <<active, result, disk.result>>
    BY <1>1, TransactStep
  <2>. QED BY <2>1 DEF ResultsOK
<1>2. CASE Point
  <2>1. /\ active = None /\ UNCHANGED <<plan, result, disk.plan, disk.result>>
    BY <1>2, PointStep DEF CallsOK, PointerCall
  <2>. QED BY <2>1, NobodyAssumption DEF ResultsOK
<1>3. CASE Close
  <2>1. /\ tx \in Tx /\ decision \in Decision /\ active = tx
        /\ plan[tx] # NoPlan /\ disk.plan[tx] = plan[tx]
        /\ result[tx] \in {None, decision}
        /\ result' = [result EXCEPT ![tx] = decision]
        /\ disk'.result = [disk.result EXCEPT ![tx] = decision] \/ disk'.result = disk.result
        /\ UNCHANGED <<plan, active, disk.plan>>
    BY <1>3, CloseStep, NobodyAssumption DEF CallsOK, PublishCall, PointerHasPlan
  <2>. QED BY <2>1 DEF ResultsOK
<1>4. CASE Remove
  <2>1. /\ tx \in Tx /\ active = tx /\ disk.result[tx] # None
        /\ UNCHANGED <<plan, result, disk.plan, disk.result>>
    BY <1>4, RemoveStep DEF CallsOK, RemoveCall
  <2>. QED BY <2>1 DEF ResultsOK
<1>5. CASE PowerLoss
  <2>1. /\ disk'.plan = plan' /\ disk'.result = result'
        /\ \A i \in Tx : /\ plan'[i] \in {plan[i], disk.plan[i]}
                         /\ result'[i] \in {result[i], disk.result[i]}
    BY <1>5, PowerLossStep
  <2>. QED BY <2>1 DEF ResultsOK
<1>6. CASE UNCHANGED <<plan, disk.plan, active, result, disk.result>>
  BY <1>6 DEF ResultsOK
<1>. QED BY <1>1, <1>2, <1>3, <1>4, <1>5, <1>6, QuietSteps, PublishStep, EditStep
         DEF journalVars

\* Outside no call knows anything.
LEMMA CallsOutside == ASSUME at' = "outside" PROVE CallsOK'
BY DEF CallsOK, PointerCall, PublishCall, RemoveCall

\* What a call knows of its transaction stays so.
LEMMA CallsStep ==
    ASSUME Typed, Journal, [Next]_vars
    PROVE  CallsOK'
<1>. /\ plan \in [Tx -> Plan] /\ disk.plan \in [Tx -> Plan]
     /\ file \in Files /\ disk.file \in Files
     /\ result \in [Tx -> Decision \cup {None}] /\ disk.result \in [Tx -> Decision \cup {None}]
  BY DEF Typed, TypeOK
<1>1. CASE at' = "outside"
  BY <1>1, CallsOutside
<1>2. CASE Transact /\ at' # "outside"
  <2>1. PICK i \in Tx, p \in Plan :
          /\ active = None /\ plan[i] = NoPlan
          /\ p # NoPlan /\ p.before = file
          /\ plan' = [plan EXCEPT ![i] = p]
          /\ UNCHANGED <<file, active, result>>
          /\ disk'.plan = [disk.plan EXCEPT ![i] = p]
          /\ at' = "pointer" /\ tx' = i
    BY <1>2, TransactStep DEF Fails, Leave
  <2>2. result[i] = None
    BY <2>1 DEF Journal, ResultsOK
  <2>. QED BY <2>1, <2>2 DEF CallsOK, PointerCall, PublishCall, RemoveCall
<1>3. CASE Point /\ at' # "outside"
  <2>1. at' = "check" /\ active' = tx' /\ UNCHANGED tx
    BY <1>3, PointStep DEF Fails, Leave, GoOn
  <2>. QED BY <2>1 DEF CallsOK, PointerCall, PublishCall, RemoveCall
<1>4. CASE at' = "check" /\ tx' = active /\ UNCHANGED active
  BY <1>4 DEF CallsOK, PointerCall, PublishCall, RemoveCall
<1>5. CASE Check /\ at' # "outside"
  <2>1. /\ at = "check" /\ at' = "publish" /\ todo' = plan[tx].changes
        /\ Agrees /\ Untouched
        /\ UNCHANGED <<tx, decision, file, plan, active, result>>
    BY <1>5 DEF Check, Leave, journalVars
  <2>2. active = tx /\ PublishCall'
    BY <2>1 DEF Journal, CallsOK, PublishCall, Agrees, Untouched, InDoubt, Found, Asked
  <2>. QED BY <2>1, <2>2 DEF CallsOK, PointerCall, RemoveCall
<1>6. CASE Publish /\ at' # "outside"
  <2>1. PICK t \in todo :
          /\ at = "publish" /\ tx \in Tx /\ plan[tx] # NoPlan
          /\ t \in plan[tx].changes /\ t \in Target
          /\ file' = [file EXCEPT ![t] = Selected(t)]
          /\ disk'.file = [disk.file EXCEPT ![t] = Selected(t)]
          /\ todo' = todo \ {t}
          /\ UNCHANGED <<at, tx, decision, plan, active, result>>
    BY <1>6, PublishStep DEF Fails, Leave
  <2>2. /\ active = tx /\ PublishCall
        /\ \A u \in plan[tx].changes : Selected(u)' = Selected(u) /\ u \in Target
    BY <2>1 DEF Journal, CallsOK, Selected, PlansOK, Made
  <2>3. Selected(t) \in {Found(plan[tx], t), Asked(plan[tx], t)}
    BY <2>1, SelectedFact
  <2>4. PublishCall'
    BY <2>1, <2>2, <2>3 DEF PublishCall, InDoubt, Files
  <2>. QED BY <2>1, <2>2, <2>4 DEF CallsOK, PointerCall, RemoveCall
<1>7. CASE Close /\ at' # "outside"
  <2>1. /\ at = "publish" /\ todo = {} /\ tx \in Tx /\ decision \in Decision
        /\ disk'.result = [disk.result EXCEPT ![tx] = decision]
        /\ at' = "remove" /\ UNCHANGED <<tx, file, disk.file, active>>
    BY <1>7, CloseStep DEF Fails, Leave, GoOn
  <2>2. active = tx /\ \A t \in plan[tx].changes : file[t] = disk.file[t]
    BY <2>1 DEF Journal, CallsOK, PublishCall
  <2>3. \A t \in Target : file[t] = disk.file[t]
    BY <2>2 DEF Journal, DiskOK
  <2>4. disk.file = file
    BY <2>3 DEF Files
  <2>5. disk'.result[tx] # None
    BY <2>1, NobodyAssumption DEF Decision
  <2>. QED BY <2>1, <2>2, <2>4, <2>5 DEF CallsOK, PointerCall, PublishCall, RemoveCall
<1>8. CASE UNCHANGED <<journalVars, disk, callVars>>
  <2>1. CallsOK
    BY DEF Journal
  <2>2. UNCHANGED <<file, plan, active, result, disk, at, tx, decision, todo>>
    BY <1>8 DEF journalVars, callVars
  <2>. QED BY <2>1, <2>2 DEF CallsOK, PointerCall, PublishCall, RemoveCall, Selected
<1>9. Leave \/ Remove \/ PowerLoss \/ Edit => at' = "outside"
  BY RemoveStep, PowerLossStep, EditStep DEF Leave, Fails, callVars
<1>. QED BY <1>1, <1>2, <1>3, <1>4, <1>5, <1>6, <1>7, <1>8, <1>9, QuietSteps DEF journalVars

\* What the disk has stays in step with what the files show.
LEMMA DiskStep ==
    ASSUME Typed, Journal, [Next]_vars
    PROVE  DiskOK'
<1>. /\ plan \in [Tx -> Plan] /\ file \in Files /\ disk.file \in Files
  BY DEF Typed, TypeOK
<1>1. CASE active = None /\ UNCHANGED <<file, disk.file>>
  BY <1>1 DEF Journal, DiskOK
<1>2. CASE Publish
  <2>1. PICK t \in todo :
          /\ at = "publish" /\ tx \in Tx /\ plan[tx] # NoPlan
          /\ t \in plan[tx].changes /\ t \in Target
          /\ file' = [file EXCEPT ![t] = Selected(t)]
          /\ disk'.file = [disk.file EXCEPT ![t] = Selected(t)] \/ disk'.file = disk.file
          /\ UNCHANGED <<plan, active>>
    BY <1>2, PublishStep
  <2>2. active = tx /\ tx # None /\ InDoubt(plan[tx], t, file[t])
    BY <2>1, NobodyAssumption DEF Journal, CallsOK, PublishCall
  <2>3. InDoubt(plan[tx], t, Selected(t))
    BY <2>1, SelectedFact DEF InDoubt
  <2>4. DiskOK
    BY DEF Journal
  <2>. QED BY <2>1, <2>2, <2>3, <2>4 DEF DiskOK, Files
<1>3. CASE Remove
  <2>1. disk.file = file /\ UNCHANGED <<file, disk.file>>
    BY <1>3, RemoveStep DEF Journal, CallsOK, RemoveCall
  <2>. QED BY <2>1 DEF DiskOK
<1>4. CASE PowerLoss
  BY <1>4, PowerLossStep DEF DiskOK
<1>5. CASE Edit
  <2>1. PICK t \in Target :
          /\ file' = [file EXCEPT ![t] = Hand]
          /\ disk'.file = [disk.file EXCEPT ![t] = Hand]
          /\ UNCHANGED <<plan, active>>
    BY <1>5, EditStep
  <2>. QED BY <2>1 DEF Journal, DiskOK, Files
<1>6. CASE UNCHANGED <<file, disk.file, plan, active>>
  BY <1>6 DEF Journal, DiskOK
<1>7. Transact \/ Point => active = None /\ UNCHANGED <<file, disk.file>>
  BY TransactStep, PointStep DEF Journal, CallsOK, PointerCall
<1>. QED BY <1>1, <1>2, <1>3, <1>4, <1>5, <1>6, <1>7, QuietSteps, CloseStep DEF journalVars

\* What was edited by hand stays out of the plans that follow.
LEMMA HandStep ==
    ASSUME Typed, Journal, [Next]_vars
    PROVE  HandOK'
<1>. /\ plan \in [Tx -> Plan] /\ file \in Files /\ disk.file \in Files
     /\ disk.plan \in [Tx -> Plan] /\ active \in Tx \cup {None}
  BY DEF Typed, TypeOK
<1>1. SUFFICES ASSUME ~edited' PROVE HandOK'
  BY DEF HandOK
<1>2. ~edited
  BY <1>1, QuietSteps, TransactStep, PointStep, PublishStep, CloseStep, RemoveStep, PowerLossStep,
     EditStep
<1>3. \A t \in Target :
        /\ file[t] # Hand
        /\ \A i \in Tx : plan[i] # NoPlan => Found(plan[i], t) # Hand
        /\ \A i \in Tx : disk.plan[i] # NoPlan => Found(disk.plan[i], t) # Hand
  BY <1>2 DEF Journal, HandOK
<1>4. CASE Transact
  <2>1. PICK i \in Tx, p \in Plan :
          /\ p.before = file
          /\ plan' = [plan EXCEPT ![i] = p]
          /\ disk'.plan = [disk.plan EXCEPT ![i] = p] \/ disk'.plan = disk.plan
          /\ UNCHANGED file
    BY <1>4, TransactStep
  <2>. QED BY <1>3, <2>1 DEF HandOK, Found
<1>5. CASE Publish
  <2>1. PICK t \in todo :
          /\ tx \in Tx /\ plan[tx] # NoPlan
          /\ t \in plan[tx].changes /\ t \in Target
          /\ file' = [file EXCEPT ![t] = Selected(t)]
          /\ UNCHANGED <<plan, disk.plan>>
    BY <1>5, PublishStep
  <2>2. Made(plan[tx])
    BY <2>1 DEF Journal, PlansOK
  <2>3. Selected(t) # Hand
    BY <1>3, <2>1, <2>2, SelectedFact, AskedOfRequest
  <2>. QED BY <1>3, <2>1, <2>3 DEF HandOK
<1>6. CASE PowerLoss
  <2>1. /\ \A t \in Target : file'[t] \in {file[t], disk.file[t]}
        /\ disk'.plan = plan' /\ \A i \in Tx : plan'[i] \in {plan[i], disk.plan[i]}
    BY <1>6, PowerLossStep
  <2>2. \A t \in Target : disk.file[t] # Hand
    <3>1. SUFFICES ASSUME NEW t \in Target, disk.file[t] # file[t] PROVE disk.file[t] # Hand
      BY <1>3
    <3>2. /\ active \in Tx /\ plan[active] # NoPlan /\ t \in plan[active].changes
          /\ disk.file[t] \in {Found(plan[active], t), Asked(plan[active], t)}
          /\ Made(plan[active])
      BY <3>1 DEF Journal, DiskOK, InDoubt, PointerHasPlan, PlansOK
    <3>. QED BY <1>3, <3>2, AskedOfRequest
  <2>. QED BY <1>3, <2>1, <2>2 DEF HandOK
<1>7. CASE UNCHANGED <<file, plan, disk.plan>>
  BY <1>3, <1>7 DEF HandOK
<1>. QED BY <1>1, <1>2, <1>4, <1>5, <1>6, <1>7, QuietSteps, PointStep, CloseStep, RemoveStep, EditStep
         DEF journalVars

\* The invariant of the journal holds in every state.
LEMMA JournalInvariant == Spec => []Journal
<1>1. Init => Journal
  <2>1. SUFFICES ASSUME Init PROVE Journal
    OBVIOUS
  <2>2. /\ \A i \in Tx : plan[i] = NoPlan /\ result[i] = None
        /\ disk.file = file /\ disk.plan = plan /\ disk.result = result
        /\ disk.active = active /\ active = None /\ at = "outside"
    BY <2>1 DEF Init
  <2>3. \A t \in Target : file[t] # Hand
    BY <2>1, ValueAssumption DEF Init
  <2>. QED BY <2>2, <2>3
           DEF Journal, PlansOK, PointerHasPlan, ResultsOK, CallsOK, PointerCall, PublishCall,
               RemoveCall, DiskOK, HandOK, Made
<1>2. Typed /\ Journal /\ [Next]_vars => Journal'
  BY PlansStep, PointerStep, ResultsStep, CallsStep, DiskStep, HandStep DEF Journal
<1>. QED BY <1>1, <1>2, TypedInvariant, PTL DEF Spec

\* No power loss and no failure separates the pointer from its plan, synced or
\* not: otherwise no decision could be carried out and the guard would stay shut.
THEOREM PointerKeepsPlan == Spec => []PointerHasPlan
<1>1. Journal => PointerHasPlan
  BY DEF Journal
<1>. QED BY <1>1, JournalInvariant, PTL

\* What a file holds that neither the transaction in doubt nor its start accounts
\* for is overwritten by nobody but the owner: not by a retry of the same call, not
\* by either recovery, and not by what a power loss brings back.
THEOREM NothingOverwritesTheHand == Spec => HandIsKept
<1>1. ASSUME Typed, Journal, [Next]_vars, NEW t \in Target,
             active # None, edited' = edited, t \in plan[active].changes,
             file[t] \notin {plan[active].before[t], plan[active].after[t]}
      PROVE  file'[t] = file[t]
  <2>. file \in Files
    BY <1>1 DEF Typed, TypeOK
  <2>1. ~InDoubt(plan[active], t, file[t])
    BY <1>1 DEF InDoubt, Found, Asked
  <2>2. CASE Publish
    <3>1. PICK u \in todo :
            /\ at = "publish" /\ u \in plan[tx].changes
            /\ file' = [file EXCEPT ![u] = Selected(u)]
      BY <1>1, <2>2, PublishStep
    <3>2. active = tx /\ InDoubt(plan[tx], u, file[u])
      BY <1>1, <3>1 DEF Journal, CallsOK, PublishCall
    <3>. QED BY <2>1, <3>1, <3>2
  <2>3. CASE PowerLoss
    <3>1. file'[t] \in {file[t], disk.file[t]}
      BY <1>1, <2>3, PowerLossStep
    <3>2. disk.file[t] = file[t]
      BY <1>1, <2>1 DEF Journal, DiskOK
    <3>. QED BY <3>1, <3>2
  <2>4. ~Edit
    BY <1>1, EditStep
  <2>. QED BY <1>1, <2>2, <2>3, <2>4, QuietSteps, TransactStep, PointStep, CloseStep, RemoveStep
           DEF journalVars
<1>2. Typed /\ Journal /\ [Next]_vars =>
        [ \A t \in Target :
            /\ active # None /\ edited' = edited
            /\ t \in plan[active].changes
            /\ file[t] \notin {plan[active].before[t], plan[active].after[t]}
            => file'[t] = file[t] ]_vars
  BY <1>1
<1>. QED BY <1>2, TypedInvariant, JournalInvariant, PTL DEF Spec, HandIsKept

-----------------------------------------------------------------------------
(* What holds if the pointer, when it is there, is synced *)

Atomicity == Pointed /\ DecidedOK /\ OthersOK

\* Without torn pointers, the pointer on disk stays the one that is shown or none.
LEMMA PointedStep ==
    ASSUME ~PointerTears, Typed, Journal, Pointed, [Next]_vars
    PROVE  Pointed'
<1>1. CASE Transact \/ Publish \/ Edit
  BY <1>1, TransactStep, PublishStep, EditStep DEF Pointed, Fails
<1>2. CASE Point
  BY <1>2, PointStep, NobodyAssumption DEF Pointed
<1>3. CASE Close
  <2>1. /\ tx \in Tx /\ active = tx
        /\ UNCHANGED <<active, disk.active>>
    BY <1>3, CloseStep DEF Journal, CallsOK
  <2>. QED BY <2>1, NobodyAssumption DEF Pointed
<1>4. CASE Remove
  <2>1. /\ tx \in Tx /\ active = tx /\ disk.result[tx] # None /\ active' = None
        /\ disk'.active \in {None, disk.active} /\ UNCHANGED <<disk.result>>
    BY <1>4, RemoveStep DEF Journal, CallsOK, RemoveCall
  <2>. QED BY <2>1, NobodyAssumption DEF Pointed
<1>5. CASE PowerLoss
  BY <1>5, PowerLossStep DEF Pointed
<1>6. CASE UNCHANGED <<active, disk>>
  BY <1>6 DEF Pointed
<1>. QED BY <1>1, <1>2, <1>3, <1>4, <1>5, <1>6, QuietSteps DEF journalVars

\* After a power loss the pointer is what it was, or one that was decided on.
LEMMA PowerLossPointer ==
    ASSUME ~PointerTears, Typed, Journal, Pointed, PowerLoss
    PROVE  /\ active # None => active' = active
           /\ active = None => active' \in {None, disk.active}
           /\ active' # None =>
                /\ plan'[active'] = plan[active']
                /\ result'[active'] \in {result[active'], disk.result[active']}
                /\ disk.result[active'] # None => result'[active'] = disk.result[active']
                /\ active = None => disk.result[active'] # None
           /\ \A i \in Tx : i # active => result'[i] = disk.result[i]
<1>1. /\ active \in Tx \cup {None} /\ disk.active \in Tx \cup {None}
      /\ active' \in {active, disk.active}
      /\ \A i \in Tx : /\ plan'[i] \in {plan[i], disk.plan[i]}
                       /\ result'[i] \in {result[i], disk.result[i]}
  BY PowerLossStep DEF Typed, TypeOK
<1>2. active # None => active' = active
  BY <1>1 DEF Pointed
<1>3. \A i \in Tx : /\ disk.result[i] \in {None, result[i]}
                    /\ disk.result[i] # result[i] => active = i
  BY DEF Journal, ResultsOK
<1>4. active' # None => disk.plan[active'] = plan[active']
  BY <1>1 DEF Journal, PointerHasPlan
<1>. QED BY <1>1, <1>2, <1>3, <1>4 DEF Pointed

\* No step leaves a transaction that is not pointed to half done.
LEMMA OthersStep ==
    ASSUME ~PointerTears, Typed, Journal, Atomicity, [Next]_vars
    PROVE  OthersOK'
<1>. /\ plan \in [Tx -> Plan] /\ file \in Files /\ disk.file \in Files
     /\ active \in Tx \cup {None} /\ disk.active \in Tx \cup {None}
     /\ disk.result \in [Tx -> Decision \cup {None}]
  BY DEF Typed, TypeOK
<1>0. OthersOK
  BY DEF Atomicity
<1>1. CASE active' = None
  BY <1>1 DEF OthersOK
<1>2. CASE Point
  <2>1. active' = tx /\ plan'[tx].before = file'
    BY <1>2, PointStep DEF Journal, CallsOK, PointerCall
  <2>. QED BY <2>1 DEF OthersOK, Found
<1>3. CASE Publish
  <2>1. PICK t \in todo :
          /\ at = "publish" /\ t \in plan[tx].changes
          /\ file' = [file EXCEPT ![t] = Selected(t)]
          /\ UNCHANGED <<plan, active, disk.result>>
    BY <1>3, PublishStep
  <2>2. active = tx
    BY <2>1 DEF Journal, CallsOK
  <2>. QED BY <1>0, <2>1, <2>2 DEF OthersOK, Files
<1>4. CASE Close
  <2>1. /\ tx \in Tx /\ decision \in Decision /\ active = tx
        /\ disk'.result = [disk.result EXCEPT ![tx] = decision] \/ disk'.result = disk.result
        /\ UNCHANGED <<plan, active, file>>
    BY <1>4, CloseStep DEF Journal, CallsOK
  <2>2. disk'.result[tx] = None => disk.result[tx] = None
    BY <2>1, NobodyAssumption DEF Decision
  <2>. QED BY <1>0, <2>1, <2>2 DEF OthersOK
<1>5. CASE PowerLoss /\ active' # None
  <2>1. SUFFICES ASSUME disk'.result[active'] = None PROVE OthersOK'
    BY DEF OthersOK
  <2>2. /\ active' = active /\ active # None /\ disk.result[active] = None
        /\ plan'[active] = plan[active]
    BY <1>5, <2>1, PowerLossPointer, PowerLossStep DEF Atomicity
  <2>3. \A t \in Target \ plan[active].changes : file'[t] = file[t]
    BY <1>5, PowerLossStep DEF Journal, DiskOK
  <2>. QED BY <1>0, <2>2, <2>3 DEF OthersOK
<1>6. CASE Edit
  <2>1. PICK t \in Target :
          /\ file' = [file EXCEPT ![t] = Hand]
          /\ UNCHANGED <<plan, active, disk.result>>
    BY <1>6, EditStep
  <2>. QED BY <1>0, <2>1 DEF OthersOK, Files
<1>7. CASE UNCHANGED <<file, plan, active, disk.result>>
  BY <1>0, <1>7 DEF OthersOK
<1>8. CASE Transact
  <2>1. active = None /\ UNCHANGED active
    BY <1>8, TransactStep
  <2>. QED BY <2>1 DEF OthersOK
<1>. QED BY <1>1, <1>2, <1>3, <1>4, <1>5, <1>6, <1>7, <1>8, QuietSteps, RemoveStep DEF journalVars

\* A result, once it is on disk, stays borne out by the files.
LEMMA DecidedStep ==
    ASSUME ~PointerTears, Typed, Journal, Atomicity, [Next]_vars
    PROVE  DecidedOK'
<1>. /\ plan \in [Tx -> Plan] /\ file \in Files /\ disk.file \in Files
     /\ active \in Tx \cup {None} /\ disk.active \in Tx \cup {None}
     /\ result \in [Tx -> Decision \cup {None}]
     /\ disk.result \in [Tx -> Decision \cup {None}]
  BY DEF Typed, TypeOK
<1>0. DecidedOK
  BY DEF Atomicity
<1>1. CASE Transact
  <2>1. PICK i \in Tx, p \in Plan :
          /\ plan[i] = NoPlan
          /\ plan' = [plan EXCEPT ![i] = p]
          /\ UNCHANGED <<active, result, file, disk.file, disk.active>>
    BY <1>1, TransactStep
  <2>2. \A a \in Tx : a \in {active, disk.active} => plan[a] # NoPlan
    BY NobodyAssumption DEF Journal, PointerHasPlan
  <2>. QED BY <1>0, <2>1, <2>2 DEF DecidedOK
<1>2. CASE Point
  <2>1. /\ active' = tx /\ disk'.active = tx /\ result'[tx] = None
    BY <1>2, PointStep DEF Journal, CallsOK, PointerCall
  <2>. QED BY <2>1 DEF DecidedOK
<1>3. CASE Publish
  <2>1. PICK t \in todo :
          /\ at = "publish" /\ tx \in Tx /\ plan[tx] # NoPlan
          /\ t \in plan[tx].changes /\ t \in Target
          /\ file' = [file EXCEPT ![t] = Selected(t)]
          /\ disk'.file = [disk.file EXCEPT ![t] = Selected(t)] \/ disk'.file = disk.file
          /\ UNCHANGED <<plan, active, result, disk.active>>
    BY <1>3, PublishStep
  <2>2. /\ active = tx /\ disk.active = tx /\ result[tx] \in {None, decision}
        /\ InDoubt(plan[tx], t, file[t]) /\ Made(plan[tx])
    BY <2>1, NobodyAssumption DEF Journal, CallsOK, PublishCall, Atomicity, Pointed, PlansOK
  <2>3. Asked(plan[tx], t) # Hand
    BY <2>1, <2>2, AskedOfRequest
  <2>4. result[tx] # None => /\ Selected(t) = Final(plan[tx], result[tx], t)
                             /\ file[t] = Selected(t) /\ disk.file[t] = Selected(t)
    BY <1>0, <2>1, <2>2, <2>3 DEF DecidedOK, Selected, Final, InDoubt, Found, Asked
  <2>5. result[tx] # None => UNCHANGED <<file, disk.file>>
    BY <2>1, <2>4 DEF Files
  <2>. QED BY <1>0, <2>1, <2>2, <2>5 DEF DecidedOK
<1>4. CASE Close
  <2>1. /\ at = "publish" /\ todo = {} /\ tx \in Tx
        /\ result' = [result EXCEPT ![tx] = decision]
        /\ UNCHANGED <<file, plan, active, disk.file, disk.active>>
    BY <1>4, CloseStep
  <2>2. /\ active = tx /\ disk.active = tx
        /\ \A t \in plan[tx].changes : file[t] = Selected(t) /\ disk.file[t] = Selected(t)
    BY <2>1, NobodyAssumption DEF Journal, CallsOK, PublishCall, Atomicity, Pointed
  <2>. QED BY <2>1, <2>2 DEF DecidedOK, Selected, Final, Found, Asked
<1>5. CASE Remove
  <2>1. /\ active' = None /\ disk'.active \in {None, disk.active}
        /\ UNCHANGED <<file, plan, result, disk.file>>
    BY <1>5, RemoveStep
  <2>. QED BY <1>0, <2>1, NobodyAssumption DEF DecidedOK
<1>6. CASE PowerLoss
  <2>1. SUFFICES ASSUME NEW a \in Tx, a = active', result'[a] # None,
                        NEW t \in plan'[a].changes
                 PROVE  /\ disk'.file[t] = file'[t]
                        /\ \/ file'[t] = Final(plan'[a], result'[a], t)
                           \/ file'[t] = Hand /\ Found(plan'[a], t) # Hand
    BY <1>6, PowerLossStep DEF DecidedOK
  <2>2. /\ disk'.file = file' /\ plan'[a] = plan[a]
        /\ result'[a] \in {result[a], disk.result[a]} /\ a \in {active, disk.active}
    BY <1>6, <2>1, PowerLossStep, PowerLossPointer, NobodyAssumption DEF Atomicity
  <2>3. result'[a] = result[a]
    BY <2>1, <2>2 DEF Journal, ResultsOK
  <2>4. t \in Target
    BY <2>1, <2>2 DEF Plan, NoPlan
  <2>5. file'[t] = file[t]
    BY <1>0, <1>6, <2>1, <2>2, <2>3, <2>4, PowerLossStep DEF DecidedOK
  <2>. QED BY <1>0, <2>1, <2>2, <2>3, <2>5 DEF DecidedOK
<1>7. CASE Edit
  <2>1. PICK t \in Target :
          /\ ~edited
          /\ file' = [file EXCEPT ![t] = Hand]
          /\ disk'.file = [disk.file EXCEPT ![t] = Hand]
          /\ UNCHANGED <<plan, active, result, disk.active>>
    BY <1>7, EditStep
  <2>2. \A a \in Tx : a \in {active, disk.active} => Found(plan[a], t) # Hand
    BY <2>1, NobodyAssumption DEF Journal, HandOK, PointerHasPlan
  <2>3. \A a \in Tx : plan[a].changes \subseteq Target
    BY DEF Plan, NoPlan
  <2>. QED BY <1>0, <2>1, <2>2, <2>3 DEF DecidedOK, Files
<1>8. CASE UNCHANGED <<file, plan, active, result, disk>>
  BY <1>0, <1>8 DEF DecidedOK
<1>. QED BY <1>1, <1>2, <1>3, <1>4, <1>5, <1>6, <1>7, <1>8, QuietSteps DEF journalVars

\* Without torn pointers, the disk is at all times as if transactions were atomic.
LEMMA AtomicityInvariant ==
    ASSUME ~PointerTears
    PROVE  Spec => []Atomicity
<1>1. Init => Atomicity
  BY NobodyAssumption DEF Init, Atomicity, Pointed, DecidedOK, OthersOK
<1>2. Typed /\ Journal /\ Atomicity /\ [Next]_vars => Atomicity'
  BY PointedStep, DecidedStep, OthersStep DEF Atomicity
<1>. QED BY <1>1, <1>2, TypedInvariant, JournalInvariant, PTL DEF Spec

-----------------------------------------------------------------------------
(* The journal implements atomic files *)

\* The refinement mapping.
View == [t \in Target |-> IF Undecided(t) THEN plan[active].before[t] ELSE file[t]]

Outcome == [i \in Tx |-> IF disk.result[i] = None THEN "none" ELSE disk.result[i]]

\* Nothing but the owner, and the moment a result is safe, is seen from outside.
LEMMA NothingIsSeen ==
    ASSUME ~PointerTears, Typed, Journal, Atomicity, [Next]_vars,
           ~Close, ~PowerLoss, ~Edit
    PROVE  View' = View /\ Outcome' = Outcome
<1>. /\ plan \in [Tx -> Plan] /\ file \in Files
     /\ active \in Tx \cup {None} /\ disk.active \in Tx \cup {None}
  BY DEF Typed, TypeOK
<1>1. CASE active = None /\ active' = None /\ UNCHANGED <<file, disk.result>>
  BY <1>1 DEF View, Outcome, Undecided
<1>2. CASE Point
  <2>1. /\ active = None /\ active' = tx /\ plan[tx].before = file
        /\ UNCHANGED <<plan, file, disk.result>>
    BY <1>2, PointStep DEF Journal, CallsOK, PointerCall
  <2>. QED BY <2>1 DEF View, Outcome, Undecided
<1>3. CASE Publish
  <2>1. PICK t \in todo :
          /\ at = "publish" /\ tx \in Tx /\ plan[tx] # NoPlan
          /\ t \in plan[tx].changes /\ t \in Target
          /\ file' = [file EXCEPT ![t] = Selected(t)]
          /\ UNCHANGED <<plan, active, disk.result>>
    BY <1>3, PublishStep
  <2>2. /\ active = tx /\ active # None /\ result[tx] \in {None, decision}
        /\ InDoubt(plan[tx], t, file[t]) /\ Made(plan[tx])
    BY <2>1, NobodyAssumption DEF Journal, CallsOK, PublishCall, PlansOK
  <2>3. /\ Asked(plan[tx], t) # Hand
        /\ Selected(t) \in {Found(plan[tx], t), Asked(plan[tx], t)}
    BY <2>1, <2>2, AskedOfRequest, SelectedFact
  <2>4. CASE disk.result[tx] = None
    <3>1. \A u \in Target : /\ file'[u] = IF u = t THEN Selected(t) ELSE file[u]
                            /\ Undecided(u) => u \in plan[tx].changes /\ file[u] # Hand
                            /\ Undecided(u)' <=> u \in plan[tx].changes /\ file'[u] # Hand
                            /\ Undecided(u) <=> u \in plan[tx].changes /\ file[u] # Hand
      BY <2>1, <2>2, <2>4 DEF Undecided, Files
    <3>2. \A u \in Target : View'[u] = View[u]
      BY <2>1, <2>2, <2>3, <3>1 DEF View, InDoubt, Found, Asked
    <3>. QED BY <2>1, <3>2 DEF View, Outcome
  <2>5. CASE disk.result[tx] # None
    <3>1. result[tx] # None
      BY <2>1, <2>5 DEF Journal, ResultsOK
    <3>2. Selected(t) = Final(plan[tx], result[tx], t)
      BY <2>2, <3>1 DEF Selected, Final, Found, Asked
    <3>3. file[t] = Selected(t)
      BY <2>1, <2>2, <2>3, <3>1, <3>2 DEF Atomicity, DecidedOK, InDoubt, Final
    <3>4. file' = file
      BY <2>1, <3>3 DEF Files
    <3>. QED BY <2>1, <3>4 DEF View, Outcome, Undecided
  <2>. QED BY <2>4, <2>5
<1>4. CASE Remove
  <2>1. /\ active = tx /\ disk.result[tx] # None /\ active' = None
        /\ UNCHANGED <<file, disk.result>>
    BY <1>4, RemoveStep DEF Journal, CallsOK, RemoveCall
  <2>. QED BY <2>1 DEF View, Outcome, Undecided
<1>5. CASE UNCHANGED <<file, plan, active, disk>>
  BY <1>5 DEF View, Outcome, Undecided
<1>6. CASE Transact
  BY <1>1, <1>6, TransactStep
<1>. QED BY <1>2, <1>3, <1>4, <1>5, <1>6, QuietSteps DEF journalVars

\* Files that hold what a decision left, to the owner's writing, are what an
\* atomic commit or abort makes of what was seen before.
LEMMA Decided ==
    ASSUME Typed, Journal, Atomicity, active \in Tx, disk.result[active] = None,
           NEW d \in Decision,
           \A t \in plan[active].changes :
              file[t] = Final(plan[active], d, t) \/ file[t] = Hand
    PROVE  /\ d = "rollback" => file = View
           /\ d = "resume" => \E r \in Request : \A t \in Target :
                file[t] = IF t \in DOMAIN r /\ ~(View[t] = Hand /\ file[t] = Hand)
                          THEN r[t] ELSE View[t]
<1>. plan \in [Tx -> Plan] /\ file \in Files /\ active # None
  BY NobodyAssumption DEF Typed, TypeOK
<1> DEFINE p == plan[active]
<1>1. p # NoPlan /\ Made(p)
  BY DEF Journal, PointerHasPlan, PlansOK
<1>2. \A t \in Target :
        View[t] = IF t \in p.changes /\ file[t] # Hand THEN Found(p, t) ELSE file[t]
  BY DEF View, Undecided, Found
<1>3. CASE d = "rollback"
  <2>1. \A t \in Target : file[t] = View[t]
    BY <1>2, <1>3 DEF Final
  <2>. QED BY <1>3, <2>1 DEF Files, View
<1>4. CASE d = "resume"
  <2>1. PICK r \in Request :
          /\ p.changes = {t \in DOMAIN r : r[t] # p.before[t]}
          /\ p.after = [t \in Target |-> IF t \in DOMAIN r THEN r[t] ELSE p.before[t]]
    BY <1>1 DEF Made
  <2>2. \A t \in Target \ p.changes : file[t] \in {Found(p, t), Hand}
    BY DEF Atomicity, OthersOK
  <2>3. ASSUME NEW t \in Target
        PROVE  file[t] = IF t \in DOMAIN r /\ ~(View[t] = Hand /\ file[t] = Hand)
                         THEN r[t] ELSE View[t]
    <3>1. CASE t \in p.changes
      <4>1. t \in DOMAIN r /\ Asked(p, t) = r[t]
        BY <2>1, <2>3, <3>1 DEF Asked
      <4>2. file[t] = r[t] \/ file[t] = Hand
        BY <1>4, <3>1, <4>1 DEF Final
      <4>3. file[t] = Hand => View[t] = Hand
        BY <1>2, <2>3
      <4>. QED BY <4>1, <4>2, <4>3
    <3>2. CASE t \notin p.changes
      <4>1. View[t] = file[t]
        BY <1>2, <2>3, <3>2
      <4>2. t \in DOMAIN r => r[t] = Found(p, t)
        BY <2>1, <3>2 DEF Found
      <4>. QED BY <2>2, <2>3, <3>2, <4>1, <4>2
    <3>. QED BY <3>1, <3>2
  <2>. QED BY <1>4, <2>3
<1>. QED BY <1>3, <1>4 DEF Decision

\* One step of the journal, seen from outside.
Seen ==
    \/ View' = View /\ Outcome' = Outcome
    \/ \E i \in Tx, d \in Decision :
        /\ Outcome[i] = "none" /\ Outcome' = [Outcome EXCEPT ![i] = d]
        /\ d = "rollback" => View' = View
        /\ d = "resume" => \E r \in Request : \A t \in Target :
                View'[t] = IF t \in DOMAIN r /\ ~(View[t] = Hand /\ View'[t] = Hand)
                           THEN r[t] ELSE View[t]
    \/ \E t \in Target : View' = [View EXCEPT ![t] = Hand] /\ Outcome' = Outcome

\* The result is what makes a transaction visible, all at once.
LEMMA CloseSeen ==
    ASSUME ~PointerTears, Typed, Journal, Atomicity, Close
    PROVE  Seen
<1>. /\ plan \in [Tx -> Plan] /\ file \in Files
     /\ disk.result \in [Tx -> Decision \cup {None}]
     /\ result \in [Tx -> Decision \cup {None}]
  BY DEF Typed, TypeOK
<1>1. /\ at = "publish" /\ todo = {} /\ tx \in Tx /\ decision \in Decision
      /\ UNCHANGED <<file, plan, active>>
      /\ disk'.result = [disk.result EXCEPT ![tx] = decision] \/ disk' = disk
  BY CloseStep
<1>2. /\ active = tx /\ result[tx] \in {None, decision}
      /\ \A t \in plan[tx].changes : file[t] = Final(plan[tx], decision, t)
  BY <1>1 DEF Journal, CallsOK, PublishCall, Selected, Final, Found, Asked
<1>3. CASE disk'.result = disk.result
  BY <1>1, <1>3 DEF Seen, View, Outcome, Undecided
<1>4. CASE disk'.result # disk.result
  <2>1. disk'.result = [disk.result EXCEPT ![tx] = decision]
    BY <1>1, <1>4
  <2>2. disk.result[tx] = None
    BY <1>1, <1>2, <1>4, <2>1 DEF Journal, ResultsOK
  <2>3. decision # None
    BY <1>1, NobodyAssumption DEF Decision
  <2>4. View' = file
    BY <1>1, <1>2, <2>1, <2>3 DEF View, Undecided, Files
  <2>5. Outcome[tx] = "none" /\ Outcome' = [Outcome EXCEPT ![tx] = decision]
    BY <1>1, <2>1, <2>2, <2>3 DEF Outcome
  <2>6. /\ decision = "rollback" => file = View
        /\ decision = "resume" => \E r \in Request : \A t \in Target :
                file[t] = IF t \in DOMAIN r /\ ~(View[t] = Hand /\ file[t] = Hand)
                          THEN r[t] ELSE View[t]
    BY <1>1, <1>2, <2>2, Decided
  <2>. QED BY <1>1, <2>4, <2>5, <2>6 DEF Seen
<1>. QED BY <1>3, <1>4

\* A power loss shows the files before or after the transaction.
LEMMA PowerLossSeen ==
    ASSUME ~PointerTears, Typed, Journal, Atomicity, PowerLoss
    PROVE  Seen
<1>. /\ plan \in [Tx -> Plan] /\ file \in Files /\ disk.file \in Files
     /\ active \in Tx \cup {None} /\ disk.active \in Tx \cup {None}
     /\ disk.result \in [Tx -> Decision \cup {None}]
     /\ result \in [Tx -> Decision \cup {None}]
  BY DEF Typed, TypeOK
<1>1. /\ disk'.result = result' /\ file' \in Files
      /\ \A t \in Target : file'[t] \in {file[t], disk.file[t]}
  BY PowerLossStep DEF DiskType
<1>2. /\ active # None => active' = active
      /\ active = None => active' \in {None, disk.active}
      /\ active' # None =>
            /\ plan'[active'] = plan[active']
            /\ result'[active'] \in {result[active'], disk.result[active']}
            /\ disk.result[active'] # None => result'[active'] = disk.result[active']
            /\ active = None => disk.result[active'] # None
      /\ \A i \in Tx : i # active => result'[i] = disk.result[i]
  BY PowerLossPointer DEF Atomicity
<1>3. CASE active = None
  <2>1. \A t \in Target : file'[t] = file[t]
    BY <1>1, <1>3 DEF Journal, DiskOK
  <2>2. \A t \in Target : ~Undecided(t) /\ ~Undecided(t)'
    BY <1>1, <1>2, <1>3 DEF Undecided
  <2>3. View' = View
    BY <2>1, <2>2 DEF View
  <2>4. \A i \in Tx : disk'.result[i] = disk.result[i]
    BY <1>1, <1>2, <1>3, NobodyAssumption
  <2>5. Outcome' = Outcome
    BY <2>4 DEF Outcome
  <2>. QED BY <2>3, <2>5 DEF Seen
<1>4. CASE active # None
  <2>1. /\ active \in Tx /\ active' = active /\ plan'[active] = plan[active]
        /\ result'[active] \in {result[active], disk.result[active]}
        /\ disk.result[active] # None => result'[active] = disk.result[active]
    BY <1>2, <1>4
  <2>2. /\ plan[active].changes \subseteq Target /\ plan[active] # NoPlan
        /\ Made(plan[active])
    BY <2>1, <1>4 DEF Plan, NoPlan, Journal, PointerHasPlan, PlansOK
  <2>3. \A t \in Target \ plan[active].changes : file'[t] = file[t]
    BY <1>1 DEF Journal, DiskOK
  <2>4. result[active] # None => \A t \in plan[active].changes :
            /\ file'[t] = file[t]
            /\ file[t] = Final(plan[active], result[active], t) \/ file[t] = Hand
    BY <1>1, <2>1, <2>2 DEF Atomicity, DecidedOK
  <2>5. \A i \in Tx : i # active => disk'.result[i] = disk.result[i]
    BY <1>1, <1>2
  <2>6. CASE disk.result[active] # None
    <3>1. result[active] # None
      BY <2>1, <2>6 DEF Journal, ResultsOK
    <3>2. \A t \in Target : file'[t] = file[t]
      BY <2>3, <2>4, <3>1
    <3>3. \A i \in Tx : disk'.result[i] = disk.result[i]
      BY <1>1, <2>1, <2>5, <2>6
    <3>4. \A t \in Target : ~Undecided(t) /\ ~Undecided(t)'
      BY <2>1, <2>6, <3>3 DEF Undecided
    <3>. QED BY <3>2, <3>3, <3>4 DEF Seen, View, Outcome
  <2>7. CASE disk.result[active] = None /\ result'[active] = None
    <3>1. \A i \in Tx : disk'.result[i] = disk.result[i]
      BY <1>1, <2>5, <2>7
    <3>2. ASSUME NEW t \in Target
          PROVE  View'[t] = View[t]
      <4>1. /\ View[t] = IF t \in plan[active].changes /\ file[t] # Hand
                         THEN Found(plan[active], t) ELSE file[t]
            /\ View'[t] = IF t \in plan[active].changes /\ file'[t] # Hand
                          THEN Found(plan[active], t) ELSE file'[t]
        BY <1>4, <2>1, <2>7, <3>1, <3>2 DEF View, Undecided, Found
      <4>2. CASE t \notin plan[active].changes \/ file'[t] = file[t]
        BY <2>3, <3>2, <4>1, <4>2
      <4>3. CASE t \in plan[active].changes /\ file'[t] # file[t]
        <5>1. disk.file[t] # file[t] /\ file'[t] = disk.file[t] /\ DiskOK
          BY <1>1, <3>2, <4>3 DEF Journal
        <5>2. /\ file[t] \in {Found(plan[active], t), Asked(plan[active], t)}
              /\ file'[t] \in {Found(plan[active], t), Asked(plan[active], t)}
          BY <3>2, <5>1 DEF DiskOK, InDoubt
        <5>3. Asked(plan[active], t) # Hand
          BY <2>2, <4>3, AskedOfRequest
        <5>. QED BY <4>1, <4>3, <5>2, <5>3
      <4>. QED BY <4>2, <4>3
    <3>. QED BY <3>1, <3>2 DEF Seen, View, Outcome
  <2>8. CASE disk.result[active] = None /\ result'[active] # None
    <3>1. /\ result'[active] = result[active] /\ result[active] \in Decision
          /\ result[active] # None
      BY <2>1, <2>8
    <3>2. \A t \in Target : file'[t] = file[t]
      BY <2>3, <2>4, <3>1
    <3>3. file' = file
      BY <1>1, <3>2 DEF Files
    <3>4. View' = file
      BY <1>1, <2>1, <3>1, <3>3 DEF View, Undecided, Files
    <3>5. Outcome[active] = "none" /\ Outcome' = [Outcome EXCEPT ![active] = result[active]]
      BY <1>1, <2>1, <2>5, <2>8, <3>1 DEF Outcome
    <3>6. /\ result[active] = "rollback" => file = View
          /\ result[active] = "resume" => \E r \in Request : \A t \in Target :
                file[t] = IF t \in DOMAIN r /\ ~(View[t] = Hand /\ file[t] = Hand)
                          THEN r[t] ELSE View[t]
      BY <2>1, <2>4, <2>8, <3>1, Decided
    <3>. QED BY <2>1, <3>1, <3>4, <3>5, <3>6 DEF Seen
  <2>. QED BY <2>6, <2>7, <2>8
<1>. QED BY <1>3, <1>4

\* An edit by hand is one of the abstract files.
LEMMA EditSeen ==
    ASSUME Typed, Edit
    PROVE  Seen
<1>. file \in Files
  BY DEF Typed, TypeOK
<1>1. PICK t \in Target :
        /\ file' = [file EXCEPT ![t] = Hand]
        /\ UNCHANGED <<plan, active, disk.result>>
  BY EditStep
<1>2. \A u \in Target : View'[u] = IF u = t THEN Hand ELSE View[u]
  BY <1>1 DEF View, Undecided, Files
<1>3. View' = [View EXCEPT ![t] = Hand]
  BY <1>2 DEF View
<1>. QED BY <1>1, <1>3 DEF Seen, Outcome

\* Transactions on the files are atomic and durable, through any interleaving of
\* failed calls, recoveries, power losses and the owner's own writing: as long as
\* an I/O failure never leaves the pointer replaced but not synced.
THEOREM JournalIsAtomic ==
    ASSUME ~PointerTears
    PROVE  Spec => ImplementsAtomicFiles
<1>1. Init => Atomic!Init
  <2>1. SUFFICES ASSUME Init PROVE Atomic!Init
    OBVIOUS
  <2>2. /\ file \in Start /\ active = None /\ disk.result = [i \in Tx |-> None]
    BY <2>1 DEF Init
  <2>3. file \in Files
    BY <2>2, ValueAssumption DEF Files
  <2>4. View = file
    BY <2>2, <2>3 DEF View, Undecided, Files
  <2>5. Outcome = [i \in Tx |-> "none"]
    BY <2>2 DEF Outcome
  <2>. QED BY <2>2, <2>4, <2>5 DEF Atomic!Init, View, Outcome
<1>2. ASSUME Typed, Journal, Atomicity, [Next]_vars
      PROVE  Seen
  BY <1>2, NothingIsSeen, CloseSeen, PowerLossSeen, EditSeen DEF Seen
<1>3. Seen => [Atomic!Next]_(Atomic!filesVars)
  <2>1. CASE View' = View /\ Outcome' = Outcome
    BY <2>1 DEF Atomic!filesVars, View, Outcome
  <2>2. ASSUME NEW i \in Tx, NEW d \in Decision,
               Outcome[i] = "none", Outcome' = [Outcome EXCEPT ![i] = d]
        PROVE  Atomic!Decide(i, d)
    BY <2>2 DEF Atomic!Decide, Outcome
  <2>3. ASSUME NEW i \in Tx, Atomic!Decide(i, "rollback"), View' = View
        PROVE  Atomic!Next
    BY <2>3 DEF Atomic!Next, Atomic!Abort, View
  <2>4. ASSUME NEW i \in Tx, Atomic!Decide(i, "resume"), NEW r \in Request,
               \A t \in Target :
                 View'[t] = IF t \in DOMAIN r /\ ~(View[t] = Hand /\ View'[t] = Hand)
                            THEN r[t] ELSE View[t]
        PROVE  Atomic!Next
    <3> DEFINE kept == {t \in Target : View[t] = Hand /\ View'[t] = Hand}
    <3>1. View' = [t \in Target |-> IF t \in DOMAIN r \ kept THEN r[t] ELSE View[t]]
      BY <2>4 DEF View
    <3>2. kept \in SUBSET {t \in Target : View[t] = Hand}
      OBVIOUS
    <3>3. View' = Atomic!After(r, kept)
      BY <3>1 DEF Atomic!After, View
    <3>4. Atomic!Commit(i)
      BY <2>4, <3>2, <3>3 DEF Atomic!Commit, View
    <3>. QED BY <3>4 DEF Atomic!Next
  <2>5. ASSUME NEW t \in Target, View' = [View EXCEPT ![t] = Hand], Outcome' = Outcome
        PROVE  Atomic!Next
    BY <2>5 DEF Atomic!Next, Atomic!Edit, View, Outcome
  <2>. QED BY <2>1, <2>2, <2>3, <2>4, <2>5 DEF Seen, Decision
<1>. QED BY <1>1, <1>2, <1>3, TypedInvariant, JournalInvariant, AtomicityInvariant, PTL
         DEF Spec, ImplementsAtomicFiles, Atomic!Spec
=============================================================================
