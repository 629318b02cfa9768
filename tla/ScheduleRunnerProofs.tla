------------------------ MODULE ScheduleRunnerProofs -------------------------
(***************************************************************************)
(* Proofs about scheduled agents, for any schedules, any number of runs and  *)
(* of restarts, any store size, period and grace.                            *)
(***************************************************************************)
EXTENDS ScheduleRunner, FiniteSetTheorems, WellFoundedInduction, TLAPS

\* Records are numbered in the order they were created, for schedules that were.
Numbered ==
  \A r \in RunId :
    /\ r > created =>
         /\ status[r] = "none" /\ of[r] = Null /\ trigger[r] = "none"
         /\ pc[r] = "idle"
    /\ r <= created => status[r] # "none" /\ of[r] \in used /\ scheduledFor[r] \in Nat
    /\ pc[r] \in {"idle", "start", "over"} => dialogs[r] = {}

\* A schedule that does not exist shows nothing and is never due.
Defined ==
  \A s \in Schedules :
    /\ Exists(s) => s \in used
    /\ ~Exists(s) => next[s] = Null /\ lastStatus[s] = "none"

\* A process that is down does nothing.
Down == ~up => ~ticking /\ \A r \in RunId : pc[r] = "idle"

\* What tick() found due stays so until its round.
DueStays ==
  ticking => \A s \in due : def[s].enabled /\ next[s] # Null /\ next[s] <= clock

\* An occurrence that was handled is past, and before the next one.
Past ==
  \A r \in RunId : trigger[r] = "scheduled" =>
    /\ scheduledFor[r] <= clock
    /\ next[of[r]] # Null => scheduledFor[r] < next[of[r]]

IInv == /\ TypeOK /\ Numbered /\ Defined /\ Down /\ DueStays /\ Past
        /\ ActiveRecordIsLive /\ OneActiveRecord /\ DialogStatus
        /\ LastStatusHonest /\ OccurrenceOnce /\ TimerCoversStore

\* What the action properties say of one step.
FinishedKept ==
  \A r \in RunId : status[r] \in Finished => status'[r] \in {status[r], "evicted"}
MissedSkipped ==
  \A r \in RunId :
    status[r] = "none" /\ status'[r] = "running" /\ trigger'[r] = "scheduled"
      => clock <= scheduledFor'[r] + Grace \/ def[of'[r]].policy = "run_once"
Steps == IInv' /\ FinishedKept /\ MissedSkipped

-----------------------------------------------------------------------------
\* Times

LEMMA SmallestOf ==
  ASSUME NEW S \in SUBSET Nat, S # {}
  PROVE  Min(S) \in S /\ \A y \in S : Min(S) <= y
<1> DEFINE R == OpToRel(<, Nat)
<1>1. IsWellFoundedOn(R, Nat)
  BY NatLessThanWellFounded
<1>2. \E x \in S : \A y \in S : ~(<<y, x>> \in R)
  <2> HIDE DEF R
  <2> QED  BY <1>1, WFMin
<1>3. PICK x \in S : \A y \in S : ~(<<y, x>> \in R)
  BY <1>2
<1>4. ASSUME NEW y \in S  PROVE x <= y
  <2>1. y \in Nat /\ x \in Nat /\ ~(<<y, x>> \in R)
    BY <1>3
  <2>2. ~(y < x)
    BY <2>1 DEF OpToRel
  <2> HIDE DEF R
  <2> QED  BY <2>1, <2>2
<1> QED  BY <1>4 DEF Min

LEMMA LargerOfTwo ==
  ASSUME NEW a \in Nat, NEW b \in Nat
  PROVE  Max({a, b}) \in {a, b} /\ a <= Max({a, b}) /\ b <= Max({a, b})
<1>1. \E x \in {a, b} : \A y \in {a, b} : x >= y
  <2>1. a >= b \/ b >= a
    OBVIOUS
  <2> QED  BY <2>1
<1> QED  BY <1>1 DEF Max

\* An occurrence is after the time from which it is counted.
LEMMA OccurrenceIsLater ==
  ASSUME NEW d \in Definition, NEW t \in Nat
  PROVE  Occurrence(d, t) \in Time /\ (Occurrence(d, t) # Null => Occurrence(d, t) > t)
<1>1. d.kind \in {"once", "recurring"} /\ d.at \in Nat
  BY DEF Definition
<1>2. /\ (t \div Period + 1) * Period \in Nat
      /\ (t \div Period + 1) * Period > t
  <2>1. \A p \in Nat \ {0} : /\ (t \div p + 1) * p \in Nat
                             /\ t < (t \div p + 1) * p
    BY SMT
  <2> QED  BY <2>1, ClockAssumption
<1> QED  BY <1>1, <1>2 DEF Occurrence, Time

\* reschedule() arms the timer in time for every occurrence of the store.
LEMMA RescheduledCovers ==
  ASSUME NEW n \in [Schedules -> Time], NEW d, clock \in Nat
  PROVE  /\ Rescheduled(d, n) \in Time
         /\ \A s \in Schedules : d[s].enabled /\ n[s] # Null =>
              Rescheduled(d, n) # Null /\ Rescheduled(d, n) <= Max({n[s], clock})
<1>1. Wakes(d, n) \in SUBSET Nat
  BY DEF Wakes, Time
<1>2. ASSUME NEW s \in Schedules, d[s].enabled, n[s] # Null
      PROVE  n[s] \in Wakes(d, n) /\ n[s] \in Nat
  BY <1>2 DEF Wakes, Time
<1>3. CASE Wakes(d, n) = {}
  BY <1>2, <1>3 DEF Rescheduled, Time
<1>4. CASE Wakes(d, n) # {}
  <2> DEFINE m == Min(Wakes(d, n))
             k == Min({m, clock + MaxTimer})
  <2>1. m \in Nat /\ \A y \in Wakes(d, n) : m <= y
    BY <1>1, <1>4, SmallestOf
  <2>2. k \in Nat /\ k <= m
    <3>1. {m, clock + MaxTimer} \in SUBSET Nat
      BY <2>1, ClockAssumption
    <3> QED  BY <3>1, SmallestOf
  <2>3. Rescheduled(d, n) = IF m <= clock THEN clock ELSE k
    BY <1>4 DEF Rescheduled
  <2> HIDE DEF m, k
  <2>4. ASSUME NEW s \in Schedules, d[s].enabled, n[s] # Null
        PROVE  Rescheduled(d, n) <= Max({n[s], clock})
    <3>1. m <= n[s] /\ n[s] \in Nat
      BY <1>2, <2>1, <2>4
    <3>2. n[s] <= Max({n[s], clock}) /\ clock <= Max({n[s], clock})
          /\ Max({n[s], clock}) \in Nat
      BY <3>1, LargerOfTwo
    <3> QED  BY <2>1, <2>2, <2>3, <3>1, <3>2
  <2>5. Rescheduled(d, n) \in Nat
    BY <2>2, <2>3
  <2> QED  BY <2>4, <2>5, ClockAssumption DEF Time
<1> QED  BY <1>3, <1>4

-----------------------------------------------------------------------------
\* Runs

LEMMA BoundsInNat == MaxCreated \in Nat /\ RunId \in SUBSET Nat
BY StoreAssumption DEF RunId

\* A live run has a record, and an active one if it is in the store.
LEMMA LiveRun ==
  ASSUME IInv, up, NEW r \in RunId, Live(r)
  PROVE  /\ r <= created /\ status[r] # "none" /\ of[r] \in used
         /\ r \in Stored(status) => status[r] \in Active
<1>1. created \in Nat /\ r \in Nat /\ ~(r > created)
  BY BoundsInNat DEF IInv, TypeOK, Numbered, Live, RunId
<1> QED  BY <1>1 DEF IInv, Numbered, ActiveRecordIsLive

\* A step of a live run keeps the invariant if it leaves the rest of the store
\* alone and, where the record is still stored, writes it and the status of its
\* schedule in agreement with where the run then is.
LEMMA RunKeeps ==
  ASSUME IInv, Idle, NEW r \in RunId, Live(r), UNCHANGED store,
         pc' \in [RunId -> {"idle", "start", "settings", "prompt", "parked", "over"}],
         dialogs' \in [RunId -> SUBSET Dialogs], closed' \subseteq RunId,
         status' \in [RunId -> Status], lastStatus' \in [Schedules -> Status],
         \A q \in RunId \ {r} : /\ pc'[q] = pc[q] /\ dialogs'[q] = dialogs[q]
                                /\ status'[q] = status[q],
         pc'[r] # "idle",
         pc'[r] \in {"start", "over"} => dialogs'[r] = {},
         r \notin Stored(status) => status'[r] = status[r],
         r \in Stored(status) =>
           /\ status'[r] \in Active \cup Finished
           /\ status'[r] \in Active <=> pc'[r] # "over"
           /\ pc'[r] # "over" => (status'[r] = "waiting_for_input" <=> dialogs'[r] # {}),
         \A s \in Schedules :
           \/ lastStatus'[s] = lastStatus[s]
           \/ /\ s = of[r] /\ r \in Stored(status) /\ Exists(s)
              /\ lastStatus'[s] = status'[r],
         r \in Stored(status) /\ status'[r] \in Finished /\ Exists(of[r]) =>
           lastStatus'[of[r]] = status'[r]
  PROVE  Steps
<1>1. /\ r <= created /\ status[r] # "none" /\ of[r] \in used /\ of[r] \in Schedules
      /\ r \in Stored(status) => status[r] \in Active
  BY LiveRun DEF Idle, IInv, TypeOK
<1>2. /\ UNCHANGED <<clock, def, used, next, created, of, trigger, scheduledFor, up, timer,
                     ticking, due, editing, edits, restarts>>
  BY DEF store, records, bounds
<1>3. /\ status'[r] # "none" /\ (status'[r] = "evicted" <=> status[r] = "evicted")
      /\ r \in Stored(status) <=> r \in Stored(status')
  BY <1>1 DEF Stored, Active, Finished
<1>4. \A q \in RunId : q \in Stored(status') <=> q \in Stored(status)
  BY <1>3 DEF Stored
<1>5. TypeOK'
  BY <1>2 DEF IInv, TypeOK
<1>6. Numbered'
  <2>1. created \in Nat /\ \A q \in RunId : q \in Nat
    BY BoundsInNat DEF IInv, TypeOK, RunId
  <2>2. ~(r > created)
    BY <1>1, <2>1
  <2> QED  BY <1>1, <1>2, <1>3, <2>2 DEF IInv, Numbered
<1>7. Defined'
  BY <1>1, <1>2 DEF IInv, Defined, Exists
<1>8. Down' /\ DueStays' /\ Past' /\ OccurrenceOnce'
  BY <1>2 DEF IInv, Down, DueStays, Past, OccurrenceOnce, Idle
<1>9. ActiveRecordIsLive'
  <2>1. up' /\ \A q \in RunId \ {r} : Live(q)' <=> Live(q)
    BY <1>2 DEF Live, Idle
  <2>2. Live(r)' <=> pc'[r] # "over"
    BY DEF Live
  <2> QED  BY <1>3, <1>4, <2>1, <2>2 DEF IInv, ActiveRecordIsLive, Idle, Stored
<1>10. OneActiveRecord'
  <2>1. \A q \in RunId : status'[q] \in Active => status[q] \in Active
    BY <1>1, <1>3 DEF Stored, Active
  <2> QED  BY <1>2, <2>1 DEF IInv, OneActiveRecord
<1>11. DialogStatus'
  <2>1. \A q \in RunId \ {r} : Live(q)' <=> Live(q)
    BY DEF Live
  <2>2. Live(r)' => pc'[r] # "over"
    BY DEF Live
  <2> QED  BY <1>4, <2>1, <2>2 DEF IInv, DialogStatus, Stored
<1>12. LastStatusHonest'
  <2> SUFFICES ASSUME NEW s \in Schedules, lastStatus'[s] \in Active
               PROVE  \E q \in RunId : of[q] = s /\ status'[q] \in Active \cup {"evicted"}
    BY <1>2 DEF LastStatusHonest, HasActiveRun
  <2>1. CASE lastStatus'[s] # lastStatus[s]
    BY <2>1
  <2>2. CASE lastStatus'[s] = lastStatus[s]
    <3>1. PICK q \in RunId : of[q] = s /\ status[q] \in Active \cup {"evicted"}
      BY <2>2 DEF IInv, LastStatusHonest, HasActiveRun
    <3>2. Exists(s)
      BY <2>2 DEF IInv, Defined, Active
    <3>3. CASE q = r /\ status[q] \in Active
      <4>1. r \in Stored(status)
        BY <3>3 DEF Stored, Active
      <4>2. status'[r] \notin Finished
        BY <2>2, <3>1, <3>2, <3>3, <4>1 DEF Active, Finished
      <4> QED  BY <3>1, <3>3, <4>1, <4>2
    <3>4. CASE ~(q = r /\ status[q] \in Active)
      BY <1>3, <3>1, <3>4
    <3> QED  BY <3>3, <3>4
  <2> QED  BY <2>1, <2>2
<1>13. TimerCoversStore'
  BY <1>2 DEF IInv, TimerCoversStore, Idle
<1>14. FinishedKept /\ MissedSkipped
  <2>1. status[r] \notin Finished
    BY <1>1 DEF Stored, Active, Finished
  <2>2. \A q \in RunId : status[q] = "none" => status'[q] = "none"
    BY <1>1
  <2> QED  BY <2>1, <2>2 DEF FinishedKept, MissedSkipped
<1> QED  BY <1>5, <1>6, <1>7, <1>8, <1>9, <1>10, <1>11, <1>12, <1>13, <1>14
         DEF Steps, IInv

\* updateRun()
LEMMA Updated ==
  ASSUME TypeOK, NEW r \in RunId, NEW st \in Active \cup Finished, Update(r, st),
         of[r] \in Schedules
  PROVE  /\ status' \in [RunId -> Status] /\ lastStatus' \in [Schedules -> Status]
         /\ \A q \in RunId \ {r} : status'[q] = status[q]
         /\ status'[r] = IF r \in Stored(status) THEN st ELSE status[r]
         /\ \A s \in Schedules :
              \/ lastStatus'[s] = lastStatus[s]
              \/ /\ s = of[r] /\ r \in Stored(status) /\ Exists(s)
                 /\ lastStatus'[s] = st
         /\ r \in Stored(status) /\ Exists(of[r]) => lastStatus'[of[r]] = st
<1>1. st \in Status
  BY DEF Status
<1>2. CASE r \in Stored(status)
  <2>1. status' = [status EXCEPT ![r] = st]
        /\ lastStatus' = [s \in Schedules |->
                            IF s = of[r] /\ Exists(s) THEN st ELSE lastStatus[s]]
    BY <1>2 DEF Update
  <2> QED  BY <1>1, <1>2, <2>1 DEF TypeOK
<1>3. CASE r \notin Stored(status)
  BY <1>3 DEF Update, TypeOK
<1> QED  BY <1>2, <1>3

\* finish() of a live run.
LEMMA FinishKeeps ==
  ASSUME IInv, Idle, NEW r \in RunId, Live(r), UNCHANGED store,
         NEW st \in Finished, Finish(r, st)
  PROVE  Steps
<1>1. TypeOK /\ of[r] \in Schedules
  BY LiveRun DEF IInv, TypeOK, Idle
<1>2. /\ pc' \in [RunId -> {"idle", "start", "settings", "prompt", "parked", "over"}]
      /\ dialogs' \in [RunId -> SUBSET Dialogs] /\ closed' \subseteq RunId
      /\ pc'[r] = "over" /\ dialogs'[r] = {}
      /\ \A q \in RunId \ {r} : pc'[q] = pc[q] /\ dialogs'[q] = dialogs[q]
      /\ Update(r, st)
  BY <1>1 DEF Finish, TypeOK
<1>3. /\ status' \in [RunId -> Status] /\ lastStatus' \in [Schedules -> Status]
      /\ \A q \in RunId \ {r} : status'[q] = status[q]
      /\ status'[r] = IF r \in Stored(status) THEN st ELSE status[r]
      /\ \A s \in Schedules :
           \/ lastStatus'[s] = lastStatus[s]
           \/ /\ s = of[r] /\ r \in Stored(status) /\ Exists(s)
              /\ lastStatus'[s] = st
      /\ r \in Stored(status) /\ Exists(of[r]) => lastStatus'[of[r]] = st
  BY <1>1, <1>2, Updated
<1>4. st \notin Active
  BY DEF Active, Finished
<1> QED  BY <1>2, <1>3, <1>4, RunKeeps

-----------------------------------------------------------------------------
\* New records

\* What addRun writes: one record more, and at most an old one cut.
LEMMA RecordAdded ==
  ASSUME IInv, NEW s \in Schedules, NEW trig \in {"scheduled", "manual"},
         NEW for \in Nat, NEW st \in {"running", "skipped"}, AddRun(s, trig, for, st),
         NEW n, n = created + 1
  PROVE  /\ n \in RunId /\ created' = n /\ created' \in 0..MaxCreated
         /\ of' \in [RunId -> Schedules \cup {Null}]
         /\ trigger' \in [RunId -> {"none", "scheduled", "manual"}]
         /\ scheduledFor' \in [RunId -> Time]
         /\ status' \in [RunId -> Status] /\ lastStatus' \in [Schedules -> Status]
         /\ of'[n] = s /\ trigger'[n] = trig /\ scheduledFor'[n] = for /\ status'[n] = st
         /\ \A r \in RunId \ {n} :
              /\ of'[r] = of[r] /\ trigger'[r] = trigger[r]
              /\ scheduledFor'[r] = scheduledFor[r]
              /\ status'[r] = status[r] \/ (status'[r] = "evicted" /\ status[r] # "none")
         /\ lastStatus'[s] = st
         /\ \A x \in Schedules \ {s} : lastStatus'[x] = lastStatus[x]
<1> DEFINE cut(r) == Cardinality(Stored(status)) >= MaxRuns /\ r = Min(Stored(status))
<1>1. /\ n \in RunId /\ created' = n
      /\ of' = [of EXCEPT ![n] = s]
      /\ trigger' = [trigger EXCEPT ![n] = trig]
      /\ scheduledFor' = [scheduledFor EXCEPT ![n] = for]
      /\ status' = [r \in RunId |-> IF r = n THEN st
                                    ELSE IF cut(r) THEN "evicted" ELSE status[r]]
      /\ lastStatus' = [lastStatus EXCEPT ![s] = st]
  BY DEF AddRun
<1>2. ASSUME NEW r \in RunId, cut(r)  PROVE status[r] # "none"
  <2>1. Stored(status) \in SUBSET Nat
    BY BoundsInNat DEF Stored
  <2>2. Stored(status) # {}
    <3>1. Cardinality({}) = 0
      BY FS_EmptySet
    <3> QED  BY <1>2, <3>1, StoreAssumption
  <2>3. r \in Stored(status)
    BY <1>2, <2>1, <2>2, SmallestOf
  <2> QED  BY <2>3 DEF Stored
<1> HIDE DEF cut
<1>3. /\ of \in [RunId -> Schedules \cup {Null}]
      /\ trigger \in [RunId -> {"none", "scheduled", "manual"}]
      /\ scheduledFor \in [RunId -> Time] /\ status \in [RunId -> Status]
      /\ lastStatus \in [Schedules -> Status]
  BY DEF IInv, TypeOK
<1>4. for \in Time /\ st \in Status /\ "evicted" \in Status
  BY DEF Time, Status, Active, Finished
<1>5. status' \in [RunId -> Status] /\ lastStatus' \in [Schedules -> Status]
  BY <1>1, <1>3, <1>4
<1>6. created' \in 0..MaxCreated
  BY <1>1, StoreAssumption DEF RunId
<1> QED  BY <1>1, <1>2, <1>3, <1>4, <1>5, <1>6

\* A new record keeps the invariant if only its schedule moves on, and, when it
\* stands for an occurrence, to a later one.
LEMMA AddKeeps ==
  ASSUME IInv, up, NEW s \in Schedules, Exists(s),
         NEW trig \in {"scheduled", "manual"}, NEW for \in Nat, for <= clock,
         NEW st \in {"running", "skipped"}, AddRun(s, trig, for, st),
         pc' = IF st = "running" THEN [pc EXCEPT ![created + 1] = "start"] ELSE pc,
         UNCHANGED <<clock, used, up, ticking, dialogs, closed, editing, bounds>>,
         st = "running" => ~HasActiveRun(s),
         timer' \in Time, due' \subseteq Schedules,
         def' \in [Schedules -> Definition \cup {Absent}],
         next' \in [Schedules -> Time],
         \A x \in Schedules \ {s} : def'[x] = def[x] /\ next'[x] = next[x],
         def'[s] # Absent,
         next'[s] # Null => /\ next[s] # Null /\ next[s] <= next'[s]
                            /\ trig = "scheduled" => for < next'[s],
         trig = "scheduled" => next[s] = for,
         trig = "scheduled" /\ st = "running" =>
           clock <= for + Grace \/ def[s].policy = "run_once",
         DueStays', TimerCoversStore'
  PROVE  Steps
<1>1. PICK n : n = created + 1
  OBVIOUS
<1>2. /\ n \in RunId /\ created' = n /\ created' \in 0..MaxCreated
      /\ of' \in [RunId -> Schedules \cup {Null}]
      /\ trigger' \in [RunId -> {"none", "scheduled", "manual"}]
      /\ scheduledFor' \in [RunId -> Time]
      /\ status' \in [RunId -> Status] /\ lastStatus' \in [Schedules -> Status]
      /\ of'[n] = s /\ trigger'[n] = trig /\ scheduledFor'[n] = for /\ status'[n] = st
      /\ \A r \in RunId \ {n} :
           /\ of'[r] = of[r] /\ trigger'[r] = trigger[r]
           /\ scheduledFor'[r] = scheduledFor[r]
           /\ status'[r] = status[r] \/ (status'[r] = "evicted" /\ status[r] # "none")
      /\ lastStatus'[s] = st
      /\ \A x \in Schedules \ {s} : lastStatus'[x] = lastStatus[x]
  BY <1>1, RecordAdded
<1>3. /\ created \in Nat /\ n > created /\ \A r \in RunId : r \in Nat
      /\ \A r \in RunId \ {n} : /\ r > n => r > created
                                /\ ~(r > n) => ~(r > created)
  BY <1>1, BoundsInNat DEF IInv, TypeOK, RunId
<1>4. status[n] = "none" /\ pc[n] = "idle" /\ dialogs[n] = {} /\ trigger[n] = "none"
  BY <1>2, <1>3 DEF IInv, Numbered
<1>5. /\ UNCHANGED <<clock, used, up, ticking, dialogs, closed, editing, edits, restarts>>
      /\ pc' \in [RunId -> {"idle", "start", "settings", "prompt", "parked", "over"}]
      /\ pc'[n] = IF st = "running" THEN "start" ELSE "idle"
      /\ \A r \in RunId \ {n} : pc'[r] = pc[r]
  BY <1>1, <1>2, <1>4 DEF bounds, IInv, TypeOK
<1>6. s \in used /\ \A x \in Schedules : Exists(x)' <=> Exists(x)
  BY DEF IInv, Defined, Exists
<1>7. TypeOK'
  BY <1>2, <1>5 DEF IInv, TypeOK
<1>8. Numbered'
  <2>1. ASSUME NEW r \in RunId, r # n
        PROVE  /\ r > created' =>
                    /\ status'[r] = "none" /\ of'[r] = Null /\ trigger'[r] = "none"
                    /\ pc'[r] = "idle"
               /\ r <= created' => status'[r] # "none" /\ of'[r] \in used'
                                   /\ scheduledFor'[r] \in Nat
               /\ pc'[r] \in {"idle", "start", "over"} => dialogs'[r] = {}
    <3>1. r \in Nat /\ n \in Nat /\ (r > n => r > created) /\ (r <= n => r <= created)
      BY <1>1, <1>3, <2>1
    <3> QED  BY <1>2, <1>5, <2>1, <3>1 DEF IInv, Numbered
  <2>2. /\ ~(n > created') /\ status'[n] # "none" /\ of'[n] \in used'
        /\ scheduledFor'[n] \in Nat /\ dialogs'[n] = {}
    BY <1>2, <1>3, <1>4, <1>5, <1>6
  <2> QED  BY <2>1, <2>2 DEF Numbered
<1>9. Defined'
  BY <1>2, <1>5, <1>6 DEF IInv, Defined
<1>10. Down'
  BY <1>5 DEF Down
<1>11. \A r \in RunId \ {n} : trigger[r] = "scheduled" => of[r] \in Schedules
  <2>1. \A r \in RunId : r > created \/ r <= created
    BY <1>3
  <2> QED  BY <2>1 DEF IInv, Numbered, TypeOK
<1>12. \A x \in Schedules : next[x] \in Nat \cup {Null} /\ next'[x] \in Nat \cup {Null}
  BY DEF IInv, TypeOK, Time
<1>13. ASSUME NEW r \in RunId \ {n}, trigger[r] = "scheduled"
       PROVE  /\ scheduledFor[r] <= clock /\ scheduledFor[r] \in Nat
              /\ next[of[r]] # Null => scheduledFor[r] < next[of[r]]
              /\ next'[of[r]] # Null => scheduledFor[r] < next'[of[r]]
  <2>1. of[r] \in Schedules /\ scheduledFor[r] \in Nat
    <3>1. r <= created
      BY <1>3, <1>13 DEF IInv, Numbered
    <3> QED  BY <1>11, <1>13, <3>1 DEF IInv, Numbered
  <2>2. /\ scheduledFor[r] <= clock
        /\ next[of[r]] # Null => scheduledFor[r] < next[of[r]]
    BY <1>13 DEF IInv, Past
  <2>3. next'[of[r]] # Null => scheduledFor[r] < next'[of[r]]
    <3>1. CASE of[r] = s
      BY <1>12, <2>1, <2>2, <3>1, ClockAssumption
    <3>2. CASE of[r] # s
      BY <2>1, <2>2, <3>2
    <3> QED  BY <3>1, <3>2
  <2> QED  BY <2>1, <2>2, <2>3
<1>14. Past'
  <2>1. ASSUME NEW r \in RunId, trigger'[r] = "scheduled"
        PROVE  /\ scheduledFor'[r] <= clock'
               /\ next'[of'[r]] # Null => scheduledFor'[r] < next'[of'[r]]
    <3>1. CASE r = n
      BY <1>2, <1>5, <2>1, <3>1
    <3>2. CASE r # n
      BY <1>2, <1>5, <1>13, <2>1, <3>2
    <3> QED  BY <3>1, <3>2
  <2> QED  BY <2>1 DEF Past
<1>15. OccurrenceOnce'
  <2>1. ASSUME NEW q \in RunId \ {n}, trigger[q] = "scheduled", trig = "scheduled",
               of[q] = s
        PROVE  scheduledFor[q] # for
    BY <1>13, <2>1, ClockAssumption
  <2>2. ASSUME NEW q \in RunId, NEW r \in RunId, q # r,
               trigger'[q] = "scheduled", trigger'[r] = "scheduled", of'[q] = of'[r]
        PROVE  scheduledFor'[q] # scheduledFor'[r]
    <3>0. of'[n] = s /\ trigger'[n] = trig /\ scheduledFor'[n] = for
      BY <1>2
    <3>1. CASE q = n
      <4>1. /\ r \in RunId \ {n} /\ of[r] = of'[r] /\ trigger[r] = trigger'[r]
            /\ scheduledFor'[r] = scheduledFor[r]
        BY <1>2, <2>2, <3>1
      <4> QED  BY <2>1, <2>2, <3>0, <3>1, <4>1
    <3>2. CASE r = n
      <4>1. /\ q \in RunId \ {n} /\ of[q] = of'[q] /\ trigger[q] = trigger'[q]
            /\ scheduledFor'[q] = scheduledFor[q]
        BY <1>2, <2>2, <3>2
      <4> QED  BY <2>1, <2>2, <3>0, <3>2, <4>1
    <3>3. CASE q # n /\ r # n
      BY <1>2, <2>2, <3>3 DEF IInv, OccurrenceOnce
    <3> QED  BY <3>1, <3>2, <3>3
  <2> QED  BY <2>2 DEF OccurrenceOnce
<1>16. ActiveRecordIsLive'
  <2>1. ASSUME NEW r \in RunId \ {n}, r \in Stored(status')
        PROVE  status'[r] \in Active <=> Live(r)'
    <3>1. status'[r] = status[r] /\ r \in Stored(status)
      BY <1>2, <2>1 DEF Stored
    <3> QED  BY <1>5, <3>1 DEF IInv, ActiveRecordIsLive, Live
  <2>2. status'[n] \in Active <=> Live(n)'
    BY <1>2, <1>5 DEF Live, Active
  <2>3. \A r \in RunId : r \in Stored(status') => (status'[r] \in Active <=> Live(r)')
    BY <2>1, <2>2
  <2> QED  BY <2>3 DEF ActiveRecordIsLive, Stored
<1>17. OneActiveRecord'
  <2>1. \A r \in RunId \ {n} : status'[r] \in Active => status[r] \in Active
    BY <1>2 DEF Active
  <2>2. ASSUME NEW r \in RunId \ {n}, status'[r] \in Active, status'[n] \in Active
        PROVE  of'[r] # of'[n]
    BY <1>2, <2>1, <2>2 DEF HasActiveRun, Active
  <2> QED  BY <1>2, <2>1, <2>2 DEF IInv, OneActiveRecord
<1>18. DialogStatus'
  <2>1. ASSUME NEW r \in RunId \ {n}, r \in Stored(status'), Live(r)'
        PROVE  status'[r] = "waiting_for_input" <=> dialogs'[r] # {}
    <3>1. status'[r] = status[r] /\ r \in Stored(status) /\ Live(r)
      BY <1>2, <1>5, <2>1 DEF Stored, Live
    <3> QED  BY <1>5, <3>1 DEF IInv, DialogStatus
  <2>2. status'[n] # "waiting_for_input" /\ dialogs'[n] = {}
    BY <1>2, <1>4, <1>5
  <2>3. \A r \in RunId : r \in Stored(status') /\ Live(r)' =>
          (status'[r] = "waiting_for_input" <=> dialogs'[r] # {})
    BY <2>1, <2>2
  <2> QED  BY <2>3 DEF DialogStatus, Stored
<1>19. LastStatusHonest'
  <2> SUFFICES ASSUME NEW x \in Schedules, lastStatus'[x] \in Active
               PROVE  \E q \in RunId : of'[q] = x /\ status'[q] \in Active \cup {"evicted"}
    BY DEF LastStatusHonest, HasActiveRun
  <2>1. CASE x = s
    BY <1>2, <2>1
  <2>2. CASE x # s
    <3>1. PICK q \in RunId : of[q] = x /\ status[q] \in Active \cup {"evicted"}
      BY <1>2, <2>2 DEF IInv, LastStatusHonest, HasActiveRun
    <3>2. q # n
      BY <1>4, <3>1 DEF Active
    <3> QED  BY <1>2, <3>1, <3>2
  <2> QED  BY <2>1, <2>2
<1>20. FinishedKept /\ MissedSkipped
  <2>1. \A r \in RunId \ {n} : status[r] = "none" => status'[r] = "none"
    BY <1>2
  <2>2. status[n] \notin Finished
    BY <1>4 DEF Finished
  <2> QED  BY <1>2, <2>1, <2>2 DEF FinishedKept, MissedSkipped
<1> QED  BY <1>7, <1>8, <1>9, <1>10, <1>14, <1>15, <1>16, <1>17, <1>18, <1>19, <1>20
         DEF Steps, IInv

-----------------------------------------------------------------------------
\* Steps that touch no run

LEMMA ScheduleKeeps ==
  ASSUME IInv, UNCHANGED <<records, status, memory, up>>, TypeOK', Defined', Down',
         DueStays', TimerCoversStore', used \subseteq used', clock <= clock',
         \A x \in Schedules : lastStatus'[x] \in {lastStatus[x], "none"},
         \A r \in RunId : trigger[r] = "scheduled" /\ next'[of[r]] # Null =>
           scheduledFor[r] < next'[of[r]]
  PROVE  Steps
<1>1. UNCHANGED <<created, of, trigger, scheduledFor, status, pc, dialogs, closed, up>>
  BY DEF records, memory
<1>2. Numbered' /\ OccurrenceOnce' /\ OneActiveRecord'
  BY <1>1 DEF IInv, Numbered, OccurrenceOnce, OneActiveRecord
<1>3. ActiveRecordIsLive' /\ DialogStatus'
  BY <1>1 DEF IInv, ActiveRecordIsLive, DialogStatus, Live, Stored
<1>4. Past'
  <2>1. ASSUME NEW r \in RunId, trigger[r] = "scheduled"  PROVE scheduledFor[r] <= clock'
    <3>1. scheduledFor[r] <= clock /\ clock \in Nat /\ clock' \in Nat
      BY <2>1 DEF IInv, TypeOK, Past
    <3>2. scheduledFor[r] \in Nat
      <4>1. created \in Nat /\ r \in Nat /\ ~(r > created)
        BY <2>1, BoundsInNat DEF IInv, TypeOK, Numbered
      <4> QED  BY <4>1 DEF IInv, Numbered
    <3> QED  BY <3>1, <3>2
  <2> QED  BY <1>1, <2>1 DEF Past
<1>5. LastStatusHonest'
  BY <1>1 DEF IInv, LastStatusHonest, HasActiveRun, Active
<1>6. FinishedKept /\ MissedSkipped
  BY <1>1 DEF FinishedKept, MissedSkipped
<1> QED  BY <1>2, <1>3, <1>4, <1>5, <1>6 DEF Steps, IInv

\* A run of a recorded occurrence has a schedule that was created.
LEMMA ScheduledOf ==
  ASSUME IInv, NEW r \in RunId, trigger[r] = "scheduled"
  PROVE  /\ of[r] \in used /\ of[r] \in Schedules /\ scheduledFor[r] \in Nat
         /\ scheduledFor[r] <= clock
         /\ next[of[r]] # Null => scheduledFor[r] < next[of[r]]
<1>1. created \in Nat /\ r \in Nat /\ ~(r > created)
  BY BoundsInNat DEF IInv, TypeOK, Numbered
<1> QED  BY <1>1 DEF IInv, Numbered, TypeOK, Past

\* The timer set by reschedule() covers the store.
LEMMA ArmedCovers ==
  ASSUME NEW n \in [Schedules -> Time], NEW d, clock \in Nat, clock' = clock,
         def' = d, next' = n, timer' = Rescheduled(d, n)
  PROVE  TimerCoversStore' /\ timer' \in Time
BY RescheduledCovers DEF TimerCoversStore

LEMMA CreateStep ==
  ASSUME IInv, NEW s \in Schedules, NEW d \in Definition, Create(s, d)
  PROVE  Steps
<1>1. /\ Idle /\ s \notin used
      /\ def' = [def EXCEPT ![s] = d] /\ used' = used \cup {s}
      /\ next' = [next EXCEPT ![s] = InitialNext(d)]
      /\ timer' = Rescheduled(def', next')
      /\ UNCHANGED <<clock, lastStatus, records, status, up, ticking, due, memory,
                     editing, bounds>>
  BY DEF Create
<1>2. clock \in Nat /\ InitialNext(d) \in Time
  BY OccurrenceIsLater DEF IInv, TypeOK, InitialNext, Time
<1>3. next' \in [Schedules -> Time] /\ d # Absent
  BY <1>1, <1>2 DEF IInv, TypeOK, Definition, Absent
<1>4. TimerCoversStore' /\ timer' \in Time
  BY <1>1, <1>2, <1>3, ArmedCovers
<1>5. TypeOK'
  BY <1>1, <1>3, <1>4 DEF IInv, TypeOK, records, memory, bounds
<1>6. Defined'
  BY <1>1, <1>3 DEF IInv, TypeOK, Defined, Exists
<1>7. Down' /\ DueStays'
  BY <1>1 DEF Down, DueStays, Idle
<1>8. \A r \in RunId : trigger[r] = "scheduled" /\ next'[of[r]] # Null =>
        scheduledFor[r] < next'[of[r]]
  BY <1>1, ScheduledOf DEF IInv, TypeOK
<1>9. clock <= clock'
  BY <1>1, <1>2
<1> QED  BY <1>1, <1>4, <1>5, <1>6, <1>7, <1>8, <1>9, ScheduleKeeps

LEMMA EditBeginsStep ==
  ASSUME IInv, NEW s \in Schedules, NEW d \in Definition, EditBegins(s, d)
  PROVE  Steps
<1>1. /\ Idle /\ edits < MaxEdits
      /\ editing' = [editing EXCEPT ![s] = d] /\ edits' = edits + 1
      /\ UNCHANGED <<clock, def, used, next, lastStatus, records, status, up, timer,
                     ticking, due, memory, restarts>>
  BY DEF EditBegins
<1>2. TypeOK'
  BY <1>1, StoreAssumption DEF IInv, TypeOK, records, memory
<1>3. Defined' /\ Down' /\ DueStays' /\ TimerCoversStore'
  BY <1>1 DEF IInv, Defined, Exists, Down, DueStays, TimerCoversStore, Idle
<1>4. \A r \in RunId : trigger[r] = "scheduled" /\ next'[of[r]] # Null =>
        scheduledFor[r] < next'[of[r]]
  BY <1>1, ScheduledOf
<1>5. clock <= clock'
  BY <1>1 DEF IInv, TypeOK
<1> QED  BY <1>1, <1>2, <1>3, <1>4, <1>5, ScheduleKeeps

LEMMA EditEndsStep ==
  ASSUME IInv, NEW s \in Schedules, EditEnds(s)
  PROVE  Steps
<1>1. PICK d : d = editing[s]
  OBVIOUS
<1>2. /\ Idle /\ d # Absent /\ d \in Definition
      /\ editing' = [editing EXCEPT ![s] = Absent]
      /\ \/ /\ Exists(s) /\ Acceptable(d)
            /\ def' = [def EXCEPT ![s] = d]
            /\ next' = [next EXCEPT ![s] = InitialNext(d)]
            /\ timer' = Rescheduled(def', next')
         \/ UNCHANGED <<def, next, timer>>
      /\ UNCHANGED <<clock, used, lastStatus, records, status, up, ticking, due,
                     memory, bounds>>
  BY <1>1 DEF EditEnds, IInv, TypeOK
<1>3. clock \in Nat /\ clock <= clock'
      /\ editing' \in [Schedules -> Definition \cup {Absent}]
  BY <1>2 DEF IInv, TypeOK
<1>4. Down' /\ DueStays'
  BY <1>2 DEF Down, DueStays, Idle
<1>5. CASE /\ Exists(s) /\ Acceptable(d)
           /\ def' = [def EXCEPT ![s] = d]
           /\ next' = [next EXCEPT ![s] = InitialNext(d)]
           /\ timer' = Rescheduled(def', next')
  <2>1. InitialNext(d) \in Time /\ (InitialNext(d) # Null => InitialNext(d) > clock)
    BY <1>2, <1>3, OccurrenceIsLater DEF InitialNext, Time
  <2>2. next' \in [Schedules -> Time]
        /\ def' \in [Schedules -> Definition \cup {Absent}]
    BY <1>2, <1>5, <2>1 DEF IInv, TypeOK
  <2>3. TimerCoversStore' /\ timer' \in Time
    BY <1>2, <1>3, <1>5, <2>2, ArmedCovers
  <2>4. TypeOK'
    BY <1>2, <1>3, <2>2, <2>3 DEF IInv, TypeOK, records, memory, bounds
  <2>5. Defined'
    BY <1>2, <1>5 DEF IInv, TypeOK, Defined, Exists
  <2>6. ASSUME NEW r \in RunId, trigger[r] = "scheduled", next'[of[r]] # Null
        PROVE  scheduledFor[r] < next'[of[r]]
    <3>1. /\ of[r] \in Schedules /\ scheduledFor[r] \in Nat /\ scheduledFor[r] <= clock
          /\ next[of[r]] # Null => scheduledFor[r] < next[of[r]]
      BY <2>6, ScheduledOf
    <3>2. next'[of[r]] = IF of[r] = s THEN InitialNext(d) ELSE next[of[r]]
      BY <1>5, <3>1 DEF IInv, TypeOK
    <3>3. InitialNext(d) \in Nat \/ InitialNext(d) = Null
      BY <2>1 DEF Time
    <3> QED  BY <1>3, <2>1, <2>6, <3>1, <3>2, <3>3
  <2> QED  BY <1>2, <1>3, <1>4, <2>3, <2>4, <2>5, <2>6, ScheduleKeeps
<1>6. CASE UNCHANGED <<def, next, timer>>
  <2>1. TypeOK'
    BY <1>2, <1>3, <1>6 DEF IInv, TypeOK, records, memory, bounds
  <2>2. Defined' /\ TimerCoversStore'
    BY <1>2, <1>6 DEF IInv, Defined, Exists, TimerCoversStore, Idle
  <2>3. \A r \in RunId : trigger[r] = "scheduled" /\ next'[of[r]] # Null =>
          scheduledFor[r] < next'[of[r]]
    BY <1>6, ScheduledOf
  <2> QED  BY <1>2, <1>3, <1>4, <2>1, <2>2, <2>3, ScheduleKeeps
<1> QED  BY <1>2, <1>5, <1>6

LEMMA DeleteStep ==
  ASSUME IInv, NEW s \in Schedules, Delete(s)
  PROVE  Steps
<1>1. /\ Idle
      /\ def' = [def EXCEPT ![s] = Absent]
      /\ next' = [next EXCEPT ![s] = Null]
      /\ lastStatus' = [lastStatus EXCEPT ![s] = "none"]
      /\ timer' = Rescheduled(def', next')
      /\ UNCHANGED <<clock, used, records, status, up, ticking, due, memory, editing,
                     bounds>>
  BY DEF Delete
<1>2. clock \in Nat /\ clock <= clock' /\ next' \in [Schedules -> Time]
  BY <1>1 DEF IInv, TypeOK, Time
<1>3. TimerCoversStore' /\ timer' \in Time
  BY <1>1, <1>2, ArmedCovers
<1>4. TypeOK'
  <2>1. lastStatus' \in [Schedules -> Status]
    BY <1>1 DEF IInv, TypeOK, Status
  <2>2. def' \in [Schedules -> Definition \cup {Absent}]
    BY <1>1 DEF IInv, TypeOK
  <2> QED  BY <1>1, <1>2, <1>3, <2>1, <2>2 DEF IInv, TypeOK, records, memory, bounds
<1>5. Defined'
  BY <1>1 DEF IInv, TypeOK, Defined, Exists
<1>6. Down' /\ DueStays'
  BY <1>1 DEF Down, DueStays, Idle
<1>7. \A r \in RunId : trigger[r] = "scheduled" /\ next'[of[r]] # Null =>
        scheduledFor[r] < next'[of[r]]
  BY <1>1, ScheduledOf DEF IInv, TypeOK
<1>8. \A x \in Schedules : lastStatus'[x] \in {lastStatus[x], "none"}
  BY <1>1 DEF IInv, TypeOK
<1> QED  BY <1>1, <1>2, <1>3, <1>4, <1>5, <1>6, <1>7, <1>8, ScheduleKeeps

LEMMA ClockStep ==
  ASSUME IInv, ClockTicks
  PROVE  Steps
<1>1. /\ ~ticking /\ clock < MaxTime /\ clock' = clock + 1
      /\ UNCHANGED <<def, used, next, lastStatus, records, status, up, timer,
                     ticking, due, memory, editing, bounds>>
  BY DEF ClockTicks
<1>2. clock \in Nat /\ clock' \in Nat /\ clock <= clock' /\ TypeOK'
  BY <1>1, ClockAssumption DEF IInv, TypeOK, records, memory, bounds
<1>3. Defined' /\ Down' /\ DueStays'
  BY <1>1 DEF IInv, Defined, Exists, Down, DueStays, memory
<1>4. TimerCoversStore'
  <2> SUFFICES ASSUME Idle, NEW s \in Schedules, def[s].enabled, next[s] # Null
               PROVE  timer # Null /\ timer <= Max({next[s], clock'})
    BY <1>1 DEF TimerCoversStore, Idle
  <2>1. timer # Null /\ timer \in Nat /\ next[s] \in Nat
        /\ timer <= Max({next[s], clock})
    BY DEF IInv, TypeOK, Time, TimerCoversStore
  <2>2. /\ Max({next[s], clock}) \in {next[s], clock}
        /\ next[s] <= Max({next[s], clock'}) /\ clock' <= Max({next[s], clock'})
        /\ Max({next[s], clock'}) \in Nat
    BY <1>2, <2>1, LargerOfTwo
  <2> HIDE DEF Max
  <2> QED  BY <1>1, <1>2, <2>1, <2>2
<1>5. \A r \in RunId : trigger[r] = "scheduled" /\ next'[of[r]] # Null =>
        scheduledFor[r] < next'[of[r]]
  BY <1>1, ScheduledOf
<1> QED  BY <1>1, <1>2, <1>3, <1>4, <1>5, ScheduleKeeps

LEMMA TickBeginsStep ==
  ASSUME IInv, Idle, TickBegins
  PROVE  Steps
<1>1. /\ ticking' = TRUE
      /\ due' = {s \in Schedules : /\ def[s].enabled /\ next[s] # Null
                                   /\ next[s] <= clock}
      /\ UNCHANGED <<clock, def, used, next, lastStatus, records, status, up, timer,
                     memory, editing, bounds>>
  BY DEF TickBegins
<1>2. TypeOK' /\ clock <= clock'
  BY <1>1 DEF IInv, TypeOK, records, memory, bounds
<1>3. Defined' /\ Down' /\ DueStays' /\ TimerCoversStore'
  BY <1>1 DEF IInv, Defined, Exists, Down, DueStays, TimerCoversStore, Idle
<1>4. \A r \in RunId : trigger[r] = "scheduled" /\ next'[of[r]] # Null =>
        scheduledFor[r] < next'[of[r]]
  BY <1>1, ScheduledOf
<1> QED  BY <1>1, <1>2, <1>3, <1>4, ScheduleKeeps

LEMMA TickEndsStep ==
  ASSUME IInv, TickEnds
  PROVE  Steps
<1>1. /\ ticking /\ ticking' = FALSE /\ timer' = Rescheduled(def, next)
      /\ UNCHANGED <<clock, def, used, next, lastStatus, records, status, up, due,
                     memory, editing, bounds>>
  BY DEF TickEnds
<1>2. clock \in Nat /\ clock <= clock' /\ next \in [Schedules -> Time]
  BY <1>1 DEF IInv, TypeOK
<1>3. TimerCoversStore' /\ timer' \in Time
  BY <1>1, <1>2, ArmedCovers
<1>4. TypeOK'
  BY <1>1, <1>3 DEF IInv, TypeOK, records, memory, bounds
<1>5. Defined' /\ Down' /\ DueStays'
  BY <1>1 DEF IInv, Defined, Exists, Down, DueStays, memory
<1>6. \A r \in RunId : trigger[r] = "scheduled" /\ next'[of[r]] # Null =>
        scheduledFor[r] < next'[of[r]]
  BY <1>1, ScheduledOf
<1> QED  BY <1>1, <1>2, <1>3, <1>4, <1>5, <1>6, ScheduleKeeps

-----------------------------------------------------------------------------
\* Steps that add a record

LEMMA RunNowStep ==
  ASSUME IInv, NEW s \in Schedules, RunNow(s)
  PROVE  Steps
<1>1. /\ Idle /\ up /\ Exists(s) /\ ~HasActiveRun(s)
      /\ AddRun(s, "manual", clock, "running")
      /\ pc' = [pc EXCEPT ![created + 1] = "start"]
      /\ timer' = Rescheduled(def, next)
      /\ UNCHANGED <<clock, def, used, next, up, ticking, due, dialogs, closed,
                     editing, bounds>>
  BY DEF RunNow, StartRun, Idle
<1>2. /\ clock \in Nat /\ next \in [Schedules -> Time] /\ due \subseteq Schedules
      /\ def \in [Schedules -> Definition \cup {Absent}]
  BY DEF IInv, TypeOK
<1>3. TimerCoversStore' /\ timer' \in Time
  BY <1>1, <1>2, ArmedCovers
<1>4. DueStays'
  BY <1>1 DEF DueStays, Idle
<1>5. next'[s] # Null => next[s] # Null /\ next[s] <= next'[s]
  BY <1>1, <1>2 DEF Time
<1>6. def'[s] # Absent /\ clock <= clock
  BY <1>1, <1>2 DEF Exists
<1>7. /\ next' \in [Schedules -> Time] /\ due' \subseteq Schedules
      /\ def' \in [Schedules -> Definition \cup {Absent}]
      /\ UNCHANGED <<clock, used, up, ticking, dialogs, closed, editing, bounds>>
      /\ \A x \in Schedules \ {s} : def'[x] = def[x] /\ next'[x] = next[x]
  BY <1>1, <1>2
<1> HIDE DEF Exists
<1> QED  BY <1>1, <1>2, <1>3, <1>4, <1>5, <1>6, <1>7, AddKeeps

LEMMA TickRoundStep ==
  ASSUME IInv, NEW s \in Schedules, TickRound(s)
  PROVE  Steps
<1>1. /\ ticking /\ s \in due /\ due' = due \ {s} /\ Advanced(s)
      /\ UNCHANGED <<clock, used, up, timer, ticking, dialogs, closed, editing, bounds>>
      /\ \/ AddRun(s, "scheduled", next[s], "skipped") /\ UNCHANGED pc
         \/ /\ ~(Missed(s) /\ def[s].policy = "skip") /\ ~HasActiveRun(s)
            /\ AddRun(s, "scheduled", next[s], "running")
            /\ pc' = [pc EXCEPT ![created + 1] = "start"]
  BY DEF TickRound, Skip, StartRun
<1>2. /\ clock \in Nat /\ next \in [Schedules -> Time] /\ due \subseteq Schedules
      /\ def \in [Schedules -> Definition \cup {Absent}] /\ timer \in Time
  BY DEF IInv, TypeOK
<1>3. def[s].enabled /\ next[s] # Null /\ next[s] <= clock /\ next[s] \in Nat
  BY <1>1, <1>2 DEF IInv, DueStays, Time
<1>4. def[s] \in Definition /\ def[s] # Absent /\ Exists(s)
  BY <1>2, <1>3 DEF Absent, Exists
<1>5. NextAfterExecution(def[s]) \in Time
      /\ (NextAfterExecution(def[s]) # Null => NextAfterExecution(def[s]) > clock)
  BY <1>2, <1>4, OccurrenceIsLater DEF NextAfterExecution, Time
<1>6. next' = [next EXCEPT ![s] = NextAfterExecution(def[s])]
      /\ def' = IF def[s].kind = "once" THEN [def EXCEPT ![s].enabled = FALSE] ELSE def
  BY <1>1 DEF Advanced
<1>7. /\ next' \in [Schedules -> Time]
      /\ def' \in [Schedules -> Definition \cup {Absent}] /\ def'[s] # Absent
      /\ \A x \in Schedules \ {s} : def'[x] = def[x] /\ next'[x] = next[x]
  <2>1. [def[s] EXCEPT !.enabled = FALSE] \in Definition
    BY <1>4 DEF Definition
  <2>2. \A d \in Definition : d # Absent
    BY DEF Definition, Absent
  <2>3. def' = IF def[s].kind = "once"
               THEN [def EXCEPT ![s] = [def[s] EXCEPT !.enabled = FALSE]] ELSE def
    BY <1>6
  <2>4. next' \in [Schedules -> Time]
        /\ \A x \in Schedules \ {s} : next'[x] = next[x]
    BY <1>2, <1>5, <1>6
  <2>5. def'[s] \in Definition /\ def' \in [Schedules -> Definition \cup {Absent}]
        /\ \A x \in Schedules \ {s} : def'[x] = def[x]
    <3>1. CASE def[s].kind = "once"
      <4>1. PICK e \in Definition : e = [def[s] EXCEPT !.enabled = FALSE]
        BY <2>1
      <4>2. def' = [def EXCEPT ![s] = e]
        BY <2>3, <3>1, <4>1
      <4> QED  BY <1>2, <4>1, <4>2
    <3>2. CASE def[s].kind # "once"
      BY <1>2, <1>4, <2>3, <3>2
    <3> QED  BY <3>1, <3>2
  <2> QED  BY <2>2, <2>4, <2>5
<1>8. next'[s] # Null => next[s] # Null /\ next[s] <= next'[s] /\ next[s] < next'[s]
  <2>1. next'[s] = NextAfterExecution(def[s])
    BY <1>2, <1>6
  <2>2. NextAfterExecution(def[s]) \in Nat \/ NextAfterExecution(def[s]) = Null
    BY <1>5 DEF Time
  <2> QED  BY <1>2, <1>3, <1>5, <2>1, <2>2
<1>9. DueStays'
  BY <1>1, <1>2, <1>7 DEF IInv, DueStays
<1>10. TimerCoversStore'
  BY <1>1 DEF TimerCoversStore, Idle
<1>11. up /\ due' \subseteq Schedules /\ timer' \in Time
  BY <1>1, <1>2 DEF IInv, Down
<1>12. \A st \in {"running", "skipped"} :
         AddRun(s, "scheduled", next[s], st)
         /\ pc' = (IF st = "running" THEN [pc EXCEPT ![created + 1] = "start"] ELSE pc)
         /\ (st = "running" => /\ ~HasActiveRun(s)
                               /\ (clock <= next[s] + Grace \/ def[s].policy = "run_once"))
         => Steps
  BY <1>1, <1>3, <1>4, <1>7, <1>8, <1>9, <1>10, <1>11, AddKeeps
<1>13. ~(Missed(s) /\ def[s].policy = "skip") =>
         clock <= next[s] + Grace \/ def[s].policy = "run_once"
  BY <1>2, <1>3, <1>4, ClockAssumption DEF Missed, Definition, Policy
<1> QED  BY <1>1, <1>12, <1>13

-----------------------------------------------------------------------------
\* Steps of a run

LEMMA ExecuteStep ==
  ASSUME IInv, NEW r \in RunId, Execute(r)
  PROVE  Steps
<1>1. /\ TypeOK
      /\ pc \in [RunId -> {"idle", "start", "settings", "prompt", "parked", "over"}]
      /\ dialogs \in [RunId -> SUBSET Dialogs] /\ closed \subseteq RunId
      /\ status \in [RunId -> Status] /\ lastStatus \in [Schedules -> Status]
      /\ pc[r] \in {"idle", "start", "over"} => dialogs[r] = {}
  BY DEF IInv, TypeOK, Numbered
<1>2. ASSUME Idle, Live(r)
      PROVE  /\ of[r] \in Schedules
             /\ r \in Stored(status) =>
                  /\ status[r] \in Active
                  /\ status[r] = "waiting_for_input" <=> dialogs[r] # {}
  BY <1>2, LiveRun DEF IInv, DialogStatus, Idle, TypeOK
<1>3. CASE \/ ExecuteThrows(r) \/ KeepAliveFails(r) \/ Deadline(r)
           \/ \E st \in {"completed", "failed"} : AgentEnd(r, st)
  <2>1. PICK st \in Finished : Idle /\ Live(r) /\ Finish(r, st) /\ UNCHANGED store
    BY <1>3 DEF ExecuteThrows, KeepAliveFails, Deadline, AgentEnd, TimersArmed, Run,
                Live, Finished
  <2> QED  BY <2>1, FinishKeeps
<1>4. CASE SessionStarted(r)
  <2>1. /\ Idle /\ Live(r) /\ pc[r] = "start" /\ pc' = [pc EXCEPT ![r] = "settings"]
        /\ Update(r, "running") /\ UNCHANGED <<store, dialogs, closed>>
    BY <1>4 DEF SessionStarted, Run, Live
  <2>2. of[r] \in Schedules /\ dialogs[r] = {}
    BY <1>1, <1>2, <2>1
  <2>3. /\ status' \in [RunId -> Status] /\ lastStatus' \in [Schedules -> Status]
        /\ \A q \in RunId \ {r} : status'[q] = status[q]
        /\ status'[r] = IF r \in Stored(status) THEN "running" ELSE status[r]
        /\ \A s \in Schedules :
             \/ lastStatus'[s] = lastStatus[s]
             \/ /\ s = of[r] /\ r \in Stored(status) /\ Exists(s)
                /\ lastStatus'[s] = "running"
    <3>1. "running" \in Active \cup Finished
      BY DEF Active
    <3> QED  BY <1>1, <2>1, <2>2, <3>1, Updated
  <2>4. /\ pc' \in [RunId -> {"idle", "start", "settings", "prompt", "parked", "over"}]
        /\ pc'[r] = "settings" /\ \A q \in RunId \ {r} : pc'[q] = pc[q]
    BY <1>1, <2>1
  <2> QED  BY <1>1, <2>1, <2>2, <2>3, <2>4, RunKeeps DEF Active, Finished
<1>5. CASE SettingsApplied(r) \/ PromptReturns(r)
  <2>1. PICK at \in {"prompt", "parked"} :
          /\ Idle /\ Live(r) /\ pc' = [pc EXCEPT ![r] = at]
          /\ UNCHANGED <<store, status, lastStatus, dialogs, closed>>
    BY <1>5 DEF SettingsApplied, PromptReturns, Run, Live
  <2>2. r \in Stored(status) => /\ status[r] \in Active
                                /\ status[r] = "waiting_for_input" <=> dialogs[r] # {}
    BY <1>2, <2>1
  <2>3. /\ pc' \in [RunId -> {"idle", "start", "settings", "prompt", "parked", "over"}]
        /\ pc'[r] = at /\ \A q \in RunId \ {r} : pc'[q] = pc[q]
    BY <1>1, <2>1
  <2> QED  BY <1>1, <2>1, <2>2, <2>3, RunKeeps DEF Active, Finished
<1>6. CASE (\E d \in Dialogs : DialogOpened(r, d) \/ DialogClosed(r, d)) \/ SessionCloses(r)
  <2>1. PICK D \in SUBSET Dialogs, st \in Active :
          /\ Idle /\ Live(r) /\ dialogs' = [dialogs EXCEPT ![r] = D]
          /\ closed' \subseteq RunId /\ UNCHANGED <<store, pc>>
          /\ \/ Update(r, st) /\ (st = "waiting_for_input" <=> D # {})
             \/ UNCHANGED <<status, lastStatus>> /\ (D # {} <=> dialogs[r] # {})
          /\ pc[r] \in {"settings", "prompt", "parked"}
    <3>1. CASE \E d \in Dialogs : DialogOpened(r, d)
      <4>1. PICK d \in Dialogs : DialogOpened(r, d)
        BY <3>1
      <4>2. PICK D : D = dialogs[r] \cup {d}
        OBVIOUS
      <4>3. dialogs' = [dialogs EXCEPT ![r] = D] /\ D \in SUBSET Dialogs /\ D # {}
        <5>1. dialogs' = [dialogs EXCEPT ![r] = D]
          BY <4>1, <4>2 DEF DialogOpened
        <5>2. dialogs[r] \in SUBSET Dialogs
          BY <1>1
        <5> QED  BY <4>2, <5>1, <5>2
      <4> QED  BY <1>1, <4>1, <4>2, <4>3 DEF DialogOpened, Listening, Live, Active
    <3>2. CASE \E d \in Dialogs : DialogClosed(r, d)
      <4>1. PICK d \in Dialogs : DialogClosed(r, d)
        BY <3>2
      <4>2. PICK D \in SUBSET Dialogs : D = dialogs[r] \ {d}
        BY <1>1
      <4>3. dialogs' = [dialogs EXCEPT ![r] = D] /\ dialogs'[r] = D /\ dialogs[r] # {}
        BY <1>1, <4>1, <4>2 DEF DialogClosed
      <4> QED  BY <1>1, <4>1, <4>2, <4>3 DEF DialogClosed, Listening, Live, Active
    <3>3. CASE SessionCloses(r)
      BY <1>1, <3>3 DEF SessionCloses, Listening, Live, Active
    <3> QED  BY <1>6, <3>1, <3>2, <3>3
  <2>2. /\ of[r] \in Schedules
        /\ r \in Stored(status) => /\ status[r] \in Active
                                   /\ status[r] = "waiting_for_input" <=> dialogs[r] # {}
    BY <1>2, <2>1
  <2>3. /\ dialogs' \in [RunId -> SUBSET Dialogs] /\ dialogs'[r] = D
        /\ \A q \in RunId \ {r} : dialogs'[q] = dialogs[q]
        /\ UNCHANGED pc
    BY <1>1, <2>1
  <2>4. /\ status' \in [RunId -> Status] /\ lastStatus' \in [Schedules -> Status]
        /\ \A q \in RunId \ {r} : status'[q] = status[q]
        /\ r \notin Stored(status) => status'[r] = status[r]
        /\ r \in Stored(status) => /\ status'[r] \in Active
                                   /\ status'[r] = "waiting_for_input" <=> D # {}
        /\ \A s \in Schedules :
             \/ lastStatus'[s] = lastStatus[s]
             \/ /\ s = of[r] /\ r \in Stored(status) /\ Exists(s)
                /\ lastStatus'[s] = status'[r]
    <3>1. CASE Update(r, st) /\ (st = "waiting_for_input" <=> D # {})
      <4>1. /\ status' \in [RunId -> Status] /\ lastStatus' \in [Schedules -> Status]
            /\ \A q \in RunId \ {r} : status'[q] = status[q]
            /\ status'[r] = IF r \in Stored(status) THEN st ELSE status[r]
            /\ \A s \in Schedules :
                 \/ lastStatus'[s] = lastStatus[s]
                 \/ /\ s = of[r] /\ r \in Stored(status) /\ Exists(s)
                    /\ lastStatus'[s] = st
        BY <1>1, <2>2, <3>1, Updated
      <4> QED  BY <3>1, <4>1
    <3>2. CASE UNCHANGED <<status, lastStatus>> /\ (D # {} <=> dialogs[r] # {})
      BY <1>1, <2>2, <3>2
    <3> QED  BY <2>1, <3>1, <3>2
  <2>5. /\ pc' \in [RunId -> {"idle", "start", "settings", "prompt", "parked", "over"}]
        /\ pc'[r] \in {"settings", "prompt", "parked"}
        /\ \A q \in RunId \ {r} : pc'[q] = pc[q]
    BY <1>1, <2>1
  <2>6. \A a \in Active : a \notin Finished
    BY DEF Active, Finished
  <2> QED  BY <2>1, <2>3, <2>4, <2>5, <2>6, RunKeeps
<1> QED  BY <1>3, <1>4, <1>5, <1>6 DEF Execute

-----------------------------------------------------------------------------
\* Crashes and starts

LEMMA CrashStep ==
  ASSUME IInv, Crash
  PROVE  Steps
<1>1. /\ restarts < MaxRestarts /\ up' = FALSE /\ restarts' = restarts + 1
      /\ timer' = Null /\ ticking' = FALSE /\ due' = {}
      /\ pc' = [r \in RunId |-> "idle"]
      /\ dialogs' = [r \in RunId |-> {}] /\ closed' = {}
      /\ editing' = [s \in Schedules |-> Absent]
      /\ UNCHANGED <<clock, def, used, next, lastStatus, created, of, trigger,
                     scheduledFor, status, edits>>
  BY DEF Crash, records
<1>2. TypeOK'
  <2>1. restarts' \in 0..MaxRestarts
    BY <1>1, StoreAssumption DEF IInv, TypeOK
  <2>2. /\ pc' \in [RunId -> {"idle", "start", "settings", "prompt", "parked", "over"}]
        /\ dialogs' \in [RunId -> SUBSET Dialogs]
        /\ editing' \in [Schedules -> Definition \cup {Absent}]
        /\ timer' \in Time
    BY <1>1 DEF Time
  <2> QED  BY <1>1, <2>1, <2>2 DEF IInv, TypeOK
<1>3. Numbered' /\ Defined' /\ Down' /\ DueStays' /\ Past'
  BY <1>1 DEF IInv, Numbered, Defined, Exists, Down, DueStays, Past
<1>4. ActiveRecordIsLive' /\ OneActiveRecord' /\ OccurrenceOnce' /\ TimerCoversStore'
  BY <1>1 DEF IInv, ActiveRecordIsLive, OneActiveRecord, OccurrenceOnce,
              TimerCoversStore, Idle
<1>5. DialogStatus'
  <2>1. \A r \in RunId : pc'[r] = "idle"
    BY <1>1
  <2>2. \A r \in RunId : ~Live(r)'
    BY <2>1 DEF Live
  <2> QED  BY <2>2 DEF DialogStatus, Stored
<1>6. LastStatusHonest'
  BY <1>1 DEF IInv, LastStatusHonest, HasActiveRun
<1>7. FinishedKept /\ MissedSkipped
  BY <1>1 DEF FinishedKept, MissedSkipped
<1> QED  BY <1>2, <1>3, <1>4, <1>5, <1>6, <1>7 DEF Steps, IInv

LEMMA StartStep ==
  ASSUME IInv, Start
  PROVE  Steps
<1>1. /\ ~up /\ up' = TRUE
      /\ status' = [r \in RunId |-> IF status[r] \in Active THEN "failed" ELSE status[r]]
      /\ lastStatus' = [s \in Schedules |->
                          IF Exists(s) /\ (\E r \in RunId : status[r] \in Active /\ of[r] = s)
                          THEN "failed" ELSE lastStatus[s]]
      /\ timer' = Rescheduled(def, next)
      /\ UNCHANGED <<clock, def, used, next, created, of, trigger, scheduledFor,
                     ticking, due, pc, dialogs, closed, editing, edits, restarts>>
  BY DEF Start, records, memory, bounds
<1>2. /\ clock \in Nat /\ next \in [Schedules -> Time] /\ ~ticking
      /\ \A r \in RunId : pc[r] = "idle"
  BY <1>1 DEF IInv, TypeOK, Down
<1>3. TimerCoversStore' /\ timer' \in Time
  BY <1>1, <1>2, ArmedCovers
<1>4. status' \in [RunId -> Status] /\ lastStatus' \in [Schedules -> Status]
  BY <1>1 DEF IInv, TypeOK, Status, Finished
<1>5. TypeOK'
  BY <1>1, <1>3, <1>4 DEF IInv, TypeOK
<1>6. \A r \in RunId : /\ status'[r] \notin Active
                       /\ status[r] \notin Active => status'[r] = status[r]
                       /\ status'[r] = "none" <=> status[r] = "none"
  <2> SUFFICES ASSUME NEW r \in RunId
               PROVE  /\ status'[r] \notin Active
                      /\ status[r] \notin Active => status'[r] = status[r]
                      /\ status'[r] = "none" <=> status[r] = "none"
    OBVIOUS
  <2>1. status'[r] = IF status[r] \in Active THEN "failed" ELSE status[r]
    BY <1>1
  <2> QED  BY <2>1 DEF Active
<1>7. Numbered'
  <2>1. \A r \in RunId : status[r] = "none" => status'[r] = "none"
    BY <1>6 DEF Active
  <2> QED  BY <1>1, <1>6, <2>1 DEF IInv, Numbered
<1>8. Defined'
  BY <1>1 DEF IInv, Defined, Exists
<1>9. Down' /\ DueStays' /\ Past' /\ OccurrenceOnce'
  BY <1>1, <1>2 DEF IInv, Down, DueStays, Past, OccurrenceOnce
<1>10. ActiveRecordIsLive' /\ OneActiveRecord' /\ DialogStatus'
  <2>1. \A r \in RunId : pc'[r] = "idle"
    BY <1>1, <1>2
  <2>2. \A r \in RunId : ~Live(r)'
    BY <2>1 DEF Live
  <2> QED  BY <1>6, <2>2 DEF ActiveRecordIsLive, OneActiveRecord, DialogStatus, Stored
<1>11. LastStatusHonest'
  <2> SUFFICES ASSUME NEW s \in Schedules, lastStatus'[s] \in Active
               PROVE  \E q \in RunId : of[q] = s /\ status'[q] = "evicted"
    BY <1>1 DEF LastStatusHonest
  <2>1. lastStatus'[s] = lastStatus[s] /\ lastStatus[s] \in Active
    BY <1>1 DEF Active
  <2>2. Exists(s)
    BY <2>1 DEF IInv, Defined, Active
  <2>3. ~\E q \in RunId : status[q] \in Active /\ of[q] = s
    BY <1>1, <2>1, <2>2 DEF Active
  <2>4. PICK q \in RunId : of[q] = s /\ status[q] = "evicted"
    BY <2>1, <2>3 DEF IInv, LastStatusHonest, HasActiveRun
  <2>5. status[q] \notin Active
    BY <2>4 DEF Active
  <2> QED  BY <1>6, <2>4, <2>5
<1>12. FinishedKept /\ MissedSkipped
  <2>1. \A st \in Finished : st \notin Active
    BY DEF Active, Finished
  <2>2. \A r \in RunId : status[r] \in Finished => status'[r] = status[r]
    BY <1>6, <2>1
  <2>3. \A r \in RunId : status'[r] # "running"
    BY <1>6 DEF Active
  <2> QED  BY <2>2, <2>3 DEF FinishedKept, MissedSkipped
<1> QED  BY <1>3, <1>5, <1>7, <1>8, <1>9, <1>10, <1>11, <1>12 DEF Steps, IInv

-----------------------------------------------------------------------------
\* The specification

LEMMA InitInv == Init => IInv
<1> SUFFICES ASSUME Init  PROVE IInv
  OBVIOUS
<1>1. TypeOK
  <2>1. clock \in 0..MaxTime /\ created \in 0..MaxCreated /\ edits \in 0..MaxEdits
        /\ restarts \in 0..MaxRestarts
    BY ClockAssumption, StoreAssumption DEF Init
  <2>2. /\ def \in [Schedules -> Definition \cup {Absent}]
        /\ next \in [Schedules -> Time] /\ lastStatus \in [Schedules -> Status]
        /\ editing \in [Schedules -> Definition \cup {Absent}]
    BY DEF Init, Time, Status
  <2>3. /\ status \in [RunId -> Status] /\ of \in [RunId -> Schedules \cup {Null}]
        /\ trigger \in [RunId -> {"none", "scheduled", "manual"}]
        /\ scheduledFor \in [RunId -> Time]
        /\ pc \in [RunId -> {"idle", "start", "settings", "prompt", "parked", "over"}]
        /\ dialogs \in [RunId -> SUBSET Dialogs]
    BY DEF Init, Time, Status
  <2>4. used \subseteq Schedules /\ up \in BOOLEAN /\ ticking \in BOOLEAN
        /\ timer \in Time /\ due \subseteq Schedules /\ closed \subseteq RunId
    BY DEF Init, Time
  <2> QED  BY <2>1, <2>2, <2>3, <2>4 DEF TypeOK
<1>2. Numbered
  BY BoundsInNat DEF Init, Numbered, RunId
<1>3. Defined /\ Down /\ DueStays /\ Past
  BY DEF Init, Defined, Down, DueStays, Past, Exists
<1>4. ActiveRecordIsLive /\ OneActiveRecord /\ DialogStatus /\ OccurrenceOnce
  BY DEF Init, ActiveRecordIsLive, OneActiveRecord, DialogStatus, OccurrenceOnce, Stored,
         Active
<1>5. LastStatusHonest /\ TimerCoversStore
  BY DEF Init, LastStatusHonest, TimerCoversStore, Active, Idle
<1> QED  BY <1>1, <1>2, <1>3, <1>4, <1>5 DEF IInv

LEMMA DefinitionsTyped == Definitions \subseteq Definition
BY ClockAssumption DEF Definitions, Definition

LEMMA NextKeeps == IInv /\ Next => Steps
<1> SUFFICES ASSUME IInv, Next  PROVE Steps
  OBVIOUS
<1>1. CASE \E s \in Schedules : Request(s)
  BY <1>1, DefinitionsTyped, CreateStep, EditBeginsStep, EditEndsStep, DeleteStep,
     RunNowStep DEF Request
<1>2. CASE Tick
  BY <1>2, TickBeginsStep, TickRoundStep, TickEndsStep DEF Tick, TimerFires
<1>3. CASE Wake
  BY <1>3, TickBeginsStep DEF Wake
<1>4. CASE ClockTicks
  BY <1>4, ClockStep
<1>5. CASE \E r \in RunId : Execute(r)
  BY <1>5, ExecuteStep
<1>6. CASE Crash \/ Start
  BY <1>6, CrashStep, StartStep
<1> QED  BY <1>1, <1>2, <1>3, <1>4, <1>5, <1>6 DEF Next

\* A step that changes nothing keeps everything.
LEMMA StutterKeeps == IInv /\ UNCHANGED vars => Steps
<1> SUFFICES ASSUME IInv, UNCHANGED vars  PROVE Steps
  OBVIOUS
<1>1. UNCHANGED <<clock, def, used, next, lastStatus, created, of, trigger, scheduledFor,
                  status, up, timer, ticking, due, pc, dialogs, closed, editing, edits,
                  restarts>>
  BY DEF vars, records, memory, bounds
<1>2. TypeOK' /\ Numbered' /\ Defined' /\ Down' /\ DueStays' /\ Past'
  BY <1>1 DEF IInv, TypeOK, Numbered, Defined, Exists, Down, DueStays, Past
<1>3. ActiveRecordIsLive' /\ OneActiveRecord' /\ DialogStatus' /\ LastStatusHonest'
  BY <1>1 DEF IInv, ActiveRecordIsLive, OneActiveRecord, DialogStatus, LastStatusHonest,
              HasActiveRun, Live, Stored
<1>4. OccurrenceOnce' /\ TimerCoversStore'
  BY <1>1 DEF IInv, OccurrenceOnce, TimerCoversStore, Idle
<1>5. FinishedKept /\ MissedSkipped
  BY <1>1 DEF FinishedKept, MissedSkipped
<1> QED  BY <1>2, <1>3, <1>4, <1>5 DEF Steps, IInv

LEMMA StepsHold == Spec => []IInv /\ [][Steps]_vars
<1>1. IInv /\ [Next]_vars => IInv'
  BY NextKeeps, StutterKeeps DEF Steps
<1>2. IInv /\ [Next]_vars => [Steps]_vars
  BY NextKeeps
<1> QED  BY InitInv, <1>1, <1>2, PTL DEF Spec

-----------------------------------------------------------------------------
\* Every variable keeps its type.
THEOREM TypesHold == Spec => []TypeOK
<1>1. IInv => TypeOK
  BY DEF IInv
<1> QED  BY <1>1, StepsHold, PTL

\* The store never shows two active runs of one schedule, whatever wake-ups, manual
\* runs and restarts fall together.
THEOREM RunsDoNotOverlapInStore == Spec => []OneActiveRecord
<1>1. IInv => OneActiveRecord
  BY DEF IInv
<1> QED  BY <1>1, StepsHold, PTL

\* While the server runs, a stored record is active exactly while its run is live.
THEOREM ActiveRecordsAreLive == Spec => []ActiveRecordIsLive
<1>1. IInv => ActiveRecordIsLive
  BY DEF IInv
<1> QED  BY <1>1, StepsHold, PTL

\* A run waits for input in the store exactly while a dialog of it is open.
THEOREM WaitingMeansDialog == Spec => []DialogStatus
<1>1. IInv => DialogStatus
  BY DEF IInv
<1> QED  BY <1>1, StepsHold, PTL

\* A schedule shows an active run only while there is one, or one was cut from the
\* store.
THEOREM LastStatusIsHonest == Spec => []LastStatusHonest
<1>1. IInv => LastStatusHonest
  BY DEF IInv
<1> QED  BY <1>1, StepsHold, PTL

\* No occurrence is handled twice.
THEOREM OccurrencesAreHandledOnce == Spec => []OccurrenceOnce
<1>1. IInv => OccurrenceOnce
  BY DEF IInv
<1> QED  BY <1>1, StepsHold, PTL

\* The timer is always armed in time for the store.
THEOREM TimerIsArmed == Spec => []TimerCoversStore
<1>1. IInv => TimerCoversStore
  BY DEF IInv
<1> QED  BY <1>1, StepsHold, PTL

\* A finished record is not written again.
THEOREM FinishedStays == Spec => FinishedForGood
<1>1. Steps => FinishedKept
  BY DEF Steps
<1>2. [FinishedKept]_vars <=> [\A r \in RunId : status[r] \in Finished =>
                                 status'[r] \in {status[r], "evicted"}]_vars
  BY DEF FinishedKept
<1> QED  BY <1>1, <1>2, StepsHold, PTL DEF FinishedForGood

\* A run is not started for an occurrence missed by a schedule that skips those.
THEOREM MissedIsSkipped == Spec => MissedAreSkipped
<1>1. Steps => MissedSkipped
  BY DEF Steps
<1>2. [MissedSkipped]_vars <=>
        [\A r \in RunId :
           status[r] = "none" /\ status'[r] = "running" /\ trigger'[r] = "scheduled"
             => clock <= scheduledFor'[r] + Grace
                \/ def[of'[r]].policy = "run_once"]_vars
  BY DEF MissedSkipped
<1> QED  BY <1>1, <1>2, StepsHold, PTL DEF MissedAreSkipped

==============================================================================
