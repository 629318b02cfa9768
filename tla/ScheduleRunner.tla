--------------------------- MODULE ScheduleRunner ---------------------------
(***************************************************************************)
(* Scheduled agents: src/lib/schedule-runner.ts, the store it persists to   *)
(* (src/lib/schedule-store.ts) and the routes of src/app/api/schedules that *)
(* write it.  One Node process; a handler is atomic from await to await.    *)
(* The loop of tick() never yields, but each of its rounds writes the store *)
(* on its own, so a round is an action, no other handler runs between two   *)
(* rounds, and a crash may fall there.                                      *)
(***************************************************************************)
EXTENDS Naturals, FiniteSets, FiniteSetsExt

CONSTANTS
  Schedules,    \* schedule identifiers; one is never used twice
  Period,       \* a recurring schedule is due at the multiples of Period
  Grace,        \* MISSED_GRACE_MS
  MaxTimer,     \* MAX_TIMER_MS
  MaxRuns,      \* MAX_RUNS of the store
  Dialogs,      \* identifiers of extension dialogs
  Null,         \* null
  MaxTime,      \* bound: the clock
  MaxManual,    \* bound: manual runs
  MaxCreated,   \* bound: run records ever created
  MaxEdits,     \* bound: PATCH requests
  MaxRestarts   \* bound: server crashes

ASSUME ClockAssumption ==
  /\ Period \in Nat \ {0} /\ MaxTimer \in Nat \ {0}
  /\ Grace \in Nat /\ MaxTime \in Nat \ {0} /\ Null \notin Nat

ASSUME StoreAssumption ==
  /\ MaxRuns \in Nat \ {0} /\ MaxCreated \in Nat
  /\ MaxManual \in Nat /\ MaxEdits \in Nat /\ MaxRestarts \in Nat

RunId    == 1..MaxCreated
Active   == {"running", "waiting_for_input"}
Finished == {"completed", "failed", "skipped"}
Status   == {"none", "evicted"} \cup Active \cup Finished
Time     == Nat \cup {Null}
Policy   == {"run_once", "skip"}
\* What a schedule says, less its wording: for a one-time schedule "at" is its date.
Definition == [kind : {"once", "recurring"}, at : Nat, enabled : BOOLEAN,
               policy : Policy]
Absent     == [kind |-> "absent", at |-> 0, enabled |-> FALSE, policy |-> "skip"]

VARIABLES
  clock,        \* the time of day
  \* schedules.json
  def,          \* the definition of each schedule, or Absent
  used,         \* identifiers already given out
  next,         \* nextRunAt
  lastStatus,   \* lastRunStatus
  created,      \* how many run records have been created
  status,       \* the status of each record
  of,           \* the schedule of each record
  trigger,      \* "scheduled" or "manual"
  scheduledFor, \* the occurrence the record stands for
  \* the memory of the server process
  up,           \* the process is running and its runner started
  timer,        \* when the one nearest-deadline timer fires
  ticking,      \* tick() is in its loop
  due,          \* schedules the loop has still to handle
  pc,           \* where the run's execute() is; "parked": the coroutine returned
                \* with its listener and timers in place
  dialogs,      \* pendingDialogs
  closed,       \* runs whose session was destroyed under them
  editing,      \* a PATCH between its read and its write: the merged definition
  edits, restarts

records == <<created, of, trigger, scheduledFor>>
memory  == <<pc, dialogs, closed>>
bounds  == <<edits, restarts>>
vars    == <<clock, def, used, next, lastStatus, records, status, up, timer,
             ticking, due, memory, editing, bounds>>

TypeOK ==
  /\ clock \in 0..MaxTime
  /\ def \in [Schedules -> Definition \cup {Absent}]
  /\ used \subseteq Schedules
  /\ next \in [Schedules -> Time]
  /\ lastStatus \in [Schedules -> Status]
  /\ created \in 0..MaxCreated
  /\ status \in [RunId -> Status]
  /\ of \in [RunId -> Schedules \cup {Null}]
  /\ trigger \in [RunId -> {"none", "scheduled", "manual"}]
  /\ scheduledFor \in [RunId -> Time]
  /\ up \in BOOLEAN /\ ticking \in BOOLEAN
  /\ timer \in Time
  /\ due \subseteq Schedules
  /\ pc \in [RunId -> {"idle", "start", "settings", "prompt", "parked", "over"}]
  /\ dialogs \in [RunId -> SUBSET Dialogs]
  /\ closed \subseteq RunId
  /\ editing \in [Schedules -> Definition \cup {Absent}]
  /\ edits \in 0..MaxEdits /\ restarts \in 0..MaxRestarts

Init ==
  /\ clock = 0
  /\ def = [s \in Schedules |-> Absent] /\ used = {}
  /\ next = [s \in Schedules |-> Null]
  /\ lastStatus = [s \in Schedules |-> "none"]
  /\ created = 0
  /\ status = [r \in RunId |-> "none"]
  /\ of = [r \in RunId |-> Null]
  /\ trigger = [r \in RunId |-> "none"]
  /\ scheduledFor = [r \in RunId |-> Null]
  /\ up = FALSE /\ timer = Null /\ ticking = FALSE /\ due = {}
  /\ pc = [r \in RunId |-> "idle"]
  /\ dialogs = [r \in RunId |-> {}] /\ closed = {}
  /\ editing = [s \in Schedules |-> Absent]
  /\ edits = 0 /\ restarts = 0

-----------------------------------------------------------------------------
Exists(s)  == def[s] # Absent
Stored(st) == {r \in RunId : st[r] \notin {"none", "evicted"}}
Live(r)    == pc[r] \in {"start", "settings", "prompt", "parked"}

\* The check startRun and DELETE make on the stored runs.
HasActiveRun(s) == \E r \in RunId : of[r] = s /\ status[r] \in Active

\* The first occurrence strictly after t, as the schedule says it.
Occurrence(d, t) ==
  IF d.kind = "recurring" THEN (t \div Period + 1) * Period
  ELSE IF d.at > t THEN d.at ELSE Null

\* initialNextRunAt: null when disabled, undefined when a one-time date is past.
InitialNext(d) == IF d.enabled THEN Occurrence(d, clock) ELSE Null
Acceptable(d)  == d.enabled => Occurrence(d, clock) # Null

\* nextAfterExecution: a one-time schedule has no further occurrence.
NextAfterExecution(d) == IF d.kind = "once" THEN Null ELSE Occurrence(d, clock)

\* reschedule(): arm the timer for the earliest occurrence of the store.
Wakes(d, n) == {n[s] : s \in {x \in Schedules : d[x].enabled /\ n[x] # Null}}
Rescheduled(d, n) ==
  IF Wakes(d, n) = {} THEN Null
  ELSE IF Min(Wakes(d, n)) <= clock THEN clock
  ELSE Min({Min(Wakes(d, n)), clock + MaxTimer})

\* addRun and the cut to MaxRuns: a new first record, perhaps the oldest lost.
AddRun(s, trig, for, st) ==
  LET n == created + 1
  IN  /\ n \in RunId
      /\ created' = n
      /\ of' = [of EXCEPT ![n] = s]
      /\ trigger' = [trigger EXCEPT ![n] = trig]
      /\ scheduledFor' = [scheduledFor EXCEPT ![n] = for]
      /\ status' = [r \in RunId |->
                      IF r = n THEN st
                      ELSE IF /\ Cardinality(Stored(status)) >= MaxRuns
                              /\ r = Min(Stored(status))
                           THEN "evicted" ELSE status[r]]
      /\ lastStatus' = [lastStatus EXCEPT ![s] = st]

\* Fault of updateRun: the schedule's own status is not kept in step.
UpdateRecordOnly(r, st) ==
  /\ status' = IF r \in Stored(status) THEN [status EXCEPT ![r] = st] ELSE status
  /\ UNCHANGED lastStatus

\* updateRun writes whatever the record said before, if there is a record.
Update(r, st) ==
  IF r \in Stored(status)
  THEN /\ status' = [status EXCEPT ![r] = st]
       /\ lastStatus' = [s \in Schedules |->
                           IF s = of[r] /\ Exists(s) THEN st ELSE lastStatus[s]]
  ELSE UNCHANGED <<status, lastStatus>>

\* Fault of finish(): cleanup() is not called.
FinishListening(r, st) ==
  /\ pc' = [pc EXCEPT ![r] = "parked"]
  /\ dialogs' = [dialogs EXCEPT ![r] = {}]
  /\ closed' = closed \ {r}
  /\ Update(r, st)

\* finish(): once per run; cleanup() removes the listener and the timers.
Finish(r, st) ==
  /\ pc' = [pc EXCEPT ![r] = "over"]
  /\ dialogs' = [dialogs EXCEPT ![r] = {}]
  /\ closed' = closed \ {r}
  /\ Update(r, st)

\* Fault: the occurrence stays the next one.
AdvancedNowhere(s) == UNCHANGED <<next, def>>

\* The occurrence of s is used up: the next one, and a one-time schedule is off.
Advanced(s) ==
  /\ next' = [next EXCEPT ![s] = NextAfterExecution(def[s])]
  /\ def' = IF def[s].kind = "once" THEN [def EXCEPT ![s].enabled = FALSE] ELSE def

-----------------------------------------------------------------------------
\* Requests.  None is handled while tick() is in its loop.

Idle == up /\ ~ticking

\* POST: a new schedule must have an occurrence, unless it is created disabled.
Create(s, d) ==
  /\ Idle /\ s \notin used /\ Acceptable(d)
  /\ def' = [def EXCEPT ![s] = d]
  /\ used' = used \cup {s}
  /\ next' = [next EXCEPT ![s] = InitialNext(d)]
  /\ timer' = Rescheduled(def', next')
  /\ UNCHANGED <<clock, lastStatus, records, status, up, ticking, due, memory,
                 editing, bounds>>

\* PATCH up to its awaits: the stored definition is read and merged with the body.
EditBegins(s, d) ==
  /\ Idle /\ Exists(s) /\ editing[s] = Absent /\ edits < MaxEdits
  /\ editing' = [editing EXCEPT ![s] = d]
  /\ edits' = edits + 1
  /\ UNCHANGED <<clock, def, used, next, lastStatus, records, status, up, timer,
                 ticking, due, memory, restarts>>

\* Fault of PATCH: the runner is not told.
EditEndsQuietly(s) ==
  LET d == editing[s]
  IN  /\ Idle /\ Exists(s) /\ d # Absent /\ Acceptable(d)
      /\ editing' = [editing EXCEPT ![s] = Absent]
      /\ def' = [def EXCEPT ![s] = d]
      /\ next' = [next EXCEPT ![s] = InitialNext(d)]
      /\ UNCHANGED <<clock, used, lastStatus, records, status, up, timer, ticking,
                     due, memory, bounds>>

\* PATCH after them: the merged definition replaces whatever is stored by now,
\* and its next occurrence is counted from now.
EditEnds(s) ==
  LET d == editing[s]
  IN  /\ Idle /\ d # Absent
      /\ editing' = [editing EXCEPT ![s] = Absent]
      /\ IF Exists(s) /\ Acceptable(d)
         THEN /\ def' = [def EXCEPT ![s] = d]
              /\ next' = [next EXCEPT ![s] = InitialNext(d)]
              /\ timer' = Rescheduled(def', next')
         ELSE UNCHANGED <<def, next, timer>>
      /\ UNCHANGED <<clock, used, lastStatus, records, status, up, ticking, due,
                     memory, bounds>>

Delete(s) ==
  /\ Idle /\ Exists(s) /\ ~HasActiveRun(s)
  /\ def' = [def EXCEPT ![s] = Absent]
  /\ next' = [next EXCEPT ![s] = Null]
  /\ lastStatus' = [lastStatus EXCEPT ![s] = "none"]
  /\ timer' = Rescheduled(def', next')
  /\ UNCHANGED <<clock, used, records, status, up, ticking, due, memory, editing,
                 bounds>>

\* Fault of startRun: the active runs are not looked at.
StartRunUnchecked(s, trig, for) ==
  /\ AddRun(s, trig, for, "running")
  /\ pc' = [pc EXCEPT ![created + 1] = "start"]

\* startRun: reserve the record and call execute(), which opens a session.
StartRun(s, trig, for) ==
  /\ ~HasActiveRun(s)
  /\ AddRun(s, trig, for, "running")
  /\ pc' = [pc EXCEPT ![created + 1] = "start"]

\* runNow(): the timing of the schedule is left alone.
RunNow(s) ==
  /\ Idle /\ Exists(s)
  /\ Cardinality({r \in RunId : trigger[r] = "manual"}) < MaxManual
  /\ StartRun(s, "manual", clock)
  /\ timer' = Rescheduled(def, next)
  /\ UNCHANGED <<clock, def, used, next, up, ticking, due, dialogs, closed,
                 editing, bounds>>

-----------------------------------------------------------------------------
\* The clock, the timer and tick()

\* Time passes; a suspended machine lets it pass without firing the timer.
ClockTicks ==
  /\ ~ticking /\ clock < MaxTime
  /\ clock' = clock + 1
  /\ UNCHANGED <<def, used, next, lastStatus, records, status, up, timer,
                 ticking, due, memory, editing, bounds>>

\* The schedules found due are read once, before the loop.
TickBegins ==
  /\ ticking' = TRUE
  /\ due' = {s \in Schedules : /\ def[s].enabled /\ next[s] # Null
                             /\ next[s] <= clock}
  /\ UNCHANGED <<clock, def, used, next, lastStatus, records, status, up, timer,
                 memory, editing, bounds>>

TimerFires == Idle /\ timer # Null /\ timer <= clock /\ TickBegins
Wake       == Idle /\ TickBegins

\* Fault: the grace period is one too long.
MissedLate(s) == clock > next[s] + Grace + 1
Missed(s) == clock > next[s] + Grace

\* skipRun: the occurrence is recorded as skipped.
Skip(s) ==
  /\ Advanced(s)
  /\ AddRun(s, "scheduled", next[s], "skipped")
  /\ UNCHANGED pc

\* One round of the loop: skip what was missed under the policy "skip" and what
\* conflicts with a run still active, start the rest.
TickRound(s) ==
  /\ ticking /\ s \in due
  /\ due' = due \ {s}
  /\ \/ /\ Missed(s) /\ def[s].policy = "skip"
        /\ Skip(s)
     \/ /\ ~(Missed(s) /\ def[s].policy = "skip")
        /\ HasActiveRun(s)
        /\ Skip(s)
     \/ /\ ~(Missed(s) /\ def[s].policy = "skip")
        /\ Advanced(s)
        /\ StartRun(s, "scheduled", next[s])
  /\ UNCHANGED <<clock, used, up, timer, ticking, dialogs, closed, editing, bounds>>

\* Fault of tick(): the timer is not armed again.
TickEndsUnarmed ==
  /\ ticking /\ due = {}
  /\ ticking' = FALSE /\ timer' = Null
  /\ UNCHANGED <<clock, def, used, next, lastStatus, records, status, up, due,
                 memory, editing, bounds>>

TickEnds ==
  /\ ticking /\ due = {}
  /\ ticking' = FALSE
  /\ timer' = Rescheduled(def, next)
  /\ UNCHANGED <<clock, def, used, next, lastStatus, records, status, up, due,
                 memory, editing, bounds>>

-----------------------------------------------------------------------------
\* execute(): the coroutine of one run, its session's events and its timers

Run(r, at) == Idle /\ pc[r] = at
store      == <<clock, def, used, next, records, up, timer, ticking, due,
                editing, bounds>>

SessionStarted(r) ==
  /\ Run(r, "start")
  /\ pc' = [pc EXCEPT ![r] = "settings"]
  /\ Update(r, "running")
  /\ UNCHANGED <<store, dialogs, closed>>

\* The model and the thinking level are set; the timers are armed and the
\* prompt is sent.
SettingsApplied(r) ==
  /\ Run(r, "settings")
  /\ pc' = [pc EXCEPT ![r] = "prompt"]
  /\ UNCHANGED <<store, status, lastStatus, dialogs, closed>>

\* The awaited prompt resolves without an agent_end: the coroutine returns and
\* leaves the run to its timers.
PromptReturns(r) ==
  /\ Run(r, "prompt")
  /\ pc' = [pc EXCEPT ![r] = "parked"]
  /\ UNCHANGED <<store, status, lastStatus, dialogs, closed>>

\* Whatever is awaited rejects.
ExecuteThrows(r) ==
  /\ Idle /\ pc[r] \in {"start", "settings", "prompt"}
  /\ Finish(r, "failed")
  /\ UNCHANGED store

\* The listener stays for a parked run, whose command may yet start the agent.
AgentEnd(r, st) ==
  /\ Run(r, "prompt") \/ Run(r, "parked")
  /\ r \notin closed
  /\ Finish(r, st)
  /\ UNCHANGED store

Listening(r) == Idle /\ pc[r] \in {"settings", "prompt", "parked"}

DialogOpened(r, d) ==
  /\ Listening(r) /\ d \notin dialogs[r] /\ r \notin closed
  /\ dialogs' = [dialogs EXCEPT ![r] = @ \cup {d}]
  /\ Update(r, "waiting_for_input")
  /\ UNCHANGED <<store, pc, closed>>

DialogClosed(r, d) ==
  /\ Listening(r) /\ d \in dialogs[r]
  /\ dialogs' = [dialogs EXCEPT ![r] = @ \ {d}]
  /\ IF dialogs'[r] = {} THEN Update(r, "running")
     ELSE UNCHANGED <<status, lastStatus>>
  /\ UNCHANGED <<store, pc, closed>>

\* The session is destroyed from outside; its open dialogs close first.
SessionCloses(r) ==
  /\ Listening(r) /\ r \notin closed
  /\ closed' = closed \cup {r}
  /\ dialogs' = [dialogs EXCEPT ![r] = {}]
  /\ IF dialogs[r] # {} THEN Update(r, "running")
     ELSE UNCHANGED <<status, lastStatus>>
  /\ UNCHANGED <<store, pc>>

\* The keep-alive finds the session destroyed, or the 24-hour limit is reached.
TimersArmed(r) == Idle /\ pc[r] \in {"prompt", "parked"}
KeepAliveFails(r) ==
  TimersArmed(r) /\ r \in closed /\ Finish(r, "failed") /\ UNCHANGED store
\* Fault: the deadline aborts the session and leaves the rest to agent_end.
DeadlineOnlyAborts(r) == TimersArmed(r) /\ UNCHANGED vars
Deadline(r) == TimersArmed(r) /\ Finish(r, "failed") /\ UNCHANGED store

-----------------------------------------------------------------------------
Crash ==
  /\ up /\ restarts < MaxRestarts
  /\ up' = FALSE /\ restarts' = restarts + 1
  /\ timer' = Null /\ ticking' = FALSE /\ due' = {}
  /\ pc' = [r \in RunId |-> "idle"]
  /\ dialogs' = [r \in RunId |-> {}] /\ closed' = {}
  /\ editing' = [s \in Schedules |-> Absent]
  /\ UNCHANGED <<clock, def, used, next, lastStatus, records, status, edits>>

\* Fault of start(): the runs of the process that died are not reconciled.
StartUnreconciled ==
  /\ ~up /\ up' = TRUE
  /\ timer' = Rescheduled(def, next)
  /\ UNCHANGED <<clock, def, used, next, lastStatus, records, status, ticking,
                 due, memory, editing, bounds>>

\* start(): the runs of the process that died failed, then the timer is armed.
Start ==
  LET lost == {r \in RunId : status[r] \in Active}
  IN  /\ ~up /\ up' = TRUE
      /\ status' = [r \in RunId |-> IF r \in lost THEN "failed" ELSE status[r]]
      /\ lastStatus' = [s \in Schedules |->
                          IF Exists(s) /\ \E r \in lost : of[r] = s THEN "failed"
                          ELSE lastStatus[s]]
      /\ timer' = Rescheduled(def, next)
      /\ UNCHANGED <<clock, def, used, next, records, ticking, due, memory,
                     editing, bounds>>

-----------------------------------------------------------------------------
\* What a request may ask for; one-time schedules are for MaxTime - 1.
Definitions ==
  [kind : {"once", "recurring"}, at : {MaxTime - 1}, enabled : BOOLEAN,
   policy : Policy]

Request(s) ==
  \/ \E d \in Definitions : Create(s, d) \/ EditBegins(s, d)
  \/ EditEnds(s) \/ Delete(s) \/ RunNow(s)

Tick == TimerFires \/ (\E s \in Schedules : TickRound(s)) \/ TickEnds

Execute(r) ==
  \/ SessionStarted(r) \/ SettingsApplied(r) \/ PromptReturns(r)
  \/ ExecuteThrows(r)
  \/ \E st \in {"completed", "failed"} : AgentEnd(r, st)
  \/ \E d \in Dialogs : DialogOpened(r, d) \/ DialogClosed(r, d)
  \/ SessionCloses(r) \/ KeepAliveFails(r) \/ Deadline(r)

Next ==
  \/ \E s \in Schedules : Request(s)
  \/ Tick \/ Wake \/ ClockTicks
  \/ \E r \in RunId : Execute(r)
  \/ Crash \/ Start

Spec == Init /\ [][Next]_vars

\* An armed timer fires, a loop runs to its end, a server that died is started
\* again, opening a session and setting it up return, and the 24-hour limit comes.
\* A run's steps are strongly fair: the loop of tick(), which keeps them waiting,
\* is a single turn of the event loop, so wake-ups cannot starve them.
Fairness ==
  /\ WF_vars(Tick) /\ WF_vars(Start)
  /\ \A r \in RunId :
       /\ SF_vars(\/ SessionStarted(r) \/ SettingsApplied(r)
                  \/ pc[r] \in {"start", "settings"} /\ ExecuteThrows(r))
       /\ SF_vars(Deadline(r))

FairSpec == Spec /\ Fairness

-----------------------------------------------------------------------------
(***************************************************************************)
(* Properties                                                               *)
(***************************************************************************)

\* The store never shows two active runs of one schedule.
OneActiveRecord ==
  \A q, r \in RunId :
    status[q] \in Active /\ status[r] \in Active /\ of[q] = of[r] => q = r

\* A record says running or waiting exactly while its run is live in the process,
\* as long as the record is in the store: otherwise the schedule would be blocked
\* for good, or free while its run goes on.
ActiveRecordIsLive ==
  up => \A r \in Stored(status) : status[r] \in Active <=> Live(r)

\* A finished record is not written again, though updateRun would: only the
\* removed listener and the cleared timers keep it from it.
FinishedForGood ==
  [][\A r \in RunId : status[r] \in Finished =>
       status'[r] \in {status[r], "evicted"}]_vars

\* The record says that input is needed exactly while a dialog of the run is open.
DialogStatus ==
  \A r \in Stored(status) : Live(r) =>
    (status[r] = "waiting_for_input" <=> dialogs[r] # {})

\* No occurrence of a schedule is handled twice, whatever crashes, edits and
\* wake-ups fall in between.
OccurrenceOnce ==
  \A q, r \in RunId :
    trigger[q] = "scheduled" /\ trigger[r] = "scheduled"
    /\ of[q] = of[r] /\ scheduledFor[q] = scheduledFor[r] => q = r

\* Whatever a request, a run or a restart does, the timer is armed early enough
\* for every occurrence in the store.
TimerCoversStore ==
  Idle => \A s \in Schedules :
            def[s].enabled /\ next[s] # Null =>
              timer # Null /\ timer <= Max({next[s], clock})

\* A run is not started for an occurrence missed by a schedule that skips those.
MissedAreSkipped ==
  [][\A r \in RunId :
       status[r] = "none" /\ status'[r] = "running" /\ trigger'[r] = "scheduled"
         => clock <= scheduledFor'[r] + Grace
            \/ def[of'[r]].policy = "run_once"]_vars

\* The status a schedule shows is active only while one of its stored runs is, also
\* over a restart, unless newer runs have cut one from the store, whose end nobody
\* writes any more.
LastStatusHonest ==
  \A s \in Schedules : lastStatus[s] \in Active =>
    HasActiveRun(s) \/ \E r \in RunId : of[r] = s /\ status[r] = "evicted"

\* An occurrence that is due does not stay due: it is run or skipped, unless an
\* edit or a deletion takes it away.
DueIsHandled ==
  \A s \in Schedules, t \in 0..MaxTime :
    def[s].enabled /\ next[s] = t /\ t <= clock
      ~> ~(def[s].enabled /\ next[s] = t)

\* No run blocks its schedule forever.
RunEnds == \A r \in RunId : Live(r) ~> ~Live(r)

\* docs/DEVELOPMENT.md:462, "A schedule cannot overlap": no two runs of one
\* schedule are live at a time.
NoOverlap ==
  \A q, r \in RunId : q # r /\ of[q] = of[r] => ~(Live(q) /\ Live(r))

=============================================================================
