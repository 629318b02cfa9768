------------------------- MODULE AgentRunSupervisor -------------------------
(***************************************************************************)
(* The background-run supervisor of src/lib/agent-run-supervisor.ts and the *)
(* store it persists to, src/lib/agent-run-store.ts.  One Node process: a   *)
(* handler is atomic from one await to the next, and every handler below is *)
(* one action, its trailing drain() included.  A run is named by the number *)
(* of its creation, so the store's newest-first list is the stored runs in  *)
(* descending order.                                                        *)
(***************************************************************************)
EXTENDS Naturals, FiniteSets, FiniteSetsExt

CONSTANTS
  MaxCreated,     \* bound: runs ever created
  MaxRuns,        \* MAX_RUNS of the store
  MaxLimit,       \* MAX_AGENT_RUN_CONCURRENCY
  InitialLimit,   \* the concurrency persisted or configured at first boot
  Groups,         \* identifiers of shared delegation budgets
  NoGroup,        \* a run without a shared budget
  GroupChoices,   \* what a run may be submitted with
  InitialCap,     \* maxCostUsd a budget group is submitted with
  MaxCap,         \* bound: no extension beyond this cap
  TurnCosts,      \* what one assistant message may cost
  MaxCost,        \* bound: cost one run may accumulate
  Dialogs,        \* identifiers of extension dialogs
  TimeoutChoices, \* subset of BOOLEAN: may a run be submitted with no deadline?
  WaitChoices,    \* subset of BOOLEAN: enqueue (FALSE), enqueueAndWait (TRUE)
  MaxCancels,     \* bound: runs with a cancel() in flight
  MaxRejected,    \* bound: runs with a rejected abort
  MaxRestarts     \* bound: server crashes

ASSUME BoundsAssumption ==
  /\ MaxCreated \in Nat \ {0} /\ MaxRuns \in Nat \ {0}
  /\ MaxLimit \in Nat \ {0} /\ InitialLimit \in 1..MaxLimit
  /\ MaxCancels \in Nat /\ MaxRejected \in Nat /\ MaxRestarts \in Nat

ASSUME BudgetAssumption ==
  /\ NoGroup \notin Groups /\ GroupChoices \subseteq Groups \cup {NoGroup}
  /\ InitialCap \in Nat \ {0} /\ MaxCap \in Nat
  /\ TurnCosts \subseteq Nat /\ MaxCost \in Nat

ASSUME ChoicesAssumption ==
  /\ TimeoutChoices \subseteq BOOLEAN /\ WaitChoices \subseteq BOOLEAN

RunId    == 1..MaxCreated
Terminal == {"completed", "failed", "cancelled", "interrupted"}
Active   == {"running", "waiting_for_input"}
\* "none": not created yet; "evicted": its record fell off the end of the store.
Status   == {"none", "queued", "evicted"} \cup Active \cup Terminal
\* Where an execute() coroutine waits: before its first await, at one, or over.
Place    == {"idle", "trust", "start", "settings", "prompt", "done"}

VARIABLES
  \* agent-runs.json
  created,      \* how many runs have been created
  status,       \* the stored status of each run
  group,        \* the budget group of each run
  cost,         \* the stored progress cost of each run
  cap,          \* maxCostUsd of the run's budget group, as recorded with the run
  unlimited,    \* runs whose limits.timeoutMs is 0
  limit,        \* maxConcurrency
  \* the memory of the server process
  up,           \* the process is running and its supervisor started
  active,       \* keys of the supervisor's active map
  dialogs,      \* pendingDialogs of the active record
  waiting,      \* keys of the waiters map
  keepAlive,    \* runs with a keep-alive interval armed
  deadline,     \* runs with a deadline timer armed
  cancelling,   \* runs of which a cancel() awaits the abort of the session
  pc,           \* where the run's execute() coroutine is
  \* the SDK session of each run
  turn,         \* the run's prompt command
  closed,       \* runs whose session was destroyed under the coroutine
  \* history and bounds
  abortFailed,  \* runs of which a cancel() was left by a rejected abort
  overtaken,    \* runs prompted after they had left the active map
  restarts      \* crashes so far

store    == <<created, status, group, cost, cap, unlimited, limit>>
timers   == <<keepAlive, deadline>>
session  == <<turn, closed>>
history  == <<abortFailed, overtaken, restarts>>
vars     == <<store, up, active, dialogs, waiting, timers, cancelling, pc,
              session, history>>

TypeOK ==
  /\ created \in 0..MaxCreated
  /\ status \in [RunId -> Status]
  /\ group \in [RunId -> Groups \cup {NoGroup}]
  /\ cost \in [RunId -> Nat]
  /\ cap \in [RunId -> Nat]
  /\ unlimited \subseteq RunId
  /\ limit \in 1..MaxLimit
  /\ up \in BOOLEAN
  /\ active \subseteq RunId
  /\ dialogs \in [RunId -> SUBSET Dialogs]
  /\ waiting \subseteq RunId
  /\ keepAlive \subseteq RunId
  /\ deadline \subseteq RunId
  /\ cancelling \subseteq RunId
  /\ pc \in [RunId -> Place]
  /\ turn \in [RunId -> {"none", "snapshot", "working"}]
  /\ closed \subseteq RunId
  /\ abortFailed \subseteq RunId
  /\ overtaken \subseteq RunId
  /\ restarts \in 0..MaxRestarts

Init ==
  /\ created = 0
  /\ status = [r \in RunId |-> "none"]
  /\ group = [r \in RunId |-> NoGroup]
  /\ cost = [r \in RunId |-> 0]
  /\ cap = [r \in RunId |-> 0]
  /\ unlimited = {}
  /\ limit = InitialLimit
  /\ up = FALSE
  /\ active = {} /\ waiting = {} /\ keepAlive = {} /\ deadline = {}
  /\ dialogs = [r \in RunId |-> {}]
  /\ cancelling = {}
  /\ pc = [r \in RunId |-> "idle"]
  /\ turn = [r \in RunId |-> "none"]
  /\ closed = {} /\ abortFailed = {} /\ overtaken = {}
  /\ restarts = 0

-----------------------------------------------------------------------------
\* The store

Stored(st) == {r \in RunId : st[r] \notin {"none", "evicted"}}
Queued(st) == {r \in RunId : st[r] = "queued"}
Members(st, gr, r) == {q \in Stored(st) : gr[q] = gr[r]}

\* updateRun: a terminal or missing record is never written.
Updatable(st, r) == st[r] \in {"queued"} \cup Active
\* Fault: the terminal guard is forgotten.
UpdatedAnyway(st, r, s) == IF r \in Stored(st) THEN [st EXCEPT ![r] = s] ELSE st

Updated(st, r, s) == IF Updatable(st, r) THEN [st EXCEPT ![r] = s] ELSE st

\* The sum of the amounts w[1], ..., w[MaxCreated].
Total(w) ==
  LET sum[n \in 0..MaxCreated] == IF n = 0 THEN 0 ELSE sum[n - 1] + w[n]
  IN  sum[MaxCreated]

\* groupCost(): what the stored runs of the group of r have cost together.
GroupCost(st, gr, co, r) ==
  LET kin == Members(st, gr, r)
  IN  Total([q \in RunId |-> IF q \in kin THEN co[q] ELSE 0])

\* groupCost(run) >= run.budgetGroup.maxCostUsd
Exhausted(st, gr, co, ca, r) ==
  gr[r] # NoGroup /\ GroupCost(st, gr, co, r) >= ca[r]

-----------------------------------------------------------------------------
(***************************************************************************)
(* drain(): while a slot is free, take the oldest queued run; fail its      *)
(* whole group if the budget is spent, start it otherwise.  The loop takes  *)
(* queued runs in order and a stopped one uses no slot, so it takes r       *)
(* exactly when the older startable runs leave a slot.                      *)
(***************************************************************************)
Startable(st, gr, co, ca) ==
  {r \in Queued(st) : ~Exhausted(st, gr, co, ca, r)}

\* Fault: one slot too many; the list not reversed; stopped runs use slots.
TakenOneMore(st, gr, co, ca, ac, lim) ==
  {r \in Queued(st) :
     Cardinality(ac) + Cardinality({q \in Startable(st, gr, co, ca) : q < r})
       <= lim}
TakenNewestFirst(st, gr, co, ca, ac, lim) ==
  {r \in Queued(st) :
     Cardinality(ac) + Cardinality({q \in Startable(st, gr, co, ca) : q > r})
       < lim}
TakenCountingStops(st, gr, co, ca, ac, lim) ==
  {r \in Queued(st) :
     Cardinality(ac) + Cardinality({q \in Queued(st) : q < r}) < lim}

Taken(st, gr, co, ca, ac, lim) ==
  LET able == Startable(st, gr, co, ca)
  IN  {r \in Queued(st) :
         Cardinality(ac) + Cardinality({q \in able : q < r}) < lim}

DrainStarts(st, gr, co, ca, ac, lim) ==
  Taken(st, gr, co, ca, ac, lim) \cap Startable(st, gr, co, ca)

DrainStops(st, gr, co, ca, ac, lim) ==
  LET spent == Taken(st, gr, co, ca, ac, lim) \ Startable(st, gr, co, ca)
  IN  {q \in RunId : Updatable(st, q) /\ \E r \in spent : gr[q] = gr[r]}

\* Ends every handler: from the status st, active map ac, coroutines p and
\* waiters w it leaves, start and stop runs.  The budget and the limit are
\* those after the handler.  A stopped run holds no slot: a group whose budget is
\* spent has no member at work (SpentGroupStopped), so that the cleanup() of its
\* members finds nothing to drop.
Drain(st, ac, p, w) ==
  LET starts == DrainStarts(st, group', cost', cap', ac, limit')
      stops  == DrainStops(st, group', cost', cap', ac, limit')
  IN  /\ status' = [r \in RunId |-> IF r \in starts THEN "running"
                                    ELSE IF r \in stops THEN "failed"
                                    ELSE st[r]]
      /\ active' = ac \cup starts
      /\ pc' = [r \in RunId |-> IF r \in starts THEN "trust" ELSE p[r]]
      /\ waiting' = w \ stops

\* Fault of cleanup(): the interval is not cleared.
CleanupKeepingInterval(rs) ==
  /\ dialogs' = [r \in RunId |-> IF r \in rs THEN {} ELSE dialogs[r]]
  /\ keepAlive' = keepAlive
  /\ deadline' = deadline \ (rs \cap active)

\* cleanup(): drop the active records of rs with their dialogs and timers.
Cleanup(rs) ==
  /\ dialogs' = [r \in RunId |-> IF r \in rs THEN {} ELSE dialogs[r]]
  /\ keepAlive' = keepAlive \ (rs \cap active)
  /\ deadline' = deadline \ (rs \cap active)

\* finish(): nothing once the run has left the active map.  Its waiter is
\* resolved only if the record took the final status.
Finish(r, s, p) ==
  IF r \in active
  THEN /\ Cleanup({r})
       /\ Drain(Updated(status, r, s), active \ {r}, p,
                IF Updatable(status, r) THEN waiting \ {r} ELSE waiting)
  ELSE /\ pc' = p
       /\ UNCHANGED <<status, active, dialogs, waiting, timers>>

\* The parts of the store no handler of a running turn touches.
submitted == <<created, group, unlimited, limit>>
budget    == <<cost, cap>>

\* The run's active record holds its session and listens to it.
Listening(r) == r \in active /\ pc[r] \in {"settings", "prompt"}

-----------------------------------------------------------------------------
\* Requests

\* createQueuedRun: a new record takes the cap its group has been extended to,
\* the newest is listed first and the list is cut to MaxRuns.
Create(g, noDeadline, wait) ==
  LET n        == created + 1
      kin      == {q \in Stored(status) : g # NoGroup /\ group[q] = g}
      overflow == Cardinality(Stored(status)) >= MaxRuns
      oldest   == Min(Stored(status))
      st       == [r \in RunId |-> IF r = n THEN "queued"
                                  ELSE IF overflow /\ r = oldest THEN "evicted"
                                  ELSE status[r]]
  IN  /\ up /\ n \in RunId
      /\ created' = n
      /\ group' = [group EXCEPT ![n] = g]
      /\ cap' = [cap EXCEPT ![n] = IF g = NoGroup THEN 0
                                   ELSE IF kin = {} THEN InitialCap
                                   ELSE cap[Max(kin)]]
      /\ unlimited' = IF noDeadline THEN unlimited \cup {n} ELSE unlimited
      /\ UNCHANGED <<cost, limit>>
      /\ Drain(st, active, pc, IF wait THEN waiting \cup {n} ELSE waiting)
      /\ UNCHANGED <<up, dialogs, timers, cancelling, session, history>>

Enqueue ==
  \E g \in GroupChoices, d \in TimeoutChoices, w \in WaitChoices :
    Create(g, d, w)

Retry(r) ==
  /\ status[r] \in Terminal
  /\ Create(group[r], r \in unlimited, FALSE)

\* cancel() of a run with no session to abort: its await yields to nothing else
\* that touches the run.  A call for a finished run that holds no slot and has
\* no waiter changes nothing and is left out.
CancelAtOnce(r) ==
  /\ up /\ r \in Stored(status) /\ ~Listening(r)
  /\ Updatable(status, r) \/ r \in active \cup waiting
  /\ UNCHANGED <<submitted, budget, up, cancelling, session, history>>
  /\ Cleanup({r})
  /\ Drain(Updated(status, r, "cancelled"), active \ {r}, pc, waiting \ {r})

\* cancel() of a run with a session, up to its await: the record is terminal at
\* once, the slot is not given back yet.
CancelBegins(r) ==
  /\ r \in Stored(status) /\ Listening(r)
  /\ Cardinality(cancelling) < MaxCancels
  /\ status' = Updated(status, r, "cancelled")
  /\ cancelling' = cancelling \cup {r}
  /\ UNCHANGED <<submitted, budget, up, active, dialogs, waiting, timers, pc,
                 session, history>>

\* Fault of cancel(): the slot is not given back.
CancelResumesHolding(r) ==
  /\ r \in cancelling
  /\ cancelling' = cancelling \ {r}
  /\ waiting' = waiting \ {r}
  /\ UNCHANGED <<store, up, active, dialogs, timers, pc, session, history>>

\* The abort is acknowledged once the session is idle: at once while the prompt
\* command still takes its snapshot.
CancelResumes(r) ==
  /\ r \in cancelling
  /\ turn[r] # "working" \/ r \in closed
  /\ cancelling' = cancelling \ {r}
  /\ UNCHANGED <<submitted, budget, up, session, history>>
  /\ Cleanup({r})
  /\ Drain(status, active \ {r}, pc, waiting \ {r})

\* The abort is rejected: cancel() throws with the slot still taken.
CancelRejected(r) ==
  /\ r \in cancelling
  /\ Cardinality(abortFailed \cup {r}) <= MaxRejected
  /\ cancelling' = cancelling \ {r}
  /\ abortFailed' = abortFailed \cup {r}
  /\ UNCHANGED <<store, up, active, dialogs, waiting, timers, pc, session,
                 overtaken, restarts>>

\* Fault of setMaxConcurrency(): no drain.
SetMaxConcurrencyQuietly(n) ==
  /\ up /\ limit' = n
  /\ UNCHANGED <<created, status, group, cost, cap, unlimited, up, active, pc,
                 waiting, dialogs, timers, cancelling, session, history>>

SetMaxConcurrency(n) ==
  /\ up /\ limit' = n
  /\ UNCHANGED <<created, group, cost, cap, unlimited, up, dialogs, timers,
                 cancelling, session, history>>
  /\ Drain(status, active, pc, waiting)

\* Fault of extend(): only the record of the run itself is extended.
ExtendAlone(r) ==
  /\ up /\ r \in active /\ Updatable(status, r)
  /\ cap[r] * 2 <= MaxCap
  /\ cap' = [cap EXCEPT ![r] = 2 * @]
  /\ UNCHANGED <<submitted, status, cost, up, active, dialogs, waiting, timers,
                 cancelling, pc, session, history>>

\* extend() doubles the cap of every stored or active member and re-arms the
\* deadline of the run alone.
Extend(r) ==
  /\ up /\ r \in active /\ Updatable(status, r)
  /\ cap[r] * 2 <= MaxCap
  /\ status' = [status EXCEPT ![r] = IF dialogs[r] = {} THEN "running"
                                     ELSE "waiting_for_input"]
  /\ cap' = [q \in RunId |->
               IF /\ group[r] # NoGroup /\ group[q] = group[r]
                  /\ q \in Stored(status) \cup active
               THEN 2 * cap[r] ELSE cap[q]]
  /\ deadline' = IF r \in unlimited THEN deadline ELSE deadline \cup {r}
  /\ UNCHANGED <<submitted, cost, up, active, dialogs, waiting, keepAlive,
                 cancelling, pc, session, history>>

-----------------------------------------------------------------------------
\* execute(): the coroutine of one run, from await to await

Trusted(r) ==
  /\ pc[r] = "trust"
  /\ pc' = [pc EXCEPT ![r] = "start"]
  /\ UNCHANGED <<store, up, active, dialogs, waiting, timers, cancelling,
                 session, history>>

\* The coroutine is over; nothing reads its prompt command or session again.
Returns(r) ==
  /\ turn' = [turn EXCEPT ![r] = "none"]
  /\ closed' = closed \ {r}
  /\ UNCHANGED <<submitted, budget, up, cancelling, history>>

\* The catch block: whatever was awaited threw.
Fails(r) ==
  /\ Returns(r)
  /\ Finish(r, "failed", [pc EXCEPT ![r] = "done"])

TrustRefused(r) == pc[r] = "trust" /\ Fails(r)
StartFails(r)   == pc[r] = "start" /\ Fails(r)

\* The one re-check of the active map: a run cancelled while its session was
\* opening goes no further.
SessionStarted(r) ==
  /\ pc[r] = "start"
  /\ pc' = [pc EXCEPT ![r] = IF r \in active THEN "settings" ELSE "done"]
  /\ status' = IF r \in active THEN Updated(status, r, "running") ELSE status
  /\ UNCHANGED <<submitted, budget, up, active, dialogs, waiting, timers,
                 cancelling, session, history>>

\* Fault of execute(): no deadline is armed.
SettingsAppliedUntimed(r) ==
  /\ pc[r] = "settings"
  /\ pc' = [pc EXCEPT ![r] = "prompt"]
  /\ turn' = [turn EXCEPT ![r] = "snapshot"]
  /\ keepAlive' = keepAlive \cup {r}
  /\ overtaken' = IF r \in active THEN overtaken ELSE overtaken \cup {r}
  /\ UNCHANGED <<store, up, active, dialogs, waiting, deadline, cancelling,
                 closed, abortFailed, restarts>>

\* set_model and set_thinking_level returned.  No re-check: the timers are armed
\* and the prompt command is sent whether or not the run is still active.
SettingsApplied(r) ==
  /\ pc[r] = "settings"
  /\ pc' = [pc EXCEPT ![r] = "prompt"]
  /\ turn' = [turn EXCEPT ![r] = "snapshot"]
  /\ keepAlive' = keepAlive \cup {r}
  /\ deadline' = IF r \in unlimited THEN deadline ELSE deadline \cup {r}
  /\ overtaken' = IF r \in active THEN overtaken ELSE overtaken \cup {r}
  /\ UNCHANGED <<store, up, active, dialogs, waiting, cancelling, closed,
                 abortFailed, restarts>>

SettingsRejected(r) == pc[r] = "settings" /\ Fails(r)

\* The prompt command of rpc-manager.ts awaits a snapshot of the working tree,
\* then hands the message to the SDK; nothing is re-checked in between, not even that
\* the session was not destroyed.
PromptBegins(r) ==
  /\ pc[r] = "prompt" /\ turn[r] = "snapshot"
  /\ turn' = [turn EXCEPT ![r] = "working"]
  /\ UNCHANGED <<store, up, active, dialogs, waiting, timers, cancelling, pc,
                 closed, history>>

\* The SDK's prompt promise resolves: the turn is over, or the message was a
\* command that runs no agent and emits no agent_end.
PromptResolved(r) ==
  /\ pc[r] = "prompt" /\ turn[r] = "working"
  /\ Returns(r)
  /\ Finish(r, "completed", [pc EXCEPT ![r] = "done"])

PromptRejected(r) == pc[r] = "prompt" /\ Fails(r)

-----------------------------------------------------------------------------
\* Events of the run's session, delivered while its listener is subscribed

DialogOpened(r, d) ==
  /\ Listening(r) /\ r \notin closed /\ d \notin dialogs[r]
  /\ dialogs' = [dialogs EXCEPT ![r] = @ \cup {d}]
  /\ status' = Updated(status, r, "waiting_for_input")
  /\ UNCHANGED <<submitted, budget, up, active, waiting, timers, cancelling,
                 pc, session, history>>

\* Fault: the other dialogs of the run are forgotten.
DialogClosedOverOthers(r, d) ==
  /\ Listening(r) /\ d \in dialogs[r]
  /\ dialogs' = [dialogs EXCEPT ![r] = @ \ {d}]
  /\ status' = Updated(status, r, "running")
  /\ UNCHANGED <<submitted, budget, up, active, waiting, timers, cancelling,
                 pc, session, history>>

DialogClosed(r, d) ==
  /\ Listening(r) /\ d \in dialogs[r]
  /\ dialogs' = [dialogs EXCEPT ![r] = @ \ {d}]
  /\ status' = IF dialogs'[r] = {} THEN Updated(status, r, "running")
               ELSE status
  /\ UNCHANGED <<submitted, budget, up, active, waiting, timers, cancelling,
                 pc, session, history>>

\* agent_end, in success or in error; the prompt promise is still pending.
AgentEnd(r, s) ==
  /\ Listening(r) /\ turn[r] = "working" /\ r \notin closed
  /\ UNCHANGED <<submitted, budget, up, cancelling, session, history>>
  /\ Finish(r, s, pc)

\* message_end of the assistant: the cost is recorded; a spent shared budget
\* fails the whole group, a limit of the run's own fails the run.
MessageEnd(r, c, ownLimit) ==
  LET co    == IF Updatable(status, r) THEN [cost EXCEPT ![r] = @ + c] ELSE cost
      spent == Exhausted(status, group, co, cap, r)
      hit   == {q \in RunId : Updatable(status, q) /\ group[q] = group[r]}
  IN  /\ Listening(r) /\ turn[r] = "working" /\ r \notin closed
      /\ c = 0 \/ group[r] # NoGroup
      /\ cost[r] + c <= MaxCost
      /\ cost' = co
      /\ UNCHANGED <<submitted, cap, up, cancelling, session, history>>
      /\ \/ /\ spent
            /\ Cleanup(hit)
            /\ Drain([q \in RunId |-> IF q \in hit THEN "failed" ELSE status[q]],
                     active \ hit, pc, waiting \ hit)
         \/ /\ ~spent /\ ownLimit
            /\ Finish(r, "failed", pc)
         \/ /\ ~spent /\ ~ownLimit
            /\ UNCHANGED <<status, active, dialogs, waiting, timers, pc>>

\* The session is destroyed from outside.  Its open dialogs close first; it
\* sends no events any more.
SessionCloses(r) ==
  /\ pc[r] \in {"settings", "prompt"} /\ r \notin closed
  /\ closed' = closed \cup {r}
  /\ dialogs' = [dialogs EXCEPT ![r] = {}]
  /\ status' = IF Listening(r) /\ dialogs[r] # {}
               THEN Updated(status, r, "running") ELSE status
  /\ UNCHANGED <<submitted, budget, up, active, waiting, timers, cancelling,
                 pc, turn, history>>

-----------------------------------------------------------------------------
\* Timers

\* Fault: the deadline aborts the session and leaves the rest to agent_end.
DeadlineOnlyAborts(r) ==
  /\ r \in deadline
  /\ deadline' = deadline \ {r}
  /\ UNCHANGED <<store, up, active, dialogs, waiting, keepAlive, cancelling, pc,
                 session, history>>

Deadline(r) ==
  /\ r \in deadline
  /\ UNCHANGED <<submitted, budget, up, cancelling, session, history>>
  /\ IF r \in active THEN Finish(r, "failed", pc)
     ELSE /\ deadline' = deadline \ {r}
          /\ UNCHANGED <<status, active, dialogs, waiting, keepAlive, pc>>

\* A keep-alive tick finds the session destroyed, or its get_state rejected.
KeepAliveFails(r) ==
  /\ r \in keepAlive \cap active
  /\ UNCHANGED <<submitted, budget, up, cancelling, session, history>>
  /\ Finish(r, "failed", pc)

-----------------------------------------------------------------------------
\* The process

\* The process dies: only the store survives.
Crash ==
  /\ up /\ restarts < MaxRestarts
  /\ up' = FALSE
  /\ restarts' = restarts + 1
  /\ active' = {} /\ waiting' = {} /\ keepAlive' = {} /\ deadline' = {}
  /\ dialogs' = [r \in RunId |-> {}]
  /\ cancelling' = {} /\ closed' = {} /\ abortFailed' = {} /\ overtaken' = {}
  /\ pc' = [r \in RunId |-> "idle"]
  /\ turn' = [r \in RunId |-> "none"]
  /\ UNCHANGED store

\* Fault: runs of the process that died are not reconciled.
StartUnreconciled ==
  /\ ~up /\ up' = TRUE
  /\ UNCHANGED <<submitted, budget, dialogs, timers, cancelling, session,
                 history>>
  /\ Drain(status, active, pc, waiting)

\* Boot: the constructor reads the limit, start() interrupts the runs of the
\* process that died and drains.
Start ==
  /\ ~up /\ up' = TRUE
  /\ UNCHANGED <<submitted, budget, dialogs, timers, cancelling, session,
                 history>>
  /\ Drain([r \in RunId |-> IF status[r] \in Active THEN "interrupted"
                            ELSE status[r]],
           active, pc, waiting)

-----------------------------------------------------------------------------
Request ==
  \/ Enqueue
  \/ \E r \in RunId : Retry(r) \/ CancelAtOnce(r) \/ CancelBegins(r) \/ Extend(r)
  \/ \E n \in 1..MaxLimit : SetMaxConcurrency(n)

Coroutine(r) ==
  \/ Trusted(r) \/ TrustRefused(r)
  \/ SessionStarted(r) \/ StartFails(r)
  \/ SettingsApplied(r) \/ SettingsRejected(r)

Prompt(r) == PromptBegins(r) \/ PromptResolved(r) \/ PromptRejected(r)

SessionEvent(r) ==
  \/ \E d \in Dialogs : DialogOpened(r, d) \/ DialogClosed(r, d)
  \/ \E s \in {"completed", "failed"} : AgentEnd(r, s)
  \/ \E c \in TurnCosts, b \in BOOLEAN : MessageEnd(r, c, b)
  \/ SessionCloses(r)

Next ==
  \/ Request
  \/ \E r \in RunId :
       \/ CancelResumes(r) \/ CancelRejected(r)
       \/ Coroutine(r) \/ Prompt(r) \/ SessionEvent(r)
       \/ Deadline(r) \/ KeepAliveFails(r)
  \/ Crash \/ Start

Spec == Init /\ [][Next]_vars

\* The trust check, opening the session and applying the settings return one
\* way or the other, an armed timer fires, a daemon that died is started again.
\* Nothing is assumed of the model, of the user or of an abort.
Fairness ==
  /\ \A r \in RunId : WF_vars(Coroutine(r)) /\ WF_vars(Deadline(r))
  /\ WF_vars(Start)

FairSpec == Spec /\ Fairness

-----------------------------------------------------------------------------
(***************************************************************************)
(* Properties                                                               *)
(***************************************************************************)

\* A record says "running" or "waiting for input" only while the process holds
\* the run in its active map: otherwise nothing would ever end it.
ActiveStatusTracked ==
  up => \A r \in RunId : status[r] \in Active => r \in active

\* A run whose record is already terminal keeps its slot, or lets a caller of
\* enqueueAndWait wait, only because a cancel() is still waiting for the abort, or was
\* left by a rejected one.
FinishedLetsGo ==
  \A r \in active \cup waiting : status[r] \in Terminal =>
    r \in abortFailed \cup cancelling

\* No handler leaves a queued run behind while a slot is free, so that drain()
\* is called everywhere it has to be.
WorkConserving ==
  up => Queued(status) = {} \/ Cardinality(active) >= limit

\* A step that starts a run respects the limit, and takes a run only when every
\* older one has left the queue.  Lowering the limit stops nothing.
StartsInOrderWithinLimit ==
  [][LET starts == active' \ active
     IN  starts # {} =>
           /\ Cardinality(active') <= limit'
           /\ \A s \in starts, q \in Queued(status') : s < q]_vars

\* A terminal record is never written again; it can only fall off the store.
TerminalForGood ==
  [][\A r \in RunId : status[r] \in Terminal =>
       status'[r] \in {status[r], "evicted"}]_vars

\* The record tells the user that input is needed exactly while a dialog of the
\* run is open.
DialogStatus ==
  \A r \in active : status[r] \in Active =>
    (status[r] = "waiting_for_input" <=> dialogs[r] # {})

\* Only a run overtaken by its own cancellation leaks a timer.
TimersTracked == keepAlive \cup deadline \subseteq active \cup overtaken

\* Every stored run of a group carries the same cap, so that an extension cannot
\* be undone by another member's record.
OneCapPerGroup ==
  \A q, r \in Stored(status) :
    group[q] = group[r] /\ group[q] # NoGroup => cap[q] = cap[r]

\* No stored run of a group whose budget is spent is still working.
SpentGroupStopped ==
  up => \A r \in Stored(status) :
          status[r] \in Active => ~Exhausted(status, group, cost, cap, r)

\* The stored runs of a group agree on its cap, and once it is spent none of them is at
\* work.
BudgetIsShared == OneCapPerGroup /\ SpentGroupStopped

\* A queued run is started or ends, in order, whatever the model does: the
\* deadlines of the runs ahead of it free their slots.  Only runs the user gave
\* no time limit may block it.
QueuedRunLeaves ==
  \A r \in RunId : status[r] = "queued" ~>
                      status[r] # "queued" \/ active \cap unlimited # {}

\* A started run with a time limit does not hold its slot forever.
SlotIsFreed ==
  \A r \in RunId : r \in active \ unlimited ~> r \notin active

\* Pinned by src/lib/__tests__/agent-supervisor.test.ts:68, for one of the two
\* windows: a cancelled run's session is not prompted.
CancelledIsNotPrompted ==
  [][\A r \in RunId : status[r] \in Terminal =>
       ~(turn[r] # "working" /\ turn'[r] = "working")]_vars

\* The supervisor is a bounded, first-come first-served, work-conserving pool.
Pool == INSTANCE RunPool WITH
          queue   <- Queued(status),
          running <- active,
          limit   <- IF up THEN limit ELSE 0

PoolSpec == Pool!Spec

=============================================================================
