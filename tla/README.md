# A verification project for tgd-pi-web

tgd-pi-web is a web front end for the Pi coding agent: one Node server that
hosts agent sessions of an SDK, runs agents in the background and on a
schedule, and streams their events to browsers. This directory holds TLA+
modules translated from its source, TLC configurations that model-check them on
small instances, and TLAPS proofs of what holds for every instance.

Check everything from this directory:

    tlc -workers 2 -config MCSupervisorRuns.cfg MCAgentRunSupervisor
    tlapm AgentRunSupervisorProofs.tla

`PROJECT.json` lists the components, the runs, the lines of code every definition
stands for (`map`), a faulty variant of the code for every property (`mutants`),
the disagreements between code and documentation (`findings`), the hazards and
the theorems.

## The system

| part | state | operations | talks to |
|---|---|---|---|
| **Background runs** `lib/agent-run-supervisor.ts`, `agent-run-store.ts` | `agent-runs.json` (newest first, 1,000 records, concurrency); in memory the active map (session, listener, keep-alive, deadline, open dialogs), the waiters | enqueue, enqueueAndWait, retry, cancel, extend, setMaxConcurrency, drain, execute, session events, timers, boot | session wrapper, store |
| **Scheduled agents** `lib/schedule-runner.ts`, `schedule-store.ts`, `app/api/schedules` | `schedules.json` (definitions, next occurrence, last status, 500 records); in memory one timer, `ticking`, and per run a closure with listener and timers | POST, PATCH, DELETE, run now, wake, tick, execute, session events, timers, boot | schedule timing, session wrapper, store |
| **Schedule timing** `lib/schedule-core.ts` | none | next occurrence in a time zone | - |
| **Session wrapper** `lib/rpc-manager.ts` | one per live session: run state, pending resume, shell command, compaction and its queue, dialogs, event log; a registry of wrappers by session | prompt, abort, resume, restart with settings, compact, replace the session, recover, idle and authentication restarts | SDK, event log, dialogs |
| **Event log and stream** `lib/agent-event-log.ts`, `agent-stream-wire.ts`, `app/api/agent/[id]/events`, `hooks/use-agent-connection.ts` | a bounded log with an epoch and a sequence; the tab's cursor, delta baseline, retry and failsafe timers | append, replay, snapshot, alias, connect, retry, recover | session wrapper, browser |
| **Extension dialogs** `lib/web-extension-ui.ts` | pending dialogs with timers, receipts of answers | open, answer, time out, abort, reset | extension, browser |
| **Compaction** `lib/compaction-controller.ts`, `rpc-manager.ts` | the current and the known requests; the queue of messages, its flush and timer | compact, SDK events, queue commands, flush | SDK, wrapper |
| **Fork retries** `lib/fork-request-cache.ts` | requests under way and answers kept for a while | run | agent route |
| **Managed updates** `scripts/update-operation-store.mjs`, `managed-update-runner.mjs`, `lib/update-center.ts` | one record per operation, a lock, a mutex directory | reserve, list and judge, patch, run the helper, verify, recover | server, detached supervisor, helper |
| **Versioned files** `lib/versioned-file.ts`, `file-mutation-lock.ts` | locks in memory and on disk | load, save if unchanged | editor, configuration routes |
| **Session list** `lib/session-list-store.ts`, `session-reader.ts` | a tab's list, pending names, optimistic conversations; the server's shared scan | refresh, rename, delete, create | server |
| **MCP connections** `lib/mcp-client.ts`, `mcp.ts` | one connection per configured server with its catalog of tools and its status; the file of configurations | connect, discover, probe, test, fail, save and invalidate | processes of the servers, extensions |
| **Request cache** `lib/request-state.ts`, `hooks/useRequestResource.ts` | per key the data, their age, the request under way and its listeners | load, refresh, retry, abort, invalidate, set | panels, routes |

What makes these parts hard is the same everywhere. A handler is atomic from one
`await` to the next; state read before an `await` is used after it; the server
dies and starts again with what its files hold; lists are bounded; timers race
answers. Each part's correctness is about the agreement of two of its records:
the store with the memory of the process, a status with the session it
describes, a timer with what it has to wake up, a client with the server.

What makes each part correct:

* Background runs: first come first served within the limit, no idle slot beside
  a queued run, terminal records final, every active record held by the process,
  every waiter and timer accounted for, one cap per shared budget and nobody at
  work beyond it, every queued run leaves the queue.
* Scheduled agents: one active run per schedule, no occurrence handled twice, a
  timer for every occurrence stored, what is due is handled, missed ones follow
  the policy, no run blocks its schedule for ever.
* Event stream: a tab shows every event once and in order, or starts again from
  a snapshot; deltas are applied to the text they were computed from; a tab is
  not left behind a live runtime.
* Runs of a session: a stop is honoured also while a run is being prepared, the
  admission is never kept by a command that has ended, what is shown as running
  runs.
* Registry: a request for a session reaches the runtime that serves it.
* Compaction: what is shown is what the SDK does; no message is sent twice, and none
  that was accepted is lost but by a failure or a command that is named; a queue is
  always somebody's to send.
* Dialogs: who is told that his answer was accepted gave the answer the
  extension got.
* Updates: a living helper has the lock; verdicts stand. Files: nobody
  overwrites what he has not seen. List: one's own changes stay. Forks: a retry
  makes no second fork.
* MCP: a connection that lost its slot starts and shows nothing and leaves no
  process; tools that changed during a listing are listed again. Request cache:
  what passes for fresh holds the writes the cache was told of, and no enabled
  panel whose delay is over waits for nothing.

## Modules

    RunPool                      what the supervisor promises: a pool and a queue
      ^ implemented by
    AgentRunSupervisor           supervisor, store, the session as a run sees it
    MCAgentRunSupervisor         instances, and drain() as the loop of the code
    MCSupervisorBudget           shared budgets and the loop, in one run

    ScheduleRunner               runner, store, routes, the session as a run sees it
    MCScheduleRunner             instances

    SessionFeed                  what the stream promises a tab
      ^ implemented by
    SessionStream                log, route, connection, the tab's refs

    SessionRuns                  commands of one session, admission, stop, SDK runs
    CompactionQueue              compactions and the messages queued meanwhile
    SessionRegistry              who serves a session: starts, replacements, recovery
    ExtensionDialogs             dialogs and receipts
    UpdateOperations             server, supervisor, helper; record, lock, mutex
    VersionedFiles               saves with two locks and a second look
    SessionList                  a tab's list and the server's scan
    ForkRequests                 forks that are asked for again
    McpConnections               the connections to an MCP server
    RequestCache                 the panels' shared requests
    MCParts                      instances of the last ten

Proofs are in modules of their own. AgentRunSupervisor, ScheduleRunner,
SessionStream, SessionRuns, CompactionQueue, SessionRegistry and UpdateOperations
each have an `XProofs` that extends `X`; those of the other five parts are in
MCPartsProofs, beside the theorems that carry all ten over to `MCParts`, which
instantiates the proof modules where there are any.

The code keeps the parts apart by narrow interfaces, and so do the modules: the
SDK is external and appears as the choices it has (when a run begins and ends,
whether a call is refused); a session inside `AgentRunSupervisor` and
`ScheduleRunner` is a prompt that is being prepared, works and ends, which is
what `SessionRuns` shows to its callers.

### AgentRunSupervisor

The stored record of run `r` is `status[r]`, `group[r]`, `cost[r]`, `cap[r]` and
membership of `unlimited`; runs are numbered in order of creation, so that the
newest-first list of the store needs no sequence. `active`, `waiting`,
`keepAlive`, `deadline` and `dialogs` are the maps, timers and sets of the same
names in the code. `pc[r]` is the `await` at which `execute()` stands: the trust
check, `startRpcSession`, the settings, the prompt. `turn[r]` is the prompt command
inside `AgentSessionWrapper`: taking its snapshot, or working. `closed` are the
sessions destroyed from outside, `cancelling` the runs of which a `cancel()` awaits
the abort.

Each handler is an action of its own and ends as the code does, in `Drain`.
`Drain` is the loop of `drain()` in closed form: it takes a queued run exactly when
the older startable ones leave a slot. `DrainIsTheLoop` compares it with the loop
itself, over every store of four records that satisfies `SpentGroupStopped`, which
every reachable state does: the other half of the same run shows it of three runs,
`BudgetsAreShared` proves it of any number. What a group has cost is added up by
`Total`, run after run, as `reduce` does in `groupCost()`. `cancel()` is
three actions, because it awaits the abort: `CancelBegins` writes the record,
`CancelResumes` gives the slot back, `CancelRejected` throws. A run without a
session has nothing to wait for (`CancelAtOnce`).

Three history variables make the properties exact: `abortFailed` (runs left by a
rejected abort), `overtaken` (runs whose timers were armed after they had left the
active map) and `restarts`, which is also a bound.

Left out: reports, warnings, the text of errors, web push, the abort signal of
`enqueueAndWait` (it calls `cancel()`), the branch of `finish()` for records that do
not exist, and writes to the store that fail. A limit of a run's own (turns, cost)
is a choice of `MessageEnd`; money is counted only in shared budgets. `extend()`
doubles the cap; the time it adds is not counted, since a deadline may fire at any
time once armed. A crash falls between two handlers: a crash between the writes of
one handler leaves a store that `Start` treats as it treats the one before or after
the handler, because `start()` drains the queue itself.

### ScheduleRunner

`def`, `next`, `lastStatus` are the stored schedules; `status`, `of`, `trigger`,
`scheduledFor` the stored runs; `timer` the time at which the one timer fires.
`ticking` and `due` are the loop of `tick()`. The loop never yields, but each round
writes the store: a round is an action so that a crash may fall between two, and
`Idle` in every other guard keeps handlers out, as the event loop does. `editing`
holds what a `PATCH` has merged before its awaits. `pc[r] = "parked"` is a run whose
`execute()` has returned from the prompt without an `agent_end`; its listener and
timers stay. The clock moves at any time outside the loop, and past an armed timer:
a suspended machine does that.

The occurrences of a recurring schedule are the multiples of `Period`, those of a
one-time schedule a single date: this is all that the runner uses of
`nextScheduleRunAt`, the first occurrence strictly after a time. The 24-hour limit
may be reached at any time once its timer is armed. `LastStatusHonest` has a
disjunct for a run whose record was pushed out of the store: its end is not
written to its schedule either.

Left out: prompts and tools, health counters, migration of old stores, `dispose()`
(used by tests), and store writes that fail.

### SessionStream

`wrappers[e]` is a runtime, in the order they were started; its place stands for
the random epoch. `entries` is the log, `oldest` the first one still kept, `base`
the baseline of the deltas, `former` the sessions it served before (the aliases),
`served` the history of all of them, `key` the id it is registered under. A
replacement goes through `runRuntimeReplacement()` step by step: `BeginReplacement`
(`op = "begun"`), `Rebind` (`currentInner` is the new session, "bound"), `Register`
(`onSessionReplaced`, which a conflict refuses), `FinishReplacement` with its event, or
`Restore`, `Register` and `FailReplacement`, or `CancelReplacement`. Its target is any
session no other runtime is registered under, one the runtime served before and the one
it serves included: `switchSession()` and `importSession()` may go from A to B and back
to A, and a cursor that was left at A is then resumed and replayed with the turns in
between. The key differs from the session served between `Rebind` and `Register`, and
after a failure that a conflict kept from registering (`rpc-manager.ts:1774`).

`conn` is the listener a route has registered, `channel` the frames under way, `tab` the
refs of `useAgentEvents()`, `view` what the tab shows; `view.turned` marks a page that an
event has turned to another session and that is about to be mounted anew
(`setSessionKey`). The route answers a connection in its three ways (`AcceptResumed`,
`AcceptRegistered`, `AcceptStarted`) or refuses. A log entry is the number of its
event, its type and the session it belongs to; that is all replay, deduplication and
snapshots tell apart. `Emitted` lists the types that a runtime publishes at any time.

`SessionFeed` knows no cursors: a tab shows a prefix of one runtime's events,
extends it by the next one and goes where that leads (`Extend`), or exchanges it for
another prefix, a longer one if it is of the same runtime (`Replace`), or is told to
turn (`Follow`). It turns only between sessions that one runtime has served. It does
not say that a tab never returns to a session it has left: with a runtime that goes
from A to B and back, or one that fails over to its former session, it does. `FeedSpec`
is the refinement.

What the code does and the properties leave room for: a tab that connects with a cursor
from before a round trip follows the replayed `session_replaced` to B, is mounted
anew for B and is brought back by the notice of the move; a `session_snapshot` of a
session that the page does not display changes the cursor and shows nothing
(`useAgentSession.ts:394`), from where on the module regards the page as following nobody
(`Lose`), although the code appends what comes after; a connection answered by a runtime
while its key and session differ has just such a snapshot (`conn.stray`);
`QuietMeansCurrent` excepts it, and pages that have turned. Logged `session_snapshot`
events that are replayed set `ready` before the snapshot of the connection itself, and
events of a new session reach old listeners before `session_replaced` does.

A page that has turned to another session is mounted anew before it connects again, which
the delays of the retries leave it time for. Left out: `recoverFailedRuntime()`, which
`SessionRegistry` has, the event that `completeMigration()` sends before
`session_closed`, and the channel over which the tabs of one browser tell each other of a
replacement they followed (`useAgentSession.ts:515`): there is one tab.

### SessionRuns

`cmds` are the commands, each at the `await` it stands at: the end of the run it
stops, the snapshot, the SDK's promise. `pendingResume`, `cancelled` and
`preparing` are the object of that name, kept per command because a command keeps
the object when it is replaced. The SDK refuses a second run, prepares before
`agent_start`, and reports `agent_end` before the promise settles. `masked` marks
the one case in which the wrapper shows no run although there is one: the
rejection of a second prompt emits an `agent_end`. Other things the module shows
and the properties leave room for: `restartForAuthIfIdle` looks neither at
`runActive` nor at a prompt that awaits its snapshot, and such a prompt goes to
whatever session is current when the snapshot is taken.

### CompactionQueue

`comp` and `requests` are the controller's state and ids; `queue`, `known`,
`flush`, `timers` the queue, the ids seen, the coroutine that flushes and the
timer that retries. `OnceOrExplained` names the ways a message may end unsent: the
user cleared it, its session was replaced, or it was refused when another run had
ended since (`rpc-manager.ts:328`; an error is shown). `QueueIsServed` excepts a
queue whose last flush ended with an error, which is shown, and a message queued in
a new session while the flush of the former is still awaited (`rest =
"replaced"`): the flush returns early and nobody calls the next one. The module
assumes of the SDK that `isCompacting` is cleared in the turn of the event loop
that reported the end. A message that arrives while nothing compacts is handed over
directly, and that is awaited: `handing` says which are on their way, to a run
(`steer()`, `followUp()`) or as a prompt that takes its snapshot, `HandedOver` and
`HandOverFails` how it ends. Its id is remembered before (1360). If the hand-over fails,
the client that repeats its request is answered `{queued: true}` although nobody holds
the message: `OnceOrExplained` excepts exactly these (`refused`). Left out: that ids
beyond the last 128 are forgotten (1361).

### SessionRegistry

A wrapper is starting under a lock, ready, replacing or failed; `op` is the stage
of `runRuntimeReplacement()`, `rec` that of `recover_runtime`. `hooks` and
`opHooks` say whether the runtime that holds the session still calls the wrapper:
`restoreRuntime` unsets them (466). `CheckTarget` asks the registry for the target of a
switch, `BeginSwitch` begins it when that has returned: others may register in between. A
failed runtime becomes "ready" when a
replacement that began before ends later (494, 506).

### ExtensionDialogs, UpdateOperations, VersionedFiles, SessionList, ForkRequests

*Dialogs.* An answer, a timeout, an abort and the end of the session race;
`receipts` are bounded, the oldest goes. Statuses, widgets and titles are left out.

*Updates.* Every process is a `pc` and what it has read: a patch is a read and a
write. `contended` marks operations whose release failed after the verdict: the
runner's `catch` then writes "failed" over "succeeded". Whatever else may throw does:
a patch that cannot be read or written (`PidFails`, `PatchFails`), the second look at
the record and the checks before the first attempt to verify (`CheckThrows`). A list that judged an
operation by an earlier read may still mark it "interrupted". The helper's work
and the release check are choices; deaths fall between any two steps.

*Files.* A version is who wrote it, from what. A write from outside the lock that
falls between the second look and the rename is lost; `NoSaveLost` says that this
is the only one. A read-back that fails after the rename reports an error although
the file is saved.

*List.* A response older than a deletion shows the conversation again until the
refresh that is owed; a conversation that another client deletes before a list had
it stays; a `DELETE` that fails still forgets the conversation; two renames may be
answered out of order. The properties are about one's own changes.

*Forks.* A request without a key is not recognised again, and a restart forgets
everything: both are what the code intends.

### McpConnections and RequestCache

*Connections.* `connections` are the entries ever made for one server id, `slot` the
one in the manager's map, `shown` its status and which entry wrote it. An entry waits
for the teardown of the one before (`prior`), starts its process, lists its tools
page by page (`listing`, a version per page) and is ready; `closing` is the promise
of that name. `test()` makes an entry that never has the slot. The last page, the
publication and `discovery = undefined` are microtasks of one answer, and one step. Two
things the code does are visible: `fail()` gives the slot away before the old process
has ended, so that for a moment two processes may run, although the comment in
`connect()` (`mcp-client.ts:278`) speaks of duplicate processes; and a caller that read
the configuration before a save may connect with it afterwards (`late`), until the next
caller, who read the new one, replaces that connection. `SavedIsConnected` excepts the
latter.

*Request cache.* Data are the set of writes to the server they hold, so that a
property can say which are missing. A panel that wrote tells the cache in one of three
ways: `refresh()`, `setRequestData()` with what it showed, amended, or
`invalidateRequest()`. The documents do not promise that an answer asked for before a
write is dropped, and it is not: `ToldIsShown` names the three ways in which what was
told may be missing until the next request is answered. An abort ends the request
within the microtasks of the handler, as `fetch` and the wait before a retry do.

A panel is closed, disabled or enabled (`useRequestResource.ts:40`: the package
center without a session, `PackageCenter.tsx:52`; a panel whose key is null subscribes
to nothing and counts as closed). A disabled one subscribes, so that
it keeps a request of the others alive, and asks for nothing. One that becomes enabled
loads, at once or, with `debounceMs` (`Debounced`: searches, model
catalogues of a directory being typed, directory browsing), when its
timer fires (`delays`, `TimerFires`), which closing or disabling it clears. `Commit` is
one commit of React, which may close, open, enable and disable several panels.
`PanelsAreServed` speaks of enabled panels whose delay is over.

### MCParts and MCSupervisorBudget

Parts that share no state need no joint exploration. A behaviour of `MCParts` is one
of a single part, chosen by `part` in the initial state; the variables of the others
keep their initial values. The state space is the sum of the parts', not the
product. `MCSupervisorBudget` does the same with two ways to begin: as the supervisor
does, or with any store a handler may leave and one `drain()`.

## Runs

| run | instance | shows |
|---|---|---|
| `supervisor_pool` | 3 runs, store of 2, limit 1 or 2, 1 cancellation | starts in order and within the limit, no idle slot, implements `RunPool` |
| `supervisor_runs` | 2 runs whose callers wait, limit 1, 2 dialogs, with and without a deadline, 2 cancellations, 1 rejected abort, 1 crash | record and memory agree; nothing leaks; queued runs leave, slots are freed |
| `supervisor_budget` | 3 runs of 1 group, store of 2, limit 1 or 2, cap 1 or 2, turns that cost 1; and all stores of 4 records | one cap per group; a spent group is stopped; `Drain` is the loop of the code |
| `supervisor_cancelled` | 1 run | **violated**: a cancelled run is prompted |
| `schedule_runs` | 1 schedule, 4 records, store of 2, time up to 4 with period 2 and grace 1, a manual run, an edit, a crash, 2 dialogs | one active record, which is live; occurrences once; the timer covers the store; policies |
| `schedule_pair` | 2 schedules, 2 records, store of 1, time up to 3, a crash, under fairness | what is due is handled, runs end, last statuses are honest |
| `schedule_overlap` | 1 schedule, store of 2, time up to 6 | **violated**: two live runs of one schedule |
| `stream` | log of 2, 2 sessions, 2 runtimes, 2 events of the first and 1 of each once the second has started, 1 replacement at a time, 1 fault, 1 forced connection | implements `SessionFeed`; a quiet line means a current tab; deltas find their baseline |
| `stream_live` | the same, but that runtimes publish only the events of their replacements; under fairness | a tab catches up |
| `registry_owner` | 2 sessions, 2 runtimes, 1 replacement | **violated**: two runtimes of one session |
| `session_list_shared` | 1 conversation, 1 rename, 2 scans | **violated**: a committed rename disappears |
| `parts` | 2 commands and 2 sessions; 2 messages, 2 requests, 1 run and 1 automatic compaction; 3 dialogs and 1 receipt; 3 sessions, 2 runtimes, 2 changes; 2 operations, 1 death of the server and 1 of another process; 3 savers in 2 processes, 3 versions; 1 conversation, 2 renames, 2 scans; 2 keys, 1 entry, time to live 2; 2 connections with 2 changes of tools or configuration or mishaps; 2 panels, one of them with a delay, 1 retry, 2 writes | the fifteen properties of the ten parts |

Bounds. Two runs and one slot are the least that queue; a third run and a second
slot are needed for order, and for a store that drops a record that is queued or
active (`MaxRuns` = 2). Two dialogs distinguish "one closed" from "all closed". Two
cancellations in flight are the cancel of one run that outlasts its deadline and the
cancel of the run started in its place. One rejected abort and one crash are enough
to leave every kind of residue; a second crash finds the same store. Three members
are the least for a budget spent by two and found spent by a third. For schedules,
time 4 with period 2 and grace 1 holds two occurrences, one that can be missed by
more than the grace; the pair shares the timer and lets the records of one push out
those of the other.

The log drops by number and by size, so that any of its oldest events may be gone and
a cursor be too old, at the edge or fresh. Two sessions and one replacement at a time
allow a runtime to go there and back, or to fail and return; a second runtime allows a
restart instead. A runtime that has used up its events keeps a replacement it has begun,
unless it cancels it; `CatchesUp`, which asks that replacements settle, says nothing of
that. One fault cuts or garbles any frame. By hand, `stream` also passes with runtimes
that publish logged snapshots (`Emitted` with "snapshot", three million states) and with
three events of a single runtime; the proofs cover every type and number of events.

Two commands race for one
admission, two inner sessions give every command a wrong one to go to. Two messages
and two requests are the least for "the other". One receipt and three dialogs evict
a receipt that is asked for again. Three sessions are the least for a replacement
between two that another runtime also wants. Two operations compete for one lock;
one death of each kind leaves a lock, a mutex or a record behind. Two savers by
loaded version and one that edits under the lock, in two processes, meet both locks.
Two scans and two renames are the least for a list of before and one of after.
One entry makes the cache full, time 4 with a life of 2 lets it expire. Two
connections are the former and its successor; two events are a change or a save and
the mishap, or the other change, that falls into it (three events by hand, with 1.5
million states). Two writes make one that is told while the request for the other is
under way. The bounded
counters stop the system at the end of a behaviour, so that deadlock is not checked
where the configuration says so.

Fairness. In `AgentRunSupervisor`, `Coroutine` (trust check, opening a session,
applying settings) returns one way or the other; an armed timer fires; a daemon that
died is started again by its service manager. Nothing is assumed of the model, of the
user, or of an abort: a prompt may never return, a dialog may never be answered.
`SlotIsFreed` and `QueuedRunLeaves` therefore rest on the deadline, and say nothing
of runs the user gave no time limit. In `ScheduleRunner` the steps of a run are
strongly fair, since `ticking` disables them for the length of a loop that is in fact
a single turn of the event loop. In `SessionStream` a frame under way is received or
its connection is closed (`Receive`, `EndOfStream`: TCP and the browser's close
event), a retry timer fires, the route answers a request, and a replacement that was
begun ends, in success, failure or cancellation, and a page that turned to another
session is mounted for it. Nothing is assumed of publication,
of faults or of the user.

## Findings

* `supervisor_cancelled`. A test of the repository says a session cancelled during
  initialization is not prompted (`lib/__tests__/agent-supervisor.test.ts:68`). The
  active map is re-checked after `startRpcSession` only. A cancellation during
  `set_model` or `set_thinking_level`, or while the prompt takes its snapshot, is
  recorded, and the session is prompted all the same; the timers armed for it are
  not cleared by anyone (`TimersTracked` names these runs `overtaken`).
* `schedule_overlap`. "A schedule cannot overlap" (`docs/DEVELOPMENT.md:462`). The
  check is made on the stored records, of which the oldest are dropped at 500,
  active or not; each conflict adds one. A run that outlives 500 newer records is
  run beside itself.
* `registry_owner`. "One `AgentSessionWrapper` per session id"
  (`docs/DEVELOPMENT.md:430`). `checkRuntimeTarget()` looks at registered runtimes
  only. A start of the target session that is still under its lock is not seen; it
  ends with an unconditional `registry.set`, and two runtimes serve one session.
* `session_list_shared`. The store "does not overwrite a committed rename with an
  older list response" (`lib/__tests__/session-list-store.test.ts:20`). A request
  made after the rename is believed, but the server may answer it from a scan that
  read the file before.

## Proofs

Eight modules prove, for every value of the constants that their assumptions admit:

| module | theorem | property |
|---|---|---|
| AgentRunSupervisorProofs | `TypeCorrect` | `TypeOK` |
| | `ActiveRecordsHeld` | `ActiveStatusTracked` |
| | `NoIdleSlot` | `WorkConserving` |
| | `TimersHeld` | `TimersTracked` |
| | `WaitingMeansDialog` | `DialogStatus` |
| | `BudgetsAreShared`, `EndedRunsLetGo` | `BudgetIsShared`, `FinishedLetsGo` |
| | `FinishedStays` | `TerminalForGood` |
| | `OldestFirst` | `StartsInOrderWithinLimit` |
| | `ImplementsPool` | `PoolSpec`, the refinement of `RunPool` |
| ScheduleRunnerProofs | `TypesHold`, `RunsDoNotOverlapInStore`, `ActiveRecordsAreLive` | `TypeOK`, `OneActiveRecord`, `ActiveRecordIsLive` |
| | `WaitingMeansDialog`, `LastStatusIsHonest` | `DialogStatus`, `LastStatusHonest` |
| | `OccurrencesAreHandledOnce`, `TimerIsArmed` | `OccurrenceOnce`, `TimerCoversStore` |
| | `FinishedStays`, `MissedIsSkipped` | `FinishedForGood`, `MissedAreSkipped` |
| SessionRunsProofs | `TypesHold`, `AdmissionIsNeverLost`, `ShownRunsAreRunning`, `StopsAreHonoured` | `TypeOK`, `AdmissionIsHeld`, `RunIsShown`, `StopIsHonoured` |
| CompactionQueueProofs | `TypesHold`, `ShownCompactionIsRunning`, `QueueIsAlwaysServed`, `MessagesAreSentOnce` | `TypeOK`, `CompactionIsShown`, `QueueIsServed`, `OnceOrExplained` |
| SessionRegistryProofs | `TypesHold`, `RequestsReachTheirSession` | `TypeOK`, `OneRoute` |
| UpdateOperationsProofs | `TypesHold`, `LivingHelperHoldsLock`, `VerdictsStand` | `TypeOK`, `HelperHoldsLock`, `VerdictStands` |
| SessionStreamProofs | `TheStreamIsTyped`, `QuietTabsAreCurrent`, `DeltasAreDecoded` | `TypeOK`, `QuietMeansCurrent`, `DeltasDecode` |
| | `TheStreamIsAFeed` | `FeedSpec`, the refinement of `SessionFeed` |
| MCPartsProofs | `QueuesAreServed`, `CompactionsAreShown`, `MessagesAreSentOnce` | `QueueIsServed`, `CompactionIsShown`, `OnceOrExplained` |
| | `HelpersHoldTheLock`, `VerdictsAreKept`, `SessionsHaveOneRoute` | `HelperHoldsLock`, `VerdictStands`, `OneRoute` |
| | `AcceptedAnswersAreReturned`, `SavesAreNotLost`, `ForksAreMadeOnce` | `AcceptedIsReturned`, `NoSaveLost`, `ForkOnce` |
| | `TheCacheServes`, `TheConnectionsAreOwned`, `OwnChangesAreKept` | `CacheServes`, `ConnectionsAreOwned`, `OwnChangesStay` |

They rest on the assumptions on the constants that each component's module names
(`BoundsAssumption`, `BudgetAssumption`, `RunsAssumption`, `StreamAssumption`,
`ForkAssumption` and so on), which TLC evaluates in the runs, and on nothing else. They
say that bounds are natural numbers and that `None` and its like are none of the
values they stand beside.

A behaviour of `MCParts` is one of each of its parts: every step is a step of the part
or leaves its variables alone (`CompactionIsAPart` and its like). So the theorems of the
components that have a proof module hold of the instances the run `parts` checks, and
the remaining parts are proved there directly. Those of `SessionRuns`, which `MCParts`
extends, need no such step.

Every proof has the same shape: an inductive invariant `IInv`, one lemma per action
that it is kept, a step lemma that puts them together, and the temporal theorems.
What is added to the properties to make them inductive is the heart of each:

* *AgentRunSupervisor.* First the loop. `DrainPicks` shows that `Drain` starts queued
  runs and stops unfinished ones only; `DrainEffect` what becomes of each record,
  waiter and slot; `DrainFills` that it starts the oldest runs, never above the
  limit, and leaves a queue only when the slots are used up. The last counts: the
  startable runs older than the oldest run left behind have all been taken, so that
  with those already active they fill the slots. `IInv` adds that runs not yet created
  are idle (`Numbered`), that active runs have left the queue (`ActiveStarted`), that
  a stopped process holds nothing (`DownIsEmpty`), and that a run with a cancellation
  in flight has a terminal record (`CancellingEnded`). `DialogStatus` has an invariant of
  its own on top: a dialog is open only while the listener of its run is subscribed
  (`DialogsHeard`), so that a run that starts has none. So have the budgets (`BudgetInv`):
  records not yet created have no cost (`Unpaid`) and a process that died has no waiters
  (`WaitersAlive`). They are needed halfway through a handler as well: the records it
  hands to `drain()` agree on their caps and have no member of a spent group at work
  (`CapsAgree`, `Affordable`), so that a group `drain()` stops consists of queued runs
  (`DrainBudget`), which hold no slot, and `FinishedLetsGo` follows. For the costs three
  facts are enough, proved of `Total` without induction, by the least run that
  contradicts them: the sums exist, they add up, and larger amounts have no smaller sum
  (`SumsExist`, `TotalAdds`, `TotalGrows`). A new member has cost nothing and an evicted
  one only lowers the sum (`LowerGroupCost`). Each action gives `Steps`, what
  it did to the pool; the action properties and the refinement follow from that.
* *ScheduleRunner.* Records are of schedules that were created (`Numbered`,
  `Defined`); what a loop has still to do is due (`DueStays`); and an occurrence that
  was handled is past and before the next one (`Past`), which is what makes
  `OccurrenceOnce` inductive through crashes and edits.
* *SessionRuns.* A command that has not reached the SDK holds the admission
  (`Admitted`), the SDK is at the command whose promise is pending (`Owned`), and a
  stopped resume that still holds the admission is marked cancelled (`Marked`).
* *CompactionQueue.* A queue has no repetitions and holds messages of the present
  session that were not sent, and a message in the hands of the command that brought it
  (`handing`) is neither queued nor sent (`Queueing`); the message in the hands of the
  flush is in no such hands, and in the queue until the SDK took it (`Flushed`); an automatic compaction is shown under its own
  id (`Origin`).
* *SessionRegistry.* A starting runtime is under the lock of its session and
  registered nowhere (`Started`); whoever may have to go back knows where to
  (`Prepared`); a runtime between its replacements is routed (`Routed`).
* *ExtensionDialogs.* Every receipt has the response its promise was resolved with
  (`DialogsBook`).
* *UpdateOperations.* Per operation: how far it has begun (`Begun`), who may still
  spawn or release has the lock (`Locked`), what the record says of a living helper
  (`Helped`), and what a supervisor past its verdict has read (`Final`).
* *VersionedFiles.* Whoever is past the lock holds it (`FileLockHeld`), and what was
  written since it read is from outside (`SavesLooked`).
* *ForkRequests.* A fork of this life of the server is remembered until its time to live
  has passed (`ForksAreKept`), by an entry that tells its arguments and its answer
  (`EntriesTell`). `run()` forgets what has expired and nothing else, a full cache
  refuses.
* *RequestCache.* An answer that was read holds what the cache was told before its
  request began; what it was told since is noted as missing (`TaskBrings`).
* *McpConnections.* Of each entry: once closed it lists and announces nothing, and
  pages read before a change are thrown away or the news is on its way (`Sound`). Of all:
  what is open is in the slot or a test (`McpOwned`).
* *SessionList.* A list with an older name is of a scan that was in progress when the
  rename was answered, or of a request the rename overtook (`OlderIsExplained`); a list that had a conversation is followed by lists
  that have it (`MineIsListed`); the counters of scans and renames agree with them (`NetIsInOrder`).
* *SessionStream.* `StreamInv` follows a frame from the log to the page. Of the runtimes:
  whatever one serves, is registered under, has left or comes from, it has served, and so
  it has the sessions its events lead to (`WrapperIsSound`); what it has served only grows,
  which is what a switch back to a former session leaves intact. Of the tab: the page
  shows exactly what the cursor says it has received, or what it shows is not followed
  (`Synced`, `TabIsSound`). Of the frames: the notice of a move comes first, a snapshot
  has no less than is shown already, each event has the number after the one before it,
  the first after the cursor (`MoveIsSound`, `SnapshotIsSound`, `EventIsSound`), and they
  are of a runtime that has served the session displayed (`ChannelIsSound`). Of a live
  connection: its last frame is the last event published (`ConnIsSound`), and what is
  shown is in step with the cursor or will be once a snapshot on the way has arrived
  (`Follows`); this is `QuietMeansCurrent` when nothing is on the way. Of the deltas: there
  is a sequence of baselines, one between any two frames, which begins with the decoder's
  and ends with the transport's (`DeltasAreSound`). In the route's answer that sequence is
  `BaseOver`, the baseline of the replay, and `BaseOverStep` shows that it moves as
  `BaseAfter` does.
  The refinement then goes action by action: what runtimes do is `Publish` or a stutter
  (`PublishMaps`, `StartMaps`, `RebindMaps`, `RuntimeMaps`, `CrashMaps`), the frames handled
  are `Extend`, `Replace`, `Follow` or `Lose` (`HandleMaps`), `Remount` is `Mount`, and
  everything else stutters (`TabMaps`).

The proofs are about states beyond the bounds of the runs: two runtimes whose
replacements overlap, runtimes under a key that is not the session they serve, logs of any length
with any types of events. Where a replacement goes is any session at all there.

Model-checked only: liveness under fairness, which the prover does not reach
(`QueuedRunLeaves`, `SlotIsFreed`, `DueIsHandled`, `RunEnds`, `CatchesUp`);
and `DrainIsTheLoop`, whose loop is a recursion on the records it leaves. Every other
property of a passing run is a theorem as well.

## Not modelled

* Schedule timing: the calendar search is a pure function of dates with unit tests
  over the transitions; the runner uses only that it is strictly after its argument.
* Of the wrapper: settings of model and tools, queued follow-ups (kept by the SDK),
  metrics, tree navigation. They change no state the properties look at.
* Read state, composer submissions: merges within one handler whose documents
  promise nothing across handlers.
* Of MCP: results of tool calls, their validation, and the validation of
  configurations, which change no state of a connection.
* The workflow extension reads a saved task and calls `resume`, which `SessionRuns`
  models; the plan itself is text.
* Store writes that fail halfway through a handler (`agent-run-supervisor.ts:349`):
  the exception may leave any handler at any write.
* Parsing, search and analytics of session files, git, packages, providers and
  sign-in, upstream subagents: adapters to files, processes and services.
* The views, translations, styles, vendored skills, build, release and deployment
  scripts: no state of their own that outlives a call, or not this program. They are
  most of the lines, which is why the share of lines the map covers is small: it
  follows the concurrent core, not the size of the tree.
