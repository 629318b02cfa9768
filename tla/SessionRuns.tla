----------------------------- MODULE SessionRuns -----------------------------
(***************************************************************************)
(* The runs of one session as its wrapper admits and shows them              *)
(* (AgentSessionWrapper in lib/rpc-manager.ts): prompts, the resumption of a *)
(* stopped task, stopping and resuming with new settings, Stop, shell        *)
(* commands, the restart after a change of credentials, the idle timer, the  *)
(* replacement of the session and the destruction of the wrapper.            *)
(*                                                                         *)
(* A command is a coroutine: it awaits a snapshot of the working tree (or    *)
(* the end of the run it stops) before it calls the SDK, and the promise of  *)
(* the SDK afterwards; other requests and SDK events fall in between.  The   *)
(* SDK is external: it refuses a second run, prepares a run before its       *)
(* agent_start, and reports its end by agent_end before the promise settles. *)
(***************************************************************************)
EXTENDS Naturals, FiniteSets

CONSTANTS
  MaxCommands,  \* bounds of the model: commands issued, and
  MaxInner      \* sessions that the wrapper serves one after the other

RunsAssumption == MaxCommands \in Nat /\ MaxInner \in Nat \ {0}

VARIABLES
  alive,          \* _alive
  inner,          \* currentInner, by its place in the order of replacements
  runActive,
  stopping,       \* liveRun.stopping
  pendingResume,  \* the command that holds it, or 0
  cancelled,      \* pendingResume.cancelled and .preparing, per command, as
  preparing,      \*   the command keeps the object when it is replaced
  ends,           \* how often agent_end was emitted: lastAgentEndCursor
  bash,           \* bashRunning
  authPending,    \* authRefreshPending
  cmds,           \* the commands
  sdk, owner,     \* the SDK's run, and the command that asked for it
  turns,          \* how many runs the SDK began: stands for the leaf
  stopAsked,      \* history: resumes that the user stopped,
  masked          \* and a run that an end of another command hides

wrapper == <<alive, inner, runActive, stopping, ends, bash, authPending>>
resume  == <<pendingResume, cancelled, preparing>>
engine  == <<sdk, owner, turns>>
history == <<stopAsked, masked>>
vars    == <<wrapper, resume, cmds, engine, history>>

Cmd     == 1..MaxCommands
Prompts == {"prompt", "awaited"}
Resumes == {"resume", "restart"}
Kinds   == Prompts \cup Resumes
Stages  == {"aborting", "snapshot", "sdk", "resolved", "rejected", "done"}

\* Stages in which a command awaits something.
Waiting == Stages \ {"done"}

NoCommand == [kind |-> "none", stage |-> "done", prevEnd |-> 0, leaf |-> 0,
              session |-> 1]

TypeOK ==
  /\ alive \in BOOLEAN /\ inner \in 1..MaxInner
  /\ runActive \in BOOLEAN /\ stopping \in BOOLEAN
  /\ pendingResume \in {0} \cup Cmd
  /\ cancelled \in [Cmd -> BOOLEAN] /\ preparing \in [Cmd -> BOOLEAN]
  /\ ends \in Nat /\ turns \in Nat
  /\ bash \in BOOLEAN /\ authPending \in BOOLEAN
  /\ cmds \in [Cmd -> [kind : Kinds \cup {"none"}, stage : Stages,
                       prevEnd : Nat, leaf : Nat, session : 1..MaxInner]]
  /\ sdk \in {"idle", "preparing", "running"}
  /\ owner \in {0} \cup Cmd
  /\ stopAsked \in [Cmd -> BOOLEAN] /\ masked \in BOOLEAN

Init ==
  /\ alive = TRUE /\ inner = 1
  /\ runActive = FALSE /\ stopping = FALSE
  /\ pendingResume = 0
  /\ cancelled = [c \in Cmd |-> FALSE] /\ preparing = [c \in Cmd |-> FALSE]
  /\ ends = 0 /\ turns = 0
  /\ bash = FALSE /\ authPending = FALSE
  /\ cmds = [c \in Cmd |-> NoCommand]
  /\ sdk = "idle" /\ owner = 0
  /\ stopAsked = [c \in Cmd |-> FALSE] /\ masked = FALSE

At(c, kinds, stage) == cmds[c].kind \in kinds /\ cmds[c].stage = stage

\* A command is over: what it remembered no longer matters.
Over(c) == cmds' = [cmds EXCEPT ![c] = [NoCommand EXCEPT !.kind = cmds[c].kind]]

\* Fault: the command ends and its admission stays.
NotGivenUp(c) == pendingResume' = pendingResume

\* pendingResume is given up by the command that holds it.
GivenUp(c) == pendingResume' = IF pendingResume = c THEN 0 ELSE pendingResume

\* Commands are issued in the order of their numbers.
Issue(c, kind, stage) ==
  /\ alive
  /\ cmds[c].kind = "none" /\ \A d \in 1..(c - 1) : cmds[d].kind # "none"
  /\ cmds' = [cmds EXCEPT ![c] = [kind |-> kind, stage |-> stage, prevEnd |-> ends,
                                  leaf |-> turns, session |-> inner]]

-----------------------------------------------------------------------------
\* prompt

Prompt(c, kind) ==
  /\ kind \in Prompts /\ pendingResume = 0
  /\ Issue(c, kind, "snapshot")
  /\ UNCHANGED <<wrapper, resume, engine, history>>

\* The snapshot is taken: the SDK of whatever session the wrapper serves now is
\* called.  It refuses while it is busy, or when the wrapper has been destroyed.
PromptCalls(c) ==
  /\ At(c, Prompts, "snapshot")
  /\ cmds' = [cmds EXCEPT ![c].stage = IF sdk = "idle" /\ alive THEN "sdk"
                                       ELSE "rejected",
                          ![c].prevEnd = ends, ![c].session = inner]
  /\ IF sdk = "idle" /\ alive THEN sdk' = "preparing" /\ owner' = c
                              ELSE UNCHANGED <<sdk, owner>>
  /\ UNCHANGED <<wrapper, resume, turns, history>>

-----------------------------------------------------------------------------
\* resume

\* The guard of resumeTask(): nothing is active or about to be resumed.
Quiet(c) == /\ pendingResume \in {0, c} /\ ~runActive /\ sdk = "idle" /\ ~bash

Resume(c) ==
  /\ Quiet(0)
  /\ Issue(c, "resume", "snapshot")
  /\ pendingResume' = c
  /\ UNCHANGED <<wrapper, cancelled, preparing, engine, history>>

\* Stop and resume with new settings (canRestart): the run is stopped first.
Restart(c) ==
  /\ runActive /\ ~stopping /\ pendingResume = 0 /\ ~bash
  /\ Issue(c, "restart", "aborting")
  /\ pendingResume' = c
  /\ stopping' = TRUE
  /\ UNCHANGED <<alive, inner, runActive, ends, bash, authPending, cancelled,
                 preparing, engine, history>>

\* The abort is acknowledged; resumeTask() begins, or the command gives up.
Aborted(c) ==
  /\ At(c, {"restart"}, "aborting") /\ (sdk # "running" \/ cmds[c].session # inner)
  /\ IF ~cancelled[c] /\ alive /\ inner = cmds[c].session /\ Quiet(c)
     THEN cmds' = [cmds EXCEPT ![c].stage = "snapshot", ![c].leaf = turns]
          /\ UNCHANGED pendingResume
     ELSE Over(c) /\ GivenUp(c)
  /\ UNCHANGED <<wrapper, cancelled, preparing, engine, history>>

\* The run a restart was asked for is still the live one.
SameRun(c) == inner = cmds[c].session /\ turns = cmds[c].leaf /\ runActive

\* The SDK rejects the abort: the run goes on, and whoever asked is told.
AbortRejected(c) ==
  /\ At(c, {"restart"}, "aborting")
  /\ Over(c) /\ GivenUp(c)
  /\ stopping' = (stopping /\ ~SameRun(c))
  /\ stopAsked' = [d \in Cmd |-> stopAsked[d] /\ ~(d = owner /\ SameRun(c))]
  /\ UNCHANGED <<alive, inner, runActive, ends, bash, authPending, cancelled,
                 preparing, engine, masked>>

\* What is checked again once the snapshot is taken.
StillWanted(c) ==
  /\ ~cancelled[c] /\ alive /\ inner = cmds[c].session
  /\ turns = cmds[c].leaf /\ sdk = "idle"

\* The task message is handed to the SDK, or the command gives up.
ResumeCalls(c) ==
  /\ At(c, Resumes, "snapshot")
  /\ IF StillWanted(c)
     THEN /\ cmds' = [cmds EXCEPT ![c].stage = "sdk", ![c].prevEnd = ends]
          /\ preparing' = [preparing EXCEPT ![c] = TRUE]
          /\ sdk' = "preparing" /\ owner' = c
          /\ UNCHANGED pendingResume
     ELSE Over(c) /\ GivenUp(c) /\ UNCHANGED <<preparing, sdk, owner>>
  /\ UNCHANGED <<wrapper, cancelled, turns, history>>

-----------------------------------------------------------------------------
\* Stop: abort, with abortRun()

\* The SDK's own reaction is AgentEnds or SetupFails.
Abort ==
  /\ alive
  /\ cancelled' = [c \in Cmd |-> cancelled[c] \/ c = pendingResume]
  /\ stopping' = (stopping \/ runActive)
  /\ stopAsked' = [c \in Cmd |->
       \/ stopAsked[c]
       \/ cmds[c].kind \in Resumes /\ c \in {pendingResume, owner}]
  /\ UNCHANGED <<alive, inner, runActive, ends, bash, authPending, pendingResume,
                 preparing, cmds, engine, masked>>

-----------------------------------------------------------------------------
\* The SDK, and emitEvent()

\* Fault: Stop during the preparation is forgotten.
NotStoppingFromStart == FALSE

\* liveRun.stopping of a new run.
StoppingFromStart == LET c == pendingResume
                     IN  c # 0 /\ preparing[c] /\ cancelled[c]

\* agent_start
AgentStarts ==
  /\ sdk = "preparing"
  /\ sdk' = "running" /\ turns' = turns + 1
  /\ runActive' = TRUE
  /\ stopping' = StoppingFromStart
  /\ pendingResume' = IF pendingResume # 0 /\ preparing[pendingResume] THEN 0
                      ELSE pendingResume
  /\ masked' = FALSE
  /\ UNCHANGED <<alive, inner, ends, bash, authPending, cancelled, preparing, cmds,
                 owner, stopAsked>>

\* agent_end, of the run or in place of one that never began.
ShowEnd ==
  /\ runActive' = FALSE /\ stopping' = FALSE /\ ends' = ends + 1

AgentEnds ==
  /\ sdk = "running"
  /\ sdk' = "idle" /\ owner' = 0
  /\ ShowEnd
  /\ masked' = FALSE
  /\ cmds' = [c \in Cmd |-> IF c = owner THEN [cmds[c] EXCEPT !.stage = "resolved"]
                            ELSE cmds[c]]
  /\ UNCHANGED <<alive, inner, bash, authPending, resume, turns, stopAsked>>

\* The preparation ends without a run: a rejection, a command of an extension
\* that needs no model, or a message that a hook consumed.
SetupEnds(stage) ==
  /\ stage \in {"resolved", "rejected"}
  /\ sdk = "preparing"
  /\ sdk' = "idle" /\ owner' = 0
  /\ cmds' = [c \in Cmd |-> IF c = owner THEN [cmds[c] EXCEPT !.stage = stage]
                            ELSE cmds[c]]
  /\ UNCHANGED <<wrapper, resume, turns, history>>

\* An extension starts a run of its own: a goal goes on.
ExtensionRuns ==
  /\ alive /\ sdk = "idle" /\ turns < MaxCommands
  /\ sdk' = "preparing" /\ owner' = 0
  /\ UNCHANGED <<wrapper, resume, cmds, turns, history>>

\* The handlers of the promise: settled() and the snapshot it publishes.
Settled(c) ==
  /\ cmds[c].stage = "resolved"
  /\ Over(c)
  /\ IF cmds[c].kind \in Resumes THEN GivenUp(c) ELSE UNCHANGED pendingResume
  /\ UNCHANGED <<wrapper, cancelled, preparing, engine, history>>

\* ... and its rejection: unless a run ended since, an end is shown in its place.
\* An awaited prompt throws instead.
ShowsItsEnd(c) ==
  /\ cmds[c].kind # "awaited" /\ ends = cmds[c].prevEnd
  /\ cmds[c].kind \in Resumes => inner = cmds[c].session

Rejected(c) ==
  /\ cmds[c].stage = "rejected"
  /\ Over(c)
  /\ IF cmds[c].kind \in Resumes THEN GivenUp(c) ELSE UNCHANGED pendingResume
  /\ IF ShowsItsEnd(c)
     THEN ShowEnd /\ masked' = (masked \/ sdk = "running")
     ELSE UNCHANGED <<runActive, stopping, ends, masked>>
  /\ UNCHANGED <<alive, inner, bash, authPending, cancelled, preparing, engine,
                 stopAsked>>

-----------------------------------------------------------------------------
\* Shell commands

\* A second command may start beside a first one.  The end of either clears the
\* flag; what the end of the other does then is AuthRestarts, or nothing.
BashStarts ==
  /\ alive /\ bash' = TRUE
  /\ UNCHANGED <<alive, inner, runActive, stopping, ends, authPending, resume, cmds,
                 engine, history>>

\* The session goes away with the wrapper or under it: disposed, its promises
\* are rejected.
Disposed ==
  /\ sdk' = "idle" /\ owner' = 0
  /\ cmds' = [c \in Cmd |-> IF cmds[c].stage = "sdk"
                            THEN [cmds[c] EXCEPT !.stage = "rejected"] ELSE cmds[c]]

\* destroy()
Destroy ==
  /\ alive' = FALSE
  /\ cancelled' = [c \in Cmd |-> cancelled[c] \/ c = pendingResume]
  /\ Disposed
  /\ UNCHANGED <<inner, runActive, stopping, ends, pendingResume, preparing, turns,
                 history>>

\* restartForAuthIfIdle(), with bashRunning as given.
CanRestartForAuth(sh) == sdk # "running" /\ ~sh

BashEnds ==
  /\ bash /\ bash' = FALSE
  /\ IF alive /\ authPending /\ CanRestartForAuth(FALSE)
     THEN Destroy /\ authPending' = FALSE
     ELSE UNCHANGED <<alive, inner, runActive, stopping, ends, authPending, resume,
                      cmds, engine, history>>

\* requestAuthRefresh()
AuthChanges ==
  /\ alive
  /\ IF CanRestartForAuth(bash) THEN Destroy /\ authPending' = FALSE /\ UNCHANGED bash
     ELSE /\ authPending' = TRUE
          /\ UNCHANGED <<alive, inner, runActive, stopping, ends, bash, resume, cmds,
                         engine, history>>

\* The microtask after an event of the SDK.
AuthRestarts ==
  /\ alive /\ authPending /\ CanRestartForAuth(bash)
  /\ Destroy /\ authPending' = FALSE /\ UNCHANGED bash

\* The idle timer: ten minutes after the last command or event.  A snapshot and
\* the preparation of a run take less.
IdleFires ==
  /\ alive /\ ~runActive /\ sdk = "idle" /\ ~bash
  /\ \A c \in Cmd : cmds[c].stage # "snapshot"
  /\ Destroy /\ UNCHANGED <<bash, authPending>>

\* The session is deleted, or converted.
Closes == alive /\ Destroy /\ UNCHANGED <<bash, authPending>>

\* Fault: the run of the former session is still shown.
ReplacedShowingRun ==
  /\ alive /\ inner < MaxInner /\ inner' = inner + 1
  /\ Disposed
  /\ UNCHANGED <<alive, runActive, stopping, ends, bash, authPending, resume, turns,
                 history>>

\* prepareForSessionReplacement() and the new session.
Replaced ==
  /\ alive /\ inner < MaxInner /\ inner' = inner + 1
  /\ runActive' = FALSE /\ stopping' = FALSE /\ masked' = FALSE
  /\ Disposed
  /\ UNCHANGED <<alive, ends, bash, authPending, resume, turns, stopAsked>>

Next ==
  \/ \E c \in Cmd :
       \/ \E k \in Prompts : Prompt(c, k)
       \/ Resume(c) \/ Restart(c)
       \/ PromptCalls(c) \/ Aborted(c) \/ AbortRejected(c) \/ ResumeCalls(c)
       \/ Settled(c) \/ Rejected(c)
  \/ Abort
  \/ AgentStarts \/ AgentEnds \/ ExtensionRuns
  \/ \E s \in Stages : SetupEnds(s)
  \/ BashStarts \/ BashEnds
  \/ AuthChanges \/ AuthRestarts \/ IdleFires \/ Closes \/ Replaced

Spec == Init /\ [][Next]_vars

-----------------------------------------------------------------------------
\* Stop during the resumption of a task is never forgotten: no run of a resume
\* that was stopped, before or after the SDK began with it, goes on unstopped,
\* in whatever order Stop, the snapshot and agent_start come (docs/DEVELOPMENT.md:
\* "honors Stop during preparation").
StopIsHonoured ==
  alive /\ sdk = "running" /\ owner # 0 /\ stopAsked[owner] => stopping \/ masked

\* While pendingResume is set every prompt and resume is refused, so it may be
\* held only by a command that is still under way and will give it up.
AdmissionIsHeld ==
  pendingResume # 0 =>
    /\ cmds[pendingResume].kind \in Resumes
    /\ cmds[pendingResume].stage \in Waiting

\* The wrapper shows a run exactly while the SDK streams one, but for a run
\* that the rejection of another prompt has hidden.
RunIsShown ==
  alive => /\ runActive => sdk = "running"
           /\ sdk = "running" => runActive \/ masked
=============================================================================
