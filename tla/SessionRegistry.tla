--------------------------- MODULE SessionRegistry ---------------------------
(***************************************************************************)
(* Who owns a session: the registry and the start locks of                   *)
(* lib/rpc-manager.ts, the replacement of the session inside a runtime, and  *)
(* its recovery.                                                             *)
(*                                                                         *)
(* A runtime (wrapper) is started for a session under a lock and registered  *)
(* when it is bound.  An extension or a client may then have it fork, open a *)
(* new session, switch to or import another one: the wrapper stays and its   *)
(* session changes, with awaits in between at which other requests run.  A   *)
(* failure makes it return to the session it came from.                      *)
(***************************************************************************)
EXTENDS Naturals, Sequences, FiniteSets

CONSTANTS
  Session,     \* session ids
  Stored,      \* those that have a file from the beginning
  None,        \* no session
  MaxWrappers, \* bounds of the model: runtimes ever started,
  MaxChanges   \* replacements and recoveries begun

\* What the proofs and the runs assume of the constants.
RegistryAssumption ==
  /\ Stored \subseteq Session /\ None \notin Session
  /\ MaxWrappers \in Nat /\ MaxChanges \in Nat

VARIABLES
  registry,  \* the registered wrapper of a session, or 0
  locks,     \* the wrapper a session is being started with, or 0
  wrappers,  \* the wrappers, in the order their starts began
  made,      \* the sessions created by replacements
  changes

vars == <<registry, locks, wrappers, made, changes>>

Id == 1..MaxWrappers

\* Where a replacement stands: asked of the SDK, the new session being bound,
\* the rest of the operation, and after a failure the recovery.
Stage == {"none", "asked", "binding", "bound", "restoring", "rebinding"}

Wrapper ==
  [alive   : BOOLEAN,
   sess    : Session,                    \* currentInner
   state   : {"starting", "ready", "replacing", "failed"},
   hooks   : BOOLEAN,                    \* sessionRuntime calls the wrapper back
   op      : Stage,                      \* runRuntimeReplacement()
   opHooks : BOOLEAN,                    \* ... the runtime it runs on
   checked : Session \cup {None},        \* a target found free, not begun yet
   target  : Session \cup {None},
   pending : Session \cup {None},        \* pendingReplacement
   rec     : {"none", "restoring", "rebinding"},  \* recover_runtime
   saved   : Session \cup {None},        \* lastRecoveryTarget
   lost    : BOOLEAN]                    \* history: its last recovery failed

TypeOK ==
  /\ registry \in [Session -> {0} \cup DOMAIN wrappers]
  /\ locks \in [Session -> {0} \cup DOMAIN wrappers]
  /\ \A w \in DOMAIN wrappers :
       /\ wrappers[w] \in Wrapper
       /\ (wrappers[w].op # "none") = (wrappers[w].pending # None)
       /\ wrappers[w].pending # None => wrappers[w].saved = wrappers[w].pending
  /\ \A x \in Session : locks[x] # 0 => wrappers[locks[x]].sess = x
  /\ made \subseteq Session

Init ==
  /\ registry = [x \in Session |-> 0]
  /\ locks = [x \in Session |-> 0]
  /\ wrappers = <<>>
  /\ made = {}
  /\ changes = 0

Live(w)     == w # 0 /\ wrappers[w].alive
Running     == {w \in DOMAIN wrappers : wrappers[w].alive}
Set(w, r)   == wrappers' = [wrappers EXCEPT ![w] = r]

-----------------------------------------------------------------------------
\* startRpcSession()

\* No live runtime is registered and no start is under way: one begins.
StartBegins(x) ==
  /\ x \in Stored \cup made
  /\ ~Live(registry[x]) /\ locks[x] = 0
  /\ Len(wrappers) < MaxWrappers
  /\ locks' = [locks EXCEPT ![x] = Len(wrappers) + 1]
  /\ wrappers' = Append(wrappers,
       [alive |-> TRUE, sess |-> x, state |-> "starting", hooks |-> TRUE,
        op |-> "none", opHooks |-> TRUE, checked |-> None, target |-> None, pending |-> None,
        rec |-> "none", saved |-> None, lost |-> FALSE])
  /\ UNCHANGED <<registry, made, changes>>

\* The runtime exists and its extensions are bound: it is registered.
StartEnds(x) ==
  /\ locks[x] # 0
  /\ registry' = [registry EXCEPT ![x] = locks[x]]
  /\ Set(locks[x], [wrappers[locks[x]] EXCEPT !.state = "ready"])
  /\ locks' = [locks EXCEPT ![x] = 0]
  /\ UNCHANGED <<made, changes>>

\* The start throws: the wrapper is disposed of.
StartFails(x) ==
  /\ locks[x] # 0
  /\ Set(locks[x], [wrappers[locks[x]] EXCEPT !.alive = FALSE])
  /\ locks' = [locks EXCEPT ![x] = 0]
  /\ UNCHANGED <<registry, made, changes>>

\* destroy(): an idle, finished or restarting session, and onDestroy().
Destroy(w) ==
  /\ w \in Running /\ wrappers[w].state # "starting"
  /\ Set(w, [wrappers[w] EXCEPT !.alive = FALSE])
  /\ registry' = [x \in Session |-> IF registry[x] = w THEN 0 ELSE registry[x]]
  /\ UNCHANGED <<locks, made, changes>>

-----------------------------------------------------------------------------
\* runRuntimeReplacement()

Begin(w, x) ==
  /\ w \in Running /\ wrappers[w].state # "starting"
  /\ wrappers[w].pending = None
  /\ changes < MaxChanges /\ changes' = changes + 1
  /\ Set(w, [wrappers[w] EXCEPT !.state = "replacing", !.op = "asked",
                                !.opHooks = wrappers[w].hooks,
                                !.pending = wrappers[w].sess,
                                !.saved = wrappers[w].sess, !.target = x,
                                !.checked = None])
  /\ UNCHANGED <<registry, locks>>

\* A switch or an import: ensureRuntimeTargetAvailable() asks the registry, ...
CheckTarget(w, x) ==
  /\ w \in Running /\ wrappers[w].state # "starting" /\ wrappers[w].pending = None
  /\ x \in Stored \cup made
  /\ Live(registry[x]) => registry[x] = w
  /\ wrappers[w].checked = None
  /\ Set(w, [wrappers[w] EXCEPT !.checked = x])
  /\ UNCHANGED <<registry, locks, made, changes>>

\* ... and the replacement begins when that returns, whatever was registered since.
BeginSwitch(w) ==
  /\ wrappers[w].checked # None
  /\ Begin(w, wrappers[w].checked)
  /\ UNCHANGED made

\* A fork or a new session: an id of its own.
BeginNew(w, x) ==
  /\ x \notin Stored \cup made
  /\ Begin(w, x)
  /\ made' = made \cup {x}

\* The SDK has the new session and calls the wrapper back, which turns to it
\* and binds its extensions.  A runtime whose recovery began has no hooks.
Rebind(w) ==
  /\ wrappers[w].op = "asked"
  /\ Set(w, IF wrappers[w].opHooks
            THEN [wrappers[w] EXCEPT !.sess = wrappers[w].target, !.op = "binding"]
            ELSE [wrappers[w] EXCEPT !.op = "bound"])
  /\ UNCHANGED <<registry, locks, made, changes>>

\* Fault: the former key is kept.
RegisteredToo(w, x) == [registry EXCEPT ![x] = w]

\* onSessionReplaced(): another live owner is a conflict, or the wrapper is
\* registered under its session only.
Conflict(w, x) == Live(registry[x]) /\ registry[x] # w

Registered(w, x) ==
  [y \in Session |-> IF y = x THEN w
                     ELSE IF registry[y] = w THEN 0 ELSE registry[y]]

Rebound(w) ==
  /\ wrappers[w].op = "binding"
  /\ IF Conflict(w, wrappers[w].sess)
     THEN /\ Set(w, [wrappers[w] EXCEPT !.op = "restoring", !.state = "failed",
                                        !.hooks = FALSE])
          /\ UNCHANGED registry
     ELSE /\ Set(w, [wrappers[w] EXCEPT !.op = "bound"])
          /\ registry' = Registered(w, wrappers[w].sess)
  /\ UNCHANGED <<locks, made, changes>>

Idle(r) == [r EXCEPT !.op = "none", !.target = None, !.pending = None]

\* The operation returns, or was cancelled before anything happened.
Finish(w) ==
  /\ wrappers[w].op \in {"bound", "asked"}
  /\ Set(w, [Idle(wrappers[w]) EXCEPT !.state = "ready"])
  /\ UNCHANGED <<registry, locks, made, changes>>

\* It throws: restoreRuntime() takes the hooks off and asks for a new runtime.
Fail(w) ==
  /\ wrappers[w].op \in {"asked", "binding", "bound"}
  /\ Set(w, [wrappers[w] EXCEPT !.op = "restoring", !.state = "failed",
                                !.hooks = FALSE])
  /\ UNCHANGED <<registry, locks, made, changes>>

-----------------------------------------------------------------------------
\* restoreRuntime(), of a replacement that failed (field "op") or of a
\* recover_runtime command (field "rec")

RecoverBegins(w) ==
  /\ w \in Running /\ wrappers[w].state = "failed" /\ wrappers[w].rec = "none"
  /\ changes < MaxChanges /\ changes' = changes + 1
  /\ Set(w, [wrappers[w] EXCEPT !.rec = "restoring", !.hooks = FALSE])
  /\ UNCHANGED <<registry, locks, made>>

Back(w, f) == IF f = "op" THEN wrappers[w].pending ELSE wrappers[w].saved

Ended(r, f) == [IF f = "op" THEN Idle(r) ELSE [r EXCEPT !.rec = "none"]
                  EXCEPT !.lost = TRUE]

\* The new runtime is installed and bound to the former session.
Restored(w, f) ==
  /\ wrappers[w][f] = "restoring"
  /\ Set(w, [wrappers[w] EXCEPT ![f] = "rebinding", !.hooks = TRUE,
                                !.sess = Back(w, f)])
  /\ UNCHANGED <<registry, locks, made, changes>>

\* The session the wrapper now has may not be the one it was bound to.
Recovered(w, f) ==
  /\ wrappers[w][f] = "rebinding"
  /\ LET x == wrappers[w].sess
     IN  IF Conflict(w, x)
         THEN Set(w, Ended(wrappers[w], f)) /\ UNCHANGED registry
         ELSE /\ Set(w, [Ended(wrappers[w], f) EXCEPT !.state = "ready",
                                                    !.lost = FALSE])
              /\ registry' = Registered(w, x)
  /\ UNCHANGED <<locks, made, changes>>

RecoveryFails(w, f) ==
  /\ wrappers[w][f] \in {"restoring", "rebinding"}
  /\ Set(w, Ended(wrappers[w], f))
  /\ UNCHANGED <<registry, locks, made, changes>>

Next ==
  \/ \E x \in Session : StartBegins(x) \/ StartEnds(x) \/ StartFails(x)
  \/ \E w \in DOMAIN wrappers :
       \/ Destroy(w)
       \/ \E x \in Session : CheckTarget(w, x) \/ BeginNew(w, x)
       \/ BeginSwitch(w)
       \/ Rebind(w) \/ Rebound(w) \/ Finish(w) \/ Fail(w)
       \/ RecoverBegins(w)
       \/ \E f \in {"op", "rec"} : Restored(w, f) \/ Recovered(w, f)
                                   \/ RecoveryFails(w, f)

Spec == Init /\ [][Next]_vars

-----------------------------------------------------------------------------
Settled(w) ==
  /\ wrappers[w].alive /\ wrappers[w].state = "ready"
  /\ wrappers[w].op = "none" /\ wrappers[w].rec = "none"

\* A request for a session reaches a runtime of that session: a settled runtime
\* is registered under the session it serves, or nowhere, after every order of
\* starts, replacements, failures and recoveries.
OneRoute ==
  \A x \in Session : LET w == registry[x]
                     IN  w # 0 /\ Settled(w) /\ ~wrappers[w].lost => wrappers[w].sess = x

\* docs/DEVELOPMENT.md:430: "One AgentSessionWrapper per session id"; 440: "A
\* target already owned by another live runtime is rejected".
OneRuntimePerSession ==
  \A v, w \in DOMAIN wrappers :
    Settled(v) /\ Settled(w) /\ wrappers[v].sess = wrappers[w].sess => v = w
=============================================================================
