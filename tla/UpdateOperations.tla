-------------------------- MODULE UpdateOperations --------------------------
(***************************************************************************)
(* Managed updates: the operation store (scripts/update-operation-store.mjs),*)
(* the server that reserves and starts an operation (lib/update-center.ts)   *)
(* and the detached supervisor that runs its helper and verifies the result  *)
(* (scripts/managed-update-runner.mjs).                                      *)
(*                                                                         *)
(* These are processes of their own that share files: active.lock, one       *)
(* record per operation and the directory .store-mutex.  Each may die        *)
(* between any two steps; the helper itself replaces the server.  The lock   *)
(* is changed under the mutex only, the record also without it: a patch      *)
(* reads, merges and writes.                                                 *)
(***************************************************************************)
EXTENDS Naturals, FiniteSets

CONSTANTS
  Op,          \* update operations
  None,
  MaxRestarts, \* bounds of the model: deaths of the server,
  MaxDeaths    \* of supervisors and operator recoveries

UpdateAssumption == None \notin Op /\ {MaxRestarts, MaxDeaths} \subseteq Nat

VARIABLES
  mutex,      \* .store-mutex: free, held or left behind
  lock,       \* active.lock
  record,     \* the record of an operation
  server,     \* the server's generation, which stands for its pid
  holder,     \* what the server is doing under the mutex
  request,    \* the request that began an operation
  supervisor, \* managed-update-runner.mjs
  helper,     \* its child process, and a patch of its own
  deaths,
  contended   \* history: operations whose lock could not be released at once

vars == <<mutex, lock, record, server, holder, request, supervisor, helper, deaths,
          contended>>

Active   == {"reserved", "running", "verifying"}
Verdicts == {"succeeded", "failed", "verification_failed"}
Status   == Active \cup Verdicts \cup {"interrupted"}

\* status; pid, 0 for the supervisor; helperPid; requiresRecovery.
Record == [status : Status \cup {"none"}, pid : 0..(MaxRestarts + 1),
           helper : BOOLEAN, recover : BOOLEAN]
NoRecord == [status |-> "none", pid |-> 0, helper |-> FALSE, recover |-> FALSE]

\* What the supervisor does next; the patch it makes and what it read for it.
Steps == {"none", "starting", "read", "write", "release", "execute", "waiting",
          "verify", "gone"}
Goals == {"running", "helper", "verifying"} \cup Verdicts
Supervisor == [at : Steps, goal : Goals, base : Record, caught : BOOLEAN]
NoSupervisor == [at |-> "none", goal |-> "running", base |-> NoRecord,
                 caught |-> FALSE]

TypeOK ==
  /\ mutex \in {"free", "held", "left"}
  /\ lock \in Op \cup {None}
  /\ record \in [Op -> Record]
  /\ server \in 1..(MaxRestarts + 1)
  /\ holder \in [at : {"none", "reserve", "list", "patch"}, op : Op \cup {None}, base : Record]
  /\ request \in [Op -> {"none", "reserved", "started", "failed"}]
  /\ supervisor \in [Op -> Supervisor]
  /\ helper \in [Op -> [at : {"none", "alive", "exited"}, ok : BOOLEAN,
                        patch : Record]]
  /\ deaths \in 0..MaxDeaths
  /\ contended \subseteq Op

Idle == [at |-> "none", op |-> None, base |-> NoRecord]

Init ==
  /\ mutex = "free" /\ lock = None
  /\ record = [o \in Op |-> NoRecord]
  /\ server = 1 /\ holder = Idle
  /\ request = [o \in Op |-> "none"]
  /\ supervisor = [o \in Op |-> NoSupervisor]
  /\ helper = [o \in Op |-> [at |-> "none", ok |-> FALSE, patch |-> NoRecord]]
  /\ deaths = 0 /\ contended = {}

SupervisorAlive(o) == supervisor[o].at \notin {"none", "gone"}

\* processAlive() of the pids that are recorded.
KnownAlive(r, o) ==
  \/ r.pid = server
  \/ r.pid = 0 /\ SupervisorAlive(o)
  \/ r.helper /\ helper[o].at = "alive"

-----------------------------------------------------------------------------
\* The server

\* reserveUpdateOperation(): the lock first, ...
ReserveLock(o) ==
  /\ request[o] = "none" /\ record[o] = NoRecord /\ lock # o
  /\ mutex = "free" /\ lock = None
  /\ mutex' = "held" /\ lock' = o
  /\ holder' = [Idle EXCEPT !.at = "reserve", !.op = o]
  /\ UNCHANGED <<record, server, request, supervisor, helper, deaths, contended>>

\* ... then the record.
ReserveRecord ==
  /\ holder.at = "reserve"
  /\ record' = [record EXCEPT ![holder.op] = [NoRecord EXCEPT !.status = "reserved",
                                                              !.pid = server]]
  /\ request' = [request EXCEPT ![holder.op] = "reserved"]
  /\ mutex' = "free" /\ holder' = Idle
  /\ UNCHANGED <<lock, server, supervisor, helper, deaths, contended>>

\* The record cannot be written: releaseLocked().
ReserveFails ==
  /\ holder.at = "reserve"
  /\ lock' = None /\ mutex' = "free" /\ holder' = Idle
  /\ UNCHANGED <<record, server, request, supervisor, helper, deaths, contended>>

\* executeManagedUpdateAction()
StartSupervisor(o) ==
  /\ request[o] = "reserved" /\ record[o].status = "reserved"
  /\ request' = [request EXCEPT ![o] = "started"]
  /\ supervisor' = [supervisor EXCEPT ![o].at = "starting"]
  /\ UNCHANGED <<mutex, lock, record, server, holder, helper, deaths, contended>>

\* Fault: an operation whose supervisor exited is failed whatever came of it.
Presumed(o) == TRUE

Unstarted(o) == record[o].status = "reserved"

\* failReservedUpdateOperation(): the backup or the start failed, or the
\* supervisor exited, and nothing was begun.
FailReserved(o) ==
  /\ \/ request[o] = "reserved"
     \/ request[o] = "started" /\ ~SupervisorAlive(o)
  /\ request' = [request EXCEPT ![o] = "failed"]
  /\ IF Unstarted(o)
     THEN /\ record' = [record EXCEPT ![o].status = "failed"]
          /\ lock' = IF lock = o /\ mutex = "free" THEN None ELSE lock
     ELSE UNCHANGED <<record, lock>>
  /\ UNCHANGED <<mutex, server, holder, supervisor, helper, deaths, contended>>

\* Fault: an operation whose processes are dead is given up.
ListGivesUp(o) ==
  IF record[o].status \in Active /\ ~KnownAlive(record[o], o)
  THEN lock' = None /\ UNCHANGED <<mutex, holder>>
  ELSE lock' = lock /\ UNCHANGED <<mutex, holder>>

\* What listUpdateOperations() does with the operation of the lock: interrupted
\* when the processes it knows of are dead, released when it is over.
ListFinds(o) ==
  IF record[o].status \in Active /\ ~KnownAlive(record[o], o)
  THEN /\ mutex' = "held"
       /\ holder' = [Idle EXCEPT !.at = "list", !.op = o]
       /\ UNCHANGED lock
  ELSE /\ lock' = IF record[o].status \in Active \cup {"none"} \/ record[o].recover
                  THEN lock ELSE None
       /\ UNCHANGED <<mutex, holder>>

List ==
  /\ mutex = "free" /\ lock # None
  /\ ListFinds(lock)
  /\ UNCHANGED <<record, server, request, supervisor, helper, deaths, contended>>

\* Its patch reads the record again.
ListReads ==
  /\ holder.at = "list"
  /\ holder' = [holder EXCEPT !.at = "patch", !.base = record[holder.op]]
  /\ UNCHANGED <<mutex, lock, record, server, request, supervisor, helper, deaths,
                 contended>>

ListWrites ==
  /\ holder.at = "patch"
  /\ record' = [record EXCEPT ![holder.op] =
       [holder.base EXCEPT !.status = "interrupted", !.recover = TRUE]]
  /\ mutex' = "free" /\ holder' = Idle
  /\ UNCHANGED <<lock, server, request, supervisor, helper, deaths, contended>>

\* The server dies or is replaced, perhaps under the mutex, which stays.
ServerDies ==
  /\ server <= MaxRestarts /\ server' = server + 1
  /\ mutex' = IF holder.at # "none" THEN "left" ELSE mutex
  /\ holder' = Idle
  /\ request' = [o \in Op |-> IF request[o] = "none" THEN "none" ELSE "failed"]
  /\ UNCHANGED <<lock, record, supervisor, helper, deaths, contended>>

-----------------------------------------------------------------------------
\* runManagedOperation()

Goes(o, at) == supervisor' = [supervisor EXCEPT ![o].at = at]

Ends(o) == supervisor' = [supervisor EXCEPT ![o] = [NoSupervisor EXCEPT !.at = "gone"]]

\* A patch with a goal begins.
Patches(o, goal) ==
  supervisor' = [supervisor EXCEPT ![o] = [@ EXCEPT !.at = "read", !.goal = goal]]

SupervisorStarts(o) ==
  /\ supervisor[o].at = "starting"
  /\ IF record[o].status = "reserved" THEN Patches(o, "running") ELSE Ends(o)
  /\ UNCHANGED <<mutex, lock, record, server, holder, request, helper, deaths,
                 contended>>

\* patchUpdateOperation(): read ...
PatchReads(o) ==
  /\ supervisor[o].at = "read"
  /\ supervisor' = [supervisor EXCEPT
       ![o] = [@ EXCEPT !.at = "write", !.base = record[o]]]
  /\ UNCHANGED <<mutex, lock, record, server, holder, request, helper, deaths,
                 contended>>

Merged(r, goal) ==
  CASE goal = "running" -> [r EXCEPT !.status = "running", !.pid = 0]
    [] goal = "helper"  -> [r EXCEPT !.helper = TRUE]
    [] OTHER            -> [r EXCEPT !.status = goal, !.helper = FALSE]

After(goal) ==
  CASE goal = "running"   -> "execute"
    [] goal = "helper"    -> "waiting"
    [] goal = "verifying" -> "verify"
    [] OTHER              -> "release"

\* ... and write.
PatchWrites(o) ==
  LET s == supervisor[o]
  IN  /\ s.at = "write"
      /\ record' = [record EXCEPT ![o] = Merged(s.base, s.goal)]
      /\ supervisor' = [supervisor EXCEPT
           ![o] = [@ EXCEPT !.at = After(s.goal), !.base = NoRecord]]
      /\ UNCHANGED <<mutex, lock, server, holder, request, helper, deaths, contended>>

\* Anything thrown is caught once, with "failed".
Throws(o) ==
  supervisor' = [supervisor EXCEPT
    ![o] = [at |-> IF @.caught THEN "gone" ELSE "read", goal |-> "failed",
            caught |-> TRUE, base |-> NoRecord]]

\* spawn(): the pid of the helper is recorded as it runs.
Execute(o) ==
  /\ supervisor[o].at = "execute"
  /\ \/ /\ helper' = [helper EXCEPT ![o].at = "alive"]
        /\ Patches(o, "helper")
     \/ Throws(o) /\ UNCHANGED helper
  /\ UNCHANGED <<mutex, lock, record, server, holder, request, deaths, contended>>

\* ... a failure of that write waits for the exit of the helper.
PidNotWritten(o) ==
  /\ supervisor[o].goal = "helper" /\ supervisor[o].at \in {"read", "write"}
  /\ helper[o].at = "exited"
  /\ Throws(o)

PidFails(o) ==
  /\ PidNotWritten(o)
  /\ UNCHANGED <<mutex, lock, record, server, holder, request, helper, deaths,
                 contended>>

\* Any other patch that cannot be read or written.  The first one is not caught
\* and ends the supervisor; a success that cannot be written is verified again.
PatchFails(o) ==
  /\ supervisor[o].at \in {"read", "write"} /\ supervisor[o].goal # "helper"
  /\ CASE supervisor[o].goal = "running"   -> Ends(o)
       [] supervisor[o].goal = "succeeded" -> Goes(o, "verify")
       [] OTHER                            -> Throws(o)
  /\ UNCHANGED <<mutex, lock, record, server, holder, request, helper, deaths,
                 contended>>

\* Before a verdict on the helper the record is read again, and before the first
\* attempt to verify the expected build is read and the health URL is checked:
\* each of these may throw.
CheckThrows(o) ==
  /\ \/ supervisor[o].at = "waiting" /\ helper[o].at = "exited" /\ ~helper[o].ok
     \/ supervisor[o].at = "verify" /\ supervisor[o].goal = "verifying"
  /\ Throws(o)
  /\ UNCHANGED <<mutex, lock, record, server, holder, request, helper, deaths,
                 contended>>

\* The helper has exited, and its pid is recorded.
HelperExited(o) ==
  /\ supervisor[o].at = "waiting" /\ helper[o].at = "exited"
  /\ Patches(o, IF helper[o].ok THEN "verifying" ELSE "failed")
  /\ UNCHANGED <<mutex, lock, record, server, holder, request, helper, deaths,
                 contended>>

\* The running process is the expected build, or is not in all attempts.
Verified(o, verdict) ==
  /\ supervisor[o].at = "verify" /\ verdict \in {"succeeded", "verification_failed"}
  /\ Patches(o, verdict)
  /\ UNCHANGED <<mutex, lock, record, server, holder, request, helper, deaths,
                 contended>>

\* releaseUpdateOperation()
Release(o) ==
  /\ supervisor[o].at = "release" /\ mutex = "free"
  /\ lock' = IF lock = o THEN None ELSE lock
  /\ Ends(o)
  /\ UNCHANGED <<mutex, record, server, holder, request, helper, deaths, contended>>

\* The mutex is not free within two seconds.  A success is verified again; all
\* else is caught.
ReleaseFails(o) ==
  /\ supervisor[o].at = "release" /\ mutex # "free"
  /\ IF supervisor[o].goal = "succeeded" THEN Goes(o, "verify") ELSE Throws(o)
  /\ contended' = contended \cup {o}
  /\ UNCHANGED <<mutex, lock, record, server, holder, request, helper, deaths>>

\* The supervisor dies; a helper lives on.
SupervisorDies(o) ==
  /\ SupervisorAlive(o)
  /\ deaths < MaxDeaths /\ deaths' = deaths + 1
  /\ Ends(o)
  /\ mutex' \in IF supervisor[o].at = "release" /\ mutex = "free"
                THEN {mutex, "left"} ELSE {mutex}
  /\ UNCHANGED <<lock, record, server, holder, request, helper, contended>>

-----------------------------------------------------------------------------
\* The helper (external but for the patch of runStagedDeployment()): it
\* patches the record when a rollback was verified.

HelperReads(o) ==
  /\ helper[o].at = "alive" /\ helper[o].patch = NoRecord
  /\ helper' = [helper EXCEPT ![o].patch = record[o]]
  /\ UNCHANGED <<mutex, lock, record, server, holder, request, supervisor, deaths,
                 contended>>

\* The helper writes what it read, and ends in failure.
HelperWrites(o) ==
  /\ helper[o].at = "alive" /\ helper[o].patch # NoRecord
  /\ record' = [record EXCEPT ![o] = helper[o].patch]
  /\ helper' = [helper EXCEPT ![o] = [@ EXCEPT !.at = "exited", !.patch = NoRecord]]
  /\ UNCHANGED <<mutex, lock, server, holder, request, supervisor, deaths, contended>>

HelperEnds(o, ok) ==
  /\ helper[o].at = "alive" /\ helper[o].patch = NoRecord
  /\ helper' = [helper EXCEPT ![o].at = "exited", ![o].ok = ok]
  /\ UNCHANGED <<mutex, lock, record, server, holder, request, supervisor, deaths,
                 contended>>

\* The operator has seen that no process is left, and removes lock and mutex.
OperatorRecovers ==
  /\ deaths < MaxDeaths /\ deaths' = deaths + 1
  /\ \A o \in Op : /\ ~SupervisorAlive(o) /\ helper[o].at # "alive"
                   /\ request[o] # "reserved"
  /\ holder.at = "none" /\ lock # None
  /\ mutex' = "free" /\ lock' = None
  /\ UNCHANGED <<record, server, holder, request, supervisor, helper, contended>>

Next ==
  \/ \E o \in Op :
       \/ ReserveLock(o) \/ StartSupervisor(o) \/ FailReserved(o)
       \/ SupervisorStarts(o) \/ PatchReads(o) \/ PatchWrites(o) \/ Execute(o)
       \/ PidFails(o) \/ PatchFails(o) \/ CheckThrows(o) \/ HelperExited(o)
       \/ \E v \in Verdicts : Verified(o, v)
       \/ Release(o) \/ ReleaseFails(o) \/ SupervisorDies(o)
       \/ HelperReads(o) \/ HelperWrites(o)
       \/ \E ok \in BOOLEAN : HelperEnds(o, ok)
  \/ ReserveRecord \/ ReserveFails \/ List \/ ListReads \/ ListWrites \/ ServerDies
  \/ OperatorRecovers

Spec == Init /\ [][Next]_vars

-----------------------------------------------------------------------------
\* managed-update-runner.mjs:38, "Never release a lock while an already-spawned
\* helper may still mutate": whichever process dies, and however the patches of
\* server, supervisor and helper overwrite one another, a helper that lives has
\* the lock, so no second operation changes the installation beside it.
HelperHoldsLock == \A o \in Op : helper[o].at = "alive" => lock = o

\* A verdict is not taken back or changed, unless the lock could not be released
\* after it: then the supervisor, which takes that for a failure, may write
\* another one.  A list that had judged the operation before may still mark it.
VerdictStands ==
  [][\A o \in Op : record[o].status \in Verdicts /\ o \notin contended =>
       record'[o].status \in {record[o].status, "interrupted"}]_vars
=============================================================================
