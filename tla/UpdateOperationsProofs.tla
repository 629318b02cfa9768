------------------------ MODULE UpdateOperationsProofs -----------------------
(***************************************************************************)
(* Proofs about managed updates, for any operations and any number of deaths *)
(* of the processes.                                                         *)
(***************************************************************************)
EXTENDS UpdateOperations, TLAPS

\* The server is under the mutex with an operation of its own.
Holding ==
  /\ holder.at # "none" => mutex = "held" /\ holder.op \in Op
  /\ holder.at = "reserve" => lock = holder.op /\ request[holder.op] = "none"
  /\ holder.at \in {"list", "patch"} => request[holder.op] # "none"

\* The supervisor has not spawned the helper yet, but may.
Before(o) ==
  \/ supervisor[o].at \in {"starting", "execute"}
  \/ supervisor[o].at \in {"read", "write"} /\ supervisor[o].goal = "running"

\* An operation is requested before its supervisor starts, and that before its
\* helper.
Begun(o) ==
  /\ request[o] = "none" => supervisor[o].at = "none" /\ record[o] = NoRecord
  /\ request[o] = "reserved" => supervisor[o].at = "none"
  /\ supervisor[o].at = "none" \/ Before(o) => helper[o].at = "none"
  /\ helper[o].at = "none" => helper[o].patch = NoRecord

\* What keeps a list from releasing the lock.
Kept(r) == r.status \in Active \/ r.recover

\* An operation that has a helper, or may have one, has the lock.
Locked(o) ==
  request[o] = "reserved" \/ Before(o) \/ helper[o].at = "alive" =>
    lock = o /\ Kept(record[o]) /\ o \notin contended

\* A record, or what a patch read of it, that shows no verdict and no start to
\* come: while a helper lives its operation is neither over nor given up.
Going(r) == Kept(r) /\ r.status \notin Verdicts \cup {"reserved", "none"}

Helped(o) ==
  helper[o].at = "alive" =>
    /\ \/ supervisor[o].at \in {"read", "write"} /\ supervisor[o].goal = "helper"
       \/ supervisor[o].at \in {"waiting", "gone"}
    /\ Going(record[o])
    /\ supervisor[o].at = "write" => Going(supervisor[o].base)
    /\ helper[o].patch # NoRecord => Going(helper[o].patch)

\* A verdict is the last thing a supervisor writes, if it can then release.
Final(o) ==
  /\ o \in contended => request[o] # "none"
  /\ supervisor[o].at = "execute" => Going(record[o])
  /\ o \notin contended /\ record[o].status \in Verdicts =>
       supervisor[o].at \in {"none", "release", "gone"}
  /\ o \notin contended /\ supervisor[o].at = "write" /\ supervisor[o].goal # "running" =>
       supervisor[o].base.status \notin Verdicts
  /\ supervisor[o].at = "release" => supervisor[o].goal \in Verdicts

OpInv(o) == Begun(o) /\ Locked(o) /\ Helped(o) /\ Final(o)

IInv == TypeOK /\ Holding /\ \A o \in Op : OpInv(o)

-----------------------------------------------------------------------------
\* An operation that a step does not touch, and whose lock it leaves.
LEMMA OthersKeep ==
  ASSUME NEW o \in Op, OpInv(o),
         supervisor'[o] = supervisor[o], helper'[o] = helper[o],
         record'[o] = record[o], request'[o] = request[o],
         o \in contended' <=> o \in contended,
         lock = o => lock' = o
  PROVE  OpInv(o)'
BY DEF OpInv, Begun, Before, Locked, Helped, Final

LEMMA StepOfOne ==
  ASSUME IInv, NEW o \in Op, TypeOK', Holding', OpInv(o)',
         \A p \in Op \ {o} :
           /\ supervisor'[p] = supervisor[p] /\ helper'[p] = helper[p]
           /\ record'[p] = record[p] /\ request'[p] = request[p]
           /\ p \in contended' <=> p \in contended
           /\ lock = p => lock' = p
  PROVE  IInv'
<1>1. ASSUME NEW p \in Op, p # o  PROVE OpInv(p)'
  BY <1>1, OthersKeep DEF IInv
<1> QED  BY <1>1 DEF IInv

\* What the assignments to a supervisor leave of it.
LEMMA GoesTo ==
  ASSUME TypeOK, NEW o \in Op, NEW at \in Steps, Goes(o, at)
  PROVE  /\ supervisor' \in [Op -> Supervisor]
         /\ supervisor'[o].at = at
         /\ supervisor'[o].goal = supervisor[o].goal
         /\ supervisor'[o].base = supervisor[o].base
         /\ \A p \in Op \ {o} : supervisor'[p] = supervisor[p]
BY DEF TypeOK, Goes, Supervisor

LEMMA PatchBegins ==
  ASSUME TypeOK, NEW o \in Op, NEW goal \in Goals, Patches(o, goal)
  PROVE  /\ supervisor' \in [Op -> Supervisor]
         /\ supervisor'[o].at = "read" /\ supervisor'[o].goal = goal
         /\ \A p \in Op \ {o} : supervisor'[p] = supervisor[p]
<1> DEFINE s == [supervisor[o] EXCEPT !.at = "read", !.goal = goal]
<1>1. s \in Supervisor /\ s.at = "read" /\ s.goal = goal
  BY ZenonT(60) DEF TypeOK, Supervisor, Steps
<1>2. supervisor' = [supervisor EXCEPT ![o] = s]
  BY DEF Patches
<1> HIDE DEF s
<1> QED  BY <1>1, <1>2 DEF TypeOK

LEMMA NoRecordIsRecord == ASSUME UpdateAssumption PROVE NoRecord \in Record
<1>1. 0 \in 0..(MaxRestarts + 1)
  BY DEF UpdateAssumption
<1> QED  BY <1>1 DEF NoRecord, Record, Status

LEMMA Ended ==
  ASSUME UpdateAssumption, TypeOK, NEW o \in Op, Ends(o)
  PROVE  /\ supervisor' \in [Op -> Supervisor] /\ supervisor'[o].at = "gone"
         /\ \A p \in Op \ {o} : supervisor'[p] = supervisor[p]
<1> DEFINE s == [NoSupervisor EXCEPT !.at = "gone"]
<1>1. s \in Supervisor /\ s.at = "gone"
  BY NoRecordIsRecord DEF NoSupervisor, Supervisor, Steps, Goals
<1>2. supervisor' = [supervisor EXCEPT ![o] = s]
  BY DEF Ends
<1> HIDE DEF s
<1> QED  BY <1>1, <1>2 DEF TypeOK

LEMMA Thrown ==
  ASSUME UpdateAssumption, TypeOK, NEW o \in Op, Throws(o)
  PROVE  /\ supervisor' \in [Op -> Supervisor]
         /\ supervisor'[o].at \in {"read", "gone"} /\ supervisor'[o].goal = "failed"
         /\ \A p \in Op \ {o} : supervisor'[p] = supervisor[p]
<1> DEFINE at == IF supervisor[o].caught THEN "gone" ELSE "read"
           s == [at |-> at, goal |-> "failed", base |-> NoRecord, caught |-> TRUE]
<1>1. at \in {"read", "gone"} /\ at \in Steps /\ "failed" \in Goals
  BY DEF Steps, Goals, Verdicts
<1>2. supervisor[o] \in Supervisor
  BY DEF TypeOK
<1>3. supervisor' = [supervisor EXCEPT ![o] = s]
  BY <1>2 DEF Throws, Supervisor, TypeOK
<1> HIDE DEF at
<1>4. s \in Supervisor
  BY <1>1, NoRecordIsRecord DEF Supervisor
<1> QED  BY <1>1, <1>3, <1>4 DEF TypeOK

\* What a patch writes.
LEMMA MergedRecord ==
  ASSUME UpdateAssumption, NEW r \in Record, NEW goal \in Goals
  PROVE  /\ Merged(r, goal) \in Record
         /\ Merged(r, goal).status = IF goal = "helper" THEN r.status ELSE goal
         /\ Merged(r, goal).recover = r.recover
<1>1. 0 \in 0..(MaxRestarts + 1)
  BY DEF UpdateAssumption
<1>2. CASE goal = "running"
  <2>1. Merged(r, goal) = [r EXCEPT !.status = "running", !.pid = 0]
    BY <1>2 DEF Merged
  <2> QED  BY <1>1, <1>2, <2>1 DEF Record, Status, Active
<1>3. CASE goal = "helper"
  <2>1. Merged(r, goal) = [r EXCEPT !.helper = TRUE]
    BY <1>3 DEF Merged
  <2> QED  BY <1>3, <2>1 DEF Record
<1>4. CASE goal # "running" /\ goal # "helper"
  <2>1. Merged(r, goal) = [r EXCEPT !.status = goal, !.helper = FALSE]
    BY <1>4 DEF Merged
  <2>2. goal \in Status
    BY <1>4 DEF Goals, Status, Active
  <2> QED  BY <1>4, <2>1, <2>2 DEF Record
<1> QED  BY <1>2, <1>3, <1>4

-----------------------------------------------------------------------------
LEMMA IInvHolds == ASSUME UpdateAssumption PROVE Spec => []IInv
<1>1. Init => IInv
  <2> SUFFICES ASSUME Init  PROVE IInv
    OBVIOUS
  <2>1. /\ NoRecord \in Record /\ 1 \in 1..(MaxRestarts + 1) /\ 0 \in 0..MaxDeaths
        /\ NoRecord.status = "none"
    BY NoRecordIsRecord DEF UpdateAssumption, NoRecord
  <2>2. NoSupervisor \in Supervisor /\ NoSupervisor.at = "none"
    BY <2>1 DEF NoSupervisor, Supervisor, Steps, Goals
  <2>3. Idle \in [at : {"none", "reserve", "list", "patch"}, op : Op \cup {None},
                  base : Record] /\ Idle.at = "none"
    BY <2>1 DEF Idle
  <2>4. TypeOK
    BY <2>1, <2>2, <2>3 DEF Init, TypeOK
  <2>5. Holding
    BY <2>3 DEF Init, Holding
  <2>6. ASSUME NEW o \in Op  PROVE OpInv(o)
    <3>1. /\ request[o] = "none" /\ record[o] = NoRecord /\ supervisor[o].at = "none"
          /\ helper[o].at = "none" /\ helper[o].patch = NoRecord /\ o \notin contended
          /\ record[o].status = "none"
      BY <2>1, <2>2 DEF Init
    <3> QED  BY <3>1 DEF OpInv, Begun, Before, Locked, Helped, Final, Verdicts
  <2> QED  BY <2>4, <2>5, <2>6 DEF IInv
<1>2. IInv /\ [Next]_vars => IInv'
  <2> SUFFICES ASSUME IInv, [Next]_vars  PROVE IInv'
    OBVIOUS
  <2>a. NoRecord \in Record /\ NoRecord.status = "none" /\ None \notin Op
    BY NoRecordIsRecord DEF UpdateAssumption, NoRecord
  <2>1. ASSUME NEW o \in Op, ReserveLock(o)  PROVE IInv'
    <3>a. OpInv(o) /\ TypeOK /\ Holding
      BY DEF IInv
    <3>b. /\ request[o] = "none" /\ mutex' = "held" /\ lock = None /\ lock' = o
          /\ holder' = [Idle EXCEPT !.at = "reserve", !.op = o]
          /\ UNCHANGED <<record, server, request, supervisor, helper, deaths, contended>>
      BY <2>1 DEF ReserveLock
    <3>c. holder' = [at |-> "reserve", op |-> o, base |-> NoRecord]
      BY <3>b DEF Idle
    <3>1. \A p \in Op \ {o} :
            /\ supervisor'[p] = supervisor[p] /\ helper'[p] = helper[p]
            /\ record'[p] = record[p] /\ request'[p] = request[p]
            /\ p \in contended' <=> p \in contended
            /\ lock = p => lock' = p
      BY <2>a, <3>b
    <3>2. TypeOK'
      BY <2>a, <3>a, <3>b, <3>c DEF TypeOK
    <3>3. Holding'
      BY <3>a, <3>b, <3>c DEF Holding
    <3>4. OpInv(o)'
      BY <2>a, <3>a, <3>b DEF OpInv, Begun, Before, Locked, Helped, Final
    <3> QED  BY <3>1, <3>2, <3>3, <3>4, StepOfOne
  <2>2. ASSUME NEW o \in Op, StartSupervisor(o)  PROVE IInv'
    <3>a. OpInv(o) /\ TypeOK /\ Holding
      BY DEF IInv
    <3>b. /\ request[o] = "reserved" /\ record[o].status = "reserved"
          /\ request' = [request EXCEPT ![o] = "started"] /\ Goes(o, "starting")
          /\ UNCHANGED <<mutex, lock, record, server, holder, helper, deaths, contended>>
      BY <2>2 DEF StartSupervisor, Goes
    <3>c. /\ supervisor' \in [Op -> Supervisor] /\ supervisor'[o].at = "starting"
          /\ supervisor'[o].goal = supervisor[o].goal
          /\ supervisor'[o].base = supervisor[o].base
          /\ \A p \in Op \ {o} : supervisor'[p] = supervisor[p]
      BY <3>a, <3>b, GoesTo DEF Steps
    <3>d. /\ request' \in [Op -> {"none", "reserved", "started", "failed"}]
          /\ request'[o] = "started"
          /\ \A p \in Op \ {o} : request'[p] = request[p]
      BY <3>a, <3>b DEF TypeOK
    <3>1. \A p \in Op \ {o} :
            /\ supervisor'[p] = supervisor[p] /\ helper'[p] = helper[p]
            /\ record'[p] = record[p] /\ request'[p] = request[p]
            /\ p \in contended' <=> p \in contended
            /\ lock = p => lock' = p
      BY <3>b, <3>c, <3>d
    <3>2. TypeOK'
      BY <3>a, <3>b, <3>c, <3>d DEF TypeOK
    <3>3. Holding'
      BY <3>a, <3>b, <3>d DEF Holding, TypeOK
    <3>4. Begun(o)'
      BY <2>a, <3>a, <3>b, <3>c, <3>d DEF OpInv, Begun, Before
    <3>5. Locked(o)'
      BY <2>a, <3>a, <3>b, <3>c, <3>d DEF OpInv, Begun, Before, Locked, Helped, Kept
    <3>6. Helped(o)'
      BY <2>a, <3>a, <3>b, <3>c, <3>d DEF OpInv, Before, Helped, Going, Kept
    <3>7. Final(o)'
      BY <2>a, <3>a, <3>b, <3>c, <3>d DEF OpInv, Begun, Helped, Final, Going, Verdicts
    <3> QED  BY <3>1, <3>2, <3>3, <3>4, <3>5, <3>6, <3>7, StepOfOne DEF OpInv
  <2>3. ASSUME NEW o \in Op, FailReserved(o)  PROVE IInv'
    <3>a. OpInv(o) /\ TypeOK /\ Holding
      BY DEF IInv
    <3>b. /\ request[o] = "reserved" \/ (request[o] = "started" /\ ~SupervisorAlive(o))
          /\ request' = [request EXCEPT ![o] = "failed"]
          /\ IF record[o].status = "reserved"
             THEN /\ record' = [record EXCEPT ![o].status = "failed"]
                  /\ lock' = IF lock = o /\ mutex = "free" THEN None ELSE lock
             ELSE UNCHANGED <<record, lock>>
          /\ UNCHANGED <<mutex, server, holder, supervisor, helper, deaths, contended>>
      BY <2>3 DEF FailReserved, Unstarted
    <3>c. supervisor[o].at \in {"none", "gone"} /\ request[o] # "none"
      BY <3>a, <3>b DEF OpInv, Begun, SupervisorAlive
    <3>d. /\ request' \in [Op -> {"none", "reserved", "started", "failed"}]
          /\ request'[o] = "failed"
          /\ \A p \in Op \ {o} : request'[p] = request[p]
      BY <3>a, <3>b DEF TypeOK
    <3>e. /\ record' \in [Op -> Record]
          /\ record[o].status # "reserved" => record'[o] = record[o] /\ lock' = lock
          /\ \A p \in Op \ {o} : record'[p] = record[p]
      <4>1. CASE record[o].status = "reserved"
        <5>1. record[o] \in Record /\ "failed" \in Status
          BY <3>a DEF TypeOK, Status, Verdicts
        <5>2. [record[o] EXCEPT !.status = "failed"] \in Record
          BY <5>1 DEF Record
        <5> QED  BY <3>a, <3>b, <4>1, <5>2 DEF TypeOK
      <4>2. CASE record[o].status # "reserved"
        BY <3>a, <3>b, <4>2 DEF TypeOK
      <4> QED  BY <4>1, <4>2
    <3>f. lock' \in Op \cup {None} /\ \A p \in Op \ {o} : lock = p => lock' = p
      BY <3>a, <3>b DEF TypeOK
    <3>g. helper[o].at = "alive" => record[o].status # "reserved"
      BY <3>a DEF OpInv, Helped, Going
    <3>1. \A p \in Op \ {o} :
            /\ supervisor'[p] = supervisor[p] /\ helper'[p] = helper[p]
            /\ record'[p] = record[p] /\ request'[p] = request[p]
            /\ p \in contended' <=> p \in contended
            /\ lock = p => lock' = p
      BY <3>b, <3>d, <3>e, <3>f
    <3>2. TypeOK'
      BY <3>a, <3>b, <3>d, <3>e, <3>f DEF TypeOK
    <3>3. Holding'
      <4>1. holder.at = "reserve" => holder.op # o
        BY <3>a, <3>c DEF Holding
      <4> QED  BY <3>a, <3>b, <3>d, <3>f, <4>1 DEF Holding
    <3>4. Begun(o)'
      BY <3>a, <3>b, <3>c, <3>d DEF OpInv, Begun, Before
    <3>5. Locked(o)'
      BY <3>a, <3>b, <3>c, <3>d, <3>e, <3>g DEF OpInv, Before, Locked
    <3>6. Helped(o)'
      BY <3>a, <3>b, <3>c, <3>e, <3>g DEF OpInv, Helped
    <3>7. Final(o)'
      BY <3>a, <3>b, <3>c, <3>d DEF OpInv, Final
    <3> QED  BY <3>1, <3>2, <3>3, <3>4, <3>5, <3>6, <3>7, StepOfOne DEF OpInv
  <2>4. ASSUME NEW o \in Op, SupervisorStarts(o), record[o].status = "reserved"  PROVE IInv'
    <3>a. OpInv(o) /\ TypeOK /\ Holding
      BY DEF IInv
    <3>b. /\ supervisor[o].at = "starting" /\ Patches(o, "running")
          /\ UNCHANGED <<mutex, lock, record, server, holder, request, helper, deaths, contended>>
      BY <2>4 DEF SupervisorStarts
    <3>c. /\ supervisor' \in [Op -> Supervisor] /\ supervisor'[o].at = "read"
          /\ supervisor'[o].goal = "running"
          /\ \A p \in Op \ {o} : supervisor'[p] = supervisor[p]
      BY <3>a, <3>b, PatchBegins DEF Goals, Verdicts
    <3>1. \A p \in Op \ {o} :
            /\ supervisor'[p] = supervisor[p] /\ helper'[p] = helper[p]
            /\ record'[p] = record[p] /\ request'[p] = request[p]
            /\ p \in contended' <=> p \in contended
            /\ lock = p => lock' = p
      BY <3>b, <3>c
    <3>2. TypeOK'
      BY <3>a, <3>b, <3>c DEF TypeOK
    <3>3. Holding'
      BY <3>a, <3>b DEF Holding
    <3>4. Begun(o)'
      BY <2>a, <3>a, <3>b, <3>c DEF OpInv, Begun, Before
    <3>5. Locked(o)'
      BY <2>a, <3>a, <3>b, <3>c DEF OpInv, Begun, Before, Locked, Helped, Kept
    <3>6. Helped(o)'
      BY <2>a, <3>a, <3>b, <3>c DEF OpInv, Before, Helped, Going, Kept
    <3>7. Final(o)'
      BY <2>a, <3>a, <3>b, <3>c DEF OpInv, Begun, Helped, Final, Going
    <3> QED  BY <3>1, <3>2, <3>3, <3>4, <3>5, <3>6, <3>7, StepOfOne DEF OpInv
  <2>5. ASSUME NEW o \in Op, SupervisorStarts(o), record[o].status # "reserved"  PROVE IInv'
    <3>a. OpInv(o) /\ TypeOK /\ Holding
      BY DEF IInv
    <3>b. /\ supervisor[o].at = "starting" /\ Ends(o)
          /\ UNCHANGED <<mutex, lock, record, server, holder, request, helper, deaths, contended>>
      BY <2>5 DEF SupervisorStarts
    <3>c. /\ supervisor' \in [Op -> Supervisor] /\ supervisor'[o].at = "gone"
          /\ \A p \in Op \ {o} : supervisor'[p] = supervisor[p]
      BY <3>a, <3>b, Ended
    <3>1. \A p \in Op \ {o} :
            /\ supervisor'[p] = supervisor[p] /\ helper'[p] = helper[p]
            /\ record'[p] = record[p] /\ request'[p] = request[p]
            /\ p \in contended' <=> p \in contended
            /\ lock = p => lock' = p
      BY <3>b, <3>c
    <3>2. TypeOK'
      BY <3>a, <3>b, <3>c DEF TypeOK
    <3>3. Holding'
      BY <3>a, <3>b DEF Holding
    <3>4. Begun(o)'
      BY <2>a, <3>a, <3>b, <3>c DEF OpInv, Begun, Before
    <3>5. Locked(o)'
      BY <2>a, <3>a, <3>b, <3>c DEF OpInv, Begun, Before, Locked, Helped, Kept
    <3>6. Helped(o)'
      BY <2>a, <3>a, <3>b, <3>c DEF OpInv, Before, Helped, Going, Kept
    <3>7. Final(o)'
      BY <2>a, <3>a, <3>b, <3>c DEF OpInv, Begun, Helped, Final, Going
    <3> QED  BY <3>1, <3>2, <3>3, <3>4, <3>5, <3>6, <3>7, StepOfOne DEF OpInv
  <2>6. ASSUME NEW o \in Op, PatchReads(o)  PROVE IInv'
    <3>a. OpInv(o) /\ TypeOK /\ Holding
      BY DEF IInv
    <3>b. /\ supervisor[o].at = "read"
          /\ supervisor' = [supervisor EXCEPT
               ![o] = [@ EXCEPT !.at = "write", !.base = record[o]]]
          /\ UNCHANGED <<mutex, lock, record, server, holder, request, helper, deaths, contended>>
      BY <2>6 DEF PatchReads
    <3>c. /\ supervisor' \in [Op -> Supervisor] /\ supervisor'[o].at = "write"
          /\ supervisor'[o].goal = supervisor[o].goal
          /\ supervisor'[o].base = record[o]
          /\ \A p \in Op \ {o} : supervisor'[p] = supervisor[p]
      <4> DEFINE s == [supervisor[o] EXCEPT !.at = "write", !.base = record[o]]
      <4>1. /\ s \in Supervisor /\ s.at = "write" /\ s.goal = supervisor[o].goal
            /\ s.base = record[o]
        BY ZenonT(60), <3>a DEF TypeOK, Supervisor, Steps
      <4>2. supervisor' = [supervisor EXCEPT ![o] = s]
        BY <3>b
      <4> HIDE DEF s
      <4> QED  BY <3>a, <4>1, <4>2 DEF TypeOK
    <3>1. \A p \in Op \ {o} :
            /\ supervisor'[p] = supervisor[p] /\ helper'[p] = helper[p]
            /\ record'[p] = record[p] /\ request'[p] = request[p]
            /\ p \in contended' <=> p \in contended
            /\ lock = p => lock' = p
      BY <3>b, <3>c
    <3>2. TypeOK'
      BY <3>a, <3>b, <3>c DEF TypeOK
    <3>3. Holding'
      BY <3>a, <3>b DEF Holding
    <3>4. Begun(o)'
      BY <2>a, <3>a, <3>b, <3>c DEF OpInv, Begun, Before
    <3>5. Locked(o)'
      BY <2>a, <3>a, <3>b, <3>c DEF OpInv, Begun, Before, Locked, Helped, Kept
    <3>6. Helped(o)'
      BY <2>a, <3>a, <3>b, <3>c DEF OpInv, Before, Helped, Going, Kept
    <3>7. Final(o)'
      BY <2>a, <3>a, <3>b, <3>c DEF OpInv, Begun, Helped, Final, Going
    <3> QED  BY <3>1, <3>2, <3>3, <3>4, <3>5, <3>6, <3>7, StepOfOne DEF OpInv
  <2>7. ASSUME NEW o \in Op, PatchWrites(o)  PROVE IInv'
    <3>a. OpInv(o) /\ TypeOK /\ Holding
      BY DEF IInv
    <3>b. /\ supervisor[o].at = "write"
          /\ record' = [record EXCEPT ![o] = Merged(supervisor[o].base, supervisor[o].goal)]
          /\ supervisor' = [supervisor EXCEPT ![o] =
               [@ EXCEPT !.at = After(supervisor[o].goal), !.base = NoRecord]]
          /\ UNCHANGED <<mutex, lock, server, holder, request, helper, deaths, contended>>
      BY <2>7 DEF PatchWrites
    <3>c. /\ supervisor[o] \in Supervisor /\ supervisor[o].goal \in Goals
          /\ supervisor[o].base \in Record
      BY <3>a DEF TypeOK, Supervisor
    <3>d. /\ record' \in [Op -> Record]
          /\ record'[o].status = IF supervisor[o].goal = "helper"
                                 THEN supervisor[o].base.status ELSE supervisor[o].goal
          /\ record'[o].recover = supervisor[o].base.recover
          /\ \A p \in Op \ {o} : record'[p] = record[p]
      BY <3>a, <3>b, <3>c, MergedRecord DEF TypeOK
    <3>e. /\ supervisor' \in [Op -> Supervisor]
          /\ supervisor'[o].at = After(supervisor[o].goal)
          /\ supervisor'[o].goal = supervisor[o].goal
          /\ \A p \in Op \ {o} : supervisor'[p] = supervisor[p]
      <4> DEFINE s == [supervisor[o] EXCEPT !.at = After(supervisor[o].goal),
                                            !.base = NoRecord]
      <4>1. After(supervisor[o].goal) \in Steps
        BY DEF After, Steps
      <4>2. /\ s \in Supervisor /\ s.at = After(supervisor[o].goal)
            /\ s.goal = supervisor[o].goal
        BY <2>a, <3>c, <4>1 DEF Supervisor
      <4>3. supervisor' = [supervisor EXCEPT ![o] = s]
        BY <3>b
      <4> HIDE DEF s
      <4> QED  BY <3>a, <4>2, <4>3 DEF TypeOK
    <3>f. LET g == supervisor[o].goal
          IN  /\ g = "running" => After(g) = "execute"
              /\ g = "helper" => After(g) = "waiting"
              /\ g = "verifying" => After(g) = "verify"
              /\ g \in Verdicts => After(g) = "release"
              /\ g \in {"running", "helper", "verifying"} \/ g \in Verdicts
      BY <3>c DEF After, Goals, Verdicts
    <3>1. \A p \in Op \ {o} :
            /\ supervisor'[p] = supervisor[p] /\ helper'[p] = helper[p]
            /\ record'[p] = record[p] /\ request'[p] = request[p]
            /\ p \in contended' <=> p \in contended
            /\ lock = p => lock' = p
      BY <3>b, <3>d, <3>e
    <3>2. TypeOK'
      BY <3>a, <3>b, <3>d, <3>e DEF TypeOK
    <3>3. Holding'
      BY <3>a, <3>b DEF Holding
    <3>4. Begun(o)'
      BY <2>a, <3>a, <3>b, <3>c, <3>d, <3>e, <3>f DEF OpInv, Begun, Before
    <3>5. Locked(o)'
      BY <2>a, <3>a, <3>b, <3>c, <3>d, <3>e, <3>f
         DEF OpInv, Begun, Before, Locked, Helped, Final, Going, Kept, Active, Verdicts
    <3>6. Helped(o)'
      BY <2>a, <3>a, <3>b, <3>c, <3>d, <3>e, <3>f DEF OpInv, Before, Helped, Going, Kept
    <3>7. Final(o)'
      BY <2>a, <3>a, <3>b, <3>c, <3>d, <3>e, <3>f
         DEF OpInv, Begun, Before, Locked, Helped, Final, Going, Kept, Active, Verdicts
    <3> QED  BY <3>1, <3>2, <3>3, <3>4, <3>5, <3>6, <3>7, StepOfOne DEF OpInv
  <2>8. ASSUME NEW o \in Op, Execute(o)  PROVE IInv'
    <3>a. OpInv(o) /\ TypeOK /\ Holding
      BY DEF IInv
    <3>b. /\ supervisor[o].at = "execute"
          /\ UNCHANGED <<mutex, lock, record, server, holder, request, deaths, contended>>
      BY <2>8 DEF Execute
    <3>c. CASE helper' = [helper EXCEPT ![o].at = "alive"] /\ Patches(o, "helper")
      <4>1. /\ supervisor' \in [Op -> Supervisor] /\ supervisor'[o].at = "read"
            /\ supervisor'[o].goal = "helper"
            /\ \A p \in Op \ {o} : supervisor'[p] = supervisor[p]
        BY <3>a, <3>c, PatchBegins DEF Goals
      <4>2. /\ helper' \in [Op -> [at : {"none", "alive", "exited"}, ok : BOOLEAN,
                                    patch : Record]]
            /\ helper'[o].at = "alive" /\ helper'[o].patch = helper[o].patch
            /\ \A p \in Op \ {o} : helper'[p] = helper[p]
        BY <3>a, <3>c DEF TypeOK
      <4>3. helper[o].patch = NoRecord /\ Going(record[o])
        BY <3>a, <3>b DEF OpInv, Begun, Before, Final
      <4>4. TypeOK' /\ Holding'
        BY <3>a, <3>b, <4>1, <4>2 DEF TypeOK, Holding
      <4>5. Begun(o)'
        BY <3>a, <3>b, <4>1, <4>2 DEF OpInv, Begun, Before
      <4>6. Locked(o)'
        BY <3>a, <3>b, <4>1, <4>2 DEF OpInv, Before, Locked
      <4>7. Helped(o)'
        BY <3>b, <4>1, <4>2, <4>3 DEF Helped
      <4>8. Final(o)'
        BY <3>a, <3>b, <4>1, <4>3 DEF OpInv, Final, Going
      <4> QED  BY <3>b, <4>1, <4>2, <4>4, <4>5, <4>6, <4>7, <4>8, StepOfOne DEF OpInv
    <3>d. CASE Throws(o) /\ helper' = helper
      <4>1. /\ supervisor' \in [Op -> Supervisor]
            /\ supervisor'[o].at \in {"read", "gone"} /\ supervisor'[o].goal = "failed"
            /\ \A p \in Op \ {o} : supervisor'[p] = supervisor[p]
        BY <3>a, <3>d, Thrown
      <4>2. TypeOK' /\ Holding'
        BY <3>a, <3>b, <3>d, <4>1 DEF TypeOK, Holding
      <4>3. Begun(o)' /\ Locked(o)' /\ Helped(o)'
        BY <3>a, <3>b, <3>d, <4>1 DEF OpInv, Begun, Before, Locked, Helped
      <4>4. Final(o)'
        BY <3>a, <3>b, <3>d, <4>1 DEF OpInv, Final, Going
      <4> QED  BY <3>b, <3>d, <4>1, <4>2, <4>3, <4>4, StepOfOne DEF OpInv
    <3> QED  BY <2>8, <3>c, <3>d DEF Execute
  <2>9. ASSUME NEW o \in Op, PidFails(o)  PROVE IInv'
    <3>a. OpInv(o) /\ TypeOK /\ Holding
      BY DEF IInv
    <3>b. /\ supervisor[o].goal = "helper" /\ supervisor[o].at \in {"read", "write"}
          /\ helper[o].at = "exited" /\ Throws(o)
          /\ UNCHANGED <<mutex, lock, record, server, holder, request, helper, deaths, contended>>
      BY <2>9 DEF PidFails, PidNotWritten
    <3>c. /\ supervisor' \in [Op -> Supervisor]
          /\ supervisor'[o].at \in {"read", "gone"} /\ supervisor'[o].goal = "failed"
          /\ \A p \in Op \ {o} : supervisor'[p] = supervisor[p]
      BY <3>a, <3>b, Thrown
    <3>1. \A p \in Op \ {o} :
            /\ supervisor'[p] = supervisor[p] /\ helper'[p] = helper[p]
            /\ record'[p] = record[p] /\ request'[p] = request[p]
            /\ p \in contended' <=> p \in contended
            /\ lock = p => lock' = p
      BY <3>b, <3>c
    <3>2. TypeOK'
      BY <3>a, <3>b, <3>c DEF TypeOK
    <3>3. Holding'
      BY <3>a, <3>b DEF Holding
    <3>4. Begun(o)'
      BY <2>a, <3>a, <3>b, <3>c DEF OpInv, Begun, Before
    <3>5. Locked(o)'
      BY <2>a, <3>a, <3>b, <3>c DEF OpInv, Begun, Before, Locked, Helped, Kept
    <3>6. Helped(o)'
      BY <2>a, <3>a, <3>b, <3>c DEF OpInv, Before, Helped, Going, Kept
    <3>7. Final(o)'
      BY <2>a, <3>a, <3>b, <3>c DEF OpInv, Begun, Helped, Final, Going
    <3> QED  BY <3>1, <3>2, <3>3, <3>4, <3>5, <3>6, <3>7, StepOfOne DEF OpInv
  <2>9a. ASSUME NEW o \in Op, PatchFails(o)  PROVE IInv'
    <3>a. OpInv(o) /\ TypeOK /\ Holding
      BY DEF IInv
    <3>b. /\ supervisor[o].at \in {"read", "write"} /\ supervisor[o].goal # "helper"
          /\ \/ supervisor[o].goal = "running" /\ Ends(o)
             \/ supervisor[o].goal = "succeeded" /\ Goes(o, "verify")
             \/ supervisor[o].goal # "running" /\ Throws(o)
          /\ UNCHANGED <<mutex, lock, record, server, holder, request, helper, deaths, contended>>
      BY <2>9a DEF PatchFails
    <3>c. /\ supervisor' \in [Op -> Supervisor]
          /\ \/ supervisor'[o].at = "gone"
             \/ supervisor[o].goal = "succeeded" /\ supervisor'[o].at = "verify"
             \/ /\ supervisor[o].goal # "running"
                /\ supervisor'[o].at = "read" /\ supervisor'[o].goal = "failed"
          /\ \A p \in Op \ {o} : supervisor'[p] = supervisor[p]
      <4>1. CASE Ends(o)
        BY <3>a, <4>1, Ended
      <4>2. CASE supervisor[o].goal = "succeeded" /\ Goes(o, "verify")
        BY <3>a, <4>2, GoesTo DEF Steps
      <4>3. CASE supervisor[o].goal # "running" /\ Throws(o)
        BY <3>a, <4>3, Thrown
      <4> QED  BY <3>b, <4>1, <4>2, <4>3
    <3>1. \A p \in Op \ {o} :
            /\ supervisor'[p] = supervisor[p] /\ helper'[p] = helper[p]
            /\ record'[p] = record[p] /\ request'[p] = request[p]
            /\ p \in contended' <=> p \in contended
            /\ lock = p => lock' = p
      BY <3>b, <3>c
    <3>2. TypeOK'
      BY <3>a, <3>b, <3>c DEF TypeOK
    <3>3. Holding'
      BY <3>a, <3>b DEF Holding
    <3>4. Begun(o)'
      BY <2>a, <3>a, <3>b, <3>c DEF OpInv, Begun, Before
    <3>5. Locked(o)'
      BY <2>a, <3>a, <3>b, <3>c DEF OpInv, Begun, Before, Locked, Helped, Kept
    <3>6. Helped(o)'
      BY <2>a, <3>a, <3>b, <3>c DEF OpInv, Before, Helped, Going, Kept
    <3>7. Final(o)'
      BY <2>a, <3>a, <3>b, <3>c DEF OpInv, Begun, Helped, Final, Going
    <3> QED  BY <3>1, <3>2, <3>3, <3>4, <3>5, <3>6, <3>7, StepOfOne DEF OpInv
  <2>9b. ASSUME NEW o \in Op, CheckThrows(o)  PROVE IInv'
    <3>a. OpInv(o) /\ TypeOK /\ Holding
      BY DEF IInv
    <3>b. /\ \/ supervisor[o].at = "waiting" /\ helper[o].at = "exited"
             \/ supervisor[o].at = "verify"
          /\ Throws(o)
          /\ UNCHANGED <<mutex, lock, record, server, holder, request, helper, deaths, contended>>
      BY <2>9b DEF CheckThrows
    <3>c. /\ supervisor' \in [Op -> Supervisor]
          /\ supervisor'[o].at \in {"read", "gone"} /\ supervisor'[o].goal = "failed"
          /\ \A p \in Op \ {o} : supervisor'[p] = supervisor[p]
      BY <3>a, <3>b, Thrown
    <3>1. \A p \in Op \ {o} :
            /\ supervisor'[p] = supervisor[p] /\ helper'[p] = helper[p]
            /\ record'[p] = record[p] /\ request'[p] = request[p]
            /\ p \in contended' <=> p \in contended
            /\ lock = p => lock' = p
      BY <3>b, <3>c
    <3>2. TypeOK'
      BY <3>a, <3>b, <3>c DEF TypeOK
    <3>3. Holding'
      BY <3>a, <3>b DEF Holding
    <3>4. Begun(o)'
      BY <2>a, <3>a, <3>b, <3>c DEF OpInv, Begun, Before
    <3>5. Locked(o)'
      BY <2>a, <3>a, <3>b, <3>c DEF OpInv, Begun, Before, Locked, Helped, Kept
    <3>6. Helped(o)'
      BY <2>a, <3>a, <3>b, <3>c DEF OpInv, Before, Helped, Going, Kept
    <3>7. Final(o)'
      BY <2>a, <3>a, <3>b, <3>c DEF OpInv, Begun, Helped, Final, Going
    <3> QED  BY <3>1, <3>2, <3>3, <3>4, <3>5, <3>6, <3>7, StepOfOne DEF OpInv
  <2>10. ASSUME NEW o \in Op, HelperExited(o)  PROVE IInv'
    <3>a. OpInv(o) /\ TypeOK /\ Holding
      BY DEF IInv
    <3>b. /\ supervisor[o].at = "waiting" /\ helper[o].at = "exited"
          /\ Patches(o, IF helper[o].ok THEN "verifying" ELSE "failed")
          /\ UNCHANGED <<mutex, lock, record, server, holder, request, helper, deaths, contended>>
      BY <2>10 DEF HelperExited
    <3>c. /\ supervisor' \in [Op -> Supervisor] /\ supervisor'[o].at = "read"
          /\ supervisor'[o].goal \in {"verifying", "failed"}
          /\ \A p \in Op \ {o} : supervisor'[p] = supervisor[p]
      <4>1. PICK goal \in {"verifying", "failed"} : Patches(o, goal)
        BY <3>b
      <4>2. goal \in Goals
        BY DEF Goals, Verdicts
      <4> QED  BY <3>a, <4>1, <4>2, PatchBegins
    <3>1. \A p \in Op \ {o} :
            /\ supervisor'[p] = supervisor[p] /\ helper'[p] = helper[p]
            /\ record'[p] = record[p] /\ request'[p] = request[p]
            /\ p \in contended' <=> p \in contended
            /\ lock = p => lock' = p
      BY <3>b, <3>c
    <3>2. TypeOK'
      BY <3>a, <3>b, <3>c DEF TypeOK
    <3>3. Holding'
      BY <3>a, <3>b DEF Holding
    <3>4. Begun(o)'
      BY <2>a, <3>a, <3>b, <3>c DEF OpInv, Begun, Before
    <3>5. Locked(o)'
      BY <2>a, <3>a, <3>b, <3>c DEF OpInv, Begun, Before, Locked, Helped, Kept
    <3>6. Helped(o)'
      BY <2>a, <3>a, <3>b, <3>c DEF OpInv, Before, Helped, Going, Kept
    <3>7. Final(o)'
      BY <2>a, <3>a, <3>b, <3>c DEF OpInv, Begun, Helped, Final, Going
    <3> QED  BY <3>1, <3>2, <3>3, <3>4, <3>5, <3>6, <3>7, StepOfOne DEF OpInv
  <2>11. ASSUME NEW o \in Op, NEW v \in Verdicts, Verified(o, v)  PROVE IInv'
    <3>a. OpInv(o) /\ TypeOK /\ Holding
      BY DEF IInv
    <3>b. /\ supervisor[o].at = "verify" /\ Patches(o, v)
          /\ UNCHANGED <<mutex, lock, record, server, holder, request, helper, deaths, contended>>
      BY <2>11 DEF Verified
    <3>c. /\ supervisor' \in [Op -> Supervisor] /\ supervisor'[o].at = "read"
          /\ supervisor'[o].goal = v
          /\ \A p \in Op \ {o} : supervisor'[p] = supervisor[p]
      BY <3>a, <3>b, PatchBegins DEF Goals, Verdicts
    <3>1. \A p \in Op \ {o} :
            /\ supervisor'[p] = supervisor[p] /\ helper'[p] = helper[p]
            /\ record'[p] = record[p] /\ request'[p] = request[p]
            /\ p \in contended' <=> p \in contended
            /\ lock = p => lock' = p
      BY <3>b, <3>c
    <3>2. TypeOK'
      BY <3>a, <3>b, <3>c DEF TypeOK
    <3>3. Holding'
      BY <3>a, <3>b DEF Holding
    <3>4. Begun(o)'
      BY <2>a, <3>a, <3>b, <3>c DEF OpInv, Begun, Before, Verdicts
    <3>5. Locked(o)'
      BY <2>a, <3>a, <3>b, <3>c DEF OpInv, Begun, Before, Locked, Helped, Kept, Verdicts
    <3>6. Helped(o)'
      BY <2>a, <3>a, <3>b, <3>c DEF OpInv, Before, Helped, Going, Kept
    <3>7. Final(o)'
      BY <2>a, <3>a, <3>b, <3>c DEF OpInv, Begun, Helped, Final, Going
    <3> QED  BY <3>1, <3>2, <3>3, <3>4, <3>5, <3>6, <3>7, StepOfOne DEF OpInv
  <2>12. ASSUME NEW o \in Op, Release(o)  PROVE IInv'
    <3>a. OpInv(o) /\ TypeOK /\ Holding
      BY DEF IInv
    <3>b. /\ supervisor[o].at = "release" /\ mutex = "free" /\ lock' = (IF lock = o THEN None ELSE lock)
          /\ Ends(o)
          /\ UNCHANGED <<mutex, record, server, holder, request, helper, deaths, contended>>
      BY <2>12 DEF Release
    <3>c. /\ supervisor' \in [Op -> Supervisor] /\ supervisor'[o].at = "gone"
          /\ \A p \in Op \ {o} : supervisor'[p] = supervisor[p]
      BY <3>a, <3>b, Ended
    <3>1. \A p \in Op \ {o} :
            /\ supervisor'[p] = supervisor[p] /\ helper'[p] = helper[p]
            /\ record'[p] = record[p] /\ request'[p] = request[p]
            /\ p \in contended' <=> p \in contended
            /\ lock = p => lock' = p
      BY <3>b, <3>c
    <3>2. TypeOK'
      BY <3>a, <3>b, <3>c DEF TypeOK
    <3>3. Holding'
      BY <3>a, <3>b DEF Holding
    <3>4. Begun(o)'
      BY <2>a, <3>a, <3>b, <3>c DEF OpInv, Begun, Before
    <3>5. Locked(o)'
      BY <2>a, <3>a, <3>b, <3>c DEF OpInv, Begun, Before, Locked, Helped, Kept
    <3>6. Helped(o)'
      BY <2>a, <3>a, <3>b, <3>c DEF OpInv, Before, Helped, Going, Kept
    <3>7. Final(o)'
      BY <2>a, <3>a, <3>b, <3>c DEF OpInv, Begun, Helped, Final, Going
    <3> QED  BY <3>1, <3>2, <3>3, <3>4, <3>5, <3>6, <3>7, StepOfOne DEF OpInv
  <2>13. ASSUME NEW o \in Op, ReleaseFails(o)  PROVE IInv'
    <3>a. OpInv(o) /\ TypeOK /\ Holding
      BY DEF IInv
    <3>b. /\ supervisor[o].at = "release" /\ contended' = contended \cup {o}
          /\ Goes(o, "verify") \/ Throws(o)
          /\ UNCHANGED <<mutex, lock, record, server, holder, request, helper, deaths>>
      BY <2>13 DEF ReleaseFails
    <3>c. /\ supervisor' \in [Op -> Supervisor]
          /\ supervisor'[o].at \in {"verify", "read", "gone"}
          /\ supervisor'[o].at = "read" => supervisor'[o].goal = "failed"
          /\ \A p \in Op \ {o} : supervisor'[p] = supervisor[p]
      <4>1. CASE Goes(o, "verify")
        BY <3>a, <4>1, GoesTo DEF Steps
      <4>2. CASE Throws(o)
        BY <3>a, <4>2, Thrown
      <4> QED  BY <3>b, <4>1, <4>2
    <3>1. \A p \in Op \ {o} :
            /\ supervisor'[p] = supervisor[p] /\ helper'[p] = helper[p]
            /\ record'[p] = record[p] /\ request'[p] = request[p]
            /\ p \in contended' <=> p \in contended
            /\ lock = p => lock' = p
      BY <3>b, <3>c
    <3>2. TypeOK'
      BY <3>a, <3>b, <3>c DEF TypeOK
    <3>3. Holding'
      BY <3>a, <3>b DEF Holding
    <3>4. Begun(o)' /\ Locked(o)' /\ Helped(o)'
      BY <3>a, <3>b, <3>c DEF OpInv, Begun, Before, Locked, Helped
    <3>5. Final(o)'
      BY <3>a, <3>b, <3>c DEF OpInv, Final, Begun
    <3> QED  BY <3>1, <3>2, <3>3, <3>4, <3>5, StepOfOne DEF OpInv
  <2>14. ASSUME NEW o \in Op, SupervisorDies(o)  PROVE IInv'
    <3>a. OpInv(o) /\ TypeOK /\ Holding
      BY DEF IInv
    <3>b. /\ SupervisorAlive(o) /\ deaths < MaxDeaths /\ deaths' = deaths + 1
          /\ Ends(o)
          /\ mutex' = mutex \/ (mutex = "free" /\ mutex' = "left")
          /\ UNCHANGED <<lock, record, server, holder, request, helper, contended>>
      BY <2>14 DEF SupervisorDies
    <3>c. /\ supervisor' \in [Op -> Supervisor] /\ supervisor'[o].at = "gone"
          /\ \A p \in Op \ {o} : supervisor'[p] = supervisor[p]
      BY <3>a, <3>b, Ended
    <3>d. deaths' \in 0..MaxDeaths /\ mutex' \in {"free", "held", "left"}
      BY <3>a, <3>b DEF TypeOK, UpdateAssumption
    <3>1. \A p \in Op \ {o} :
            /\ supervisor'[p] = supervisor[p] /\ helper'[p] = helper[p]
            /\ record'[p] = record[p] /\ request'[p] = request[p]
            /\ p \in contended' <=> p \in contended
            /\ lock = p => lock' = p
      BY <3>b, <3>c
    <3>2. TypeOK'
      BY <3>a, <3>b, <3>c, <3>d DEF TypeOK
    <3>3. Holding'
      BY <3>a, <3>b DEF Holding
    <3>4. Begun(o)'
      BY <2>a, <3>a, <3>b, <3>c DEF SupervisorAlive, OpInv, Begun, Before
    <3>5. Locked(o)'
      BY <2>a, <3>a, <3>b, <3>c DEF OpInv, Begun, Before, Locked, Helped, Kept
    <3>6. Helped(o)'
      BY <2>a, <3>a, <3>b, <3>c DEF OpInv, Before, Helped, Going, Kept
    <3>7. Final(o)'
      BY <2>a, <3>a, <3>b, <3>c DEF OpInv, Begun, Helped, Final, Going
    <3> QED  BY <3>1, <3>2, <3>3, <3>4, <3>5, <3>6, <3>7, StepOfOne DEF OpInv
  <2>15. ASSUME NEW o \in Op, HelperReads(o)  PROVE IInv'
    <3>a. OpInv(o) /\ TypeOK /\ Holding
      BY DEF IInv
    <3>b. /\ helper[o].at = "alive"
          /\ helper' = [helper EXCEPT ![o].patch = record[o]]
          /\ UNCHANGED <<mutex, lock, record, server, holder, request, supervisor, deaths,
                         contended>>
      BY <2>15 DEF HelperReads
    <3>c. /\ helper' \in [Op -> [at : {"none", "alive", "exited"}, ok : BOOLEAN,
                                  patch : Record]]
          /\ helper'[o].at = "alive" /\ helper'[o].patch = record[o]
          /\ \A p \in Op \ {o} : helper'[p] = helper[p]
      BY <3>a, <3>b DEF TypeOK
    <3>1. \A p \in Op \ {o} :
            /\ supervisor'[p] = supervisor[p] /\ helper'[p] = helper[p]
            /\ record'[p] = record[p] /\ request'[p] = request[p]
            /\ p \in contended' <=> p \in contended
            /\ lock = p => lock' = p
      BY <3>b, <3>c
    <3>2. TypeOK'
      BY <3>a, <3>b, <3>c DEF TypeOK
    <3>3. Holding'
      BY <3>a, <3>b DEF Holding
    <3>4. Begun(o)'
      BY <3>a, <3>b, <3>c DEF OpInv, Begun, Before
    <3>5. Locked(o)'
      BY <2>a, <3>a, <3>b, <3>c DEF OpInv, Begun, Before, Locked, Helped, Kept
    <3>6. Helped(o)'
      BY <2>a, <3>a, <3>b, <3>c DEF OpInv, Before, Helped, Going, Kept
    <3>7. Final(o)'
      BY <2>a, <3>a, <3>b, <3>c DEF OpInv, Begun, Helped, Final, Going
    <3> QED  BY <3>1, <3>2, <3>3, <3>4, <3>5, <3>6, <3>7, StepOfOne DEF OpInv
  <2>16. ASSUME NEW o \in Op, HelperWrites(o)  PROVE IInv'
    <3>a. OpInv(o) /\ TypeOK /\ Holding
      BY DEF IInv
    <3>b. /\ helper[o].at = "alive" /\ helper[o].patch # NoRecord
          /\ record' = [record EXCEPT ![o] = helper[o].patch]
          /\ UNCHANGED <<mutex, lock, server, holder, request, supervisor, deaths,
                         contended>>
      BY <2>16 DEF HelperWrites
    <3>c. /\ helper' \in [Op -> [at : {"none", "alive", "exited"}, ok : BOOLEAN,
                                  patch : Record]]
          /\ helper'[o].at = "exited" /\ helper'[o].patch = NoRecord
          /\ \A p \in Op \ {o} : helper'[p] = helper[p]
      <4> DEFINE Helper == [at : {"none", "alive", "exited"}, ok : BOOLEAN, patch : Record]
                 h == [helper[o] EXCEPT !.at = "exited", !.patch = NoRecord]
      <4>1. h \in Helper /\ h.at = "exited" /\ h.patch = NoRecord
        BY <3>a, NoRecordIsRecord, ZenonT(60) DEF TypeOK
      <4>2. helper' = [helper EXCEPT ![o] = h]
        BY <2>16 DEF HelperWrites
      <4> HIDE DEF h
      <4> QED  BY <3>a, <4>1, <4>2 DEF TypeOK
    <3>d. /\ record' \in [Op -> Record] /\ record'[o] = helper[o].patch
          /\ \A p \in Op \ {o} : record'[p] = record[p]
      BY <3>a, <3>b DEF TypeOK
    <3>1. \A p \in Op \ {o} :
            /\ supervisor'[p] = supervisor[p] /\ helper'[p] = helper[p]
            /\ record'[p] = record[p] /\ request'[p] = request[p]
            /\ p \in contended' <=> p \in contended
            /\ lock = p => lock' = p
      BY <3>b, <3>c, <3>d
    <3>2. TypeOK'
      BY <3>a, <3>b, <3>c, <3>d DEF TypeOK
    <3>3. Holding'
      BY <3>a, <3>b DEF Holding
    <3>4. Begun(o)'
      BY <2>a, <3>a, <3>b, <3>c, <3>d DEF OpInv, Begun, Before
    <3>5. Locked(o)'
      BY <2>a, <3>a, <3>b, <3>c, <3>d DEF OpInv, Begun, Before, Locked, Helped, Kept
    <3>6. Helped(o)'
      BY <2>a, <3>a, <3>b, <3>c, <3>d DEF OpInv, Before, Helped, Going, Kept
    <3>7. Final(o)'
      BY <2>a, <3>a, <3>b, <3>c, <3>d DEF OpInv, Begun, Helped, Final, Going
    <3> QED  BY <3>1, <3>2, <3>3, <3>4, <3>5, <3>6, <3>7, StepOfOne DEF OpInv
  <2>17. ASSUME NEW o \in Op, NEW ok \in BOOLEAN, HelperEnds(o, ok)  PROVE IInv'
    <3>a. OpInv(o) /\ TypeOK /\ Holding
      BY DEF IInv
    <3>b. /\ helper[o].at = "alive" /\ helper[o].patch = NoRecord
          /\ helper' = [helper EXCEPT ![o].at = "exited", ![o].ok = ok]
          /\ UNCHANGED <<mutex, lock, record, server, holder, request, supervisor, deaths,
                         contended>>
      BY <2>17 DEF HelperEnds
    <3>c. /\ helper' \in [Op -> [at : {"none", "alive", "exited"}, ok : BOOLEAN,
                                  patch : Record]]
          /\ helper'[o].at = "exited" /\ helper'[o].patch = NoRecord
          /\ \A p \in Op \ {o} : helper'[p] = helper[p]
      BY <3>a, <3>b DEF TypeOK
    <3>1. \A p \in Op \ {o} :
            /\ supervisor'[p] = supervisor[p] /\ helper'[p] = helper[p]
            /\ record'[p] = record[p] /\ request'[p] = request[p]
            /\ p \in contended' <=> p \in contended
            /\ lock = p => lock' = p
      BY <3>b, <3>c
    <3>2. TypeOK'
      BY <3>a, <3>b, <3>c DEF TypeOK
    <3>3. Holding'
      BY <3>a, <3>b DEF Holding
    <3>4. Begun(o)'
      BY <2>a, <3>a, <3>b, <3>c DEF OpInv, Begun, Before
    <3>5. Locked(o)'
      BY <2>a, <3>a, <3>b, <3>c DEF OpInv, Begun, Before, Locked, Helped, Kept
    <3>6. Helped(o)'
      BY <2>a, <3>a, <3>b, <3>c DEF OpInv, Before, Helped, Going, Kept
    <3>7. Final(o)'
      BY <2>a, <3>a, <3>b, <3>c DEF OpInv, Begun, Helped, Final, Going
    <3> QED  BY <3>1, <3>2, <3>3, <3>4, <3>5, <3>6, <3>7, StepOfOne DEF OpInv
  <2>b. /\ Idle \in [at : {"none", "reserve", "list", "patch"}, op : Op \cup {None},
                  base : Record]
        /\ Idle.at = "none"
    BY <2>a DEF Idle
  <2>18. CASE ReserveRecord
    <3>a. TypeOK /\ Holding /\ holder.at = "reserve"
      BY <2>18 DEF IInv, ReserveRecord
    <3>b. PICK o \in Op : o = holder.op /\ lock = o /\ request[o] = "none"
      BY <3>a DEF Holding
    <3>c. OpInv(o)
      BY <3>b DEF IInv
    <3>d. /\ record' = [record EXCEPT ![o] = [NoRecord EXCEPT !.status = "reserved",
                                                             !.pid = server]]
          /\ request' = [request EXCEPT ![o] = "reserved"]
          /\ mutex' = "free" /\ holder' = Idle
          /\ UNCHANGED <<lock, server, supervisor, helper, deaths, contended>>
      BY <2>18, <3>b DEF ReserveRecord
    <3>e. /\ request' \in [Op -> {"none", "reserved", "started", "failed"}]
          /\ request'[o] = "reserved"
          /\ \A p \in Op \ {o} : request'[p] = request[p]
      BY <3>a, <3>b, <3>d DEF TypeOK
    <3>f. /\ record' \in [Op -> Record] /\ record'[o].status = "reserved"
          /\ \A p \in Op \ {o} : record'[p] = record[p]
      <4> DEFINE r == [NoRecord EXCEPT !.status = "reserved", !.pid = server]
      <4>1. server \in 0..(MaxRestarts + 1) /\ "reserved" \in Status
        BY <3>a DEF TypeOK, UpdateAssumption, Status, Active
      <4>2. r \in Record /\ r.status = "reserved"
        BY <2>a, <4>1 DEF Record
      <4>3. record' = [record EXCEPT ![o] = r]
        BY <3>d
      <4> HIDE DEF r
      <4> QED  BY <3>a, <3>b, <4>2, <4>3 DEF TypeOK
    <3>2. TypeOK'
      BY <2>b, <3>a, <3>d, <3>e, <3>f DEF TypeOK
    <3>3. Holding'
      BY <2>b, <3>d DEF Holding
    <3>4. OpInv(o)'
      BY <3>b, <3>c, <3>d, <3>e, <3>f
         DEF OpInv, Begun, Before, Locked, Helped, Final, Kept, Active, Verdicts
    <3> QED  BY <3>b, <3>d, <3>e, <3>f, <3>2, <3>3, <3>4, StepOfOne
  <2>19. CASE ReserveFails
    <3>a. TypeOK /\ Holding /\ holder.at = "reserve"
      BY <2>19 DEF IInv, ReserveFails
    <3>b. PICK o \in Op : o = holder.op /\ lock = o /\ request[o] = "none"
      BY <3>a DEF Holding
    <3>c. OpInv(o)
      BY <3>b DEF IInv
    <3>d. /\ lock' = None /\ mutex' = "free" /\ holder' = Idle
          /\ UNCHANGED <<record, server, request, supervisor, helper, deaths, contended>>
      BY <2>19 DEF ReserveFails
    <3>2. TypeOK'
      BY <2>b, <3>a, <3>d DEF TypeOK
    <3>3. Holding'
      BY <2>b, <3>d DEF Holding
    <3>4. OpInv(o)'
      BY <3>b, <3>c, <3>d DEF OpInv, Begun, Before, Locked, Helped, Final
    <3> QED  BY <3>b, <3>d, <3>2, <3>3, <3>4, StepOfOne
  <2>20. CASE List
    <3>a. TypeOK /\ Holding /\ mutex = "free"
      BY <2>20 DEF IInv, List
    <3>o. PICK o \in Op : o = lock
      BY <2>20, <3>a DEF List, TypeOK
    <3>b. ListFinds(o)
          /\ UNCHANGED <<record, server, request, supervisor, helper, deaths, contended>>
      BY <2>20, <3>o DEF List
    <3>c. OpInv(o)
      BY <3>o DEF IInv
    <3>d. CASE record[o].status \in Active /\ ~KnownAlive(record[o], o)
      <4>1. /\ mutex' = "held" /\ lock' = lock
            /\ holder' = [Idle EXCEPT !.at = "list", !.op = o]
        BY <3>b, <3>d DEF ListFinds
      <4>2. holder' = [at |-> "list", op |-> o, base |-> NoRecord]
        BY <4>1 DEF Idle
      <4>3. request[o] # "none"
        BY <2>a, <3>c, <3>d DEF OpInv, Begun, Active
      <4>4. TypeOK' /\ Holding'
        BY <2>a, <3>a, <3>o, <3>b, <4>1, <4>2, <4>3 DEF TypeOK, Holding
      <4>5. OpInv(o)'
        BY <3>a, <3>b, <3>c, <4>1, OthersKeep
      <4> QED  BY <3>a, <3>b, <4>1, <4>4, <4>5, OthersKeep DEF IInv
    <3>e. CASE ~(record[o].status \in Active /\ ~KnownAlive(record[o], o))
      <4>1. /\ lock' = (IF record[o].status \in Active \cup {"none"}
                            \/ record[o].recover THEN lock ELSE None)
            /\ UNCHANGED <<mutex, holder>>
        BY <3>b, <3>e DEF ListFinds
      <4>2. CASE lock' = lock
        <5>1. TypeOK' /\ Holding'
          BY <3>a, <3>b, <4>1, <4>2 DEF TypeOK, Holding
        <5>2. \A p \in Op : OpInv(p)'
          BY <3>b, <4>2, OthersKeep DEF IInv
        <5> QED  BY <5>1, <5>2 DEF IInv
      <4>3. CASE lock' # lock
        <5>1. lock' = None /\ ~Kept(record[o])
          BY <4>1, <4>3 DEF Kept
        <5>2. TypeOK' /\ Holding'
          BY <3>a, <3>b, <4>1, <5>1 DEF TypeOK, Holding
        <5>3. OpInv(o)'
          BY <2>a, <3>b, <3>c, <3>o, <5>1 DEF OpInv, Begun, Before, Locked, Helped, Final
        <5>4. \A p \in Op : p # o => OpInv(p)'
          BY <3>b, <3>o, OthersKeep DEF IInv
        <5> QED  BY <3>o, <5>2, <5>3, <5>4 DEF IInv
      <4> QED  BY <4>2, <4>3
    <3> QED  BY <3>d, <3>e
  <2>21. CASE ListReads
    <3>a. TypeOK /\ Holding /\ holder.at = "list" /\ holder.op \in Op
      BY <2>21 DEF IInv, ListReads, Holding
    <3>b. /\ holder' = [holder EXCEPT !.at = "patch", !.base = record[holder.op]]
          /\ UNCHANGED <<mutex, lock, record, server, request, supervisor, helper, deaths,
                         contended>>
      BY <2>21 DEF ListReads
    <3>c. /\ holder' \in [at : {"none", "reserve", "list", "patch"}, op : Op \cup {None},
                         base : Record]
          /\ holder'.at = "patch" /\ holder'.op = holder.op
      BY <3>a, <3>b DEF TypeOK
    <3>1. TypeOK' /\ Holding'
      BY <3>a, <3>b, <3>c DEF TypeOK, Holding
    <3>2. \A p \in Op : OpInv(p)'
      BY <3>b, OthersKeep DEF IInv
    <3> QED  BY <3>1, <3>2 DEF IInv
  <2>22. CASE ListWrites
    <3> DEFINE r == [holder.base EXCEPT !.status = "interrupted", !.recover = TRUE]
    <3>a. TypeOK /\ Holding /\ holder.at = "patch"
      BY <2>22 DEF IInv, ListWrites
    <3>o. PICK o \in Op : o = holder.op /\ request[o] # "none"
      BY <3>a DEF Holding
    <3>b. /\ record' = [record EXCEPT ![o] = r] /\ mutex' = "free" /\ holder' = Idle
          /\ UNCHANGED <<lock, server, request, supervisor, helper, deaths, contended>>
      BY <2>22, <3>o DEF ListWrites
    <3>c. OpInv(o)
      BY DEF IInv
    <3>d. r \in Record /\ r.status = "interrupted" /\ r.recover = TRUE
      <4>1. holder.base \in Record /\ "interrupted" \in Status
        BY <3>a DEF TypeOK, Status
      <4> QED  BY <4>1 DEF Record
    <3>e. /\ record' \in [Op -> Record] /\ record'[o].status = "interrupted" /\ record'[o].recover
          /\ \A p \in Op \ {o} : record'[p] = record[p]
      BY <3>a, <3>b, <3>d DEF TypeOK
    <3>2. TypeOK' /\ Holding'
      BY <2>b, <3>a, <3>b, <3>e DEF TypeOK, Holding
    <3>f. Going(record'[o]) /\ Kept(record'[o])
      BY <3>e DEF Going, Kept, Verdicts
    <3>3. OpInv(o)'
      BY <3>o, <3>b, <3>c, <3>e, <3>f
         DEF OpInv, Begun, Before, Locked, Helped, Final, Verdicts
    <3> QED  BY <3>b, <3>e, <3>2, <3>3, StepOfOne
  <2>23. CASE ServerDies
    <3>a. TypeOK /\ Holding
      BY DEF IInv
    <3>b. /\ server <= MaxRestarts /\ server' = server + 1
          /\ mutex' = (IF holder.at # "none" THEN "left" ELSE mutex) /\ holder' = Idle
          /\ request' = [o \in Op |-> IF request[o] = "none" THEN "none" ELSE "failed"]
          /\ UNCHANGED <<lock, record, supervisor, helper, deaths, contended>>
      BY <2>23 DEF ServerDies
    <3>c. /\ request' \in [Op -> {"none", "reserved", "started", "failed"}]
          /\ \A o \in Op : /\ request[o] = "none" => request'[o] = "none"
                           /\ request[o] # "none" => request'[o] = "failed"
      BY <3>b
    <3>d. server' \in 1..(MaxRestarts + 1) /\ mutex' \in {"free", "held", "left"}
      BY <3>a, <3>b DEF TypeOK, UpdateAssumption
    <3>1. TypeOK' /\ Holding'
      BY <2>b, <3>a, <3>b, <3>c, <3>d DEF TypeOK, Holding
    <3>2. ASSUME NEW o \in Op  PROVE OpInv(o)'
      <4>1. OpInv(o)
        BY DEF IInv
      <4> QED  BY <3>b, <3>c, <4>1 DEF OpInv, Begun, Before, Locked, Helped, Final
    <3> QED  BY <3>1, <3>2 DEF IInv
  <2>24. CASE OperatorRecovers
    <3>a. TypeOK /\ Holding
      BY DEF IInv
    <3>b. /\ deaths < MaxDeaths /\ deaths' = deaths + 1
          /\ \A o \in Op : /\ ~SupervisorAlive(o) /\ helper[o].at # "alive"
                           /\ request[o] # "reserved"
          /\ holder.at = "none" /\ mutex' = "free" /\ lock' = None
          /\ UNCHANGED <<record, server, holder, request, supervisor, helper, contended>>
      BY <2>24 DEF OperatorRecovers
    <3>c. deaths' \in 0..MaxDeaths
      BY <3>a, <3>b DEF TypeOK, UpdateAssumption
    <3>1. TypeOK' /\ Holding'
      BY <3>a, <3>b, <3>c DEF TypeOK, Holding
    <3>2. ASSUME NEW o \in Op  PROVE OpInv(o)'
      <4>1. OpInv(o) /\ supervisor[o].at \in {"none", "gone"}
        BY <3>b DEF IInv, SupervisorAlive
      <4> QED  BY <3>b, <4>1 DEF OpInv, Begun, Before, Locked, Helped, Final
    <3> QED  BY <3>1, <3>2 DEF IInv
  <2>25. CASE UNCHANGED vars
    <3>1. TypeOK' /\ Holding'
      BY <2>25 DEF IInv, vars, TypeOK, Holding
    <3>2. \A p \in Op : OpInv(p)'
      BY <2>25, OthersKeep DEF IInv, vars
    <3> QED  BY <3>1, <3>2 DEF IInv
  <2> QED  BY <2>1, <2>2, <2>3, <2>4, <2>5, <2>6, <2>7, <2>8, <2>9, <2>9a, <2>9b, <2>10, <2>11, <2>12, <2>13, <2>14, <2>15, <2>16, <2>17, <2>18, <2>19, <2>20, <2>21, <2>22, <2>23, <2>24, <2>25 DEF Next
<1> QED  BY <1>1, <1>2, PTL DEF Spec

\* Every variable keeps its type.
THEOREM TypesHold == ASSUME UpdateAssumption PROVE Spec => []TypeOK
<1>1. IInv => TypeOK
  BY DEF IInv
<1> QED  BY <1>1, IInvHolds, PTL

\* A helper that lives has the lock, whichever other process dies.
THEOREM LivingHelperHoldsLock == ASSUME UpdateAssumption PROVE Spec => []HelperHoldsLock
<1>1. IInv => HelperHoldsLock
  BY DEF IInv, OpInv, Locked, HelperHoldsLock
<1> QED  BY <1>1, IInvHolds, PTL

\* A verdict stands: every patch that was begun before it has been written.
THEOREM VerdictsStand == ASSUME UpdateAssumption PROVE Spec => VerdictStands
<1> DEFINE Stands == \A o \in Op :
                       record[o].status \in Verdicts /\ o \notin contended =>
                         record'[o].status \in {record[o].status, "interrupted"}
<1>1. IInv /\ [Next]_vars => [Stands]_vars
  <2> SUFFICES ASSUME IInv, [Next]_vars, NEW o \in Op,
                      record[o].status \in Verdicts, o \notin contended
               PROVE  record'[o].status \in {record[o].status, "interrupted"}
    OBVIOUS
  <2>1. /\ OpInv(o) /\ TypeOK /\ Holding
        /\ record[o].status \notin Active \cup {"none"}
    BY DEF IInv, Verdicts, Active
  <2>2. supervisor[o].at # "write" /\ helper[o].at # "alive"
    BY <2>1 DEF OpInv, Final, Helped, Going
  <2>3. CASE record' = record
    BY <2>3
  <2>4. ASSUME NEW p \in Op, FailReserved(p)  PROVE record'[o] = record[o]
    BY <2>1, <2>4 DEF FailReserved, Unstarted, Active, TypeOK
  <2>5. ASSUME NEW p \in Op, PatchWrites(p)  PROVE record'[o] = record[o]
    BY <2>1, <2>2, <2>5 DEF PatchWrites, TypeOK
  <2>6. ASSUME NEW p \in Op, HelperWrites(p)  PROVE record'[o] = record[o]
    BY <2>1, <2>2, <2>6 DEF HelperWrites, TypeOK
  <2>7. ASSUME ReserveRecord  PROVE record'[o] = record[o]
    <3>1. request[holder.op] = "none" /\ holder.op \in Op
      BY <2>1, <2>7 DEF Holding, ReserveRecord
    <3>2. holder.op # o
      <4>1. NoRecord.status = "none"
        BY DEF NoRecord
      <4> QED  BY <2>1, <3>1, <4>1 DEF OpInv, Begun
    <3> QED  BY <2>1, <2>7, <3>2 DEF ReserveRecord, TypeOK
  <2>8. ASSUME ListWrites
        PROVE  record'[o].status \in {record[o].status, "interrupted"}
    <3>1. CASE holder.op = o
      <4>1. holder.base \in Record
        BY <2>1 DEF TypeOK
      <4> QED  BY <2>1, <2>8, <3>1, <4>1 DEF ListWrites, TypeOK, Record
    <3>2. CASE holder.op # o
      BY <2>1, <2>8, <3>2 DEF ListWrites, TypeOK
    <3> QED  BY <3>1, <3>2
  <2>9. \/ record' = record
        \/ \E p \in Op : FailReserved(p) \/ PatchWrites(p) \/ HelperWrites(p)
        \/ ReserveRecord \/ ListWrites
    BY DEF Next, vars, ReserveLock, StartSupervisor, SupervisorStarts, PatchReads, Execute,
           PidFails, PatchFails, CheckThrows, HelperExited, Verified, Release, ReleaseFails, SupervisorDies,
           HelperReads, HelperEnds, ReserveFails, List, ListReads, ServerDies,
           OperatorRecovers
  <2> QED  BY <2>3, <2>4, <2>5, <2>6, <2>7, <2>8, <2>9
<1> QED  BY <1>1, IInvHolds, PTL DEF Spec, VerdictStands
==============================================================================
