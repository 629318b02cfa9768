------------------------ MODULE MCAgentRunSupervisor ------------------------
(***************************************************************************)
(* Model-checking instances of AgentRunSupervisor, and the drain loop as    *)
(* the code writes it, to compare its closed form with.                     *)
(***************************************************************************)
EXTENDS AgentRunSupervisor

\* Model values of the configurations.
CONSTANTS g1, d1, d2

\* The loop of drain(): iteration n from the records and the active map.
DrainLoop(st, ac) ==
  LET step[n \in 0..MaxCreated] ==
        IF n = 0 THEN [st |-> st, ac |-> ac]
        ELSE LET cur  == step[n - 1]
                 next == Min(Queued(cur.st))
                 mine == {q \in RunId : /\ Updatable(cur.st, q)
                                        /\ group[q] = group[next]}
             IN  IF Cardinality(cur.ac) >= limit \/ Queued(cur.st) = {} THEN cur
                 ELSE IF Exhausted(cur.st, group, cost, cap, next)
                 THEN [st |-> [q \in RunId |-> IF q \in mine THEN "failed"
                                               ELSE cur.st[q]],
                       ac |-> cur.ac \ mine]
                 ELSE [st |-> [cur.st EXCEPT ![next] = "running"],
                       ac |-> cur.ac \cup {next}]
  IN  step[MaxCreated]

\* Stores a handler may drain: some runs of one group, some of them paid for,
\* those running in the active map, perhaps more of them than the limit, and no
\* group with its budget spent still at work.
Drainable ==
  /\ status \in [RunId -> {"queued", "running", "failed"}]
  /\ group \in [RunId -> Groups \cup {NoGroup}]
  /\ cost \in [RunId -> TurnCosts \cup {0}]
  /\ cap = [r \in RunId |-> IF group[r] = NoGroup THEN 0 ELSE InitialCap]
  /\ limit \in 1..MaxLimit
  /\ created = MaxCreated /\ unlimited = {} /\ up = TRUE
  /\ active = {r \in RunId : status[r] = "running"}
  /\ pc = [r \in RunId |-> IF r \in active THEN "trust" ELSE "idle"]
  /\ dialogs = [r \in RunId |-> {}] /\ turn = [r \in RunId |-> "none"]
  /\ waiting = {} /\ keepAlive = {} /\ deadline = {} /\ cancelling = {}
  /\ closed = {} /\ abortFailed = {} /\ overtaken = {} /\ restarts = 0
  /\ SpentGroupStopped

DrainOnce ==
  /\ UNCHANGED <<submitted, budget, up, dialogs, timers, cancelling, session,
                 history>>
  /\ Drain(status, active, pc, waiting)

=============================================================================
