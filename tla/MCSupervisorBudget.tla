------------------------- MODULE MCSupervisorBudget -------------------------
(***************************************************************************)
(* Two questions about the shared budgets of AgentRunSupervisor in one run:  *)
(* a behaviour either follows the supervisor, with up to MaxSubmitted runs,  *)
(* or drains once, from any store of MaxCreated records a handler may leave. *)
(***************************************************************************)
EXTENDS MCAgentRunSupervisor

CONSTANT MaxSubmitted   \* bound: runs the supervisor creates

VARIABLE part

BudgetInit == \/ part = "supervisor" /\ Init
              \/ part = "drain" /\ Drainable

BudgetNext ==
  \/ part = "supervisor" /\ created' \in created..MaxSubmitted /\ Next /\ UNCHANGED part
  \/ part = "drain" /\ DrainOnce /\ part' = "drained"

BudgetSpec == BudgetInit /\ [][BudgetNext]_<<vars, part>>

\* The closed form Drain, which every action of the supervisor uses, starts and
\* stops the runs the loop of drain() does.
DrainIsTheLoop ==
  [][part = "drain" => LET loop == DrainLoop(status, active)
                       IN  status' = loop.st /\ active' = loop.ac]_<<status, active, part>>
=============================================================================
