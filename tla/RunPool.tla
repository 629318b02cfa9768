------------------------------ MODULE RunPool ------------------------------
(***************************************************************************)
(* What the background-run supervisor promises, without any of its          *)
(* machinery: a pool of at most limit running jobs fed by a queue.  Jobs    *)
(* are numbered in the order they are submitted.  Whatever else a step does *)
(* - submit, finish, cancel or lose jobs, change the limit, crash - the     *)
(* pool then starts the oldest queued jobs, as many as the limit allows,    *)
(* and never starts one above the limit.                                    *)
(***************************************************************************)
EXTENDS Naturals, FiniteSets

VARIABLES queue,    \* jobs waiting for a slot
          running,  \* jobs holding a slot
          limit     \* how many slots there are; 0 while the server is down

vars == <<queue, running, limit>>

Init == queue = {} /\ running = {} /\ limit = 0

\* Jobs leave (gone), jobs arrive (new), and the free slots are filled.
Step(gone, new, start) ==
  LET left == (queue \cup new) \ gone
      kept == running \ gone
  IN  /\ new \cap (queue \cup running) = {}
      /\ start \subseteq left
      /\ queue' = left \ start
      /\ running' = kept \cup start
      /\ \A s \in start, q \in queue' : s < q
      /\ start # {} => Cardinality(running') <= limit'
      /\ queue' # {} => Cardinality(running') >= limit'

Next ==
  /\ limit' \in Nat
  /\ Step((queue \cup running) \ (queue' \cup running'),
          (queue' \cup running') \ (queue \cup running),
          running' \ running)

Spec == Init /\ [][Next]_vars

=============================================================================
