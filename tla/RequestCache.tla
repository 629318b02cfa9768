----------------------------- MODULE RequestCache -----------------------------
(***************************************************************************)
(* The panels' cache of read requests (lib/request-state.ts) with the hook    *)
(* that uses it (hooks/useRequestResource.ts), for one key.                   *)
(*                                                                         *)
(* Panels that show the same resource share one request and its answer.  The  *)
(* request is retried, aborted when the last panel closes, and joined by      *)
(* whoever asks meanwhile; panels write to the server and tell the cache.  A   *)
(* panel may be disabled, when it shows what there is and asks for nothing,    *)
(* and one whose key is typed asks only after a delay.                       *)
(* Data are the writes they hold; an answer holds those the server had made   *)
(* when it was read.                                                        *)
(***************************************************************************)
EXTENDS Naturals

CONSTANTS
  Panel,       \* components that use the key
  Debounced,   \* those that pass debounceMs
  None,
  MaxRetries,  \* options.retries
  MaxWrites    \* bound: writes to the server, numbered

VARIABLES
  panels,    \* whether each is mounted with the key, and enabled
  delays,    \* panels whose load waits for its delay
  cached,    \* snapshot: what is shown and when it was answered
  task,      \* the request under way, or None
  version,   \* the last write the server has made
  untold,    \* writes of the panels the cache is not told of yet, and what the panel
             \* showed when it wrote
  told,      \* history: the writes the cache was told of,
  missed,    \* ... whether one may be missing in the data, as ToldIsShown explains,
  dropped    \* ... and whether it was invalidated without data since the last request

cacheVars == <<panels, delays, cached, task, version, untold, told, missed, dropped>>

Writes == 1..MaxWrites
Data == SUBSET Writes
Task == [at : {"asked", "read", "wait"}, attempt : 1..MaxRetries + 1,
         answer : Data \cup {None}, after : Data]

CacheAssumption ==
  /\ Debounced \subseteq Panel /\ None \notin Nat \cup Task
  /\ MaxRetries \in Nat /\ MaxWrites \in Nat

TypeOK ==
  /\ panels \in [Panel -> {"closed", "disabled", "enabled"}]
  /\ delays \subseteq Debounced
  /\ cached \in [status : {"idle", "loading", "refreshing", "success", "error"},
                   data : Data \cup {None},
                   updatedAt : {"null", "lately", "before"}]
  /\ task \in Task \cup {None}
  /\ version \in 0..MaxWrites /\ told \in Data
  /\ untold \subseteq [write : Writes, base : Data \cup {None}]
  /\ missed \in BOOLEAN /\ dropped \in BOOLEAN

Init ==
  /\ panels = [p \in Panel |-> "closed"] /\ delays = {} /\ task = None
  /\ cached = [status |-> "idle", data |-> None, updatedAt |-> "null"]
  /\ version = 0 /\ untold = {} /\ told = {}
  /\ missed = FALSE /\ dropped = FALSE

Fresh == cached.status = "success" /\ cached.updatedAt = "lately"

-----------------------------------------------------------------------------
EnoughAlways(force) == Fresh  \* Fault: a refresh is content with fresh data.

\* loadRequest(): a request under way is joined, also by a forced one; fresh data are
\* enough unless it is forced; otherwise a request begins.
Enough(force) == ~force /\ Fresh

Load(force, after) ==
  IF task # None \/ Enough(force)
  THEN UNCHANGED <<task, cached>>
  ELSE /\ task' = [at |-> "asked", attempt |-> 1, answer |-> None, after |-> after]
       /\ cached' = [cached EXCEPT
            !.status = IF cached.data = None THEN "loading" ELSE "refreshing"]

\* Nothing is asked for any more: the status is that of the data that are there.
Settled(s) == [s EXCEPT !.status = IF s.data = None THEN "idle" ELSE "success"]

\* The data are older than what the cache was told.
Behind == cached.data # None /\ ~(told \subseteq cached.data)

\* The request is that of the panels that are mounted.  The cleanup of a subscription
\* looks again in a microtask, when those that open have subscribed: if no panel is left
\* the request is aborted, which ends it before anything else runs, as a fetch or the
\* wait before a retry is rejected at once.
Abandoned(next) == task # None /\ \A p \in Panel : next[p] = "closed"

\* One commit closes, opens, enables and disables panels.  A panel that becomes enabled
\* loads, at once or by a timer, which the cleanup of the effect clears.
Commit(next) ==
  LET begin == {p \in Panel : next[p] = "enabled" /\ panels[p] # "enabled"}
      loads == begin \ Debounced # {}
  IN  /\ next # panels /\ panels' = next
      /\ delays' = {p \in delays : next[p] = "enabled"} \cup (begin \cap Debounced)
      /\ IF Abandoned(next)
         THEN /\ task' = None /\ cached' = Settled(cached)
              /\ missed' = (missed \/ Behind)
         ELSE /\ IF loads THEN Load(FALSE, told) ELSE UNCHANGED <<task, cached>>
              /\ UNCHANGED missed
      /\ dropped' = (dropped /\ ~loads)
      /\ UNCHANGED <<version, untold, told>>

\* The delay of a panel is over.
TimerFires(p) ==
  /\ p \in delays /\ delays' = delays \ {p}
  /\ Load(FALSE, told) /\ dropped' = FALSE
  /\ UNCHANGED <<panels, version, untold, told, missed>>

\* The polling timer, or a button: refresh(), which does not wait for the delay.
Refresh ==
  /\ \E p \in Panel : panels[p] = "enabled"
  /\ Load(TRUE, told) /\ dropped' = FALSE
  /\ UNCHANGED <<panels, delays, version, untold, told, missed>>

\* The server reads what it answers.
ServerReads ==
  /\ task # None /\ task.at = "asked"
  /\ task' = [task EXCEPT !.at = "read", !.answer = 1..version]
  /\ UNCHANGED <<panels, delays, cached, version, untold, told, missed, dropped>>

\* The answer is stored as fresh, whatever was written or invalidated meanwhile.
Answered ==
  /\ task # None /\ task.at = "read"
  /\ cached' = [status |-> "success", data |-> task.answer, updatedAt |-> "lately"]
  /\ missed' = (IF task.after = told THEN FALSE ELSE missed)
  /\ task' = None
  /\ UNCHANGED <<panels, delays, version, untold, told, dropped>>

\* An attempt fails: another one after a delay, or the error is shown beside the data.
Fails ==
  /\ task # None /\ task.at \in {"asked", "read"}
  /\ IF task.attempt > MaxRetries
     THEN task' = None /\ cached' = [cached EXCEPT !.status = "error"]
     ELSE task' = [task EXCEPT !.at = "wait", !.answer = None] /\ UNCHANGED cached
  /\ UNCHANGED <<panels, delays, version, untold, told, missed, dropped>>

Retries ==
  /\ task # None /\ task.at = "wait"
  /\ task' = [task EXCEPT !.at = "asked", !.attempt = @ + 1]
  /\ UNCHANGED <<panels, delays, cached, version, untold, told, missed, dropped>>

-----------------------------------------------------------------------------
\* A panel, or somebody else, writes to the server.
Write(mine) ==
  /\ version < MaxWrites /\ version' = version + 1
  /\ untold' = IF mine
               THEN untold \cup {[write |-> version + 1, base |-> cached.data]}
               ELSE untold
  /\ UNCHANGED <<panels, delays, cached, task, told, missed, dropped>>

Tell(o) == untold' = untold \ {o} /\ told' = told \cup {o.write}

\* The write was answered: refresh(), also of a panel that was closed meanwhile; a
\* request under way is joined.
TellByRefresh(o) ==
  /\ Tell(o) /\ Load(TRUE, told') /\ dropped' = FALSE
  /\ missed' = (missed \/ task # None)
  /\ UNCHANGED <<panels, delays, version>>

\* ... or setRequestData() with what the panel showed when it wrote, amended.
TellByData(o) ==
  /\ o.base # None /\ Tell(o)
  /\ cached' = [status |-> "success", data |-> o.base \cup {o.write},
                  updatedAt |-> "lately"]
  /\ missed' = (missed \/ task # None \/ ~(told \subseteq o.base))
  /\ UNCHANGED <<panels, delays, task, version, dropped>>

\* ... or invalidateRequest(), after which the data are not fresh.
TellByInvalidation(o, drop) ==
  /\ Tell(o)
  /\ cached' = Settled([cached EXCEPT !.data = IF drop THEN None ELSE @,
                                          !.updatedAt = "null"])
  /\ missed' = (missed \/ task # None)
  /\ dropped' = (dropped \/ drop \/ cached.data = None)
  /\ UNCHANGED <<panels, delays, task, version>>

TimePasses ==
  /\ cached.updatedAt = "lately"
  /\ cached' = [cached EXCEPT !.updatedAt = "before"]
  /\ UNCHANGED <<panels, delays, task, version, untold, told, missed, dropped>>

Next ==
  \/ \E next \in [Panel -> {"closed", "disabled", "enabled"}] : Commit(next)
  \/ \E p \in Panel : TimerFires(p)
  \/ Refresh \/ ServerReads \/ Answered \/ Fails \/ Retries \/ TimePasses
  \/ \E mine \in BOOLEAN : Write(mine)
  \/ \E o \in untold : \/ TellByRefresh(o) \/ TellByData(o)
                    \/ \E drop \in BOOLEAN : TellByInvalidation(o, drop)

Spec == Init /\ [][Next]_cacheVars

-----------------------------------------------------------------------------
\* Data that pass for fresh hold every write the cache was told of, with three
\* exceptions, for which `missed` stands until a request that began after the telling is
\* answered: a request was under way when the cache was told, and its older answer is
\* taken for the new one; the request that was to bring the write was aborted by the
\* last panel that closed; or the panel amended data that were older by then.
ToldIsShown == Fresh /\ task = None /\ ~missed => told \subseteq cached.data

\* A panel that waits for a request has one, or its own timer armed: nothing is shown as
\* loading without a request, and under an enabled panel the cache is idle only while its
\* delay runs or after an invalidation that left no data, however panels close, open and
\* are disabled around an abort.
PanelsAreServed ==
  /\ cached.status \in {"loading", "refreshing"} => task # None
  /\ cached.status = "idle" =>
       \A p \in Panel : panels[p] = "enabled" => task # None \/ p \in delays \/ dropped

CacheServes == ToldIsShown /\ PanelsAreServed
=============================================================================
