--------------------------- MODULE CompactionQueue ---------------------------
(***************************************************************************)
(* Compaction of a session's context and the messages written meanwhile:     *)
(* CompactionController (lib/compaction-controller.ts) and the compaction    *)
(* queue of AgentSessionWrapper (lib/rpc-manager.ts).                        *)
(*                                                                         *)
(* A manual compaction is a request with an id and the promise of the SDK;   *)
(* an automatic one is known by its events only, and the SDK reports the end *)
(* of either by an event before isCompacting is cleared and before the       *)
(* promise settles.  Messages sent in the meantime wait in a queue; one      *)
(* coroutine flushes it, and awaits the SDK for every message.  Without a      *)
(* compaction or a flush a message is handed to the SDK directly, which is      *)
(* awaited too and may fail.                                                  *)
(***************************************************************************)
EXTENDS Naturals, Sequences

CONSTANTS
  Item,        \* messages, by the id their client gives them
  Request,     \* ids of manual compactions
  AutoId,        \* the id of an automatic one
  NoItem,
  MaxInner,    \* bounds of the model: sessions served one after the other,
  MaxRuns,     \* runs that others start,
  MaxAuto,     \* automatic compactions,
  MaxTimers    \* timers of the flush pending at once

CompactionAssumption ==
  /\ AutoId \notin Request /\ NoItem \notin Item
  /\ {MaxInner, MaxRuns, MaxAuto, MaxTimers} \subseteq Nat /\ MaxInner > 0

VARIABLES
  current,    \* the session, by its place in the order of replacements
  comp,       \* compaction.state: id and status
  requests,   \* ... and the ids of its controller
  calls,      \* manual compactions whose promise is pending
  compacting, \* isCompacting: what the SDK is at
  streaming,  \* isStreaming
  ended,      \* lastAgentEndCursor: how many runs ended
  queue,      \* compactionQueue
  known,      \* compactionQueueIds
  flush,      \* flushingCompactionQueue, and what the flush awaits
  timers,     \* of the flush, armed by the present controller
  handing,    \* of a message on its way to the SDK without the queue: what is awaited
  runs, autos,
  from,       \* history: the session a message was written in, or 0,
  sent,       \* how often the SDK took it,
  cleared,    \* of the session: messages the user cleared, those of a failed flush,
  failed,
  refused,    \* ... and those whose direct hand-over failed
  rest        \* why the last flush left messages behind

ctl     == <<comp, requests, calls, compacting>>
items   == <<queue, known, flush, timers>>
direct  == <<handing, refused>>
history == <<from, sent, cleared, failed, rest>>
vars    == <<current, ctl, direct, streaming, ended, items, runs, autos, history>>

NotFlushing == [at |-> "none", item |-> NoItem, current |-> 1, retry |-> FALSE,
                end |-> 0]

TypeOK ==
  /\ current \in 1..MaxInner
  /\ comp \in [id : Request \cup {AutoId}, status : {"none", "running", "ended"}]
  /\ requests \subseteq Request /\ calls \subseteq Request
  /\ compacting \in {"no", "manual", "auto"}
  /\ streaming \in BOOLEAN /\ ended \in Nat
  /\ queue \in Seq(Item) /\ known \subseteq Item
  /\ flush \in [at : {"none", "queueing", "snapshot", "prompt"},
                item : Item \cup {NoItem}, current : 1..MaxInner, retry : BOOLEAN,
                end : Nat]
  /\ timers \in 0..MaxTimers
  /\ handing \in [Item -> {"no", "queueing", "snapshot"}]
  /\ runs \in 0..MaxRuns /\ autos \in 0..MaxAuto
  /\ from \in [Item -> 0..MaxInner] /\ sent \in [Item -> Nat]
  /\ cleared \subseteq Item /\ failed \subseteq Item /\ refused \subseteq Item
  /\ rest \in {"none", "error", "replaced"}

Init ==
  /\ current = 1
  /\ comp = [id |-> AutoId, status |-> "none"] /\ requests = {} /\ calls = {}
  /\ compacting = "no" /\ streaming = FALSE /\ ended = 0
  /\ queue = <<>> /\ known = {} /\ flush = NotFlushing /\ timers = 0
  /\ handing = [i \in Item |-> "no"]
  /\ runs = 0 /\ autos = 0
  /\ from = [i \in Item |-> 0] /\ sent = [i \in Item |-> 0]
  /\ cleared = {} /\ failed = {} /\ refused = {} /\ rest = "none"

Running      == comp.status = "running"
IsCompacting == compacting # "no"
Flushing     == flush.at # "none"

\* filter(queued => queued.id !== item.id), of ids of which a queue has one each.
Without(q, i) ==
  LET at == {n \in 1..Len(q) : q[n] = i}
  IN  IF at = {} THEN q
      ELSE LET n == CHOOSE m \in at : TRUE
           IN  SubSeq(q, 1, n - 1) \o SubSeq(q, n + 1, Len(q))

-----------------------------------------------------------------------------
\* flushCompactionQueue()

\* One round of its loop over q, for the session s, with isCompacting and
\* isStreaming as given: the next message is queued in the run, or taken from
\* the display and prompted, or the loop is left.
Round(q, s, retry, busy, inRun) ==
  /\ rest' = IF s # current THEN "replaced" ELSE "none"
  /\ IF q = <<>> \/ s # current \/ (busy /\ ~retry)
     THEN flush' = NotFlushing /\ queue' = q
     ELSE LET asRun == retry \/ inRun
          IN  /\ flush' = [at |-> IF asRun THEN "queueing" ELSE "snapshot",
                           item |-> Head(q), current |-> s, retry |-> retry,
                           end |-> ended]
              /\ queue' = IF asRun THEN q ELSE Tail(q)

\* Fault: a flush that finds the SDK still compacting does not come again.
FlushCalledOnce(retry, shown, busy) ==
  IF Flushing \/ queue = <<>> \/ shown = "running" \/ (busy /\ ~retry)
  THEN UNCHANGED <<queue, flush, timers, rest>>
  ELSE Round(queue, current, retry, busy, streaming) /\ UNCHANGED timers

\* The call, by what the controller shows afterwards.
FlushCalled(retry, shown, busy) ==
  IF Flushing \/ queue = <<>> \/ shown = "running"
  THEN UNCHANGED <<queue, flush, timers, rest>>
  ELSE IF busy /\ ~retry
  THEN /\ timers < MaxTimers /\ timers' = timers + 1
       /\ UNCHANGED <<queue, flush, rest>>
  ELSE /\ Round(queue, current, retry, busy, streaming)
       /\ UNCHANGED timers

\* The SDK queued the message in its run.
Queued ==
  /\ flush.at = "queueing"
  /\ sent' = [sent EXCEPT ![flush.item] = @ + 1]
  /\ Round(Without(queue, flush.item), flush.current, flush.retry, IsCompacting,
           streaming)
  /\ UNCHANGED <<current, ctl, direct, streaming, ended, known, timers, runs, autos, from,
                 cleared, failed>>

\* ... or refused: the message was not taken from the queue yet.
NotQueued ==
  /\ flush.at = "queueing"
  /\ flush' = NotFlushing /\ rest' = "error"
  /\ UNCHANGED <<current, ctl, direct, streaming, ended, queue, known, timers, runs, autos,
                 from, sent, cleared, failed>>

\* The snapshot of the prompt is taken and the SDK, idle, starts its run.
Prompted ==
  /\ flush.at = "snapshot" /\ ~streaming
  /\ streaming' = TRUE
  /\ flush' = [flush EXCEPT !.at = "prompt"]
  /\ sent' = [sent EXCEPT ![flush.item] = @ + 1]
  /\ UNCHANGED <<current, ctl, direct, ended, queue, known, timers, runs, autos, from,
                 cleared, failed, rest>>

\* Fault: what the SDK refused is gone.
NotRestored(i) == queue

\* A message whose prompt was refused is written again, unless a run ended
\* since or the session is another one.
Restored(i) == IF flush.current = current /\ flush.end = ended THEN <<i>> \o queue
               ELSE queue

\* The SDK refuses the prompt: busy, without a model, ...
Refused ==
  /\ flush.at = "snapshot"
  /\ queue' = Restored(flush.item)
  /\ failed' = IF flush.current = current /\ flush.end = ended THEN failed
               ELSE failed \cup {flush.item}
  /\ flush' = NotFlushing /\ rest' = "error"
  /\ UNCHANGED <<current, ctl, direct, streaming, ended, known, timers, runs, autos, from,
                 sent, cleared>>

\* The run of the prompt is over, its promise settles and the flush goes on.
PromptSettles ==
  /\ flush.at = "prompt" /\ (flush.current # current \/ ~streaming)
  /\ Round(queue, flush.current, flush.retry, IsCompacting, streaming)
  /\ UNCHANGED <<current, ctl, direct, streaming, ended, known, timers, runs, autos, from,
                 sent, cleared, failed>>

\* The prompt fails later than that: its run, or its session, is gone.
PromptFails ==
  /\ flush.at = "prompt" /\ (flush.current # current \/ ~streaming)
  /\ flush' = NotFlushing /\ rest' = "error"
  /\ UNCHANGED <<current, ctl, direct, streaming, ended, queue, known, timers, runs, autos,
                 from, sent, cleared, failed>>

TimerFires ==
  /\ timers > 0
  /\ IF Flushing \/ queue = <<>> \/ Running
     THEN timers' = timers - 1 /\ UNCHANGED <<queue, flush, rest>>
     ELSE /\ timers' = timers - 1
          /\ Round(queue, current, FALSE, FALSE, streaming)
  /\ UNCHANGED <<current, ctl, direct, streaming, ended, known, runs, autos, from, sent,
                 cleared, failed>>

-----------------------------------------------------------------------------
\* CompactionController

\* start(), of a compact command: a request that is known, or one while a
\* compaction runs, is answered by what is there.
Start(r) ==
  /\ r \notin requests /\ ~Running
  /\ comp' = [id |-> r, status |-> "running"]
  /\ requests' = requests \cup {r}
  /\ calls' = calls \cup {r}
  /\ UNCHANGED <<current, direct, compacting, streaming, ended, items, runs, autos,
                 history>>

\* The SDK begins: it stops the run first.
ManualBegins ==
  /\ Running /\ comp.id \in calls /\ compacting = "no"
  /\ compacting' = "manual" /\ streaming' = FALSE
  /\ ended' = IF streaming THEN ended + 1 ELSE ended
  /\ UNCHANGED <<current, direct, comp, requests, calls, items, runs, autos, history>>

\* observe(compaction_start): one that runs already stays what it is.
AutoBegins ==
  /\ compacting = "no" /\ autos < MaxAuto /\ autos' = autos + 1
  /\ \A r \in calls : ~(Running /\ comp.id = r)
  /\ compacting' = "auto"
  /\ comp' = IF Running THEN comp ELSE [id |-> AutoId, status |-> "running"]
  /\ UNCHANGED <<current, direct, requests, calls, streaming, ended, items, runs, history>>

\* Fault: whichever compaction runs is finished.
FinishAny(id, retry, busy) ==
  IF ~Running THEN UNCHANGED <<comp, queue, flush, timers, rest>>
  ELSE /\ comp' = [comp EXCEPT !.status = "ended"]
       /\ FlushCalled(retry, "ended", busy)

\* finish(), and what its listener does.
Finish(id, retry, busy) ==
  IF comp.id # id \/ ~Running
  THEN UNCHANGED <<comp, queue, flush, timers, rest>>
  ELSE /\ comp' = [comp EXCEPT !.status = "ended"]
       /\ FlushCalled(retry, "ended", busy)

\* observe(compaction_end)
EndReported(retry) ==
  /\ compacting \in {"manual", "auto"}
  /\ retry => compacting = "auto"
  /\ compacting' = "no"
  /\ Finish(comp.id, retry, TRUE)
  /\ UNCHANGED <<current, direct, requests, calls, streaming, ended, known, runs, autos,
                 from, sent, cleared, failed>>

\* The promise of a manual compaction settles: after its end, or at once when
\* the SDK rejects it.
CallSettles(r) ==
  /\ r \in calls
  /\ (Running /\ comp.id = r) => compacting # "manual"
  /\ calls' = calls \ {r}
  /\ Finish(r, FALSE, IsCompacting)
  /\ UNCHANGED <<current, direct, requests, compacting, streaming, ended, known, runs,
                 autos, from, sent, cleared, failed>>

-----------------------------------------------------------------------------
\* Commands, and runs of others

Repeated(i) == i \in known

\* queue_compaction_prompt: queued while a compaction or a flush is under way, else
\* handed to the SDK directly, to its run or as a prompt.  Its client may repeat the
\* request to the session: an id that is known is answered as queued.
Queue(i) ==
  /\ from[i] \in {0, current} /\ sent[i] < 2 /\ Len(queue) < 3
  /\ ~Repeated(i)
  /\ known' = known \cup {i}
  /\ from' = [from EXCEPT ![i] = current]
  /\ IF ~IsCompacting /\ ~Running /\ ~Flushing
     THEN /\ handing' = [handing EXCEPT ![i] = IF streaming THEN "queueing" ELSE "snapshot"]
          /\ UNCHANGED queue
     ELSE queue' = Append(queue, i) /\ UNCHANGED handing
  /\ UNCHANGED <<current, ctl, streaming, ended, flush, timers, runs, autos, sent,
                 cleared, failed, refused, rest>>

\* The SDK takes what was handed over: steer() or followUp() into its run, prompt() when
\* it is idle, the snapshot being taken.
HandedOver(i) ==
  /\ handing[i] # "no" /\ handing' = [handing EXCEPT ![i] = "no"]
  /\ handing[i] = "snapshot" => ~streaming
  /\ streaming' = (streaming \/ handing[i] = "snapshot")
  /\ sent' = [sent EXCEPT ![i] = @ + 1]
  /\ UNCHANGED <<current, ctl, ended, items, runs, autos, from, cleared, failed, refused,
                 rest>>

\* ... or does not: the command throws, or an error ends a run that did not begin.  The
\* id stays known.
HandOverFails(i) ==
  /\ handing[i] # "no" /\ handing' = [handing EXCEPT ![i] = "no"]
  /\ refused' = IF from[i] = current THEN refused \cup {i} ELSE refused
  /\ UNCHANGED <<current, ctl, streaming, ended, items, runs, autos, history>>

\* retry_compaction_queue
Retry ==
  /\ FlushCalled(FALSE, comp.status, IsCompacting)
  /\ UNCHANGED <<current, ctl, direct, streaming, ended, known, runs, autos, from, sent,
                 cleared, failed>>

\* clear_compaction_queue
ClearQueue ==
  /\ queue' = <<>>
  /\ cleared' = cleared \cup {queue[n] : n \in 1..Len(queue)}
  /\ UNCHANGED <<current, ctl, direct, streaming, ended, known, flush, timers, runs, autos,
                 from, sent, failed, rest>>

RunStarts ==
  /\ ~streaming /\ runs < MaxRuns
  /\ runs' = runs + 1 /\ streaming' = TRUE
  /\ UNCHANGED <<current, ctl, direct, ended, items, autos, history>>

RunEnds ==
  /\ streaming /\ streaming' = FALSE /\ ended' = ended + 1
  /\ UNCHANGED <<current, ctl, direct, items, runs, autos, history>>

\* prepareForSessionReplacement() and the new session.
Replaced ==
  /\ current < MaxInner /\ current' = current + 1
  /\ queue' = <<>> /\ known' = {} /\ timers' = 0
  /\ comp' = [id |-> AutoId, status |-> "none"] /\ requests' = {} /\ calls' = {}
  /\ compacting' = "no" /\ streaming' = FALSE
  /\ cleared' = {} /\ failed' = {} /\ refused' = {}
  /\ UNCHANGED <<handing, ended, flush, runs, autos, from, sent, rest>>

Next ==
  \/ Queued \/ NotQueued \/ Prompted \/ Refused \/ PromptSettles \/ PromptFails
  \/ TimerFires
  \/ \E r \in Request : Start(r) \/ CallSettles(r)
  \/ ManualBegins \/ AutoBegins
  \/ \E retry \in BOOLEAN : EndReported(retry)
  \/ \E i \in Item : Queue(i) \/ HandedOver(i) \/ HandOverFails(i)
  \/ Retry \/ ClearQueue \/ RunStarts \/ RunEnds \/ Replaced

Spec == Init /\ [][Next]_vars

-----------------------------------------------------------------------------
\* A message that waits is flushed some day without the user: a flush, a timer
\* or a compaction whose end starts one is under way.  Two things leave it to
\* the user: an error that ended the last flush, which is shown, and a flush of
\* the former session that was still awaited when the message was written.
QueueIsServed ==
  queue # <<>> => Flushing \/ timers > 0 \/ Running \/ rest # "none"

\* What the user sees running is what the SDK is at, however the promises and
\* events of successive compactions come.
CompactionIsShown ==
  /\ compacting \in {"manual", "auto"} => Running
  /\ Running /\ compacting = "no" => comp.id \in calls

\* No message is sent twice or gets lost: it waits, is on its way, or there is a reason:
\* the user cleared it, its session was left, it was refused from the queue when another
\* run had ended since, or its direct hand-over failed: the command threw, or the SDK
\* refused the prompt, which an error end of run shows unless a run ended meanwhile.
\* In the last case a repeated request is answered as queued all the same, the id being
\* known, although nobody holds the message.
OnceOrExplained ==
  \A i \in Item :
    /\ sent[i] <= 1
    /\ from[i] = current /\ sent[i] = 0 =>
         \/ \E n \in 1..Len(queue) : queue[n] = i
         \/ flush.item = i \/ handing[i] # "no"
         \/ i \in cleared \/ i \in failed \/ i \in refused
=============================================================================
