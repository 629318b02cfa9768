---------------------------- MODULE SessionStream ----------------------------
(***************************************************************************)
(* The event stream between a session runtime and one browser tab:           *)
(* lib/agent-event-log.ts, lib/agent-stream-wire.ts, the stream half of      *)
(* lib/rpc-manager.ts, app/api/agent/[id]/events/route.ts and                *)
(* hooks/use-agent-connection.ts.                                            *)
(*                                                                         *)
(* A runtime (wrapper) numbers its events and keeps the last of them; its    *)
(* place in `wrappers` stands for its random epoch.  A tab opens a           *)
(* connection with the cursor it has reached: the route replays what came    *)
(* after it, or nothing, and then sends a snapshot and the events as they    *)
(* come.  Frames travel in order; a connection may break at any moment, a    *)
(* frame may be unreadable, and runtimes end, restart and turn to another    *)
(* session.  Payloads are the numbers of the events.                         *)
(***************************************************************************)
EXTENDS Naturals, Sequences, FiniteSets

CONSTANTS
  MaxEvents,    \* maxEvents of the log
  MaxSid,       \* bounds of the model: sessions,
  MaxRuntimes,  \* runtimes started,
  MaxSeq,       \* events of one runtime, less one for each other runtime,
  MaxPending,   \* replacements pending at a time,
  MaxFaults,    \* broken connections and unreadable frames,
  MaxForced,    \* connections opened by one mount of the page itself
  Emitted       \* types of the events that a runtime publishes at any time

ASSUME StreamAssumption ==
  /\ MaxEvents \in Nat \ {0} /\ MaxSid \in Nat \ {0} /\ MaxRuntimes \in Nat /\ MaxPending \in Nat
  /\ MaxSeq \in Nat /\ MaxFaults \in Nat /\ MaxForced \in Nat
  /\ Emitted \subseteq {"update", "end", "other", "snapshot", "restored"}

VARIABLES
  wrappers,  \* the runtimes, in the order they were started
  es,        \* the tab's EventSource: "none", "requested" or "open"
  conn,      \* the listener the route registered for it, and its transport
  channel,   \* frames sent on it and not handled yet
  tab,       \* the refs of useAgentEvents()
  view,      \* what the tab shows: session, runtime and events applied
  faults, forced

line    == <<es, conn, channel>>
page    == <<es, tab, view, faults, forced>>
vars    == <<wrappers, es, conn, channel, tab, view, faults, forced>>

Sid == 1..MaxSid

\* "update" is a message_update, "end" any other event that ends a delta
\* baseline, "other" one that does not; snapshots are also logged as events.
\* "restored" tells of a replacement that failed without loss.  The handler turns to
\* the session that an event of Turns names.
Types  == {"update", "end", "other", "snapshot", "restored", "restart", "replaced", "closed"}
Last   == {"restart", "replaced", "closed"}
Turns  == {"replaced", "restored"}
Resets == {"end", "snapshot"} \cup Last

NoCursor   == [epoch |-> 0, seq |-> 0]
NoConn     == [epoch |-> 0, deltas |-> FALSE, base |-> 0, stray |-> FALSE]
FreshTab(s) == [sid |-> s, cursor |-> NoCursor, deltas |-> TRUE, ready |-> FALSE,
                base |-> 0, retry |-> FALSE]

\* Where an entry of the log leads the tabs.
LeadsTo(r) == IF r.type \in Turns THEN r.sid ELSE 0

Feed == INSTANCE SessionFeed WITH
          served    <- [e \in DOMAIN wrappers |-> wrappers[e].served],
          published <- [e \in DOMAIN wrappers |->
                          [k \in DOMAIN wrappers[e].entries |->
                             LeadsTo(wrappers[e].entries[k])]],
          shown <- view, mounted <- tab.sid

\* A runtime serves session sid and is registered under key.  A replacement that is
\* pending began in session `pending` and turns to `target`.
NewWrapper(s) == [sid |-> s, key |-> s, alive |-> TRUE, op |-> "none", pending |-> 0,
                  target |-> 0, former |-> {}, served |-> {s},
                  entries |-> <<>>, oldest |-> 1, base |-> 0]

Entry   == [type : Types, sid : Sid, delta : Nat]
Wrapper == [sid : Sid, key : Sid, alive : BOOLEAN,
            op : {"none", "begun", "bound", "restored"}, pending : Sid \cup {0},
            target : Sid \cup {0}, former : SUBSET Sid, served : SUBSET Sid,
            entries : Seq(Entry), oldest : Nat, base : Nat]
Frame   == [kind : {"event", "snapshot", "moved"}, epoch : Nat, seq : Nat,
            type : Types, sid : Sid, delta : Nat]
Cursor  == [epoch : Nat, seq : Nat]

TypeOK ==
  /\ wrappers \in Seq(Wrapper)
  /\ es \in {"none", "requested", "open"}
  /\ conn \in [epoch : Nat, deltas : BOOLEAN, base : Nat, stray : BOOLEAN]
  /\ channel \in Seq(Frame)
  /\ tab \in [sid : Sid, cursor : Cursor, deltas : BOOLEAN, ready : BOOLEAN,
             base : Nat, retry : BOOLEAN]
  /\ view \in [sid : Sid, epoch : Nat, seen : Seq(Nat), turned : BOOLEAN]
  /\ faults \in Nat /\ forced \in Nat

Init ==
  /\ wrappers = <<>>
  /\ es = "none" /\ conn = NoConn /\ channel = <<>>
  /\ tab = FreshTab(1)
  /\ view = Feed!Nothing(1)
  /\ faults = 0 /\ forced = 0

-----------------------------------------------------------------------------
\* AgentEventLog

\* append(): the entry with its delta d, the log without the records before o, and
\* the delta baseline.
Logged(w, type, d, o) ==
  LET b == IF type = "update" THEN Len(w.entries) + 1
           ELSE IF type \in Resets THEN 0 ELSE w.base
  IN  [w EXCEPT !.entries = Append(@, [type |-> type, sid |-> w.sid, delta |-> d]),
                !.oldest  = o,
                !.base    = IF b < o THEN 0 ELSE b]

\* Eviction is by number and by bytes; as sizes are not modelled, any number of
\* the oldest records may go, the new one included.
Appended(w, type) ==
  { Logged(w, type, d, o) :
      d \in IF type = "update" THEN {0, w.base} ELSE {0},
      o \in {i \in w.oldest..(Len(w.entries) + 2) : Len(w.entries) - i + 2 <= MaxEvents} }

\* Fault: one record too many may be missing.
ReplayedWithGap(w, e, cursor) ==
  IF cursor.epoch # e \/ cursor.seq + 2 < w.oldest \/ cursor.seq > Len(w.entries)
  THEN <<>>
  ELSE LET last == IF cursor.seq + 1 < w.oldest THEN w.oldest - 1 ELSE cursor.seq
       IN  [i \in 1..(Len(w.entries) - last) |-> last + i]

\* replay(): the numbers of the records after the cursor, or none.
Replayed(w, e, cursor) ==
  IF \/ cursor.epoch # e
     \/ cursor.seq < w.oldest - 1
     \/ cursor.seq > Len(w.entries)
  THEN <<>>
  ELSE [i \in 1..(Len(w.entries) - cursor.seq) |-> cursor.seq + i]

-----------------------------------------------------------------------------
\* AgentStreamTransport

\* The baseline of a transport that has sent a record of this type.
BaseAfter(base, type, seq) ==
  IF type = "update" THEN seq ELSE IF type \in Resets THEN 0 ELSE base

\* Fault: the delta whatever this connection was sent before.
EventFrameOffBase(e, w, k, deltas, base) ==
  [kind |-> "event", epoch |-> e, seq |-> k, type |-> w.entries[k].type,
   sid |-> w.entries[k].sid, delta |-> IF deltas THEN w.entries[k].delta ELSE 0]

\* select() for an event of the log: the delta only on the baseline just sent.
EventFrame(e, w, k, deltas, base) ==
  LET r == w.entries[k]
  IN  [kind |-> "event", epoch |-> e, seq |-> k, type |-> r.type, sid |-> r.sid,
       delta |-> IF deltas /\ r.delta = base THEN r.delta ELSE 0]

SnapshotFrame(e, w) ==
  [kind |-> "snapshot", epoch |-> e, seq |-> Len(w.entries), type |-> "snapshot",
   sid |-> w.sid, delta |-> 0]

MovedFrame(e, w) ==
  [kind |-> "moved", epoch |-> e, seq |-> 0, type |-> "replaced", sid |-> w.sid,
   delta |-> 0]

\* The baseline after the records of ks, of which the transport began with none.
BaseOver(w, ks, i) ==
  LET mine == {j \in 1..i : /\ w.entries[ks[j]].type = "update"
                            /\ \A h \in (j + 1)..i :
                                 w.entries[ks[h]].type \notin Resets \cup {"update"}}
  IN  IF mine = {} THEN 0 ELSE ks[CHOOSE j \in mine : TRUE]

\* The stream listener, and the cleanup of the route after a last frame.
Deliver(e, w, k) ==
  IF conn.epoch # e THEN UNCHANGED <<conn, channel>>
  ELSE LET f == EventFrame(e, w, k, conn.deltas, conn.base)
       IN  /\ channel' = Append(channel, f)
           /\ conn' = IF f.type \in Last THEN NoConn
                      ELSE [conn EXCEPT !.base = BaseAfter(@, f.type, k)]

-----------------------------------------------------------------------------
\* The runtimes

Alive == {e \in DOMAIN wrappers : wrappers[e].alive}

\* The bound allows for one more runtime.
Room == Len(wrappers) < MaxRuntimes

\* A runtime that has ended: its log is gone.  What stays is the history of what it
\* served and where its events led, for SessionFeed.
History(w) ==
  [k \in DOMAIN w.entries |->
     IF w.entries[k].type \in Turns THEN [w.entries[k] EXCEPT !.type = "restored"]
     ELSE [type |-> "closed", sid |-> 1, delta |-> 0]]

Gone(w) ==
  [NewWrapper(1) EXCEPT !.alive = FALSE, !.oldest = Len(w.entries) + 1,
                            !.served = w.served, !.entries = History(w)]

\* emitEvent(): the event is appended and sent on.
Publish(e, from, type) ==
  /\ Len(from.entries) + Len(wrappers) <= MaxSeq
  /\ \E w \in Appended(from, type) :
       /\ wrappers' = [wrappers EXCEPT ![e] = IF w.alive THEN w ELSE Gone(w)]
       /\ Deliver(e, w, Len(w.entries))

\* An event that changes nothing about the runtime itself.
Emit(e, type) ==
  /\ e \in Alive
  /\ Publish(e, wrappers[e], type)
  /\ UNCHANGED page

\* destroy(), of an idle, migrated or deleted session ("closed"), or after the
\* frame of restartForAuthIfIdle() ("restart"), of which the route closes the
\* connection before the "closed" that follows.
End(e, type) ==
  /\ e \in Alive /\ Room
  /\ Publish(e, [wrappers[e] EXCEPT !.alive = FALSE], type)
  /\ UNCHANGED page

\* The process dies: nothing more is sent.
Crash ==
  /\ Alive # {} /\ Room
  /\ wrappers' = [e \in DOMAIN wrappers |-> Gone(wrappers[e])]
  /\ conn' = NoConn
  /\ UNCHANGED <<channel, page>>

\* The live runtimes that are registered under s.
Registered(s) == {e \in Alive : wrappers[e].key = s}

\* startRpcSession() for another tab, or for a request this tab gave up.
Start(s) ==
  /\ Room /\ Registered(s) = {}
  /\ wrappers' = Append(wrappers, NewWrapper(s))
  /\ UNCHANGED <<conn, channel, page>>

\* runRuntimeReplacement(): new, fork, switch or import, to a fresh id or to any session
\* that no other runtime is registered under (checkRuntimeTarget()), a former one of
\* its own and its present one included.
BeginReplacement(e, s) ==
  /\ e \in Alive /\ wrappers[e].op = "none" /\ Registered(s) \subseteq {e}
  /\ Cardinality({d \in DOMAIN wrappers : wrappers[d].op # "none"}) < MaxPending
  /\ Len(wrappers[e].entries) + Len(wrappers) <= MaxSeq
  /\ wrappers' = [wrappers EXCEPT ![e].op = "begun", ![e].pending = wrappers[e].sid,
                                  ![e].target = s]
  /\ UNCHANGED <<conn, channel, page>>

\* rebindRuntimeSession(): the runtime has the new session at once,
Rebind(e) ==
  /\ e \in Alive /\ wrappers[e].op = "begun"
  /\ LET s == wrappers[e].target
     IN  wrappers' = [wrappers EXCEPT ![e].op = "bound", ![e].sid = s, ![e].target = 0,
                                      ![e].served = @ \cup {s}]
  /\ UNCHANGED <<conn, channel, page>>

\* and is registered under it once its extensions are bound, unless another runtime
\* was meanwhile: then the operation fails.
Register(e) ==
  /\ e \in Alive /\ wrappers[e].op \in {"bound", "restored"}
  /\ wrappers[e].key # wrappers[e].sid
  /\ Registered(wrappers[e].sid) = {}
  /\ wrappers' = [wrappers EXCEPT ![e].key = wrappers[e].sid]
  /\ UNCHANGED <<conn, channel, page>>

\* The replacement is over.
Over(w) == [w EXCEPT !.op = "none", !.pending = 0, !.target = 0]

\* The operation succeeds: the former id becomes an alias, then the event.
FinishReplacement(e) ==
  /\ e \in Alive /\ wrappers[e].op = "bound" /\ wrappers[e].key = wrappers[e].sid
  /\ LET w == wrappers[e]
     IN  Publish(e, [Over(w) EXCEPT !.former = @ \cup ({w.pending} \ {w.sid})], "replaced")
  /\ UNCHANGED page

\* It fails: restoreRuntime() opens the former session again.
Restore(e) ==
  /\ e \in Alive /\ wrappers[e].op \in {"begun", "bound"}
  /\ wrappers' = [wrappers EXCEPT ![e].op = "restored", ![e].sid = wrappers[e].pending,
                                  ![e].target = 0]
  /\ UNCHANGED <<conn, channel, page>>

\* The end of that: the runtime is restored and registered, or the recovery failed too,
\* before the session was open or after.
FailReplacement(e) ==
  /\ e \in Alive /\ wrappers[e].op # "none"
  /\ LET w == wrappers[e]
     IN  \/ w.op = "restored" /\ w.key = w.sid /\ Publish(e, Over(w), "restored")
         \/ Publish(e, Over(w), "other")
  /\ UNCHANGED page

\* It is cancelled.
CancelReplacement(e) ==
  /\ e \in Alive /\ wrappers[e].op = "begun"
  /\ wrappers' = [wrappers EXCEPT ![e] = Over(@)]
  /\ UNCHANGED <<conn, channel, page>>

\* pruneStreamAliases(): an alias expires or makes room.
Prune(e, s) ==
  /\ e \in Alive /\ s \in wrappers[e].former
  /\ wrappers' = [wrappers EXCEPT ![e].former = @ \ {s}]
  /\ UNCHANGED <<conn, channel, page>>

-----------------------------------------------------------------------------
\* The route

\* canResumeStream()
CanResume(e, sid, cursor) ==
  /\ e \in Alive /\ cursor.epoch = e
  /\ cursor.seq <= Len(wrappers[e].entries)
  /\ sid \in {wrappers[e].sid, wrappers[e].pending} \cup wrappers[e].former

Resumed == {e \in Alive : CanResume(e, tab.sid, tab.cursor)}

\* The response: the notice of a move, the replay, the snapshot.  A replay with a last
\* frame is sent to its end, the snapshot too, and then the connection is closed.
Respond(e, w, cursor, moved) ==
  LET ks     == Replayed(w, e, cursor)
      replay == [i \in DOMAIN ks |->
                   EventFrame(e, w, ks[i], tab.deltas, BaseOver(w, ks, i - 1))]
  IN  /\ channel' = (IF moved THEN <<MovedFrame(e, w)>> ELSE <<>>)
                    \o replay \o <<SnapshotFrame(e, w)>>
      /\ conn' = IF \E i \in DOMAIN replay : replay[i].type \in Last THEN NoConn
                 ELSE [epoch |-> e, deltas |-> tab.deltas, base |-> 0,
                       stray |-> ~moved /\ w.sid # tab.sid]
      /\ es' = "open"

\* A live runtime of the cursor's epoch answers under its present id; the cursor
\* of a former id is not replayed.
AcceptResumed ==
  /\ es = "requested"
  /\ \E e \in Resumed :
       /\ wrappers[e].op = "none"
       /\ IF wrappers[e].sid # tab.sid
          THEN Respond(e, wrappers[e], NoCursor, TRUE)
          ELSE Respond(e, wrappers[e], tab.cursor, FALSE)
  /\ UNCHANGED <<wrappers, tab, view, faults, forced>>

\* Otherwise the runtime registered under the id, whatever it serves, or a new one.
AcceptRegistered ==
  /\ es = "requested" /\ Resumed = {}
  /\ \E e \in Registered(tab.sid) : Respond(e, wrappers[e], tab.cursor, FALSE)
  /\ UNCHANGED <<wrappers, tab, view, faults, forced>>

AcceptStarted ==
  /\ es = "requested" /\ Resumed = {} /\ Registered(tab.sid) = {}
  /\ Room
  /\ wrappers' = Append(wrappers, NewWrapper(tab.sid))
  /\ Respond(Len(wrappers) + 1, NewWrapper(tab.sid), tab.cursor, FALSE)
  /\ UNCHANGED <<tab, view, faults, forced>>

-----------------------------------------------------------------------------
\* useAgentEvents()

\* The EventSource is closed; the server drops its listener.
Close ==
  /\ es' = "none" /\ conn' = NoConn /\ channel' = <<>>

\* connectEvents(): the previous EventSource is closed, the request is sent.  A page
\* that has turned to another session is mounted anew before it connects again: its
\* retries wait for a second or more.
Connect ==
  /\ ~view.turned
  /\ es' = "requested" /\ conn' = NoConn /\ channel' = <<>>
  /\ tab' = [tab EXCEPT !.ready = FALSE, !.base = 0, !.retry = FALSE]
  /\ UNCHANGED <<wrappers, view>>

\* The page connects: a prompt, a return to the page, a new mount.  The pages
\* that do so while connected force it.
PageConnects ==
  /\ forced < MaxForced /\ forced' = forced + 1
  /\ Connect
  /\ UNCHANGED faults

RetryFires ==
  /\ tab.retry
  /\ Connect
  /\ UNCHANGED <<faults, forced>>

\* onerror: a retry with backoff.
Fails ==
  /\ Close
  /\ tab' = [tab EXCEPT !.retry = TRUE]
  /\ UNCHANGED <<wrappers, view, forced>>

Breaks == es # "none" /\ faults < MaxFaults /\ faults' = faults + 1 /\ Fails

\* 503 while a replacement is pending.
Refused ==
  /\ es = "requested" /\ \E e \in Resumed : wrappers[e].op # "none"
  /\ Fails /\ UNCHANGED faults

\* Fault: a stream that was ready is left to the EventSource.
EndOfStreamBeforeReady ==
  /\ es = "open" /\ conn = NoConn /\ channel = <<>> /\ ~tab.ready
  /\ Fails /\ UNCHANGED faults

\* The server has closed the connection and its last frame is handled.
EndOfStream ==
  /\ es = "open" /\ conn = NoConn /\ channel = <<>>
  /\ Fails /\ UNCHANGED faults

\* The failsafe: no snapshot within its delay.
FailsafeFires ==
  /\ es # "none" /\ ~tab.ready
  /\ faults < MaxFaults /\ faults' = faults + 1
  /\ Close
  /\ UNCHANGED <<wrappers, tab, view, forced>>

\* Fault: the next number counts as seen.
DuplicateOfNext(f) ==
  /\ f.kind = "event" /\ f.type # "snapshot"
  /\ tab.cursor.epoch = f.epoch /\ f.seq <= tab.cursor.seq + 1

\* isDuplicateAgentCursor()
Duplicate(f) ==
  /\ f.kind = "event" /\ f.type # "snapshot"
  /\ tab.cursor.epoch = f.epoch /\ f.seq <= tab.cursor.seq

Decodes(f) == f.delta \in {0, tab.base}

\* The frame cannot be used: no cursor, no deltas, and one attempt to recover.
Recover ==
  /\ Close
  /\ tab' = [tab EXCEPT !.cursor = NoCursor, !.deltas = FALSE, !.ready = FALSE,
                        !.retry = tab.deltas]
  /\ UNCHANGED view

At(f) == [epoch |-> f.epoch, seq |-> f.seq]

\* The handler has applied the event: the baseline, the cursor.
Advance(f) ==
  [tab EXCEPT !.cursor = At(f), !.base = BaseAfter(@, f.type, f.seq)]

\* The connection goes on with the next frame.
Passed == channel' = Tail(channel) /\ UNCHANGED <<es, conn>>

\* An event of the runtime whose snapshot the page shows.
Apply(f) ==
  view' = Feed!Led(IF view.epoch = f.epoch THEN [view EXCEPT !.seen = Append(@, f.seq)]
                   ELSE view, LeadsTo(f))

\* A snapshot of the session displayed replaces what is shown.  One of another session
\* is passed over: if the connection began with it, nothing is known to be complete.
ApplySnapshot(f) ==
  IF f.sid = view.sid
  THEN view' = [view EXCEPT !.epoch = f.epoch, !.seen = Feed!UpTo(f.seq)]
  ELSE IF f.kind = "event" THEN Apply(f)
  ELSE view' = [view EXCEPT !.epoch = 0, !.seen = <<>>]

\* The page's handler and then the hook.
Handle(f) ==
  \/ /\ f.kind = "moved"
     /\ view' = Feed!Led(view, f.sid) /\ UNCHANGED tab /\ Passed
  \/ /\ f.kind # "moved" /\ f.type = "snapshot"
     /\ ApplySnapshot(f)
     /\ tab' = [Advance(f) EXCEPT !.ready = TRUE] /\ Passed
  \/ /\ f.type = "closed"
     /\ Apply(f) /\ tab' = [Advance(f) EXCEPT !.ready = FALSE] /\ Close
  \/ /\ f.type = "restart"
     /\ Apply(f) /\ tab' = [Advance(f) EXCEPT !.retry = TRUE] /\ Close
  \/ /\ f.kind # "moved" /\ f.type \in {"update", "end", "other", "replaced", "restored"}
     /\ Apply(f) /\ tab' = Advance(f) /\ Passed

\* onmessage
Receive ==
  /\ es = "open" /\ channel # <<>>
  /\ LET f == Head(channel)
     IN  IF Duplicate(f)
         THEN channel' = Tail(channel) /\ UNCHANGED <<es, conn, tab, view>>
         ELSE IF Decodes(f) THEN Handle(f) ELSE Recover
  /\ UNCHANGED <<wrappers, faults, forced>>

\* A frame that cannot be read, or whose handler throws.
ReceiveUnreadable ==
  /\ es = "open" /\ channel # <<>>
  /\ faults < MaxFaults /\ faults' = faults + 1
  /\ Recover
  /\ UNCHANGED <<wrappers, forced>>

\* The page is mounted anew for the session it turned to.
Remount ==
  /\ view.turned
  /\ Close
  /\ tab' = FreshTab(view.sid)
  /\ view' = Feed!Nothing(view.sid)
  /\ forced' = 0
  /\ UNCHANGED <<wrappers, faults>>

Next ==
  \/ \E e \in DOMAIN wrappers :
       \/ \E t \in Emitted : Emit(e, t)
       \/ \E t \in {"closed", "restart"} : End(e, t)
       \/ Rebind(e) \/ Register(e) \/ FinishReplacement(e)
       \/ Restore(e) \/ FailReplacement(e) \/ CancelReplacement(e)
       \/ \E s \in Sid : BeginReplacement(e, s) \/ Prune(e, s)
  \/ Crash \/ \E s \in Sid : Start(s)
  \/ AcceptResumed \/ AcceptRegistered \/ AcceptStarted
  \/ PageConnects \/ RetryFires \/ Breaks \/ Refused \/ EndOfStream
  \/ FailsafeFires \/ Receive \/ ReceiveUnreadable \/ Remount

Spec == Init /\ [][Next]_vars

\* What is on the wire arrives, timers fire, the route answers and operations
\* of the runtime return; a page that turns to another session is mounted.
Fairness ==
  /\ WF_vars(Receive) /\ WF_vars(RetryFires) /\ WF_vars(EndOfStream) /\ WF_vars(Remount)
  /\ WF_vars(AcceptResumed \/ AcceptRegistered \/ AcceptStarted \/ Refused)
  /\ WF_vars(\E e \in DOMAIN wrappers :
               \/ Rebind(e) \/ Register(e) \/ FinishReplacement(e)
               \/ Restore(e) \/ FailReplacement(e) \/ CancelReplacement(e))
FairSpec == Spec /\ Fairness

-----------------------------------------------------------------------------
\* A tab that has received everything sent on a live connection shows everything
\* the runtime has published: nothing is left out between the replay, the
\* snapshot and the events that follow (onStreamEvent()).  But for a page that has
\* turned to another session and is about to be mounted anew, and for a connection
\* that was answered by a runtime registered under the tab's session while it served
\* another one.
QuietMeansCurrent ==
  es = "open" /\ conn.epoch # 0 /\ channel = <<>> /\ ~view.turned /\ ~conn.stray =>
    view.epoch = conn.epoch /\ view.seen = Feed!UpTo(Len(wrappers[conn.epoch].entries))

\* A delta on the way finds its baseline: transport and decoder agree, also over
\* a replay and after a snapshot, so that only an unreadable frame costs a tab
\* its cursor.
DeltasDecode ==
  es = "open" /\ channel # <<>> => Duplicate(Head(channel)) \/ Decodes(Head(channel))

\* The stream implements the feed: SessionFeed.
FeedSpec == Feed!Spec

\* A tab that connects or will retry becomes current, or waits for its page to
\* connect: after "closed", after the failsafe, after a frame that it could not
\* use even without deltas, or when it was mounted anew.  It is never left on a
\* dead connection, nor between a refusal and a retry.  A user who replaces the
\* session at every one of its attempts could keep it out for ever.
Current   == tab.ready /\ es = "open" /\ conn.epoch # 0 /\ channel = <<>>
GivenUp   == es = "none" /\ ~tab.retry
OutOfRoom == es = "requested" /\ ~Room
Settled   == \A e \in DOMAIN wrappers : wrappers[e].op = "none"
CatchesUp ==
  <>[]Settled =>
    ((es # "none" \/ tab.retry) ~> (Current \/ GivenUp \/ OutOfRoom))
=============================================================================
