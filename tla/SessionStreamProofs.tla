------------------------- MODULE SessionStreamProofs -------------------------
(***************************************************************************)
(* Proofs about the event stream, for any number of runtimes, sessions,      *)
(* events, faults and connections: what the tab shows on a live connection   *)
(* is everything published, every delta finds its baseline, and the stream   *)
(* implements SessionFeed.                                                   *)
(***************************************************************************)
EXTENDS SessionStream, SequenceTheorems, TLAPS

\* Whatever a live runtime serves, is registered under, has left or comes from, it has
\* served; and so it has any session that its events lead to.
WrapperIsSound(w) ==
  /\ \A k \in DOMAIN w.entries : LeadsTo(w.entries[k]) \in w.served \cup {0}
  /\ w.alive => w.sid \in w.served /\ w.key \in w.served /\ w.former \subseteq w.served
  /\ w.pending \in w.served \cup {0}
  /\ w.op # "none" => w.pending # 0
  /\ w.op = "begun" => w.target # 0

RuntimesAreSound == \A e \in DOMAIN wrappers : WrapperIsSound(wrappers[e])

Published(e) == Len(wrappers[e].entries)

\* The page shows what the cursor says it has received.
Synced == view.epoch = tab.cursor.epoch /\ view.seen = Feed!UpTo(tab.cursor.seq)

\* What a page shows and where its cursor stands: they agree, unless what is shown is
\* not followed.
TabIsSound ==
  /\ es = "requested" => ~view.turned /\ tab.base = 0
  /\ es # "open" => conn = NoConn /\ channel = <<>>
  /\ ~view.turned => view.sid = tab.sid
  /\ view.epoch = 0 => view.seen = <<>>
  /\ view.epoch # 0 => /\ view.epoch \in DOMAIN wrappers
                       /\ \E n \in 0..Published(view.epoch) : view.seen = Feed!UpTo(n)
  /\ tab.cursor.epoch # 0 =>
       /\ tab.cursor.epoch \in DOMAIN wrappers
       /\ tab.cursor.seq <= Published(tab.cursor.epoch)
       /\ Synced \/ view.epoch = 0

\* The notice of a move comes first.
MoveIsSound(i) ==
  i = 1 /\ Len(channel) > 1 /\ channel[i].type = "replaced" /\ channel[i].sid # tab.sid

\* A snapshot is of no less than is shown already.
SnapshotIsSound(i) ==
  LET f == channel[i]
  IN  /\ f.type = "snapshot" /\ f.seq <= Published(f.epoch) /\ f.sid \in wrappers[f.epoch].served
      /\ view.epoch = f.epoch => Len(view.seen) <= f.seq

\* An event is the next one after the frame before it, or after the cursor.
EventIsSound(i) ==
  LET f == channel[i]
  IN  /\ f.seq \in DOMAIN wrappers[f.epoch].entries
      /\ LeadsTo(f) = LeadsTo(wrappers[f.epoch].entries[f.seq])
      /\ IF i = 1 THEN f.epoch = tab.cursor.epoch /\ f.seq = tab.cursor.seq + 1
         ELSE channel[i - 1].kind # "moved" /\ f.seq = channel[i - 1].seq + 1

FrameIsSound(i) ==
  LET f == channel[i]
  IN  /\ f.epoch = channel[1].epoch /\ f.epoch \in DOMAIN wrappers
      /\ LeadsTo(f) \in wrappers[f.epoch].served \cup {0}
      /\ f.kind = "moved" => MoveIsSound(i)
      /\ f.kind = "snapshot" => SnapshotIsSound(i)
      /\ f.kind = "event" => EventIsSound(i)
      /\ f.kind # "moved" =>
           \A h \in 1..(i - 1) : channel[h].kind # "moved" => channel[h].seq <= f.seq

\* The runtime that sends has served the session displayed.
ChannelIsSound ==
  /\ channel # <<>> => view.sid \in wrappers[channel[1].epoch].served
  /\ \A i \in DOMAIN channel : FrameIsSound(i)

\* What is shown will be followed, once the snapshot has arrived.
Follows ==
  /\ \A i \in DOMAIN channel :
       channel[i].kind = "snapshot" => channel[i].sid = tab.sid \/ channel[1].kind = "moved"
  /\ Synced \/ \E i \in DOMAIN channel : channel[i].kind = "snapshot"

\* On a live connection everything published is on the way or has arrived.
ConnIsSound ==
  conn.epoch # 0 =>
    /\ conn.epoch \in DOMAIN wrappers /\ wrappers[conn.epoch].alive
    /\ view.sid \in wrappers[conn.epoch].served
    /\ IF channel = <<>>
       THEN conn.epoch = tab.cursor.epoch /\ tab.cursor.seq = Published(conn.epoch)
       ELSE /\ conn.epoch = channel[1].epoch
            /\ channel[Len(channel)].kind # "moved"
            /\ channel[Len(channel)].seq = Published(conn.epoch)
    /\ ~conn.stray /\ ~view.turned => Follows

\* b[i] is the baseline of the decoder before the i-th frame on the way; the last one
\* is that of the transport.  A delta builds on the baseline before it.
BasesAre(b) ==
  /\ b[1] = tab.base
  /\ \A i \in DOMAIN channel :
       /\ b[i + 1] = BaseAfter(b[i], channel[i].type, channel[i].seq)
       /\ channel[i].kind = "moved" => b[i] = 0
       /\ channel[i].delta \in (IF channel[i].kind = "event" THEN {0, b[i]} ELSE {0})
  /\ conn.epoch # 0 => b[Len(channel) + 1] = conn.base

DeltasAreSound == \E b \in [1..(Len(channel) + 1) -> Nat] : BasesAre(b)

StreamInv ==
  /\ TypeOK /\ RuntimesAreSound /\ TabIsSound /\ ChannelIsSound
  /\ ConnIsSound /\ DeltasAreSound

-----------------------------------------------------------------------------
\* Runtimes and their logs.

\* append() adds one record of the session served, and leaves the rest alone.
AddsOne(w, v, type) ==
  /\ v \in Wrapper
  /\ v.sid = w.sid /\ v.key = w.key /\ v.alive = w.alive /\ v.op = w.op
  /\ v.pending = w.pending /\ v.target = w.target /\ v.former = w.former /\ v.served = w.served
  /\ \E r \in Entry : /\ r.type = type /\ r.sid = w.sid
                      /\ v.entries = Append(w.entries, r)

LEMMA AppendedAddsOne ==
  ASSUME StreamAssumption, NEW w \in Wrapper, NEW type \in Types,
         NEW v \in Appended(w, type)
  PROVE  AddsOne(w, v, type)
<1> DEFINE n == Len(w.entries)
           D == IF type = "update" THEN {0, w.base} ELSE {0}
           O == {i \in w.oldest..(n + 2) : n - i + 2 <= MaxEvents}
<1>1. /\ w.entries \in Seq(Entry) /\ n \in Nat
      /\ w.oldest \in Nat /\ w.base \in Nat /\ w.sid \in Sid
  BY DEF Wrapper
<1>2. PICK d \in D, o \in O : v = Logged(w, type, d, o)
  BY DEF Appended
<1>3. n + 1 \in Nat /\ 0 \in Nat
  BY <1>1 DEF StreamAssumption
<1> DEFINE b == IF type = "update" THEN n + 1 ELSE IF type \in Resets THEN 0 ELSE w.base
           r == [type |-> type, sid |-> w.sid, delta |-> d]
<1>4. o \in Nat /\ (IF b < o THEN 0 ELSE b) \in Nat
  BY <1>1, <1>3
<1>5. r \in Entry
  BY <1>1, <1>3 DEF Entry
<1>6. Append(w.entries, r) \in Seq(Entry)
  BY <1>1, <1>5
<1>7. v = [w EXCEPT !.entries = Append(@, r), !.oldest = o, !.base = IF b < o THEN 0 ELSE b]
  BY <1>2 DEF Logged
<1> HIDE DEF b, r
<1>8. v \in Wrapper
  BY <1>4, <1>6, <1>7 DEF Wrapper
<1>9. /\ v.sid = w.sid /\ v.key = w.key /\ v.alive = w.alive /\ v.op = w.op
      /\ v.pending = w.pending /\ v.target = w.target /\ v.former = w.former
      /\ v.served = w.served /\ v.entries = Append(w.entries, r)
  BY <1>7 DEF Wrapper
<1>10. r.type = type /\ r.sid = w.sid
  BY DEF r
<1> QED
  BY <1>5, <1>8, <1>9, <1>10 DEF AddsOne

LEMMA NewWrapperIs ==
  ASSUME StreamAssumption, NEW s \in Sid
  PROVE  /\ NewWrapper(s) \in Wrapper /\ WrapperIsSound(NewWrapper(s))
         /\ NewWrapper(s).sid = s /\ NewWrapper(s).key = s /\ NewWrapper(s).alive
         /\ NewWrapper(s).pending = 0 /\ NewWrapper(s).entries = <<>>
         /\ NewWrapper(s).served = {s} /\ NewWrapper(s).op = "none"
<1>1. NewWrapper(s) = [sid |-> s, key |-> s, alive |-> TRUE, op |-> "none", pending |-> 0,
                       target |-> 0, former |-> {}, served |-> {s},
                       entries |-> <<>>, oldest |-> 1, base |-> 0]
  BY DEF NewWrapper
<1>2. <<>> \in Seq(Entry)
  OBVIOUS
<1>3. {s} \in SUBSET Sid /\ {} \in SUBSET Sid
  OBVIOUS
<1>4. NewWrapper(s) \in Wrapper
  BY <1>1, <1>2, <1>3 DEF Wrapper, StreamAssumption
<1>5. s \in Nat /\ s # 0
  BY DEF Sid, StreamAssumption
<1>6. WrapperIsSound(NewWrapper(s))
  BY <1>1, <1>5 DEF WrapperIsSound
<1> QED
  BY <1>1, <1>4, <1>6

\* What is left of a runtime: what it served and where its events led.
LEMMA GoneIs ==
  ASSUME StreamAssumption, NEW w \in Wrapper
  PROVE  /\ Gone(w) \in Wrapper
         /\ ~Gone(w).alive /\ Gone(w).op = "none" /\ Gone(w).pending = 0
         /\ Gone(w).served = w.served
         /\ Gone(w).entries = History(w) /\ Len(History(w)) = Len(w.entries)
         /\ DOMAIN History(w) = DOMAIN w.entries
         /\ \A k \in DOMAIN w.entries : LeadsTo(History(w)[k]) = LeadsTo(w.entries[k])
<1>1. w.entries \in Seq(Entry) /\ w.served \in SUBSET Sid
  BY DEF Wrapper
<1>2. \A k \in DOMAIN w.entries : w.entries[k] \in Entry
  BY <1>1
<1>3. /\ "closed" \in Types /\ "restored" \in Types /\ "closed" \notin Turns
      /\ "restored" \in Turns /\ 0 \in Nat /\ 1 \in Sid
  BY DEF Types, Turns, Sid, StreamAssumption
<1>4. DOMAIN w.entries = 1..Len(w.entries) /\ Len(w.entries) \in Nat
  BY <1>1
<1>5. /\ DOMAIN History(w) = DOMAIN w.entries
      /\ \A k \in DOMAIN w.entries :
           History(w)[k] = IF w.entries[k].type \in Turns
                           THEN [w.entries[k] EXCEPT !.type = "restored"]
                           ELSE [type |-> "closed", sid |-> 1, delta |-> 0]
  BY DEF History
<1>6. \A k \in DOMAIN w.entries :
        History(w)[k] \in Entry /\ LeadsTo(History(w)[k]) = LeadsTo(w.entries[k])
  <2> SUFFICES ASSUME NEW k \in DOMAIN w.entries
               PROVE  History(w)[k] \in Entry /\ LeadsTo(History(w)[k]) = LeadsTo(w.entries[k])
    OBVIOUS
  <2> DEFINE r == w.entries[k]  h == History(w)[k]
  <2>1. r \in Entry /\ h = IF r.type \in Turns THEN [r EXCEPT !.type = "restored"]
                           ELSE [type |-> "closed", sid |-> 1, delta |-> 0]
    BY <1>2, <1>5
  <2> HIDE DEF r, h
  <2>2. CASE r.type \in Turns
    <3>1. h \in Entry /\ h.type = "restored" /\ h.sid = r.sid
      BY <1>3, <2>1, <2>2 DEF Entry
    <3> QED
      BY <1>3, <2>2, <3>1 DEF LeadsTo, r, h
  <2>3. CASE r.type \notin Turns
    <3>1. h \in Entry /\ h.type = "closed"
      BY <1>3, <2>1, <2>3 DEF Entry
    <3> QED
      BY <1>3, <2>3, <3>1 DEF LeadsTo, r, h
  <2> QED
    BY <2>2, <2>3
<1>7. History(w) \in [1..Len(w.entries) -> Entry]
  BY <1>4, <1>5, <1>6 DEF History
<1>8. History(w) \in Seq(Entry) /\ Len(History(w)) = Len(w.entries)
  BY <1>4, <1>7
<1> DEFINE o == Len(w.entries) + 1  h == History(w)  z == w.served
<1>9. o \in Nat /\ h \in Seq(Entry) /\ z \in SUBSET Sid
  BY <1>1, <1>4, <1>8
<1> DEFINE m == NewWrapper(1)
<1>14. m = [sid |-> 1, key |-> 1, alive |-> TRUE, op |-> "none", pending |-> 0,
            target |-> 0, former |-> {}, served |-> {1}, entries |-> <<>>, oldest |-> 1,
            base |-> 0]
  BY DEF NewWrapper
<1>15. Gone(w) = [m EXCEPT !.alive = FALSE, !.oldest = o, !.served = z, !.entries = h]
  BY DEF Gone
<1> HIDE DEF m, o, h, z
<1>10. Gone(w) = [sid |-> 1, key |-> 1, alive |-> FALSE, op |-> "none", pending |-> 0,
                  target |-> 0, former |-> {}, served |-> z, entries |-> h, oldest |-> o,
                  base |-> 0]
  BY <1>14, <1>15
<1>11. {} \in SUBSET Sid
  OBVIOUS
<1>12. Gone(w) \in Wrapper
  BY <1>3, <1>9, <1>10, <1>11 DEF Wrapper
<1>13. /\ ~Gone(w).alive /\ Gone(w).op = "none" /\ Gone(w).pending = 0
       /\ Gone(w).served = z /\ Gone(w).entries = h
  BY <1>10
<1> QED
  BY <1>5, <1>6, <1>8, <1>12, <1>13 DEF h, z

\* What a step may make of a runtime: sessions and events are added.
Grown(w, v) ==
  /\ w.served \subseteq v.served
  /\ Len(w.entries) <= Len(v.entries)
  /\ \A k \in DOMAIN w.entries : LeadsTo(v.entries[k]) = LeadsTo(w.entries[k])

LEMMA GrownIfSame ==
  ASSUME NEW w \in Wrapper, NEW v \in Wrapper, v.entries = w.entries, w.served \subseteq v.served
  PROVE  Grown(w, v)
<1>1. w.entries \in Seq(Entry)
  BY DEF Wrapper
<1>2. Len(w.entries) <= Len(v.entries)
  BY <1>1
<1> QED
  BY <1>2 DEF Grown

\* Where an event of this type, of session s, leads.
Leading(type, s) == IF type \in Turns THEN s ELSE 0

\* An event is published by `from`, which has the log of the runtime w before the step;
\* the step leaves v.
Logs(w, from, v, type) ==
  /\ v \in Wrapper /\ v.alive = from.alive /\ v.served = from.served
  /\ v.alive => AddsOne(from, v, type)
  /\ ~v.alive => v.op = "none" /\ v.pending = 0
  /\ Len(v.entries) = Len(w.entries) + 1
  /\ \A k \in DOMAIN w.entries : LeadsTo(v.entries[k]) = LeadsTo(w.entries[k])
  /\ LeadsTo(v.entries[Len(w.entries) + 1]) = Leading(type, from.sid)

EventOf(e, n, type, s, d) ==
  [kind |-> "event", epoch |-> e, seq |-> n, type |-> type, sid |-> s, delta |-> d]

\* It is sent on its connection, and a last one closes that.
Sends(e, n, type, s) ==
  IF conn.epoch # e THEN conn' = conn /\ channel' = channel
  ELSE \E d \in {0, conn.base} :
         /\ channel' = Append(channel, EventOf(e, n, type, s, d))
         /\ conn' = IF type \in Last THEN NoConn
                    ELSE [conn EXCEPT !.base = BaseAfter(@, type, n)]

LEMMA PublishIs ==
  ASSUME StreamAssumption, TypeOK, NEW e \in DOMAIN wrappers, NEW from \in Wrapper,
         from.entries = wrappers[e].entries, NEW type \in Types, Publish(e, from, type)
  PROVE  /\ wrappers' \in Seq(Wrapper) /\ DOMAIN wrappers' = DOMAIN wrappers
         /\ \A d \in DOMAIN wrappers \ {e} : wrappers'[d] = wrappers[d]
         /\ Logs(wrappers[e], from, wrappers'[e], type)
         /\ Sends(e, Len(wrappers[e].entries) + 1, type, from.sid)
<1> DEFINE w == wrappers[e]  n == Len(w.entries) + 1
<1>1. wrappers \in Seq(Wrapper) /\ conn.base \in Nat
  BY DEF TypeOK
<1>2. w \in Wrapper
  BY <1>1
<1>3. w.entries \in Seq(Entry)
  BY <1>2 DEF Wrapper
<1>5. PICK u \in Appended(from, type) :
        /\ wrappers' = [wrappers EXCEPT ![e] = IF u.alive THEN u ELSE Gone(u)]
        /\ Deliver(e, u, Len(u.entries))
  BY DEF Publish
<1>6. AddsOne(from, u, type)
  BY AppendedAddsOne
<1>7. PICK r \in Entry : r.type = type /\ r.sid = from.sid /\ u.entries = Append(w.entries, r)
  BY <1>6 DEF AddsOne
<1>8. /\ Len(u.entries) = n /\ n \in Nat /\ n - 1 = Len(w.entries)
      /\ u.entries[n] = r /\ DOMAIN u.entries = 1..n /\ DOMAIN w.entries = 1..(n - 1)
      /\ \A k \in DOMAIN w.entries : u.entries[k] = w.entries[k]
  BY <1>3, <1>7, AppendProperties
<1>9. u \in Wrapper /\ u.alive = from.alive /\ u.sid = from.sid /\ u.served = from.served
  BY <1>6 DEF AddsOne
<1>4. LeadsTo(r) = Leading(type, from.sid)
  BY <1>7 DEF LeadsTo, Leading
<1> DEFINE v == IF u.alive THEN u ELSE Gone(u)
<1>10. Logs(w, from, v, type)
  <2> HIDE DEF w, n
  <2>1. CASE u.alive
    <3>1. v = u
      BY <2>1
    <3>2. /\ LeadsTo(u.entries[Len(w.entries) + 1]) = Leading(type, from.sid)
          /\ Len(u.entries) = Len(w.entries) + 1
      BY <1>4, <1>8 DEF n
    <3>3. \A k \in DOMAIN w.entries : LeadsTo(u.entries[k]) = LeadsTo(w.entries[k])
      BY <1>8
    <3> HIDE DEF v
    <3> QED
      BY <1>6, <1>9, <2>1, <3>1, <3>2, <3>3 DEF Logs
  <2>2. CASE ~u.alive
    <3>1. /\ v \in Wrapper /\ ~v.alive /\ v.op = "none" /\ v.pending = 0 /\ v.served = u.served
          /\ v.entries = History(u) /\ Len(History(u)) = n
          /\ \A k \in DOMAIN u.entries : LeadsTo(History(u)[k]) = LeadsTo(u.entries[k])
      BY <1>8, <1>9, <2>2, GoneIs
    <3>2. \A k \in DOMAIN w.entries : k \in DOMAIN u.entries
      BY <1>8
    <3>3. n \in DOMAIN u.entries
      BY <1>8
    <3> HIDE DEF v
    <3>4. v.alive = from.alive
      <4>1. v.alive \in BOOLEAN /\ from.alive \in BOOLEAN /\ u.alive \in BOOLEAN
        BY <1>9, <3>1 DEF Wrapper
      <4> QED
        BY <1>9, <2>2, <3>1, <4>1
    <3>5. \A k \in DOMAIN w.entries : LeadsTo(v.entries[k]) = LeadsTo(w.entries[k])
      BY <1>8, <3>1, <3>2
    <3>6. LeadsTo(v.entries[n]) = Leading(type, from.sid)
      BY <1>4, <1>8, <3>1, <3>3
    <3> QED
      BY <1>9, <3>1, <3>4, <3>5, <3>6 DEF Logs, n
  <2> QED
    BY <2>1, <2>2
<1>11. v \in Wrapper /\ wrappers' = [wrappers EXCEPT ![e] = v]
  BY <1>5, <1>10 DEF Logs
<1>12. Sends(e, n, type, from.sid)
  <2> HIDE DEF w, n
  <2>1. Deliver(e, u, n)
    BY <1>5, <1>8
  <2>2. CASE conn.epoch # e
    BY <2>1, <2>2 DEF Deliver, Sends
  <2>3. CASE conn.epoch = e
    <3> DEFINE f == EventFrame(e, u, n, conn.deltas, conn.base)
    <3>1. PICK d \in {0, conn.base} : f = EventOf(e, n, type, from.sid, d)
      <4>1. f = EventOf(e, n, r.type, r.sid,
                        IF conn.deltas /\ r.delta = conn.base THEN r.delta ELSE 0)
        BY <1>8 DEF EventFrame, EventOf
      <4> QED
        BY <1>7, <4>1
    <3>2. /\ channel' = Append(channel, f)
          /\ conn' = IF f.type \in Last THEN NoConn
                     ELSE [conn EXCEPT !.base = BaseAfter(@, f.type, n)]
      BY <2>1, <2>3 DEF Deliver
    <3>3. f.type = type
      BY <3>1 DEF EventOf
    <3> QED
      BY <2>3, <3>1, <3>2, <3>3 DEF Sends
  <2> QED
    BY <2>2, <2>3
<1> HIDE DEF v
<1>13. wrappers'[e] = v
  BY <1>1, <1>11
<1> QED
  BY <1>1, <1>10, <1>11, <1>12, <1>13

-----------------------------------------------------------------------------
\* Steps of the runtimes.

\* Publishing keeps a runtime sound, if `from` is sound with the log as it was and has
\* served the session that the event leads to.
LEMMA SoundByLogs ==
  ASSUME NEW w \in Wrapper, NEW from \in Wrapper, NEW v \in Wrapper,
         NEW type \in Types, Logs(w, from, v, type), from.entries = w.entries,
         WrapperIsSound(from), type \in Turns => from.sid \in from.served
  PROVE  WrapperIsSound(v)
<1>1. \A k \in DOMAIN v.entries : LeadsTo(v.entries[k]) \in v.served \cup {0}
  <2> SUFFICES ASSUME NEW k \in DOMAIN v.entries PROVE LeadsTo(v.entries[k]) \in v.served \cup {0}
    OBVIOUS
  <2>1. v.served = from.served
    BY DEF Logs
  <2>2. w.entries \in Seq(Entry) /\ v.entries \in Seq(Entry)
    BY DEF Wrapper
  <2>3. Len(v.entries) = Len(w.entries) + 1
    BY DEF Logs
  <2>4. k \in DOMAIN w.entries \/ k = Len(w.entries) + 1
    BY <2>2, <2>3
  <2>5. CASE k \in DOMAIN w.entries
    BY <2>1, <2>5 DEF Logs, WrapperIsSound
  <2>6. CASE k = Len(w.entries) + 1
    BY <2>1, <2>6 DEF Logs, Leading
  <2> QED
    BY <2>4, <2>5, <2>6
<1>2. CASE v.alive
  <2>1. from.alive /\ AddsOne(from, v, type)
    BY <1>2 DEF Logs
  <2>2. /\ v.sid = from.sid /\ v.key = from.key /\ v.op = from.op /\ v.pending = from.pending
        /\ v.target = from.target /\ v.former = from.former /\ v.served = from.served
    BY <2>1 DEF AddsOne
  <2> QED
    BY <1>1, <2>1, <2>2 DEF WrapperIsSound
<1>3. CASE ~v.alive
  BY <1>1, <1>3 DEF WrapperIsSound, Logs
<1> QED
  BY <1>2, <1>3

LEMMA GrownByLogs ==
  ASSUME NEW w \in Wrapper, NEW from \in Wrapper, NEW v, NEW type,
         Logs(w, from, v, type), w.served \subseteq from.served
  PROVE  Grown(w, v)
<1>1. w.entries \in Seq(Entry)
  BY DEF Wrapper
<1>2. Len(w.entries) <= Len(v.entries)
  BY <1>1 DEF Logs
<1> QED
  BY <1>2 DEF Logs, Grown

\* What the lemmas about steps of the runtimes have in common.
Grow == \A e \in DOMAIN wrappers : e \in DOMAIN wrappers' /\ Grown(wrappers[e], wrappers'[e])

ServerStep ==
  /\ StreamInv /\ StreamAssumption /\ Grow /\ wrappers' \in Seq(Wrapper)
  /\ UNCHANGED <<tab, view>>

LEMMA RuntimesTyped ==
  ASSUME StreamAssumption, NEW ws \in Seq(Wrapper), NEW e \in DOMAIN ws
  PROVE  /\ ws[e] \in Wrapper /\ ws[e].entries \in Seq(Entry)
         /\ ws[e].sid \in Sid /\ ws[e].key \in Sid /\ ws[e].pending \in Sid \cup {0}
         /\ ws[e].served \in SUBSET Sid
         /\ Len(ws[e].entries) \in Nat /\ e \in Nat /\ e # 0
<1>1. ws[e] \in Wrapper /\ e \in Nat /\ e # 0
  OBVIOUS
<1>2. /\ ws[e].sid \in Sid /\ ws[e].key \in Sid /\ ws[e].served \in SUBSET Sid
      /\ ws[e].pending \in Sid \cup {0} /\ ws[e].entries \in Seq(Entry)
  BY <1>1 DEF Wrapper
<1>3. Len(ws[e].entries) \in Nat
  BY <1>2
<1> QED
  BY <1>1, <1>2, <1>3

LEMMA StateTyped ==
  ASSUME TypeOK
  PROVE  /\ wrappers \in Seq(Wrapper) /\ conn.epoch \in Nat /\ conn.base \in Nat
         /\ conn.stray \in BOOLEAN
         /\ channel \in Seq(Frame) /\ Len(channel) \in Nat /\ DOMAIN channel = 1..Len(channel)
         /\ tab.cursor.epoch \in Nat /\ tab.cursor.seq \in Nat /\ tab.base \in Nat
         /\ tab.sid \in Sid /\ view.sid \in Sid /\ view.epoch \in Nat
         /\ view.seen \in Seq(Nat) /\ Len(view.seen) \in Nat /\ view.turned \in BOOLEAN
<1>1. tab.cursor \in Cursor /\ tab.sid \in Sid /\ tab.base \in Nat
  BY DEF TypeOK
<1>2. view.sid \in Sid /\ view.epoch \in Nat /\ view.seen \in Seq(Nat) /\ view.turned \in BOOLEAN
  BY DEF TypeOK
<1>3. Len(view.seen) \in Nat
  BY <1>2
<1>4. /\ wrappers \in Seq(Wrapper) /\ conn.epoch \in Nat /\ conn.base \in Nat
      /\ conn.stray \in BOOLEAN
  BY DEF TypeOK
<1>5. channel \in Seq(Frame)
  BY DEF TypeOK
<1>6. Len(channel) \in Nat /\ DOMAIN channel = 1..Len(channel)
  BY <1>5
<1> QED
  BY <1>1, <1>2, <1>3, <1>4, <1>5, <1>6 DEF Cursor

LEMMA FrameTyped ==
  ASSUME StreamAssumption, TypeOK, NEW i \in DOMAIN channel
  PROVE  /\ channel[i] \in Frame /\ channel[i].epoch \in Nat
         /\ channel[i].seq \in Nat /\ channel[i].delta \in Nat
         /\ channel[i].sid \in Sid /\ channel[i].type \in Types
         /\ channel[i].kind \in {"event", "snapshot", "moved"}
<1>1. channel[i] \in Frame
  BY StateTyped
<1> QED
  BY <1>1 DEF Frame

\* What a step of the runtimes keeps: the facts about one of them.
LEMMA RuntimeStays ==
  ASSUME ServerStep, NEW e \in DOMAIN wrappers
  PROVE  /\ e \in DOMAIN wrappers'
         /\ Len(wrappers[e].entries) \in Nat /\ Len(wrappers'[e].entries) \in Nat
         /\ Len(wrappers[e].entries) <= Len(wrappers'[e].entries)
         /\ DOMAIN wrappers[e].entries = 1..Len(wrappers[e].entries)
         /\ DOMAIN wrappers'[e].entries = 1..Len(wrappers'[e].entries)
         /\ wrappers[e].served \subseteq wrappers'[e].served
         /\ \A k \in DOMAIN wrappers[e].entries :
              LeadsTo(wrappers'[e].entries[k]) = LeadsTo(wrappers[e].entries[k])
<1>1. TypeOK /\ StreamAssumption /\ wrappers' \in Seq(Wrapper)
  BY DEF ServerStep, StreamInv
<1>2. e \in DOMAIN wrappers' /\ Grown(wrappers[e], wrappers'[e])
  BY DEF ServerStep, Grow
<1>3. wrappers[e].entries \in Seq(Entry)
  BY <1>1, StateTyped, RuntimesTyped
<1>4. wrappers'[e].entries \in Seq(Entry)
  BY <1>1, <1>2, RuntimesTyped
<1>5. /\ Len(wrappers[e].entries) \in Nat /\ Len(wrappers'[e].entries) \in Nat
      /\ DOMAIN wrappers[e].entries = 1..Len(wrappers[e].entries)
      /\ DOMAIN wrappers'[e].entries = 1..Len(wrappers'[e].entries)
  BY <1>3, <1>4
<1> QED
  BY <1>2, <1>5 DEF Grown

\* The tab does not move.
LEMMA TabStays ==
  ASSUME ServerStep, es' \in {es, "open"}, es' # "open" => conn' = NoConn /\ channel' = <<>>
  PROVE  TabIsSound'
<1>1. TypeOK /\ TabIsSound /\ UNCHANGED <<tab, view>>
  BY DEF ServerStep, StreamInv
<1>2. tab.cursor.seq \in Nat
  BY <1>1, StateTyped
<1>3. /\ es' = "requested" => ~view.turned /\ tab.base = 0
      /\ ~view.turned => view.sid = tab.sid
      /\ view.epoch = 0 => view.seen = <<>>
  BY <1>1 DEF TabIsSound
<1>4. ASSUME view.epoch # 0
      PROVE  /\ view.epoch \in DOMAIN wrappers'
             /\ \E n \in 0..Len(wrappers'[view.epoch].entries) : view.seen = Feed!UpTo(n)
  <2>1. PICK n \in 0..Len(wrappers[view.epoch].entries) : view.seen = Feed!UpTo(n)
    BY <1>1, <1>4 DEF TabIsSound, Published
  <2>2. view.epoch \in DOMAIN wrappers
    BY <1>1, <1>4 DEF TabIsSound
  <2>3. view.epoch \in DOMAIN wrappers' /\ n \in 0..Len(wrappers'[view.epoch].entries)
    BY <2>2, RuntimeStays
  <2> QED
    BY <2>1, <2>3
<1>5. ASSUME tab.cursor.epoch # 0
      PROVE  /\ tab.cursor.epoch \in DOMAIN wrappers'
             /\ tab.cursor.seq <= Len(wrappers'[tab.cursor.epoch].entries)
             /\ Synced \/ view.epoch = 0
  <2>1. /\ tab.cursor.epoch \in DOMAIN wrappers
        /\ tab.cursor.seq <= Len(wrappers[tab.cursor.epoch].entries)
        /\ Synced \/ view.epoch = 0
    BY <1>1, <1>5 DEF TabIsSound, Published
  <2>2. /\ tab.cursor.epoch \in DOMAIN wrappers'
        /\ tab.cursor.seq <= Len(wrappers'[tab.cursor.epoch].entries)
    BY <1>2, <2>1, RuntimeStays
  <2> QED
    BY <2>1, <2>2
<1> QED
  BY <1>1, <1>3, <1>4, <1>5 DEF TabIsSound, Published, Synced

\* A frame on the way stays sound while frames are added behind it.
LEMMA FrameStays ==
  ASSUME ServerStep, NEW i \in DOMAIN channel, channel' \in Seq(Frame),
         Len(channel) <= Len(channel'), \A h \in DOMAIN channel : channel'[h] = channel[h]
  PROVE  FrameIsSound(i)'
<1>1. TypeOK /\ StreamAssumption /\ FrameIsSound(i) /\ UNCHANGED <<tab, view>>
  BY DEF ServerStep, StreamInv, ChannelIsSound
<1> DEFINE f == channel[i]
<1>2. f.seq \in Nat /\ f.kind \in {"event", "snapshot", "moved"}
  BY <1>1, FrameTyped
<1>3. channel \in Seq(Frame) /\ i \in 1..Len(channel) /\ Len(channel) \in Nat
  BY <1>1, StateTyped
<1>4. channel'[i] = f /\ channel'[1] = channel[1]
  BY <1>3
<1>5. f.epoch = channel[1].epoch /\ f.epoch \in DOMAIN wrappers
  BY <1>1 DEF FrameIsSound
<1> DEFINE w == wrappers[f.epoch]  v == wrappers'[f.epoch]
<1>6. /\ f.epoch \in DOMAIN wrappers'
      /\ Len(w.entries) \in Nat /\ Len(v.entries) \in Nat
      /\ Len(w.entries) <= Len(v.entries)
      /\ DOMAIN w.entries = 1..Len(w.entries) /\ DOMAIN v.entries = 1..Len(v.entries)
      /\ w.served \subseteq v.served
      /\ \A k \in DOMAIN w.entries : LeadsTo(v.entries[k]) = LeadsTo(w.entries[k])
  BY <1>5, RuntimeStays
<1> HIDE DEF w, v, f
<1>7. LeadsTo(f) \in v.served \cup {0}
  BY <1>1, <1>6 DEF FrameIsSound, f, w
<1>8. ASSUME f.kind = "moved" PROVE MoveIsSound(i)'
  <2>1. MoveIsSound(i)
    BY <1>1, <1>8 DEF FrameIsSound, f
  <2> QED
    BY <1>1, <1>3, <1>4, <2>1 DEF MoveIsSound, f
<1>9. ASSUME f.kind = "snapshot" PROVE SnapshotIsSound(i)'
  <2>1. SnapshotIsSound(i)
    BY <1>1, <1>9 DEF FrameIsSound, f
  <2>2. /\ f.type = "snapshot" /\ f.seq <= Len(w.entries) /\ f.sid \in w.served
        /\ view.epoch = f.epoch => Len(view.seen) <= f.seq
    BY <2>1 DEF SnapshotIsSound, Published, f, w
  <2>3. f.seq <= Len(v.entries) /\ f.sid \in v.served
    BY <1>2, <1>6, <2>2
  <2>4. channel'[i] = f /\ UNCHANGED view
    BY <1>1, <1>4
  <2> QED
    BY <2>2, <2>3, <2>4 DEF SnapshotIsSound, Published, v
<1>10. ASSUME f.kind = "event" PROVE EventIsSound(i)'
  <2>1. EventIsSound(i)
    BY <1>1, <1>10 DEF FrameIsSound, f
  <2>2. /\ f.seq \in DOMAIN w.entries /\ LeadsTo(f) = LeadsTo(w.entries[f.seq])
        /\ IF i = 1 THEN f.epoch = tab.cursor.epoch /\ f.seq = tab.cursor.seq + 1
           ELSE channel[i - 1].kind # "moved" /\ f.seq = channel[i - 1].seq + 1
    BY <2>1 DEF EventIsSound, f, w
  <2>3. f.seq \in DOMAIN v.entries /\ LeadsTo(f) = LeadsTo(v.entries[f.seq])
    BY <1>6, <2>2
  <2>4. i # 1 => channel'[i - 1] = channel[i - 1]
    BY <1>3
  <2>5. channel'[i] = f /\ UNCHANGED tab
    BY <1>1, <1>4
  <2> QED
    BY <2>2, <2>3, <2>4, <2>5 DEF EventIsSound, v
<1>11. f.kind # "moved" =>
         \A h \in 1..(i - 1) : channel'[h].kind # "moved" => channel'[h].seq <= f.seq
  <2>1. \A h \in 1..(i - 1) : channel'[h] = channel[h]
    BY <1>3
  <2> QED
    BY <1>1, <2>1 DEF FrameIsSound, f
<1> QED
  BY <1>4, <1>5, <1>6, <1>7, <1>8, <1>9, <1>10, <1>11 DEF FrameIsSound, v

\* Nothing is sent: the channel stays as it is, and the connection too or is dropped.
LEMMA LineStays ==
  ASSUME ServerStep, channel' = channel, conn' \in {conn, NoConn},
         conn'.epoch # 0 => /\ wrappers'[conn.epoch].alive
                            /\ Len(wrappers'[conn.epoch].entries)
                                 = Len(wrappers[conn.epoch].entries)
  PROVE  ChannelIsSound' /\ ConnIsSound' /\ DeltasAreSound'
<1>1. /\ TypeOK /\ ChannelIsSound /\ ConnIsSound /\ DeltasAreSound
      /\ StreamAssumption /\ UNCHANGED <<tab, view>>
  BY DEF ServerStep, StreamInv
<1>2. channel' \in Seq(Frame) /\ channel \in Seq(Frame) /\ Len(channel) \in Nat
  BY <1>1, StateTyped
<1>3. ChannelIsSound'
  <2>1. ASSUME NEW i \in DOMAIN channel' PROVE FrameIsSound(i)'
    BY <1>2, FrameStays
  <2>2. ASSUME channel # <<>> PROVE view.sid \in wrappers'[channel[1].epoch].served
    <3>1. 1 \in DOMAIN channel
      BY <1>2, <2>2
    <3>2. channel[1].epoch \in DOMAIN wrappers /\ view.sid \in wrappers[channel[1].epoch].served
      BY <1>1, <2>2, <3>1 DEF ChannelIsSound, FrameIsSound
    <3> QED
      BY <3>2, RuntimeStays
  <2> QED
    BY <1>1, <2>1, <2>2 DEF ChannelIsSound
<1>4. ConnIsSound'
  <2> SUFFICES ASSUME conn'.epoch # 0 PROVE ConnIsSound'
    BY DEF ConnIsSound
  <2>1. conn' = conn
    BY DEF NoConn
  <2>2. conn.epoch \in DOMAIN wrappers /\ view.sid \in wrappers[conn.epoch].served
    BY <1>1, <2>1 DEF ConnIsSound
  <2>3. conn.epoch \in DOMAIN wrappers' /\ view.sid \in wrappers'[conn.epoch].served
    BY <2>2, RuntimeStays
  <2>4. IF channel = <<>>
        THEN conn.epoch = tab.cursor.epoch
             /\ tab.cursor.seq = Len(wrappers'[conn.epoch].entries)
        ELSE /\ conn.epoch = channel[1].epoch
             /\ channel[Len(channel)].kind # "moved"
             /\ channel[Len(channel)].seq = Len(wrappers'[conn.epoch].entries)
    BY <1>1, <2>1 DEF ConnIsSound, Published
  <2>5. ~conn'.stray /\ ~view'.turned => Follows'
    BY <1>1, <2>1 DEF ConnIsSound, Follows, Synced
  <2> QED
    BY <1>1, <2>1, <2>3, <2>4, <2>5 DEF ConnIsSound, Published
<1>5. DeltasAreSound'
  <2>1. PICK b \in [1..(Len(channel) + 1) -> Nat] : BasesAre(b)
    BY <1>1 DEF DeltasAreSound
  <2>2. conn'.epoch # 0 => conn' = conn
    BY DEF NoConn
  <2>3. BasesAre(b)'
    BY <1>1, <2>1, <2>2 DEF BasesAre
  <2> QED
    BY <2>1, <2>3 DEF DeltasAreSound
<1> QED
  BY <1>3, <1>4, <1>5

\* The event just published is sent behind what is on the way.
LEMMA LineGrows ==
  ASSUME ServerStep, NEW e \in DOMAIN wrappers, conn.epoch = e,
         NEW type \in Types, NEW s \in Sid, NEW d \in {0, conn.base}, NEW n \in Nat,
         NEW m \in Nat, m = Len(channel), n = Len(wrappers[e].entries) + 1,
         Len(wrappers'[e].entries) = n,
         LeadsTo(wrappers'[e].entries[n]) = Leading(type, s),
         wrappers'[e].alive \/ type \in Last,
         type \in Turns => s \in wrappers'[e].served,
         channel' = Append(channel, EventOf(e, n, type, s, d)),
         conn' = IF type \in Last THEN NoConn
                 ELSE [conn EXCEPT !.base = BaseAfter(@, type, n)]
  PROVE  channel' \in Seq(Frame) /\ ChannelIsSound' /\ ConnIsSound' /\ DeltasAreSound'
<1> DEFINE f == EventOf(e, n, type, s, d)
<1>1. /\ TypeOK /\ ChannelIsSound /\ ConnIsSound /\ DeltasAreSound
      /\ StreamAssumption /\ UNCHANGED <<tab, view>>
  BY DEF ServerStep, StreamInv
<1>2. /\ channel \in Seq(Frame) /\ DOMAIN channel = 1..m /\ conn.base \in Nat
      /\ wrappers \in Seq(Wrapper) /\ m \in Nat
  BY <1>1, StateTyped
<1>3. e \in Nat /\ e # 0 /\ d \in Nat
  BY <1>1, <1>2, RuntimesTyped
<1>4. /\ f.kind = "event" /\ f.epoch = e /\ f.seq = n /\ f.type = type /\ f.sid = s
      /\ f.delta = d /\ f \in Frame /\ LeadsTo(f) = Leading(type, s)
  BY <1>3 DEF EventOf, Frame, LeadsTo, Leading
<1> HIDE DEF f
<1>5. /\ channel' \in Seq(Frame) /\ channel' # <<>> /\ Len(channel') = m + 1
      /\ \A i \in 1..m : channel'[i] = channel[i]
      /\ channel'[m + 1] = f /\ DOMAIN channel' = 1..(m + 1)
  <2>1. channel' = Append(channel, f)
    BY DEF f
  <2> QED
    BY <1>2, <1>4, <2>1, AppendProperties
<1>6. channel # <<>> => m # 0 /\ channel'[1] = channel[1] /\ 1 \in DOMAIN channel
  BY <1>2, <1>5
<1>7. e \in DOMAIN wrappers' /\ DOMAIN wrappers'[e].entries = 1..n
      /\ wrappers[e].served \subseteq wrappers'[e].served
  BY RuntimeStays
<1>8. /\ view.sid \in wrappers[e].served
      /\ IF channel = <<>>
         THEN e = tab.cursor.epoch /\ tab.cursor.seq + 1 = n
         ELSE e = channel[1].epoch /\ channel[m].kind # "moved" /\ n = channel[m].seq + 1
  BY <1>1, <1>3 DEF ConnIsSound, Published
<1>9. ASSUME NEW i \in 1..m PROVE FrameIsSound(i)'
  <2>1. i \in DOMAIN channel
    BY <1>2
  <2>2. Len(channel) <= Len(channel')
    BY <1>2, <1>5
  <2>3. \A h \in DOMAIN channel : channel'[h] = channel[h]
    BY <1>2, <1>5
  <2> QED
    BY <1>5, <2>1, <2>2, <2>3, FrameStays
<1>10. e = channel'[1].epoch
  <2>1. CASE channel = <<>>
    <3>1. m = 0
      BY <1>2, <2>1
    <3> QED
      BY <1>4, <1>5, <3>1
  <2>2. CASE channel # <<>>
    BY <1>6, <1>8, <2>2
  <2> QED
    BY <2>1, <2>2
<1>11. FrameIsSound(m + 1)'
  <2>1. EventIsSound(m + 1)'
    <3>1. /\ f.seq \in DOMAIN wrappers'[f.epoch].entries
          /\ LeadsTo(f) = LeadsTo(wrappers'[f.epoch].entries[f.seq])
      BY <1>4, <1>7
    <3>2. CASE channel = <<>>
      <4>1. m = 0 /\ UNCHANGED tab.cursor
        BY <1>1, <1>2, <3>2
      <4> QED
        BY <1>4, <1>5, <1>8, <3>1, <3>2, <4>1 DEF EventIsSound
    <3>3. CASE channel # <<>>
      <4>1. m + 1 # 1 /\ (m + 1) - 1 = m /\ m \in 1..m
        BY <1>2, <3>3
      <4>2. channel'[(m + 1) - 1] = channel[m]
        BY <1>5, <4>1
      <4> QED
        BY <1>4, <1>5, <1>8, <3>1, <3>3, <4>1, <4>2 DEF EventIsSound
    <3> QED
      BY <3>2, <3>3
  <2>2. ASSUME NEW h \in 1..m, channel[h].kind # "moved" PROVE channel[h].seq <= n
    <3>1. h \in DOMAIN channel /\ FrameIsSound(h)
      BY <1>1, <1>2 DEF ChannelIsSound
    <3>2. channel[h].epoch = e
      <4>1. channel # <<>>
        BY <1>2
      <4> QED
        BY <1>8, <3>1, <4>1 DEF FrameIsSound
    <3>3. channel[h].kind \in {"event", "snapshot", "moved"} /\ channel[h].seq \in Nat
      BY <1>1, <3>1, FrameTyped
    <3>4. /\ Len(wrappers[e].entries) \in Nat
          /\ DOMAIN wrappers[e].entries = 1..Len(wrappers[e].entries)
      BY RuntimeStays
    <3>5. channel[h].seq <= Len(wrappers[e].entries)
      <4>1. CASE channel[h].kind = "event"
        <5>1. channel[h].seq \in DOMAIN wrappers[e].entries
          BY <3>1, <3>2, <4>1 DEF FrameIsSound, EventIsSound
        <5> QED
          BY <3>4, <5>1
      <4>2. CASE channel[h].kind = "snapshot"
        BY <3>1, <3>2, <4>2 DEF FrameIsSound, SnapshotIsSound, Published
      <4> QED
        BY <2>2, <3>3, <4>1, <4>2
    <3> QED
      BY <3>3, <3>4, <3>5
  <2>3. \A h \in 1..((m + 1) - 1) : channel'[h].kind # "moved" => channel'[h].seq <= f.seq
    <3>1. \A h \in 1..m : channel'[h].kind # "moved" => channel'[h].seq <= n
      BY <1>5, <2>2
    <3> QED
      BY <1>2, <1>4, <3>1
  <2>4. LeadsTo(f) \in wrappers'[e].served \cup {0}
    BY <1>4 DEF Leading
  <2> QED
    BY <1>4, <1>5, <1>7, <1>10, <2>1, <2>3, <2>4 DEF FrameIsSound
<1>12. ChannelIsSound'
  <2>1. ASSUME NEW i \in DOMAIN channel' PROVE FrameIsSound(i)'
    <3>1. i \in 1..m \/ i = m + 1
      BY <1>2, <1>5
    <3> QED
      BY <1>9, <1>11, <3>1
  <2>2. view'.sid \in wrappers'[channel'[1].epoch].served
    BY <1>1, <1>7, <1>8, <1>10
  <2> QED
    BY <2>1, <2>2 DEF ChannelIsSound
<1>13. ConnIsSound'
  <2> SUFFICES ASSUME conn'.epoch # 0 PROVE ConnIsSound'
    BY DEF ConnIsSound
  <2>1. type \notin Last
    BY DEF NoConn
  <2>2. conn'.epoch = e /\ wrappers'[e].alive /\ conn'.stray = conn.stray
    <3>1. conn \in [epoch : Nat, deltas : BOOLEAN, base : Nat, stray : BOOLEAN]
      BY <1>1 DEF TypeOK
    <3> QED
      BY <2>1, <3>1
  <2>3. channel'[Len(channel')].kind # "moved" /\ channel'[Len(channel')].seq = n
    BY <1>4, <1>5
  <2>4. view'.sid \in wrappers'[e].served
    BY <1>1, <1>7, <1>8
  <2>5. ASSUME ~conn'.stray, ~view'.turned PROVE Follows'
    <3>1. Follows
      BY <1>1, <1>3, <2>2, <2>5 DEF ConnIsSound
    <3>2. ASSUME NEW i \in DOMAIN channel', channel'[i].kind = "snapshot"
          PROVE  channel'[i].sid = tab.sid \/ channel'[1].kind = "moved"
      <4>1. i # m + 1
        BY <1>4, <1>5, <3>2
      <4>2. i \in 1..m
        BY <1>2, <1>5, <4>1
      <4>3. i \in DOMAIN channel /\ channel'[i] = channel[i] /\ channel # <<>>
        BY <1>2, <1>5, <4>2
      <4> QED
        BY <1>6, <3>1, <3>2, <4>3 DEF Follows
    <3>3. ASSUME NEW i \in DOMAIN channel, channel[i].kind = "snapshot"
          PROVE  i \in DOMAIN channel' /\ channel'[i].kind = "snapshot"
      BY <1>2, <1>5, <3>3
    <3> QED
      BY <1>1, <3>1, <3>2, <3>3 DEF Follows, Synced
  <2> QED
    BY <1>5, <1>7, <1>10, <2>2, <2>3, <2>4, <2>5 DEF ConnIsSound, Published
<1>14. DeltasAreSound'
  <2>1. PICK b \in [1..(m + 1) -> Nat] : BasesAre(b)
    BY <1>1 DEF DeltasAreSound
  <2> DEFINE c == [i \in 1..(m + 2) |-> IF i = m + 2 THEN BaseAfter(b[m + 1], type, n) ELSE b[i]]
  <2>2. b[m + 1] = conn.base /\ b[m + 1] \in Nat
    BY <1>2, <1>3, <2>1 DEF BasesAre
  <2>3. BaseAfter(b[m + 1], type, n) \in Nat
    BY <1>1, <2>2 DEF BaseAfter, StreamAssumption
  <2>4. c \in [1..(Len(channel') + 1) -> Nat]
    BY <1>2, <1>5, <2>1, <2>3
  <2>5. c[m + 2] = BaseAfter(b[m + 1], type, n) /\ \A i \in 1..(m + 1) : c[i] = b[i]
    BY <1>2
  <2> HIDE DEF c
  <2>6. BasesAre(c)'
    <3>1. c[1] = tab.base
      BY <1>2, <2>1, <2>5 DEF BasesAre
    <3>2. ASSUME NEW i \in 1..m
          PROVE  /\ c[i + 1] = BaseAfter(c[i], channel[i].type, channel[i].seq)
                 /\ channel[i].kind = "moved" => c[i] = 0
                 /\ channel[i].delta \in (IF channel[i].kind = "event" THEN {0, c[i]} ELSE {0})
      <4>1. c[i + 1] = b[i + 1] /\ c[i] = b[i]
        BY <1>2, <2>5
      <4> QED
        BY <1>2, <2>1, <4>1 DEF BasesAre
    <3>3. /\ c[(m + 1) + 1] = BaseAfter(c[m + 1], f.type, f.seq)
          /\ f.delta \in {0, c[m + 1]}
      <4>1. (m + 1) + 1 = m + 2 /\ m + 1 \in 1..(m + 1)
        OBVIOUS
      <4>2. c[m + 1] = b[m + 1] /\ c[(m + 1) + 1] = BaseAfter(b[m + 1], type, n)
        BY <2>5, <4>1
      <4>3. f.delta \in {0, b[m + 1]} /\ f.type = type /\ f.seq = n
        BY <1>4, <2>2
      <4> QED
        BY <4>2, <4>3
    <3>4. conn'.epoch # 0 => c[m + 2] = conn'.base
      <4>1. conn \in [epoch : Nat, deltas : BOOLEAN, base : Nat, stray : BOOLEAN]
        BY <1>1 DEF TypeOK
      <4>2. conn'.epoch # 0 => type \notin Last
        BY DEF NoConn
      <4> QED
        BY <2>2, <2>5, <4>1, <4>2
    <3>5. ASSUME NEW i \in 1..(m + 1)
          PROVE  /\ c[i + 1] = BaseAfter(c[i], channel'[i].type, channel'[i].seq)
                 /\ channel'[i].kind = "moved" => c[i] = 0
                 /\ channel'[i].delta \in (IF channel'[i].kind = "event" THEN {0, c[i]} ELSE {0})
      <4>1. CASE i = m + 1
        BY <1>4, <1>5, <3>3, <4>1
      <4>2. CASE i # m + 1
        <5>1. i \in 1..m
          BY <1>2, <4>2
        <5> QED
          BY <1>5, <3>2, <5>1
      <4> QED
        BY <4>1, <4>2
    <3>6. Len(channel') + 1 = m + 2
      BY <1>2, <1>5
    <3> QED
      BY <1>1, <1>5, <3>1, <3>4, <3>5, <3>6 DEF BasesAre
  <2> QED
    BY <2>4, <2>6 DEF DeltasAreSound
<1> QED
  BY <1>5, <1>12, <1>13, <1>14

\* Runtime e becomes v.
LEMMA StepOfOne ==
  ASSUME StreamAssumption, StreamInv, NEW e \in DOMAIN wrappers, NEW v \in Wrapper,
         wrappers' \in Seq(Wrapper), DOMAIN wrappers' = DOMAIN wrappers, wrappers'[e] = v,
         \A d \in DOMAIN wrappers \ {e} : wrappers'[d] = wrappers[d],
         WrapperIsSound(v), Grown(wrappers[e], v), UNCHANGED page
  PROVE  ServerStep /\ RuntimesAreSound'
<1>1. TypeOK /\ RuntimesAreSound /\ UNCHANGED <<tab, view, es>>
  BY DEF StreamInv, page
<1>2. wrappers \in Seq(Wrapper)
  BY <1>1, StateTyped
<1>3. Grow
  <2> SUFFICES ASSUME NEW d \in DOMAIN wrappers PROVE Grown(wrappers[d], wrappers'[d])
    BY DEF Grow
  <2>1. CASE d = e
    BY <2>1
  <2>2. CASE d # e
    <3>1. wrappers'[d] = wrappers[d] /\ wrappers[d] \in Wrapper
      BY <1>2, <2>2
    <3> QED
      BY <3>1, GrownIfSame
  <2> QED
    BY <2>1, <2>2
<1>4. RuntimesAreSound'
  BY <1>1 DEF RuntimesAreSound
<1> QED
  BY <1>1, <1>3, <1>4 DEF ServerStep

\* A runtime changes, and nothing is published.
LEMMA QuietStep ==
  ASSUME StreamAssumption, StreamInv, NEW e \in DOMAIN wrappers, NEW v \in Wrapper,
         wrappers' = [wrappers EXCEPT ![e] = v], UNCHANGED <<conn, channel, page>>,
         WrapperIsSound(v), v.alive = wrappers[e].alive, v.entries = wrappers[e].entries,
         wrappers[e].served \subseteq v.served
  PROVE  StreamInv'
<1>1. TypeOK /\ wrappers \in Seq(Wrapper) /\ ConnIsSound /\ TabIsSound
  BY StateTyped DEF StreamInv
<1>2. /\ wrappers' \in Seq(Wrapper) /\ DOMAIN wrappers' = DOMAIN wrappers /\ wrappers'[e] = v
      /\ \A d \in DOMAIN wrappers \ {e} : wrappers'[d] = wrappers[d]
      /\ wrappers[e] \in Wrapper
  BY <1>1
<1>3. Grown(wrappers[e], v)
  BY <1>2, GrownIfSame
<1>4. ServerStep /\ RuntimesAreSound'
  BY <1>2, <1>3, StepOfOne
<1>5. TabIsSound'
  BY <1>1, <1>4, TabStays DEF TabIsSound, page
<1>6. conn'.epoch # 0 => /\ wrappers'[conn.epoch].alive
                         /\ Len(wrappers'[conn.epoch].entries)
                              = Len(wrappers[conn.epoch].entries)
  BY <1>1, <1>2 DEF ConnIsSound
<1>7. ChannelIsSound' /\ ConnIsSound' /\ DeltasAreSound'
  BY <1>4, <1>6, LineStays
<1>8. TypeOK'
  BY <1>1, <1>2 DEF TypeOK, page
<1> QED
  BY <1>4, <1>5, <1>7, <1>8 DEF StreamInv

\* A runtime publishes an event.
LEMMA PublishingStep ==
  ASSUME StreamAssumption, StreamInv, NEW e \in DOMAIN wrappers, NEW from \in Wrapper,
         NEW type \in Types, Publish(e, from, type), UNCHANGED page,
         from.entries = wrappers[e].entries, WrapperIsSound(from),
         wrappers[e].served = from.served,
         ~from.alive => type \in Last, type \in Turns => from.sid \in from.served
  PROVE  StreamInv'
<1> DEFINE w == wrappers[e]  v == wrappers'[e]
<1>1. /\ TypeOK /\ wrappers \in Seq(Wrapper) /\ ConnIsSound /\ TabIsSound
      /\ channel \in Seq(Frame) /\ conn.base \in Nat /\ Len(channel) \in Nat
  BY StateTyped DEF StreamInv
<1>2. /\ wrappers' \in Seq(Wrapper) /\ DOMAIN wrappers' = DOMAIN wrappers
      /\ \A d \in DOMAIN wrappers \ {e} : wrappers'[d] = wrappers[d]
      /\ Logs(w, from, v, type) /\ Sends(e, Len(w.entries) + 1, type, from.sid)
  BY <1>1, PublishIs
<1>3. w \in Wrapper /\ v \in Wrapper /\ e \in Nat /\ e # 0
  BY <1>1, <1>2 DEF Logs
<1>4. WrapperIsSound(v)
  BY <1>2, <1>3, SoundByLogs
<1>5. Grown(w, v)
  BY <1>2, <1>3, GrownByLogs
<1>6. v.alive = from.alive /\ v.served = from.served
  BY <1>2, <1>3 DEF Logs, Wrapper
<1> DEFINE n == Len(w.entries) + 1
<1>7. /\ n \in Nat /\ Len(v.entries) = n
      /\ LeadsTo(v.entries[n]) = Leading(type, from.sid) /\ from.sid \in Sid
  <2>1. w.entries \in Seq(Entry) /\ from.sid \in Sid
    BY <1>3 DEF Wrapper
  <2> QED
    BY <1>2, <2>1 DEF Logs
<1>8. ServerStep /\ RuntimesAreSound'
  <2> HIDE DEF w, v
  <2>1. v \in Wrapper /\ wrappers'[e] = v /\ Grown(wrappers[e], v)
    BY <1>3, <1>5 DEF v, w
  <2> QED
    BY <1>2, <1>4, <2>1, StepOfOne
<1>9. channel' \in Seq(Frame) /\ ChannelIsSound' /\ ConnIsSound' /\ DeltasAreSound'
  <2>1. CASE conn.epoch # e
    <3>1. conn' = conn /\ channel' = channel
      BY <1>2, <2>1 DEF Sends
    <3>2. conn'.epoch # 0 => /\ wrappers'[conn.epoch].alive
                             /\ Len(wrappers'[conn.epoch].entries)
                                  = Len(wrappers[conn.epoch].entries)
      BY <1>1, <1>2, <2>1, <3>1 DEF ConnIsSound
    <3> QED
      BY <1>1, <1>8, <3>1, <3>2, LineStays
  <2>2. CASE conn.epoch = e
    <3>1. PICK d \in {0, conn.base} :
            /\ channel' = Append(channel, EventOf(e, n, type, from.sid, d))
            /\ conn' = IF type \in Last THEN NoConn
                       ELSE [conn EXCEPT !.base = BaseAfter(@, type, n)]
      BY <1>2, <2>2 DEF Sends
    <3>2. PICK m \in Nat : m = Len(channel)
      BY <1>1
    <3>3. v.alive \/ type \in Last
      BY <1>6
    <3>4. type \in Turns => from.sid \in wrappers'[e].served
      BY <1>6
    <3>5. n = Len(wrappers[e].entries) + 1 /\ Len(wrappers'[e].entries) = n
          /\ LeadsTo(wrappers'[e].entries[n]) = Leading(type, from.sid)
      BY <1>7
    <3> HIDE DEF n, w, v
    <3> QED
      BY <1>7, <1>8, <2>2, <3>1, <3>2, <3>3, <3>4, <3>5, LineGrows DEF w, v
  <2> QED
    BY <2>1, <2>2
<1>10. TabIsSound'
  <2>1. es # "open" => conn' = NoConn /\ channel' = <<>>
    <3>1. es # "open" => conn = NoConn /\ channel = <<>>
      BY <1>1 DEF TabIsSound
    <3>2. conn = NoConn => conn.epoch # e
      BY <1>3 DEF NoConn
    <3> QED
      BY <1>2, <3>1, <3>2 DEF Sends
  <2> QED
    BY <1>8, <2>1, TabStays DEF page
<1>11. TypeOK'
  <2> DEFINE Conn == [epoch : Nat, deltas : BOOLEAN, base : Nat, stray : BOOLEAN]
  <2>1. conn' \in Conn
    <3>1. conn \in Conn
      BY <1>1 DEF TypeOK
    <3>2. NoConn \in Conn
      BY DEF NoConn, StreamAssumption
    <3>3. BaseAfter(conn.base, type, n) \in Nat
      BY <1>1, <1>7 DEF BaseAfter, StreamAssumption
    <3> HIDE DEF n
    <3>4. [conn EXCEPT !.base = BaseAfter(@, type, n)] \in Conn
      BY <3>1, <3>3
    <3>5. Sends(e, n, type, from.sid)
      BY <1>2 DEF n
    <3> QED
      BY <3>1, <3>2, <3>4, <3>5 DEF Sends
  <2> QED
    BY <1>1, <1>2, <1>9, <2>1 DEF TypeOK, page
<1> QED
  BY <1>8, <1>9, <1>10, <1>11 DEF StreamInv

-----------------------------------------------------------------------------
\* The actions of the runtimes.

LEMMA RuntimeIs ==
  ASSUME StreamInv, NEW e \in DOMAIN wrappers
  PROVE  /\ wrappers \in Seq(Wrapper) /\ wrappers[e] \in Wrapper /\ WrapperIsSound(wrappers[e])
<1>1. wrappers \in Seq(Wrapper) /\ WrapperIsSound(wrappers[e])
  BY StateTyped DEF StreamInv, RuntimesAreSound
<1> QED
  BY <1>1

LEMMA EmitKeeps ==
  ASSUME StreamAssumption, StreamInv, NEW e \in DOMAIN wrappers, NEW type \in Emitted,
         Emit(e, type)
  PROVE  StreamInv'
<1>1. wrappers[e].alive /\ Publish(e, wrappers[e], type) /\ UNCHANGED page
  BY DEF Emit, Alive
<1>2. /\ wrappers[e] \in Wrapper /\ WrapperIsSound(wrappers[e])
  BY RuntimeIs
<1>3. type \in Types /\ wrappers[e].sid \in wrappers[e].served
  BY <1>1, <1>2 DEF Types, StreamAssumption, WrapperIsSound
<1> QED
  BY <1>1, <1>2, <1>3, PublishingStep

LEMMA EndKeeps ==
  ASSUME StreamAssumption, StreamInv, NEW e \in DOMAIN wrappers,
         NEW type \in {"closed", "restart"}, End(e, type)
  PROVE  StreamInv'
<1> DEFINE from == [wrappers[e] EXCEPT !.alive = FALSE]
<1>1. wrappers[e].alive /\ Publish(e, from, type) /\ UNCHANGED page
  BY DEF End, Alive
<1>2. wrappers[e] \in Wrapper /\ WrapperIsSound(wrappers[e])
  BY RuntimeIs
<1>3. /\ from \in Wrapper /\ ~from.alive /\ from.pending = wrappers[e].pending
      /\ from.op = wrappers[e].op /\ from.target = wrappers[e].target
      /\ from.served = wrappers[e].served /\ from.entries = wrappers[e].entries
  BY <1>2 DEF Wrapper
<1> HIDE DEF from
<1>4. WrapperIsSound(from)
  BY <1>2, <1>3 DEF WrapperIsSound
<1>5. type \in Types /\ type \in Last /\ type \notin Turns
  BY DEF Types, Last, Turns
<1> QED
  BY <1>1, <1>3, <1>4, <1>5, PublishingStep

LEMMA BeginKeeps ==
  ASSUME StreamAssumption, StreamInv, NEW e \in DOMAIN wrappers, NEW s \in Sid,
         BeginReplacement(e, s)
  PROVE  StreamInv'
<1> DEFINE w == wrappers[e]
           v == [w EXCEPT !.op = "begun", !.pending = w.sid, !.target = s]
<1>1. /\ w.alive /\ UNCHANGED <<conn, channel, page>>
      /\ wrappers' = [wrappers EXCEPT ![e] = v]
  BY DEF BeginReplacement, Alive
<1>2. w \in Wrapper /\ WrapperIsSound(w) /\ s # 0
  BY RuntimeIs DEF Sid, StreamAssumption
<1> HIDE DEF w
<1>3. w.sid \in Sid /\ 0 \notin Sid
  BY <1>2 DEF Wrapper, Sid, StreamAssumption
<1>4. /\ v \in Wrapper /\ v.alive = w.alive /\ v.entries = w.entries /\ v.key = w.key
      /\ v.former = w.former /\ v.sid = w.sid /\ v.pending = w.sid /\ v.target = s
      /\ v.served = w.served
  BY <1>2, <1>3 DEF Wrapper
<1> HIDE DEF v
<1>5. WrapperIsSound(v)
  BY <1>1, <1>2, <1>3, <1>4 DEF WrapperIsSound
<1> QED
  BY <1>1, <1>4, <1>5, QuietStep DEF w

\* Turning to another session adds to what the runtime has served.
LEMMA RebindKeeps ==
  ASSUME StreamAssumption, StreamInv, NEW e \in DOMAIN wrappers, Rebind(e)
  PROVE  StreamInv'
<1> DEFINE w == wrappers[e]
           v == [w EXCEPT !.op = "bound", !.sid = w.target, !.target = 0,
                          !.served = @ \cup {w.target}]
<1>1. /\ w.alive /\ w.op = "begun" /\ UNCHANGED <<conn, channel, page>>
      /\ wrappers' = [wrappers EXCEPT ![e] = v]
  BY DEF Rebind, Alive
<1>2. w \in Wrapper /\ WrapperIsSound(w)
  BY RuntimeIs
<1> HIDE DEF w
<1>3. w.target \in Sid /\ w.served \in SUBSET Sid
  BY <1>1, <1>2 DEF Wrapper, WrapperIsSound
<1>4. /\ v \in Wrapper /\ v.alive = w.alive /\ v.entries = w.entries /\ v.key = w.key
      /\ v.former = w.former /\ v.sid = w.target /\ v.pending = w.pending /\ v.op = "bound"
      /\ v.served = w.served \cup {w.target}
  BY <1>2, <1>3 DEF Wrapper
<1> HIDE DEF v
<1>5. WrapperIsSound(v)
  BY <1>1, <1>2, <1>4 DEF WrapperIsSound
<1> QED
  BY <1>1, <1>4, <1>5, QuietStep DEF w

LEMMA RegisterKeeps ==
  ASSUME StreamAssumption, StreamInv, NEW e \in DOMAIN wrappers, Register(e)
  PROVE  StreamInv'
<1> DEFINE w == wrappers[e]  v == [w EXCEPT !.key = w.sid]
<1>1. /\ w.alive /\ UNCHANGED <<conn, channel, page>>
      /\ wrappers' = [wrappers EXCEPT ![e] = v]
  BY DEF Register, Alive
<1>2. w \in Wrapper /\ WrapperIsSound(w)
  BY RuntimeIs
<1> HIDE DEF w
<1>3. /\ v \in Wrapper /\ v.alive = w.alive /\ v.entries = w.entries /\ v.key = w.sid
      /\ v.former = w.former /\ v.sid = w.sid /\ v.pending = w.pending /\ v.op = w.op
      /\ v.target = w.target /\ v.served = w.served
  BY <1>2 DEF Wrapper
<1> HIDE DEF v
<1>4. WrapperIsSound(v)
  BY <1>1, <1>2, <1>3 DEF WrapperIsSound
<1> QED
  BY <1>1, <1>3, <1>4, QuietStep DEF w

\* Restoring brings back a session that the runtime has served.
LEMMA RestoreKeeps ==
  ASSUME StreamAssumption, StreamInv, NEW e \in DOMAIN wrappers, Restore(e)
  PROVE  StreamInv'
<1> DEFINE w == wrappers[e]
           v == [w EXCEPT !.op = "restored", !.sid = w.pending, !.target = 0]
<1>1. /\ w.alive /\ w.op # "none" /\ UNCHANGED <<conn, channel, page>>
      /\ wrappers' = [wrappers EXCEPT ![e] = v]
  BY DEF Restore, Alive
<1>2. w \in Wrapper /\ WrapperIsSound(w)
  BY RuntimeIs
<1> HIDE DEF w
<1>3. w.pending \in Sid /\ w.pending \in w.served /\ w.pending # 0
  BY <1>1, <1>2 DEF Wrapper, WrapperIsSound
<1>4. /\ v \in Wrapper /\ v.alive = w.alive /\ v.entries = w.entries /\ v.key = w.key
      /\ v.former = w.former /\ v.sid = w.pending /\ v.pending = w.pending
      /\ v.op = "restored" /\ v.served = w.served
  BY <1>2, <1>3 DEF Wrapper
<1> HIDE DEF v
<1>5. WrapperIsSound(v)
  BY <1>1, <1>2, <1>3, <1>4 DEF WrapperIsSound
<1> QED
  BY <1>1, <1>4, <1>5, QuietStep DEF w

LEMMA OverIs ==
  ASSUME StreamAssumption, NEW w \in Wrapper, WrapperIsSound(w)
  PROVE  /\ Over(w) \in Wrapper /\ WrapperIsSound(Over(w))
         /\ Over(w).alive = w.alive /\ Over(w).entries = w.entries /\ Over(w).sid = w.sid
         /\ Over(w).served = w.served /\ Over(w).former = w.former
<1>1. /\ Over(w) \in Wrapper /\ Over(w).key = w.key
      /\ Over(w).op = "none" /\ Over(w).pending = 0
      /\ Over(w).alive = w.alive /\ Over(w).entries = w.entries /\ Over(w).sid = w.sid
      /\ Over(w).served = w.served /\ Over(w).former = w.former
  BY DEF Wrapper, Over
<1>2. WrapperIsSound(Over(w))
  BY <1>1 DEF WrapperIsSound
<1> QED
  BY <1>1, <1>2

LEMMA CancelKeeps ==
  ASSUME StreamAssumption, StreamInv, NEW e \in DOMAIN wrappers, CancelReplacement(e)
  PROVE  StreamInv'
<1> DEFINE v == Over(wrappers[e])
<1>1. /\ UNCHANGED <<conn, channel, page>> /\ wrappers' = [wrappers EXCEPT ![e] = v]
  BY DEF CancelReplacement
<1>2. wrappers[e] \in Wrapper /\ WrapperIsSound(wrappers[e])
  BY RuntimeIs
<1>3. /\ v \in Wrapper /\ WrapperIsSound(v) /\ v.alive = wrappers[e].alive
      /\ v.entries = wrappers[e].entries /\ v.served = wrappers[e].served
  BY <1>2, OverIs
<1> HIDE DEF v
<1> QED
  BY <1>1, <1>3, QuietStep

\* The former session becomes an alias.
LEMMA FinishKeeps ==
  ASSUME StreamAssumption, StreamInv, NEW e \in DOMAIN wrappers, FinishReplacement(e)
  PROVE  StreamInv'
<1> DEFINE w == wrappers[e]  o == Over(w)
           from == [o EXCEPT !.former = @ \cup ({w.pending} \ {w.sid})]
<1>1. /\ w.alive /\ w.op = "bound" /\ UNCHANGED page /\ Publish(e, from, "replaced")
  BY DEF FinishReplacement, Alive
<1>2. w \in Wrapper /\ WrapperIsSound(w)
  BY RuntimeIs
<1> HIDE DEF w
<1>3. /\ o \in Wrapper /\ WrapperIsSound(o) /\ o.alive = w.alive /\ o.entries = w.entries
      /\ o.sid = w.sid /\ o.served = w.served /\ o.former = w.former
  BY <1>2, OverIs
<1>4. w.pending \in Sid /\ w.pending \in w.served /\ w.former \in SUBSET Sid
  BY <1>1, <1>2 DEF Wrapper, WrapperIsSound
<1> HIDE DEF o
<1>5. /\ from \in Wrapper /\ from.alive = o.alive /\ from.entries = o.entries
      /\ from.key = o.key /\ from.former = o.former \cup ({w.pending} \ {w.sid})
      /\ from.sid = o.sid /\ from.pending = o.pending /\ from.op = o.op
      /\ from.target = o.target /\ from.served = o.served
  BY <1>3, <1>4 DEF Wrapper
<1> HIDE DEF from
<1>6. WrapperIsSound(from)
  BY <1>1, <1>3, <1>4, <1>5 DEF WrapperIsSound
<1>7. from.alive /\ from.sid \in from.served /\ "replaced" \in Types
  BY <1>1, <1>3, <1>5, <1>6 DEF WrapperIsSound, Types
<1> QED
  BY <1>1, <1>3, <1>5, <1>6, <1>7, PublishingStep DEF w

LEMMA FailKeeps ==
  ASSUME StreamAssumption, StreamInv, NEW e \in DOMAIN wrappers, FailReplacement(e)
  PROVE  StreamInv'
<1> DEFINE w == wrappers[e]  from == Over(w)
<1>1. /\ w.alive /\ UNCHANGED page
      /\ Publish(e, from, "restored") \/ Publish(e, from, "other")
  BY DEF FailReplacement, Alive
<1>2. w \in Wrapper /\ WrapperIsSound(w)
  BY RuntimeIs
<1>3. /\ from \in Wrapper /\ WrapperIsSound(from) /\ from.alive = w.alive
      /\ from.entries = w.entries /\ from.sid = w.sid /\ from.served = w.served
  BY <1>2, OverIs
<1> HIDE DEF from
<1>4. from.sid \in from.served
  BY <1>1, <1>2, <1>3 DEF WrapperIsSound
<1>5. "restored" \in Types /\ "other" \in Types
  BY DEF Types
<1> QED
  BY <1>1, <1>3, <1>4, <1>5, PublishingStep

LEMMA PruneKeeps ==
  ASSUME StreamAssumption, StreamInv, NEW e \in DOMAIN wrappers, NEW s \in Sid, Prune(e, s)
  PROVE  StreamInv'
<1> DEFINE w == wrappers[e]  v == [w EXCEPT !.former = @ \ {s}]
<1>1. /\ w.alive /\ UNCHANGED <<conn, channel, page>>
      /\ wrappers' = [wrappers EXCEPT ![e] = v]
  BY DEF Prune, Alive
<1>2. w \in Wrapper /\ WrapperIsSound(w)
  BY RuntimeIs
<1> HIDE DEF w
<1>3. /\ v \in Wrapper /\ v.alive = w.alive /\ v.entries = w.entries /\ v.key = w.key
      /\ v.former = w.former \ {s} /\ v.sid = w.sid /\ v.pending = w.pending
      /\ v.op = w.op /\ v.target = w.target /\ v.served = w.served
  BY <1>2 DEF Wrapper
<1> HIDE DEF v
<1>4. WrapperIsSound(v)
  BY <1>1, <1>2, <1>3 DEF WrapperIsSound
<1> QED
  BY <1>1, <1>3, <1>4, QuietStep DEF w


LEMMA CrashKeeps ==
  ASSUME StreamAssumption, StreamInv, Crash
  PROVE  StreamInv'
<1>1. /\ TypeOK /\ wrappers \in Seq(Wrapper) /\ TabIsSound
      /\ UNCHANGED <<tab, view, es, channel, faults, forced>>
      /\ conn' = NoConn /\ wrappers' = [e \in DOMAIN wrappers |-> Gone(wrappers[e])]
  BY StateTyped DEF StreamInv, Crash, page
<1>2. ASSUME NEW e \in DOMAIN wrappers
      PROVE  /\ wrappers'[e] \in Wrapper
             /\ Grown(wrappers[e], wrappers'[e]) /\ WrapperIsSound(wrappers'[e])
  <2> DEFINE w == wrappers[e]  v == wrappers'[e]
  <2>1. w \in Wrapper /\ WrapperIsSound(w)
    BY RuntimeIs
  <2>2. v = Gone(w)
    BY <1>1
  <2> HIDE DEF w, v
  <2>3. /\ v \in Wrapper /\ ~v.alive /\ v.op = "none" /\ v.pending = 0 /\ v.served = w.served
        /\ Len(v.entries) = Len(w.entries) /\ DOMAIN v.entries = DOMAIN w.entries
        /\ \A k \in DOMAIN w.entries : LeadsTo(v.entries[k]) = LeadsTo(w.entries[k])
    BY <2>1, <2>2, GoneIs
  <2>4. Len(w.entries) \in Nat
    <3>1. w.entries \in Seq(Entry)
      BY <2>1 DEF Wrapper
    <3> QED
      BY <3>1
  <2>5. Grown(w, v)
    BY <2>3, <2>4 DEF Grown
  <2>6. WrapperIsSound(v)
    BY <2>1, <2>3 DEF WrapperIsSound
  <2> QED
    BY <2>3, <2>5, <2>6 DEF w, v
<1>3. wrappers' \in Seq(Wrapper) /\ DOMAIN wrappers' = DOMAIN wrappers
  <2>1. DOMAIN wrappers = 1..Len(wrappers) /\ Len(wrappers) \in Nat
    BY <1>1
  <2>2. DOMAIN wrappers' = DOMAIN wrappers
    BY <1>1
  <2>3. wrappers' \in [1..Len(wrappers) -> Wrapper]
    BY <1>1, <1>2, <2>1
  <2> QED
    BY <2>1, <2>2, <2>3
<1>4. ServerStep /\ RuntimesAreSound'
  BY <1>1, <1>2, <1>3 DEF ServerStep, Grow, RuntimesAreSound
<1>5. TabIsSound'
  BY <1>1, <1>4, TabStays DEF TabIsSound
<1>6. ChannelIsSound' /\ ConnIsSound' /\ DeltasAreSound'
  BY <1>1, <1>4, LineStays DEF NoConn
<1>7. TypeOK'
  BY <1>1, <1>3 DEF TypeOK, NoConn, StreamAssumption
<1> QED
  BY <1>4, <1>5, <1>6, <1>7 DEF StreamInv

\* A runtime is started.
LEMMA NewRuntime ==
  ASSUME StreamAssumption, StreamInv, NEW s \in Sid,
         wrappers' = Append(wrappers, NewWrapper(s)), UNCHANGED <<tab, view>>
  PROVE  /\ ServerStep /\ RuntimesAreSound'
         /\ Len(wrappers) + 1 \in DOMAIN wrappers'
         /\ wrappers'[Len(wrappers) + 1] = NewWrapper(s)
         /\ \A e \in DOMAIN wrappers : wrappers'[e] = wrappers[e]
<1> DEFINE v == NewWrapper(s)  m == Len(wrappers) + 1
<1>1. /\ wrappers \in Seq(Wrapper) /\ RuntimesAreSound
      /\ v \in Wrapper /\ WrapperIsSound(v)
  BY StateTyped, NewWrapperIs DEF StreamInv
<1> HIDE DEF v
<1>2. /\ wrappers' \in Seq(Wrapper) /\ DOMAIN wrappers' = DOMAIN wrappers \cup {m}
      /\ wrappers'[m] = v
      /\ \A e \in DOMAIN wrappers : wrappers'[e] = wrappers[e]
  <2>1. wrappers' = Append(wrappers, v)
    BY DEF v
  <2> QED
    BY <1>1, <2>1, AppendProperties
<1> HIDE DEF m
<1>3. Grow
  <2> SUFFICES ASSUME NEW e \in DOMAIN wrappers
               PROVE  e \in DOMAIN wrappers' /\ Grown(wrappers[e], wrappers'[e])
    BY DEF Grow
  <2>1. wrappers[e] \in Wrapper /\ wrappers'[e] = wrappers[e]
    BY <1>1, <1>2
  <2> QED
    BY <1>2, <2>1, GrownIfSame
<1>4. RuntimesAreSound'
  BY <1>1, <1>2 DEF RuntimesAreSound
<1>5. ServerStep
  BY <1>2, <1>3 DEF ServerStep
<1> QED
  BY <1>2, <1>4, <1>5 DEF m, v

LEMMA StartKeeps ==
  ASSUME StreamAssumption, StreamInv, NEW s \in Sid, Start(s)
  PROVE  StreamInv'
<1>1. /\ wrappers' = Append(wrappers, NewWrapper(s))
      /\ UNCHANGED <<conn, channel, es, tab, view, faults, forced>>
  BY DEF Start, page
<1>2. TypeOK /\ TabIsSound /\ ConnIsSound
  BY DEF StreamInv
<1>3. /\ ServerStep /\ RuntimesAreSound'
      /\ \A e \in DOMAIN wrappers : wrappers'[e] = wrappers[e]
  BY <1>1, NewRuntime
<1>4. TabIsSound'
  BY <1>1, <1>2, <1>3, TabStays DEF TabIsSound
<1>5. conn'.epoch # 0 => /\ wrappers'[conn.epoch].alive
                         /\ Len(wrappers'[conn.epoch].entries)
                              = Len(wrappers[conn.epoch].entries)
  BY <1>1, <1>2, <1>3 DEF ConnIsSound
<1>6. ChannelIsSound' /\ ConnIsSound' /\ DeltasAreSound'
  BY <1>1, <1>3, <1>5, LineStays
<1>7. TypeOK'
  BY <1>1, <1>2, <1>3 DEF TypeOK, ServerStep
<1> QED
  BY <1>3, <1>4, <1>6, <1>7 DEF StreamInv

-----------------------------------------------------------------------------
\* The steps of the tab that close its connection.

\* Without a connection only what the tab shows and its cursor are left to be sound.
LEMMA ClosingStep ==
  ASSUME StreamAssumption, StreamInv, UNCHANGED wrappers, conn' = NoConn, channel' = <<>>,
         TabIsSound', TypeOK'
  PROVE  StreamInv'
<1>1. RuntimesAreSound'
  BY DEF StreamInv, RuntimesAreSound
<1>3. ChannelIsSound' /\ ConnIsSound'
  BY DEF ChannelIsSound, ConnIsSound, NoConn
<1>4. DeltasAreSound'
  <2> DEFINE c == [i \in 1..1 |-> tab'.base]
  <2>1. tab'.base \in Nat
    BY DEF TypeOK
  <2>2. Len(channel') + 1 = 1 /\ DOMAIN channel' = {}
    OBVIOUS
  <2>3. c \in [1..(Len(channel') + 1) -> Nat] /\ c[1] = tab'.base
    BY <2>1, <2>2
  <2> HIDE DEF c
  <2>4. PICK b \in [1..(Len(channel') + 1) -> Nat] : b[1] = tab'.base
    BY <2>3
  <2>5. BasesAre(b)'
    BY <2>2, <2>4 DEF BasesAre, NoConn
  <2> QED
    BY <2>4, <2>5 DEF DeltasAreSound
<1> QED
  BY <1>1, <1>3, <1>4 DEF StreamInv

LEMMA NoCursorTyped ==
  ASSUME StreamAssumption
  PROVE  /\ NoCursor \in Cursor
         /\ NoConn \in [epoch : Nat, deltas : BOOLEAN, base : Nat, stray : BOOLEAN]
         /\ <<>> \in Seq(Frame) /\ 0 \in Nat
BY DEF NoCursor, NoConn, Cursor, StreamAssumption

LEMMA ConnectKeeps ==
  ASSUME StreamAssumption, StreamInv, Connect, faults' \in Nat, forced' \in Nat
  PROVE  StreamInv'
<1>1. /\ ~view.turned /\ es' = "requested" /\ conn' = NoConn /\ channel' = <<>>
      /\ tab' = [tab EXCEPT !.ready = FALSE, !.base = 0, !.retry = FALSE]
      /\ UNCHANGED <<wrappers, view>>
  BY DEF Connect
<1>2. TypeOK /\ TabIsSound
  BY DEF StreamInv
<1>3. tab'.sid = tab.sid /\ tab'.cursor = tab.cursor /\ tab'.base = 0
  BY <1>1, <1>2 DEF TypeOK
<1>4. TypeOK'
  <2>1. tab' \in [sid : Sid, cursor : Cursor, deltas : BOOLEAN, ready : BOOLEAN,
                  base : Nat, retry : BOOLEAN]
    BY <1>1, <1>2, NoCursorTyped DEF TypeOK
  <2> QED
    BY <1>1, <1>2, <2>1, NoCursorTyped DEF TypeOK
<1>5. TabIsSound'
  BY <1>1, <1>2, <1>3 DEF TabIsSound, Synced, Published
<1> QED
  BY <1>1, <1>4, <1>5, ClosingStep

LEMMA FailsKeeps ==
  ASSUME StreamAssumption, StreamInv, Fails, faults' \in Nat
  PROVE  StreamInv'
<1>1. /\ es' = "none" /\ conn' = NoConn /\ channel' = <<>>
      /\ tab' = [tab EXCEPT !.retry = TRUE] /\ UNCHANGED <<wrappers, view, forced>>
  BY DEF Fails, Close
<1>2. TypeOK /\ TabIsSound
  BY DEF StreamInv
<1>3. tab'.sid = tab.sid /\ tab'.cursor = tab.cursor /\ tab'.base = tab.base
  BY <1>1, <1>2 DEF TypeOK
<1>4. TypeOK'
  <2>1. tab' \in [sid : Sid, cursor : Cursor, deltas : BOOLEAN, ready : BOOLEAN,
                  base : Nat, retry : BOOLEAN]
    BY <1>1, <1>2 DEF TypeOK
  <2> QED
    BY <1>1, <1>2, <2>1, NoCursorTyped DEF TypeOK
<1>5. TabIsSound'
  BY <1>1, <1>2, <1>3 DEF TabIsSound, Synced, Published
<1> QED
  BY <1>1, <1>4, <1>5, ClosingStep

LEMMA FailsafeKeeps ==
  ASSUME StreamAssumption, StreamInv, FailsafeFires
  PROVE  StreamInv'
<1>1. /\ es' = "none" /\ conn' = NoConn /\ channel' = <<>> /\ faults' = faults + 1
      /\ UNCHANGED <<wrappers, tab, view, forced>>
  BY DEF FailsafeFires, Close
<1>2. TypeOK /\ TabIsSound
  BY DEF StreamInv
<1>3. TypeOK'
  BY <1>1, <1>2, NoCursorTyped DEF TypeOK
<1>4. TabIsSound'
  BY <1>1, <1>2 DEF TabIsSound, Synced, Published
<1> QED
  BY <1>1, <1>3, <1>4, ClosingStep

LEMMA RecoverKeeps ==
  ASSUME StreamAssumption, StreamInv, Recover, UNCHANGED <<wrappers, forced>>, faults' \in Nat
  PROVE  StreamInv'
<1>1. /\ es' = "none" /\ conn' = NoConn /\ channel' = <<>> /\ UNCHANGED view
      /\ tab' = [tab EXCEPT !.cursor = NoCursor, !.deltas = FALSE, !.ready = FALSE,
                            !.retry = tab.deltas]
  BY DEF Recover, Close
<1>2. TypeOK /\ TabIsSound
  BY DEF StreamInv
<1>3. tab'.sid = tab.sid /\ tab'.cursor = NoCursor /\ tab'.base = tab.base
  BY <1>1, <1>2 DEF TypeOK
<1>4. TypeOK'
  <2>1. tab' \in [sid : Sid, cursor : Cursor, deltas : BOOLEAN, ready : BOOLEAN,
                  base : Nat, retry : BOOLEAN]
    BY <1>1, <1>2, NoCursorTyped DEF TypeOK
  <2> QED
    BY <1>1, <1>2, <2>1, NoCursorTyped DEF TypeOK
<1>5. TabIsSound'
  BY <1>1, <1>2, <1>3 DEF TabIsSound, Synced, Published, NoCursor
<1> QED
  BY <1>1, <1>4, <1>5, ClosingStep

LEMMA RemountKeeps ==
  ASSUME StreamAssumption, StreamInv, Remount
  PROVE  StreamInv'
<1>1. /\ es' = "none" /\ conn' = NoConn /\ channel' = <<>>
      /\ tab' = FreshTab(view.sid) /\ view' = Feed!Nothing(view.sid)
      /\ forced' = 0 /\ UNCHANGED <<wrappers, faults>>
  BY DEF Remount, Close
<1>2. TypeOK /\ TabIsSound /\ view.sid \in Sid
  BY DEF StreamInv, TypeOK
<1>3. /\ tab'.sid = view.sid /\ tab'.cursor = NoCursor /\ tab'.base = 0
      /\ view'.sid = view.sid /\ view'.epoch = 0 /\ view'.seen = <<>> /\ ~view'.turned
  BY <1>1 DEF FreshTab, Feed!Nothing
<1>4. TypeOK'
  <2>1. tab' \in [sid : Sid, cursor : Cursor, deltas : BOOLEAN, ready : BOOLEAN,
                  base : Nat, retry : BOOLEAN]
    BY <1>1, <1>2, NoCursorTyped DEF FreshTab
  <2>2. view' \in [sid : Sid, epoch : Nat, seen : Seq(Nat), turned : BOOLEAN]
    <3>1. <<>> \in Seq(Nat)
      OBVIOUS
    <3> QED
      BY <1>1, <1>2, <3>1, NoCursorTyped DEF Feed!Nothing
  <2> QED
    BY <1>1, <1>2, <2>1, <2>2, NoCursorTyped DEF TypeOK
<1>5. TabIsSound'
  BY <1>1, <1>3 DEF TabIsSound, NoCursor
<1> QED
  BY <1>1, <1>4, <1>5, ClosingStep

-----------------------------------------------------------------------------
\* The frames that the tab handles.

LEMMA UpToIs ==
  ASSUME StreamAssumption, NEW n \in Nat
  PROVE  /\ Feed!UpTo(n) \in Seq(Nat) /\ Len(Feed!UpTo(n)) = n
         /\ n + 1 \in Nat => Append(Feed!UpTo(n), n + 1) = Feed!UpTo(n + 1)
<1>1. n \in Nat /\ 1..n \subseteq Nat
  BY DEF StreamAssumption
<1>2. Feed!UpTo(n) \in [1..n -> Nat] /\ \A i \in 1..n : Feed!UpTo(n)[i] = i
  BY <1>1 DEF Feed!UpTo
<1>3. Feed!UpTo(n) \in Seq(Nat) /\ Len(Feed!UpTo(n)) = n
  BY <1>1, <1>2
<1>4. ASSUME n + 1 \in Nat PROVE Append(Feed!UpTo(n), n + 1) = Feed!UpTo(n + 1)
  <2> DEFINE s == Append(Feed!UpTo(n), n + 1)  t == Feed!UpTo(n + 1)
  <2>1. 1..(n + 1) \subseteq Nat /\ n + 1 \in Nat
    BY <1>1, <1>4 DEF StreamAssumption
  <2>2. t \in [1..(n + 1) -> Nat] /\ \A i \in 1..(n + 1) : t[i] = i
    BY <2>1 DEF Feed!UpTo
  <2>3. t \in Seq(Nat) /\ Len(t) = n + 1
    BY <2>1, <2>2
  <2>4. s \in Seq(Nat) /\ Len(s) = n + 1 /\ \A i \in 1..(n + 1) : s[i] = i
    <3> HIDE DEF s
    <3>1. s = Append(Feed!UpTo(n), n + 1)
      BY DEF s
    <3>2. /\ s \in Seq(Nat) /\ Len(s) = n + 1 /\ s[n + 1] = n + 1
          /\ \A i \in 1..n : s[i] = Feed!UpTo(n)[i]
      BY <1>1, <1>3, <1>4, <3>1, AppendProperties
    <3> QED
      BY <1>1, <1>2, <3>2
  <2> HIDE DEF s, t
  <2>5. s = t
    BY <2>2, <2>3, <2>4, SeqEqual
  <2> QED
    BY <2>5 DEF s, t
<1> QED
  BY <1>3, <1>4

View == [sid : Sid, epoch : Nat, seen : Seq(Nat), turned : BOOLEAN]

\* A page that is led to a session is there, and has turned unless it was there before.
LEMMA LedIs ==
  ASSUME StreamAssumption, NEW p \in View, NEW s \in Sid \cup {0}
  PROVE  /\ Feed!Led(p, s) \in View
         /\ Feed!Led(p, s).epoch = p.epoch /\ Feed!Led(p, s).seen = p.seen
         /\ Feed!Led(p, s).sid = IF s = 0 THEN p.sid ELSE s
         /\ ~Feed!Led(p, s).turned => ~p.turned /\ Feed!Led(p, s).sid = p.sid
<1>1. CASE s \in {0, p.sid}
  <2>1. Feed!Led(p, s) = p
    BY <1>1 DEF Feed!Led
  <2> QED
    BY <1>1, <2>1
<1>2. CASE s \notin {0, p.sid}
  <2> DEFINE q == [p EXCEPT !.sid = s, !.turned = TRUE]
  <2>1. Feed!Led(p, s) = q
    BY <1>2 DEF Feed!Led
  <2>2. q \in View /\ q.epoch = p.epoch /\ q.seen = p.seen /\ q.sid = s /\ q.turned
    BY <1>2 DEF View
  <2> HIDE DEF q
  <2> QED
    BY <1>2, <2>1, <2>2
<1> QED
  BY <1>1, <1>2

\* What the tab shows when it has applied frame f, and when it is no longer followed.
Shown(f) == [view EXCEPT !.epoch = f.epoch, !.seen = Feed!UpTo(f.seq)]
Lost == [view EXCEPT !.epoch = 0, !.seen = <<>>]

LEMMA ShownIs ==
  ASSUME StreamAssumption, TypeOK, NEW f, f.epoch \in Nat, f.seq \in Nat
  PROVE  /\ view \in View
         /\ Shown(f) \in View /\ Shown(f).epoch = f.epoch /\ Shown(f).seen = Feed!UpTo(f.seq)
         /\ Shown(f).sid = view.sid /\ Shown(f).turned = view.turned
         /\ Lost \in View /\ Lost.epoch = 0 /\ Lost.seen = <<>>
         /\ Lost.sid = view.sid /\ Lost.turned = view.turned
<1> DEFINE s == Feed!UpTo(f.seq)
<1>1. s \in Seq(Nat) /\ view \in View /\ <<>> \in Seq(Nat) /\ 0 \in Nat
  <2>1. s \in Seq(Nat)
    BY UpToIs
  <2>2. view \in View
    BY DEF TypeOK, View
  <2>3. <<>> \in Seq(Nat) /\ 0 \in Nat
    BY NoCursorTyped
  <2> QED
    BY <2>1, <2>2, <2>3
<1>2. Shown(f) = [view EXCEPT !.epoch = f.epoch, !.seen = s]
  BY DEF Shown
<1> HIDE DEF s
<1>3. /\ Shown(f) \in View /\ Shown(f).epoch = f.epoch /\ Shown(f).seen = s
      /\ Shown(f).sid = view.sid /\ Shown(f).turned = view.turned
  BY <1>1, <1>2 DEF View
<1> DEFINE z == <<>>
<1>4. Lost = [view EXCEPT !.epoch = 0, !.seen = z] /\ z \in Seq(Nat)
  BY <1>1 DEF Lost
<1> HIDE DEF z
<1>5. /\ Lost \in View /\ Lost.epoch = 0 /\ Lost.seen = z
      /\ Lost.sid = view.sid /\ Lost.turned = view.turned
  BY <1>1, <1>4 DEF View
<1> QED
  BY <1>1, <1>3, <1>5 DEF s, z

\* The first frame on the way.
LEMMA HeadIs ==
  ASSUME StreamAssumption, StreamInv, channel # <<>>, NEW f, f = Head(channel)
  PROVE  /\ f = channel[1] /\ f \in Frame /\ 1 \in DOMAIN channel /\ FrameIsSound(1)
         /\ f.epoch \in Nat /\ f.epoch # 0 /\ f.seq \in Nat /\ f.sid \in Sid
         /\ f.kind = "moved" => f.type = "replaced" /\ LeadsTo(f) = f.sid /\ f.sid # tab.sid
         /\ f.kind = "snapshot" => f.type = "snapshot"
         /\ f.kind = "event" => /\ f.epoch = tab.cursor.epoch /\ f.seq = tab.cursor.seq + 1
                                /\ Synced \/ (view.epoch = 0 /\ ~Synced)
         /\ f.kind \in {"event", "snapshot", "moved"} /\ f.type \in Types
         /\ f.epoch \in DOMAIN wrappers
         /\ f.kind # "moved" => f.seq \in 0..Published(f.epoch)
         /\ LeadsTo(f) \in Sid \cup {0} /\ LeadsTo(f) \in wrappers[f.epoch].served \cup {0}
         /\ view.sid \in wrappers[f.epoch].served
<1>1. /\ TypeOK /\ channel \in Seq(Frame) /\ FrameIsSound(1) /\ TabIsSound /\ 1 \in DOMAIN channel
      /\ wrappers \in Seq(Wrapper)
  BY StateTyped DEF StreamInv, ChannelIsSound
<1>2. f = channel[1] /\ f \in Frame
  BY <1>1
<1>3. /\ f.epoch \in Nat /\ f.seq \in Nat /\ f.sid \in Sid
      /\ f.kind \in {"event", "snapshot", "moved"} /\ f.type \in Types
  BY <1>2 DEF Frame, StreamAssumption
<1>4. f.epoch \in DOMAIN wrappers /\ f.epoch # 0
  <2>1. f.epoch \in DOMAIN wrappers
    BY <1>1, <1>2 DEF FrameIsSound
  <2> QED
    BY <1>1, <2>1, RuntimesTyped
<1>5. f.kind = "moved" => f.type = "replaced" /\ LeadsTo(f) = f.sid /\ f.sid # tab.sid
  BY <1>1, <1>2 DEF FrameIsSound, MoveIsSound, LeadsTo, Turns
<1>6. f.kind = "snapshot" => f.type = "snapshot" /\ f.seq <= Published(f.epoch)
  BY <1>1, <1>2 DEF FrameIsSound, SnapshotIsSound
<1>7. f.kind = "event" => /\ f.epoch = tab.cursor.epoch /\ f.seq = tab.cursor.seq + 1
                          /\ f.seq \in DOMAIN wrappers[f.epoch].entries
  BY <1>1, <1>2 DEF FrameIsSound, EventIsSound
<1>8. f.kind = "event" => Synced \/ (view.epoch = 0 /\ ~Synced)
  BY <1>1, <1>4, <1>7 DEF TabIsSound
<1>9. /\ Len(wrappers[f.epoch].entries) \in Nat
      /\ DOMAIN wrappers[f.epoch].entries = 1..Len(wrappers[f.epoch].entries)
  <2>1. wrappers[f.epoch].entries \in Seq(Entry)
    BY <1>1, <1>4, RuntimesTyped
  <2> QED
    BY <2>1
<1>10. f.kind # "moved" => f.seq \in 0..Published(f.epoch)
  BY <1>3, <1>6, <1>7, <1>9 DEF Published
<1>11. LeadsTo(f) \in Sid \cup {0}
  BY <1>3 DEF LeadsTo
<1>12. LeadsTo(f) \in wrappers[f.epoch].served \cup {0}
  BY <1>1, <1>2 DEF FrameIsSound
<1>13. view.sid \in wrappers[f.epoch].served
  BY <1>2 DEF StreamInv, ChannelIsSound
<1> QED
  BY <1>1, <1>2, <1>3, <1>4, <1>5, <1>6, <1>7, <1>8, <1>10, <1>11, <1>12, <1>13

\* What a handler makes of the page.
ViewAfter(f) ==
  \/ f.kind = "moved" /\ view' = Feed!Led(view, f.sid)
  \/ f.kind = "snapshot" /\ view' = IF f.sid = view.sid THEN Shown(f) ELSE Lost
  \/ /\ f.kind = "event" /\ (Synced \/ (view.epoch = 0 /\ LeadsTo(f) = 0))
     /\ view' = Feed!Led(Shown(f), LeadsTo(f))
  \/ f.kind = "event" /\ view.epoch = 0 /\ ~Synced /\ view' = Feed!Led(view, LeadsTo(f))

\* It has applied the frame or passed it over, and the connection is closed, or goes on
\* with the next frame.
LEMMA HandleIs ==
  ASSUME StreamAssumption, StreamInv, channel # <<>>, NEW f, f = Head(channel), Handle(f)
  PROVE  /\ tab'.sid = tab.sid
         /\ tab' \in [sid : Sid, cursor : Cursor, deltas : BOOLEAN, ready : BOOLEAN,
                      base : Nat, retry : BOOLEAN]
         /\ ViewAfter(f)
         /\ f.kind = "moved" => UNCHANGED tab
         /\ f.kind # "moved" => /\ tab'.cursor = At(f)
                                /\ tab'.base = BaseAfter(tab.base, f.type, f.seq)
         /\ Close \/ Passed
<1>1. /\ f.epoch \in Nat /\ f.epoch # 0 /\ f.seq \in Nat
      /\ f.kind = "moved" => f.type = "replaced"
      /\ f.kind = "snapshot" => f.type = "snapshot"
      /\ f.kind = "event" => /\ f.epoch = tab.cursor.epoch /\ f.seq = tab.cursor.seq + 1
                             /\ Synced \/ (view.epoch = 0 /\ ~Synced)
      /\ f.kind \in {"event", "snapshot", "moved"}
  BY HeadIs
<1>2. TypeOK /\ tab.cursor.seq \in Nat /\ tab.base \in Nat
  BY StateTyped DEF StreamInv
<1> DEFINE A == Advance(f)
<1>3. /\ A \in [sid : Sid, cursor : Cursor, deltas : BOOLEAN, ready : BOOLEAN,
                base : Nat, retry : BOOLEAN]
      /\ A.sid = tab.sid /\ A.cursor = At(f) /\ A.base = BaseAfter(tab.base, f.type, f.seq)
  <2>1. At(f) \in Cursor
    BY <1>1 DEF At, Cursor
  <2>2. BaseAfter(tab.base, f.type, f.seq) \in Nat
    BY <1>1, <1>2, NoCursorTyped DEF BaseAfter
  <2>3. A = [tab EXCEPT !.cursor = At(f), !.base = BaseAfter(tab.base, f.type, f.seq)]
    BY DEF Advance
  <2> HIDE DEF A
  <2> QED
    BY <1>2, <2>1, <2>2, <2>3 DEF TypeOK
<1>4. ASSUME f.kind = "event", Synced
      PROVE  view.epoch = f.epoch /\ [view EXCEPT !.seen = Append(@, f.seq)] = Shown(f)
  <2>1. /\ view.epoch = f.epoch /\ view.seen = Feed!UpTo(tab.cursor.seq)
        /\ Append(Feed!UpTo(tab.cursor.seq), f.seq) = Feed!UpTo(f.seq)
    BY <1>1, <1>2, <1>4, UpToIs DEF Synced
  <2>2. view \in View
    BY <1>2 DEF TypeOK, View
  <2> DEFINE s == Feed!UpTo(f.seq)  t == Append(view.seen, f.seq)
  <2>3. s = t
    BY <2>1
  <2>4. [view EXCEPT !.seen = t] = [view EXCEPT !.epoch = f.epoch, !.seen = s]
    <3> HIDE DEF s, t
    <3> QED
      BY <2>1, <2>2, <2>3 DEF View
  <2> QED
    BY <2>1, <2>4 DEF Shown
<1>5. ASSUME f.kind = "event", Apply(f) PROVE ViewAfter(f)
  <2>1. CASE Synced
    BY <1>4, <1>5, <2>1 DEF Apply, ViewAfter
  <2>2. CASE view.epoch = 0 /\ ~Synced
    BY <1>1, <1>5, <2>2 DEF Apply, ViewAfter
  <2> QED
    BY <1>1, <1>5, <2>1, <2>2
<1> HIDE DEF A
<1>6. CASE f.kind = "moved" /\ view' = Feed!Led(view, f.sid) /\ UNCHANGED tab /\ Passed
  BY <1>2, <1>6 DEF TypeOK, ViewAfter
<1>7. CASE /\ f.kind # "moved" /\ f.type = "snapshot"
           /\ ApplySnapshot(f)
           /\ tab' = [A EXCEPT !.ready = TRUE] /\ Passed
  <2>1. ViewAfter(f)
    <3>1. CASE f.kind = "snapshot"
      BY <1>7, <3>1 DEF ApplySnapshot, ViewAfter, Shown, Lost
    <3>2. CASE f.kind = "event" /\ f.sid = view.sid
      <4>1. view' = Shown(f) /\ LeadsTo(f) = 0
        BY <1>7, <3>2 DEF ApplySnapshot, Shown, LeadsTo, Turns
      <4>2. Feed!Led(Shown(f), 0) = Shown(f)
        BY DEF Feed!Led
      <4> QED
        BY <1>1, <3>2, <4>1, <4>2 DEF ViewAfter
    <3>3. CASE f.kind = "event" /\ f.sid # view.sid
      BY <1>5, <1>7, <3>3 DEF ApplySnapshot
    <3> QED
      BY <1>1, <1>7, <3>1, <3>2, <3>3
  <2>2. /\ tab'.sid = A.sid /\ tab'.cursor = A.cursor /\ tab'.base = A.base
        /\ tab' \in [sid : Sid, cursor : Cursor, deltas : BOOLEAN, ready : BOOLEAN,
                     base : Nat, retry : BOOLEAN]
    BY <1>3, <1>7
  <2> QED
    BY <1>3, <1>7, <2>1, <2>2
<1>8. CASE f.type = "closed" /\ Apply(f) /\ tab' = [A EXCEPT !.ready = FALSE] /\ Close
  <2>1. f.kind = "event" /\ ViewAfter(f)
    BY <1>1, <1>5, <1>8
  <2>2. /\ tab'.sid = A.sid /\ tab'.cursor = A.cursor /\ tab'.base = A.base
        /\ tab' \in [sid : Sid, cursor : Cursor, deltas : BOOLEAN, ready : BOOLEAN,
                     base : Nat, retry : BOOLEAN]
    BY <1>3, <1>8
  <2> QED
    BY <1>3, <1>8, <2>1, <2>2
<1>9. CASE f.type = "restart" /\ Apply(f) /\ tab' = [A EXCEPT !.retry = TRUE] /\ Close
  <2>1. f.kind = "event" /\ ViewAfter(f)
    BY <1>1, <1>5, <1>9
  <2>2. /\ tab'.sid = A.sid /\ tab'.cursor = A.cursor /\ tab'.base = A.base
        /\ tab' \in [sid : Sid, cursor : Cursor, deltas : BOOLEAN, ready : BOOLEAN,
                     base : Nat, retry : BOOLEAN]
    BY <1>3, <1>9
  <2> QED
    BY <1>3, <1>9, <2>1, <2>2
<1>10. CASE /\ f.kind # "moved"
            /\ f.type \in {"update", "end", "other", "replaced", "restored"}
            /\ Apply(f) /\ tab' = A /\ Passed
  <2>1. f.kind = "event" /\ ViewAfter(f)
    BY <1>1, <1>5, <1>10
  <2> QED
    BY <1>3, <1>10, <2>1
<1> QED
  BY <1>6, <1>7, <1>8, <1>9, <1>10 DEF Handle, A

\* What there is to know of the page then.
LEMMA ViewAfterIs ==
  ASSUME StreamAssumption, StreamInv, channel # <<>>, NEW f, f = Head(channel), Handle(f)
  PROVE  /\ view' \in View /\ view'.sid \in wrappers[f.epoch].served
         /\ ~view'.turned => ~view.turned /\ view'.sid = view.sid
         /\ f.kind = "moved" => /\ view'.epoch = view.epoch /\ view'.seen = view.seen
                                /\ view'.turned \/ view.turned
         /\ f.kind # "moved" => \/ Synced'
                                \/ view'.epoch = 0 /\ view'.seen = <<>>
         /\ f.kind = "event" /\ Synced => Synced'
         /\ f.kind = "snapshot" /\ f.sid = view.sid => Synced'
<1>1. /\ f.epoch \in Nat /\ f.epoch # 0 /\ f.seq \in Nat /\ f.sid \in Sid
      /\ f.kind = "moved" => LeadsTo(f) = f.sid /\ f.sid # tab.sid
      /\ LeadsTo(f) \in Sid \cup {0} /\ LeadsTo(f) \in wrappers[f.epoch].served \cup {0}
      /\ view.sid \in wrappers[f.epoch].served
      /\ f.kind \in {"event", "snapshot", "moved"}
  BY HeadIs
<1>2. TypeOK /\ TabIsSound
  BY DEF StreamInv
<1>3. ViewAfter(f) /\ (f.kind # "moved" => tab'.cursor = At(f)) /\ (f.kind = "moved" => UNCHANGED tab)
  BY HandleIs
<1>4. /\ view \in View
      /\ Shown(f) \in View /\ Shown(f).epoch = f.epoch /\ Shown(f).seen = Feed!UpTo(f.seq)
      /\ Shown(f).sid = view.sid /\ Shown(f).turned = view.turned
      /\ Lost \in View /\ Lost.epoch = 0 /\ Lost.seen = <<>>
      /\ Lost.sid = view.sid /\ Lost.turned = view.turned
  BY <1>1, <1>2, ShownIs
<1>5. f.kind # "moved" => tab'.cursor.epoch = f.epoch /\ tab'.cursor.seq = f.seq
  BY <1>3 DEF At
<1>6. view.epoch = 0 => view.seen = <<>>
  BY <1>2 DEF TabIsSound
<1>7. 0 \notin Sid
  BY DEF Sid, StreamAssumption
<1>8. CASE f.kind = "moved" /\ view' = Feed!Led(view, f.sid)
  <2>1. /\ view' \in View /\ view'.epoch = view.epoch /\ view'.seen = view.seen
        /\ view'.sid = f.sid
        /\ ~view'.turned => ~view.turned /\ view'.sid = view.sid
    BY <1>1, <1>4, <1>7, <1>8, LedIs
  <2>2. view'.turned \/ view.turned
    <3>1. ~view.turned => view.sid = tab.sid
      BY <1>2 DEF TabIsSound
    <3> QED
      BY <1>1, <1>8, <2>1, <3>1
  <2>3. f.sid \in wrappers[f.epoch].served
    BY <1>1, <1>7, <1>8
  <2> QED
    BY <1>8, <2>1, <2>2, <2>3
<1>9. CASE f.kind = "snapshot" /\ view' = IF f.sid = view.sid THEN Shown(f) ELSE Lost
  <2>1. CASE f.sid = view.sid
    <3>1. Synced'
      BY <1>4, <1>5, <1>9, <2>1 DEF Synced
    <3> QED
      BY <1>1, <1>4, <1>9, <2>1, <3>1
  <2>2. CASE f.sid # view.sid
    BY <1>1, <1>4, <1>9, <2>2
  <2> QED
    BY <2>1, <2>2
<1>10. CASE f.kind = "event" /\ view' = Feed!Led(Shown(f), LeadsTo(f))
  <2>1. /\ view' \in View /\ view'.epoch = f.epoch /\ view'.seen = Feed!UpTo(f.seq)
        /\ view'.sid = IF LeadsTo(f) = 0 THEN view.sid ELSE LeadsTo(f)
        /\ ~view'.turned => ~view.turned /\ view'.sid = view.sid
    BY <1>1, <1>4, <1>10, LedIs
  <2>2. Synced'
    BY <1>5, <1>10, <2>1 DEF Synced
  <2> QED
    BY <1>1, <1>10, <2>1, <2>2
<1>11. CASE /\ f.kind = "event" /\ view.epoch = 0 /\ ~Synced
            /\ view' = Feed!Led(view, LeadsTo(f))
  <2>1. /\ view' \in View /\ view'.epoch = 0 /\ view'.seen = <<>>
        /\ view'.sid = IF LeadsTo(f) = 0 THEN view.sid ELSE LeadsTo(f)
        /\ ~view'.turned => ~view.turned /\ view'.sid = view.sid
    BY <1>1, <1>4, <1>6, <1>11, LedIs
  <2> QED
    BY <1>1, <1>11, <2>1
<1> QED
  BY <1>3, <1>8, <1>9, <1>10, <1>11 DEF ViewAfter

LEMMA TailIs ==
  ASSUME TypeOK, channel # <<>>, channel' = Tail(channel)
  PROVE  /\ channel' \in Seq(Frame) /\ Len(channel') = Len(channel) - 1 /\ Len(channel) \in Nat
         /\ DOMAIN channel' = 1..(Len(channel) - 1)
         /\ \A i \in DOMAIN channel' : i + 1 \in DOMAIN channel /\ channel'[i] = channel[i + 1]
         /\ channel' = <<>> <=> Len(channel) = 1
<1>1. channel \in Seq(Frame) /\ Len(channel) \in Nat /\ DOMAIN channel = 1..Len(channel)
  BY StateTyped
<1>2. /\ channel' \in Seq(Frame) /\ Len(channel') = Len(channel) - 1
      /\ \A i \in 1..Len(channel') : channel'[i] = channel[i + 1]
  BY <1>1, HeadTailProperties
<1>3. DOMAIN channel' = 1..Len(channel') /\ (channel' = <<>> <=> Len(channel') = 0)
  BY <1>2
<1> QED
  BY <1>1, <1>2, <1>3

LEMMA HandleKeepsTab ==
  ASSUME StreamAssumption, StreamInv, es = "open", channel # <<>>, NEW f, f = Head(channel),
         Handle(f), UNCHANGED <<wrappers, faults, forced>>
  PROVE  TypeOK' /\ TabIsSound'
<1>1. /\ f.epoch \in Nat /\ f.seq \in Nat /\ f.epoch # 0
      /\ f.kind \in {"event", "snapshot", "moved"}
      /\ f.epoch \in DOMAIN wrappers
      /\ f.kind # "moved" => f.seq \in 0..Published(f.epoch)
  BY HeadIs
<1>2. /\ tab'.sid = tab.sid
      /\ tab' \in [sid : Sid, cursor : Cursor, deltas : BOOLEAN, ready : BOOLEAN,
                   base : Nat, retry : BOOLEAN]
      /\ f.kind = "moved" => UNCHANGED tab
      /\ f.kind # "moved" => tab'.cursor = At(f)
      /\ Close \/ Passed
  BY HandleIs
<1>3. /\ view' \in View
      /\ ~view'.turned => ~view.turned /\ view'.sid = view.sid
      /\ f.kind = "moved" => view'.epoch = view.epoch /\ view'.seen = view.seen
      /\ f.kind # "moved" => Synced' \/ (view'.epoch = 0 /\ view'.seen = <<>>)
  BY ViewAfterIs
<1>4. TypeOK /\ TabIsSound
  BY DEF StreamInv
<1>5. /\ es' \in {"open", "none"} /\ conn' \in {conn, NoConn} /\ channel' \in Seq(Frame)
      /\ es' = "none" => conn' = NoConn /\ channel' = <<>>
  <2>1. CASE Close
    BY <2>1, NoCursorTyped DEF Close
  <2>2. CASE Passed
    BY <1>4, <2>2, TailIs DEF Passed
  <2> QED
    BY <1>2, <2>1, <2>2
<1>6. TypeOK'
  BY <1>2, <1>3, <1>4, <1>5, NoCursorTyped DEF TypeOK, View
<1>7. ~view'.turned => view'.sid = tab'.sid
  BY <1>2, <1>3, <1>4 DEF TabIsSound
<1>8. CASE f.kind = "moved"
  BY <1>2, <1>3, <1>4, <1>5, <1>6, <1>7, <1>8 DEF TabIsSound, Synced, Published
<1>9. CASE f.kind # "moved"
  <2>1. /\ tab'.cursor.epoch = f.epoch /\ tab'.cursor.seq = f.seq
        /\ f.seq \in 0..Published(f.epoch)' /\ f.epoch \in DOMAIN wrappers'
    BY <1>1, <1>2, <1>9 DEF At, Published
  <2>2. f.seq <= Published(f.epoch)'
    BY <2>1
  <2>3. CASE Synced'
    <3>1. view'.epoch = f.epoch /\ view'.seen = Feed!UpTo(f.seq)
      BY <2>1, <2>3 DEF Synced
    <3> QED
      BY <1>1, <1>5, <1>6, <1>7, <2>1, <2>2, <2>3, <3>1 DEF TabIsSound, Published
  <2>4. CASE view'.epoch = 0 /\ view'.seen = <<>>
    BY <1>5, <1>6, <1>7, <2>1, <2>2, <2>4 DEF TabIsSound, Published
  <2> QED
    BY <1>3, <1>9, <2>3, <2>4
<1> QED
  BY <1>6, <1>8, <1>9

\* The rest of the channel stays sound when its first frame has been handled.
LEMMA PassedKeepsChannel ==
  ASSUME StreamAssumption, StreamInv, es = "open", channel # <<>>, NEW f, f = Head(channel),
         Handle(f), Passed, UNCHANGED <<wrappers, faults, forced>>
  PROVE  ChannelIsSound' /\ ConnIsSound'
<1>1. /\ f = channel[1] /\ 1 \in DOMAIN channel /\ f.epoch \in Nat /\ f.epoch # 0
      /\ f.seq \in Nat
      /\ f.kind \in {"event", "snapshot", "moved"}
  BY HeadIs
<1>2. /\ tab'.sid = tab.sid
      /\ f.kind # "moved" => tab'.cursor = At(f)
      /\ f.kind = "moved" => UNCHANGED tab
  BY HandleIs
<1>3. /\ view'.sid \in wrappers[f.epoch].served
      /\ ~view'.turned => ~view.turned /\ view'.sid = view.sid
      /\ f.kind = "moved" => /\ view'.epoch = view.epoch /\ view'.seen = view.seen
                             /\ view'.turned \/ view.turned
      /\ f.kind # "moved" => Synced' \/ (view'.epoch = 0 /\ view'.seen = <<>>)
      /\ f.kind = "event" /\ Synced => Synced'
      /\ f.kind = "snapshot" /\ f.sid = view.sid => Synced'
  BY ViewAfterIs
<1>4. /\ TypeOK /\ TabIsSound /\ ChannelIsSound /\ ConnIsSound /\ conn' = conn
      /\ channel' = Tail(channel) /\ FrameIsSound(1)
  BY <1>1 DEF StreamInv, Passed, ChannelIsSound
<1>5. /\ Len(channel') = Len(channel) - 1 /\ Len(channel) \in Nat
      /\ DOMAIN channel' = 1..(Len(channel) - 1) /\ DOMAIN channel = 1..Len(channel)
      /\ \A i \in DOMAIN channel' : i + 1 \in DOMAIN channel /\ channel'[i] = channel[i + 1]
      /\ channel' = <<>> <=> Len(channel) = 1
  BY <1>4, TailIs, StateTyped
<1>6. channel' # <<>> => 1 \in DOMAIN channel' /\ channel'[1].epoch = f.epoch
  <2> SUFFICES ASSUME channel' # <<>> PROVE 1 \in DOMAIN channel' /\ channel'[1].epoch = f.epoch
    OBVIOUS
  <2>1. 1 \in DOMAIN channel' /\ 2 \in DOMAIN channel /\ channel'[1] = channel[2]
    BY <1>1, <1>5
  <2>2. channel[2].epoch = channel[1].epoch
    BY <1>4, <2>1 DEF ChannelIsSound, FrameIsSound
  <2> QED
    BY <1>1, <2>1, <2>2
<1>7. ASSUME NEW i \in DOMAIN channel' PROVE FrameIsSound(i)'
  <2> DEFINE g == channel[i + 1]
  <2>1. /\ i + 1 \in DOMAIN channel /\ channel'[i] = g /\ FrameIsSound(i + 1)
        /\ i \in Nat /\ i >= 1 /\ i + 1 # 1 /\ (i + 1) - 1 = i
    BY <1>4, <1>5 DEF ChannelIsSound
  <2>2. g.epoch = f.epoch /\ channel'[1].epoch = f.epoch /\ f.epoch \in DOMAIN wrappers
    BY <1>1, <1>4, <1>6, <2>1 DEF FrameIsSound
  <2>3. g.kind # "moved"
    BY <2>1 DEF FrameIsSound, MoveIsSound
  <2>4. LeadsTo(g) \in wrappers[g.epoch].served \cup {0}
    BY <2>1 DEF FrameIsSound
  <2>5. f.kind # "moved" => f.seq <= g.seq
    <3>1. 1 \in 1..((i + 1) - 1)
      BY <2>1
    <3> QED
      BY <1>1, <2>1, <2>3, <3>1 DEF FrameIsSound
  <2>6. ASSUME g.kind = "snapshot" PROVE SnapshotIsSound(i)'
    <3>1. SnapshotIsSound(i + 1)
      BY <2>1, <2>6 DEF FrameIsSound
    <3>2. /\ g.type = "snapshot" /\ g.seq <= Published(g.epoch)
          /\ g.sid \in wrappers[g.epoch].served
          /\ view.epoch = g.epoch => Len(view.seen) <= g.seq
      BY <3>1 DEF SnapshotIsSound
    <3>3. view'.epoch = g.epoch => Len(view'.seen) <= g.seq
      <4>1. CASE f.kind = "moved"
        BY <1>3, <3>2, <4>1
      <4>2. CASE f.kind # "moved" /\ Synced'
        <5>1. view'.seen = Feed!UpTo(f.seq)
          BY <1>2, <4>2 DEF Synced, At
        <5>2. Len(view'.seen) = f.seq
          BY <1>1, <5>1, UpToIs
        <5> QED
          BY <2>5, <4>2, <5>2
      <4>3. CASE f.kind # "moved" /\ view'.epoch = 0
        BY <1>1, <2>2, <4>3
      <4> QED
        BY <1>3, <4>1, <4>2, <4>3
    <3> HIDE DEF g
    <3> QED
      BY <2>1, <3>2, <3>3 DEF SnapshotIsSound, Published
  <2>7. ASSUME g.kind = "event" PROVE EventIsSound(i)'
    <3>1. EventIsSound(i + 1)
      BY <2>1, <2>7 DEF FrameIsSound
    <3>2. /\ g.seq \in DOMAIN wrappers[g.epoch].entries
          /\ LeadsTo(g) = LeadsTo(wrappers[g.epoch].entries[g.seq])
          /\ channel[i].kind # "moved" /\ g.seq = channel[i].seq + 1
      BY <2>1, <3>1 DEF EventIsSound
    <3>3. IF i = 1 THEN g.epoch = tab'.cursor.epoch /\ g.seq = tab'.cursor.seq + 1
          ELSE channel'[i - 1].kind # "moved" /\ g.seq = channel'[i - 1].seq + 1
      <4>1. CASE i = 1
        <5>1. f.kind # "moved" /\ g.seq = f.seq + 1
          BY <1>1, <3>2, <4>1
        <5> QED
          BY <1>2, <2>2, <4>1, <5>1 DEF At
      <4>2. CASE i # 1
        <5>1. i - 1 \in DOMAIN channel' /\ (i - 1) + 1 = i
          BY <1>5, <2>1, <4>2
        <5>2. channel'[i - 1] = channel[i]
          BY <1>5, <5>1
        <5> QED
          BY <3>2, <4>2, <5>2
      <4> QED
        BY <4>1, <4>2
    <3> HIDE DEF g
    <3> QED
      BY <2>1, <3>2, <3>3 DEF EventIsSound
  <2>8. \A h \in 1..(i - 1) : channel'[h].kind # "moved" => channel'[h].seq <= g.seq
    <3> SUFFICES ASSUME NEW h \in 1..(i - 1), channel'[h].kind # "moved"
                 PROVE  channel'[h].seq <= g.seq
      OBVIOUS
    <3>1. h \in DOMAIN channel' /\ h + 1 \in 1..((i + 1) - 1)
      BY <1>5, <2>1
    <3>2. channel'[h] = channel[h + 1]
      BY <1>5, <3>1
    <3> QED
      BY <2>1, <2>3, <3>1, <3>2 DEF FrameIsSound
  <2> HIDE DEF g
  <2> QED
    BY <2>1, <2>2, <2>3, <2>4, <2>6, <2>7, <2>8 DEF FrameIsSound
<1>8. ConnIsSound'
  <2> SUFFICES ASSUME conn'.epoch # 0 PROVE ConnIsSound'
    BY DEF ConnIsSound
  <2>1. /\ conn.epoch \in DOMAIN wrappers /\ wrappers[conn.epoch].alive
        /\ conn.epoch = f.epoch
        /\ channel[Len(channel)].kind # "moved"
        /\ channel[Len(channel)].seq = Published(conn.epoch)
    BY <1>1, <1>4 DEF ConnIsSound
  <2>2. ASSUME channel' = <<>>
        PROVE  conn.epoch = tab'.cursor.epoch /\ tab'.cursor.seq = Published(conn.epoch)
    <3>1. f.kind # "moved" /\ f.seq = Published(conn.epoch)
      BY <1>1, <1>5, <2>1, <2>2
    <3> QED
      BY <1>2, <2>1, <3>1 DEF At
  <2>3. ASSUME channel' # <<>>
        PROVE  /\ conn.epoch = channel'[1].epoch
               /\ channel'[Len(channel')] = channel[Len(channel)]
    <3>1. Len(channel') \in DOMAIN channel' /\ Len(channel') + 1 = Len(channel)
      BY <1>5, <1>6, <2>3
    <3> QED
      BY <1>5, <1>6, <2>1, <2>3, <3>1
  <2>4. ASSUME ~conn.stray, ~view'.turned PROVE Follows'
    <3>1. Follows /\ ~view.turned
      BY <1>3, <1>4, <2>4 DEF ConnIsSound
    <3>2. view.sid = tab.sid /\ f.kind # "moved"
      BY <1>3, <1>4, <2>4, <3>1 DEF TabIsSound
    <3>3. \A i \in DOMAIN channel : channel[i].kind = "snapshot" => channel[i].sid = tab.sid
      BY <1>1, <3>1, <3>2 DEF Follows
    <3>4. \A i \in DOMAIN channel' : channel'[i].kind = "snapshot" => channel'[i].sid = tab'.sid
      BY <1>2, <1>5, <3>3
    <3>5. Synced' \/ \E i \in DOMAIN channel' : channel'[i].kind = "snapshot"
      <4>1. CASE f.kind = "snapshot"
        BY <1>1, <1>3, <3>2, <3>3, <4>1
      <4>2. CASE Synced /\ f.kind = "event"
        BY <1>3, <4>2
      <4>3. CASE f.kind = "event" /\ \E i \in DOMAIN channel : channel[i].kind = "snapshot"
        <5>1. PICK i \in DOMAIN channel : channel[i].kind = "snapshot"
          BY <4>3
        <5>2. i # 1
          BY <1>1, <4>3, <5>1
        <5>3. i - 1 \in DOMAIN channel' /\ (i - 1) + 1 = i
          BY <1>5, <5>2
        <5>4. channel'[i - 1] = channel[i]
          BY <1>5, <5>3
        <5> QED
          BY <5>1, <5>3, <5>4
      <4> QED
        BY <1>1, <3>1, <3>2, <4>1, <4>2, <4>3 DEF Follows
    <3> QED
      BY <3>4, <3>5 DEF Follows
  <2> QED
    BY <1>3, <1>4, <2>1, <2>2, <2>3, <2>4 DEF ConnIsSound, Published
<1>9. channel' # <<>> => view'.sid \in wrappers'[channel'[1].epoch].served
  BY <1>3, <1>6
<1> QED
  BY <1>7, <1>8, <1>9 DEF ChannelIsSound

LEMMA PassedKeepsDeltas ==
  ASSUME StreamAssumption, StreamInv, channel # <<>>, NEW f, f = Head(channel),
         Handle(f), Passed
  PROVE  DeltasAreSound'
<1>1. /\ f = channel[1] /\ 1 \in DOMAIN channel /\ f.kind \in {"event", "snapshot", "moved"}
      /\ f.kind = "moved" => f.type = "replaced"
  BY HeadIs
<1>2. /\ f.kind = "moved" => UNCHANGED tab
      /\ f.kind # "moved" => tab'.base = BaseAfter(tab.base, f.type, f.seq)
  BY HandleIs
<1>3. TypeOK /\ conn' = conn /\ channel' = Tail(channel)
  BY DEF StreamInv, Passed
<1>4. /\ Len(channel') = Len(channel) - 1 /\ Len(channel) \in Nat
      /\ DOMAIN channel' = 1..(Len(channel) - 1) /\ DOMAIN channel = 1..Len(channel)
      /\ \A i \in DOMAIN channel' : i + 1 \in DOMAIN channel /\ channel'[i] = channel[i + 1]
  BY <1>3, TailIs, StateTyped
<1>5. PICK b \in [1..(Len(channel) + 1) -> Nat] : BasesAre(b)
  BY DEF StreamInv, DeltasAreSound
<1>6. PICK m \in Nat : m = Len(channel)
  BY <1>4
<1> DEFINE c == [i \in 1..m |-> b[i + 1]]
<1>7. c \in [1..(Len(channel') + 1) -> Nat] /\ \A i \in 1..m : c[i] = b[i + 1]
  <2>1. Len(channel') + 1 = m /\ \A i \in 1..m : i + 1 \in 1..(m + 1)
    BY <1>4, <1>6
  <2> QED
    BY <1>5, <1>6, <2>1
<1> HIDE DEF c
<1>8. BasesAre(c)'
  <2>1. m >= 1
    BY <1>1, <1>4, <1>6
  <2>2. /\ b[1] = tab.base /\ b[1 + 1] = BaseAfter(b[1], f.type, f.seq)
        /\ f.kind = "moved" => b[1] = 0
    BY <1>1, <1>5 DEF BasesAre
  <2>3. c[1] = tab'.base
    <3>1. c[1] = b[1 + 1]
      BY <1>7, <2>1
    <3>2. CASE f.kind = "moved"
      <4>1. BaseAfter(0, f.type, f.seq) = 0
        BY <1>1, <3>2 DEF BaseAfter
      <4> QED
        BY <1>2, <2>2, <3>1, <3>2, <4>1
    <3>3. CASE f.kind # "moved"
      BY <1>2, <2>2, <3>1, <3>3
    <3> QED
      BY <3>2, <3>3
  <2>4. ASSUME NEW i \in DOMAIN channel'
        PROVE  /\ c[i + 1] = BaseAfter(c[i], channel'[i].type, channel'[i].seq)
               /\ channel'[i].kind = "moved" => c[i] = 0
               /\ channel'[i].delta \in (IF channel'[i].kind = "event" THEN {0, c[i]} ELSE {0})
    <3>1. /\ i \in 1..m /\ i + 1 \in 1..m /\ i + 1 \in DOMAIN channel
          /\ channel'[i] = channel[i + 1]
      BY <1>4, <1>6
    <3>2. c[i] = b[i + 1] /\ c[i + 1] = b[(i + 1) + 1]
      BY <1>7, <3>1
    <3>3. PICK j : j = i + 1
      OBVIOUS
    <3>4. /\ b[j + 1] = BaseAfter(b[j], channel[j].type, channel[j].seq)
          /\ channel[j].kind = "moved" => b[j] = 0
          /\ channel[j].delta \in (IF channel[j].kind = "event" THEN {0, b[j]} ELSE {0})
      BY <1>5, <3>1, <3>3 DEF BasesAre
    <3> QED
      BY <3>1, <3>2, <3>3, <3>4
  <2>5. conn'.epoch # 0 => c[Len(channel') + 1] = conn'.base
    <3>1. Len(channel') + 1 = m /\ c[m] = b[m + 1]
      BY <1>4, <1>6, <1>7, <2>1
    <3>2. conn.epoch # 0 => b[m + 1] = conn.base
      BY <1>5, <1>6 DEF BasesAre
    <3> QED
      BY <1>3, <3>1, <3>2
  <2> QED
    BY <2>3, <2>4, <2>5 DEF BasesAre
<1> QED
  BY <1>7, <1>8 DEF DeltasAreSound

LEMMA ReceiveKeeps ==
  ASSUME StreamAssumption, StreamInv, Receive
  PROVE  StreamInv'
<1>1. PICK f : f = Head(channel)
  OBVIOUS
<1>2. /\ es = "open" /\ channel # <<>> /\ UNCHANGED <<wrappers, faults, forced>>
      /\ IF Duplicate(f)
         THEN channel' = Tail(channel) /\ UNCHANGED <<es, conn, tab, view>>
         ELSE IF Decodes(f) THEN Handle(f) ELSE Recover
  BY <1>1 DEF Receive
<1>3. ~Duplicate(f)
  <2>1. f.kind = "event" => f.seq = tab.cursor.seq + 1
    BY <1>1, <1>2, HeadIs
  <2>2. tab.cursor.seq \in Nat
    BY StateTyped DEF StreamInv
  <2> QED
    BY <2>1, <2>2 DEF Duplicate
<1>4. CASE Recover
  <2>1. faults' \in Nat
    BY <1>2 DEF StreamInv, TypeOK
  <2> QED
    BY <1>2, <1>4, <2>1, RecoverKeeps
<1>5. CASE Handle(f)
  <2>1. TypeOK' /\ TabIsSound'
    BY <1>1, <1>2, <1>5, HandleKeepsTab
  <2>2. CASE Passed
    <3>1. ChannelIsSound' /\ ConnIsSound'
      BY <1>1, <1>2, <1>5, <2>2, PassedKeepsChannel
    <3>2. DeltasAreSound'
      BY <1>1, <1>2, <1>5, <2>2, PassedKeepsDeltas
    <3>3. RuntimesAreSound'
      BY <1>2 DEF StreamInv, RuntimesAreSound
    <3> QED
      BY <2>1, <3>1, <3>2, <3>3 DEF StreamInv
  <2>3. CASE Close
    BY <1>2, <2>1, <2>3, ClosingStep DEF Close
  <2> QED
    BY <1>1, <1>2, <1>5, <2>2, <2>3, HandleIs
<1> QED
  BY <1>2, <1>3, <1>4, <1>5

-----------------------------------------------------------------------------
\* The response of the route.

\* The baseline after the records that are replayed is the one of a transport that
\* sends them one by one.
LEMMA BaseOverStep ==
  ASSUME StreamAssumption, NEW w, NEW r \in Nat, NEW ks \in [1..r -> Nat]
  PROVE  /\ BaseOver(w, ks, 0) = 0
         /\ \A i \in 0..r : BaseOver(w, ks, i) \in Nat
         /\ \A i \in 1..r : BaseOver(w, ks, i)
              = BaseAfter(BaseOver(w, ks, i - 1), w.entries[ks[i]].type, ks[i])
<1> DEFINE T(j) == w.entries[ks[j]].type
           M(i) == {j \in 1..i : T(j) = "update"
                                 /\ \A h \in (j + 1)..i : T(h) \notin Resets \cup {"update"}}
<1>1. \A i : BaseOver(w, ks, i) = IF M(i) = {} THEN 0 ELSE ks[CHOOSE j \in M(i) : TRUE]
  BY DEF BaseOver
<1>2. \A i \in 0..r : M(i) \subseteq 1..r
  OBVIOUS
<1>3. M(0) = {}
  OBVIOUS
<1>4. "update" \notin Resets
  BY DEF Resets, Last
<1>5. ASSUME NEW i \in 1..r
      PROVE  /\ T(i) = "update" => M(i) = {i}
             /\ T(i) \in Resets => M(i) = {}
             /\ T(i) # "update" /\ T(i) \notin Resets => M(i) = M(i - 1)
  <2>1. i \in Nat /\ i >= 1 /\ i - 1 \in Nat
    OBVIOUS
  <2>2. ASSUME NEW j \in 1..i, j # i PROVE i \in (j + 1)..i /\ j \in 1..(i - 1)
    BY <2>1, <2>2
  <2>3. ASSUME T(i) = "update" PROVE M(i) = {i}
    <3>1. i \in M(i)
      BY <2>1, <2>3
    <3>2. ASSUME NEW j \in M(i) PROVE j = i
      BY <2>2, <2>3, <3>2
    <3> HIDE DEF M
    <3> QED
      BY <3>1, <3>2
  <2>4. ASSUME T(i) \in Resets PROVE M(i) = {}
    <3>1. ASSUME NEW j \in M(i) PROVE FALSE
      <4>1. j # i
        BY <1>4, <2>4, <3>1
      <4> QED
        BY <2>2, <2>4, <3>1, <4>1
    <3> HIDE DEF M
    <3> QED
      BY <3>1
  <2>5. ASSUME T(i) # "update", T(i) \notin Resets PROVE M(i) = M(i - 1)
    <3>1. ASSUME NEW j \in M(i) PROVE j \in M(i - 1)
      <4>1. j \in 1..(i - 1)
        BY <2>2, <2>5, <3>1
      <4>2. (j + 1)..(i - 1) \subseteq (j + 1)..i
        BY <2>1, <4>1
      <4> HIDE DEF T
      <4> QED
        BY <3>1, <4>1, <4>2
    <3>2. ASSUME NEW j \in M(i - 1) PROVE j \in M(i)
      <4>1. j \in 1..i /\ \A h \in (j + 1)..i : h = i \/ h \in (j + 1)..(i - 1)
        BY <2>1, <3>2
      <4> HIDE DEF T
      <4> QED
        BY <2>5, <3>2, <4>1
    <3> HIDE DEF M
    <3> QED
      BY <3>1, <3>2
  <2> QED
    BY <2>3, <2>4, <2>5
<1> HIDE DEF M, T
<1>6. ASSUME NEW i \in 0..r PROVE BaseOver(w, ks, i) \in Nat
  <2>1. CASE M(i) = {}
    BY <1>1, <2>1, NoCursorTyped
  <2>2. CASE M(i) # {}
    <3>1. (CHOOSE j \in M(i) : TRUE) \in M(i)
      BY <2>2
    <3>2. (CHOOSE j \in M(i) : TRUE) \in 1..r
      BY <1>2, <3>1
    <3> QED
      BY <1>1, <2>2, <3>2
  <2> QED
    BY <2>1, <2>2
<1>7. ASSUME NEW i \in 1..r
      PROVE  BaseOver(w, ks, i) = BaseAfter(BaseOver(w, ks, i - 1), T(i), ks[i])
  <2>1. CASE T(i) = "update"
    <3>1. M(i) = {i}
      BY <1>5, <2>1
    <3>2. (CHOOSE j \in {i} : TRUE) = i
      OBVIOUS
    <3> QED
      BY <1>1, <2>1, <3>1, <3>2 DEF BaseAfter
  <2>2. CASE T(i) \in Resets
    BY <1>1, <1>4, <1>5, <2>2 DEF BaseAfter
  <2>3. CASE T(i) # "update" /\ T(i) \notin Resets
    <3>1. M(i) = M(i - 1)
      BY <1>5, <2>3
    <3> QED
      BY <1>1, <2>3, <3>1 DEF BaseAfter
  <2> QED
    BY <2>1, <2>2, <2>3
<1> QED
  BY <1>1, <1>3, <1>6, <1>7 DEF T

\* replay() returns all the records after the cursor, or none.
LEMMA ReplayedIs ==
  ASSUME NEW w \in Wrapper, NEW e, NEW c \in Cursor
  PROVE  \E r \in Nat :
           /\ Replayed(w, e, c) \in [1..r -> Nat] /\ Replayed(w, e, c) \in Seq(Nat)
           /\ Len(Replayed(w, e, c)) = r
           /\ r # 0 => c.epoch = e /\ r = Len(w.entries) - c.seq /\ c.seq <= Len(w.entries)
           /\ \A i \in 1..r : Replayed(w, e, c)[i] = c.seq + i
<1>1. Len(w.entries) \in Nat /\ c.seq \in Nat
  <2>1. w.entries \in Seq(Entry)
    BY DEF Wrapper
  <2> QED
    BY <2>1 DEF Cursor
<1> DEFINE all == [i \in 1..(Len(w.entries) - c.seq) |-> c.seq + i]
<1>2. CASE Replayed(w, e, c) = <<>>
  <2>1. <<>> \in [1..0 -> Nat] /\ <<>> \in Seq(Nat) /\ Len(<<>>) = 0
    OBVIOUS
  <2> QED
    BY <1>2, <2>1
<1>3. CASE Replayed(w, e, c) = all /\ c.epoch = e /\ c.seq <= Len(w.entries)
  <2>1. PICK r \in Nat : r = Len(w.entries) - c.seq
    BY <1>1, <1>3
  <2>2. all \in [1..r -> Nat] /\ \A i \in 1..r : all[i] = c.seq + i
    BY <1>1, <2>1
  <2> HIDE DEF all
  <2>3. all \in Seq(Nat) /\ Len(all) = r
    BY <2>1, <2>2
  <2> QED
    BY <1>3, <2>1, <2>2, <2>3
<1>4. Replayed(w, e, c) = <<>>
      \/ (Replayed(w, e, c) = all /\ c.epoch = e /\ c.seq <= Len(w.entries))
  BY <1>1 DEF Replayed
<1> HIDE DEF all
<1> QED
  BY <1>2, <1>3, <1>4

\* What the route sends is sound in the state after its step, the runtime e being w, which
\* has served the session of the tab.
Answers(e, w) ==
  /\ StreamAssumption /\ TypeOK /\ TabIsSound' /\ RuntimesAreSound'
  /\ wrappers' \in Seq(Wrapper) /\ e \in DOMAIN wrappers' /\ wrappers'[e] = w
  /\ w \in Wrapper /\ w.alive /\ tab.sid \in w.served
  /\ tab.base = 0 /\ ~view.turned /\ view.sid = tab.sid /\ UNCHANGED <<tab, view>>

LEMMA AnswersTyped ==
  ASSUME NEW e, NEW w, Answers(e, w)
  PROVE  /\ StreamAssumption /\ TypeOK /\ w \in Wrapper /\ WrapperIsSound(w) /\ w.alive
         /\ e \in Nat /\ e # 0 /\ e \in DOMAIN wrappers' /\ wrappers'[e] = w
         /\ w.sid \in Sid /\ w.sid \in w.served /\ tab.sid \in w.served
         /\ w.entries \in Seq(Entry) /\ Len(w.entries) \in Nat
         /\ DOMAIN w.entries = 1..Len(w.entries)
         /\ UNCHANGED <<tab, view>> /\ view.sid = tab.sid /\ ~view.turned /\ tab.base = 0
         /\ tab.deltas \in BOOLEAN /\ tab.cursor \in Cursor /\ tab.cursor.seq \in Nat
<1>1. /\ StreamAssumption /\ TypeOK /\ w \in Wrapper /\ w.alive
      /\ wrappers' \in Seq(Wrapper) /\ e \in DOMAIN wrappers' /\ wrappers'[e] = w
      /\ tab.sid \in w.served
      /\ UNCHANGED <<tab, view>> /\ view.sid = tab.sid /\ ~view.turned /\ tab.base = 0
  BY DEF Answers
<1>2. WrapperIsSound(w)
  BY <1>1 DEF Answers, RuntimesAreSound
<1>3. /\ w.sid \in Sid /\ w.entries \in Seq(Entry) /\ Len(w.entries) \in Nat
      /\ e \in Nat /\ e # 0
  BY <1>1, RuntimesTyped
<1>4. DOMAIN w.entries = 1..Len(w.entries)
  BY <1>3
<1>5. w.sid \in w.served
  BY <1>1, <1>2 DEF WrapperIsSound
<1>6. tab.deltas \in BOOLEAN /\ tab.cursor \in Cursor /\ tab.cursor.seq \in Nat
  BY <1>1, StateTyped DEF TypeOK
<1> QED
  BY <1>1, <1>2, <1>3, <1>4, <1>5, <1>6

\* Its last frame is the snapshot.
LEMMA SnapshotSent ==
  ASSUME NEW e, NEW w, Answers(e, w), NEW n \in Nat, n \in DOMAIN channel',
         channel'[n] = SnapshotFrame(e, w), channel'[1].epoch = e,
         \A h \in 1..(n - 1) : channel'[h].kind # "moved" =>
           channel'[h].seq \in Nat /\ channel'[h].seq <= Len(w.entries)
  PROVE  FrameIsSound(n)' /\ SnapshotFrame(e, w) \in Frame
<1> DEFINE f == SnapshotFrame(e, w)
<1>1. /\ e \in Nat /\ e # 0 /\ e \in DOMAIN wrappers' /\ wrappers'[e] = w /\ StreamAssumption
      /\ w.sid \in Sid /\ w.sid \in w.served /\ Len(w.entries) \in Nat
  BY AnswersTyped
<1>2. /\ f.kind = "snapshot" /\ f.epoch = e /\ f.seq = Len(w.entries)
      /\ f.type = "snapshot" /\ f.sid = w.sid /\ LeadsTo(f) = 0
  BY DEF SnapshotFrame, LeadsTo, Turns
<1>3. f \in Frame
  BY <1>1, NoCursorTyped DEF SnapshotFrame, Frame, Types
<1> HIDE DEF f
<1>4. view'.epoch = e => Len(view'.seen) <= Len(w.entries)
  <2> SUFFICES ASSUME view'.epoch = e PROVE Len(view'.seen) <= Len(w.entries)
    OBVIOUS
  <2>1. view'.epoch # 0
    BY <1>1
  <2>2. PICK k \in 0..Len(w.entries) : view'.seen = Feed!UpTo(k)
    BY <1>1, <2>1 DEF Answers, TabIsSound, Published
  <2>3. k \in Nat
    BY <1>1, <2>2
  <2>4. Len(view'.seen) = k
    BY <1>1, <2>2, <2>3, UpToIs
  <2> QED
    BY <1>1, <2>2, <2>4
<1>5. SnapshotIsSound(n)'
  <2>1. f.seq <= Len(wrappers'[f.epoch].entries) /\ f.sid \in wrappers'[f.epoch].served
    BY <1>1, <1>2
  <2> QED
    BY <1>2, <1>4, <2>1 DEF SnapshotIsSound, Published, f
<1> QED
  BY <1>1, <1>2, <1>3, <1>5 DEF FrameIsSound, f

ConnType == [epoch : Nat, deltas : BOOLEAN, base : Nat, stray : BOOLEAN]

\* Without a notice of a move: the replay and the snapshot.
LEMMA RespondHere ==
  ASSUME NEW e, NEW w, Answers(e, w), Respond(e, w, tab.cursor, FALSE)
  PROVE  /\ channel' \in Seq(Frame) /\ conn' \in ConnType
         /\ ChannelIsSound' /\ ConnIsSound' /\ DeltasAreSound'
<1>c. PICK c \in Cursor : c = tab.cursor
  BY AnswersTyped
<1>k. PICK ks : ks = Replayed(w, e, c)
  OBVIOUS
<1> DEFINE L == Len(w.entries)
           F(i) == EventFrame(e, w, ks[i], tab.deltas, BaseOver(w, ks, i - 1))
           s == SnapshotFrame(e, w)
           rep == [i \in DOMAIN ks |-> F(i)]
           live == [epoch |-> e, deltas |-> tab.deltas, base |-> 0, stray |-> w.sid # tab.sid]
<1>1. /\ StreamAssumption /\ TypeOK /\ w \in Wrapper /\ WrapperIsSound(w) /\ w.alive
      /\ e \in Nat /\ e # 0 /\ e \in DOMAIN wrappers' /\ wrappers'[e] = w
      /\ w.sid \in Sid /\ tab.sid \in w.served
      /\ UNCHANGED <<tab, view>> /\ view.sid = tab.sid /\ tab.base = 0
  BY AnswersTyped
<1>2. /\ c \in Cursor /\ c.seq \in Nat /\ tab.deltas \in BOOLEAN
      /\ w.entries \in Seq(Entry) /\ L \in Nat /\ DOMAIN w.entries = 1..L
  BY <1>c, AnswersTyped
<1>3. PICK r \in Nat :
        /\ ks \in [1..r -> Nat] /\ DOMAIN ks = 1..r
        /\ r # 0 => c.epoch = e /\ r = L - c.seq /\ c.seq <= L
        /\ \A i \in 1..r : ks[i] = c.seq + i
  <2>1. \E r \in Nat :
          /\ ks \in [1..r -> Nat] /\ ks \in Seq(Nat) /\ Len(ks) = r
          /\ r # 0 => c.epoch = e /\ r = L - c.seq /\ c.seq <= L
          /\ \A i \in 1..r : ks[i] = c.seq + i
    BY <1>1, <1>k, ReplayedIs
  <2> QED
    BY <2>1
<1>4. ASSUME NEW i \in 1..r PROVE ks[i] \in 1..L
  <2>1. ks[i] = c.seq + i /\ r = L - c.seq /\ i \in Nat /\ i >= 1 /\ i <= r
    BY <1>3
  <2> HIDE DEF L
  <2> QED
    BY <1>2, <2>1
<1>6. /\ \A i \in 0..r : BaseOver(w, ks, i) \in Nat
      /\ BaseOver(w, ks, 0) = 0
      /\ \A i \in 1..r : BaseOver(w, ks, i)
           = BaseAfter(BaseOver(w, ks, i - 1), w.entries[ks[i]].type, ks[i])
  <2>1. StreamAssumption /\ r \in Nat /\ ks \in [1..r -> Nat]
    BY <1>1, <1>3
  <2> QED
    BY <2>1, BaseOverStep, Zenon
\* The frames replayed.
<1>7. ASSUME NEW i \in 1..r
      PROVE  /\ F(i) \in Frame /\ F(i).kind = "event" /\ F(i).epoch = e /\ F(i).seq = ks[i]
             /\ F(i).type = w.entries[ks[i]].type
             /\ LeadsTo(F(i)) = LeadsTo(w.entries[ks[i]])
             /\ F(i).delta \in {0, BaseOver(w, ks, i - 1)}
  <2>1. ks[i] \in DOMAIN w.entries /\ ks[i] \in Nat
    BY <1>2, <1>4
  <2>2. w.entries[ks[i]] \in Entry
    BY <1>2, <2>1
  <2>3. i - 1 \in 0..r
    OBVIOUS
  <2> DEFINE b == BaseOver(w, ks, i - 1)  q == w.entries[ks[i]]
             d == IF tab.deltas /\ q.delta = b THEN q.delta ELSE 0
  <2>4. b \in Nat /\ d \in {0, b} /\ d \in Nat
    BY <1>1, <1>6, <2>3, NoCursorTyped
  <2>5. F(i) = [kind |-> "event", epoch |-> e, seq |-> ks[i], type |-> q.type,
                sid |-> q.sid, delta |-> d]
    BY DEF EventFrame
  <2> HIDE DEF F, b, d
  <2>6. F(i) \in Frame
    BY <1>1, <2>1, <2>2, <2>4, <2>5 DEF Frame, Entry
  <2>7. F(i).type = q.type /\ F(i).sid = q.sid
    BY <2>5
  <2>8. LeadsTo(F(i)) = LeadsTo(q)
    BY <2>7 DEF LeadsTo
  <2> QED
    BY <2>4, <2>5, <2>6, <2>8 DEF b
<1> HIDE DEF F
<1>8. s.kind = "snapshot" /\ s.type = "snapshot" /\ s.seq = L /\ s.delta = 0 /\ s.epoch = e
      /\ s.sid = w.sid
  BY DEF SnapshotFrame
<1>9. s \in Frame
  BY <1>1, <1>2, NoCursorTyped DEF SnapshotFrame, Frame, Types
<1> HIDE DEF s
<1>10. /\ channel' \in Seq(Frame) /\ Len(channel') = r + 1 /\ DOMAIN channel' = 1..(r + 1)
       /\ channel'[r + 1] = s /\ \A i \in 1..r : channel'[i] = F(i)
  <2>1. rep \in [1..r -> Frame] /\ \A i \in 1..r : rep[i] = F(i)
    BY <1>3, <1>7
  <2>2. channel' = <<>> \o rep \o <<s>>
    BY <1>1, <1>c, <1>k DEF Respond, F, s
  <2> HIDE DEF rep
  <2>3. rep \in Seq(Frame) /\ Len(rep) = r
    BY <2>1
  <2>4. <<>> \o rep = rep
    BY <2>3
  <2>5. channel' = rep \o <<s>>
    BY <2>2, <2>4
  <2>6. <<s>> \in Seq(Frame) /\ Len(<<s>>) = 1 /\ <<s>>[1] = s
    BY <1>9
  <2> DEFINE u == <<s>>
  <2> HIDE DEF u
  <2>7. /\ channel' \in Seq(Frame) /\ Len(channel') = r + 1
        /\ \A i \in 1..r : channel'[i] = rep[i]
        /\ channel'[r + 1] = s
    <3>1. u \in Seq(Frame) /\ Len(u) = 1 /\ u[1] = s /\ channel' = rep \o u
      BY <2>5, <2>6 DEF u
    <3>2. /\ channel' \in Seq(Frame) /\ Len(channel') = Len(rep) + Len(u)
          /\ \A i \in 1..(Len(rep) + Len(u)) :
               channel'[i] = IF i <= Len(rep) THEN rep[i] ELSE u[i - Len(rep)]
      BY <2>3, <3>1, ConcatProperties
    <3> QED
      BY <2>3, <3>1, <3>2
  <2>8. DOMAIN channel' = 1..(r + 1)
    BY <2>7
  <2> QED
    BY <2>1, <2>7, <2>8
<1>11. conn' \in {NoConn, live}
  BY DEF Respond
<1>12. channel'[1].epoch = e /\ channel'[1].kind # "moved" /\ channel' # <<>>
  <2>1. CASE r = 0
    <3>1. channel'[1] = s /\ Len(channel') = 1
      <4>1. r + 1 = 1
        BY <2>1
      <4> QED
        BY <1>10, <4>1
    <3> QED
      BY <1>8, <1>10, <3>1
  <2>2. CASE r # 0
    BY <1>7, <1>10, <2>2
  <2> QED
    BY <2>1, <2>2
<1>14. ASSUME NEW i \in 1..r PROVE FrameIsSound(i)'
  <2>1. channel'[i] = F(i)
    BY <1>10
  <2>2. /\ F(i).kind = "event" /\ F(i).epoch = e /\ F(i).seq = ks[i]
        /\ LeadsTo(F(i)) = LeadsTo(w.entries[ks[i]])
    BY <1>7
  <2>3. ks[i] \in DOMAIN w.entries
    BY <1>2, <1>4
  <2>4. IF i = 1 THEN F(i).epoch = tab'.cursor.epoch /\ F(i).seq = tab'.cursor.seq + 1
        ELSE channel'[i - 1].kind # "moved" /\ F(i).seq = channel'[i - 1].seq + 1
    <3>1. CASE i = 1
      <4>1. r # 0 /\ ks[i] = c.seq + 1
        BY <1>3, <3>1
      <4> QED
        BY <1>1, <1>3, <1>c, <2>2, <3>1, <4>1
    <3>2. CASE i # 1
      <4>1. i - 1 \in 1..r /\ ks[i] = ks[i - 1] + 1
        <5>1. i - 1 \in 1..r
          BY <3>2
        <5>2. ks[i] = c.seq + i /\ ks[i - 1] = c.seq + (i - 1)
          BY <1>3, <5>1
        <5> QED
          BY <1>2, <5>1, <5>2
      <4>2. channel'[i - 1] = F(i - 1)
        BY <1>10, <4>1
      <4>3. F(i - 1).kind = "event" /\ F(i - 1).seq = ks[i - 1]
        BY <1>7, <4>1
      <4> QED
        BY <2>2, <3>2, <4>1, <4>2, <4>3
    <3> QED
      BY <3>1, <3>2
  <2>5. EventIsSound(i)'
    <3>1. /\ F(i).seq \in DOMAIN wrappers'[F(i).epoch].entries
          /\ LeadsTo(F(i)) = LeadsTo(wrappers'[F(i).epoch].entries[F(i).seq])
      BY <1>1, <2>2, <2>3
    <3> QED
      BY <2>1, <2>4, <3>1 DEF EventIsSound
  <2>6. \A h \in 1..(i - 1) : channel'[h].kind # "moved" => channel'[h].seq <= F(i).seq
    <3> SUFFICES ASSUME NEW h \in 1..(i - 1) PROVE channel'[h].seq <= F(i).seq
      OBVIOUS
    <3>1. h \in 1..r /\ ks[h] <= ks[i]
      BY <1>2, <1>3
    <3>2. channel'[h] = F(h) /\ F(h).seq = ks[h]
      BY <1>7, <1>10, <3>1
    <3> QED
      BY <2>2, <3>1, <3>2
  <2>7. LeadsTo(F(i)) \in w.served \cup {0}
    BY <1>1, <2>2, <2>3 DEF WrapperIsSound
  <2> QED
    BY <1>1, <1>12, <2>1, <2>2, <2>5, <2>6, <2>7 DEF FrameIsSound
<1>15. FrameIsSound(r + 1)'
  <2>1. \A h \in 1..((r + 1) - 1) : channel'[h].kind # "moved" =>
          channel'[h].seq \in Nat /\ channel'[h].seq <= L
    <3> SUFFICES ASSUME NEW h \in 1..r
                 PROVE  channel'[h].seq \in Nat /\ channel'[h].seq <= L
      OBVIOUS
    <3>1. channel'[h] = F(h) /\ F(h).seq = ks[h]
      BY <1>7, <1>10
    <3> QED
      BY <1>2, <1>4, <3>1
  <2>2. r + 1 \in DOMAIN channel' /\ channel'[r + 1] = SnapshotFrame(e, w)
    BY <1>10 DEF s
  <2> QED
    BY <1>12, <2>1, <2>2, SnapshotSent
<1>16. ChannelIsSound'
  <2>1. ASSUME NEW i \in DOMAIN channel' PROVE FrameIsSound(i)'
    <3>1. i \in 1..r \/ i = r + 1
      BY <1>10
    <3> QED
      BY <1>14, <1>15, <3>1
  <2>2. view'.sid \in wrappers'[channel'[1].epoch].served
    BY <1>1, <1>12
  <2> QED
    BY <2>1, <2>2 DEF ChannelIsSound
<1>17. ConnIsSound'
  <2> SUFFICES ASSUME conn'.epoch # 0 PROVE ConnIsSound'
    BY DEF ConnIsSound
  <2>1. conn' = live
    BY <1>11 DEF NoConn
  <2>2. conn'.epoch = e /\ (conn'.stray <=> w.sid # tab.sid)
    BY <2>1
  <2>3. channel'[Len(channel')].kind # "moved" /\ channel'[Len(channel')].seq = L
    BY <1>8, <1>10
  <2>4. ASSUME ~conn'.stray PROVE Follows'
    <3>1. s.sid = tab'.sid
      BY <1>1, <1>8, <2>2, <2>4
    <3>2. ASSUME NEW i \in DOMAIN channel', channel'[i].kind = "snapshot"
          PROVE  channel'[i].sid = tab'.sid
      <4>1. i \notin 1..r
        BY <1>7, <1>10, <3>2
      <4>2. i = r + 1
        BY <1>10, <4>1
      <4> QED
        BY <1>10, <3>1, <4>2
    <3>3. r + 1 \in DOMAIN channel' /\ channel'[r + 1].kind = "snapshot"
      BY <1>8, <1>10
    <3> QED
      BY <3>2, <3>3 DEF Follows
  <2> QED
    BY <1>1, <1>12, <2>2, <2>3, <2>4 DEF ConnIsSound, Published
<1>18. DeltasAreSound'
  <2> DEFINE a == [i \in 1..(r + 2) |-> IF i = r + 2 THEN 0 ELSE BaseOver(w, ks, i - 1)]
  <2>0. /\ a \in [1..(Len(channel') + 1) -> Nat] /\ a[r + 2] = 0
        /\ \A i \in 1..(r + 1) : a[i] = BaseOver(w, ks, i - 1)
    <3>1. \A i \in 1..(r + 1) : i - 1 \in 0..r
      OBVIOUS
    <3>2. Len(channel') + 1 = r + 2 /\ 0 \in Nat
      BY <1>1, <1>10, NoCursorTyped
    <3>3. \A i \in 1..(r + 2) : i = r + 2 \/ i \in 1..(r + 1)
      OBVIOUS
    <3> QED
      BY <1>6, <3>1, <3>2, <3>3
  <2> HIDE DEF a
  <2>1. PICK b \in [1..(Len(channel') + 1) -> Nat] :
          b[r + 2] = 0 /\ \A i \in 1..(r + 1) : b[i] = BaseOver(w, ks, i - 1)
    BY <2>0
  <2>2. b[1] = 0
    BY <1>6, <2>1
  <2>3. ASSUME NEW i \in 1..r
        PROVE  /\ b[i + 1] = BaseAfter(b[i], F(i).type, F(i).seq)
               /\ F(i).kind = "event" /\ F(i).delta \in {0, b[i]}
    <3>1. i + 1 \in 1..(r + 1) /\ (i + 1) - 1 = i /\ i \in 1..(r + 1)
      OBVIOUS
    <3>2. b[i + 1] = BaseOver(w, ks, i) /\ b[i] = BaseOver(w, ks, i - 1)
      BY <2>1, <3>1
    <3> QED
      BY <1>6, <1>7, <3>2
  <2>4. b[(r + 1) + 1] = BaseAfter(b[r + 1], s.type, s.seq)
    <3>1. "snapshot" \in Resets /\ "snapshot" # "update"
      BY DEF Resets
    <3>2. BaseAfter(b[r + 1], s.type, s.seq) = 0
      BY <1>8, <3>1 DEF BaseAfter
    <3>3. (r + 1) + 1 = r + 2
      OBVIOUS
    <3> QED
      BY <2>1, <3>2, <3>3
  <2>5. ASSUME NEW i \in DOMAIN channel'
        PROVE  /\ b[i + 1] = BaseAfter(b[i], channel'[i].type, channel'[i].seq)
               /\ channel'[i].kind = "moved" => b[i] = 0
               /\ channel'[i].delta \in (IF channel'[i].kind = "event" THEN {0, b[i]} ELSE {0})
    <3>1. CASE i \in 1..r
      <4>1. channel'[i] = F(i)
        BY <1>10, <3>1
      <4> QED
        BY <2>3, <3>1, <4>1
    <3>2. CASE i = r + 1
      BY <1>8, <1>10, <2>4, <3>2
    <3> QED
      BY <1>10, <3>1, <3>2
  <2>6. tab'.base = 0 /\ Len(channel') + 1 = r + 2 /\ (conn'.epoch # 0 => conn'.base = 0)
    BY <1>1, <1>10, <1>11 DEF NoConn
  <2>7. b[1] = tab'.base /\ (conn'.epoch # 0 => b[Len(channel') + 1] = conn'.base)
    BY <2>1, <2>2, <2>6
  <2>8. BasesAre(b)'
    BY <2>5, <2>7 DEF BasesAre
  <2>9. b \in [1..(Len(channel') + 1) -> Nat]
    BY <2>1
  <2> QED
    BY <2>8, <2>9 DEF DeltasAreSound
<1>20. conn' \in ConnType
  <2>1. NoConn \in ConnType /\ 0 \in Nat
    BY <1>1, NoCursorTyped DEF ConnType
  <2>2. live \in ConnType
    BY <1>1, <1>2, <2>1 DEF ConnType
  <2> QED
    BY <1>11, <2>1, <2>2
<1> QED
  BY <1>10, <1>16, <1>17, <1>18, <1>20

\* The tab is told of the session the runtime has turned to, and shown that.
LEMMA RespondElsewhere ==
  ASSUME NEW e, NEW w, Answers(e, w), w.sid # tab.sid, Respond(e, w, NoCursor, TRUE)
  PROVE  /\ channel' \in Seq(Frame) /\ conn' \in ConnType
         /\ ChannelIsSound' /\ ConnIsSound' /\ DeltasAreSound'
<1> DEFINE m == MovedFrame(e, w)  s == SnapshotFrame(e, w)
<1>1. /\ StreamAssumption /\ TypeOK /\ w \in Wrapper /\ w.alive /\ tab.deltas \in BOOLEAN
      /\ e \in Nat /\ e # 0 /\ e \in DOMAIN wrappers' /\ wrappers'[e] = w
      /\ w.sid \in w.served /\ tab.sid \in w.served
      /\ UNCHANGED <<tab, view>> /\ view.sid = tab.sid /\ tab.base = 0
  BY AnswersTyped
<1>2. w.entries \in Seq(Entry) /\ Len(w.entries) \in Nat /\ w.sid \in Sid
  BY AnswersTyped
<1>3. /\ m.kind = "moved" /\ m.epoch = e /\ m.seq = 0 /\ m.type = "replaced"
      /\ m.sid = w.sid /\ m.delta = 0 /\ m \in Frame /\ LeadsTo(m) = w.sid
      /\ s.kind = "snapshot" /\ s.epoch = e /\ s.seq = Len(w.entries)
      /\ s.type = "snapshot" /\ s.delta = 0 /\ s \in Frame
  BY <1>1, <1>2, NoCursorTyped DEF MovedFrame, SnapshotFrame, Frame, Types, LeadsTo, Turns
<1>4. channel' = <<m>> \o <<s>> /\ conn' = [epoch |-> e, deltas |-> tab.deltas, base |-> 0,
                                            stray |-> FALSE]
  <2>1. Replayed(w, e, NoCursor) = <<>>
    BY <1>1 DEF Replayed, NoCursor
  <2> DEFINE ks == Replayed(w, e, NoCursor)
             rep == [i \in DOMAIN ks |->
                       EventFrame(e, w, ks[i], tab.deltas, BaseOver(w, ks, i - 1))]
  <2>2. /\ channel' = <<m>> \o rep \o <<s>>
        /\ conn' = IF \E i \in DOMAIN rep : rep[i].type \in Last THEN NoConn
                   ELSE [epoch |-> e, deltas |-> tab.deltas, base |-> 0, stray |-> FALSE]
    BY DEF Respond
  <2>3. rep = <<>> /\ DOMAIN rep = {}
    BY <2>1
  <2> HIDE DEF rep, m, s
  <2>4. <<m>> \in Seq(Frame)
    BY <1>3
  <2>5. <<m>> \o rep = <<m>>
    BY <2>3, <2>4, ConcatEmptySeq
  <2> QED
    BY <2>2, <2>3, <2>5
<1> HIDE DEF m, s
<1>5. /\ channel' \in Seq(Frame) /\ Len(channel') = 2 /\ DOMAIN channel' = 1..2
      /\ channel'[1] = m /\ channel'[2] = s /\ channel' # <<>>
  <2> DEFINE x == <<m>>  y == <<s>>
  <2>1. /\ x \in Seq(Frame) /\ Len(x) = 1 /\ x[1] = m
        /\ y \in Seq(Frame) /\ Len(y) = 1 /\ y[1] = s
    BY <1>3
  <2>2. channel' = x \o y
    BY <1>4
  <2> HIDE DEF x, y
  <2>3. /\ channel' \in Seq(Frame) /\ Len(channel') = Len(x) + Len(y)
        /\ \A i \in 1..(Len(x) + Len(y)) :
             channel'[i] = IF i <= Len(x) THEN x[i] ELSE y[i - Len(x)]
    BY <2>1, <2>2, ConcatProperties
  <2>4. Len(channel') = 2 /\ channel'[1] = m /\ channel'[2] = s
    BY <2>1, <2>3
  <2>5. channel' # <<>>
    <3>1. Len(<<>>) = 0
      OBVIOUS
    <3> QED
      BY <2>4, <3>1
  <2>6. DOMAIN channel' = 1..Len(channel')
    BY <2>3
  <2> QED
    BY <2>3, <2>4, <2>5, <2>6
<1>7. FrameIsSound(1)'
  <2>1. MoveIsSound(1)'
    BY <1>1, <1>3, <1>5 DEF MoveIsSound
  <2> QED
    BY <1>1, <1>3, <1>5, <2>1 DEF FrameIsSound
<1>8. FrameIsSound(2)'
  <2>1. \A h \in 1..(2 - 1) : channel'[h].kind = "moved"
    BY <1>3, <1>5
  <2>2. 2 \in Nat /\ 2 \in DOMAIN channel' /\ channel'[1].epoch = e
        /\ channel'[2] = SnapshotFrame(e, w)
    BY <1>3, <1>5 DEF s
  <2> QED
    BY <2>1, <2>2, SnapshotSent
<1>9. ChannelIsSound'
  <2>1. ASSUME NEW i \in DOMAIN channel' PROVE FrameIsSound(i)'
    <3>1. i = 1 \/ i = 2
      BY <1>5
    <3> QED
      BY <1>7, <1>8, <3>1
  <2>2. view'.sid \in wrappers'[channel'[1].epoch].served
    BY <1>1, <1>3, <1>5
  <2> QED
    BY <2>1, <2>2 DEF ChannelIsSound
<1>11. ConnIsSound'
  <2>1. conn'.epoch = e
    BY <1>4
  <2>2. channel'[Len(channel')].kind # "moved" /\ channel'[Len(channel')].seq = Len(w.entries)
    BY <1>3, <1>5
  <2>3. Follows'
    <3>1. channel'[1].kind = "moved" /\ 2 \in DOMAIN channel' /\ channel'[2].kind = "snapshot"
      BY <1>3, <1>5
    <3> QED
      BY <3>1 DEF Follows
  <2> QED
    BY <1>1, <1>3, <1>5, <2>1, <2>2, <2>3 DEF ConnIsSound, Published
<1>12. DeltasAreSound'
  <2> DEFINE a == [i \in 1..3 |-> 0]
  <2>1. a \in [1..(Len(channel') + 1) -> Nat] /\ \A i \in 1..3 : a[i] = 0
    <3>1. Len(channel') + 1 = 3 /\ 0 \in Nat
      BY <1>1, <1>5, NoCursorTyped
    <3> QED
      BY <3>1
  <2> HIDE DEF a
  <2>2. PICK b \in [1..(Len(channel') + 1) -> Nat] : \A i \in 1..3 : b[i] = 0
    BY <2>1
  <2>3. BaseAfter(0, "replaced", m.seq) = 0 /\ BaseAfter(0, "snapshot", s.seq) = 0
    BY DEF BaseAfter, Resets, Last
  <2>4. ASSUME NEW i \in DOMAIN channel'
        PROVE  /\ b[i + 1] = BaseAfter(b[i], channel'[i].type, channel'[i].seq)
               /\ channel'[i].kind = "moved" => b[i] = 0
               /\ channel'[i].delta \in (IF channel'[i].kind = "event" THEN {0, b[i]} ELSE {0})
    <3>1. i = 1 \/ i = 2
      BY <1>5
    <3>2. b[i] = 0 /\ b[i + 1] = 0
      BY <2>2, <3>1
    <3> QED
      BY <1>3, <1>5, <2>3, <3>1, <3>2
  <2>5. b[1] = tab'.base /\ (conn'.epoch # 0 => b[Len(channel') + 1] = conn'.base)
    BY <1>1, <1>4, <1>5, <2>2
  <2>6. BasesAre(b)'
    BY <2>4, <2>5 DEF BasesAre
  <2> QED
    BY <2>2, <2>6 DEF DeltasAreSound
<1>14. conn' \in ConnType
  BY <1>1, <1>4, NoCursorTyped DEF ConnType
<1> QED
  BY <1>5, <1>9, <1>11, <1>12, <1>14

\* The route answers, and leaves the runtimes as they are.
LEMMA AnsweredKeeps ==
  ASSUME StreamAssumption, StreamInv, es = "requested", es' = "open",
         wrappers' = wrappers, UNCHANGED <<tab, view, faults, forced>>,
         NEW e \in DOMAIN wrappers, wrappers[e].alive, tab.sid \in wrappers[e].served,
         \/ Respond(e, wrappers[e], tab.cursor, FALSE)
         \/ wrappers[e].sid # tab.sid /\ Respond(e, wrappers[e], NoCursor, TRUE)
  PROVE  StreamInv'
<1> DEFINE w == wrappers[e]
<1>1. TypeOK /\ RuntimesAreSound /\ TabIsSound /\ wrappers \in Seq(Wrapper)
  BY StateTyped DEF StreamInv
<1>2. ServerStep /\ RuntimesAreSound'
  <2>1. ASSUME NEW d \in DOMAIN wrappers PROVE Grown(wrappers[d], wrappers'[d])
    <3>1. wrappers[d] \in Wrapper /\ wrappers'[d] = wrappers[d]
      BY <1>1
    <3> QED
      BY <3>1, GrownIfSame
  <2>2. RuntimesAreSound'
    BY <1>1 DEF RuntimesAreSound
  <2> QED
    BY <1>1, <2>1, <2>2 DEF ServerStep, Grow
<1>3. TabIsSound'
  BY <1>2, TabStays
<1>4. Answers(e, w)
  <2>1. w \in Wrapper /\ ~view.turned /\ view.sid = tab.sid /\ tab.base = 0
    BY <1>1 DEF TabIsSound
  <2> QED
    BY <1>1, <1>2, <1>3, <2>1 DEF Answers
<1> HIDE DEF w
<1>5. /\ channel' \in Seq(Frame) /\ conn' \in ConnType
      /\ ChannelIsSound' /\ ConnIsSound' /\ DeltasAreSound'
  <2>1. CASE Respond(e, w, tab.cursor, FALSE)
    BY <1>4, <2>1, RespondHere
  <2>2. CASE w.sid # tab.sid /\ Respond(e, w, NoCursor, TRUE)
    BY <1>4, <2>2, RespondElsewhere
  <2> QED
    BY <2>1, <2>2 DEF w
<1>7. TypeOK'
  BY <1>1, <1>5 DEF TypeOK, ConnType
<1> QED
  BY <1>2, <1>3, <1>5, <1>7 DEF StreamInv

LEMMA AcceptResumedKeeps ==
  ASSUME StreamAssumption, StreamInv, AcceptResumed
  PROVE  StreamInv'
<1>1. PICK e \in Resumed :
        \/ wrappers[e].sid # tab.sid /\ Respond(e, wrappers[e], NoCursor, TRUE)
        \/ Respond(e, wrappers[e], tab.cursor, FALSE)
  BY Zenon DEF AcceptResumed
<1>2. es = "requested" /\ UNCHANGED <<wrappers, tab, view, faults, forced>> /\ es' = "open"
  BY <1>1 DEF AcceptResumed, Respond
<1>3. /\ e \in DOMAIN wrappers /\ wrappers[e].alive
      /\ tab.sid \in {wrappers[e].sid, wrappers[e].pending} \cup wrappers[e].former
  BY <1>1 DEF Resumed, CanResume, Alive
<1>4. WrapperIsSound(wrappers[e]) /\ tab.sid # 0
  <2>1. tab.sid \in Sid
    BY StateTyped DEF StreamInv
  <2> QED
    BY <1>3, <2>1, RuntimeIs DEF Sid
<1>5. tab.sid \in wrappers[e].served
  BY <1>3, <1>4 DEF WrapperIsSound
<1> QED
  BY <1>1, <1>2, <1>3, <1>5, AnsweredKeeps

\* The runtime registered under the tab's session has served it.
LEMMA AcceptRegisteredKeeps ==
  ASSUME StreamAssumption, StreamInv, AcceptRegistered
  PROVE  StreamInv'
<1>1. PICK e \in Registered(tab.sid) : Respond(e, wrappers[e], tab.cursor, FALSE)
  BY DEF AcceptRegistered
<1>2. es = "requested" /\ UNCHANGED <<wrappers, tab, view, faults, forced>> /\ es' = "open"
  BY <1>1 DEF AcceptRegistered, Respond
<1>3. e \in DOMAIN wrappers /\ wrappers[e].alive /\ wrappers[e].key = tab.sid
  BY DEF Registered, Alive
<1>4. tab.sid \in wrappers[e].served
  BY <1>3, RuntimeIs DEF WrapperIsSound
<1> QED
  BY <1>1, <1>2, <1>3, <1>4, AnsweredKeeps

\* A new one is started for it.
LEMMA AcceptStartedKeeps ==
  ASSUME StreamAssumption, StreamInv, AcceptStarted
  PROVE  StreamInv'
<1> DEFINE e == Len(wrappers) + 1  w == NewWrapper(tab.sid)
<1>1. /\ es = "requested" /\ UNCHANGED <<tab, view, faults, forced>>
      /\ wrappers' = Append(wrappers, w) /\ Respond(e, w, tab.cursor, FALSE) /\ es' = "open"
  BY DEF AcceptStarted, Respond
<1>2. /\ TypeOK /\ TabIsSound /\ tab.sid \in Sid /\ wrappers \in Seq(Wrapper)
      /\ ~view.turned /\ view.sid = tab.sid /\ tab.base = 0
  BY <1>1, StateTyped DEF StreamInv, TypeOK, TabIsSound
<1>3. w \in Wrapper /\ w.alive /\ tab.sid \in w.served
  BY <1>2, NewWrapperIs
<1>6. ServerStep /\ RuntimesAreSound' /\ e \in DOMAIN wrappers' /\ wrappers'[e] = w
  BY <1>1, <1>2, NewRuntime
<1> HIDE DEF w, e
<1>7. TabIsSound'
  BY <1>1, <1>6, TabStays
<1>8. Answers(e, w)
  BY <1>1, <1>2, <1>3, <1>6, <1>7 DEF Answers, ServerStep
<1>9. /\ channel' \in Seq(Frame) /\ conn' \in ConnType
      /\ ChannelIsSound' /\ ConnIsSound' /\ DeltasAreSound'
  BY <1>1, <1>8, RespondHere
<1>10. TypeOK'
  BY <1>1, <1>2, <1>6, <1>9 DEF TypeOK, ServerStep, ConnType
<1> QED
  BY <1>6, <1>7, <1>9, <1>10 DEF StreamInv

-----------------------------------------------------------------------------
\* The invariant.

LEMMA InitKeeps ==
  ASSUME StreamAssumption, Init
  PROVE  StreamInv
<1>1. /\ wrappers = <<>> /\ es = "none" /\ conn = NoConn /\ channel = <<>>
      /\ tab = FreshTab(1) /\ view = Feed!Nothing(1) /\ faults = 0 /\ forced = 0
  BY DEF Init
<1>2. 1 \in Sid
  BY DEF Sid, StreamAssumption
<1>3. /\ tab.sid = 1 /\ tab.base = 0 /\ tab.cursor = NoCursor
      /\ view.sid = 1 /\ view.epoch = 0 /\ view.seen = <<>> /\ ~view.turned
  BY <1>1 DEF FreshTab, Feed!Nothing
<1>4. TypeOK
  <2>1. tab \in [sid : Sid, cursor : Cursor, deltas : BOOLEAN, ready : BOOLEAN,
                 base : Nat, retry : BOOLEAN]
    BY <1>1, <1>2, NoCursorTyped DEF FreshTab
  <2>2. <<>> \in Seq(Nat) /\ <<>> \in Seq(Wrapper)
    OBVIOUS
  <2>3. view \in [sid : Sid, epoch : Nat, seen : Seq(Nat), turned : BOOLEAN]
    BY <1>1, <1>2, <2>2, NoCursorTyped DEF Feed!Nothing
  <2> QED
    BY <1>1, <2>1, <2>2, <2>3, NoCursorTyped DEF TypeOK
<1>5. DOMAIN wrappers = {} /\ DOMAIN channel = {} /\ Len(channel) = 0
  BY <1>1
<1>6. RuntimesAreSound /\ ChannelIsSound
  BY <1>1, <1>5 DEF RuntimesAreSound, ChannelIsSound
<1>7. TabIsSound
  BY <1>1, <1>3 DEF TabIsSound, NoCursor
<1>8. ConnIsSound
  BY <1>1 DEF ConnIsSound, NoConn
<1>9. DeltasAreSound
  <2> DEFINE a == [i \in 1..1 |-> 0]
  <2>1. a \in [1..(Len(channel) + 1) -> Nat] /\ a[1] = 0
    BY <1>5, NoCursorTyped
  <2> HIDE DEF a
  <2>2. BasesAre(a)
    BY <1>1, <1>3, <1>5, <2>1 DEF BasesAre, NoConn
  <2> QED
    BY <2>1, <2>2 DEF DeltasAreSound
<1> QED
  BY <1>4, <1>6, <1>7, <1>8, <1>9 DEF StreamInv

LEMMA NextKeeps ==
  ASSUME StreamAssumption, StreamInv, [Next]_vars
  PROVE  StreamInv'
<1>1. faults \in Nat /\ forced \in Nat /\ faults + 1 \in Nat /\ forced + 1 \in Nat
  BY DEF StreamInv, TypeOK
<1>2. ASSUME NEW e \in DOMAIN wrappers, NEW type \in Emitted, Emit(e, type)
      PROVE  StreamInv'
  BY <1>2, EmitKeeps
<1>3. ASSUME NEW e \in DOMAIN wrappers, NEW type \in {"closed", "restart"}, End(e, type)
      PROVE  StreamInv'
  BY <1>3, EndKeeps
<1>4. ASSUME NEW e \in DOMAIN wrappers, NEW s \in Sid, BeginReplacement(e, s)
      PROVE  StreamInv'
  BY <1>4, BeginKeeps
<1>5. ASSUME NEW e \in DOMAIN wrappers, Rebind(e) PROVE StreamInv'
  BY <1>5, RebindKeeps
<1>6. ASSUME NEW e \in DOMAIN wrappers, Register(e) PROVE StreamInv'
  BY <1>6, RegisterKeeps
<1>7. ASSUME NEW e \in DOMAIN wrappers, FinishReplacement(e) PROVE StreamInv'
  BY <1>7, FinishKeeps
<1>8. ASSUME NEW e \in DOMAIN wrappers, Restore(e) PROVE StreamInv'
  BY <1>8, RestoreKeeps
<1>9. ASSUME NEW e \in DOMAIN wrappers, FailReplacement(e) PROVE StreamInv'
  BY <1>9, FailKeeps
<1>10. ASSUME NEW e \in DOMAIN wrappers, CancelReplacement(e) PROVE StreamInv'
  BY <1>10, CancelKeeps
<1>11. ASSUME NEW e \in DOMAIN wrappers, NEW s \in Sid, Prune(e, s) PROVE StreamInv'
  BY <1>11, PruneKeeps
<1>12. CASE Crash
  BY <1>12, CrashKeeps
<1>13. ASSUME NEW s \in Sid, Start(s) PROVE StreamInv'
  BY <1>13, StartKeeps
<1>14. CASE AcceptResumed \/ AcceptRegistered \/ AcceptStarted
  BY <1>14, AcceptResumedKeeps, AcceptRegisteredKeeps, AcceptStartedKeeps
<1>15. CASE PageConnects
  BY <1>1, <1>15, ConnectKeeps DEF PageConnects
<1>16. CASE RetryFires
  BY <1>1, <1>16, ConnectKeeps DEF RetryFires
<1>17. CASE Breaks
  BY <1>1, <1>17, FailsKeeps DEF Breaks
<1>18. CASE Refused
  BY <1>1, <1>18, FailsKeeps DEF Refused
<1>19. CASE EndOfStream
  BY <1>1, <1>19, FailsKeeps DEF EndOfStream
<1>20. CASE FailsafeFires
  BY <1>20, FailsafeKeeps
<1>21. CASE Receive
  BY <1>21, ReceiveKeeps
<1>22. CASE ReceiveUnreadable
  BY <1>1, <1>22, RecoverKeeps DEF ReceiveUnreadable
<1>23. CASE Remount
  BY <1>23, RemountKeeps
<1>24. CASE UNCHANGED vars
  <2>1. UNCHANGED <<wrappers, es, conn, channel, tab, view, faults, forced>>
    BY <1>24 DEF vars
  <2>2. TypeOK' /\ RuntimesAreSound'
    BY <2>1 DEF StreamInv, TypeOK, RuntimesAreSound
  <2>3. TabIsSound'
    BY <2>1 DEF StreamInv, TabIsSound, Synced, Published
  <2>4. ChannelIsSound'
    BY <2>1 DEF StreamInv, ChannelIsSound, FrameIsSound, MoveIsSound, SnapshotIsSound,
                EventIsSound, Published
  <2>5. ConnIsSound'
    BY <2>1 DEF StreamInv, ConnIsSound, Follows, Synced, Published
  <2>6. DeltasAreSound'
    BY <2>1 DEF StreamInv, DeltasAreSound, BasesAre
  <2> QED
    BY <2>2, <2>3, <2>4, <2>5, <2>6 DEF StreamInv
<1> QED
  BY <1>2, <1>3, <1>4, <1>5, <1>6, <1>7, <1>8, <1>9, <1>10, <1>11, <1>12, <1>13, <1>14,
     <1>15, <1>16, <1>17, <1>18, <1>19, <1>20, <1>21, <1>22, <1>23, <1>24 DEF Next

LEMMA InvariantHolds == Spec => []StreamInv
<1> USE StreamAssumption
<1>1. Init => StreamInv
  BY InitKeeps
<1>2. StreamInv /\ [Next]_vars => StreamInv'
  BY NextKeeps
<1> QED
  BY <1>1, <1>2, PTL DEF Spec

\* The state of the runtimes, the connection and the tab has its type.
THEOREM TheStreamIsTyped == Spec => []TypeOK
<1>1. StreamInv => TypeOK
  BY DEF StreamInv
<1> QED
  BY <1>1, InvariantHolds, PTL

\* A tab whose connection is live and whose channel is empty shows everything that the
\* runtime has published, whatever was lost, replayed or moved before: unless its page
\* has turned to another session and is to be mounted anew, or its connection was
\* answered by a runtime that served another session than it was registered under.
THEOREM QuietTabsAreCurrent == Spec => []QuietMeansCurrent
<1>1. StreamInv => QuietMeansCurrent
  <2> SUFFICES ASSUME StreamInv, conn.epoch # 0, channel = <<>>, ~view.turned, ~conn.stray
               PROVE  /\ view.epoch = conn.epoch
                      /\ view.seen = Feed!UpTo(Len(wrappers[conn.epoch].entries))
    BY DEF QuietMeansCurrent
  <2>1. conn.epoch = tab.cursor.epoch /\ tab.cursor.seq = Published(conn.epoch) /\ Follows
    BY DEF StreamInv, ConnIsSound
  <2>2. Synced
    BY <2>1 DEF Follows
  <2> QED
    BY <2>1, <2>2 DEF Synced, Published
<1> QED
  BY <1>1, InvariantHolds, PTL

\* The next frame on the way builds on the baseline that the tab's decoder has, or on none.
THEOREM DeltasAreDecoded == Spec => []DeltasDecode
<1>1. StreamInv => DeltasDecode
  <2> SUFFICES ASSUME StreamInv, channel # <<>> PROVE Decodes(Head(channel))
    BY DEF DeltasDecode
  <2>1. channel \in Seq(Frame) /\ 1 \in DOMAIN channel /\ Head(channel) = channel[1]
    BY StateTyped DEF StreamInv
  <2>2. PICK b \in [1..(Len(channel) + 1) -> Nat] : BasesAre(b)
    BY DEF StreamInv, DeltasAreSound
  <2>3. b[1] = tab.base /\ channel[1].delta \in {0, b[1]}
    BY <2>1, <2>2 DEF BasesAre
  <2> QED
    BY <2>1, <2>3 DEF Decodes
<1> QED
  BY <1>1, InvariantHolds, PTL

-----------------------------------------------------------------------------
\* The stream implements the feed.

\* Where the events of the runtimes lead and what they have served, which is all that
\* SessionFeed knows of them.
Leads(w) == [k \in DOMAIN w.entries |-> LeadsTo(w.entries[k])]
Feeds    == [e \in DOMAIN wrappers |-> Leads(wrappers[e])]
Serveds  == [e \in DOMAIN wrappers |-> wrappers[e].served]

LEMMA OneMore ==
  ASSUME NEW n \in Nat, NEW S, NEW s \in [1..n -> S], NEW t \in [1..(n + 1) -> S],
         \A k \in 1..n : t[k] = s[k]
  PROVE  t = Append(s, t[n + 1])
<1>1. s \in Seq(S) /\ Len(s) = n /\ t \in Seq(S) /\ Len(t) = n + 1 /\ t[n + 1] \in S
  OBVIOUS
<1> DEFINE u == Append(s, t[n + 1])
<1>2. u \in Seq(S) /\ Len(u) = n + 1 /\ u[n + 1] = t[n + 1] /\ \A k \in 1..n : u[k] = s[k]
  BY <1>1, AppendProperties
<1> HIDE DEF u
<1>3. \A k \in 1..(n + 1) : t[k] = u[k]
  BY <1>2
<1>4. t = u
  BY <1>1, <1>2, <1>3, SeqEqual
<1> QED
  BY <1>4 DEF u

LEMMA LeadsTyped ==
  ASSUME NEW w \in Wrapper
  PROVE  /\ Leads(w) \in [1..Len(w.entries) -> Sid \cup {0}] /\ Leads(w) \in Seq(Sid \cup {0})
         /\ Len(Leads(w)) = Len(w.entries)
         /\ Len(w.entries) \in Nat /\ DOMAIN w.entries = 1..Len(w.entries)
<1>1. w.entries \in Seq(Entry)
  BY DEF Wrapper
<1>2. Len(w.entries) \in Nat /\ DOMAIN w.entries = 1..Len(w.entries)
  BY <1>1
<1>3. \A k \in 1..Len(w.entries) : LeadsTo(w.entries[k]) \in Sid \cup {0}
  <2>1. \A k \in 1..Len(w.entries) : w.entries[k] \in Entry
    BY <1>1
  <2> QED
    BY <2>1 DEF Entry, LeadsTo
<1>4. Leads(w) \in [1..Len(w.entries) -> Sid \cup {0}]
  BY <1>2, <1>3 DEF Leads
<1> QED
  BY <1>2, <1>4

LEMMA FeedsTyped ==
  ASSUME NEW ws \in Seq(Wrapper), NEW n \in Nat, n = Len(ws)
  PROVE  /\ [e \in DOMAIN ws |-> Leads(ws[e])] \in [1..n -> Seq(Sid \cup {0})]
         /\ [e \in DOMAIN ws |-> ws[e].served] \in [1..n -> SUBSET Sid]
<1>1. DOMAIN ws = 1..n /\ \A e \in 1..n : ws[e] \in Wrapper
  OBVIOUS
<1>2. ASSUME NEW e \in 1..n
      PROVE  Leads(ws[e]) \in Seq(Sid \cup {0}) /\ ws[e].served \in SUBSET Sid
  <2>1. ws[e] \in Wrapper
    BY <1>1
  <2>2. ws[e].served \in SUBSET Sid
    BY <2>1 DEF Wrapper
  <2> QED
    BY <2>1, <2>2, LeadsTyped
<1> QED
  BY <1>1, <1>2

\* A runtime publishes: one more event, that leads nowhere or to what it has served.
LEMMA PublishMaps ==
  ASSUME StreamAssumption, StreamInv, NEW e \in DOMAIN wrappers, NEW from \in Wrapper,
         from.entries = wrappers[e].entries, from.served = wrappers[e].served,
         NEW type \in Types, type \in Turns => from.sid \in from.served,
         Publish(e, from, type), UNCHANGED page
  PROVE  Feed!Next
<1> DEFINE w == wrappers[e]  v == wrappers'[e]  n == Len(w.entries)
           s == Leading(type, from.sid)
<1>1. TypeOK /\ wrappers \in Seq(Wrapper) /\ w \in Wrapper
  BY RuntimeIs DEF StreamInv
<1>2. /\ wrappers' \in Seq(Wrapper) /\ DOMAIN wrappers' = DOMAIN wrappers
      /\ \A d \in DOMAIN wrappers \ {e} : wrappers'[d] = wrappers[d]
      /\ Logs(w, from, v, type)
  BY <1>1, PublishIs
<1>3. /\ v \in Wrapper /\ Len(v.entries) = n + 1 /\ LeadsTo(v.entries[n + 1]) = s
      /\ v.served = w.served
      /\ \A k \in DOMAIN w.entries : LeadsTo(v.entries[k]) = LeadsTo(w.entries[k])
  BY <1>2 DEF Logs
<1>4. s \in w.served \cup {0}
  BY DEF Leading
<1> HIDE DEF w, v, s
<1>5. Leads(v) = Append(Leads(w), s)
  <2> DEFINE a == Leads(w)  b == Leads(v)
  <2>1. /\ a \in [1..n -> Sid \cup {0}] /\ b \in [1..(n + 1) -> Sid \cup {0}] /\ n \in Nat
        /\ DOMAIN w.entries = 1..n /\ DOMAIN v.entries = 1..(n + 1)
    BY <1>1, <1>3, LeadsTyped
  <2>2. (\A k \in 1..n : b[k] = a[k]) /\ b[n + 1] = s
    <3> HIDE DEF n
    <3>1. n + 1 \in 1..(n + 1) /\ 1..n \subseteq 1..(n + 1)
      BY <2>1
    <3>2. /\ \A k \in 1..n : b[k] = LeadsTo(v.entries[k]) /\ a[k] = LeadsTo(w.entries[k])
          /\ b[n + 1] = LeadsTo(v.entries[n + 1])
      BY <2>1, <3>1 DEF Leads
    <3> HIDE DEF a, b
    <3> QED
      BY <1>3, <2>1, <3>2 DEF n
  <2> HIDE DEF a, b, n
  <2>3. b = Append(a, b[n + 1])
    BY <2>1, <2>2, OneMore
  <2> QED
    BY <2>2, <2>3 DEF a, b
<1>6. Feeds' = [Feeds EXCEPT ![e] = Append(@, s)]
  <2>1. Feeds'[e] = Append(Feeds[e], s)
    BY <1>2, <1>5 DEF Feeds, w, v
  <2>2. \A d \in DOMAIN wrappers \ {e} : Feeds'[d] = Feeds[d]
    BY <1>2 DEF Feeds
  <2>3. /\ Feeds' = [d \in DOMAIN wrappers |-> Feeds'[d]]
        /\ Feeds = [d \in DOMAIN wrappers |-> Feeds[d]]
    BY <1>2 DEF Feeds
  <2> QED
    BY <2>1, <2>2, <2>3
<1>7. Serveds' = Serveds
  <2>1. \A d \in DOMAIN wrappers : wrappers'[d].served = wrappers[d].served
    BY <1>2, <1>3 DEF w, v
  <2> QED
    BY <1>2, <2>1 DEF Serveds
<1>8. e \in DOMAIN Feeds /\ s \in Serveds[e] \cup {0} /\ UNCHANGED <<view, tab.sid>>
  BY <1>4 DEF Feeds, Serveds, w, page
<1>9. Feed!Publish
  BY <1>6, <1>7, <1>8 DEF Feed!Publish, Feeds, Serveds, Leads
<1> QED
  BY <1>8, <1>9 DEF Feed!Next

\* A runtime is started: nothing of it is published.
LEMMA StartMaps ==
  ASSUME StreamAssumption, StreamInv, NEW s \in Sid,
         wrappers' = Append(wrappers, NewWrapper(s)), UNCHANGED <<tab, view>>
  PROVE  Feed!Next
<1> DEFINE n == Len(wrappers)
<1>1. wrappers \in Seq(Wrapper) /\ n \in Nat
  BY StateTyped DEF StreamInv
<1>2. /\ NewWrapper(s) \in Wrapper /\ NewWrapper(s).entries = <<>>
      /\ NewWrapper(s).served = {s}
  BY NewWrapperIs
<1>3. /\ wrappers' \in Seq(Wrapper) /\ Len(wrappers') = n + 1
      /\ wrappers'[n + 1] = NewWrapper(s) /\ \A e \in 1..n : wrappers'[e] = wrappers[e]
      /\ DOMAIN wrappers = 1..n /\ DOMAIN wrappers' = 1..(n + 1)
  BY <1>1, <1>2, AppendProperties
<1>4. /\ Feeds \in [1..n -> Seq(Sid \cup {0})] /\ Serveds \in [1..n -> SUBSET Sid]
      /\ Feeds' \in [1..(n + 1) -> Seq(Sid \cup {0})]
      /\ Serveds' \in [1..(n + 1) -> SUBSET Sid]
  <2>1. n + 1 \in Nat
    BY <1>1
  <2> QED
    BY <1>1, <1>3, <2>1, FeedsTyped DEF Feeds, Serveds
<1>5. Leads(NewWrapper(s)) = <<>>
  BY <1>2 DEF Leads
<1>6. /\ \A e \in 1..n : Feeds'[e] = Feeds[e] /\ Serveds'[e] = Serveds[e]
      /\ Feeds'[n + 1] = <<>> /\ Serveds'[n + 1] = {s}
  BY <1>1, <1>2, <1>3, <1>5 DEF Feeds, Serveds
<1> HIDE DEF n
<1>7. Feeds' = Append(Feeds, <<>>)
  <2>1. PICK S : S = Seq(Sid \cup {0})
    OBVIOUS
  <2> DEFINE a == Feeds  b == Feeds'
  <2>2. /\ a \in [1..n -> S] /\ b \in [1..(n + 1) -> S]
        /\ \A k \in 1..n : b[k] = a[k]
        /\ b[n + 1] = <<>>
    BY <1>4, <1>6, <2>1
  <2> HIDE DEF a, b
  <2>3. b = Append(a, b[n + 1])
    BY <1>1, <2>2, OneMore DEF n
  <2> QED
    BY <2>2, <2>3 DEF a, b
<1>8. Serveds' = Append(Serveds, {s})
  <2>1. PICK S : S = SUBSET Sid
    OBVIOUS
  <2> DEFINE a == Serveds  b == Serveds'
  <2>2. /\ a \in [1..n -> S] /\ b \in [1..(n + 1) -> S]
        /\ \A k \in 1..n : b[k] = a[k]
        /\ b[n + 1] = {s}
    BY <1>4, <1>6, <2>1
  <2> HIDE DEF a, b
  <2>3. b = Append(a, b[n + 1])
    BY <1>1, <2>2, OneMore DEF n
  <2> QED
    BY <2>2, <2>3 DEF a, b
<1>9. Feed!Publish
  BY <1>7, <1>8 DEF Feed!Publish, Feeds, Serveds, Leads, Sid
<1> QED
  BY <1>9 DEF Feed!Next

\* Neither what is published nor what the tab shows changes.
LEMMA StutterMaps ==
  ASSUME DOMAIN wrappers' = DOMAIN wrappers, UNCHANGED <<view, tab.sid>>,
         \A e \in DOMAIN wrappers : /\ Leads(wrappers'[e]) = Leads(wrappers[e])
                                    /\ wrappers'[e].served = wrappers[e].served
  PROVE  UNCHANGED Feed!vars
<1>1. Feeds' = Feeds /\ Serveds' = Serveds
  BY DEF Feeds, Serveds
<1> QED
  BY <1>1 DEF Feed!vars, Feeds, Serveds, Leads

LEMMA QuietMaps ==
  ASSUME StreamInv, NEW e \in DOMAIN wrappers, NEW v, v.entries = wrappers[e].entries,
         v.served = wrappers[e].served,
         wrappers' = [wrappers EXCEPT ![e] = v], UNCHANGED page
  PROVE  UNCHANGED Feed!vars
<1>1. wrappers \in Seq(Wrapper)
  BY StateTyped DEF StreamInv
<1>2. DOMAIN wrappers' = DOMAIN wrappers /\ UNCHANGED <<view, tab.sid>>
  BY <1>1 DEF page
<1>3. \A d \in DOMAIN wrappers : /\ wrappers'[d].entries = wrappers[d].entries
                                 /\ wrappers'[d].served = wrappers[d].served
  BY <1>1
<1> QED
  BY <1>2, <1>3, StutterMaps DEF Leads

\* A runtime turns to a session: it has served that too.
LEMMA RebindMaps ==
  ASSUME StreamAssumption, StreamInv, NEW e \in DOMAIN wrappers, Rebind(e)
  PROVE  Feed!Next
<1> DEFINE w == wrappers[e]
           s == w.target
           v == [w EXCEPT !.op = "bound", !.sid = s, !.target = 0, !.served = @ \cup {s}]
<1>1. /\ w.op = "begun" /\ UNCHANGED page /\ wrappers' = [wrappers EXCEPT ![e] = v]
  BY DEF Rebind
<1>2. wrappers \in Seq(Wrapper) /\ w \in Wrapper /\ WrapperIsSound(w)
  BY RuntimeIs
<1> HIDE DEF w
<1>3. s \in Sid
  BY <1>1, <1>2 DEF Wrapper, WrapperIsSound
<1>4. v.entries = w.entries /\ v.served = w.served \cup {s}
  BY <1>2 DEF Wrapper
<1> HIDE DEF v, s
<1>5. /\ DOMAIN wrappers' = DOMAIN wrappers /\ wrappers'[e] = v
      /\ \A d \in DOMAIN wrappers \ {e} : wrappers'[d] = wrappers[d]
  BY <1>1, <1>2
<1>6. Feeds' = Feeds
  <2>1. \A d \in DOMAIN wrappers : wrappers'[d].entries = wrappers[d].entries
    BY <1>4, <1>5 DEF w
  <2> QED
    BY <1>5, <2>1 DEF Feeds, Leads
<1>7. Serveds' = [Serveds EXCEPT ![e] = @ \cup {s}]
  <2>1. Serveds'[e] = Serveds[e] \cup {s}
    BY <1>4, <1>5 DEF Serveds, w
  <2>2. \A d \in DOMAIN wrappers \ {e} : Serveds'[d] = Serveds[d]
    BY <1>5 DEF Serveds
  <2>3. /\ Serveds' = [d \in DOMAIN wrappers |-> Serveds'[d]]
        /\ Serveds = [d \in DOMAIN wrappers |-> Serveds[d]]
    BY <1>5 DEF Serveds
  <2> QED
    BY <2>1, <2>2, <2>3
<1>8. e \in DOMAIN Serveds /\ s \in 1..MaxSid /\ UNCHANGED <<view, tab.sid>>
  BY <1>1, <1>3 DEF Serveds, Sid, page
<1>9. Feed!Publish
  BY <1>6, <1>7, <1>8 DEF Feed!Publish, Feeds, Serveds, Leads
<1> QED
  BY <1>8, <1>9 DEF Feed!Next

LEMMA RuntimeMaps ==
  ASSUME StreamAssumption, StreamInv, NEW e \in DOMAIN wrappers,
         \/ \E t \in Emitted : Emit(e, t)
         \/ \E t \in {"closed", "restart"} : End(e, t)
         \/ Rebind(e) \/ Register(e) \/ FinishReplacement(e)
         \/ Restore(e) \/ FailReplacement(e) \/ CancelReplacement(e)
         \/ \E s \in Sid : BeginReplacement(e, s) \/ Prune(e, s)
  PROVE  Feed!Next \/ UNCHANGED Feed!vars
<1> DEFINE w == wrappers[e]
<1>1. w \in Wrapper /\ WrapperIsSound(w)
  BY RuntimeIs
<1>2. \A from \in Wrapper, t \in Types :
        /\ from.entries = w.entries /\ from.served = w.served
        /\ t \in Turns => from.sid \in from.served
        /\ Publish(e, from, t) /\ UNCHANGED page
        => Feed!Next
  BY PublishMaps
<1>3. ASSUME NEW v, v.entries = w.entries, v.served = w.served,
             wrappers' = [wrappers EXCEPT ![e] = v], UNCHANGED page
      PROVE  UNCHANGED Feed!vars
  BY <1>3, QuietMaps
<1>4. ASSUME NEW t \in Emitted, Emit(e, t) PROVE Feed!Next
  <2>1. t \in Types /\ w.alive /\ Publish(e, w, t) /\ UNCHANGED page
    BY <1>4 DEF Emit, Alive, StreamAssumption, Types
  <2>2. w.sid \in w.served
    BY <1>1, <2>1 DEF WrapperIsSound
  <2> HIDE DEF w
  <2> QED
    BY <1>1, <1>2, <2>1, <2>2
<1>5. ASSUME NEW t \in {"closed", "restart"}, End(e, t) PROVE Feed!Next
  <2> DEFINE from == [w EXCEPT !.alive = FALSE]
  <2>1. from \in Wrapper /\ from.entries = w.entries /\ from.served = w.served
    BY <1>1 DEF Wrapper
  <2>2. Publish(e, from, t) /\ UNCHANGED page /\ t \in Types /\ t \notin Turns
    BY <1>5 DEF End, Types, Turns
  <2> HIDE DEF from, w
  <2> QED
    BY <1>2, <2>1, <2>2
<1>6. ASSUME FinishReplacement(e) PROVE Feed!Next
  <2> DEFINE o == Over(w)  from == [o EXCEPT !.former = @ \cup ({w.pending} \ {w.sid})]
  <2>1. /\ w.op = "bound" /\ w.alive /\ Publish(e, from, "replaced") /\ UNCHANGED page
        /\ "replaced" \in Types
    BY <1>6 DEF FinishReplacement, Alive, Types
  <2> HIDE DEF w
  <2>2. /\ o \in Wrapper /\ o.entries = w.entries /\ o.sid = w.sid /\ o.served = w.served
        /\ w.pending \in Sid /\ w.sid \in w.served
    <3>1. w.pending \in Sid /\ w.sid \in w.served
      BY <1>1, <2>1 DEF Wrapper, WrapperIsSound
    <3> QED
      BY <1>1, <3>1, OverIs
  <2> HIDE DEF o
  <2>3. from \in Wrapper /\ from.entries = o.entries /\ from.sid = o.sid /\ from.served = o.served
    BY <2>2 DEF Wrapper
  <2> HIDE DEF from
  <2> QED
    BY <1>2, <2>1, <2>2, <2>3
<1>7. ASSUME FailReplacement(e) PROVE Feed!Next
  <2> DEFINE from == Over(w)
  <2>1. /\ w.alive /\ UNCHANGED page /\ "restored" \in Types /\ "other" \in Types
        /\ Publish(e, from, "restored") \/ Publish(e, from, "other")
    BY <1>7 DEF FailReplacement, Alive, Types
  <2> HIDE DEF w
  <2>2. /\ from \in Wrapper /\ from.entries = w.entries /\ from.sid = w.sid
        /\ from.served = w.served /\ w.sid \in w.served
    BY <1>1, <2>1, OverIs DEF WrapperIsSound
  <2> HIDE DEF from
  <2> QED
    BY <1>2, <2>1, <2>2
<1>8. ASSUME NEW s \in Sid, BeginReplacement(e, s) PROVE UNCHANGED Feed!vars
  <2> DEFINE v == [w EXCEPT !.op = "begun", !.pending = w.sid, !.target = s]
  <2>1. wrappers' = [wrappers EXCEPT ![e] = v] /\ UNCHANGED page
    BY <1>8 DEF BeginReplacement
  <2> HIDE DEF w
  <2>2. v.entries = w.entries /\ v.served = w.served
    BY <1>1 DEF Wrapper
  <2> HIDE DEF v
  <2> QED
    BY <1>3, <2>1, <2>2
<1>9. ASSUME CancelReplacement(e) PROVE UNCHANGED Feed!vars
  <2> DEFINE v == Over(w)
  <2>1. wrappers' = [wrappers EXCEPT ![e] = v] /\ UNCHANGED page
    BY <1>9 DEF CancelReplacement
  <2> HIDE DEF w
  <2>2. v.entries = w.entries /\ v.served = w.served
    BY <1>1, OverIs
  <2> HIDE DEF v
  <2> QED
    BY <1>3, <2>1, <2>2
<1>10. ASSUME Restore(e) PROVE UNCHANGED Feed!vars
  <2> DEFINE v == [w EXCEPT !.op = "restored", !.sid = w.pending, !.target = 0]
  <2>1. wrappers' = [wrappers EXCEPT ![e] = v] /\ UNCHANGED page
    BY <1>10 DEF Restore
  <2> HIDE DEF w
  <2>2. v.entries = w.entries /\ v.served = w.served
    BY <1>1 DEF Wrapper
  <2> HIDE DEF v
  <2> QED
    BY <1>3, <2>1, <2>2
<1>11. ASSUME NEW s \in Sid, Prune(e, s) PROVE UNCHANGED Feed!vars
  <2> DEFINE v == [w EXCEPT !.former = @ \ {s}]
  <2>1. wrappers' = [wrappers EXCEPT ![e] = v] /\ UNCHANGED page
    BY <1>11 DEF Prune
  <2> HIDE DEF w
  <2>2. v.entries = w.entries /\ v.served = w.served
    BY <1>1 DEF Wrapper
  <2> HIDE DEF v
  <2> QED
    BY <1>3, <2>1, <2>2
<1>12. ASSUME Register(e) PROVE UNCHANGED Feed!vars
  <2> DEFINE v == [w EXCEPT !.key = w.sid]
  <2>1. wrappers' = [wrappers EXCEPT ![e] = v] /\ UNCHANGED page
    BY <1>12 DEF Register
  <2> HIDE DEF w
  <2>2. v.entries = w.entries /\ v.served = w.served
    BY <1>1 DEF Wrapper
  <2> HIDE DEF v
  <2> QED
    BY <1>3, <2>1, <2>2
<1> QED
  BY <1>4, <1>5, <1>6, <1>7, <1>8, <1>9, <1>10, <1>11, <1>12, RebindMaps

\* All the runtimes end: what they published stays published.
LEMMA CrashMaps ==
  ASSUME StreamAssumption, StreamInv, Crash
  PROVE  UNCHANGED Feed!vars
<1>1. /\ wrappers \in Seq(Wrapper) /\ UNCHANGED <<view, tab>>
      /\ wrappers' = [e \in DOMAIN wrappers |-> Gone(wrappers[e])]
  BY StateTyped DEF StreamInv, Crash, page
<1>2. ASSUME NEW e \in DOMAIN wrappers
      PROVE  /\ Leads(wrappers'[e]) = Leads(wrappers[e])
             /\ wrappers'[e].served = wrappers[e].served
  <2> DEFINE w == wrappers[e]  v == wrappers'[e]
  <2>1. w \in Wrapper /\ v = Gone(w)
    BY <1>1
  <2> HIDE DEF w, v
  <2>2. /\ v.entries = History(w) /\ DOMAIN History(w) = DOMAIN w.entries
        /\ v.served = w.served
        /\ \A k \in DOMAIN w.entries : LeadsTo(History(w)[k]) = LeadsTo(w.entries[k])
    BY <2>1, GoneIs
  <2>3. Leads(v) = Leads(w)
    BY <2>2 DEF Leads
  <2> QED
    BY <2>2, <2>3 DEF w, v
<1> QED
  BY <1>1, <1>2, StutterMaps

\* The tab handles a frame.
LEMMA HandleMaps ==
  ASSUME StreamAssumption, StreamInv, channel # <<>>, NEW f, f = Head(channel),
         Handle(f), UNCHANGED wrappers
  PROVE  Feed!Next \/ UNCHANGED Feed!vars
<1>1. /\ f.epoch \in Nat /\ f.epoch # 0 /\ f.seq \in Nat /\ f.sid \in Sid
      /\ FrameIsSound(1) /\ f = channel[1] /\ 1 \in DOMAIN channel
      /\ f.kind = "moved" => LeadsTo(f) = f.sid
      /\ f.kind = "event" => f.epoch = tab.cursor.epoch /\ f.seq = tab.cursor.seq + 1
      /\ f.epoch \in DOMAIN wrappers
      /\ f.kind # "moved" => f.seq \in 0..Published(f.epoch)
      /\ LeadsTo(f) \in Sid \cup {0} /\ LeadsTo(f) \in wrappers[f.epoch].served \cup {0}
      /\ view.sid \in wrappers[f.epoch].served
  BY HeadIs
<1>2. tab'.sid = tab.sid /\ ViewAfter(f)
  BY HandleIs
<1>3. /\ TypeOK /\ TabIsSound /\ wrappers \in Seq(Wrapper) /\ tab.cursor.seq \in Nat
      /\ UNCHANGED <<Feeds, Serveds>> /\ 0 \notin Sid
  BY StateTyped DEF StreamInv, Feeds, Serveds, Sid, StreamAssumption
<1> DEFINE w == wrappers[f.epoch]
<1>4. w \in Wrapper
  BY <1>1, <1>3
<1>5. /\ DOMAIN Feeds = DOMAIN wrappers /\ DOMAIN Serveds = DOMAIN wrappers
      /\ Feeds[f.epoch] = Leads(w) /\ Serveds[f.epoch] = w.served
      /\ Len(Leads(w)) = Published(f.epoch) /\ Published(f.epoch) \in Nat
      /\ DOMAIN w.entries = 1..Published(f.epoch)
  BY <1>1, <1>4, LeadsTyped DEF Feeds, Serveds, Published
<1>6. ASSUME Feed!Extend \/ Feed!Replace \/ Feed!Follow \/ Feed!Lose PROVE Feed!Next
  BY <1>2, <1>3, <1>6 DEF Feed!Next, Feeds, Serveds, Leads
<1>7. ASSUME NEW s \in w.served, view' = Feed!Led(view, s) PROVE Feed!Follow
  <2>1. f.epoch \in DOMAIN Serveds /\ s \in Serveds[f.epoch] /\ view.sid \in Serveds[f.epoch]
    BY <1>1, <1>5, <1>7
  <2> QED
    BY <1>7, <2>1 DEF Feed!Follow, Serveds
<1>8. ASSUME f.kind # "moved", view.epoch = f.epoch => f.seq >= Len(view.seen), view' = Shown(f)
      PROVE  Feed!Replace
  <2>1. f.epoch \in DOMAIN Feeds /\ f.seq \in 0..Len(Feeds[f.epoch])
    BY <1>1, <1>5, <1>8
  <2>2. view.sid \in Serveds[f.epoch]
    BY <1>1, <1>5
  <2>3. view' = [view EXCEPT !.epoch = f.epoch, !.seen = Feed!UpTo(f.seq)]
    BY <1>8 DEF Shown
  <2> QED
    BY <1>8, <2>1, <2>2, <2>3 DEF Feed!Replace, Feeds, Serveds, Leads
<1>9. CASE f.kind = "moved" /\ view' = Feed!Led(view, f.sid)
  <2>1. f.sid \in w.served
    BY <1>1, <1>3, <1>9
  <2> QED
    BY <1>6, <1>7, <1>9, <2>1
<1>10. CASE f.kind = "snapshot" /\ view' = IF f.sid = view.sid THEN Shown(f) ELSE Lost
  <2>1. /\ f.sid \in w.served
        /\ view.epoch = f.epoch => Len(view.seen) <= f.seq
    BY <1>1, <1>10 DEF FrameIsSound, SnapshotIsSound
  <2>2. CASE f.sid = view.sid
    <3>1. view.epoch = f.epoch => f.seq >= Len(view.seen)
      BY <1>1, <1>3, <2>1, StateTyped
    <3> QED
      BY <1>6, <1>8, <1>10, <2>2, <3>1
  <2>3. CASE f.sid # view.sid
    <3>1. f.epoch \in DOMAIN Serveds /\ view.sid \in Serveds[f.epoch]
          /\ Serveds[f.epoch] # {view.sid}
      BY <1>1, <1>5, <2>1, <2>3
    <3>2. view' = [view EXCEPT !.epoch = 0, !.seen = <<>>]
      BY <1>10, <2>3 DEF Lost
    <3>3. Feed!Lose
      BY <3>1, <3>2 DEF Feed!Lose, Serveds
    <3> QED
      BY <1>6, <3>3
  <2> QED
    BY <2>2, <2>3
<1>11. CASE f.kind = "event" /\ Synced /\ view' = Feed!Led(Shown(f), LeadsTo(f))
  <2>1. view.epoch = f.epoch /\ view.seen = Feed!UpTo(tab.cursor.seq)
    BY <1>1, <1>11 DEF Synced
  <2>2. Len(view.seen) + 1 = f.seq
    BY <1>1, <1>3, <1>11, <2>1, UpToIs
  <2>3. Shown(f) = [view EXCEPT !.seen = Feed!UpTo(f.seq)]
    <3> DEFINE s == Feed!UpTo(f.seq)
    <3>1. Shown(f) = [view EXCEPT !.epoch = f.epoch, !.seen = s]
      BY DEF Shown
    <3>2. view \in View
      BY <1>3 DEF TypeOK, View
    <3> HIDE DEF s
    <3> QED
      BY <2>1, <3>1, <3>2 DEF s, View
  <2>4. f.seq \in DOMAIN w.entries /\ Leads(w)[f.seq] = LeadsTo(f)
    <3>1. EventIsSound(1)
      BY <1>1, <1>11 DEF FrameIsSound
    <3> QED
      BY <1>1, <3>1 DEF EventIsSound, Leads
  <2>5. f.seq <= Len(Feeds[f.epoch]) /\ Feeds[f.epoch][f.seq] = LeadsTo(f)
    BY <1>1, <1>5, <2>4
  <2>6. /\ view.epoch \in DOMAIN Feeds /\ Len(view.seen) + 1 <= Len(Feeds[view.epoch])
        /\ view' = Feed!Led([view EXCEPT !.seen = Feed!UpTo(Len(view.seen) + 1)],
                            Feeds[view.epoch][Len(view.seen) + 1])
    BY <1>1, <1>5, <1>11, <2>1, <2>2, <2>3, <2>5
  <2>7. Feed!Extend
    BY <2>6 DEF Feed!Extend, Feeds, Leads
  <2> QED
    BY <1>6, <2>7
<1>12. CASE /\ f.kind = "event" /\ view.epoch = 0 /\ LeadsTo(f) = 0
            /\ view' = Feed!Led(Shown(f), LeadsTo(f))
  <2>1. view' = Shown(f)
    BY <1>12 DEF Feed!Led
  <2> QED
    BY <1>1, <1>6, <1>8, <1>12, <2>1
<1>13. CASE f.kind = "event" /\ view' = Feed!Led(view, LeadsTo(f))
  <2>1. CASE LeadsTo(f) = 0
    <3>1. view' = view
      BY <1>13, <2>1 DEF Feed!Led
    <3> QED
      BY <1>2, <3>1, StutterMaps
  <2>2. CASE LeadsTo(f) # 0
    BY <1>1, <1>6, <1>7, <1>13, <2>2
  <2> QED
    BY <2>1, <2>2
<1> QED
  BY <1>2, <1>9, <1>10, <1>11, <1>12, <1>13 DEF ViewAfter

\* The steps of the tab and of the route.
LEMMA TabMaps ==
  ASSUME StreamAssumption, StreamInv,
         \/ AcceptResumed \/ AcceptRegistered \/ AcceptStarted
         \/ PageConnects \/ RetryFires \/ Breaks \/ Refused \/ EndOfStream
         \/ FailsafeFires \/ Receive \/ ReceiveUnreadable \/ Remount
  PROVE  Feed!Next \/ UNCHANGED Feed!vars
<1>1. TypeOK
  BY DEF StreamInv
<1>2. tab \in [sid : Sid, cursor : Cursor, deltas : BOOLEAN, ready : BOOLEAN,
               base : Nat, retry : BOOLEAN]
  BY <1>1 DEF TypeOK
<1>3. ASSUME UNCHANGED <<wrappers, view, tab.sid>> PROVE UNCHANGED Feed!vars
  BY <1>3, StutterMaps
<1>4. CASE AcceptResumed \/ AcceptRegistered
  BY <1>3, <1>4 DEF AcceptResumed, AcceptRegistered
<1>5. CASE AcceptStarted
  BY <1>2, <1>5, StartMaps DEF AcceptStarted
<1>6. CASE PageConnects \/ RetryFires
  BY <1>2, <1>3, <1>6 DEF PageConnects, RetryFires, Connect
<1>7. CASE Breaks \/ Refused \/ EndOfStream
  BY <1>2, <1>3, <1>7 DEF Breaks, Refused, EndOfStream, Fails
<1>8. CASE FailsafeFires
  BY <1>3, <1>8 DEF FailsafeFires
<1>9. ASSUME Recover, UNCHANGED wrappers PROVE UNCHANGED Feed!vars
  BY <1>2, <1>3, <1>9 DEF Recover
<1>10. CASE Receive
  <2>1. PICK f : f = Head(channel)
    OBVIOUS
  <2>2. /\ channel # <<>> /\ UNCHANGED wrappers
        /\ UNCHANGED <<tab, view>> \/ Handle(f) \/ Recover
    BY <1>10, <2>1 DEF Receive
  <2> QED
    BY <1>3, <1>9, <2>1, <2>2, HandleMaps
<1>11. CASE ReceiveUnreadable
  BY <1>9, <1>11 DEF ReceiveUnreadable
<1>12. CASE Remount
  <2>1. view.turned /\ tab'.sid = view.sid /\ view' = Feed!Nothing(view.sid) /\ UNCHANGED wrappers
    BY <1>12 DEF Remount, FreshTab
  <2>2. UNCHANGED <<Feeds, Serveds>>
    BY <2>1 DEF Feeds, Serveds
  <2>3. Feed!Mount
    BY <2>1 DEF Feed!Mount
  <2> QED
    BY <2>2, <2>3 DEF Feed!Next, Feeds, Serveds, Leads
<1> QED
  BY <1>4, <1>5, <1>6, <1>7, <1>8, <1>10, <1>11, <1>12

\* The stream implements SessionFeed: across replays, snapshots, broken connections and
\* sessions replaced in any order, former ones included, the tab extends what it shows by
\* the events of one runtime in their order, exchanges it for a prefix of what a runtime
\* published that has served the session displayed, and turns to another session only
\* where such a runtime leads it.
THEOREM TheStreamIsAFeed == Spec => FeedSpec
<1> USE StreamAssumption
<1>1. Init => Feed!Init
  <2> SUFFICES ASSUME Init PROVE Feed!Init
    OBVIOUS
  <2>1. wrappers = <<>> /\ view = Feed!Nothing(1) /\ tab.sid = 1
    BY DEF Init, FreshTab
  <2>2. Feeds = <<>> /\ Serveds = <<>>
    BY <2>1 DEF Feeds, Serveds
  <2> QED
    BY <2>1, <2>2 DEF Feed!Init, Feeds, Serveds, Leads
<1>2. StreamInv /\ [Next]_vars => [Feed!Next]_(Feed!vars)
  <2> SUFFICES ASSUME StreamInv, [Next]_vars PROVE Feed!Next \/ UNCHANGED Feed!vars
    OBVIOUS
  <2>1. ASSUME NEW e \in DOMAIN wrappers,
               \/ \E t \in Emitted : Emit(e, t)
               \/ \E t \in {"closed", "restart"} : End(e, t)
               \/ Rebind(e) \/ Register(e) \/ FinishReplacement(e)
               \/ Restore(e) \/ FailReplacement(e) \/ CancelReplacement(e)
               \/ \E s \in Sid : BeginReplacement(e, s) \/ Prune(e, s)
        PROVE  Feed!Next \/ UNCHANGED Feed!vars
    BY <2>1, RuntimeMaps
  <2>2. CASE Crash
    BY <2>2, CrashMaps
  <2>3. ASSUME NEW s \in Sid, Start(s) PROVE Feed!Next
    BY <2>3, StartMaps DEF Start, page
  <2>4. CASE \/ AcceptResumed \/ AcceptRegistered \/ AcceptStarted
             \/ PageConnects \/ RetryFires \/ Breaks \/ Refused \/ EndOfStream
             \/ FailsafeFires \/ Receive \/ ReceiveUnreadable \/ Remount
    BY <2>4, TabMaps
  <2>5. CASE UNCHANGED vars
    <3>1. UNCHANGED <<wrappers, view, tab.sid>>
      BY <2>5 DEF vars
    <3> QED
      BY <3>1, StutterMaps
  <2> QED
    BY <2>1, <2>2, <2>3, <2>4, <2>5 DEF Next
<1> QED
  BY <1>1, <1>2, InvariantHolds, PTL DEF Spec, FeedSpec, Feed!Spec
=============================================================================
