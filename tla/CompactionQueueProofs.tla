------------------------ MODULE CompactionQueueProofs ------------------------
(***************************************************************************)
(* Proofs about compactions and the messages queued meanwhile, for any       *)
(* messages, any requests and any number of runs and sessions.               *)
(***************************************************************************)
EXTENDS CompactionQueue, SequenceTheorems, TLAPS

InSeq(q, i) == \E n \in 1..Len(q) : q[n] = i
Distinct(q) == \A m, n \in 1..Len(q) : q[m] = q[n] => m = n

\* What the SDK is at by itself is shown under no request's id.
Origin == compacting = "auto" => comp.id = AutoId

\* A message is in the queue once, in the session it was written in, and was not
\* sent before; nor is one in the queue, or sent, that is handed over directly; the ids
\* of the session are known.
Queueing ==
  /\ Distinct(queue)
  /\ \A i \in Item : /\ from[i] <= current
                     /\ i \in known <=> from[i] = current
                     /\ from[i] = 0 => sent[i] = 0
                     /\ InSeq(queue, i) => from[i] = current /\ sent[i] = 0
                     /\ handing[i] # "no" =>
                          from[i] # 0 /\ sent[i] = 0 /\ ~InSeq(queue, i)

\* The message of the flush is of its session; it is not sent before the SDK took
\* it, and then it is not in the queue any more.
Flushed ==
  /\ flush.item = NoItem <=> ~Flushing
  /\ Flushing => from[flush.item] = flush.current /\ handing[flush.item] = "no"
  /\ flush.at \in {"queueing", "snapshot"} => sent[flush.item] = 0
  /\ flush.at = "prompt" => sent[flush.item] = 1
  /\ flush.at \in {"snapshot", "prompt"} => ~InSeq(queue, flush.item)
  /\ flush.at = "queueing" =>
       InSeq(queue, flush.item) \/ flush.item \in cleared \/ flush.current # current

IInv == /\ TypeOK /\ Origin /\ Queueing /\ Flushed
        /\ CompactionIsShown /\ QueueIsServed /\ OnceOrExplained

USE DEF direct

Flush == [at : {"none", "queueing", "snapshot", "prompt"}, item : Item \cup {NoItem},
          current : 1..MaxInner, retry : BOOLEAN, end : Nat]

-----------------------------------------------------------------------------
\* Sequences without repetitions

LEMMA HeadAndTail ==
  ASSUME NEW q \in Seq(Item), q # <<>>, Distinct(q)
  PROVE  /\ Head(q) \in Item /\ InSeq(q, Head(q))
         /\ Tail(q) \in Seq(Item) /\ Distinct(Tail(q))
         /\ \A i \in Item : InSeq(Tail(q), i) <=> InSeq(q, i) /\ i # Head(q)
<1>1. /\ Len(q) \in Nat \ {0} /\ Head(q) = q[1] /\ q[1] \in Item
      /\ Tail(q) \in Seq(Item) /\ Len(Tail(q)) = Len(q) - 1
      /\ \A n \in 1..Len(Tail(q)) : Tail(q)[n] = q[n + 1]
  BY EmptySeq, HeadTailProperties
<1>2. \A n \in 1..Len(Tail(q)) : n + 1 \in 1..Len(q) /\ n + 1 # 1
  BY <1>1
<1>3. Distinct(Tail(q))
  BY <1>1, <1>2 DEF Distinct
<1>4. ASSUME NEW i \in Item, InSeq(Tail(q), i)  PROVE InSeq(q, i) /\ i # Head(q)
  <2>1. PICK n \in 1..Len(Tail(q)) : q[n + 1] = i
    BY <1>1, <1>4 DEF InSeq
  <2> QED  BY <1>1, <1>2, <2>1 DEF InSeq, Distinct
<1>5. ASSUME NEW i \in Item, InSeq(q, i), i # Head(q)  PROVE InSeq(Tail(q), i)
  <2>1. PICK n \in 1..Len(q) : q[n] = i
    BY <1>5 DEF InSeq
  <2>2. n # 1 /\ n - 1 \in 1..Len(Tail(q)) /\ (n - 1) + 1 = n
    BY <1>1, <1>5, <2>1
  <2> QED  BY <1>1, <2>1, <2>2 DEF InSeq
<1> QED  BY <1>1, <1>3, <1>4, <1>5 DEF InSeq

LEMMA Removed ==
  ASSUME NEW q \in Seq(Item), NEW i \in Item, Distinct(q)
  PROVE  /\ Without(q, i) \in Seq(Item) /\ Distinct(Without(q, i))
         /\ \A j \in Item : InSeq(Without(q, i), j) <=> InSeq(q, j) /\ j # i
<1> DEFINE at == {n \in 1..Len(q) : q[n] = i}
<1>1. CASE at = {}
  BY <1>1 DEF Without, InSeq
<1>2. CASE at # {}
  <2> DEFINE k == CHOOSE m \in at : TRUE
             a == SubSeq(q, 1, k - 1)
             b == SubSeq(q, k + 1, Len(q))
  <2>1. k \in 1..Len(q) /\ q[k] = i /\ Len(q) \in Nat
    BY <1>2
  <2>2. Without(q, i) = a \o b
    BY <1>2 DEF Without
  <2> HIDE DEF at, k
  <2>3. \A n \in 1..Len(q) : q[n] \in Item
    OBVIOUS
  <2>4. /\ a \in Seq(Item) /\ Len(a) = k - 1
        /\ \A n \in 1..(k - 1) : a[n] = q[n]
    <3>1. 1 \in Int /\ k - 1 \in Int /\ \A n \in 1..(k - 1) : q[n] \in Item
      BY <2>1, <2>3
    <3>2. /\ a \in Seq(Item) /\ Len(a) = IF 1 <= k - 1 THEN (k - 1) - 1 + 1 ELSE 0
          /\ \A n \in 1..((k - 1) - 1 + 1) : a[n] = q[1 + n - 1]
      BY <3>1, SubSeqProperties
    <3> QED  BY <2>1, <3>2
  <2>5. /\ b \in Seq(Item) /\ Len(b) = Len(q) - k
        /\ \A n \in 1..(Len(q) - k) : b[n] = q[k + n]
    <3>1. k + 1 \in Int /\ Len(q) \in Int /\ \A n \in (k + 1)..Len(q) : q[n] \in Item
      BY <2>1, <2>3
    <3>2. /\ b \in Seq(Item)
          /\ Len(b) = IF k + 1 <= Len(q) THEN Len(q) - (k + 1) + 1 ELSE 0
          /\ \A n \in 1..(Len(q) - (k + 1) + 1) : b[n] = q[(k + 1) + n - 1]
      BY <3>1, SubSeqProperties
    <3> QED  BY <2>1, <3>2
  <2> HIDE DEF a, b
  <2>6. /\ a \o b \in Seq(Item) /\ Len(a \o b) = Len(q) - 1
        /\ \A n \in 1..(Len(q) - 1) :
             (a \o b)[n] = IF n < k THEN q[n] ELSE q[n + 1]
    <3>1. /\ a \o b \in Seq(Item) /\ Len(a \o b) = Len(a) + Len(b)
          /\ \A n \in 1..Len(a) + Len(b) :
               (a \o b)[n] = IF n <= Len(a) THEN a[n] ELSE b[n - Len(a)]
      BY <2>4, <2>5, ConcatProperties
    <3>2. \A n \in 1..(Len(q) - 1) : n < k => n \in 1..(k - 1) /\ n <= k - 1
      BY <2>1
    <3>3. \A n \in 1..(Len(q) - 1) :
            ~(n < k) => ~(n <= k - 1) /\ n - (k - 1) \in 1..(Len(q) - k)
                        /\ k + (n - (k - 1)) = n + 1
      BY <2>1
    <3> QED  BY <2>1, <2>4, <2>5, <3>1, <3>2, <3>3
  <2>7. \A n \in 1..(Len(q) - 1) : n \in 1..Len(q) /\ n + 1 \in 1..Len(q)
    BY <2>1
  <2>8. Distinct(a \o b)
    <3> SUFFICES ASSUME NEW m \in 1..(Len(q) - 1), NEW n \in 1..(Len(q) - 1),
                        (a \o b)[m] = (a \o b)[n]
                 PROVE  m = n
      BY <2>6 DEF Distinct
    <3>1. (IF m < k THEN m ELSE m + 1) = (IF n < k THEN n ELSE n + 1)
      BY <2>6, <2>7 DEF Distinct
    <3> QED  BY <2>1, <3>1
  <2>9. ASSUME NEW j \in Item, InSeq(a \o b, j)  PROVE InSeq(q, j) /\ j # i
    <3>1. PICK n \in 1..(Len(q) - 1) : (a \o b)[n] = j
      BY <2>6, <2>9 DEF InSeq
    <3>2. PICK m \in 1..Len(q) : q[m] = j /\ m # k
      <4>1. CASE n < k
        <5>1. q[n] = j
          BY <2>6, <3>1, <4>1
        <5>2. n \in 1..Len(q) /\ n # k
          BY <2>1, <2>7, <4>1
        <5> QED  BY <5>1, <5>2
      <4>2. CASE ~(n < k)
        <5>1. q[n + 1] = j /\ n + 1 \in 1..Len(q) /\ n + 1 # k
          BY <2>1, <2>6, <2>7, <3>1, <4>2
        <5> QED  BY <5>1
      <4> QED  BY <4>1, <4>2
    <3> QED  BY <2>1, <3>2 DEF InSeq, Distinct
  <2>10. ASSUME NEW j \in Item, InSeq(q, j), j # i  PROVE InSeq(a \o b, j)
    <3>1. PICK m \in 1..Len(q) : q[m] = j
      BY <2>10 DEF InSeq
    <3>2. m # k
      BY <2>1, <2>10, <3>1
    <3>3. CASE m < k
      <4>1. m \in 1..(Len(q) - 1)
        BY <2>1, <3>3
      <4> QED  BY <2>6, <3>1, <3>3, <4>1 DEF InSeq
    <3>4. CASE m > k
      <4>1. m - 1 \in 1..(Len(q) - 1) /\ ~(m - 1 < k) /\ (m - 1) + 1 = m
        BY <2>1, <3>4
      <4> QED  BY <2>6, <3>1, <4>1 DEF InSeq
    <3> QED  BY <2>1, <3>2, <3>3, <3>4
  <2> QED  BY <2>2, <2>6, <2>8, <2>9, <2>10
<1> QED  BY <1>1, <1>2

LEMMA Added ==
  ASSUME NEW q \in Seq(Item), NEW i \in Item, Distinct(q), ~InSeq(q, i)
  PROVE  /\ Append(q, i) \in Seq(Item) /\ Distinct(Append(q, i))
         /\ \A j \in Item : InSeq(Append(q, i), j) <=> InSeq(q, j) \/ j = i
         /\ <<i>> \o q \in Seq(Item) /\ Distinct(<<i>> \o q)
         /\ \A j \in Item : InSeq(<<i>> \o q, j) <=> InSeq(q, j) \/ j = i
<1>1. /\ Append(q, i) \in Seq(Item) /\ Len(Append(q, i)) = Len(q) + 1 /\ Len(q) \in Nat
      /\ \A n \in 1..(Len(q) + 1) :
           Append(q, i)[n] = IF n = Len(q) + 1 THEN i ELSE q[n]
  OBVIOUS
<1>2. /\ <<i>> \o q \in Seq(Item) /\ Len(<<i>> \o q) = Len(q) + 1
      /\ \A n \in 1..(Len(q) + 1) :
           (<<i>> \o q)[n] = IF n = 1 THEN i ELSE q[n - 1]
  <2>1. <<i>> \in Seq(Item) /\ Len(<<i>>) = 1 /\ <<i>>[1] = i
    OBVIOUS
  <2>2. /\ <<i>> \o q \in Seq(Item) /\ Len(<<i>> \o q) = 1 + Len(q)
        /\ \A n \in 1..1 + Len(q) :
             (<<i>> \o q)[n] = IF n <= 1 THEN <<i>>[n] ELSE q[n - 1]
    BY <2>1, ConcatProperties
  <2> QED  BY <1>1, <2>1, <2>2
<1>3. /\ \A n \in 1..(Len(q) + 1) : n # Len(q) + 1 => n \in 1..Len(q)
      /\ \A n \in 1..(Len(q) + 1) : n # 1 => n - 1 \in 1..Len(q)
      /\ \A n \in 1..Len(q) : n \in 1..(Len(q) + 1) /\ n + 1 \in 1..(Len(q) + 1)
                              /\ n # Len(q) + 1 /\ n + 1 # 1 /\ (n + 1) - 1 = n
      /\ 1 \in 1..(Len(q) + 1) /\ Len(q) + 1 \in 1..(Len(q) + 1)
  BY <1>1
<1>4. Distinct(Append(q, i))
  BY <1>1, <1>3 DEF Distinct, InSeq
<1>5. Distinct(<<i>> \o q)
  <2> SUFFICES ASSUME NEW m \in 1..(Len(q) + 1), NEW n \in 1..(Len(q) + 1),
                      (<<i>> \o q)[m] = (<<i>> \o q)[n]
               PROVE  m = n
    BY <1>2 DEF Distinct
  <2>1. CASE m = 1 \/ n = 1
    BY <1>2, <1>3, <2>1 DEF InSeq
  <2>2. CASE m # 1 /\ n # 1
    <3>1. m - 1 = n - 1
      BY <1>2, <1>3, <2>2 DEF Distinct
    <3> QED  BY <3>1
  <2> QED  BY <2>1, <2>2
<1>6. \A j \in Item : InSeq(Append(q, i), j) <=> InSeq(q, j) \/ j = i
  BY <1>1, <1>3 DEF InSeq
<1>7. ASSUME NEW j \in Item
      PROVE  InSeq(<<i>> \o q, j) <=> InSeq(q, j) \/ j = i
  <2>1. ASSUME InSeq(<<i>> \o q, j)  PROVE InSeq(q, j) \/ j = i
    BY <1>2, <1>3, <2>1 DEF InSeq
  <2>2. ASSUME NEW n \in 1..Len(q), q[n] = j  PROVE InSeq(<<i>> \o q, j)
    <3>1. n + 1 \in 1..(Len(q) + 1) /\ (<<i>> \o q)[n + 1] = j
      BY <1>2, <1>3, <2>2
    <3> QED  BY <1>2, <3>1 DEF InSeq
  <2>3. InSeq(<<i>> \o q, i)
    BY <1>2, <1>3 DEF InSeq
  <2> QED  BY <2>1, <2>2, <2>3 DEF InSeq
<1> QED  BY <1>1, <1>2, <1>4, <1>5, <1>6, <1>7

-----------------------------------------------------------------------------
\* flushCompactionQueue()

\* A round of the flush leaves the queue as it is, takes its first message, or
\* offers it to the run; where it leaves messages behind there is a reason.
LEMMA RoundGoesOn ==
  ASSUME CompactionAssumption, NEW q \in Seq(Item), Distinct(q), NEW s \in 1..MaxInner,
         NEW retry \in BOOLEAN, NEW busy \in BOOLEAN, NEW inRun \in BOOLEAN,
         ended \in Nat,
         Round(q, s, retry, busy, inRun)
  PROVE  /\ queue' \in Seq(Item) /\ flush' \in Flush /\ rest' \in {"none", "replaced"}
         /\ Distinct(queue')
         /\ \/ /\ flush' = NotFlushing /\ queue' = q
               /\ q # <<>> => rest' = "replaced" \/ (busy /\ ~retry)
            \/ /\ s = current /\ flush'.current = current
               /\ flush'.item \in Item /\ InSeq(q, flush'.item)
               /\ \/ flush'.at = "queueing" /\ queue' = q
                  \/ /\ flush'.at = "snapshot"
                     /\ \A i \in Item : InSeq(queue', i) <=>
                                         InSeq(q, i) /\ i # flush'.item
<1>1. NotFlushing \in Flush
  BY DEF CompactionAssumption, NotFlushing, Flush
<1>2. CASE q = <<>> \/ s # current \/ (busy /\ ~retry)
  <2>1. /\ flush' = NotFlushing /\ queue' = q
        /\ rest' = IF s # current THEN "replaced" ELSE "none"
    BY <1>2 DEF Round
  <2>2. rest' \in {"none", "replaced"}
    BY <2>1
  <2>3. q # <<>> => rest' = "replaced" \/ (busy /\ ~retry)
    BY <1>2, <2>1
  <2>4. queue' \in Seq(Item) /\ flush' \in Flush /\ Distinct(queue')
    BY <1>1, <2>1
  <2>5. /\ flush' = NotFlushing /\ queue' = q
        /\ q # <<>> => rest' = "replaced" \/ (busy /\ ~retry)
    BY <2>1, <2>3
  <2> QED  BY <2>2, <2>4, <2>5
<1>3. CASE ~(q = <<>> \/ s # current \/ (busy /\ ~retry))
  <2> DEFINE asRun == retry \/ inRun
             f == [at |-> IF asRun THEN "queueing" ELSE "snapshot", item |-> Head(q),
                   current |-> s, retry |-> retry, end |-> ended]
  <2>1. flush' = f /\ queue' = (IF asRun THEN q ELSE Tail(q)) /\ rest' = "none"
    BY <1>3 DEF Round
  <2>2. /\ Head(q) \in Item /\ InSeq(q, Head(q))
        /\ Tail(q) \in Seq(Item) /\ Distinct(Tail(q))
        /\ \A i \in Item : InSeq(Tail(q), i) <=> InSeq(q, i) /\ i # Head(q)
    BY <1>3, HeadAndTail
  <2>3. f \in Flush
    BY <2>2 DEF Flush
  <2>4. CASE asRun
    BY <1>3, <2>1, <2>2, <2>3, <2>4
  <2>5. CASE ~asRun
    BY <1>3, <2>1, <2>2, <2>3, <2>5
  <2> QED  BY <2>4, <2>5
<1> QED  BY <1>2, <1>3

\* After such a round the messages are where they should be, if those of q were.
LEMMA RoundKeeps ==
  ASSUME CompactionAssumption, NEW q \in Seq(Item), Distinct(q), NEW s \in 1..MaxInner,
         NEW retry \in BOOLEAN, NEW busy \in BOOLEAN, NEW inRun \in BOOLEAN,
         TypeOK, Round(q, s, retry, busy, inRun), UNCHANGED <<current, from, known, handing>>,
         \A i \in Item : /\ from[i] <= current
                         /\ i \in known <=> from[i] = current
                         /\ from[i] = 0 => sent'[i] = 0
                         /\ InSeq(q, i) => from[i] = current /\ sent'[i] = 0
                         /\ handing[i] # "no" =>
                              from[i] # 0 /\ sent'[i] = 0 /\ ~InSeq(q, i)
  PROVE  /\ queue' \in Seq(Item) /\ flush' \in Flush /\ rest' \in {"none", "replaced"}
         /\ Queueing' /\ Flushed'
         /\ \A i \in Item : InSeq(q, i) => InSeq(queue', i) \/ flush'.item = i
         /\ queue' # <<>> => Flushing' \/ rest' # "none" \/ (busy /\ ~retry)
<1>1. /\ queue' \in Seq(Item) /\ flush' \in Flush /\ rest' \in {"none", "replaced"}
      /\ Distinct(queue')
      /\ \/ /\ flush' = NotFlushing /\ queue' = q
            /\ q # <<>> => rest' = "replaced" \/ (busy /\ ~retry)
         \/ /\ s = current /\ flush'.current = current
            /\ flush'.item \in Item /\ InSeq(q, flush'.item)
            /\ \/ flush'.at = "queueing" /\ queue' = q
               \/ /\ flush'.at = "snapshot"
                  /\ \A i \in Item : InSeq(queue', i) <=>
                                      InSeq(q, i) /\ i # flush'.item
  BY RoundGoesOn DEF TypeOK
<1>2. \A i \in Item : InSeq(queue', i) => InSeq(q, i)
  BY <1>1
<1>3. Queueing'
  BY <1>1, <1>2 DEF Queueing
<1>4. NotFlushing.at = "none" /\ NotFlushing.item = NoItem /\ NoItem \notin Item
  BY DEF NotFlushing, CompactionAssumption
<1>5. Flushed'
  <2>1. CASE flush' = NotFlushing
    BY <1>4, <2>1 DEF Flushed, Flushing
  <2>2. CASE flush' # NotFlushing
    BY <1>1, <1>4, <2>2 DEF Flushed, Flushing
  <2> QED  BY <2>1, <2>2
<1>6. \A i \in Item : InSeq(q, i) => InSeq(queue', i) \/ flush'.item = i
  BY <1>1
<1>7. queue' # <<>> => Flushing' \/ rest' # "none" \/ (busy /\ ~retry)
  BY <1>1 DEF Flushing
<1> QED  BY <1>1, <1>3, <1>5, <1>6, <1>7

\* A call of the flush, with isCompacting as given and the status the controller
\* shows after it.
LEMMA FlushCalledKeeps ==
  ASSUME CompactionAssumption, IInv, NEW retry \in BOOLEAN, NEW busy \in BOOLEAN,
         NEW shown, FlushCalled(retry, shown, busy),
         UNCHANGED <<current, from, known, sent, cleared, handing>>
  PROVE  /\ queue' \in Seq(Item) /\ flush' \in Flush /\ timers' \in 0..MaxTimers
         /\ rest' \in {"none", "error", "replaced"}
         /\ Queueing' /\ Flushed'
         /\ \A i \in Item : InSeq(queue, i) \/ flush.item = i =>
                             InSeq(queue', i) \/ flush'.item = i
         /\ queue' # <<>> => \/ Flushing' \/ timers' > 0 \/ rest' # "none"
                             \/ shown = "running"
<1>1. CASE Flushing \/ queue = <<>> \/ shown = "running"
  <2>1. UNCHANGED <<queue, flush, timers, rest>>
    BY <1>1 DEF FlushCalled
  <2> QED  BY <1>1, <2>1 DEF IInv, TypeOK, Flush, Queueing, Flushed, Flushing
<1>2. CASE ~(Flushing \/ queue = <<>> \/ shown = "running") /\ busy /\ ~retry
  <2>1. /\ timers < MaxTimers /\ timers' = timers + 1
        /\ UNCHANGED <<queue, flush, rest>>
    BY <1>2 DEF FlushCalled
  <2>2. timers' \in 0..MaxTimers /\ timers' > 0
    BY <2>1 DEF IInv, TypeOK, CompactionAssumption
  <2> QED  BY <2>1, <2>2 DEF IInv, TypeOK, Flush, Queueing, Flushed, Flushing
<1>3. CASE ~(Flushing \/ queue = <<>> \/ shown = "running") /\ ~(busy /\ ~retry)
  <2>1. Round(queue, current, retry, busy, streaming) /\ timers' = timers
    BY <1>3 DEF FlushCalled
  <2>2. /\ queue \in Seq(Item) /\ Distinct(queue) /\ current \in 1..MaxInner
        /\ streaming \in BOOLEAN /\ timers' \in 0..MaxTimers
    BY <2>1 DEF IInv, TypeOK, Queueing
  <2>3. \A i \in Item : /\ from[i] <= current
                        /\ i \in known <=> from[i] = current
                        /\ from[i] = 0 => sent'[i] = 0
                        /\ InSeq(queue, i) => from[i] = current /\ sent'[i] = 0
                        /\ handing[i] # "no" =>
                             from[i] # 0 /\ sent'[i] = 0 /\ ~InSeq(queue, i)
    BY DEF IInv, Queueing
  <2>4. /\ queue' \in Seq(Item) /\ flush' \in Flush /\ rest' \in {"none", "replaced"}
        /\ Queueing' /\ Flushed'
        /\ \A i \in Item : InSeq(queue, i) => InSeq(queue', i) \/ flush'.item = i
        /\ queue' # <<>> => Flushing' \/ rest' # "none" \/ (busy /\ ~retry)
    BY <2>1, <2>2, <2>3, RoundKeeps DEF IInv
  <2>5. flush.item \notin Item
    BY <1>3 DEF IInv, Flushed, CompactionAssumption
  <2> QED  BY <1>3, <2>2, <2>4, <2>5
<1> QED  BY <1>1, <1>2, <1>3

-----------------------------------------------------------------------------
\* The steps.  One that leaves queue and flush alone leaves the messages alone.
LEMMA OthersKeep ==
  ASSUME IInv,
         UNCHANGED <<current, direct, queue, known, flush, timers, from, sent, cleared, failed,
                     rest>>,
         Running => Running'
  PROVE  /\ Queueing' /\ Flushed' /\ QueueIsServed' /\ OnceOrExplained'
         /\ queue' \in Seq(Item) /\ flush' \in Flush /\ timers' \in 0..MaxTimers
BY DEF IInv, TypeOK, Flush, Queueing, Flushed, Flushing, QueueIsServed, OnceOrExplained

\* The controllers's finish(), of a request or by the event of the SDK.
LEMMA FinishKeeps ==
  ASSUME CompactionAssumption, IInv, NEW id, NEW retry \in BOOLEAN, NEW busy \in BOOLEAN,
         Finish(id, retry, busy),
         UNCHANGED <<current, from, known, sent, cleared, failed, direct>>
  PROVE  /\ Queueing' /\ Flushed' /\ QueueIsServed' /\ OnceOrExplained'
         /\ queue' \in Seq(Item) /\ flush' \in Flush /\ timers' \in 0..MaxTimers
         /\ rest' \in {"none", "error", "replaced"}
         /\ IF comp.id # id \/ ~Running THEN comp' = comp
            ELSE comp' = [comp EXCEPT !.status = "ended"]
<1>1. CASE comp.id # id \/ ~Running
  <2>1. UNCHANGED <<comp, queue, flush, timers, rest>>
    BY <1>1 DEF Finish
  <2> QED  BY <1>1, <2>1, OthersKeep DEF Running, IInv, TypeOK
<1>2. CASE ~(comp.id # id \/ ~Running)
  <2>1. FlushCalled(retry, "ended", busy) /\ comp' = [comp EXCEPT !.status = "ended"]
    BY <1>2 DEF Finish
  <2>2. /\ queue' \in Seq(Item) /\ flush' \in Flush /\ timers' \in 0..MaxTimers
        /\ rest' \in {"none", "error", "replaced"}
        /\ Queueing' /\ Flushed'
        /\ \A i \in Item : InSeq(queue, i) \/ flush.item = i =>
                            InSeq(queue', i) \/ flush'.item = i
        /\ queue' # <<>> => Flushing' \/ timers' > 0 \/ rest' # "none"
    BY <2>1, FlushCalledKeeps
  <2>3. QueueIsServed'
    BY <2>2 DEF QueueIsServed
  <2>4. OnceOrExplained'
    BY <2>2 DEF IInv, OnceOrExplained, InSeq
  <2> QED  BY <1>2, <2>1, <2>2, <2>3, <2>4
<1> QED  BY <1>1, <1>2

\* The compaction that the steps of the queue do not change.
SameCompaction == UNCHANGED <<current, ctl, direct, streaming, ended, runs, autos>>

LEMMA SameCompactionKeeps ==
  ASSUME IInv, UNCHANGED ctl
  PROVE  Origin' /\ CompactionIsShown'
BY DEF IInv, ctl, Origin, CompactionIsShown, Running

LEMMA QueueTypes ==
  ASSUME IInv, SameCompaction,
         queue' \in Seq(Item), flush' \in Flush, timers' \in 0..MaxTimers,
         known' \subseteq Item, from' \in [Item -> 0..MaxInner], sent' \in [Item -> Nat],
         cleared' \subseteq Item, failed' \subseteq Item,
         rest' \in {"none", "error", "replaced"}
  PROVE  TypeOK'
BY DEF IInv, TypeOK, SameCompaction, ctl, Flush

-----------------------------------------------------------------------------
LEMMA IInvHolds == ASSUME CompactionAssumption PROVE Spec => []IInv
<1>1. Init => IInv
  <2> SUFFICES ASSUME Init  PROVE IInv
    OBVIOUS
  <2>1. 1 \in 1..MaxInner /\ 1 # 0 /\ NotFlushing \in Flush /\ NotFlushing.item = NoItem
        /\ NotFlushing.at = "none" /\ 0 \in 0..MaxTimers /\ 0 \in 0..MaxRuns
        /\ 0 \in 0..MaxAuto /\ 0 \in 0..MaxInner
    BY DEF CompactionAssumption, NotFlushing, Flush
  <2>a. /\ [i \in Item |-> 0] \in [Item -> 0..MaxInner]
        /\ [i \in Item |-> 0] \in [Item -> Nat]
    BY <2>1
  <2>b. <<>> \in Seq(Item) /\ Len(<<>>) = 0
    OBVIOUS
  <2>c. [id |-> AutoId, status |-> "none"]
          \in [id : Request \cup {AutoId}, status : {"none", "running", "ended"}]
    OBVIOUS
  <2>2. TypeOK
    BY <2>1, <2>a, <2>b, <2>c DEF Init, TypeOK, Flush
  <2>3. \A i \in Item : ~InSeq(queue, i)
    <3>1. Len(queue) = 0
      BY <2>b DEF Init
    <3> QED  BY <3>1 DEF InSeq
  <2>4. Queueing /\ Flushed
    BY <2>1, <2>3, CompactionAssumption DEF Init, Queueing, Flushed, Flushing, Distinct
  <2>5. Origin /\ CompactionIsShown /\ QueueIsServed /\ OnceOrExplained
    BY <2>1 DEF Init, Origin, CompactionIsShown, QueueIsServed, OnceOrExplained, Running
  <2> QED  BY <2>2, <2>4, <2>5 DEF IInv
<1>2. IInv /\ [Next]_vars => IInv'
  <2> SUFFICES ASSUME IInv, [Next]_vars  PROVE IInv'
    OBVIOUS
  <2>a. /\ queue \in Seq(Item) /\ flush \in Flush /\ flush.current \in 1..MaxInner
        /\ flush.item \in Item \cup {NoItem} /\ flush.retry \in BOOLEAN
        /\ NoItem \notin Item /\ IsCompacting \in BOOLEAN /\ Distinct(queue)
        /\ Flushing <=> flush.item \in Item
    <3>1. queue \in Seq(Item) /\ flush \in Flush /\ Distinct(queue)
      BY DEF IInv, TypeOK, Flush, Queueing
    <3>2. /\ flush.current \in 1..MaxInner /\ flush.item \in Item \cup {NoItem}
          /\ flush.retry \in BOOLEAN
      BY <3>1 DEF Flush
    <3>3. NoItem \notin Item
      BY CompactionAssumption DEF CompactionAssumption
    <3>4. Flushing <=> flush.item \in Item
      BY <3>2, <3>3 DEF IInv, Flushed
    <3>5. IsCompacting \in BOOLEAN
      BY DEF IsCompacting
    <3> QED  BY <3>1, <3>2, <3>3, <3>4, <3>5
  <2>1. CASE Queued
    <3> DEFINE q == Without(queue, flush.item)
    <3>1. flush.at = "queueing" /\ flush.item \in Item
      BY <2>1, <2>a DEF Queued, Flushing
    <3>2. /\ Round(q, flush.current, flush.retry, IsCompacting, streaming)
          /\ sent' = [sent EXCEPT ![flush.item] = @ + 1]
          /\ UNCHANGED <<known, timers, from, cleared, failed>> /\ SameCompaction
      BY <2>1 DEF Queued, SameCompaction
    <3>3. /\ q \in Seq(Item) /\ Distinct(q)
          /\ \A i \in Item : InSeq(q, i) <=> InSeq(queue, i) /\ i # flush.item
      BY <2>a, <3>1, Removed
    <3> HIDE DEF q
    <3>4. /\ sent' \in [Item -> Nat] /\ sent[flush.item] = 0
          /\ \A i \in Item : sent'[i] = IF i = flush.item THEN 1 ELSE sent[i]
      BY <3>1, <3>2 DEF IInv, TypeOK, Flushed
    <3>5. from[flush.item] # 0 /\ handing[flush.item] = "no"
      BY <2>a, <3>1 DEF IInv, Flushed, Flushing
    <3>6. \A i \in Item : /\ from[i] <= current
                          /\ i \in known <=> from[i] = current
                          /\ from[i] = 0 => sent'[i] = 0
                          /\ InSeq(q, i) => from[i] = current /\ sent'[i] = 0
                          /\ handing[i] # "no" =>
                               from[i] # 0 /\ sent'[i] = 0 /\ ~InSeq(q, i)
      BY <3>3, <3>4, <3>5 DEF IInv, Queueing
    <3>7. UNCHANGED <<current, from, known, handing>> /\ streaming \in BOOLEAN
      BY <3>2 DEF SameCompaction, IInv, TypeOK
    <3>8. /\ queue' \in Seq(Item) /\ flush' \in Flush /\ rest' \in {"none", "replaced"}
          /\ Queueing' /\ Flushed'
          /\ \A i \in Item : InSeq(q, i) => InSeq(queue', i) \/ flush'.item = i
          /\ queue' # <<>> => \/ Flushing' \/ rest' # "none"
                              \/ IsCompacting /\ ~flush.retry
      BY <2>a, <3>2, <3>3, <3>6, <3>7, RoundKeeps DEF IInv
    <3>9. Origin' /\ CompactionIsShown'
      BY <3>2, SameCompactionKeeps DEF SameCompaction
    <3>10. TypeOK'
      BY <3>2, <3>4, <3>8, QueueTypes DEF IInv, TypeOK
    <3>11. QueueIsServed'
      BY <3>2, <3>8, <3>9 DEF QueueIsServed, IsCompacting, CompactionIsShown,
                              SameCompaction, ctl, TypeOK, IInv
    <3>12. OnceOrExplained'
      BY <3>2, <3>3, <3>4, <3>7, <3>8 DEF IInv, OnceOrExplained, InSeq,
          SameCompaction
    <3> QED  BY <3>8, <3>9, <3>10, <3>11, <3>12 DEF IInv
  <2>2. CASE NotQueued
    <3>1. /\ flush.at = "queueing" /\ flush' = NotFlushing /\ rest' = "error"
          /\ UNCHANGED <<queue, known, timers, from, sent, cleared, failed>>
          /\ SameCompaction
      BY <2>2 DEF NotQueued, SameCompaction
    <3>2. NotFlushing \in Flush /\ NotFlushing.at = "none" /\ NotFlushing.item = NoItem
      BY CompactionAssumption DEF CompactionAssumption, Flush, NotFlushing
    <3>3. TypeOK'
      BY <2>a, <3>1, <3>2, QueueTypes DEF IInv, TypeOK
    <3>4. Queueing' /\ Flushed' /\ QueueIsServed'
      BY <3>1, <3>2 DEF IInv, Queueing, Flushed, Flushing, QueueIsServed, SameCompaction
    <3>5. OnceOrExplained'
      BY <2>a, <3>1, <3>2 DEF IInv, Flushed, Flushing, OnceOrExplained, InSeq, SameCompaction
    <3> QED  BY <3>1, <3>3, <3>4, <3>5, SameCompactionKeeps DEF IInv, SameCompaction
  <2>3. CASE Prompted
    <3>1. /\ flush.at = "snapshot" /\ streaming' = TRUE /\ flush.item \in Item
          /\ flush' = [flush EXCEPT !.at = "prompt"]
          /\ sent' = [sent EXCEPT ![flush.item] = @ + 1]
          /\ UNCHANGED <<current, ctl, direct, ended, queue, known, timers, runs, autos, from,
                         cleared, failed, rest>>
      BY <2>3, <2>a DEF Prompted, Flushing
    <3>2. /\ flush' \in Flush /\ flush'.at = "prompt" /\ flush'.item = flush.item
          /\ flush'.current = flush.current
      BY <2>a, <3>1 DEF Flush
    <3>3. /\ sent' \in [Item -> Nat] /\ sent[flush.item] = 0
          /\ \A i \in Item : sent'[i] = IF i = flush.item THEN 1 ELSE sent[i]
      BY <3>1 DEF IInv, TypeOK, Flushed
    <3>4. TypeOK'
      BY <3>1, <3>2, <3>3 DEF IInv, TypeOK, Flush, ctl
    <3>5. Queueing' /\ Flushed'
      BY <2>a, <3>1, <3>2, <3>3 DEF IInv, Queueing, Flushed, Flushing, TypeOK
    <3>6. QueueIsServed' /\ OnceOrExplained'
      BY <2>a, <3>1, <3>2, <3>3 DEF IInv, QueueIsServed, Flushing, OnceOrExplained
    <3> QED  BY <3>1, <3>4, <3>5, <3>6, SameCompactionKeeps DEF IInv
  <2>4. CASE Refused
    <3>1. /\ flush.at = "snapshot" /\ flush.item \in Item
          /\ queue' = Restored(flush.item) /\ flush' = NotFlushing /\ rest' = "error"
          /\ failed' = IF flush.current = current /\ flush.end = ended THEN failed
                       ELSE failed \cup {flush.item}
          /\ UNCHANGED <<known, timers, from, sent, cleared>> /\ SameCompaction
      BY <2>4, <2>a DEF Refused, SameCompaction, Flushing
    <3>2. NotFlushing \in Flush /\ NotFlushing.at = "none" /\ NotFlushing.item = NoItem
      BY CompactionAssumption DEF CompactionAssumption, Flush, NotFlushing
    <3>3. /\ queue' \in Seq(Item) /\ Distinct(queue')
          /\ \A i \in Item : InSeq(queue', i) <=>
               \/ InSeq(queue, i)
               \/ flush.current = current /\ flush.end = ended /\ i = flush.item
      <4>1. ~InSeq(queue, flush.item)
        BY <3>1 DEF IInv, Flushed
      <4> QED  BY <2>a, <3>1, <4>1, Added DEF Restored
    <3>4. from[flush.item] = flush.current /\ sent[flush.item] = 0
      BY <2>a, <3>1 DEF IInv, Flushed
    <3>5. TypeOK'
      BY <3>1, <3>2, <3>3, QueueTypes DEF IInv, TypeOK
    <3>6. Queueing' /\ Flushed' /\ QueueIsServed'
      BY <3>1, <3>2, <3>3, <3>4 DEF IInv, Queueing, Flushed, Flushing, QueueIsServed,
                                  SameCompaction
    <3>7. OnceOrExplained'
      BY <3>1, <3>2, <3>3, <3>4 DEF IInv, OnceOrExplained, InSeq, SameCompaction
    <3> QED  BY <3>1, <3>5, <3>6, <3>7, SameCompactionKeeps DEF IInv, SameCompaction
  <2>5. CASE PromptSettles
    <3>1. /\ flush.at = "prompt" /\ flush.item \in Item
          /\ Round(queue, flush.current, flush.retry, IsCompacting, streaming)
          /\ UNCHANGED <<known, timers, from, sent, cleared, failed>> /\ SameCompaction
      BY <2>5, <2>a DEF PromptSettles, SameCompaction, Flushing
    <3>2. UNCHANGED <<current, from, known, handing>> /\ streaming \in BOOLEAN
      BY <3>1 DEF SameCompaction, IInv, TypeOK
    <3>3. \A i \in Item : /\ from[i] <= current
                          /\ i \in known <=> from[i] = current
                          /\ from[i] = 0 => sent'[i] = 0
                          /\ InSeq(queue, i) => from[i] = current /\ sent'[i] = 0
                          /\ handing[i] # "no" =>
                               from[i] # 0 /\ sent'[i] = 0 /\ ~InSeq(queue, i)
      BY <3>1 DEF IInv, Queueing
    <3>4. /\ queue' \in Seq(Item) /\ flush' \in Flush /\ rest' \in {"none", "replaced"}
          /\ Queueing' /\ Flushed'
          /\ \A i \in Item : InSeq(queue, i) => InSeq(queue', i) \/ flush'.item = i
          /\ queue' # <<>> => \/ Flushing' \/ rest' # "none"
                              \/ IsCompacting /\ ~flush.retry
      BY <2>a, <3>1, <3>2, <3>3, RoundKeeps DEF IInv
    <3>5. Origin' /\ CompactionIsShown'
      BY <3>1, SameCompactionKeeps DEF SameCompaction
    <3>6. TypeOK'
      BY <3>1, <3>4, QueueTypes DEF IInv, TypeOK
    <3>7. QueueIsServed'
      BY <3>1, <3>4, <3>5 DEF QueueIsServed, IsCompacting, CompactionIsShown,
                              SameCompaction, ctl, TypeOK, IInv
    <3>8. sent[flush.item] = 1
      BY <3>1 DEF IInv, Flushed
    <3>9. OnceOrExplained'
      BY <3>1, <3>2, <3>4, <3>8 DEF IInv, OnceOrExplained, InSeq,
          SameCompaction
    <3> QED  BY <3>4, <3>5, <3>6, <3>7, <3>9 DEF IInv
  <2>6. CASE PromptFails
    <3>1. /\ flush.at = "prompt" /\ flush' = NotFlushing /\ rest' = "error"
          /\ UNCHANGED <<queue, known, timers, from, sent, cleared, failed>>
          /\ SameCompaction
      BY <2>6 DEF PromptFails, SameCompaction
    <3>2. NotFlushing \in Flush /\ NotFlushing.at = "none" /\ NotFlushing.item = NoItem
      BY CompactionAssumption DEF CompactionAssumption, Flush, NotFlushing
    <3>3. TypeOK'
      BY <2>a, <3>1, <3>2, QueueTypes DEF IInv, TypeOK
    <3>4. Queueing' /\ Flushed' /\ QueueIsServed'
      BY <3>1, <3>2 DEF IInv, Queueing, Flushed, Flushing, QueueIsServed, SameCompaction
    <3>5. sent[flush.item] = 1
      BY <3>1 DEF IInv, Flushed
    <3>6. OnceOrExplained'
      BY <2>a, <3>1, <3>2, <3>5 DEF IInv, OnceOrExplained, SameCompaction
    <3> QED  BY <3>1, <3>3, <3>4, <3>6, SameCompactionKeeps DEF IInv, SameCompaction
  <2>7. CASE TimerFires
    <3>1. /\ timers > 0 /\ timers' = timers - 1
          /\ UNCHANGED <<known, from, sent, cleared, failed>> /\ SameCompaction
      BY <2>7 DEF TimerFires, SameCompaction
    <3>2. timers' \in 0..MaxTimers
      BY SMTT(30), <3>1, CompactionAssumption DEF IInv, TypeOK, CompactionAssumption
    <3>3. CASE Flushing \/ queue = <<>> \/ Running
      <4>1. UNCHANGED <<queue, flush, rest>>
        BY <2>7, <3>3 DEF TimerFires
      <4>2. TypeOK'
        BY <2>a, <3>1, <3>2, <4>1, QueueTypes DEF IInv, TypeOK
      <4>3. Queueing' /\ Flushed' /\ OnceOrExplained'
        BY <3>1, <4>1 DEF IInv, Queueing, Flushed, Flushing, OnceOrExplained, SameCompaction
      <4>4. QueueIsServed'
        BY <3>1, <3>3, <4>1 DEF QueueIsServed, Flushing, Running, SameCompaction, ctl
      <4> QED  BY <3>1, <4>2, <4>3, <4>4, SameCompactionKeeps DEF IInv, SameCompaction
    <3>4. CASE ~(Flushing \/ queue = <<>> \/ Running)
      <4>1. Round(queue, current, FALSE, FALSE, streaming)
        BY <2>7, <3>4 DEF TimerFires
      <4>2. UNCHANGED <<current, from, known, handing>> /\ streaming \in BOOLEAN
            /\ current \in 1..MaxInner
        BY <3>1 DEF SameCompaction, IInv, TypeOK
      <4>3. \A i \in Item : /\ from[i] <= current
                            /\ i \in known <=> from[i] = current
                            /\ from[i] = 0 => sent'[i] = 0
                            /\ InSeq(queue, i) => from[i] = current /\ sent'[i] = 0
                            /\ handing[i] # "no" =>
                                 from[i] # 0 /\ sent'[i] = 0 /\ ~InSeq(queue, i)
        BY <3>1 DEF IInv, Queueing
      <4>4. /\ queue' \in Seq(Item) /\ flush' \in Flush /\ rest' \in {"none", "replaced"}
            /\ Queueing' /\ Flushed'
            /\ \A i \in Item : InSeq(queue, i) => InSeq(queue', i) \/ flush'.item = i
            /\ queue' # <<>> => Flushing' \/ rest' # "none" \/ (FALSE /\ ~FALSE)
        BY <2>a, <4>1, <4>2, <4>3, RoundKeeps DEF IInv
      <4>5. TypeOK'
        BY <3>1, <3>2, <4>4, QueueTypes DEF IInv, TypeOK
      <4>6. QueueIsServed'
        BY <4>4 DEF QueueIsServed
      <4>7. flush.item \notin Item
        BY <2>a, <3>4
      <4>8. OnceOrExplained'
        BY <3>1, <4>2, <4>4, <4>7 DEF IInv, OnceOrExplained, InSeq,
          SameCompaction
      <4> QED  BY <3>1, <4>4, <4>5, <4>6, <4>8, SameCompactionKeeps DEF IInv, SameCompaction
    <3> QED  BY <3>3, <3>4
  <2>8. ASSUME NEW r \in Request, Start(r)  PROVE IInv'
    <3>1. /\ ~Running /\ comp' = [id |-> r, status |-> "running"]
          /\ requests' = requests \cup {r} /\ calls' = calls \cup {r}
          /\ UNCHANGED <<current, direct, compacting, streaming, ended, queue, known, flush, timers,
                         runs, autos, from, sent, cleared, failed, rest>>
      BY <2>8 DEF Start, items, history
    <3>2. Running' /\ compacting = "no"
      BY <3>1 DEF Running, IInv, CompactionIsShown, TypeOK
    <3>3. Queueing' /\ Flushed' /\ QueueIsServed' /\ OnceOrExplained'
      BY <3>1, <3>2, OthersKeep
    <3>4. Origin' /\ CompactionIsShown'
      BY <3>1, <3>2 DEF Origin, CompactionIsShown
    <3>5. TypeOK'
      BY <3>1 DEF IInv, TypeOK
    <3> QED  BY <3>3, <3>4, <3>5 DEF IInv
  <2>9. ASSUME NEW r \in Request, CallSettles(r)  PROVE IInv'
    <3>1. /\ r \in calls /\ calls' = calls \ {r}
          /\ (Running /\ comp.id = r) => compacting # "manual"
          /\ Finish(r, FALSE, IsCompacting)
          /\ UNCHANGED <<current, direct, requests, compacting, streaming, ended, known, runs, autos,
                         from, sent, cleared, failed>>
      BY <2>9 DEF CallSettles
    <3>2. /\ Queueing' /\ Flushed' /\ QueueIsServed' /\ OnceOrExplained'
          /\ queue' \in Seq(Item) /\ flush' \in Flush /\ timers' \in 0..MaxTimers
          /\ rest' \in {"none", "error", "replaced"}
          /\ IF comp.id # r \/ ~Running THEN comp' = comp
             ELSE comp' = [comp EXCEPT !.status = "ended"]
      BY <2>a, <3>1, FinishKeeps, CompactionAssumption
    <3>3. r # AutoId
      BY CompactionAssumption DEF CompactionAssumption
    <3>4. TypeOK'
      <4>1. comp' \in [id : Request \cup {AutoId}, status : {"none", "running", "ended"}]
        BY <3>2 DEF IInv, TypeOK
      <4>2. calls' \subseteq Request
        BY <3>1 DEF IInv, TypeOK
      <4> QED  BY <3>1, <3>2, <4>1, <4>2 DEF IInv, TypeOK, Flush
    <3>5. Origin' /\ CompactionIsShown'
      <4>1. comp \in [id : Request \cup {AutoId}, status : {"none", "running", "ended"}]
        BY DEF IInv, TypeOK
      <4>2. comp'.id = comp.id /\ (comp'.status = "running" <=> Running /\ comp.id # r)
        BY <3>2, <4>1 DEF Running
      <4> QED  BY <3>1, <3>3, <4>2 DEF IInv, Origin, CompactionIsShown, Running, TypeOK
    <3> QED  BY <3>2, <3>4, <3>5 DEF IInv
  <2>10. CASE ManualBegins
    <3>1. /\ Running /\ compacting = "no" /\ compacting' = "manual" /\ streaming' = FALSE
          /\ ended' = (IF streaming THEN ended + 1 ELSE ended)
          /\ UNCHANGED <<current, direct, comp, requests, calls, queue, known, flush, timers, runs,
                         autos, from, sent, cleared, failed, rest>>
      BY <2>10 DEF ManualBegins, items, history
    <3>2. Queueing' /\ Flushed' /\ QueueIsServed' /\ OnceOrExplained'
      BY <3>1, OthersKeep DEF Running
    <3>3. Origin' /\ CompactionIsShown'
      BY <3>1 DEF IInv, Origin, CompactionIsShown, Running
    <3>4. ended' \in Nat
      BY <3>1 DEF IInv, TypeOK
    <3>5. TypeOK'
      BY <3>1, <3>4 DEF IInv, TypeOK
    <3> QED  BY <3>2, <3>3, <3>5 DEF IInv
  <2>11. CASE AutoBegins
    <3>1. /\ compacting = "no" /\ compacting' = "auto"
          /\ autos < MaxAuto /\ autos' = autos + 1
          /\ \A r \in calls : ~(Running /\ comp.id = r)
          /\ comp' = IF Running THEN comp ELSE [id |-> AutoId, status |-> "running"]
          /\ UNCHANGED <<current, direct, requests, calls, streaming, ended, queue, known, flush,
                         timers, runs, from, sent, cleared, failed, rest>>
      BY <2>11 DEF AutoBegins, items, history
    <3>2. ~Running
      BY <3>1 DEF IInv, CompactionIsShown
    <3>3. Running'
      BY <3>1, <3>2 DEF Running
    <3>4. Queueing' /\ Flushed' /\ QueueIsServed' /\ OnceOrExplained'
      BY <3>1, <3>3, OthersKeep
    <3>5. autos' \in 0..MaxAuto
      BY <3>1, CompactionAssumption DEF IInv, TypeOK, CompactionAssumption
    <3>6. Origin' /\ CompactionIsShown' /\ TypeOK'
      BY <3>1, <3>2, <3>3, <3>5 DEF IInv, Origin, CompactionIsShown, TypeOK
    <3> QED  BY <3>4, <3>6 DEF IInv
  <2>12. ASSUME NEW retry \in BOOLEAN, EndReported(retry)  PROVE IInv'
    <3>1. /\ compacting \in {"manual", "auto"} /\ compacting' = "no"
          /\ Finish(comp.id, retry, TRUE)
          /\ UNCHANGED <<current, direct, requests, calls, streaming, ended, known, runs, autos,
                         from, sent, cleared, failed>>
      BY <2>12 DEF EndReported
    <3>2. /\ Queueing' /\ Flushed' /\ QueueIsServed' /\ OnceOrExplained'
          /\ queue' \in Seq(Item) /\ flush' \in Flush /\ timers' \in 0..MaxTimers
          /\ rest' \in {"none", "error", "replaced"}
          /\ IF comp.id # comp.id \/ ~Running THEN comp' = comp
             ELSE comp' = [comp EXCEPT !.status = "ended"]
      BY <3>1, FinishKeeps, CompactionAssumption
    <3>3. comp' = [comp EXCEPT !.status = "ended"]
      BY <3>1, <3>2 DEF IInv, CompactionIsShown
    <3>4. ~Running' /\ comp'.id = comp.id
          /\ comp' \in [id : Request \cup {AutoId}, status : {"none", "running", "ended"}]
      BY <3>3 DEF IInv, TypeOK, Running
    <3>5. Origin' /\ CompactionIsShown' /\ TypeOK'
      BY <3>1, <3>2, <3>4 DEF IInv, Origin, CompactionIsShown, TypeOK, Flush
    <3> QED  BY <3>2, <3>5 DEF IInv
  <2>13. ASSUME NEW i \in Item, Queue(i)  PROVE IInv'
    <3>1. /\ from[i] \in {0, current} /\ i \notin known
          /\ known' = known \cup {i} /\ from' = [from EXCEPT ![i] = current]
          /\ UNCHANGED <<current, ctl, streaming, ended, flush, timers, runs, autos, sent,
                         cleared, failed, refused, rest>>
      BY <2>13 DEF Queue, Repeated
    <3>2. /\ from[i] = 0 /\ sent[i] = 0 /\ ~InSeq(queue, i) /\ handing[i] = "no"
          /\ current # 0 /\ current \in 1..MaxInner
      BY <3>1, CompactionAssumption DEF IInv, Queueing, TypeOK, CompactionAssumption
    <3>3. /\ from' \in [Item -> 0..MaxInner] /\ known' \subseteq Item
          /\ \A j \in Item : from'[j] = IF j = i THEN current ELSE from[j]
      BY <3>1, <3>2 DEF IInv, TypeOK
    <3>4. flush.item # i
      BY <2>a, <3>2 DEF IInv, Flushed, TypeOK
    <3>5. CASE ~IsCompacting /\ ~Running /\ ~Flushing
      <4>1. /\ handing' = [handing EXCEPT ![i] = IF streaming THEN "queueing" ELSE "snapshot"]
            /\ queue' = queue
        BY <2>13, <3>5 DEF Queue
      <4>2. /\ handing' \in [Item -> {"no", "queueing", "snapshot"}] /\ handing'[i] # "no"
            /\ \A j \in Item : j # i => handing'[j] = handing[j]
        BY <4>1 DEF IInv, TypeOK
      <4>3. TypeOK'
        BY <3>1, <3>3, <4>1, <4>2 DEF IInv, TypeOK, ctl
      <4>4. Queueing'
        BY <3>1, <3>2, <3>3, <4>1, <4>2 DEF IInv, Queueing
      <4>5. Flushed'
        BY <2>a, <3>1, <3>2, <3>4, <3>5, <4>1 DEF IInv, Flushed, Flushing
      <4>6. QueueIsServed'
        BY <3>1, <4>1 DEF IInv, QueueIsServed, Flushing, Running, ctl
      <4>7. OnceOrExplained'
        BY <3>1, <3>2, <3>3, <4>1, <4>2 DEF IInv, OnceOrExplained
      <4> QED  BY <3>1, <4>3, <4>4, <4>5, <4>6, <4>7, SameCompactionKeeps DEF IInv
    <3>6. CASE IsCompacting \/ Running \/ Flushing
      <4>1. queue' = Append(queue, i) /\ handing' = handing
        BY <2>13, <3>6 DEF Queue
      <4>2. /\ queue' \in Seq(Item) /\ Distinct(queue')
            /\ \A j \in Item : InSeq(queue', j) <=> InSeq(queue, j) \/ j = i
        BY <2>a, <3>2, <4>1, Added
      <4>3. TypeOK'
        BY <3>1, <3>3, <4>1, <4>2 DEF IInv, TypeOK, ctl
      <4>4. Queueing'
        BY <3>1, <3>2, <3>3, <4>1, <4>2 DEF IInv, Queueing
      <4>5. Flushed'
        <5>1. flush.item \in Item => /\ from'[flush.item] = from[flush.item]
                                     /\ InSeq(queue', flush.item) <=> InSeq(queue, flush.item)
          BY <3>3, <3>4, <4>2
        <5>2. CASE Flushing
          BY <2>a, <3>1, <3>2, <4>1, <5>1, <5>2 DEF IInv, Flushed, Flushing
        <5>3. CASE ~Flushing
          BY <2>a, <3>1, <5>3 DEF IInv, Flushed, Flushing
        <5> QED  BY <5>2, <5>3
      <4>6. QueueIsServed'
        <5>1. Running \/ Flushing
          BY <3>6 DEF IInv, CompactionIsShown, IsCompacting, TypeOK
        <5> QED  BY <3>1, <5>1 DEF QueueIsServed, Flushing, Running, ctl
      <4>7. OnceOrExplained'
        BY <3>1, <3>2, <3>3, <4>1, <4>2 DEF IInv, OnceOrExplained, InSeq
      <4> QED  BY <3>1, <4>3, <4>4, <4>5, <4>6, <4>7, SameCompactionKeeps DEF IInv
    <3> QED  BY <3>5, <3>6
  <2>14. CASE Retry
    <3>1. /\ FlushCalled(FALSE, comp.status, IsCompacting)
          /\ UNCHANGED <<current, from, known, sent, cleared, failed>> /\ SameCompaction
      BY <2>14 DEF Retry, SameCompaction
    <3>2. /\ queue' \in Seq(Item) /\ flush' \in Flush /\ timers' \in 0..MaxTimers
          /\ rest' \in {"none", "error", "replaced"}
          /\ Queueing' /\ Flushed'
          /\ \A i \in Item : InSeq(queue, i) \/ flush.item = i =>
                              InSeq(queue', i) \/ flush'.item = i
          /\ queue' # <<>> => \/ Flushing' \/ timers' > 0 \/ rest' # "none"
                              \/ comp.status = "running"
      BY <2>a, <3>1, FlushCalledKeeps, CompactionAssumption DEF SameCompaction
    <3>3. TypeOK'
      BY <3>1, <3>2, QueueTypes DEF IInv, TypeOK
    <3>4. QueueIsServed'
      BY <3>1, <3>2 DEF QueueIsServed, Running, SameCompaction, ctl
    <3>5. OnceOrExplained'
      BY <3>1, <3>2 DEF IInv, OnceOrExplained, InSeq,
          SameCompaction
    <3> QED  BY <3>1, <3>2, <3>3, <3>4, <3>5, SameCompactionKeeps DEF IInv, SameCompaction
  <2>15. CASE ClearQueue
    <3>1. /\ queue' = <<>> /\ cleared' = cleared \cup {queue[n] : n \in 1..Len(queue)}
          /\ UNCHANGED <<known, flush, timers, from, sent, failed, rest>> /\ SameCompaction
      BY <2>15 DEF ClearQueue, SameCompaction
    <3>2. /\ queue' \in Seq(Item) /\ Distinct(queue') /\ \A i \in Item : ~InSeq(queue', i)
          /\ cleared' \subseteq Item /\ cleared \subseteq cleared'
          /\ \A i \in Item : InSeq(queue, i) => i \in cleared'
      BY SMTT(30), <2>a, <3>1 DEF InSeq, Distinct, IInv, TypeOK
    <3>3. TypeOK'
      BY <2>a, <3>1, <3>2, QueueTypes DEF IInv, TypeOK
    <3>4. Queueing' /\ QueueIsServed'
      BY <3>1, <3>2 DEF IInv, Queueing, QueueIsServed, SameCompaction
    <3>5. Flushed'
      BY <2>a, <3>1, <3>2 DEF IInv, Flushed, Flushing, SameCompaction
    <3>6. OnceOrExplained'
      BY <3>1, <3>2 DEF IInv, OnceOrExplained, InSeq, SameCompaction
    <3> QED  BY <3>1, <3>3, <3>4, <3>5, <3>6, SameCompactionKeeps DEF IInv, SameCompaction
  <2>16. CASE RunStarts
    <3>1. /\ runs < MaxRuns /\ runs' = runs + 1 /\ streaming' = TRUE
          /\ UNCHANGED <<current, direct, comp, requests, calls, compacting, ended, queue, known,
                         flush, timers, autos, from, sent, cleared, failed, rest>>
      BY <2>16 DEF RunStarts, items, history, ctl
    <3>2. Queueing' /\ Flushed' /\ QueueIsServed' /\ OnceOrExplained'
      BY <3>1, OthersKeep DEF Running
    <3>3. runs' \in 0..MaxRuns
      BY <3>1, CompactionAssumption DEF IInv, TypeOK, CompactionAssumption
    <3>4. Origin' /\ CompactionIsShown' /\ TypeOK'
      BY <3>1, <3>3 DEF IInv, Origin, CompactionIsShown, Running, TypeOK
    <3> QED  BY <3>2, <3>4 DEF IInv
  <2>17. CASE RunEnds
    <3>1. /\ streaming' = FALSE /\ ended' = ended + 1
          /\ UNCHANGED <<current, direct, comp, requests, calls, compacting, runs, queue, known,
                         flush, timers, autos, from, sent, cleared, failed, rest>>
      BY <2>17 DEF RunEnds, items, history, ctl
    <3>2. Queueing' /\ Flushed' /\ QueueIsServed' /\ OnceOrExplained'
      BY <3>1, OthersKeep DEF Running
    <3>3. Origin' /\ CompactionIsShown'
      BY <3>1 DEF IInv, Origin, CompactionIsShown, Running
    <3>4. ended' \in Nat
      BY <3>1 DEF IInv, TypeOK
    <3>5. TypeOK'
      BY ZenonT(60), <3>1, <3>4 DEF IInv, TypeOK
    <3> QED  BY <3>2, <3>3, <3>5 DEF IInv
  <2>18. CASE Replaced
    <3>1. /\ current < MaxInner /\ current' = current + 1
          /\ queue' = <<>> /\ known' = {} /\ timers' = 0
          /\ comp' = [id |-> AutoId, status |-> "none"] /\ requests' = {} /\ calls' = {}
          /\ compacting' = "no" /\ streaming' = FALSE
          /\ cleared' = {} /\ failed' = {} /\ refused' = {}
          /\ UNCHANGED <<handing, ended, flush, runs, autos, from, sent, rest>>
      BY <2>18 DEF Replaced, history
    <3>a. /\ MaxInner \in Nat /\ MaxTimers \in Nat /\ current \in 1..MaxInner
          /\ flush.current \in 1..MaxInner /\ 0 \in 0..MaxTimers
      BY <2>a, CompactionAssumption DEF CompactionAssumption, IInv, TypeOK
    <3>b. current' \in 1..MaxInner
      BY <3>1, <3>a
    <3>c. \A i \in Item : from[i] \in 0..MaxInner /\ from[i] <= current
      BY DEF IInv, TypeOK, Queueing
    <3>d. \A i \in Item : from[i] <= current' /\ from[i] # current'
      BY <3>1, <3>a, <3>c
    <3>e. Flushing => flush.current # current'
      BY <2>a, <3>d DEF IInv, Flushed
    <3>2. /\ current' \in 1..MaxInner /\ 0 \in 0..MaxTimers
          /\ Flushing => flush.current # current'
          /\ \A i \in Item : from[i] <= current' /\ from[i] # current'
      BY <3>a, <3>b, <3>d, <3>e
    <3>3. \A i : ~InSeq(queue', i)
      BY <3>1 DEF InSeq
    <3>f. queue' \in Seq(Item)
      BY <3>1
    <3>g. comp' \in [id : Request \cup {AutoId}, status : {"none", "running", "ended"}]
      BY <3>1
    <3>4. TypeOK'
      BY <3>1, <3>2, <3>f, <3>g DEF IInv, TypeOK
    <3>5. Queueing' /\ QueueIsServed' /\ OnceOrExplained'
      BY <3>1, <3>2, <3>3 DEF IInv, Queueing, Distinct, QueueIsServed, OnceOrExplained
    <3>6. Flushed'
      BY <2>a, <3>1, <3>2, <3>3 DEF IInv, Flushed, Flushing
    <3>7. Origin' /\ CompactionIsShown'
      BY <3>1 DEF Origin, CompactionIsShown, Running
    <3> QED  BY <3>4, <3>5, <3>6, <3>7 DEF IInv
  <2>20. ASSUME NEW i \in Item, HandedOver(i)  PROVE IInv'
    <3>1. /\ handing[i] # "no" /\ handing' = [handing EXCEPT ![i] = "no"]
          /\ streaming' = (streaming \/ handing[i] = "snapshot")
          /\ sent' = [sent EXCEPT ![i] = @ + 1]
          /\ UNCHANGED <<current, ctl, ended, queue, known, flush, timers, runs, autos, from,
                         cleared, failed, refused, rest>>
      BY <2>20 DEF HandedOver, items
    <3>2. /\ from[i] # 0 /\ sent[i] = 0 /\ ~InSeq(queue, i) /\ flush.item # i
      BY <2>a, <3>1 DEF IInv, Queueing, Flushed
    <3>3. /\ handing' \in [Item -> {"no", "queueing", "snapshot"}] /\ handing'[i] = "no"
          /\ \A j \in Item : j # i => handing'[j] = handing[j]
          /\ sent' \in [Item -> Nat]
          /\ \A j \in Item : sent'[j] = IF j = i THEN 1 ELSE sent[j]
      BY <3>1, <3>2 DEF IInv, TypeOK
    <3>4. streaming' \in BOOLEAN
      BY <3>1 DEF IInv, TypeOK
    <3>5. TypeOK'
      BY <3>1, <3>3, <3>4 DEF IInv, TypeOK, ctl
    <3>6. Queueing'
      BY <3>1, <3>2, <3>3 DEF IInv, Queueing
    <3>7. Flushed'
      BY <2>a, <3>1, <3>2, <3>3 DEF IInv, Flushed, Flushing
    <3>8. QueueIsServed' /\ OnceOrExplained'
      BY <3>1, <3>2, <3>3 DEF IInv, QueueIsServed, Flushing, Running, ctl, OnceOrExplained
    <3> QED  BY <3>1, <3>5, <3>6, <3>7, <3>8, SameCompactionKeeps DEF IInv
  <2>21. ASSUME NEW i \in Item, HandOverFails(i)  PROVE IInv'
    <3>1. /\ handing[i] # "no" /\ handing' = [handing EXCEPT ![i] = "no"]
          /\ refused' = IF from[i] = current THEN refused \cup {i} ELSE refused
          /\ UNCHANGED <<current, ctl, streaming, ended, queue, known, flush, timers, runs,
                         autos, from, sent, cleared, failed, rest>>
      BY <2>21 DEF HandOverFails, items, history
    <3>2. /\ handing' \in [Item -> {"no", "queueing", "snapshot"}] /\ handing'[i] = "no"
          /\ \A j \in Item : j # i => handing'[j] = handing[j]
          /\ refused' \subseteq Item
      BY <3>1 DEF IInv, TypeOK
    <3>3. TypeOK'
      BY <3>1, <3>2 DEF IInv, TypeOK, ctl
    <3>4. Queueing'
      BY <3>1, <3>2 DEF IInv, Queueing
    <3>5. Flushed'
      BY <2>a, <3>1, <3>2 DEF IInv, Flushed, Flushing
    <3>6. QueueIsServed' /\ OnceOrExplained'
      BY <3>1, <3>2 DEF IInv, QueueIsServed, Flushing, Running, ctl, OnceOrExplained
    <3> QED  BY <3>1, <3>3, <3>4, <3>5, <3>6, SameCompactionKeeps DEF IInv
  <2>19. CASE UNCHANGED vars
    <3>1. UNCHANGED <<current, ctl, direct, streaming, ended, queue, known, flush, timers, runs,
                      autos, from, sent, cleared, failed, rest>>
      BY <2>19 DEF vars, items, history
    <3>2. Queueing' /\ Flushed' /\ QueueIsServed' /\ OnceOrExplained'
      BY <3>1, OthersKeep DEF Running, ctl
    <3>3. TypeOK'
      BY <3>1 DEF IInv, TypeOK, ctl
    <3> QED  BY <3>1, <3>2, <3>3, SameCompactionKeeps DEF IInv
  <2> QED  BY <2>1, <2>2, <2>3, <2>4, <2>5, <2>6, <2>7, <2>8, <2>9, <2>10, <2>11, <2>12, <2>13, <2>14, <2>15, <2>16, <2>17, <2>18,
           <2>19, <2>20, <2>21 DEF Next
<1> QED  BY <1>1, <1>2, PTL DEF Spec

\* Every variable keeps its type.
THEOREM TypesHold == ASSUME CompactionAssumption PROVE Spec => []TypeOK
<1>1. IInv => TypeOK
  BY DEF IInv
<1> QED  BY <1>1, IInvHolds, PTL

\* What is shown as running is what the SDK is at: the end of a compaction is never
\* taken for that of another.
THEOREM ShownCompactionIsRunning ==
  ASSUME CompactionAssumption PROVE Spec => []CompactionIsShown
<1>1. IInv => CompactionIsShown
  BY DEF IInv
<1> QED  BY <1>1, IInvHolds, PTL

\* The queue never rests without a flush, a timer, a compaction or an explanation.
THEOREM QueueIsAlwaysServed == ASSUME CompactionAssumption PROVE Spec => []QueueIsServed
<1>1. IInv => QueueIsServed
  BY DEF IInv
<1> QED  BY <1>1, IInvHolds, PTL

\* No message of a queue is sent twice or lost without an explanation.
THEOREM MessagesAreSentOnce == ASSUME CompactionAssumption PROVE Spec => []OnceOrExplained
<1>1. IInv => OnceOrExplained
  BY DEF IInv
<1> QED  BY <1>1, IInvHolds, PTL
==============================================================================
