---------------------- MODULE AgentRunSupervisorProofs ----------------------
(***************************************************************************)
(* Proofs about the background-run supervisor, for any number of runs, any  *)
(* limit, any store size and any set of dialogs, groups and costs.          *)
(***************************************************************************)
EXTENDS AgentRunSupervisor, FiniteSetTheorems, WellFoundedInduction, TLAPS

-----------------------------------------------------------------------------
\* Sets of runs

\* A set of runs is finite, and so has a natural number of members.
LEMMA RunsAreFinite ==
  ASSUME NEW S \in SUBSET RunId
  PROVE  IsFiniteSet(S) /\ Cardinality(S) \in Nat
<1>1. MaxCreated \in Int /\ 1 \in Int
  BY BoundsAssumption
<1>2. IsFiniteSet(RunId)
  BY <1>1, FS_Interval DEF RunId
<1>3. IsFiniteSet(S)
  BY <1>2, FS_Subset
<1> QED  BY <1>3, FS_CardinalityType

\* The proper-subset order on sets of runs is well founded.
LEMMA SmallestExists ==
  ASSUME NEW T \in SUBSET (SUBSET RunId), T # {}
  PROVE  \E x \in T : \A y \in T : ~(y \subseteq x /\ y # x)
<1> DEFINE R == StrictSubsetOrdering(RunId)
<1>1. IsWellFoundedOn(R, FiniteSubsetsOf(RunId))
  BY FS_StrictSubsetOrderingWellFounded
<1>2. T \subseteq FiniteSubsetsOf(RunId)
  BY RunsAreFinite DEF FiniteSubsetsOf
<1>3. \E x \in T : \A y \in T : ~(<<y, x>> \in R)
  <2> HIDE DEF R
  <2> QED  BY <1>1, <1>2, WFMin
<1> QED  BY <1>3 DEF StrictSubsetOrdering

\* A non-empty set of runs has an oldest member.
LEMMA OldestExists ==
  ASSUME NEW S \in SUBSET RunId, S # {}
  PROVE  \E m \in S : \A x \in S : m <= x
<1> DEFINE upTo(m) == {x \in RunId : x <= m}
           T == {upTo(m) : m \in S}
<1>1. T \in SUBSET (SUBSET RunId) /\ T # {}
  OBVIOUS
<1>2. PICK t \in T : \A y \in T : ~(y \subseteq t /\ y # t)
  <2> HIDE DEF T
  <2> QED  BY <1>1, SmallestExists
<1>3. PICK m \in S : t = upTo(m)
  OBVIOUS
<1>4. ASSUME NEW x \in S, x < m  PROVE FALSE
  <2>1. upTo(x) \in T
    OBVIOUS
  <2>2. x \in Nat /\ m \in Nat
    BY BoundsAssumption DEF RunId
  <2>3. upTo(x) \subseteq upTo(m)
    BY <1>4, <2>2, BoundsAssumption DEF RunId
  <2>4. m \in upTo(m) /\ m \notin upTo(x)
    BY <1>4, <2>2, BoundsAssumption DEF RunId
  <2> QED  BY <1>2, <1>3, <2>1, <2>3, <2>4
<1> QED  BY <1>4, BoundsAssumption DEF RunId

\* A non-empty set of runs has a newest member, which is its Max.
LEMMA NewestExists ==
  ASSUME NEW S \in SUBSET RunId, S # {}
  PROVE  Max(S) \in S /\ \A x \in S : x <= Max(S)
<1> DEFINE from(m) == {x \in RunId : x >= m}
           T == {from(m) : m \in S}
<1>1. T \in SUBSET (SUBSET RunId) /\ T # {}
  OBVIOUS
<1>2. PICK t \in T : \A y \in T : ~(y \subseteq t /\ y # t)
  <2> HIDE DEF T
  <2> QED  BY <1>1, SmallestExists
<1>3. PICK m \in S : t = from(m)
  OBVIOUS
<1>4. ASSUME NEW x \in S, x > m  PROVE FALSE
  <2>1. from(x) \in T
    OBVIOUS
  <2>2. x \in Nat /\ m \in Nat
    BY BoundsAssumption DEF RunId
  <2>3. from(x) \subseteq from(m)
    BY <1>4, <2>2, BoundsAssumption DEF RunId
  <2>4. m \in from(m) /\ m \notin from(x)
    BY <1>4, <2>2, BoundsAssumption DEF RunId
  <2> QED  BY <1>2, <1>3, <2>1, <2>3, <2>4
<1>5. \A x \in S : m >= x
  BY <1>4, BoundsAssumption DEF RunId
<1> QED  BY <1>5, BoundsAssumption DEF Max, RunId

-----------------------------------------------------------------------------
\* Totals of the costs of runs

\* The partial sums of any amounts exist.
LEMMA SumsExist ==
  ASSUME NEW w \in [RunId -> Nat]
  PROVE  \E f \in [0..MaxCreated -> Nat] :
           f[0] = 0 /\ \A n \in RunId : f[n] = f[n - 1] + w[n]
<1> DEFINE upTo(f, m) == f[0] = 0 /\ \A n \in 1..m : f[n] = f[n - 1] + w[n]
           short == {m \in RunId : \A f \in [0..MaxCreated -> Nat] : ~upTo(f, m)}
<1>1. MaxCreated \in RunId /\ RunId = 1..MaxCreated
  BY BoundsAssumption DEF RunId
<1>2. short = {}
  <2> SUFFICES ASSUME short # {}  PROVE FALSE
    OBVIOUS
  <2>1. PICK m \in short : \A x \in short : m <= x
    <3>1. short \in SUBSET RunId
      OBVIOUS
    <3> HIDE DEF short
    <3> QED  BY <3>1, OldestExists
  <2>2. m \in 1..MaxCreated /\ MaxCreated \in Nat
    BY <1>1, BoundsAssumption
  <2>3. PICK f \in [0..MaxCreated -> Nat] : upTo(f, m - 1)
    <3>1. CASE m = 1
      <4>1. [n \in 0..MaxCreated |-> 0] \in [0..MaxCreated -> Nat]
        OBVIOUS
      <4>2. upTo([n \in 0..MaxCreated |-> 0], m - 1)
        BY <2>2, <3>1
      <4> QED  BY <4>1, <4>2
    <3>2. CASE m # 1
      <4>1. m - 1 \in RunId
        BY <1>1, <2>2, <3>2
      <4>2. m - 1 \notin short
        <5> HIDE DEF short
        <5> QED  BY <2>1, <2>2
      <4> QED  BY <4>1, <4>2
    <3> QED  BY <3>1, <3>2
  <2> DEFINE longer == [f EXCEPT ![m] = f[m - 1] + w[m]]
  <2>4. longer \in [0..MaxCreated -> Nat]
    BY <1>1, <2>2
  <2>5. upTo(longer, m)
    <3>1. \A i \in 0..MaxCreated : longer[i] = IF i = m THEN f[m - 1] + w[m] ELSE f[i]
      OBVIOUS
    <3>2. f[0] = 0 /\ \A n \in 1..(m - 1) : f[n] = f[n - 1] + w[n]
      BY <2>3
    <3> HIDE DEF longer
    <3>3. longer[0] = 0
      BY <2>2, <3>1, <3>2
    <3>4. ASSUME NEW n \in 1..m  PROVE longer[n] = longer[n - 1] + w[n]
      <4>1. longer[n - 1] = f[n - 1]
        BY <2>2, <3>1
      <4>2. longer[n] = f[n - 1] + w[n]
        <5>1. CASE n = m
          BY <2>2, <3>1, <5>1
        <5>2. CASE n # m
          BY <2>2, <3>1, <3>2, <5>2
        <5> QED  BY <5>1, <5>2
      <4> QED  BY <4>1, <4>2
    <3> QED  BY <3>3, <3>4
  <2> HIDE DEF longer
  <2>6. ~upTo(longer, m)
    BY <2>1, <2>4
  <2> HIDE DEF upTo
  <2> QED  BY <2>5, <2>6
<1>3. PICK f \in [0..MaxCreated -> Nat] : upTo(f, MaxCreated)
  BY <1>1, <1>2
<1> QED  BY <1>1, <1>3

\* Total adds the amounts up.
LEMMA TotalAdds ==
  ASSUME NEW w \in [RunId -> Nat]
  PROVE  \E f \in [0..MaxCreated -> Nat] :
           /\ f[0] = 0 /\ \A n \in RunId : f[n] = f[n - 1] + w[n]
           /\ Total(w) = f[MaxCreated]
<1> DEFINE body(f) == [n \in 0..MaxCreated |-> IF n = 0 THEN 0 ELSE f[n - 1] + w[n]]
           sum == CHOOSE f : f = body(f)
<1>1. MaxCreated \in RunId /\ RunId = 1..MaxCreated
  BY BoundsAssumption DEF RunId
<1>2. PICK f \in [0..MaxCreated -> Nat] :
        f[0] = 0 /\ \A n \in RunId : f[n] = f[n - 1] + w[n]
  BY SumsExist
<1>3. f = body(f)
  <2>1. \A n \in 0..MaxCreated : f[n] = body(f)[n]
    BY <1>1, <1>2
  <2> QED  BY <2>1
<1>4. sum = body(sum)
  <2> HIDE DEF body
  <2> QED  BY <1>3
<1>5. Total(w) = sum[MaxCreated]
  BY DEF Total
<1> HIDE DEF sum
<1>6. sum[0] = 0 /\ \A n \in RunId : sum[n] = sum[n - 1] + w[n]
  BY <1>1, <1>4
<1>7. {n \in RunId : sum[n] # f[n]} = {}
  <2> DEFINE odd == {n \in RunId : sum[n] # f[n]}
  <2> SUFFICES ASSUME odd # {}  PROVE FALSE
    OBVIOUS
  <2>1. PICK m \in odd : \A x \in odd : m <= x
    <3>1. odd \in SUBSET RunId
      OBVIOUS
    <3> HIDE DEF odd
    <3> QED  BY <3>1, OldestExists
  <2>2. m \in 1..MaxCreated /\ MaxCreated \in Nat
    BY <1>1, BoundsAssumption
  <2>3. sum[m - 1] = f[m - 1]
    <3>1. CASE m = 1
      BY <1>2, <1>6, <3>1
    <3>2. CASE m # 1
      BY <1>1, <2>1, <2>2, <3>2
    <3> QED  BY <3>1, <3>2
  <2> QED  BY <1>1, <1>2, <1>6, <2>1, <2>2, <2>3
<1> QED  BY <1>1, <1>2, <1>5, <1>7

\* Larger amounts have no smaller total.
LEMMA TotalGrows ==
  ASSUME NEW w \in [RunId -> Nat], NEW v \in [RunId -> Nat],
         \A n \in RunId : w[n] <= v[n]
  PROVE  Total(w) \in Nat /\ Total(v) \in Nat /\ Total(w) <= Total(v)
<1>1. MaxCreated \in RunId /\ RunId = 1..MaxCreated
  BY BoundsAssumption DEF RunId
<1>2. PICK f \in [0..MaxCreated -> Nat] :
        /\ f[0] = 0 /\ \A n \in RunId : f[n] = f[n - 1] + w[n]
        /\ Total(w) = f[MaxCreated]
  BY TotalAdds
<1>3. PICK g \in [0..MaxCreated -> Nat] :
        /\ g[0] = 0 /\ \A n \in RunId : g[n] = g[n - 1] + v[n]
        /\ Total(v) = g[MaxCreated]
  BY TotalAdds
<1> DEFINE odd == {n \in RunId : ~(f[n] <= g[n])}
<1>4. odd = {}
  <2> SUFFICES ASSUME odd # {}  PROVE FALSE
    OBVIOUS
  <2>1. PICK m \in odd : \A x \in odd : m <= x
    <3>1. odd \in SUBSET RunId
      OBVIOUS
    <3> HIDE DEF odd
    <3> QED  BY <3>1, OldestExists
  <2>2. m \in 1..MaxCreated /\ MaxCreated \in Nat
    BY <1>1, BoundsAssumption
  <2>3. f[m - 1] <= g[m - 1]
    <3>1. CASE m = 1
      BY <1>2, <1>3, <3>1
    <3>2. CASE m # 1
      BY <1>1, <2>1, <2>2, <3>2
    <3> QED  BY <3>1, <3>2
  <2>4. /\ f[m] = f[m - 1] + w[m] /\ g[m] = g[m - 1] + v[m] /\ w[m] <= v[m]
        /\ f[m - 1] \in Nat /\ g[m - 1] \in Nat /\ w[m] \in Nat /\ v[m] \in Nat
    BY <1>1, <1>2, <1>3, <2>2
  <2> QED  BY <2>1, <2>3, <2>4
<1>5. f[MaxCreated] <= g[MaxCreated]
  BY <1>1, <1>4
<1>6. f[MaxCreated] \in Nat /\ g[MaxCreated] \in Nat
  BY <1>1
<1> HIDE DEF odd
<1> QED  BY <1>2, <1>3, <1>5, <1>6

-----------------------------------------------------------------------------
\* drain()

\* What drain() picks: starts are queued, stops are not finished.
LEMMA DrainPicks ==
  ASSUME NEW st, NEW gr, NEW co, NEW ca, NEW ac, NEW lim
  PROVE  /\ DrainStarts(st, gr, co, ca, ac, lim) \subseteq Queued(st)
         /\ DrainStops(st, gr, co, ca, ac, lim)
              \subseteq {r \in RunId : Updatable(st, r)}
BY DEF DrainStarts, DrainStops, Startable

\* What drain() may do to a record: leave it, start a queued run, fail a run
\* that has not finished.  Only a started run enters the active map.
LEMMA DrainEffect ==
  ASSUME NEW st \in [RunId -> Status], NEW ac \in SUBSET RunId,
         NEW p \in [RunId -> Place], NEW w \in SUBSET RunId,
         Drain(st, ac, p, w)
  PROVE  /\ status' \in [RunId -> Status]
         /\ active' \in SUBSET RunId
         /\ pc' \in [RunId -> Place]
         /\ waiting' \in SUBSET RunId
         /\ ac \subseteq active'
         /\ \A r \in RunId :
              \/ status'[r] = st[r] /\ (r \in active' => r \in ac)
              \/ st[r] = "queued" /\ status'[r] = "running" /\ r \in active'
              \/ /\ Updatable(st, r) /\ status'[r] = "failed"
                 /\ r \in active' => r \in ac
<1> DEFINE starts == DrainStarts(st, group', cost', cap', ac, limit')
           stops  == DrainStops(st, group', cost', cap', ac, limit')
<1>1. /\ starts \subseteq Queued(st)
      /\ stops \subseteq {r \in RunId : Updatable(st, r)}
  BY DrainPicks
<1>2. /\ status' = [r \in RunId |-> IF r \in starts THEN "running"
                                    ELSE IF r \in stops THEN "failed"
                                    ELSE st[r]]
      /\ active' = ac \cup starts
      /\ pc' = [r \in RunId |-> IF r \in starts THEN "trust" ELSE p[r]]
      /\ waiting' = w \ stops
  BY DEF Drain
<1> HIDE DEF starts, stops
<1> QED  BY <1>1, <1>2 DEF Queued, Status, Active, Terminal, Place

\* The runs drain() takes, in terms of the startable runs older than each: the
\* started ones come before those left queued, they fit under the limit, and
\* nothing is left queued while a slot is free.
LEMMA DrainFills ==
  ASSUME NEW st \in [RunId -> Status], NEW ac \in SUBSET RunId, NEW p, NEW w,
         \A r \in ac : st[r] # "queued",
         limit' \in Nat,
         Drain(st, ac, p, w)
  PROVE  /\ Queued(status') # {} => Cardinality(active') >= limit'
         /\ active' # ac => Cardinality(active') <= limit'
         /\ \A s \in active' \ ac, q \in Queued(status') : s < q
<1> DEFINE S        == Startable(st, group', cost', cap')
           older(r) == {x \in S : x < r}
           full(r)  == ~(Cardinality(ac) + Cardinality(older(r)) < limit')
           taken    == Taken(st, group', cost', cap', ac, limit')
           starts   == DrainStarts(st, group', cost', cap', ac, limit')
           stops    == DrainStops(st, group', cost', cap', ac, limit')
<1>1. S \subseteq Queued(st) /\ Queued(st) \subseteq RunId
  BY DEF Startable, Queued
<1>2. taken = {r \in Queued(st) : ~full(r)}
  BY DEF Taken
<1>3. starts = {r \in S : ~full(r)}
  BY <1>1, <1>2 DEF DrainStarts
<1>4. /\ active' = ac \cup starts
      /\ status' = [r \in RunId |-> IF r \in starts THEN "running"
                                    ELSE IF r \in stops THEN "failed"
                                    ELSE st[r]]
  BY DEF Drain
<1>5. \A q \in Queued(status') : q \in Queued(st) /\ full(q)
  <2> SUFFICES ASSUME NEW q \in Queued(status')
               PROVE  q \in Queued(st) /\ full(q)
    OBVIOUS
  <2>1. q \in RunId /\ q \notin starts /\ q \notin stops /\ st[q] = "queued"
    <3> HIDE DEF starts, stops
    <3> QED  BY <1>4 DEF Queued
  <2>2. q \in Queued(st)
    BY <2>1 DEF Queued
  <2>3. q \notin taken \ S
    BY <2>1 DEF DrainStops, Updatable
  <2>4. q \notin taken
    BY <2>1, <2>3 DEF DrainStarts
  <2> QED  BY <1>2, <2>2, <2>4
<1> HIDE DEF S, taken, starts, stops
<1>6. /\ IsFiniteSet(ac) /\ IsFiniteSet(starts)
      /\ Cardinality(ac) \in Nat /\ Cardinality(starts) \in Nat
      /\ \A r \in RunId : /\ IsFiniteSet(older(r))
                          /\ Cardinality(older(r)) \in Nat
  BY <1>1, <1>3, RunsAreFinite
<1>7. Cardinality(active') = Cardinality(ac) + Cardinality(starts)
  <2>1. ac \cap starts = {}
    BY <1>1, <1>3 DEF Queued
  <2>2. Cardinality({}) = 0
    BY FS_EmptySet
  <2> QED  BY SMTT(30), <1>4, <1>6, <2>1, <2>2, FS_Union
<1>8. ASSUME NEW q \in Queued(status')
      PROVE  Cardinality(active') >= limit'
  <2> DEFINE left == (S \ starts) \cup {q}
  <2>1. left \in SUBSET RunId /\ left # {}
    BY <1>1, <1>5
  <2>2. PICK m \in left : \A x \in left : m <= x
    <3> HIDE DEF left
    <3> QED  BY <2>1, OldestExists
  <2>3. m \in RunId /\ full(m)
    BY <1>1, <1>3, <1>5
  <2>4. older(m) \subseteq starts
    <3> SUFFICES ASSUME NEW x \in S, x < m, x \notin starts  PROVE FALSE
      OBVIOUS
    <3>1. m <= x
      BY <2>2
    <3>2. m \in Nat /\ x \in Nat
      BY <1>1, <2>3, BoundsAssumption DEF RunId
    <3> QED  BY <3>1, <3>2
  <2>5. Cardinality(older(m)) <= Cardinality(starts)
    BY <1>6, <2>4, FS_Subset
  <2> HIDE DEF older, left
  <2> QED  BY <1>6, <1>7, <2>3, <2>5
<1>9. ASSUME active' # ac
      PROVE  Cardinality(active') <= limit'
  <2>1. starts \in SUBSET RunId /\ starts # {}
    BY <1>1, <1>3, <1>4, <1>9
  <2>2. PICK m \in starts : \A x \in starts : x <= m
    BY <2>1, NewestExists
  <2>3. m \in RunId /\ ~full(m)
    BY <1>3, <2>1
  <2>4. starts \subseteq older(m) \cup {m}
    <3>1. \A x \in starts : x \in S /\ x \in Nat /\ m \in Nat
      BY <1>3, <2>1, BoundsAssumption DEF RunId
    <3> QED  BY <2>2, <3>1
  <2>5. /\ IsFiniteSet(older(m) \cup {m})
        /\ Cardinality(older(m) \cup {m}) <= Cardinality(older(m)) + 1
    <3>1. IsFiniteSet(older(m)) /\ Cardinality(older(m)) \in Nat
      BY <1>6, <2>3
    <3> HIDE DEF older
    <3> QED  BY <3>1, FS_AddElement
  <2>6. Cardinality(starts) <= Cardinality(older(m) \cup {m})
    BY <2>4, <2>5, FS_Subset
  <2>7. Cardinality(older(m) \cup {m}) \in Nat
    BY <2>5, FS_CardinalityType
  <2> QED  BY <1>6, <1>7, <2>3, <2>5, <2>6, <2>7
<1>10. ASSUME NEW s \in active' \ ac, NEW q \in Queued(status')
       PROVE  s < q
  <2>1. s \in RunId /\ ~full(s) /\ q \in RunId /\ full(q)
    BY <1>1, <1>3, <1>4, <1>5
  <2>2. s \in Nat /\ q \in Nat
    BY <2>1, BoundsAssumption DEF RunId
  <2>3. ASSUME q <= s  PROVE FALSE
    <3>1. \A x \in S : x \in Nat
      BY <1>1, BoundsAssumption DEF RunId
    <3>2. older(q) \subseteq older(s)
      BY <2>2, <2>3, <3>1
    <3>3. Cardinality(older(q)) <= Cardinality(older(s))
      BY <1>6, <2>1, <3>2, FS_Subset
    <3> QED  BY <1>6, <2>1, <3>3
  <2> QED  BY <2>2, <2>3
<1> QED  BY <1>8, <1>9, <1>10

-----------------------------------------------------------------------------
(***************************************************************************)
(* The inductive invariant.  ActiveStatusTracked, WorkConserving and        *)
(* TimersTracked need three facts nobody asks of the system: run numbers    *)
(* are used in order, a run in the active map has left the queue, and a     *)
(* process that died left nothing that could still act.                     *)
(***************************************************************************)

Ended == Terminal \cup {"evicted"}

Numbered == \A r \in RunId : r > created => status[r] = "none"

ActiveStarted == \A r \in active : status[r] \notin {"none", "queued"}

DownIsEmpty ==
  ~up => /\ active = {} /\ cancelling = {} /\ deadline = {}
         /\ \A r \in RunId : pc[r] = "idle"

\* cancel() finishes the record before it awaits the abort.
CancellingEnded == \A r \in cancelling : status[r] \in Ended

IInv == /\ TypeOK
        /\ Numbered /\ ActiveStarted /\ DownIsEmpty /\ CancellingEnded
        /\ ActiveStatusTracked /\ WorkConserving /\ TimersTracked

\* What a step does to finished records.
EndedKept ==
  \A r \in RunId : status[r] \in Ended => status'[r] \in {status[r], "evicted"}

\* A step that ends in drain().
Filled ==
  /\ up' = TRUE
  /\ Queued(status') \cap active = {}
  /\ Queued(status') # {} => Cardinality(active') >= limit'
  /\ active' \ active # {} => Cardinality(active') <= limit'
  /\ \A s \in active' \ active, q \in Queued(status') : s < q

\* A step that starts no run and leaves the slots and the queue as they are, but
\* for queued runs that end.
Kept ==
  /\ up' = up /\ active' = active /\ limit' = limit
  /\ Queued(status') \subseteq Queued(status)

\* The process dies with its active map and leaves the records.
Died == up' = FALSE /\ active' = {} /\ status' = status

\* What every step of the supervisor does.
Steps ==
  /\ TypeOK'
  /\ Numbered' /\ ActiveStarted' /\ DownIsEmpty' /\ CancellingEnded'
  /\ ActiveStatusTracked' /\ TimersTracked'
  /\ EndedKept
  /\ Filled \/ Kept \/ Died

\* A handler that ends in drain(): conditions on the records st and the active
\* map ac it hands over.
LEMMA DrainStep ==
  ASSUME IInv,
         NEW st \in [RunId -> Status], NEW ac \in SUBSET active,
         NEW p \in [RunId -> Place], NEW w \in SUBSET RunId,
         \A r \in RunId : r > created' => st[r] = "none",
         \A r \in active : st[r] \notin {"none", "queued"},
         \A r \in RunId : st[r] \in Active => r \in ac,
         \A r \in RunId : status[r] \in Ended =>
                            st[r] \in {status[r], "evicted"},
         limit' \in 1..MaxLimit,
         up' = TRUE,
         Drain(st, ac, p, w)
  PROVE  /\ status' \in [RunId -> Status] /\ active' \in SUBSET RunId
         /\ pc' \in [RunId -> Place] /\ waiting' \in SUBSET RunId
         /\ ac \subseteq active'
         /\ Numbered' /\ ActiveStarted' /\ ActiveStatusTracked'
         /\ EndedKept /\ Filled
<1>1. ac \in SUBSET RunId /\ limit' \in Nat
  BY BoundsAssumption DEF IInv, TypeOK
<1>2. /\ status' \in [RunId -> Status]
      /\ active' \in SUBSET RunId
      /\ pc' \in [RunId -> Place]
      /\ waiting' \in SUBSET RunId
      /\ ac \subseteq active'
      /\ \A r \in RunId :
           \/ status'[r] = st[r] /\ (r \in active' => r \in ac)
           \/ st[r] = "queued" /\ status'[r] = "running" /\ r \in active'
           \/ /\ Updatable(st, r) /\ status'[r] = "failed"
              /\ r \in active' => r \in ac
  BY <1>1, DrainEffect
<1>3. /\ Queued(status') # {} => Cardinality(active') >= limit'
      /\ active' # ac => Cardinality(active') <= limit'
      /\ \A s \in active' \ ac, q \in Queued(status') : s < q
  BY <1>1, DrainFills
<1>4. Numbered'
  BY <1>2 DEF Numbered, Updatable, Active
<1>5. ActiveStarted'
  BY <1>2 DEF ActiveStarted
<1>6. ActiveStatusTracked'
  BY <1>2 DEF ActiveStatusTracked, Active
<1>7. EndedKept
  BY <1>2 DEF EndedKept, Ended, Updatable, Active, Terminal
<1>8. Filled
  <2>1. Queued(status') \cap active = {}
    BY <1>2 DEF Queued
  <2> QED  BY <1>2, <1>3, <2>1 DEF Filled
<1> QED  BY <1>2, <1>4, <1>5, <1>6, <1>7, <1>8

\* finish(): a run that holds a slot gives it back, another one is left alone.
LEMMA FinishStep ==
  ASSUME IInv, up = TRUE,
         NEW r \in RunId, NEW s \in Terminal, NEW p \in [RunId -> Place],
         UNCHANGED <<created, limit, up, overtaken>>,
         Finish(r, s, p)
  PROVE  /\ status' \in [RunId -> Status] /\ active' \in SUBSET RunId
         /\ pc' \in [RunId -> Place] /\ waiting' \in SUBSET RunId
         /\ dialogs' \in [RunId -> SUBSET Dialogs]
         /\ keepAlive' \in SUBSET RunId /\ deadline' \in SUBSET RunId
         /\ Numbered' /\ ActiveStarted' /\ ActiveStatusTracked'
         /\ TimersTracked' /\ EndedKept
         /\ Filled \/ Kept
<1>1. CASE r \in active
  <2> DEFINE st == Updated(status, r, s)
             ac == active \ {r}
             w  == IF Updatable(status, r) THEN waiting \ {r} ELSE waiting
  <2>1. Drain(st, ac, p, w) /\ Cleanup({r})
    BY <1>1 DEF Finish
  <2>2. /\ st \in [RunId -> Status] /\ ac \in SUBSET active
        /\ w \in SUBSET RunId
    BY DEF IInv, TypeOK, Updated, Status, Terminal
  <2>3. \A q \in RunId : q > created' => st[q] = "none"
    BY DEF IInv, TypeOK, Numbered, Updated, Updatable, Active
  <2>4. \A q \in active : st[q] \notin {"none", "queued"}
    BY DEF IInv, TypeOK, ActiveStarted, Updated, Terminal
  <2>5. \A q \in RunId : st[q] \in Active => q \in ac
    BY DEF IInv, TypeOK, ActiveStatusTracked, Updated, Updatable, Active,
           Terminal
  <2>6. \A q \in RunId : status[q] \in Ended =>
                           st[q] \in {status[q], "evicted"}
    BY DEF IInv, TypeOK, Updated, Updatable, Ended, Active, Terminal
  <2>7. limit' \in 1..MaxLimit /\ up' = TRUE
    BY DEF IInv, TypeOK
  <2> HIDE DEF st, ac, w
  <2>8. /\ status' \in [RunId -> Status] /\ active' \in SUBSET RunId
        /\ pc' \in [RunId -> Place] /\ waiting' \in SUBSET RunId
        /\ ac \subseteq active'
        /\ Numbered' /\ ActiveStarted' /\ ActiveStatusTracked'
        /\ EndedKept /\ Filled
    BY <2>1, <2>2, <2>3, <2>4, <2>5, <2>6, <2>7, DrainStep
  <2>9. /\ dialogs' \in [RunId -> SUBSET Dialogs]
        /\ keepAlive' \in SUBSET RunId /\ deadline' \in SUBSET RunId
    BY <2>1 DEF Cleanup, IInv, TypeOK
  <2>10. TimersTracked'
    BY <1>1, <2>1, <2>8 DEF TimersTracked, IInv, Cleanup, ac
  <2> QED  BY <2>8, <2>9, <2>10
<1>2. CASE r \notin active
  BY <1>2 DEF Finish, timers, IInv, TypeOK, Numbered, ActiveStarted,
              ActiveStatusTracked, TimersTracked, EndedKept, Kept
<1> QED  BY <1>1, <1>2

-----------------------------------------------------------------------------
\* One step for each action

\* A live coroutine, a slot, an abort in flight or a deadline needs a process.
LEMMA UpWhenBusy ==
  ASSUME IInv, NEW r \in RunId,
         \/ r \in active \cup cancelling \cup deadline
         \/ pc[r] # "idle"
  PROVE  up = TRUE
BY DEF IInv, TypeOK, DownIsEmpty

\* A record that has ended stays so, and with it what is said of cancellations.
LEMMA CancellingStays ==
  ASSUME IInv, EndedKept, cancelling' \subseteq cancelling
  PROVE  CancellingEnded'
BY DEF IInv, TypeOK, CancellingEnded, EndedKept, Ended

\* A step that touches neither slots nor limit, and rewrites records of runs in
\* the active map only.
LEMMA QuietStep ==
  ASSUME IInv, up = TRUE,
         UNCHANGED <<created, limit, up, active>>,
         TypeOK',
         \A r \in RunId :
           \/ status'[r] = status[r]
           \/ /\ r \in active /\ Updatable(status, r)
              /\ status'[r] \in Active \cup Terminal,
         TimersTracked',
         \A r \in cancelling' \ cancelling : status'[r] \in Ended
  PROVE  Steps
<1>1. Numbered' /\ ActiveStarted' /\ ActiveStatusTracked'
  BY DEF IInv, TypeOK, Numbered, ActiveStarted, ActiveStatusTracked, Active,
         Terminal
<1>2. DownIsEmpty' /\ EndedKept
  BY DEF DownIsEmpty, EndedKept, Ended, Updatable, Active, Terminal
<1>3. CancellingEnded'
  BY <1>2 DEF CancellingEnded, IInv, TypeOK, EndedKept, Ended
<1>4. Kept
  BY DEF Kept, Queued, Active, Terminal
<1> QED  BY <1>1, <1>2, <1>3, <1>4 DEF Steps

\* cancel() up to its await, or left by a rejected abort
LEMMA CancelWaits ==
  ASSUME IInv, NEW r \in RunId, CancelBegins(r) \/ CancelRejected(r)
  PROVE  Steps
<1>1. up = TRUE
  BY UpWhenBusy DEF CancelBegins, CancelRejected, Listening
<1>2. CASE CancelBegins(r)
  <2>1. /\ TypeOK' /\ TimersTracked' /\ UNCHANGED <<created, limit, up, active>>
    BY <1>2 DEF CancelBegins, IInv, TypeOK, TimersTracked, submitted, budget,
                timers, session, history, Updated, Status, Terminal
  <2>2. \A q \in RunId :
          \/ status'[q] = status[q]
          \/ /\ q \in active /\ Updatable(status, q)
             /\ status'[q] \in Active \cup Terminal
    BY <1>2 DEF CancelBegins, Listening, Updated, IInv, TypeOK, Terminal
  <2>3. cancelling' = cancelling \cup {r} /\ status'[r] \in Ended
    <3>1. status[r] \in Status \ {"none"}
      BY <1>2 DEF CancelBegins, Stored, IInv, TypeOK
    <3>2. status' = Updated(status, r, "cancelled")
      BY <1>2 DEF CancelBegins
    <3>3. cancelling' = cancelling \cup {r}
      BY <1>2 DEF CancelBegins
    <3> QED  BY <3>1, <3>2, <3>3 DEF Updated, Updatable, IInv, TypeOK, Status,
                                     Ended, Active, Terminal
  <2> QED  BY <1>1, <2>1, <2>2, <2>3, QuietStep
<1>3. CASE CancelRejected(r)
  <2>1. /\ TypeOK' /\ TimersTracked' /\ cancelling' \subseteq cancelling
        /\ UNCHANGED <<created, limit, up, active, status>>
    BY <1>3 DEF CancelRejected, IInv, TypeOK, TimersTracked, store, timers,
                session
  <2> QED  BY <1>1, <2>1, QuietStep
<1> QED  BY <1>2, <1>3

\* extend()
LEMMA ExtendStep ==
  ASSUME IInv, NEW r \in RunId, Extend(r)
  PROVE  Steps
<1>1. up = TRUE
  BY DEF Extend, IInv, TypeOK
<1>2. /\ UNCHANGED <<created, group, unlimited, limit, cost, up, active,
                     dialogs, waiting, keepAlive, cancelling, pc, turn, closed,
                     abortFailed, overtaken, restarts>>
      /\ deadline' \in SUBSET RunId
  BY DEF Extend, submitted, session, history, IInv, TypeOK
<1>3. cap' \in [RunId -> Nat]
  BY DEF Extend, IInv, TypeOK
<1>4. status' \in [RunId -> Status]
  BY DEF Extend, IInv, TypeOK, Status, Active
<1>5. TypeOK'
  BY <1>2, <1>3, <1>4 DEF IInv, TypeOK
<1>6. TimersTracked'
  BY <1>2 DEF Extend, IInv, TimersTracked
<1>7. \A q \in RunId :
        \/ status'[q] = status[q]
        \/ /\ q \in active /\ Updatable(status, q)
           /\ status'[q] \in Active \cup Terminal
  BY DEF Extend, IInv, TypeOK, Active
<1> QED  BY <1>1, <1>2, <1>5, <1>6, <1>7, QuietStep

\* The coroutine up to its prompt
LEMMA CoroutineStep ==
  ASSUME IInv, NEW r \in RunId,
         Trusted(r) \/ SessionStarted(r) \/ SettingsApplied(r) \/ PromptBegins(r)
  PROVE  Steps
<1>1. up = TRUE
  BY UpWhenBusy DEF Trusted, SessionStarted, SettingsApplied, PromptBegins
<1>2. UNCHANGED <<created, limit, up, active, cancelling>>
  BY DEF Trusted, SessionStarted, SettingsApplied, PromptBegins, store,
         submitted
<1>3. TimersTracked'
  BY DEF Trusted, SessionStarted, SettingsApplied, PromptBegins, IInv,
         TimersTracked, timers, history
<1>4. \A q \in RunId :
        \/ status'[q] = status[q]
        \/ /\ q \in active /\ Updatable(status, q)
           /\ status'[q] \in Active \cup Terminal
  BY DEF Trusted, SessionStarted, SettingsApplied, PromptBegins, IInv, TypeOK,
         store, Updated, Active
<1>5. CASE Trusted(r)
  BY <1>1, <1>2, <1>3, <1>4, <1>5, QuietStep
     DEF Trusted, IInv, TypeOK, store, timers, session, history, Place
<1>6. CASE SessionStarted(r)
  BY <1>1, <1>2, <1>3, <1>4, <1>6, QuietStep
     DEF SessionStarted, IInv, TypeOK, submitted, budget, timers, session,
         history, Place, Updated, Status, Active
<1>7. CASE SettingsApplied(r)
  BY <1>1, <1>2, <1>3, <1>4, <1>7, QuietStep
     DEF SettingsApplied, IInv, TypeOK, store, Place
<1>8. CASE PromptBegins(r)
  BY <1>1, <1>2, <1>3, <1>4, <1>8, QuietStep
     DEF PromptBegins, IInv, TypeOK, store, timers, history
<1> QED  BY <1>5, <1>6, <1>7, <1>8

\* Dialogs, and a session closed from outside
LEMMA DialogStep ==
  ASSUME IInv, NEW r \in RunId,
         \/ \E d \in Dialogs : DialogOpened(r, d) \/ DialogClosed(r, d)
         \/ SessionCloses(r)
  PROVE  Steps
<1>1. up = TRUE
  BY UpWhenBusy DEF DialogOpened, DialogClosed, SessionCloses, Listening
<1>2. /\ UNCHANGED <<created, group, unlimited, limit, cost, cap, up, active,
                     waiting, keepAlive, deadline, cancelling, pc, turn,
                     abortFailed, overtaken, restarts>>
      /\ closed' \in SUBSET RunId
  BY DEF DialogOpened, DialogClosed, SessionCloses, submitted, budget, timers,
         session, history, IInv, TypeOK
<1>3. dialogs' \in [RunId -> SUBSET Dialogs]
  BY DEF DialogOpened, DialogClosed, SessionCloses, IInv, TypeOK
<1>4. \A q \in RunId :
        \/ status'[q] = status[q]
        \/ /\ q \in active /\ Updatable(status, q)
           /\ status'[q] \in Active \cup Terminal
  BY DEF DialogOpened, DialogClosed, SessionCloses, Listening, Updated, IInv,
         TypeOK, Active
<1>5. status' \in [RunId -> Status]
  BY DEF DialogOpened, DialogClosed, SessionCloses, Updated, IInv, TypeOK,
         Status, Active
<1>6. TypeOK' /\ TimersTracked'
  BY <1>2, <1>3, <1>5 DEF IInv, TypeOK, TimersTracked
<1> QED  BY <1>1, <1>2, <1>4, <1>6, QuietStep

\* Whatever ends in finish()
LEMMA FinishTypes ==
  ASSUME IInv, up = TRUE,
         NEW r \in RunId, NEW s \in Terminal, NEW p \in [RunId -> Place],
         Finish(r, s, p),
         UNCHANGED <<submitted, cap, up, cancelling, history>>,
         cost' \in [RunId -> Nat],
         turn' \in [RunId -> {"none", "snapshot", "working"}],
         closed' \in SUBSET RunId
  PROVE  Steps
<1>1. UNCHANGED <<created, limit, up, overtaken>>
  BY DEF submitted, history
<1>2. /\ status' \in [RunId -> Status] /\ active' \in SUBSET RunId
      /\ pc' \in [RunId -> Place] /\ waiting' \in SUBSET RunId
      /\ dialogs' \in [RunId -> SUBSET Dialogs]
      /\ keepAlive' \in SUBSET RunId /\ deadline' \in SUBSET RunId
      /\ Numbered' /\ ActiveStarted' /\ ActiveStatusTracked'
      /\ TimersTracked' /\ EndedKept
      /\ Filled \/ Kept
  BY <1>1, FinishStep
<1>3. TypeOK'
  BY <1>2 DEF TypeOK, IInv, submitted, history
<1>4. DownIsEmpty' /\ CancellingEnded'
  BY <1>1, <1>2, CancellingStays DEF DownIsEmpty
<1> QED  BY <1>2, <1>3, <1>4 DEF Steps

\* The catch block of execute()
LEMMA FailsStep ==
  ASSUME IInv, NEW r \in RunId, pc[r] # "idle", Fails(r)
  PROVE  Steps
<1>1. up = TRUE
  BY UpWhenBusy
<1>2. [pc EXCEPT ![r] = "done"] \in [RunId -> Place] /\ "failed" \in Terminal
  BY DEF IInv, TypeOK, Place, Terminal
<1>3. Finish(r, "failed", [pc EXCEPT ![r] = "done"])
  BY DEF Fails
<1>4. /\ UNCHANGED <<submitted, cap, up, cancelling, history>>
      /\ cost' \in [RunId -> Nat]
      /\ turn' \in [RunId -> {"none", "snapshot", "working"}]
      /\ closed' \in SUBSET RunId
  BY DEF Fails, Returns, budget, IInv, TypeOK
<1> QED  BY <1>1, <1>2, <1>3, <1>4, FinishTypes

LEMMA PromptResolvedStep ==
  ASSUME IInv, NEW r \in RunId, PromptResolved(r)
  PROVE  Steps
<1>1. up = TRUE
  BY UpWhenBusy DEF PromptResolved
<1>2. [pc EXCEPT ![r] = "done"] \in [RunId -> Place] /\ "completed" \in Terminal
  BY DEF IInv, TypeOK, Place, Terminal
<1>3. Finish(r, "completed", [pc EXCEPT ![r] = "done"])
  BY DEF PromptResolved
<1>4. /\ UNCHANGED <<submitted, cap, up, cancelling, history>>
      /\ cost' \in [RunId -> Nat]
      /\ turn' \in [RunId -> {"none", "snapshot", "working"}]
      /\ closed' \in SUBSET RunId
  BY DEF PromptResolved, Returns, budget, IInv, TypeOK
<1> QED  BY <1>1, <1>2, <1>3, <1>4, FinishTypes

\* agent_end, the deadline and the keep-alive of a run
LEMMA EndsStep ==
  ASSUME IInv, NEW r \in RunId,
         \/ \E s \in {"completed", "failed"} : AgentEnd(r, s)
         \/ Deadline(r) \/ KeepAliveFails(r)
  PROVE  Steps
<1>1. up = TRUE
  BY UpWhenBusy DEF AgentEnd, Deadline, KeepAliveFails, Listening
<1>2. /\ UNCHANGED <<submitted, cap, up, cancelling, history>>
      /\ cost' \in [RunId -> Nat]
      /\ turn' \in [RunId -> {"none", "snapshot", "working"}]
      /\ closed' \in SUBSET RunId
  BY DEF AgentEnd, Deadline, KeepAliveFails, budget, session, IInv, TypeOK
<1>3. pc \in [RunId -> Place]
  BY DEF IInv, TypeOK
<1>4. CASE \E s \in Terminal : Finish(r, s, pc)
  BY <1>1, <1>2, <1>3, <1>4, FinishTypes
<1>5. CASE Deadline(r) /\ r \notin active
  <2>1. /\ UNCHANGED <<created, group, unlimited, limit, cost, cap, up,
                       cancelling, turn, closed, abortFailed, overtaken,
                       restarts, status, active, dialogs, waiting, keepAlive,
                       pc>>
        /\ deadline' = deadline \ {r}
    BY <1>5 DEF Deadline, submitted, budget, session, history
  <2>2. TypeOK' /\ TimersTracked'
    BY <2>1 DEF IInv, TypeOK, TimersTracked
  <2> QED  BY <1>1, <2>1, <2>2, QuietStep
<1> QED  BY <1>4, <1>5 DEF AgentEnd, Deadline, KeepAliveFails, Terminal

\* message_end: the group is stopped, the run is stopped, or the cost recorded
LEMMA MessageEndStep ==
  ASSUME IInv, NEW r \in RunId, NEW c \in TurnCosts, NEW b \in BOOLEAN,
         MessageEnd(r, c, b)
  PROVE  Steps
<1> DEFINE hit == {q \in RunId : Updatable(status, q) /\ group[q] = group[r]}
           st  == [q \in RunId |-> IF q \in hit THEN "failed" ELSE status[q]]
<1>1. up = TRUE
  BY UpWhenBusy DEF MessageEnd, Listening
<1>2. cost' \in [RunId -> Nat]
  BY BudgetAssumption DEF MessageEnd, IInv, TypeOK
<1>3. UNCHANGED <<submitted, cap, up, cancelling, session, history>>
  BY DEF MessageEnd
<1>4. UNCHANGED <<created, group, unlimited, limit, cap, up, cancelling, turn,
                  closed, abortFailed, overtaken, restarts>>
  BY <1>3 DEF submitted, session, history
<1>5. \/ Cleanup(hit) /\ Drain(st, active \ hit, pc, waiting \ hit)
      \/ Finish(r, "failed", pc)
      \/ UNCHANGED <<status, active, dialogs, waiting, timers, pc>>
  BY DEF MessageEnd
<1>6. CASE Cleanup(hit) /\ Drain(st, active \ hit, pc, waiting \ hit)
  <2>1. /\ st \in [RunId -> Status] /\ active \ hit \in SUBSET active
        /\ pc \in [RunId -> Place] /\ waiting \ hit \in SUBSET RunId
    BY DEF IInv, TypeOK, Status, Terminal
  <2>2. \A q \in RunId : q > created' => st[q] = "none"
    BY <1>4 DEF IInv, TypeOK, Numbered, Updatable, Active
  <2>3. \A q \in active : st[q] \notin {"none", "queued"}
    BY DEF IInv, TypeOK, ActiveStarted
  <2>4. \A q \in RunId : st[q] \in Active => q \in active \ hit
    BY <1>1 DEF IInv, TypeOK, ActiveStatusTracked, Active
  <2>5. \A q \in RunId : status[q] \in Ended =>
                           st[q] \in {status[q], "evicted"}
    BY DEF IInv, TypeOK, Updatable, Ended, Active, Terminal
  <2>6. limit' \in 1..MaxLimit /\ up' = TRUE
    BY <1>1, <1>4 DEF IInv, TypeOK
  <2>7. \A q \in hit : q \in RunId
    OBVIOUS
  <2> HIDE DEF st, hit
  <2>8. /\ status' \in [RunId -> Status] /\ active' \in SUBSET RunId
        /\ pc' \in [RunId -> Place] /\ waiting' \in SUBSET RunId
        /\ active \ hit \subseteq active'
        /\ Numbered' /\ ActiveStarted' /\ ActiveStatusTracked'
        /\ EndedKept /\ Filled
    BY <1>6, <2>1, <2>2, <2>3, <2>4, <2>5, <2>6, DrainStep
  <2>9. /\ dialogs' \in [RunId -> SUBSET Dialogs]
        /\ keepAlive' \in SUBSET RunId /\ deadline' \in SUBSET RunId
        /\ TimersTracked'
    BY <1>4, <1>6, <2>8 DEF Cleanup, IInv, TypeOK, TimersTracked
  <2>10. TypeOK'
    BY <1>2, <1>4, <2>8, <2>9 DEF IInv, TypeOK
  <2>11. CancellingEnded'
    BY <1>4, <2>8, CancellingStays
  <2> QED  BY <2>6, <2>8, <2>9, <2>10, <2>11 DEF Steps, DownIsEmpty
<1>7. CASE Finish(r, "failed", pc)
  <2>1. /\ "failed" \in Terminal /\ pc \in [RunId -> Place]
        /\ turn' \in [RunId -> {"none", "snapshot", "working"}]
        /\ closed' \in SUBSET RunId
    BY <1>4 DEF Terminal, IInv, TypeOK
  <2> QED  BY <1>1, <1>2, <1>3, <1>7, <2>1, FinishTypes
<1>8. CASE UNCHANGED <<status, active, dialogs, waiting, timers, pc>>
  <2>1. TypeOK' /\ TimersTracked'
    BY <1>2, <1>4, <1>8 DEF IInv, TypeOK, TimersTracked, timers
  <2> QED  BY <1>1, <1>4, <1>8, <2>1, QuietStep
<1> QED  BY <1>5, <1>6, <1>7, <1>8

\* createQueuedRun and the drain() after it
LEMMA CreateStep ==
  ASSUME IInv, NEW g \in Groups \cup {NoGroup}, NEW noDeadline \in BOOLEAN,
         NEW wait \in BOOLEAN, Create(g, noDeadline, wait)
  PROVE  Steps
<1> DEFINE n   == created + 1
           kin == {q \in Stored(status) : g # NoGroup /\ group[q] = g}
           old == Min(Stored(status))
           overflow == Cardinality(Stored(status)) >= MaxRuns
           st  == [r \in RunId |->
                     IF r = n THEN "queued"
                     ELSE IF overflow /\ r = old THEN "evicted"
                     ELSE status[r]]
           w   == IF wait THEN waiting \cup {n} ELSE waiting
<1>1. /\ up = TRUE /\ up' = TRUE /\ n \in RunId /\ created' = n
      /\ UNCHANGED <<cost, limit, dialogs, keepAlive, deadline, cancelling,
                     turn, closed, abortFailed, overtaken, restarts>>
      /\ Drain(st, active, pc, w)
  BY DEF Create, timers, session, history, IInv, TypeOK
<1>2. /\ created \in Nat /\ created' \in 0..MaxCreated
      /\ status[n] = "none" /\ \A r \in RunId : r > created' => r > created
  BY <1>1, BoundsAssumption DEF IInv, TypeOK, Numbered, RunId
<1>3. /\ group' \in [RunId -> Groups \cup {NoGroup}]
      /\ unlimited' \in SUBSET RunId
  BY <1>1 DEF Create, IInv, TypeOK
<1>4. cap' \in [RunId -> Nat]
  <2>1. kin \in SUBSET RunId
    BY DEF Stored
  <2>2. cap' = [cap EXCEPT ![n] = IF g = NoGroup THEN 0
                                  ELSE IF kin = {} THEN InitialCap
                                  ELSE cap[Max(kin)]]
    BY DEF Create
  <2>3. kin # {} => Max(kin) \in RunId
    BY <2>1, NewestExists
  <2> HIDE DEF kin, n
  <2> QED  BY <2>2, <2>3, BudgetAssumption DEF IInv, TypeOK
<1>5. /\ st \in [RunId -> Status] /\ active \in SUBSET active
      /\ pc \in [RunId -> Place] /\ w \in SUBSET RunId
  BY <1>1 DEF IInv, TypeOK, Status
<1>6. \A r \in RunId : r > created' => st[r] = "none"
  <2>1. \A r \in RunId : r > created' => r # n /\ status[r] = "none"
    BY <1>1, <1>2 DEF IInv, Numbered, RunId
  <2>2. overflow => old \in Stored(status)
    <3>1. CASE Stored(status) = {}
      <4>1. Cardinality(Stored(status)) = 0
        BY <3>1, FS_EmptySet
      <4> QED  BY <4>1, BoundsAssumption
    <3>2. CASE Stored(status) # {}
      <4>1. \E m \in Stored(status) : \A x \in Stored(status) : m <= x
        BY <3>2, OldestExists DEF Stored
      <4> QED  BY <4>1 DEF Min
    <3> QED  BY <3>1, <3>2
  <2> QED  BY <2>1, <2>2 DEF Stored
<1>7. \A r \in active : st[r] \notin {"none", "queued"}
  BY <1>2 DEF IInv, TypeOK, ActiveStarted
<1>8. \A r \in RunId : st[r] \in Active => r \in active
  BY <1>1 DEF IInv, ActiveStatusTracked, Active
<1>9. \A r \in RunId : status[r] \in Ended => st[r] \in {status[r], "evicted"}
  BY <1>2 DEF Ended, Terminal
<1>10. limit' \in 1..MaxLimit
  BY <1>1 DEF IInv, TypeOK
<1> HIDE DEF st, w, n
<1>11. /\ status' \in [RunId -> Status] /\ active' \in SUBSET RunId
       /\ pc' \in [RunId -> Place] /\ waiting' \in SUBSET RunId
       /\ active \subseteq active'
       /\ Numbered' /\ ActiveStarted' /\ ActiveStatusTracked'
       /\ EndedKept /\ Filled
  BY <1>1, <1>5, <1>6, <1>7, <1>8, <1>9, <1>10, DrainStep
<1>12. TypeOK'
  BY <1>1, <1>2, <1>3, <1>4, <1>10, <1>11 DEF IInv, TypeOK
<1>13. TimersTracked'
  BY <1>1, <1>11 DEF IInv, TimersTracked
<1>14. CancellingEnded'
  BY <1>1, <1>11, CancellingStays
<1> QED  BY <1>1, <1>11, <1>12, <1>13, <1>14 DEF Steps, DownIsEmpty

\* cancel() once there is no abort to wait for
LEMMA CancelStep ==
  ASSUME IInv, NEW r \in RunId, CancelAtOnce(r) \/ CancelResumes(r)
  PROVE  Steps
<1> DEFINE ac == active \ {r}
           w  == waiting \ {r}
<1>1. /\ up = TRUE /\ up' = TRUE
      /\ UNCHANGED <<created, group, unlimited, limit, cost, cap, turn, closed,
                     abortFailed, overtaken, restarts>>
      /\ cancelling' \in SUBSET RunId /\ cancelling' \subseteq cancelling
      /\ Cleanup({r})
  BY UpWhenBusy DEF CancelAtOnce, CancelResumes, submitted, budget, session,
                    history, IInv, TypeOK
<1>2. PICK st \in {status, Updated(status, r, "cancelled")} :
        /\ Drain(st, ac, pc, w)
        /\ \/ st = Updated(status, r, "cancelled")
           \/ st = status /\ CancelResumes(r)
  BY DEF CancelAtOnce, CancelResumes
<1>3. /\ st \in [RunId -> Status] /\ ac \in SUBSET active
      /\ pc \in [RunId -> Place] /\ w \in SUBSET RunId
  BY DEF IInv, TypeOK, Updated, Status, Terminal
<1>4. \A q \in RunId : q > created' => st[q] = "none"
  BY <1>1 DEF IInv, TypeOK, Numbered, Updated, Updatable, Active
<1>5. \A q \in active : st[q] \notin {"none", "queued"}
  BY DEF IInv, TypeOK, ActiveStarted, Updated
<1>6. \A q \in RunId : st[q] \in Active => q \in ac
  <2>1. CASE st = Updated(status, r, "cancelled")
    BY <1>1, <2>1 DEF IInv, TypeOK, ActiveStatusTracked, Updated, Updatable,
                      Active
  <2>2. CASE st = status /\ CancelResumes(r)
    BY <1>1, <2>2 DEF IInv, TypeOK, ActiveStatusTracked,
                CancelResumes, CancellingEnded, Ended, Active, Terminal
  <2> QED  BY <1>2, <2>1, <2>2
<1>7. \A q \in RunId : status[q] \in Ended => st[q] \in {status[q], "evicted"}
  BY DEF IInv, TypeOK, Updated, Updatable, Ended, Active, Terminal
<1>8. limit' \in 1..MaxLimit
  BY <1>1 DEF IInv, TypeOK
<1>9. /\ status' \in [RunId -> Status] /\ active' \in SUBSET RunId
      /\ pc' \in [RunId -> Place] /\ waiting' \in SUBSET RunId
      /\ ac \subseteq active'
      /\ Numbered' /\ ActiveStarted' /\ ActiveStatusTracked'
      /\ EndedKept /\ Filled
  <2> HIDE DEF ac, w
  <2> QED  BY <1>1, <1>2, <1>3, <1>4, <1>5, <1>6, <1>7, <1>8, DrainStep
<1>10. /\ dialogs' \in [RunId -> SUBSET Dialogs]
       /\ keepAlive' \in SUBSET RunId /\ deadline' \in SUBSET RunId
  BY <1>1 DEF Cleanup, IInv, TypeOK
<1>11. TypeOK'
  BY <1>1, <1>8, <1>9, <1>10 DEF IInv, TypeOK
<1>12. TimersTracked'
  BY <1>1, <1>9 DEF IInv, TimersTracked, Cleanup
<1>13. CancellingEnded'
  BY <1>1, <1>9, CancellingStays
<1> QED  BY <1>1, <1>9, <1>11, <1>12, <1>13 DEF Steps, DownIsEmpty

\* setMaxConcurrency() and start()
LEMMA ServerStep ==
  ASSUME IInv, (\E n \in 1..MaxLimit : SetMaxConcurrency(n)) \/ Start
  PROVE  Steps
<1> DEFINE reconciled == [r \in RunId |-> IF status[r] \in Active
                                          THEN "interrupted" ELSE status[r]]
<1>1. /\ up' = TRUE /\ limit' \in 1..MaxLimit
      /\ UNCHANGED <<created, group, unlimited, cost, cap, dialogs, keepAlive,
                     deadline, cancelling, turn, closed, abortFailed,
                     overtaken, restarts>>
  BY DEF SetMaxConcurrency, Start, submitted, budget, timers, session, history,
         IInv, TypeOK
<1>2. PICK st \in {status, reconciled} :
        /\ Drain(st, active, pc, waiting)
        /\ \A r \in RunId : st[r] \in Active => r \in active
  <2>1. CASE \E n \in 1..MaxLimit : SetMaxConcurrency(n)
    BY <2>1 DEF SetMaxConcurrency, IInv, ActiveStatusTracked
  <2>2. CASE Start
    <3>1. \A r \in RunId : reconciled[r] \notin Active
      BY DEF Active
    <3>2. Drain(reconciled, active, pc, waiting)
      BY <2>2 DEF Start
    <3> QED  BY <3>1, <3>2
  <2> QED  BY <2>1, <2>2
<1>3. /\ st \in [RunId -> Status] /\ active \in SUBSET active
      /\ pc \in [RunId -> Place] /\ waiting \in SUBSET RunId
  BY DEF IInv, TypeOK, Status, Terminal
<1>4. \A r \in RunId : r > created' => st[r] = "none"
  BY <1>1 DEF IInv, Numbered, Active
<1>5. \A r \in active : st[r] \notin {"none", "queued"}
  BY DEF IInv, TypeOK, ActiveStarted
<1>6. \A r \in RunId : status[r] \in Ended => st[r] \in {status[r], "evicted"}
  BY DEF Ended, Active, Terminal
<1>7. /\ status' \in [RunId -> Status] /\ active' \in SUBSET RunId
      /\ pc' \in [RunId -> Place] /\ waiting' \in SUBSET RunId
      /\ active \subseteq active'
      /\ Numbered' /\ ActiveStarted' /\ ActiveStatusTracked'
      /\ EndedKept /\ Filled
  BY <1>1, <1>2, <1>3, <1>4, <1>5, <1>6, DrainStep
<1>8. TypeOK'
  BY <1>1, <1>7 DEF IInv, TypeOK
<1>9. TimersTracked'
  BY <1>1, <1>7 DEF IInv, TimersTracked
<1>10. CancellingEnded'
  BY <1>1, <1>7, CancellingStays
<1> QED  BY <1>1, <1>7, <1>8, <1>9, <1>10 DEF Steps, DownIsEmpty

\* The process dies.
LEMMA CrashStep ==
  ASSUME IInv, Crash
  PROVE  Steps
<1>1. UNCHANGED <<created, status, group, cost, cap, unlimited, limit>>
  BY DEF Crash, store
<1>2. /\ up' = FALSE /\ restarts' \in 0..MaxRestarts
      /\ active' = {} /\ waiting' = {} /\ keepAlive' = {} /\ deadline' = {}
      /\ cancelling' = {} /\ closed' = {} /\ abortFailed' = {}
      /\ overtaken' = {}
      /\ dialogs' \in [RunId -> SUBSET Dialogs]
      /\ pc' = [r \in RunId |-> "idle"]
      /\ turn' \in [RunId -> {"none", "snapshot", "working"}]
  BY BoundsAssumption DEF Crash, IInv, TypeOK
<1>3. pc' \in [RunId -> Place]
  BY <1>2 DEF Place
<1>4. TypeOK'
  BY <1>1, <1>2, <1>3 DEF IInv, TypeOK
<1>5. Numbered' /\ ActiveStarted' /\ DownIsEmpty' /\ CancellingEnded'
  BY <1>1, <1>2 DEF IInv, Numbered, ActiveStarted, DownIsEmpty, CancellingEnded
<1>6. ActiveStatusTracked' /\ TimersTracked' /\ EndedKept
  BY <1>1, <1>2 DEF ActiveStatusTracked, TimersTracked, EndedKept
<1> QED  BY <1>1, <1>2, <1>4, <1>5, <1>6 DEF Steps, Died

-----------------------------------------------------------------------------
\* The invariant

LEMMA InitIInv == Init => IInv
<1> SUFFICES ASSUME Init  PROVE IInv
  OBVIOUS
<1>1. TypeOK
  <2>1. /\ created \in 0..MaxCreated /\ limit \in 1..MaxLimit
        /\ restarts \in 0..MaxRestarts
    BY BoundsAssumption DEF Init
  <2>2. /\ status \in [RunId -> Status] /\ pc \in [RunId -> Place]
        /\ group \in [RunId -> Groups \cup {NoGroup}]
        /\ turn \in [RunId -> {"none", "snapshot", "working"}]
        /\ dialogs \in [RunId -> SUBSET Dialogs]
        /\ cost \in [RunId -> Nat] /\ cap \in [RunId -> Nat]
    BY DEF Init, Status, Place
  <2> QED  BY <2>1, <2>2 DEF Init, TypeOK
<1>2. /\ Numbered /\ ActiveStarted /\ DownIsEmpty /\ CancellingEnded
      /\ ActiveStatusTracked /\ WorkConserving /\ TimersTracked
  BY DEF Init, Numbered, ActiveStarted, DownIsEmpty, CancellingEnded,
         ActiveStatusTracked, WorkConserving, TimersTracked
<1> QED  BY <1>1, <1>2 DEF IInv

LEMMA NextSteps ==
  ASSUME IInv, Next
  PROVE  Steps
<1>1. CASE Enqueue
  <2>1. PICK g \in GroupChoices, d \in TimeoutChoices,
             w \in WaitChoices : Create(g, d, w)
    BY <1>1 DEF Enqueue
  <2>2. g \in Groups \cup {NoGroup} /\ d \in BOOLEAN /\ w \in BOOLEAN
    BY BudgetAssumption, ChoicesAssumption
  <2> QED  BY <2>1, <2>2, CreateStep
<1>2. ASSUME NEW r \in RunId, Retry(r)  PROVE Steps
  <2>1. group[r] \in Groups \cup {NoGroup} /\ (r \in unlimited) \in BOOLEAN
    BY DEF IInv, TypeOK
  <2>2. Create(group[r], r \in unlimited, FALSE)
    BY <1>2 DEF Retry
  <2> QED  BY <2>1, <2>2, CreateStep
<1>3. ASSUME NEW r \in RunId, Coroutine(r)  PROVE Steps
  <2>1. TrustRefused(r) \/ StartFails(r) \/ SettingsRejected(r) =>
          pc[r] # "idle" /\ Fails(r)
    BY DEF TrustRefused, StartFails, SettingsRejected
  <2> QED  BY <1>3, <2>1, CoroutineStep, FailsStep DEF Coroutine
<1>4. ASSUME NEW r \in RunId, Prompt(r)  PROVE Steps
  <2>1. PromptRejected(r) => pc[r] # "idle" /\ Fails(r)
    BY DEF PromptRejected
  <2> QED  BY <1>4, <2>1, CoroutineStep, PromptResolvedStep, FailsStep
           DEF Prompt
<1>5. ASSUME NEW r \in RunId, SessionEvent(r)  PROVE Steps
  BY <1>5, DialogStep, EndsStep, MessageEndStep DEF SessionEvent
<1>6. ASSUME NEW r \in RunId,
             \/ CancelAtOnce(r) \/ CancelBegins(r) \/ CancelResumes(r)
             \/ CancelRejected(r) \/ Extend(r)
             \/ Deadline(r) \/ KeepAliveFails(r)
      PROVE  Steps
  BY <1>6, CancelStep, CancelWaits, ExtendStep, EndsStep
<1>7. CASE (\E n \in 1..MaxLimit : SetMaxConcurrency(n)) \/ Start
  BY <1>7, ServerStep
<1>8. CASE Crash
  BY <1>8, CrashStep
<1> QED
  BY <1>1, <1>2, <1>3, <1>4, <1>5, <1>6, <1>7, <1>8 DEF Next, Request

\* Every step keeps the invariant, because a drain() leaves no slot idle and
\* the other handlers neither free a slot nor queue a run.
LEMMA StepsKeepIInv ==
  ASSUME IInv, Steps
  PROVE  IInv'
<1>1. WorkConserving'
  BY DEF IInv, Steps, WorkConserving, Filled, Kept, Died
<1> QED  BY <1>1 DEF IInv, Steps

LEMMA StutterKeepsIInv ==
  ASSUME IInv, UNCHANGED vars
  PROVE  IInv'
BY DEF IInv, TypeOK, Numbered, ActiveStarted, DownIsEmpty, CancellingEnded,
       ActiveStatusTracked, WorkConserving, TimersTracked, Queued,
       vars, store, timers, session, history

LEMMA Invariance == Spec => []IInv
<1>1. IInv /\ [Next]_vars => IInv'
  BY NextSteps, StepsKeepIInv, StutterKeepsIInv
<1> QED  BY <1>1, InitIInv, PTL DEF Spec

-----------------------------------------------------------------------------
(***************************************************************************)
(* Dialogs.  DialogStatus is inductive with one more fact: a dialog is open  *)
(* only while the run's listener is subscribed, so that a run that is taken  *)
(* from the queue, or whose session has just been opened, has none.          *)
(***************************************************************************)
DialogsHeard == \A r \in RunId : dialogs[r] # {} => Listening(r)

DialogInv == DialogsHeard /\ DialogStatus

\* drain() starts runs without dialogs, as running ones, and fails others.
LEMMA DrainDialogs ==
  ASSUME NEW st \in [RunId -> Status], NEW ac \in SUBSET RunId,
         NEW p \in [RunId -> Place], NEW w,
         Drain(st, ac, p, w),
         \A r \in RunId : dialogs'[r] # {} =>
                            r \in ac /\ p[r] \in {"settings", "prompt"},
         \A r \in ac : st[r] # "queued",
         \A r \in ac : st[r] \in Active =>
                         (st[r] = "waiting_for_input" <=> dialogs'[r] # {})
  PROVE  DialogInv'
<1> DEFINE starts == DrainStarts(st, group', cost', cap', ac, limit')
           stops  == DrainStops(st, group', cost', cap', ac, limit')
<1>1. \A r \in starts : r \in RunId /\ st[r] = "queued"
  BY DrainPicks DEF Queued
<1>2. /\ status' = [r \in RunId |-> IF r \in starts THEN "running"
                                    ELSE IF r \in stops THEN "failed"
                                    ELSE st[r]]
      /\ active' = ac \cup starts
      /\ pc' = [r \in RunId |-> IF r \in starts THEN "trust" ELSE p[r]]
  BY DEF Drain
<1> HIDE DEF starts, stops
<1>3. DialogsHeard'
  BY <1>1, <1>2 DEF DialogsHeard, Listening
<1>4. DialogStatus'
  BY <1>1, <1>2 DEF DialogStatus, Active
<1> QED  BY <1>3, <1>4 DEF DialogInv

\* A handler that closes the dialogs of the runs rs, ends or frees them, and drains.
LEMMA CleanupDialogs ==
  ASSUME IInv, DialogInv, NEW rs \in SUBSET RunId,
         NEW st \in [RunId -> Status], NEW p \in [RunId -> Place], NEW w,
         Cleanup(rs), Drain(st, active \ rs, p, w),
         \A r \in RunId \ rs : st[r] = status[r] /\ p[r] = pc[r]
  PROVE  DialogInv'
<1>1. dialogs' = [r \in RunId |-> IF r \in rs THEN {} ELSE dialogs[r]]
  BY DEF Cleanup
<1>2. \A r \in RunId : dialogs'[r] # {} =>
        r \in active \ rs /\ p[r] \in {"settings", "prompt"}
  BY <1>1 DEF DialogInv, DialogsHeard, Listening
<1>3. \A r \in active \ rs :
        /\ st[r] # "queued"
        /\ st[r] \in Active =>
             (st[r] = "waiting_for_input" <=> dialogs'[r] # {})
  BY <1>1 DEF IInv, TypeOK, ActiveStarted, DialogInv, DialogStatus
<1>4. active \ rs \in SUBSET RunId
  BY DEF IInv, TypeOK
<1> QED  BY <1>2, <1>3, <1>4, DrainDialogs

\* finish()
LEMMA FinishDialogs ==
  ASSUME IInv, DialogInv, NEW r \in RunId, NEW s \in Terminal,
         NEW p \in [RunId -> Place], Finish(r, s, p),
         \A q \in RunId \ {r} : p[q] = pc[q]
  PROVE  DialogInv'
<1>1. CASE r \in active
  <2> DEFINE st == Updated(status, r, s)
             w  == IF Updatable(status, r) THEN waiting \ {r} ELSE waiting
  <2>1. Drain(st, active \ {r}, p, w) /\ Cleanup({r})
    BY <1>1 DEF Finish
  <2>2. /\ st \in [RunId -> Status] /\ {r} \in SUBSET RunId
        /\ \A q \in RunId \ {r} : st[q] = status[q]
    BY DEF IInv, TypeOK, Updated, Status
  <2> HIDE DEF st, w
  <2> QED  BY <2>1, <2>2, CleanupDialogs
<1>2. CASE r \notin active
  <2>1. pc' = p /\ UNCHANGED <<status, active, dialogs>>
    BY <1>2 DEF Finish
  <2> QED  BY <1>2, <2>1 DEF DialogInv, DialogsHeard, DialogStatus, Listening
<1> QED  BY <1>1, <1>2

\* The records of runs that do not listen keep what is said of dialogs, and so does
\* a step that rewrites the record of one run as its dialogs say.
LEMMA RecordDialogs ==
  ASSUME IInv, DialogInv, NEW r \in RunId, UNCHANGED active,
         TypeOK',
         \A q \in RunId \ {r} : /\ status'[q] = status[q]
                                /\ dialogs'[q] = dialogs[q] /\ pc'[q] = pc[q],
         dialogs'[r] # {} => Listening(r)',
         r \in active /\ status'[r] \in Active =>
           (status'[r] = "waiting_for_input" <=> dialogs'[r] # {})
  PROVE  DialogInv'
<1>1. DialogsHeard'
  BY DEF DialogInv, DialogsHeard, Listening
<1>2. DialogStatus'
  <2> SUFFICES ASSUME NEW q \in active', status'[q] \in Active
               PROVE  status'[q] = "waiting_for_input" <=> dialogs'[q] # {}
    BY DEF DialogStatus
  <2>1. q \in RunId /\ q \in active
    BY DEF TypeOK
  <2> QED  BY <2>1 DEF DialogInv, DialogStatus
<1> QED  BY <1>1, <1>2 DEF DialogInv

\* Requests: cancel(), extend(), a new run, another limit
LEMMA RequestDialogs ==
  ASSUME IInv, DialogInv, Steps, NEW r \in RunId,
         \/ CancelAtOnce(r) \/ CancelBegins(r) \/ CancelResumes(r)
         \/ CancelRejected(r) \/ Extend(r)
  PROVE  DialogInv'
<1>1. ASSUME CancelAtOnce(r) \/ CancelResumes(r)  PROVE DialogInv'
  <2>1. PICK st \in {status, Updated(status, r, "cancelled")} :
          Cleanup({r}) /\ Drain(st, active \ {r}, pc, waiting \ {r})
    BY <1>1 DEF CancelAtOnce, CancelResumes
  <2>2. /\ st \in [RunId -> Status] /\ {r} \in SUBSET RunId
        /\ pc \in [RunId -> Place]
        /\ \A q \in RunId \ {r} : st[q] = status[q]
    BY DEF IInv, TypeOK, Updated, Status, Terminal
  <2> QED  BY <2>1, <2>2, CleanupDialogs
<1>2. CASE CancelBegins(r)
  <2>1. /\ UNCHANGED <<active, dialogs, pc>>
        /\ status' = Updated(status, r, "cancelled")
    BY <1>2 DEF CancelBegins
  <2>2. \A q \in RunId : status'[q] \in Active => status'[q] = status[q]
    BY <2>1 DEF Updated, IInv, TypeOK, Active
  <2> QED  BY <2>1, <2>2
           DEF DialogInv, DialogsHeard, DialogStatus, Listening, IInv, TypeOK
<1>3. CASE CancelRejected(r)
  BY <1>3 DEF CancelRejected, store, DialogInv, DialogsHeard, DialogStatus,
              Listening
<1>4. CASE Extend(r)
  <2>1. /\ UNCHANGED <<active, dialogs, pc>>
        /\ status' = [status EXCEPT ![r] = IF dialogs[r] = {} THEN "running"
                                           ELSE "waiting_for_input"]
    BY <1>4 DEF Extend
  <2> QED  BY <2>1, RecordDialogs
           DEF DialogInv, DialogsHeard, Listening, IInv, TypeOK, Steps
<1> QED  BY <1>1, <1>2, <1>3, <1>4

LEMMA DrainOnlyDialogs ==
  ASSUME IInv, DialogInv,
         NEW st \in [RunId -> Status], NEW w, UNCHANGED dialogs,
         Drain(st, active, pc, w),
         \A q \in active : st[q] # "queued",
         \A q \in active : st[q] \in Active => st[q] = status[q]
  PROVE  DialogInv'
<1>1. /\ active \in SUBSET RunId /\ pc \in [RunId -> Place]
      /\ \A q \in RunId : dialogs'[q] # {} =>
           q \in active /\ pc[q] \in {"settings", "prompt"}
  BY DEF IInv, TypeOK, DialogInv, DialogsHeard, Listening
<1>2. \A q \in active : st[q] \in Active =>
        (st[q] = "waiting_for_input" <=> dialogs'[q] # {})
  BY DEF DialogInv, DialogStatus
<1> QED  BY <1>1, <1>2, DrainDialogs

\* createQueuedRun, setMaxConcurrency() and start()
LEMMA ServerDialogs ==
  ASSUME IInv, DialogInv,
         \/ \E g \in Groups \cup {NoGroup}, d, w \in BOOLEAN : Create(g, d, w)
         \/ \E n \in 1..MaxLimit : SetMaxConcurrency(n)
         \/ Start
  PROVE  DialogInv'
<1> DEFINE n  == created + 1
           old == Min(Stored(status))
           overflow == Cardinality(Stored(status)) >= MaxRuns
           added == [r \in RunId |-> IF r = n THEN "queued"
                                     ELSE IF overflow /\ r = old THEN "evicted"
                                     ELSE status[r]]
           reconciled == [r \in RunId |-> IF status[r] \in Active
                                          THEN "interrupted" ELSE status[r]]
<1>1. UNCHANGED dialogs /\ \A q \in active : q \in RunId /\ status[q] # "queued"
  BY DEF Create, SetMaxConcurrency, Start, IInv, TypeOK, ActiveStarted
<1>2. ASSUME NEW g, NEW d, NEW w \in BOOLEAN, Create(g, d, w)  PROVE DialogInv'
  <2>1. n \in RunId /\ Drain(added, active, pc, IF w THEN waiting \cup {n} ELSE waiting)
    BY <1>2 DEF Create
  <2>2. status[n] = "none"
    BY <2>1, BoundsAssumption DEF IInv, TypeOK, Numbered, RunId
  <2>3. added \in [RunId -> Status]
    BY DEF IInv, TypeOK, Status
  <2>4. \A q \in active : /\ added[q] # "queued"
                          /\ added[q] \in Active => added[q] = status[q]
    BY <1>1, <2>2 DEF IInv, ActiveStarted, Active
  <2> HIDE DEF added
  <2> QED  BY <1>1, <2>1, <2>3, <2>4, DrainOnlyDialogs
<1>3. CASE \E m \in 1..MaxLimit : SetMaxConcurrency(m)
  <2>1. Drain(status, active, pc, waiting) /\ status \in [RunId -> Status]
    BY <1>3 DEF SetMaxConcurrency, IInv, TypeOK
  <2> QED  BY <1>1, <2>1, DrainOnlyDialogs
<1>4. CASE Start
  <2>1. Drain(reconciled, active, pc, waiting) /\ active = {}
    BY <1>4 DEF Start, IInv, TypeOK, DownIsEmpty
  <2>2. reconciled \in [RunId -> Status]
    BY DEF IInv, TypeOK, Status, Terminal
  <2> HIDE DEF reconciled
  <2> QED  BY <1>1, <2>1, <2>2, DrainOnlyDialogs
<1> QED  BY <1>2, <1>3, <1>4

\* The coroutine, the prompt and the timers
LEMMA RunDialogs ==
  ASSUME IInv, DialogInv, Steps, NEW r \in RunId,
         \/ Coroutine(r) \/ Prompt(r) \/ Deadline(r) \/ KeepAliveFails(r)
         \/ \E s \in {"completed", "failed"} : AgentEnd(r, s)
  PROVE  DialogInv'
<1> DEFINE done == [pc EXCEPT ![r] = "done"]
<1>1. /\ pc \in [RunId -> Place] /\ done \in [RunId -> Place]
      /\ \A q \in RunId \ {r} : done[q] = pc[q]
      /\ "failed" \in Terminal /\ "completed" \in Terminal
  BY DEF IInv, TypeOK, Place, Terminal
<1>2. CASE \E s \in Terminal, p \in {pc, done} : Finish(r, s, p)
  <2> HIDE DEF done
  <2> QED  BY <1>1, <1>2, FinishDialogs
<1>3. CASE Trusted(r) \/ SettingsApplied(r) \/ PromptBegins(r)
  <2>1. UNCHANGED <<status, active, dialogs>>
    BY <1>3 DEF Trusted, SettingsApplied, PromptBegins, store
  <2>2. \A q \in RunId : pc[q] \in {"settings", "prompt"} =>
                           pc'[q] \in {"settings", "prompt"}
    BY <1>3 DEF Trusted, SettingsApplied, PromptBegins, IInv, TypeOK
  <2> QED  BY <2>1, <2>2 DEF DialogInv, DialogsHeard, DialogStatus, Listening
<1>4. CASE SessionStarted(r)
  <2>1. /\ UNCHANGED <<active, dialogs>> /\ pc[r] = "start"
        /\ \A q \in RunId \ {r} : status'[q] = status[q] /\ pc'[q] = pc[q]
    BY <1>4 DEF SessionStarted, Updated, IInv, TypeOK
  <2>2. dialogs[r] = {}
    BY <2>1 DEF DialogInv, DialogsHeard, Listening
  <2>3. r \in active /\ status'[r] \in Active => status'[r] = "running"
    BY <1>4 DEF SessionStarted, Updated, Updatable, IInv, TypeOK
  <2> QED  BY <2>1, <2>2, <2>3, RecordDialogs DEF Steps
<1>5. CASE Deadline(r) /\ r \notin active
  BY <1>5 DEF Deadline, DialogInv, DialogsHeard, DialogStatus, Listening
<1> QED
  BY <1>1, <1>2, <1>3, <1>4, <1>5
     DEF Coroutine, Prompt, Deadline, KeepAliveFails, AgentEnd, Fails,
         TrustRefused, StartFails, SettingsRejected, PromptResolved,
         PromptRejected

\* Events of the session: its dialogs, its costs, its end
LEMMA SessionDialogs ==
  ASSUME IInv, DialogInv, Steps, NEW r \in RunId, SessionEvent(r)
  PROVE  DialogInv'
<1>1. ASSUME NEW d \in Dialogs, DialogOpened(r, d)  PROVE DialogInv'
  <2>1. /\ Listening(r) /\ UNCHANGED <<active, pc>>
        /\ dialogs' = [dialogs EXCEPT ![r] = @ \cup {d}]
        /\ status' = Updated(status, r, "waiting_for_input")
    BY <1>1 DEF DialogOpened
  <2>2. /\ \A q \in RunId \ {r} : status'[q] = status[q] /\ dialogs'[q] = dialogs[q]
        /\ dialogs'[r] # {} /\ Listening(r)'
        /\ status'[r] \in Active => status'[r] = "waiting_for_input"
    BY <2>1 DEF Updated, Updatable, Listening, IInv, TypeOK
  <2> QED  BY <2>1, <2>2, RecordDialogs DEF Steps
<1>2. ASSUME NEW d \in Dialogs, DialogClosed(r, d)  PROVE DialogInv'
  <2>1. /\ Listening(r) /\ UNCHANGED <<active, pc>> /\ dialogs[r] # {}
        /\ dialogs' = [dialogs EXCEPT ![r] = @ \ {d}]
        /\ status' = IF dialogs'[r] = {} THEN Updated(status, r, "running")
                     ELSE status
    BY <1>2 DEF DialogClosed
  <2>2. /\ \A q \in RunId \ {r} : status'[q] = status[q] /\ dialogs'[q] = dialogs[q]
        /\ Listening(r)' /\ r \in active
    BY <2>1 DEF Updated, Listening, IInv, TypeOK
  <2>3. status'[r] \in Active =>
          (status'[r] = "waiting_for_input" <=> dialogs'[r] # {})
    <3>1. CASE dialogs'[r] = {}
      BY <2>1, <3>1 DEF Updated, Updatable, IInv, TypeOK
    <3>2. CASE dialogs'[r] # {}
      BY <2>1, <2>2, <3>2 DEF DialogInv, DialogStatus
    <3> QED  BY <3>1, <3>2
  <2> QED  BY <2>1, <2>2, <2>3, RecordDialogs DEF Steps
<1>3. CASE \E s \in {"completed", "failed"} : AgentEnd(r, s)
  BY <1>3, RunDialogs
<1>4. ASSUME NEW c \in TurnCosts, NEW b \in BOOLEAN, MessageEnd(r, c, b)
      PROVE  DialogInv'
  <2> DEFINE hit == {q \in RunId : Updatable(status, q) /\ group[q] = group[r]}
             st  == [q \in RunId |-> IF q \in hit THEN "failed" ELSE status[q]]
  <2>1. \/ Cleanup(hit) /\ Drain(st, active \ hit, pc, waiting \ hit)
        \/ Finish(r, "failed", pc)
        \/ UNCHANGED <<status, active, dialogs, pc>>
    BY <1>4 DEF MessageEnd
  <2>2. /\ hit \in SUBSET RunId /\ st \in [RunId -> Status]
        /\ pc \in [RunId -> Place] /\ "failed" \in Terminal
        /\ \A q \in RunId \ hit : st[q] = status[q]
    BY DEF IInv, TypeOK, Status, Terminal
  <2> HIDE DEF hit, st
  <2>3. CASE UNCHANGED <<status, active, dialogs, pc>>
    BY <2>3 DEF DialogInv, DialogsHeard, DialogStatus, Listening
  <2> QED  BY <2>1, <2>2, <2>3, CleanupDialogs, FinishDialogs
<1>5. CASE SessionCloses(r)
  <2>1. /\ UNCHANGED <<active, pc>>
        /\ dialogs' = [dialogs EXCEPT ![r] = {}]
        /\ status' = IF Listening(r) /\ dialogs[r] # {}
                     THEN Updated(status, r, "running") ELSE status
    BY <1>5 DEF SessionCloses
  <2>2. /\ \A q \in RunId \ {r} : status'[q] = status[q] /\ dialogs'[q] = dialogs[q]
        /\ dialogs'[r] = {}
    BY <2>1 DEF Updated, IInv, TypeOK
  <2>3. r \in active /\ status'[r] \in Active => status'[r] # "waiting_for_input"
    <3>1. CASE dialogs[r] # {}
      BY <2>1, <3>1 DEF Updated, Updatable, DialogInv, DialogsHeard, IInv, TypeOK
    <3>2. CASE dialogs[r] = {}
      BY <2>1, <3>2 DEF DialogInv, DialogStatus
    <3> QED  BY <3>1, <3>2
  <2> QED  BY <2>1, <2>2, <2>3, RecordDialogs DEF Steps
<1> QED  BY <1>1, <1>2, <1>3, <1>4, <1>5 DEF SessionEvent

LEMMA NextDialogs ==
  ASSUME IInv, DialogInv, Next
  PROVE  DialogInv'
<1>1. Steps
  BY NextSteps
<1>2. CASE Enqueue \/ \E r \in RunId : Retry(r)
  <2>1. \E g \in Groups \cup {NoGroup}, d, w \in BOOLEAN : Create(g, d, w)
    <3>1. CASE Enqueue
      BY <3>1, BudgetAssumption, ChoicesAssumption DEF Enqueue
    <3>2. ASSUME NEW r \in RunId, Retry(r)
          PROVE  \E g \in Groups \cup {NoGroup}, d, w \in BOOLEAN : Create(g, d, w)
      <4>1. /\ group[r] \in Groups \cup {NoGroup}
            /\ (r \in unlimited) \in BOOLEAN /\ FALSE \in BOOLEAN
        BY DEF IInv, TypeOK
      <4>2. Create(group[r], r \in unlimited, FALSE)
        BY <3>2 DEF Retry
      <4> QED  BY <4>1, <4>2, Zenon
    <3> QED  BY <1>2, <3>1, <3>2
  <2> QED  BY <2>1, ServerDialogs
<1>3. CASE Crash
  BY <1>3 DEF Crash, DialogInv, DialogsHeard, DialogStatus
<1>4. CASE (\E n \in 1..MaxLimit : SetMaxConcurrency(n)) \/ Start
  BY <1>4, ServerDialogs
<1>5. ASSUME NEW r \in RunId,
             \/ CancelAtOnce(r) \/ CancelBegins(r) \/ CancelResumes(r)
             \/ CancelRejected(r) \/ Extend(r) \/ Coroutine(r) \/ Prompt(r)
             \/ SessionEvent(r) \/ Deadline(r) \/ KeepAliveFails(r)
      PROVE  DialogInv'
  BY <1>1, <1>5, RequestDialogs, RunDialogs, SessionDialogs
<1> QED  BY <1>2, <1>3, <1>4, <1>5 DEF Next, Request

-----------------------------------------------------------------------------
(***************************************************************************)
(* Shared budgets, and runs that let go.  A drain() that stops a group       *)
(* clears the waiters of its members but none of their slots: that this is   *)
(* enough is SpentGroupStopped, halfway through the handler as well as       *)
(* between two of them.  It needs one cap per group, and that a record       *)
(* starts without a cost.                                                    *)
(***************************************************************************)
CapsAgree(st, gr, ca) ==
  \A q, r \in Stored(st) : gr[q] = gr[r] /\ gr[q] # NoGroup => ca[q] = ca[r]

Affordable(st, gr, co, ca) ==
  \A r \in RunId : st[r] \in Active => ~Exhausted(st, gr, co, ca, r)

Unpaid == \A r \in RunId : r > created => cost[r] = 0

WaitersAlive == ~up => waiting = {}

BudgetInv ==
  Unpaid /\ WaitersAlive /\ OneCapPerGroup /\ SpentGroupStopped /\ FinishedLetsGo

\* A run whose record has ended and that still holds a slot or a waiter is one of
\* which a cancel() waits for the abort or was left by it.
LetGo(st, ac, w) ==
  \A r \in ac \cup w : st[r] \in Terminal => r \in (abortFailed \cup cancelling)'

\* The cost of a group depends on its members and what they cost, and does not rise
\* when members leave or such come that have cost nothing.
LEMMA SameGroupCost ==
  ASSUME NEW st, NEW gr, NEW co, NEW q, NEW st2, NEW gr2, NEW co2, NEW r,
         Members(st, gr, q) = Members(st2, gr2, r),
         \A x \in Members(st, gr, q) : co[x] = co2[x]
  PROVE  GroupCost(st, gr, co, q) = GroupCost(st2, gr2, co2, r)
<1> DEFINE v == [x \in RunId |-> IF x \in Members(st, gr, q) THEN co[x] ELSE 0]
           w == [x \in RunId |-> IF x \in Members(st2, gr2, r) THEN co2[x] ELSE 0]
<1>1. v = w
  OBVIOUS
<1>2. GroupCost(st, gr, co, q) = Total(v) /\ GroupCost(st2, gr2, co2, r) = Total(w)
  BY DEF GroupCost
<1> HIDE DEF v, w
<1> QED  BY <1>1, <1>2

LEMMA LowerGroupCost ==
  ASSUME NEW co \in [RunId -> Nat], NEW st, NEW gr, NEW q, NEW st2, NEW gr2, NEW r,
         \A x \in Members(st, gr, q) : x \in Members(st2, gr2, r) \/ co[x] = 0
  PROVE  /\ GroupCost(st, gr, co, q) \in Nat /\ GroupCost(st2, gr2, co, r) \in Nat
         /\ GroupCost(st, gr, co, q) <= GroupCost(st2, gr2, co, r)
<1> DEFINE v == [x \in RunId |-> IF x \in Members(st, gr, q) THEN co[x] ELSE 0]
           w == [x \in RunId |-> IF x \in Members(st2, gr2, r) THEN co[x] ELSE 0]
<1>1. /\ v \in [RunId -> Nat] /\ w \in [RunId -> Nat]
      /\ \A n \in RunId : v[n] <= w[n]
  OBVIOUS
<1>2. GroupCost(st, gr, co, q) = Total(v) /\ GroupCost(st2, gr2, co, r) = Total(w)
  BY DEF GroupCost
<1> HIDE DEF v, w
<1> QED  BY <1>1, <1>2, TotalGrows

\* Whether a budget is spent is a matter of the group.
LEMMA ExhaustedTogether ==
  ASSUME NEW st, NEW gr, NEW co, NEW ca, NEW q \in Stored(st), NEW r \in Stored(st),
         CapsAgree(st, gr, ca), gr[q] = gr[r]
  PROVE  Exhausted(st, gr, co, ca, q) <=> Exhausted(st, gr, co, ca, r)
<1>1. Members(st, gr, q) = Members(st, gr, r)
  BY DEF Members
<1>2. GroupCost(st, gr, co, q) = GroupCost(st, gr, co, r)
  BY <1>1, SameGroupCost
<1>3. gr[q] # NoGroup => ca[q] = ca[r]
  BY DEF CapsAgree
<1> QED  BY <1>2, <1>3 DEF Exhausted

\* Records that are rewritten, but for none stored or evicted and none set to work.
LEMMA RecordsRewritten ==
  ASSUME NEW st, NEW st2, NEW gr, NEW co, NEW ca,
         CapsAgree(st, gr, ca), Affordable(st, gr, co, ca),
         Stored(st2) = Stored(st),
         \A r \in RunId : st2[r] \in Active => st[r] \in Active
  PROVE  CapsAgree(st2, gr, ca) /\ Affordable(st2, gr, co, ca)
<1>1. CapsAgree(st2, gr, ca)
  BY DEF CapsAgree
<1>2. ASSUME NEW r \in RunId, st2[r] \in Active
      PROVE  ~Exhausted(st2, gr, co, ca, r)
  <2>1. Members(st2, gr, r) = Members(st, gr, r)
    BY DEF Members
  <2>2. GroupCost(st2, gr, co, r) = GroupCost(st, gr, co, r)
    BY <2>1, SameGroupCost
  <2>3. ~Exhausted(st, gr, co, ca, r)
    BY <1>2 DEF Affordable
  <2> QED  BY <2>2, <2>3 DEF Exhausted
<1> QED  BY <1>1, <1>2 DEF Affordable

\* An ended or active status in place of one that has not ended.
LEMMA UpdatedStored ==
  ASSUME IInv, NEW r \in RunId, NEW s \in Active \cup Terminal
  PROVE  /\ Updated(status, r, s) \in [RunId -> Status]
         /\ Stored(Updated(status, r, s)) = Stored(status)
         /\ s \in Terminal => \A q \in RunId :
              Updated(status, r, s)[q] \in Active => status[q] \in Active
BY DEF IInv, TypeOK, Updated, Updatable, Stored, Status, Active, Terminal

\* drain() starts what can be paid, and stops only what waits in the queue.
LEMMA DrainBudget ==
  ASSUME NEW st \in [RunId -> Status], NEW ac \in SUBSET RunId,
         NEW p \in [RunId -> Place], NEW w \in SUBSET RunId,
         Drain(st, ac, p, w),
         CapsAgree(st, group', cap'), Affordable(st, group', cost', cap'),
         \A r \in ac : st[r] # "queued",
         LetGo(st, ac, w)
  PROVE  OneCapPerGroup' /\ SpentGroupStopped' /\ FinishedLetsGo'
<1> DEFINE starts == DrainStarts(st, group', cost', cap', ac, limit')
           stops  == DrainStops(st, group', cost', cap', ac, limit')
<1>1. /\ status' = [r \in RunId |-> IF r \in starts THEN "running"
                                    ELSE IF r \in stops THEN "failed"
                                    ELSE st[r]]
      /\ active' = ac \cup starts
      /\ waiting' = w \ stops
  BY DEF Drain
<1>2. /\ starts \subseteq Queued(st)
      /\ stops \subseteq {r \in RunId : Updatable(st, r)}
  BY DrainPicks
<1>3. \A r \in starts : ~Exhausted(st, group', cost', cap', r)
  BY DEF DrainStarts, Startable
<1>4. ASSUME NEW q \in stops, st[q] # "queued"  PROVE FALSE
  <2>1. q \in RunId /\ st[q] \in Active
    BY <1>2, <1>4 DEF Updatable
  <2>2. PICK r \in Queued(st) : /\ ~(r \in Startable(st, group', cost', cap'))
                                /\ group'[q] = group'[r]
    BY DEF DrainStops, Taken
  <2>3. Exhausted(st, group', cost', cap', r)
    BY <2>2 DEF Startable
  <2>4. q \in Stored(st) /\ r \in Stored(st)
    BY <2>1, <2>2 DEF Stored, Queued, Active
  <2>5. Exhausted(st, group', cost', cap', q)
    BY <2>2, <2>3, <2>4, ExhaustedTogether
  <2> QED  BY <2>1, <2>5 DEF Affordable
<1> HIDE DEF starts, stops
<1>5. Stored(status') = Stored(st)
  BY <1>1, <1>2 DEF Stored, Queued, Updatable, Active
<1>6. OneCapPerGroup'
  BY <1>5 DEF OneCapPerGroup, CapsAgree
<1>7. SpentGroupStopped'
  <2> SUFFICES ASSUME NEW r \in RunId, status'[r] \in Active
               PROVE  ~Exhausted(status', group', cost', cap', r)
    BY DEF SpentGroupStopped, Stored
  <2>1. ~Exhausted(st, group', cost', cap', r)
    BY <1>1, <1>2, <1>3 DEF Affordable, Active
  <2>2. Members(status', group', r) = Members(st, group', r)
    BY <1>5 DEF Members
  <2>3. GroupCost(status', group', cost', r) = GroupCost(st, group', cost', r)
    BY <2>2, SameGroupCost
  <2> QED  BY <2>1, <2>3 DEF Exhausted
<1>8. FinishedLetsGo'
  <2> SUFFICES ASSUME NEW r \in RunId, r \in active' \cup waiting',
                      status'[r] \in Terminal
               PROVE  r \in (abortFailed \cup cancelling)'
    BY <1>1, <1>2 DEF FinishedLetsGo, Queued
  <2>1. r \notin starts
    BY <1>1 DEF Terminal
  <2>2. r \notin stops
    BY <1>1, <1>4, <2>1
  <2> QED  BY <1>1, <2>1, <2>2 DEF LetGo
<1> QED  BY <1>6, <1>7, <1>8

\* A handler that drains and changes no budget.
LEMMA DrainKeepsBudget ==
  ASSUME IInv, BudgetInv, up' = TRUE, UNCHANGED <<created, group, cost, cap>>,
         NEW st \in [RunId -> Status], NEW ac \in SUBSET active,
         NEW p \in [RunId -> Place], NEW w \in SUBSET RunId,
         Stored(st) = Stored(status),
         \A r \in RunId : st[r] \in Active => up = TRUE /\ status[r] \in Active,
         \A r \in ac : st[r] # "queued",
         LetGo(st, ac, w),
         Drain(st, ac, p, w)
  PROVE  BudgetInv'
<1>1. CapsAgree(st, group', cap')
  BY DEF BudgetInv, OneCapPerGroup, CapsAgree
<1>2. Affordable(st, group', cost', cap')
  <2>1. CASE up = TRUE
    <3>1. CapsAgree(status, group, cap) /\ Affordable(status, group, cost, cap)
      BY <2>1 DEF BudgetInv, OneCapPerGroup, CapsAgree, SpentGroupStopped,
                  Affordable, Stored, Active
    <3>2. Affordable(st, group, cost, cap)
      BY <3>1, RecordsRewritten
    <3> QED  BY <3>2
  <2>2. CASE up # TRUE
    BY <2>2 DEF Affordable
  <2> QED  BY <2>1, <2>2
<1>3. ac \in SUBSET RunId
  BY DEF IInv, TypeOK
<1>4. OneCapPerGroup' /\ SpentGroupStopped' /\ FinishedLetsGo'
  BY <1>1, <1>2, <1>3, DrainBudget
<1> QED  BY <1>4 DEF BudgetInv, Unpaid, WaitersAlive

\* A step that neither drains nor changes a budget.
LEMMA QuietBudget ==
  ASSUME IInv, BudgetInv, UNCHANGED <<created, group, cost, cap, up>>,
         active' \subseteq active, waiting' \subseteq waiting,
         Stored(status') = Stored(status),
         \A r \in RunId : status'[r] \in Active => status[r] \in Active,
         LetGo(status', active', waiting')
  PROVE  BudgetInv'
<1>1. OneCapPerGroup'
  BY DEF BudgetInv, OneCapPerGroup
<1>2. SpentGroupStopped'
  <2>1. CASE up = TRUE
    <3>1. CapsAgree(status, group, cap) /\ Affordable(status, group, cost, cap)
      BY <2>1 DEF BudgetInv, OneCapPerGroup, CapsAgree, SpentGroupStopped,
                  Affordable, Stored, Active
    <3>2. Affordable(status', group, cost, cap)
      BY <3>1, RecordsRewritten
    <3> QED  BY <3>2 DEF SpentGroupStopped, Affordable, Stored
  <2>2. CASE up # TRUE
    BY <2>2 DEF SpentGroupStopped, IInv, TypeOK
  <2> QED  BY <2>1, <2>2
<1>3. FinishedLetsGo' /\ Unpaid' /\ WaitersAlive'
  BY DEF BudgetInv, FinishedLetsGo, LetGo, Unpaid, WaitersAlive
<1> QED  BY <1>1, <1>2, <1>3 DEF BudgetInv

\* cancel(): a run without a session lets go at once, another one when its abort
\* is acknowledged; until then, and when it is rejected, it is known to be held.
LEMMA CancelBudget ==
  ASSUME IInv, BudgetInv, NEW r \in RunId,
         \/ CancelAtOnce(r) \/ CancelBegins(r) \/ CancelResumes(r)
         \/ CancelRejected(r)
  PROVE  BudgetInv'
<1>1. /\ Updated(status, r, "cancelled") \in [RunId -> Status]
      /\ Stored(Updated(status, r, "cancelled")) = Stored(status)
      /\ \A q \in RunId : Updated(status, r, "cancelled")[q] \in Active =>
                            status[q] \in Active
      /\ \A q \in RunId \ {r} : Updated(status, r, "cancelled")[q] = status[q]
  BY UpdatedStored DEF Terminal, Updated, IInv, TypeOK
<1>2. CASE CancelAtOnce(r) \/ CancelResumes(r)
  <2>1. PICK st \in {status, Updated(status, r, "cancelled")} :
          Drain(st, active \ {r}, pc, waiting \ {r})
    BY <1>2 DEF CancelAtOnce, CancelResumes
  <2>2. /\ up = TRUE /\ up' = TRUE /\ UNCHANGED <<created, group, cost, cap>>
        /\ abortFailed' = abortFailed /\ cancelling \subseteq cancelling' \cup {r}
    BY <1>2, UpWhenBusy DEF CancelAtOnce, CancelResumes, submitted, budget, history,
                            IInv, TypeOK
  <2>3. /\ st \in [RunId -> Status] /\ Stored(st) = Stored(status)
        /\ \A q \in RunId : st[q] \in Active => status[q] \in Active
        /\ \A q \in RunId \ {r} : st[q] = status[q]
    BY <1>1, <2>1 DEF IInv, TypeOK
  <2>4. LetGo(st, active \ {r}, waiting \ {r})
    BY <2>2, <2>3 DEF LetGo, BudgetInv, FinishedLetsGo, IInv, TypeOK
  <2>5. /\ active \ {r} \in SUBSET active /\ pc \in [RunId -> Place]
        /\ waiting \ {r} \in SUBSET RunId
        /\ \A q \in active \ {r} : st[q] # "queued"
    BY <2>3 DEF IInv, TypeOK, ActiveStarted
  <2> QED  BY <2>1, <2>2, <2>3, <2>4, <2>5, DrainKeepsBudget
<1>3. CASE CancelBegins(r)
  <2>1. /\ UNCHANGED <<created, group, cost, cap, up, active, waiting>>
        /\ status' = Updated(status, r, "cancelled")
        /\ cancelling' = cancelling \cup {r} /\ abortFailed' = abortFailed
    BY <1>3 DEF CancelBegins, submitted, budget, history
  <2>2. LetGo(status', active', waiting')
    BY <1>1, <2>1 DEF LetGo, BudgetInv, FinishedLetsGo, IInv, TypeOK
  <2> QED  BY <1>1, <2>1, <2>2, QuietBudget
<1>4. CASE CancelRejected(r)
  <2>1. /\ UNCHANGED <<created, group, cost, cap, up, active, waiting, status>>
        /\ cancelling' = cancelling \ {r} /\ abortFailed' = abortFailed \cup {r}
    BY <1>4 DEF CancelRejected, store
  <2>2. LetGo(status', active', waiting')
    BY <2>1 DEF LetGo, BudgetInv, FinishedLetsGo
  <2> QED  BY <2>1, <2>2, QuietBudget
<1> QED  BY <1>2, <1>3, <1>4

\* extend() doubles what the group may cost and leaves what it has cost.
LEMMA ExtendBudget ==
  ASSUME IInv, BudgetInv, NEW r \in RunId, Extend(r)
  PROVE  BudgetInv'
<1>1. /\ UNCHANGED <<created, group, cost, up, active, waiting, cancelling,
                     abortFailed>>
      /\ up = TRUE /\ r \in active /\ Updatable(status, r)
      /\ cap' = [q \in RunId |->
                   IF /\ group[r] # NoGroup /\ group[q] = group[r]
                      /\ q \in Stored(status) \cup active
                   THEN 2 * cap[r] ELSE cap[q]]
  BY DEF Extend, submitted, history, IInv, TypeOK
<1>2. /\ status[r] \in Active /\ r \in Stored(status)
      /\ status'[r] \in Active /\ \A q \in RunId \ {r} : status'[q] = status[q]
      /\ status' \in [RunId -> Status]
  BY <1>1 DEF Extend, IInv, TypeOK, ActiveStarted, Updatable, Stored, Active, Status
<1>3. Stored(status') = Stored(status)
  BY <1>2 DEF Stored, Active
<1>4. OneCapPerGroup'
  BY <1>1, <1>3 DEF BudgetInv, OneCapPerGroup, Stored
<1>5. SpentGroupStopped'
  <2> SUFFICES ASSUME NEW q \in Stored(status), status'[q] \in Active,
                      Exhausted(status', group', cost', cap', q)
               PROVE  FALSE
    BY <1>3 DEF SpentGroupStopped
  <2>1. q \in RunId /\ status[q] \in Active
    BY <1>2 DEF Stored
  <2>2. ~Exhausted(status, group, cost, cap, q)
    BY <1>1, <2>1 DEF BudgetInv, SpentGroupStopped
  <2>3. Members(status', group', q) = Members(status, group, q)
    BY <1>1, <1>3 DEF Members
  <2>4. GroupCost(status', group', cost', q) = GroupCost(status, group, cost, q)
    BY <1>1, <2>3, SameGroupCost
  <2>5. GroupCost(status, group, cost, q) \in Nat
    BY LowerGroupCost DEF IInv, TypeOK
  <2>6. cap'[q] >= cap[q] /\ cap[q] \in Nat /\ cap'[q] \in Nat
    BY <1>1, <1>2, <2>1 DEF BudgetInv, OneCapPerGroup, IInv, TypeOK
  <2> QED  BY <1>1, <2>2, <2>4, <2>5, <2>6 DEF Exhausted
<1>6. FinishedLetsGo' /\ Unpaid' /\ WaitersAlive'
  <2>1. status'[r] \notin Terminal
    BY <1>2 DEF Active, Terminal
  <2> QED  BY <1>1, <1>2, <2>1
           DEF BudgetInv, FinishedLetsGo, Unpaid, WaitersAlive, IInv, TypeOK
<1> QED  BY <1>4, <1>5, <1>6 DEF BudgetInv

\* finish(), after a cost may have been recorded
LEMMA FinishBudget ==
  ASSUME IInv, BudgetInv, up = TRUE, UNCHANGED <<up, cancelling, abortFailed>>,
         Unpaid', CapsAgree(status, group', cap'),
         Affordable(status, group', cost', cap'),
         NEW r \in RunId, NEW s \in Terminal, NEW p \in [RunId -> Place],
         Finish(r, s, p)
  PROVE  BudgetInv'
<1>1. CASE r \in active
  <2> DEFINE st == Updated(status, r, s)
             ac == active \ {r}
             w  == IF Updatable(status, r) THEN waiting \ {r} ELSE waiting
  <2>1. Drain(st, ac, p, w)
    BY <1>1 DEF Finish
  <2>2. /\ st \in [RunId -> Status] /\ Stored(st) = Stored(status)
        /\ \A q \in RunId : st[q] \in Active => status[q] \in Active
    BY UpdatedStored
  <2>3. CapsAgree(st, group', cap') /\ Affordable(st, group', cost', cap')
    <3> HIDE DEF st
    <3> QED  BY <2>2, RecordsRewritten
  <2>4. /\ ac \in SUBSET RunId /\ w \in SUBSET RunId
        /\ \A q \in ac : st[q] # "queued"
    BY DEF IInv, TypeOK, ActiveStarted, Updated
  <2>5. LetGo(st, ac, w)
    BY DEF LetGo, Updated, BudgetInv, FinishedLetsGo, IInv, TypeOK
  <2> HIDE DEF st, ac, w
  <2>6. OneCapPerGroup' /\ SpentGroupStopped' /\ FinishedLetsGo'
    BY <2>1, <2>2, <2>3, <2>4, <2>5, DrainBudget
  <2> QED  BY <2>6 DEF BudgetInv, WaitersAlive
<1>2. CASE r \notin active
  <2>1. UNCHANGED <<status, active, waiting>>
    BY <1>2 DEF Finish
  <2>2. OneCapPerGroup' /\ SpentGroupStopped'
    BY <2>1 DEF OneCapPerGroup, CapsAgree, SpentGroupStopped, Affordable, Stored
  <2> QED  BY <2>1, <2>2 DEF BudgetInv, FinishedLetsGo, WaitersAlive
<1> QED  BY <1>1, <1>2

\* finish() alone
LEMMA EndBudget ==
  ASSUME IInv, BudgetInv, up = TRUE,
         UNCHANGED <<submitted, budget, up, cancelling, history>>,
         NEW r \in RunId, NEW s \in Terminal, NEW p \in [RunId -> Place],
         Finish(r, s, p)
  PROVE  BudgetInv'
<1>1. UNCHANGED <<created, group, cost, cap, up, cancelling, abortFailed>>
  BY DEF submitted, budget, history
<1>2. CapsAgree(status, group, cap) /\ Affordable(status, group, cost, cap)
  BY DEF BudgetInv, OneCapPerGroup, CapsAgree, SpentGroupStopped, Affordable,
         Stored, Active
<1>3. Unpaid'
  BY <1>1 DEF BudgetInv, Unpaid
<1> QED  BY <1>1, <1>2, <1>3, FinishBudget

\* The coroutine, the prompt and the timers
LEMMA RunBudget ==
  ASSUME IInv, BudgetInv, NEW r \in RunId,
         \/ Coroutine(r) \/ Prompt(r) \/ Deadline(r) \/ KeepAliveFails(r)
         \/ \E s \in {"completed", "failed"} : AgentEnd(r, s)
  PROVE  BudgetInv'
<1> DEFINE done == [pc EXCEPT ![r] = "done"]
<1>1. /\ pc \in [RunId -> Place] /\ done \in [RunId -> Place]
      /\ "failed" \in Terminal /\ "completed" \in Terminal
  BY DEF IInv, TypeOK, Place, Terminal
<1>2. up = TRUE
  BY UpWhenBusy DEF Coroutine, Prompt, Deadline, KeepAliveFails, AgentEnd, Trusted,
     TrustRefused, SessionStarted, StartFails, SettingsApplied, SettingsRejected,
     PromptBegins, PromptResolved, PromptRejected, Listening
<1>3. CASE /\ \E s \in Terminal, p \in {pc, done} : Finish(r, s, p)
           /\ UNCHANGED <<submitted, budget, up, cancelling, history>>
  <2> HIDE DEF done
  <2> QED  BY <1>1, <1>2, <1>3, EndBudget
<1>4. CASE \/ Trusted(r) \/ SessionStarted(r) \/ SettingsApplied(r)
           \/ PromptBegins(r) \/ (Deadline(r) /\ r \notin active)
  <2>1. /\ UNCHANGED <<created, group, cost, cap, up, active, waiting, cancelling,
                       abortFailed>>
        /\ \/ status' = status
           \/ r \in active /\ status' = Updated(status, r, "running")
    BY <1>4 DEF Trusted, SessionStarted, SettingsApplied, PromptBegins, Deadline,
                store, submitted, budget, history
  <2>2. /\ Stored(status') = Stored(status)
        /\ \A q \in RunId : status'[q] \in Active => status[q] \in Active
        /\ \A q \in RunId : status'[q] \in Terminal => status'[q] = status[q]
    BY <2>1 DEF Updated, Updatable, Stored, ActiveStarted, IInv, TypeOK, Active,
                Terminal
  <2>3. LetGo(status', active', waiting')
    BY <2>1, <2>2 DEF LetGo, BudgetInv, FinishedLetsGo, IInv, TypeOK
  <2> QED  BY <2>1, <2>2, <2>3, QuietBudget
<1>5. CASE \/ TrustRefused(r) \/ StartFails(r) \/ SettingsRejected(r)
           \/ PromptRejected(r) \/ PromptResolved(r)
  <2>1. Fails(r) \/ PromptResolved(r)
    BY <1>5 DEF TrustRefused, StartFails, SettingsRejected, PromptRejected
  <2>2. UNCHANGED <<submitted, budget, up, cancelling, history>>
    BY <2>1 DEF Fails, PromptResolved, Returns
  <2>3. Finish(r, "failed", done) \/ Finish(r, "completed", done)
    BY <2>1 DEF Fails, PromptResolved
  <2> HIDE DEF done
  <2> QED  BY <1>1, <1>3, <2>2, <2>3
<1>6. CASE \/ \E s \in {"completed", "failed"} : AgentEnd(r, s)
           \/ (Deadline(r) /\ r \in active) \/ KeepAliveFails(r)
  <2>1. UNCHANGED <<submitted, budget, up, cancelling, history>>
    BY <1>6 DEF AgentEnd, Deadline, KeepAliveFails
  <2>2. Finish(r, "failed", pc) \/ Finish(r, "completed", pc)
    BY <1>6 DEF AgentEnd, Deadline, KeepAliveFails
  <2> HIDE DEF done
  <2> QED  BY <1>1, <1>3, <2>1, <2>2
<1> QED  BY <1>4, <1>5, <1>6 DEF Coroutine, Prompt

\* Dialogs, and a session closed from outside
LEMMA DialogBudget ==
  ASSUME IInv, BudgetInv, NEW r \in RunId,
         \/ \E d \in Dialogs : DialogOpened(r, d) \/ DialogClosed(r, d)
         \/ SessionCloses(r)
  PROVE  BudgetInv'
<1>1. /\ UNCHANGED <<created, group, cost, cap, up, active, waiting, cancelling,
                     abortFailed>>
      /\ \/ status' = status
         \/ r \in active /\ \E s \in Active : status' = Updated(status, r, s)
  BY DEF DialogOpened, DialogClosed, SessionCloses, Listening, submitted, budget,
         history, Active
<1>2. /\ Stored(status') = Stored(status)
      /\ \A q \in RunId : status'[q] \in Active => status[q] \in Active
      /\ \A q \in RunId : status'[q] \in Terminal => status'[q] = status[q]
  BY <1>1 DEF Updated, Updatable, Stored, ActiveStarted, IInv, TypeOK, Active,
              Terminal
<1>3. LetGo(status', active', waiting')
  BY <1>1, <1>2 DEF LetGo, BudgetInv, FinishedLetsGo, IInv, TypeOK
<1> QED  BY <1>1, <1>2, <1>3, QuietBudget

\* message_end: if the recorded cost spends the budget the whole group is stopped in
\* the same handler; the other groups have not paid for it.
LEMMA MessageEndBudget ==
  ASSUME IInv, BudgetInv, NEW r \in RunId, NEW c \in TurnCosts, NEW b \in BOOLEAN,
         MessageEnd(r, c, b)
  PROVE  BudgetInv'
<1> DEFINE co  == IF Updatable(status, r) THEN [cost EXCEPT ![r] = @ + c] ELSE cost
           hit == {q \in RunId : Updatable(status, q) /\ group[q] = group[r]}
           st  == [q \in RunId |-> IF q \in hit THEN "failed" ELSE status[q]]
           spent == Exhausted(status, group, co, cap, r)
<1>1. /\ up = TRUE /\ cost' = co
      /\ UNCHANGED <<created, group, limit, cap, up, cancelling, abortFailed>>
      /\ r \in active
  BY UpWhenBusy DEF MessageEnd, Listening, submitted, history
<1>2. \/ spent /\ Drain(st, active \ hit, pc, waiting \ hit)
      \/ ~spent /\ Finish(r, "failed", pc)
      \/ ~spent /\ UNCHANGED <<status, active, waiting>>
  BY DEF MessageEnd
<1>3. CapsAgree(status, group, cap) /\ Affordable(status, group, cost, cap)
  BY <1>1 DEF BudgetInv, OneCapPerGroup, CapsAgree, SpentGroupStopped, Affordable,
              Stored, Active
<1>4. Unpaid'
  <2>1. Updatable(status, r) => ~(r > created)
    BY DEF IInv, Numbered, Updatable, Active
  <2> QED  BY <1>1, <2>1 DEF BudgetInv, Unpaid, IInv, TypeOK
<1>5. ASSUME NEW q \in RunId, status[q] \in Active, group[q] # group[r]
      PROVE  ~Exhausted(status, group, co, cap, q)
  <2>1. \A x \in Members(status, group, q) : co[x] = cost[x]
    BY <1>5 DEF Members, Stored, IInv, TypeOK
  <2>2. GroupCost(status, group, co, q) = GroupCost(status, group, cost, q)
    <3> HIDE DEF co
    <3> QED  BY <2>1, SameGroupCost
  <2>3. ~Exhausted(status, group, cost, cap, q)
    BY <1>3, <1>5 DEF Affordable
  <2> QED  BY <2>2, <2>3 DEF Exhausted
<1>6. ASSUME ~spent  PROVE Affordable(status, group, co, cap)
  <2> SUFFICES ASSUME NEW q \in RunId, status[q] \in Active, group[q] = group[r]
               PROVE  ~Exhausted(status, group, co, cap, q)
    BY <1>5 DEF Affordable
  <2>1. CASE Updatable(status, r)
    <3>1. q \in Stored(status) /\ r \in Stored(status)
      BY <2>1 DEF Stored, Updatable, Active
    <3> HIDE DEF co
    <3> QED  BY <1>3, <1>6, <3>1, ExhaustedTogether
  <2>2. CASE ~Updatable(status, r)
    BY <1>3, <2>2 DEF Affordable
  <2> QED  BY <2>1, <2>2
<1>7. CASE spent /\ Drain(st, active \ hit, pc, waiting \ hit)
  <2>1. /\ st \in [RunId -> Status] /\ Stored(st) = Stored(status)
        /\ \A q \in RunId : st[q] \in Active =>
             status[q] \in Active /\ group[q] # group[r]
        /\ \A q \in RunId \ hit : st[q] = status[q]
    BY DEF IInv, TypeOK, Stored, Updatable, Status, Active, Terminal
  <2>2. /\ active \ hit \in SUBSET RunId /\ waiting \ hit \in SUBSET RunId
        /\ pc \in [RunId -> Place]
        /\ \A q \in active \ hit : st[q] # "queued"
    BY DEF IInv, TypeOK, ActiveStarted
  <2>3. LetGo(st, active \ hit, waiting \ hit)
    BY <1>1, <2>1 DEF LetGo, BudgetInv, FinishedLetsGo, IInv, TypeOK
  <2> HIDE DEF st, hit, co
  <2>4. CapsAgree(st, group, cap)
    BY <1>3, <2>1 DEF CapsAgree
  <2>5. Affordable(st, group, co, cap)
    <3> SUFFICES ASSUME NEW q \in RunId, st[q] \in Active
                 PROVE  ~Exhausted(st, group, co, cap, q)
      BY DEF Affordable
    <3>1. ~Exhausted(status, group, co, cap, q)
      BY <1>5, <2>1
    <3>2. Members(st, group, q) = Members(status, group, q)
      BY <2>1 DEF Members
    <3>3. GroupCost(st, group, co, q) = GroupCost(status, group, co, q)
      BY <3>2, SameGroupCost
    <3> QED  BY <3>1, <3>3 DEF Exhausted
  <2>6. CapsAgree(st, group', cap') /\ Affordable(st, group', cost', cap')
    BY <1>1, <2>4, <2>5
  <2>7. OneCapPerGroup' /\ SpentGroupStopped' /\ FinishedLetsGo'
    BY <1>7, <2>1, <2>2, <2>3, <2>6, DrainBudget
  <2> QED  BY <1>1, <1>4, <2>7 DEF BudgetInv, WaitersAlive
<1>8. CASE ~spent /\ (Finish(r, "failed", pc) \/ UNCHANGED <<status, active, waiting>>)
  <2>1. Affordable(status, group, co, cap)
    BY <1>6, <1>8
  <2> HIDE DEF co
  <2>2. CapsAgree(status, group', cap') /\ Affordable(status, group', cost', cap')
    BY <1>1, <1>3, <2>1
  <2>3. "failed" \in Terminal /\ pc \in [RunId -> Place]
    BY DEF Terminal, IInv, TypeOK
  <2>4. CASE Finish(r, "failed", pc)
    BY <1>1, <1>4, <2>2, <2>3, <2>4, FinishBudget
  <2>5. CASE UNCHANGED <<status, active, waiting>>
    <3>1. OneCapPerGroup' /\ SpentGroupStopped'
      BY <2>2, <2>5 DEF OneCapPerGroup, CapsAgree, SpentGroupStopped, Affordable,
                        Stored
    <3> QED  BY <1>1, <1>4, <2>5, <3>1
             DEF BudgetInv, FinishedLetsGo, WaitersAlive
  <2> QED  BY <1>8, <2>4, <2>5
<1> QED  BY <1>2, <1>7, <1>8

\* createQueuedRun: the new record has cost nothing, and one that falls off the end of
\* the store only lowers what its group has cost.
LEMMA CreateBudget ==
  ASSUME IInv, BudgetInv, NEW g \in Groups \cup {NoGroup}, NEW noDeadline,
         NEW wait \in BOOLEAN, Create(g, noDeadline, wait)
  PROVE  BudgetInv'
<1> DEFINE n   == created + 1
           kin == {q \in Stored(status) : g # NoGroup /\ group[q] = g}
           oldest == Min(Stored(status))
           overflow == Cardinality(Stored(status)) >= MaxRuns
           st  == [r \in RunId |-> IF r = n THEN "queued"
                                   ELSE IF overflow /\ r = oldest THEN "evicted"
                                   ELSE status[r]]
           w   == IF wait THEN waiting \cup {n} ELSE waiting
<1>1. /\ up = TRUE /\ up' = TRUE /\ n \in RunId /\ created' = n
      /\ UNCHANGED <<cost, cancelling, abortFailed>>
      /\ group' = [group EXCEPT ![n] = g]
      /\ cap' = [cap EXCEPT ![n] = IF g = NoGroup THEN 0
                                   ELSE IF kin = {} THEN InitialCap
                                   ELSE cap[Max(kin)]]
      /\ Drain(st, active, pc, w)
  BY DEF Create, history, IInv, TypeOK
<1>2. created \in Nat /\ status[n] = "none" /\ cost[n] = 0
  BY <1>1, BoundsAssumption DEF IInv, TypeOK, Numbered, BudgetInv, Unpaid, RunId
<1>3. Unpaid'
  BY <1>1, <1>2 DEF BudgetInv, Unpaid, RunId
<1>4. /\ st \in [RunId -> Status] /\ st[n] = "queued"
      /\ \A r \in RunId \ {n} : st[r] \in {status[r], "evicted"}
      /\ \A r \in active \cup waiting : r \in RunId
  BY <1>1 DEF IInv, TypeOK, Status
<1>5. /\ group'[n] = g /\ \A r \in RunId \ {n} : group'[r] = group[r] /\ cap'[r] = cap[r]
      /\ n \notin Stored(status)
  BY <1>1, <1>2 DEF IInv, TypeOK, Stored
<1>6. \A r \in RunId : r \in kin /\ g # NoGroup => cap'[n] = cap[r]
  <2> SUFFICES ASSUME NEW r \in kin, g # NoGroup  PROVE cap'[n] = cap[r]
    OBVIOUS
  <2>1. kin \in SUBSET RunId /\ kin # {}
    BY DEF Stored
  <2>2. Max(kin) \in kin
    <3> HIDE DEF kin
    <3> QED  BY <2>1, NewestExists
  <2>3. cap[Max(kin)] = cap[r]
    BY <2>2 DEF BudgetInv, OneCapPerGroup
  <2>4. cap'[n] = cap[Max(kin)]
    <3> HIDE DEF kin, n
    <3> QED  BY <1>1, <2>1 DEF IInv, TypeOK
  <2> QED  BY <2>3, <2>4
<1>7. w \in SUBSET RunId /\ pc \in [RunId -> Place] /\ active \in SUBSET RunId
  BY <1>1 DEF IInv, TypeOK
<1>8. \A r \in active : st[r] # "queued"
  BY <1>2, <1>4 DEF IInv, TypeOK, ActiveStarted
<1>9. LetGo(st, active, w)
  BY <1>1, <1>4 DEF LetGo, BudgetInv, FinishedLetsGo, Terminal
<1> HIDE DEF st, w, n
<1>10. \A r \in Stored(st) : r \in RunId /\ (r # n => r \in Stored(status))
  BY <1>4 DEF Stored
<1>11. CapsAgree(st, group', cap')
  <2> SUFFICES ASSUME NEW q \in Stored(st), NEW r \in Stored(st),
                      group'[q] = group'[r], group'[q] # NoGroup
               PROVE  cap'[q] = cap'[r]
    BY DEF CapsAgree
  <2>1. \A x \in Stored(st) \ {n} : group'[x] = g /\ g # NoGroup => cap'[n] = cap'[x]
    BY <1>5, <1>6, <1>10
  <2>2. CASE q = n \/ r = n
    BY <1>5, <2>1, <2>2
  <2>3. CASE q # n /\ r # n
    BY <1>5, <1>10, <2>3 DEF BudgetInv, OneCapPerGroup
  <2> QED  BY <2>2, <2>3
<1>12. Affordable(st, group', cost', cap')
  <2> SUFFICES ASSUME NEW r \in RunId, st[r] \in Active,
                      Exhausted(st, group', cost', cap', r)
               PROVE  FALSE
    BY DEF Affordable
  <2>1. r # n /\ status[r] \in Active /\ r \in Stored(status)
    BY <1>4 DEF Active, Stored
  <2>2. ~Exhausted(status, group, cost, cap, r)
    BY <1>1, <2>1 DEF BudgetInv, SpentGroupStopped
  <2>3. \A x \in Members(st, group', r) :
          x \in Members(status, group, r) \/ cost[x] = 0
    BY <1>2, <1>5, <1>10, <2>1 DEF Members
  <2>4. /\ GroupCost(st, group', cost, r) \in Nat
        /\ GroupCost(status, group, cost, r) \in Nat
        /\ GroupCost(st, group', cost, r) <= GroupCost(status, group, cost, r)
    BY <2>3, LowerGroupCost DEF IInv, TypeOK
  <2>5. /\ cap'[r] = cap[r] /\ group'[r] = group[r] /\ cost' = cost /\ cap[r] \in Nat
    BY <1>1, <1>5, <2>1 DEF IInv, TypeOK
  <2> QED  BY <2>2, <2>4, <2>5 DEF Exhausted
<1>13. OneCapPerGroup' /\ SpentGroupStopped' /\ FinishedLetsGo'
  BY <1>1, <1>4, <1>7, <1>8, <1>9, <1>11, <1>12, DrainBudget
<1> QED  BY <1>1, <1>3, <1>13 DEF BudgetInv, WaitersAlive

\* setMaxConcurrency(), the end of the process and start()
LEMMA ServerBudget ==
  ASSUME IInv, BudgetInv,
         (\E m \in 1..MaxLimit : SetMaxConcurrency(m)) \/ Crash \/ Start
  PROVE  BudgetInv'
<1> DEFINE reconciled == [r \in RunId |-> IF status[r] \in Active
                                          THEN "interrupted" ELSE status[r]]
<1>1. CASE \E m \in 1..MaxLimit : SetMaxConcurrency(m)
  <2>1. /\ up = TRUE /\ up' = TRUE
        /\ UNCHANGED <<created, group, cost, cap, cancelling, abortFailed>>
        /\ Drain(status, active, pc, waiting)
    BY <1>1 DEF SetMaxConcurrency, history, IInv, TypeOK
  <2>2. LetGo(status, active, waiting)
    BY <2>1 DEF LetGo, BudgetInv, FinishedLetsGo
  <2>3. /\ status \in [RunId -> Status] /\ active \in SUBSET active
        /\ pc \in [RunId -> Place] /\ waiting \in SUBSET RunId
        /\ \A r \in active : status[r] # "queued"
    BY DEF IInv, TypeOK, ActiveStarted
  <2> QED  BY <2>1, <2>2, <2>3, DrainKeepsBudget
<1>2. CASE Crash
  <2>1. up' = FALSE /\ active' = {} /\ waiting' = {} /\ UNCHANGED store
    BY <1>2 DEF Crash
  <2> QED  BY <2>1 DEF store, BudgetInv, Unpaid, WaitersAlive, OneCapPerGroup,
                       SpentGroupStopped, FinishedLetsGo, Stored
<1>3. CASE Start
  <2>1. /\ up' = TRUE /\ active = {} /\ waiting = {}
        /\ UNCHANGED <<created, group, cost, cap>>
        /\ Drain(reconciled, active, pc, waiting)
    BY <1>3 DEF Start, submitted, budget, IInv, DownIsEmpty, BudgetInv, WaitersAlive
  <2>2. /\ reconciled \in [RunId -> Status] /\ Stored(reconciled) = Stored(status)
        /\ \A r \in RunId : reconciled[r] \notin Active
    BY DEF IInv, TypeOK, Stored, Status, Active, Terminal
  <2> HIDE DEF reconciled
  <2>3. /\ LetGo(reconciled, active, waiting)
        /\ active \in SUBSET active /\ pc \in [RunId -> Place]
        /\ waiting \in SUBSET RunId
    BY <2>1 DEF LetGo, IInv, TypeOK
  <2> QED  BY <2>1, <2>2, <2>3, DrainKeepsBudget
<1> QED  BY <1>1, <1>2, <1>3

LEMMA NextBudget ==
  ASSUME IInv, BudgetInv, Next
  PROVE  BudgetInv'
<1>1. ASSUME NEW g \in GroupChoices, NEW d \in TimeoutChoices, NEW w \in WaitChoices,
             Create(g, d, w)
      PROVE  BudgetInv'
  <2>1. g \in Groups \cup {NoGroup} /\ w \in BOOLEAN
    BY BudgetAssumption, ChoicesAssumption
  <2> QED  BY <1>1, <2>1, CreateBudget
<1>2. ASSUME NEW r \in RunId, Retry(r)  PROVE BudgetInv'
  <2>1. group[r] \in Groups \cup {NoGroup}
    BY DEF IInv, TypeOK
  <2>2. Create(group[r], r \in unlimited, FALSE)
    BY <1>2 DEF Retry
  <2> QED  BY <2>1, <2>2, CreateBudget
<1>3. ASSUME NEW r \in RunId, SessionEvent(r)  PROVE BudgetInv'
  BY <1>3, DialogBudget, RunBudget, MessageEndBudget DEF SessionEvent
<1>4. ASSUME NEW r \in RunId,
             \/ CancelAtOnce(r) \/ CancelBegins(r) \/ CancelResumes(r)
             \/ CancelRejected(r) \/ Extend(r) \/ Coroutine(r) \/ Prompt(r)
             \/ Deadline(r) \/ KeepAliveFails(r)
      PROVE  BudgetInv'
  BY <1>4, CancelBudget, ExtendBudget, RunBudget
<1>5. CASE (\E m \in 1..MaxLimit : SetMaxConcurrency(m)) \/ Crash \/ Start
  BY <1>5, ServerBudget
<1> QED  BY <1>1, <1>2, <1>3, <1>4, <1>5 DEF Next, Request, Enqueue

LEMMA BudgetInvariance == Spec => []BudgetInv
<1>1. Init => BudgetInv
  BY DEF Init, BudgetInv, Unpaid, WaitersAlive, OneCapPerGroup, SpentGroupStopped,
         FinishedLetsGo, Stored
<1>2. IInv /\ BudgetInv /\ [Next]_vars => BudgetInv'
  <2>1. BudgetInv /\ UNCHANGED vars => BudgetInv'
    BY DEF BudgetInv, Unpaid, WaitersAlive, OneCapPerGroup, SpentGroupStopped,
           FinishedLetsGo, vars, store, history
  <2> QED  BY <2>1, NextBudget
<1> QED  BY <1>1, <1>2, Invariance, PTL DEF Spec

-----------------------------------------------------------------------------
\* Theorems

\* Type correctness of the store, of the supervisor's maps and timers and of
\* the coroutines: no handler of agent-run-supervisor.ts leaves a value outside
\* the types of agent-run-types.ts.
THEOREM TypeCorrect == Spec => []TypeOK
BY Invariance, PTL DEF IInv

\* A record that says "running" or "waiting for input" belongs to a run in the
\* active map, whatever was cancelled, failed, evicted or crashed.
THEOREM ActiveRecordsHeld == Spec => []ActiveStatusTracked
BY Invariance, PTL DEF IInv

\* Every handler that frees a slot, queues a run or raises the limit ends in a
\* drain() that leaves no slot idle while a run waits.
THEOREM NoIdleSlot == Spec => []WorkConserving
BY Invariance, PTL DEF IInv

\* A timer armed in execute() is cleared by cleanup(), or belongs to a run that
\* was cancelled while its settings were applied.
THEOREM TimersHeld == Spec => []TimersTracked
BY Invariance, PTL DEF IInv

\* Several dialogs of a run open and close in any order, also while it is extended,
\* cancelled or its session is destroyed: its record asks for input exactly while one
\* of them is open.
THEOREM WaitingMeansDialog == Spec => []DialogStatus
<1>1. Init => DialogInv
  BY DEF Init, DialogInv, DialogsHeard, DialogStatus
<1>2. IInv /\ DialogInv /\ [Next]_vars => DialogInv'
  <2>1. DialogInv /\ UNCHANGED vars => DialogInv'
    BY DEF DialogInv, DialogsHeard, DialogStatus, Listening, vars, store
  <2> QED  BY <2>1, NextDialogs
<1>3. DialogInv => DialogStatus
  BY DEF DialogInv
<1> QED  BY <1>1, <1>2, <1>3, Invariance, PTL DEF Spec

\* A run whose record says completed, failed, cancelled or interrupted holds neither a
\* slot nor a caller of enqueueAndWait, whichever of cancel(), a failure, a deadline or
\* a spent group budget ended it, unless a cancel() still waits for its session or
\* threw on it.
THEOREM EndedRunsLetGo == Spec => []FinishedLetsGo
BY BudgetInvariance, PTL DEF BudgetInv

\* stopExhaustedGroup and extend() keep a shared budget shared: its stored members
\* agree on the cap, and none of them is at work once what they cost together has
\* reached it, though records are added, evicted and retried at any moment.
THEOREM BudgetsAreShared == Spec => []BudgetIsShared
BY BudgetInvariance, PTL DEF BudgetInv, BudgetIsShared

\* updateRun and stopExhaustedGroup never rewrite a terminal record.
THEOREM FinishedStays == Spec => TerminalForGood
<1>1. IInv /\ [Next]_vars =>
        [\A r \in RunId : status[r] \in Terminal =>
           status'[r] \in {status[r], "evicted"}]_vars
  BY NextSteps DEF Steps, EndedKept, Ended
<1> QED  BY <1>1, Invariance, PTL DEF Spec, TerminalForGood

\* drain() starts the oldest queued runs and never more than the limit allows,
\* the limit having been lowered or not.
THEOREM OldestFirst == Spec => StartsInOrderWithinLimit
<1> DEFINE starts == active' \ active
           Ordered == starts # {} =>
                        /\ Cardinality(active') <= limit'
                        /\ \A s \in starts, q \in Queued(status') : s < q
<1>1. ASSUME IInv, Next  PROVE Ordered
  <2>1. Steps
    BY <1>1, NextSteps
  <2> QED  BY <2>1 DEF Steps, Filled, Kept, Died
<1>2. IInv /\ [Next]_vars => [Ordered]_vars
  BY <1>1
<1> QED  BY <1>2, Invariance, PTL DEF Spec, StartsInOrderWithinLimit

\* The supervisor implements the bounded first-come first-served pool: what its
\* handlers do to the queue and the active map is a step of RunPool or nothing.
THEOREM ImplementsPool == Spec => PoolSpec
<1>1. Init => Pool!Init
  BY DEF Init, Pool!Init, Queued
<1>2. ASSUME IInv, Next  PROVE Pool!Next
  <2>1. Steps
    BY <1>2, NextSteps
  <2>2. Queued(status) \cap active = {} /\ Queued(status') \cap active' = {}
    <3>1. ActiveStarted /\ ActiveStarted'
      BY <1>2, <2>1 DEF IInv, Steps
    <3> QED  BY <3>1 DEF ActiveStarted, Queued
  <2>3. (IF up' THEN limit' ELSE 0) \in Nat
    BY <2>1, BoundsAssumption DEF Steps, TypeOK
  <2>4. \A s \in active' \ active, q \in Queued(status') : s < q
    BY <2>1 DEF Steps, Filled, Kept, Died
  <2>5. active' \ active # {} =>
          Cardinality(active') <= (IF up' THEN limit' ELSE 0)
    BY <2>1 DEF Steps, Filled, Kept, Died
  <2>6. Queued(status') # {} =>
          Cardinality(active') >= (IF up' THEN limit' ELSE 0)
    <3>1. CASE up' = TRUE
      <4>1. IInv'
        BY <1>2, <2>1, StepsKeepIInv
      <4> QED  BY <3>1, <4>1 DEF IInv, WorkConserving
    <3>2. CASE up' = FALSE
      BY <2>1, <3>2, RunsAreFinite DEF Steps, TypeOK
    <3> QED  BY <2>1, <3>1, <3>2 DEF Steps, TypeOK
  <2>7. Pool!Cardinality(active') = Cardinality(active')
    BY DEF Pool!Cardinality, Cardinality, Pool!IsFiniteSet, IsFiniteSet
  <2> DEFINE q     == Queued(status)
             q1    == Queued(status')
             gone  == (q \cup active) \ (q1 \cup active')
             new   == (q1 \cup active') \ (q \cup active)
             start == active' \ active
  <2>8. /\ new \cap (q \cup active) = {}
        /\ start \subseteq (q \cup new) \ gone
        /\ q1 = ((q \cup new) \ gone) \ start
        /\ active' = (active \ gone) \cup start
    <3> HIDE DEF q, q1
    <3>1. q1 \cap active = {}
      BY <2>1, <2>2 DEF q1, Steps, Filled, Kept, Died
    <3>2. q \cap active = {} /\ q1 \cap active' = {}
      BY <2>2 DEF q, q1
    <3> QED  BY <3>1, <3>2
  <2>9. Pool!Step(gone, new, start)
    BY <2>4, <2>5, <2>6, <2>7, <2>8 DEF Pool!Step
  <2> QED  BY <2>3, <2>9 DEF Pool!Next
<1>3. UNCHANGED vars => UNCHANGED Pool!vars
  BY DEF vars, store, Pool!vars, Queued
<1>4. IInv /\ [Next]_vars => [Pool!Next]_(Pool!vars)
  BY <1>2, <1>3
<1> QED  BY <1>1, <1>4, Invariance, PTL DEF Spec, PoolSpec, Pool!Spec

=============================================================================
