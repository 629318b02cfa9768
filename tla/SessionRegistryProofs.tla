------------------------ MODULE SessionRegistryProofs ------------------------
(***************************************************************************)
(* Proofs about the ownership of sessions, for any sessions, any number of   *)
(* runtimes and of replacements.                                             *)
(***************************************************************************)
EXTENDS SessionRegistry, TLAPS

\* A runtime that is being started is under the lock of its session, does
\* nothing else and is registered nowhere.
Started ==
  /\ \A x \in Session : locks[x] # 0 => wrappers[locks[x]].state = "starting"
  /\ \A w \in DOMAIN wrappers : wrappers[w].state = "starting" =>
       /\ wrappers[w].op = "none" /\ wrappers[w].rec = "none"
       /\ \A x \in Session : registry[x] # w

\* Whatever can go back knows where to, and a switch knows its target.
Prepared(r) ==
  /\ r.state = "failed" \/ r.rec # "none" => r.saved # None
  /\ r.op = "asked" => r.target # None

\* Between the change of its session and that of its entry, and after a recovery
\* that failed, a runtime may be registered under a session it does not serve.
Routable(r) ==
  ~r.lost /\ r.op \in {"none", "asked", "bound"} /\ r.rec \in {"none", "restoring"}

Routed ==
  \A w \in DOMAIN wrappers :
    Routable(wrappers[w]) => \A x \in Session : registry[x] = w => wrappers[w].sess = x

IInv == /\ wrappers \in Seq(Wrapper)
        /\ \A w \in DOMAIN wrappers : Prepared(wrappers[w])
        /\ TypeOK /\ Started /\ Routed

-----------------------------------------------------------------------------
\* The fields of one wrapper that belong together.
Consistent(r) ==
  /\ (r.op # "none") = (r.pending # None)
  /\ r.pending # None => r.saved = r.pending

\* 0 is no wrapper, and an assignment to one leaves the others alone.
LEMMA WrapperSet ==
  ASSUME wrappers \in Seq(Wrapper), NEW w \in DOMAIN wrappers, NEW r \in Wrapper,
         Set(w, r)
  PROVE  /\ wrappers' \in Seq(Wrapper)
         /\ DOMAIN wrappers' = DOMAIN wrappers
         /\ wrappers'[w] = r
         /\ \A v \in DOMAIN wrappers \ {w} : wrappers'[v] = wrappers[v]
BY DEF Set

LEMMA WrapperIds ==
  ASSUME wrappers \in Seq(Wrapper)
  PROVE  /\ 0 \notin DOMAIN wrappers
         /\ \A w \in DOMAIN wrappers : wrappers[w] \in Wrapper
OBVIOUS

\* A step of a runtime that is not being started keeps the invariant if its
\* record stays consistent and it is registered for its session, or keeps both.
LEMMA StepOfOne ==
  ASSUME IInv, NEW w \in DOMAIN wrappers, NEW r \in Wrapper, Set(w, r),
         wrappers[w].state # "starting", r.state # "starting",
         Consistent(r), Prepared(r),
         UNCHANGED locks, made' \in SUBSET Session,
         \/ registry' = Registered(w, r.sess)
         \/ /\ registry' = registry
            /\ Routable(r) => Routable(wrappers[w]) /\ r.sess = wrappers[w].sess
  PROVE  IInv'
<1>1. /\ wrappers' \in Seq(Wrapper)
      /\ DOMAIN wrappers' = DOMAIN wrappers
      /\ wrappers'[w] = r
      /\ \A v \in DOMAIN wrappers \ {w} : wrappers'[v] = wrappers[v]
  BY WrapperSet DEF IInv
<1>2. 0 \notin DOMAIN wrappers /\ \A v \in DOMAIN wrappers : wrappers'[v] \in Wrapper
  BY <1>1, WrapperIds DEF IInv
<1>3. \A x \in Session : locks[x] # w
  BY DEF IInv, Started, TypeOK
<1>4. /\ registry' \in [Session -> {0} \cup DOMAIN wrappers]
      /\ \A x \in Session : registry'[x] \in {0, w, registry[x]}
      /\ \A x \in Session : registry'[x] = w /\ registry' # registry => x = r.sess
  BY DEF IInv, TypeOK, Registered
<1>5. TypeOK'
  <2>1. \A v \in DOMAIN wrappers : Consistent(wrappers'[v])
    BY <1>1 DEF IInv, TypeOK, Consistent
  <2>2. \A x \in Session : locks[x] # 0 => wrappers'[locks[x]].sess = x
    BY <1>1, <1>3 DEF IInv, TypeOK
  <2> QED  BY <1>1, <1>2, <1>4, <2>1, <2>2 DEF IInv, TypeOK, Consistent
<1>6. Started'
  <2>1. \A x \in Session : locks[x] # 0 => wrappers'[locks[x]].state = "starting"
    BY <1>1, <1>3 DEF IInv, Started, TypeOK
  <2>2. ASSUME NEW v \in DOMAIN wrappers, wrappers'[v].state = "starting"
        PROVE  v # w /\ wrappers'[v] = wrappers[v]
    BY <1>1, <2>2
  <2>3. \A v \in DOMAIN wrappers : wrappers'[v].state = "starting" =>
          /\ wrappers'[v].op = "none" /\ wrappers'[v].rec = "none"
          /\ \A x \in Session : registry'[x] # v
    BY <1>2, <1>4, <2>2 DEF IInv, Started
  <2> QED  BY <1>1, <2>1, <2>3 DEF Started
<1>7. Routed'
  <2>1. ASSUME NEW v \in DOMAIN wrappers, Routable(wrappers'[v]),
               NEW x \in Session, registry'[x] = v
        PROVE  wrappers'[v].sess = x
    <3>1. CASE v # w
      BY <1>1, <1>2, <1>4, <2>1, <3>1 DEF IInv, Routed
    <3>2. CASE v = w /\ registry' # registry
      BY <1>1, <1>4, <2>1, <3>2
    <3>3. CASE v = w /\ registry' = registry
      <4>1. CASE Routable(r) => Routable(wrappers[w]) /\ r.sess = wrappers[w].sess
        BY <1>1, <2>1, <3>3, <4>1 DEF IInv, Routed
      <4>2. CASE registry' = Registered(w, r.sess)
        BY <1>1, <2>1, <3>3, <4>2 DEF Registered
      <4> QED  BY <4>1, <4>2
    <3> QED  BY <3>1, <3>2, <3>3
  <2> QED  BY <1>1, <2>1 DEF Routed
<1>8. \A v \in DOMAIN wrappers' : Prepared(wrappers'[v])
  BY <1>1 DEF IInv
<1> QED  BY <1>1, <1>5, <1>6, <1>7, <1>8 DEF IInv

\* Starts and ends: the registry or the locks change with the record.
LEMMA StartBeginsKeeps ==
  ASSUME RegistryAssumption, IInv, NEW x \in Session, StartBegins(x)
  PROVE  IInv'
<1> DEFINE n == Len(wrappers) + 1
           r == [alive |-> TRUE, sess |-> x, state |-> "starting", hooks |-> TRUE,
                 op |-> "none", opHooks |-> TRUE, checked |-> None, target |-> None, pending |-> None,
                 rec |-> "none", saved |-> None, lost |-> FALSE]
<1>1. r \in Wrapper
  BY DEF Wrapper, Stage
<1>2. wrappers' = Append(wrappers, r) /\ locks' = [locks EXCEPT ![x] = n]
      /\ UNCHANGED <<registry, made>>
  BY DEF StartBegins
<1>3. r.sess = x /\ Consistent(r) /\ Prepared(r) /\ r.state = "starting"
      /\ r.op = "none" /\ r.rec = "none"
  BY DEF Consistent, Prepared
<1> HIDE DEF r
<1>4. /\ wrappers' \in Seq(Wrapper)
      /\ DOMAIN wrappers' = DOMAIN wrappers \cup {n}
      /\ n \notin DOMAIN wrappers /\ wrappers'[n] = r
      /\ \A v \in DOMAIN wrappers : wrappers'[v] = wrappers[v]
  BY <1>1, <1>2 DEF IInv
<1> HIDE DEF n
<1>5. /\ 0 \notin DOMAIN wrappers'
      /\ \A v \in DOMAIN wrappers' : wrappers'[v] \in Wrapper
      /\ \A y \in Session : registry[y] # n /\ (locks[y] # 0 => locks[y] \in DOMAIN wrappers)
  BY <1>4, WrapperIds DEF IInv, TypeOK, n
<1>6. TypeOK'
  <2>1. \A v \in DOMAIN wrappers' : Consistent(wrappers'[v])
    BY <1>3, <1>4 DEF IInv, TypeOK, Consistent
  <2>2. \A y \in Session : locks'[y] # 0 => wrappers'[locks'[y]].sess = y
    BY <1>2, <1>3, <1>4, <1>5 DEF IInv, TypeOK
  <2>3. registry' \in [Session -> {0} \cup DOMAIN wrappers']
        /\ locks' \in [Session -> {0} \cup DOMAIN wrappers']
    BY <1>2, <1>4 DEF IInv, TypeOK
  <2> QED  BY <1>2, <1>5, <2>1, <2>2, <2>3 DEF IInv, TypeOK, Consistent
<1>7. Started'
  <2>1. \A y \in Session : locks'[y] # 0 => wrappers'[locks'[y]].state = "starting"
    BY <1>2, <1>3, <1>4, <1>5 DEF IInv, TypeOK, Started
  <2> QED  BY <1>2, <1>3, <1>4, <1>5, <2>1 DEF IInv, Started
<1>8. Routed'
  BY <1>2, <1>4, <1>5 DEF IInv, Routed
<1>9. \A v \in DOMAIN wrappers' : Prepared(wrappers'[v])
  BY <1>3, <1>4 DEF IInv
<1> QED  BY <1>4, <1>6, <1>7, <1>8, <1>9 DEF IInv

\* The locks that are held by others are of other wrappers.
LEMMA LockOfOne ==
  ASSUME IInv, NEW x \in Session, locks[x] # 0
  PROVE  /\ locks[x] \in DOMAIN wrappers /\ wrappers[locks[x]].state = "starting"
         /\ wrappers[locks[x]].sess = x
         /\ \A y \in Session \ {x} : locks[y] # locks[x]
BY DEF IInv, TypeOK, Started

LEMMA StartEndsKeeps ==
  ASSUME IInv, NEW x \in Session, StartEnds(x)
  PROVE  IInv'
<1> DEFINE w == locks[x]
           r == [wrappers[w] EXCEPT !.state = "ready"]
<1>1. /\ w # 0 /\ w \in DOMAIN wrappers /\ wrappers[w].state = "starting"
      /\ wrappers[w].sess = x /\ wrappers[w] \in Wrapper
      /\ \A y \in Session \ {x} : locks[y] # w
  BY LockOfOne, WrapperIds DEF StartEnds, IInv
<1>2. /\ Set(w, r) /\ registry' = [registry EXCEPT ![x] = w]
      /\ locks' = [locks EXCEPT ![x] = 0] /\ made' = made
  BY DEF StartEnds
<1>3. r \in Wrapper /\ Consistent(r) /\ Prepared(r) /\ r.state # "starting" /\ r.sess = x
  BY <1>1 DEF Wrapper, Consistent, Prepared, IInv, TypeOK, Started
<1> HIDE DEF r, w
<1>4. /\ wrappers' \in Seq(Wrapper) /\ DOMAIN wrappers' = DOMAIN wrappers
      /\ wrappers'[w] = r
      /\ \A v \in DOMAIN wrappers \ {w} : wrappers'[v] = wrappers[v]
      /\ \A v \in DOMAIN wrappers : wrappers'[v] \in Wrapper
  BY <1>1, <1>2, <1>3, WrapperSet, WrapperIds DEF IInv
<1>5. \A y \in Session : registry'[y] = IF y = x THEN w ELSE registry[y]
  BY <1>2 DEF IInv, TypeOK
<1>6. \A y \in Session : locks'[y] = IF y = x THEN 0 ELSE locks[y]
  BY <1>2 DEF IInv, TypeOK
<1>7. TypeOK'
  <2>1. \A v \in DOMAIN wrappers : Consistent(wrappers'[v])
    BY <1>3, <1>4 DEF IInv, TypeOK, Consistent
  <2>2. \A y \in Session : locks'[y] # 0 => wrappers'[locks'[y]].sess = y
    BY <1>1, <1>4, <1>6 DEF IInv, TypeOK
  <2>3. registry' \in [Session -> {0} \cup DOMAIN wrappers']
        /\ locks' \in [Session -> {0} \cup DOMAIN wrappers']
    BY <1>1, <1>2, <1>4 DEF IInv, TypeOK
  <2> QED  BY <1>2, <1>4, <2>1, <2>2, <2>3 DEF IInv, TypeOK, Consistent
<1>8. Started'
  <2>1. \A y \in Session : locks'[y] # 0 => wrappers'[locks'[y]].state = "starting"
    BY <1>1, <1>4, <1>6 DEF IInv, TypeOK, Started
  <2>2. \A v \in DOMAIN wrappers : wrappers'[v].state = "starting" =>
          v # w /\ wrappers'[v] = wrappers[v]
    BY <1>3, <1>4
  <2> QED  BY <1>4, <1>5, <2>1, <2>2 DEF IInv, Started
<1>9. Routed'
  <2>1. \A y \in Session : registry[y] # w
    BY <1>1 DEF IInv, Started
  <2> QED  BY <1>3, <1>4, <1>5, <2>1 DEF IInv, Routed
<1>10. \A v \in DOMAIN wrappers' : Prepared(wrappers'[v])
  BY <1>3, <1>4 DEF IInv
<1> QED  BY <1>4, <1>7, <1>8, <1>9, <1>10 DEF IInv

LEMMA StartFailsKeeps ==
  ASSUME IInv, NEW x \in Session, StartFails(x)
  PROVE  IInv'
<1> DEFINE w == locks[x]
           r == [wrappers[w] EXCEPT !.alive = FALSE]
<1>1. /\ w # 0 /\ w \in DOMAIN wrappers /\ wrappers[w].state = "starting"
      /\ wrappers[w] \in Wrapper
      /\ \A y \in Session \ {x} : locks[y] # w
  BY LockOfOne, WrapperIds DEF StartFails, IInv
<1>2. Set(w, r) /\ locks' = [locks EXCEPT ![x] = 0] /\ UNCHANGED <<registry, made>>
  BY DEF StartFails
<1>3. /\ r \in Wrapper /\ Consistent(r) /\ Prepared(r) /\ r.state = "starting"
      /\ r.op = "none" /\ r.rec = "none"
  BY <1>1 DEF Wrapper, Consistent, Prepared, IInv, TypeOK, Started
<1> HIDE DEF r, w
<1>4. /\ wrappers' \in Seq(Wrapper) /\ DOMAIN wrappers' = DOMAIN wrappers
      /\ wrappers'[w] = r
      /\ \A v \in DOMAIN wrappers \ {w} : wrappers'[v] = wrappers[v]
      /\ \A v \in DOMAIN wrappers : wrappers'[v] \in Wrapper
  BY <1>1, <1>2, <1>3, WrapperSet, WrapperIds DEF IInv
<1>5. \A y \in Session : locks'[y] = IF y = x THEN 0 ELSE locks[y]
  BY <1>2 DEF IInv, TypeOK
<1>6. TypeOK'
  <2>1. \A v \in DOMAIN wrappers : Consistent(wrappers'[v])
    BY <1>3, <1>4 DEF IInv, TypeOK, Consistent
  <2>2. \A y \in Session : locks'[y] # 0 => wrappers'[locks'[y]].sess = y
    BY <1>1, <1>4, <1>5 DEF IInv, TypeOK
  <2>3. locks' \in [Session -> {0} \cup DOMAIN wrappers']
    BY <1>1, <1>2, <1>4 DEF IInv, TypeOK
  <2> QED  BY <1>2, <1>4, <2>1, <2>2, <2>3 DEF IInv, TypeOK, Consistent
<1>7. \A y \in Session : registry[y] # w
  BY <1>1 DEF IInv, Started
<1>8. Started'
  <2>1. \A y \in Session : locks'[y] # 0 => wrappers'[locks'[y]].state = "starting"
    BY <1>1, <1>4, <1>5 DEF IInv, TypeOK, Started
  <2> QED  BY <1>2, <1>3, <1>4, <1>7, <2>1 DEF IInv, Started
<1>9. Routed'
  BY <1>2, <1>4, <1>7 DEF IInv, Routed
<1>10. \A v \in DOMAIN wrappers' : Prepared(wrappers'[v])
  BY <1>3, <1>4 DEF IInv
<1> QED  BY <1>4, <1>6, <1>8, <1>9, <1>10 DEF IInv

LEMMA DestroyKeeps ==
  ASSUME IInv, NEW w \in DOMAIN wrappers, Destroy(w)
  PROVE  IInv'
<1> DEFINE r == [wrappers[w] EXCEPT !.alive = FALSE]
<1>1. wrappers[w] \in Wrapper /\ wrappers[w].state # "starting"
  BY WrapperIds DEF IInv, Destroy
<1>2. Set(w, r) /\ UNCHANGED <<locks, made>>
      /\ registry' = [x \in Session |-> IF registry[x] = w THEN 0 ELSE registry[x]]
  BY DEF Destroy
<1>3. /\ r \in Wrapper /\ Consistent(r) /\ Prepared(r) /\ r.state # "starting"
  BY <1>1 DEF Wrapper, Consistent, Prepared, IInv, TypeOK
<1> HIDE DEF r
<1>4. /\ wrappers' \in Seq(Wrapper) /\ DOMAIN wrappers' = DOMAIN wrappers
      /\ wrappers'[w] = r
      /\ \A v \in DOMAIN wrappers \ {w} : wrappers'[v] = wrappers[v]
      /\ \A v \in DOMAIN wrappers : wrappers'[v] \in Wrapper
      /\ 0 \notin DOMAIN wrappers
  BY <1>1, <1>2, <1>3, WrapperSet, WrapperIds DEF IInv
<1>5. \A x \in Session : locks[x] # w
  BY <1>1 DEF IInv, Started, TypeOK
<1>6. TypeOK'
  <2>1. \A v \in DOMAIN wrappers : Consistent(wrappers'[v])
    BY <1>3, <1>4 DEF IInv, TypeOK, Consistent
  <2>2. \A y \in Session : locks[y] # 0 => wrappers'[locks[y]].sess = y
    BY <1>4, <1>5 DEF IInv, TypeOK
  <2>3. registry' \in [Session -> {0} \cup DOMAIN wrappers']
    BY <1>2, <1>4 DEF IInv, TypeOK
  <2> QED  BY <1>2, <1>4, <2>1, <2>2, <2>3 DEF IInv, TypeOK, Consistent
<1>7. \A x \in Session : registry'[x] \in {0, registry[x]} /\ registry'[x] # w
  BY <1>2, <1>4
<1>8. Started'
  <2>1. \A y \in Session : locks[y] # 0 => wrappers'[locks[y]].state = "starting"
    BY <1>4, <1>5 DEF IInv, TypeOK, Started
  <2>2. \A v \in DOMAIN wrappers : wrappers'[v].state = "starting" =>
          v # w /\ wrappers'[v] = wrappers[v]
    BY <1>3, <1>4
  <2> QED  BY <1>2, <1>4, <1>7, <2>1, <2>2 DEF IInv, Started
<1>9. Routed'
  BY <1>4, <1>7 DEF IInv, Routed
<1>10. \A v \in DOMAIN wrappers' : Prepared(wrappers'[v])
  BY <1>3, <1>4 DEF IInv
<1> QED  BY <1>4, <1>6, <1>8, <1>9, <1>10 DEF IInv

-----------------------------------------------------------------------------
LEMMA IInvHolds == ASSUME RegistryAssumption PROVE Spec => []IInv
<1>1. Init => IInv
  BY DEF Init, IInv, TypeOK, Started, Routed
<1>2. IInv /\ [Next]_vars => IInv'
  <2> SUFFICES ASSUME IInv, [Next]_vars  PROVE IInv'
    OBVIOUS
  <2>a. /\ \A w \in DOMAIN wrappers : /\ wrappers[w] \in Wrapper
                                      /\ Consistent(wrappers[w]) /\ Prepared(wrappers[w])
                                      /\ wrappers[w].state = "starting" =>
                                           wrappers[w].op = "none" /\ wrappers[w].rec = "none"
        /\ made \in SUBSET Session /\ None \notin Session
    BY WrapperIds DEF RegistryAssumption, IInv, TypeOK, Consistent, Started
  <2>1. ASSUME NEW x \in Session, StartBegins(x) \/ StartEnds(x) \/ StartFails(x)
        PROVE  IInv'
    BY <2>1, StartBeginsKeeps, StartEndsKeeps, StartFailsKeeps
  <2>2. ASSUME NEW w \in DOMAIN wrappers, Destroy(w)  PROVE IInv'
    BY <2>2, DestroyKeeps
  <2>3. ASSUME NEW w \in DOMAIN wrappers, NEW x \in Session, CheckTarget(w, x)  PROVE IInv'
    <3> DEFINE r == [wrappers[w] EXCEPT !.checked = x]
    <3>1. wrappers[w] \in Wrapper /\ Consistent(wrappers[w]) /\ Prepared(wrappers[w])
      BY <2>a
    <3>2. /\ Set(w, r) /\ UNCHANGED locks /\ made' \in SUBSET Session
          /\ registry' = registry
      BY <2>3, <2>a DEF CheckTarget
    <3>3. wrappers[w].state # "starting"
      BY <2>3 DEF CheckTarget
    <3>4. r \in Wrapper
      BY <3>1 DEF Wrapper
    <3>5. Consistent(r) /\ Prepared(r) /\ r.state # "starting"
      BY <3>1, <3>3 DEF Consistent, Prepared, Wrapper
    <3>6. Routable(r) => Routable(wrappers[w]) /\ r.sess = wrappers[w].sess
      BY <3>1 DEF Routable, Wrapper
    <3> HIDE DEF r
    <3> QED  BY <3>2, <3>3, <3>4, <3>5, <3>6, StepOfOne
  <2>b. ASSUME NEW w \in DOMAIN wrappers, NEW x \in Session, Begin(w, x),
               made' \in SUBSET Session
        PROVE  IInv'
    <3> DEFINE r == [wrappers[w] EXCEPT !.state = "replacing", !.op = "asked",
                                    !.opHooks = wrappers[w].hooks,
                                    !.pending = wrappers[w].sess,
                                    !.saved = wrappers[w].sess, !.target = x,
                                    !.checked = None]
    <3>1. wrappers[w] \in Wrapper /\ Consistent(wrappers[w]) /\ Prepared(wrappers[w])
      BY <2>a
    <3>2. /\ Set(w, r) /\ UNCHANGED locks /\ made' \in SUBSET Session
          /\ registry' = registry
      BY <2>b DEF Begin
    <3>3. wrappers[w].state # "starting" /\ wrappers[w].op = "none"
      BY <2>b, <3>1 DEF Begin, Consistent
    <3>4. r \in Wrapper
      BY <3>1 DEF Wrapper, Stage
    <3>5. Consistent(r) /\ Prepared(r) /\ r.state # "starting"
      BY <2>a, <3>1 DEF Consistent, Prepared, Wrapper
    <3>6. Routable(r) => Routable(wrappers[w]) /\ r.sess = wrappers[w].sess
      BY <3>1, <3>3 DEF Routable, Wrapper
    <3> HIDE DEF r
    <3> QED  BY <3>2, <3>3, <3>4, <3>5, <3>6, StepOfOne
  <2>4. ASSUME NEW w \in DOMAIN wrappers, BeginSwitch(w)  PROVE IInv'
    <3>1. wrappers[w].checked \in Session /\ Begin(w, wrappers[w].checked) /\ made' = made
      BY <2>4, <2>a DEF BeginSwitch, Wrapper
    <3> QED  BY <2>a, <2>b, <3>1
  <2>14. ASSUME NEW w \in DOMAIN wrappers, NEW x \in Session, BeginNew(w, x)  PROVE IInv'
    BY <2>14, <2>a, <2>b DEF BeginNew
  <2>5. ASSUME NEW w \in DOMAIN wrappers, Rebind(w)  PROVE IInv'
    <3> DEFINE r == IF wrappers[w].opHooks
                     THEN [wrappers[w] EXCEPT !.sess = wrappers[w].target, !.op = "binding"]
                     ELSE [wrappers[w] EXCEPT !.op = "bound"]
    <3>1. wrappers[w] \in Wrapper /\ Consistent(wrappers[w]) /\ Prepared(wrappers[w])
      BY <2>a
    <3>2. /\ Set(w, r) /\ UNCHANGED locks /\ made' \in SUBSET Session
          /\ registry' = registry
      BY <2>5, <2>a DEF Rebind
    <3>3. wrappers[w].state # "starting"
      BY <2>5, <2>a DEF Rebind
    <3>4. r \in Wrapper
      BY <2>5, <2>a, <3>1 DEF Rebind, Wrapper, Stage, Prepared, Consistent
    <3>5. Consistent(r) /\ Prepared(r) /\ r.state # "starting"
      BY <2>5, <2>a, <3>1, <3>3 DEF Rebind, Consistent, Prepared, Wrapper
    <3>6. Routable(r) => Routable(wrappers[w]) /\ r.sess = wrappers[w].sess
      BY <2>5, <3>1 DEF Rebind, Routable, Wrapper, Consistent
    <3> HIDE DEF r
    <3> QED  BY <3>2, <3>3, <3>4, <3>5, <3>6, StepOfOne
  <2>6. ASSUME NEW w \in DOMAIN wrappers, Rebound(w)  PROVE IInv'
    <3> DEFINE r == IF Conflict(w, wrappers[w].sess)
                     THEN [wrappers[w] EXCEPT !.op = "restoring", !.state = "failed",
                                              !.hooks = FALSE]
                     ELSE [wrappers[w] EXCEPT !.op = "bound"]
    <3>1. wrappers[w] \in Wrapper /\ Consistent(wrappers[w]) /\ Prepared(wrappers[w])
      BY <2>a
    <3>2. /\ Set(w, r) /\ UNCHANGED locks /\ made' \in SUBSET Session
          /\ registry' = IF Conflict(w, wrappers[w].sess) THEN registry
                         ELSE Registered(w, wrappers[w].sess)
      BY <2>6, <2>a DEF Rebound
    <3>3. wrappers[w].state # "starting"
      BY <2>6, <2>a DEF Rebound
    <3>4. r \in Wrapper
      BY <2>6, <2>a, <3>1 DEF Rebound, Wrapper, Stage, Prepared, Consistent
    <3>5. Consistent(r) /\ Prepared(r) /\ r.state # "starting"
      BY <2>6, <2>a, <3>1, <3>3 DEF Rebound, Consistent, Prepared, Wrapper
    <3>6. /\ Conflict(w, wrappers[w].sess) => ~Routable(r)
          /\ r.sess = wrappers[w].sess
      BY <2>6, <3>1 DEF Rebound, Routable, Wrapper, Consistent
    <3> HIDE DEF r
    <3> QED  BY <3>2, <3>3, <3>4, <3>5, <3>6, StepOfOne
  <2>7. ASSUME NEW w \in DOMAIN wrappers, Finish(w)  PROVE IInv'
    <3> DEFINE r == [Idle(wrappers[w]) EXCEPT !.state = "ready"]
    <3>1. wrappers[w] \in Wrapper /\ Consistent(wrappers[w]) /\ Prepared(wrappers[w])
      BY <2>a
    <3>2. /\ Set(w, r) /\ UNCHANGED locks /\ made' \in SUBSET Session
          /\ registry' = registry
      BY <2>7, <2>a DEF Finish, Idle
    <3>3. wrappers[w].state # "starting"
      BY <2>7, <2>a DEF Finish, Idle
    <3>4. r \in Wrapper
      BY <2>7, <2>a, <3>1 DEF Finish, Idle, Wrapper, Stage, Prepared, Consistent
    <3>5. Consistent(r) /\ Prepared(r) /\ r.state # "starting"
      BY <2>7, <2>a, <3>1, <3>3 DEF Finish, Idle, Consistent, Prepared, Wrapper
    <3>6. Routable(r) => Routable(wrappers[w]) /\ r.sess = wrappers[w].sess
      BY <2>7, <3>1 DEF Finish, Idle, Routable, Wrapper, Consistent
    <3> HIDE DEF r
    <3> QED  BY <3>2, <3>3, <3>4, <3>5, <3>6, StepOfOne
  <2>8. ASSUME NEW w \in DOMAIN wrappers, Fail(w)  PROVE IInv'
    <3> DEFINE r == [wrappers[w] EXCEPT !.op = "restoring", !.state = "failed",
                                    !.hooks = FALSE]
    <3>1. wrappers[w] \in Wrapper /\ Consistent(wrappers[w]) /\ Prepared(wrappers[w])
      BY <2>a
    <3>2. /\ Set(w, r) /\ UNCHANGED locks /\ made' \in SUBSET Session
          /\ registry' = registry
      BY <2>8, <2>a DEF Fail
    <3>3. wrappers[w].state # "starting"
      BY <2>8, <2>a DEF Fail
    <3>4. r \in Wrapper
      BY <2>8, <2>a, <3>1 DEF Fail, Wrapper, Stage, Prepared, Consistent
    <3>5. Consistent(r) /\ Prepared(r) /\ r.state # "starting"
      BY <2>8, <2>a, <3>1, <3>3 DEF Fail, Consistent, Prepared, Wrapper
    <3>6. Routable(r) => Routable(wrappers[w]) /\ r.sess = wrappers[w].sess
      BY <2>8, <3>1 DEF Fail, Routable, Wrapper, Consistent
    <3> HIDE DEF r
    <3> QED  BY <3>2, <3>3, <3>4, <3>5, <3>6, StepOfOne
  <2>9. ASSUME NEW w \in DOMAIN wrappers, RecoverBegins(w)  PROVE IInv'
    <3> DEFINE r == [wrappers[w] EXCEPT !.rec = "restoring", !.hooks = FALSE]
    <3>1. wrappers[w] \in Wrapper /\ Consistent(wrappers[w]) /\ Prepared(wrappers[w])
      BY <2>a
    <3>2. /\ Set(w, r) /\ UNCHANGED locks /\ made' \in SUBSET Session
          /\ registry' = registry
      BY <2>9, <2>a DEF RecoverBegins
    <3>3. wrappers[w].state # "starting"
      BY <2>9, <2>a DEF RecoverBegins
    <3>4. r \in Wrapper
      BY <2>9, <2>a, <3>1 DEF RecoverBegins, Wrapper, Stage, Prepared, Consistent
    <3>5. Consistent(r) /\ Prepared(r) /\ r.state # "starting"
      BY <2>9, <2>a, <3>1, <3>3 DEF RecoverBegins, Consistent, Prepared, Wrapper
    <3>6. Routable(r) => Routable(wrappers[w]) /\ r.sess = wrappers[w].sess
      BY <2>9, <3>1 DEF RecoverBegins, Routable, Wrapper, Consistent
    <3> HIDE DEF r
    <3> QED  BY <3>2, <3>3, <3>4, <3>5, <3>6, StepOfOne
  <2>10. ASSUME NEW w \in DOMAIN wrappers, NEW f \in {"op", "rec"}, Restored(w, f)  PROVE IInv'
    <3> DEFINE r == [wrappers[w] EXCEPT ![f] = "rebinding", !.hooks = TRUE,
                                    !.sess = Back(w, f)]
    <3>1. wrappers[w] \in Wrapper /\ Consistent(wrappers[w]) /\ Prepared(wrappers[w])
      BY <2>a
    <3>2. /\ Set(w, r) /\ UNCHANGED locks /\ made' \in SUBSET Session
          /\ registry' = registry
      BY <2>10, <2>a DEF Restored, Back
    <3>3. wrappers[w].state # "starting"
      BY <2>10, <2>a DEF Restored, Back
    <3>4. r \in Wrapper
      BY ZenonT(60), <2>10, <2>a, <3>1 DEF Restored, Back, Wrapper, Stage, Prepared, Consistent
    <3>5. Consistent(r) /\ Prepared(r) /\ r.state # "starting"
      BY <2>10, <2>a, <3>1, <3>3 DEF Restored, Back, Consistent, Prepared, Wrapper
    <3>6. Routable(r) => Routable(wrappers[w]) /\ r.sess = wrappers[w].sess
      BY <2>10, <3>1 DEF Restored, Back, Routable, Wrapper, Consistent
    <3> HIDE DEF r
    <3> QED  BY <3>2, <3>3, <3>4, <3>5, <3>6, StepOfOne
  <2>11. ASSUME NEW w \in DOMAIN wrappers, NEW f \in {"op", "rec"}, Recovered(w, f)  PROVE IInv'
    <3> DEFINE r == IF Conflict(w, wrappers[w].sess) THEN Ended(wrappers[w], f)
                ELSE [Ended(wrappers[w], f) EXCEPT !.state = "ready", !.lost = FALSE]
    <3>1. wrappers[w] \in Wrapper /\ Consistent(wrappers[w]) /\ Prepared(wrappers[w])
      BY <2>a
    <3>2. /\ Set(w, r) /\ UNCHANGED locks /\ made' \in SUBSET Session
          /\ registry' = IF Conflict(w, wrappers[w].sess) THEN registry
                         ELSE Registered(w, wrappers[w].sess)
      BY <2>11, <2>a DEF Recovered, Ended, Idle
    <3>3. wrappers[w].state # "starting"
      BY <2>11, <2>a DEF Recovered, Ended, Idle
    <3>4. r \in Wrapper
      <4>1. CASE f = "op"
        BY <3>1, <4>1 DEF Ended, Idle, Wrapper, Stage
      <4>2. CASE f = "rec"
        BY ZenonT(60), <3>1, <4>2 DEF Ended, Idle, Wrapper, Stage
      <4> QED  BY <4>1, <4>2
    <3>5. Consistent(r) /\ Prepared(r) /\ r.state # "starting"
      BY <2>11, <2>a, <3>1, <3>3 DEF Recovered, Ended, Idle, Consistent, Prepared, Wrapper
    <3>6. /\ Conflict(w, wrappers[w].sess) => ~Routable(r)
          /\ r.sess = wrappers[w].sess
      BY <2>11, <3>1 DEF Recovered, Ended, Idle, Routable, Wrapper, Consistent
    <3> HIDE DEF r
    <3> QED  BY <3>2, <3>3, <3>4, <3>5, <3>6, StepOfOne
  <2>12. ASSUME NEW w \in DOMAIN wrappers, NEW f \in {"op", "rec"}, RecoveryFails(w, f)  PROVE IInv'
    <3> DEFINE r == Ended(wrappers[w], f)
    <3>1. wrappers[w] \in Wrapper /\ Consistent(wrappers[w]) /\ Prepared(wrappers[w])
      BY <2>a
    <3>2. /\ Set(w, r) /\ UNCHANGED locks /\ made' \in SUBSET Session
          /\ registry' = registry
      BY <2>12, <2>a DEF RecoveryFails, Ended, Idle
    <3>3. wrappers[w].state # "starting"
      BY <2>12, <2>a DEF RecoveryFails, Ended, Idle
    <3>4. r \in Wrapper
      BY ZenonT(60), <2>12, <2>a, <3>1 DEF RecoveryFails, Ended, Idle, Wrapper, Stage, Prepared, Consistent
    <3>5. Consistent(r) /\ Prepared(r) /\ r.state # "starting"
      BY <2>12, <2>a, <3>1, <3>3 DEF RecoveryFails, Ended, Idle, Consistent, Prepared, Wrapper
    <3>6. Routable(r) => Routable(wrappers[w]) /\ r.sess = wrappers[w].sess
      BY <2>12, <3>1 DEF RecoveryFails, Ended, Idle, Routable, Wrapper, Consistent
    <3> HIDE DEF r
    <3> QED  BY <3>2, <3>3, <3>4, <3>5, <3>6, StepOfOne
  <2>13. CASE UNCHANGED vars
    BY <2>13 DEF vars, IInv, TypeOK, Started, Routed
  <2> QED  BY <2>1, <2>2, <2>3, <2>4, <2>5, <2>6, <2>7, <2>8, <2>9, <2>10, <2>11, <2>12, <2>13, <2>14
         DEF Next
<1> QED  BY <1>1, <1>2, PTL DEF Spec

\* The wrappers, the registry and the locks keep their types: an entry names a
\* wrapper that exists, and a lock one that was begun for its session.
THEOREM TypesHold == ASSUME RegistryAssumption PROVE Spec => []TypeOK
<1>1. IInv => TypeOK
  BY DEF IInv
<1> QED  BY <1>1, IInvHolds, PTL

\* A request for a session never reaches a settled runtime of another session.
THEOREM RequestsReachTheirSession ==
  ASSUME RegistryAssumption PROVE Spec => []OneRoute
<1>1. IInv => OneRoute
  BY DEF IInv, TypeOK, Routed, Routable, OneRoute, Settled
<1> QED  BY <1>1, IInvHolds, PTL
==============================================================================
