---------------------------- MODULE MCPartsProofs ----------------------------
(***************************************************************************)
(* Proofs about the parts that MCParts checks together, for any values of    *)
(* their constants: those of the dialogs, the files, the forks, the cache,   *)
(* the MCP connections and the list of sessions are here, those of the       *)
(* compaction queue, the updates and the registry are taken from the proof   *)
(* modules of these components.                                             *)
(***************************************************************************)
EXTENDS MCParts, SequenceTheorems, TLAPS

-----------------------------------------------------------------------------
\* A behaviour of MCParts is one of each of its parts: it starts as the part does,
\* and a step of another part leaves the part's variables alone.

LEMMA CompactionIsAPart == PartsSpec => Compaction!Spec
<1>1. PartsInit => Compaction!Init
  BY DEF PartsInit
<1>2. [PartsNext]_partsVars => [Compaction!Next]_(Compaction!vars)
  BY DEF PartsNext, partsVars, compactionVars, Compaction!vars, Compaction!history,
      Compaction!items, Compaction!ctl, Compaction!direct
<1> QED  BY <1>1, <1>2, PTL DEF PartsSpec, Compaction!Spec

LEMMA DialogsIsAPart == PartsSpec => Dialogs!Spec
<1>1. PartsInit => Dialogs!Init
  BY DEF PartsInit
<1>2. [PartsNext]_partsVars => [Dialogs!Next]_(Dialogs!vars)
  BY DEF PartsNext, partsVars, dialogsVars, Dialogs!vars
<1> QED  BY <1>1, <1>2, PTL DEF PartsSpec, Dialogs!Spec

LEMMA UpdatesIsAPart == PartsSpec => Updates!Spec
<1>1. PartsInit => Updates!Init
  BY DEF PartsInit
<1>2. [PartsNext]_partsVars => [Updates!Next]_(Updates!vars)
  BY DEF PartsNext, partsVars, updatesVars, Updates!vars
<1> QED  BY <1>1, <1>2, PTL DEF PartsSpec, Updates!Spec

LEMMA RegistryIsAPart == PartsSpec => Registry!Spec
<1>1. PartsInit => Registry!Init
  BY DEF PartsInit
<1>2. [PartsNext]_partsVars => [Registry!Next]_(Registry!vars)
  BY DEF PartsNext, partsVars, registryVars, Registry!vars
<1> QED  BY <1>1, <1>2, PTL DEF PartsSpec, Registry!Spec

LEMMA FilesIsAPart == PartsSpec => Files!Spec
<1>1. PartsInit => Files!Init
  BY DEF PartsInit
<1>2. [PartsNext]_partsVars => [Files!Next]_(Files!vars)
  BY DEF PartsNext, partsVars, filesVars, Files!vars
<1> QED  BY <1>1, <1>2, PTL DEF PartsSpec, Files!Spec

LEMMA ListIsAPart == PartsSpec => List!Spec
<1>1. PartsInit => List!Init
  BY DEF PartsInit
<1>2. [PartsNext]_partsVars => [List!Next]_(List!vars)
  BY DEF PartsNext, partsVars, listVars, List!vars, List!history, List!net, List!tab,
      List!server
<1> QED  BY <1>1, <1>2, PTL DEF PartsSpec, List!Spec

LEMMA ForksIsAPart == PartsSpec => Forks!Spec
<1>1. PartsInit => Forks!Init
  BY DEF PartsInit
<1>2. [PartsNext]_partsVars => [Forks!Next]_(Forks!vars)
  BY DEF PartsNext, partsVars, forksVars, Forks!vars
<1> QED  BY <1>1, <1>2, PTL DEF PartsSpec, Forks!Spec

LEMMA McpIsAPart == PartsSpec => Mcp!Spec
<1>1. PartsInit => Mcp!Init
  BY DEF PartsInit
<1>2. [PartsNext]_partsVars => [Mcp!Next]_(Mcp!mcpVars)
  BY DEF PartsNext, partsVars, mcpVars, Mcp!mcpVars
<1> QED  BY <1>1, <1>2, PTL DEF PartsSpec, Mcp!Spec

LEMMA CacheIsAPart == PartsSpec => Cache!Spec
<1>1. PartsInit => Cache!Init
  BY DEF PartsInit
<1>2. [PartsNext]_partsVars => [Cache!Next]_(Cache!cacheVars)
  BY DEF PartsNext, partsVars, cacheVars, Cache!cacheVars
<1> QED  BY <1>1, <1>2, PTL DEF PartsSpec, Cache!Spec
-----------------------------------------------------------------------------
\* What is proved of the components holds of the parts.

\* A message that waits in the queue is being sent, or something will send it: also
\* behind manual, automatic and failed compactions, and in a replaced session.
THEOREM QueuesAreServed == PartsSpec => []QueueIsServed
<1>1. Compaction!Spec => []Compaction!QueueIsServed
  BY PartsAssumption, Compaction!QueueIsAlwaysServed
<1> QED  BY <1>1, CompactionIsAPart, PTL DEF QueueIsServed

\* No compaction is shown as running that is over.
THEOREM CompactionsAreShown == PartsSpec => []CompactionIsShown
<1>1. Compaction!Spec => []Compaction!CompactionIsShown
  BY PartsAssumption, Compaction!ShownCompactionIsRunning
<1> QED  BY <1>1, CompactionIsAPart, PTL DEF CompactionIsShown

\* No message is sent twice, or lost without an explanation.
THEOREM MessagesAreSentOnce == PartsSpec => []OnceOrExplained
<1>1. Compaction!Spec => []Compaction!OnceOrExplained
  BY PartsAssumption, Compaction!MessagesAreSentOnce
<1> QED  BY <1>1, CompactionIsAPart, PTL DEF OnceOrExplained

\* A helper that lives holds the lock of the installation.
THEOREM HelpersHoldTheLock == PartsSpec => []HelperHoldsLock
<1>1. Updates!Spec => []Updates!HelperHoldsLock
  BY PartsAssumption, Updates!LivingHelperHoldsLock
<1> QED  BY <1>1, UpdatesIsAPart, PTL DEF HelperHoldsLock

\* A verdict on an update is not taken back.
THEOREM VerdictsAreKept == PartsSpec => VerdictStands
<1>1. Updates!Spec => Updates!VerdictStands
  BY PartsAssumption, Updates!VerdictsStand
<1> QED  BY <1>1, UpdatesIsAPart, PTL DEF VerdictStands

\* A session id leads to the runtime that has the session.
THEOREM SessionsHaveOneRoute == PartsSpec => []OneRoute
<1>1. Registry!Spec => []Registry!OneRoute
  BY PartsAssumption, Registry!RequestsReachTheirSession
<1> QED  BY <1>1, RegistryIsAPart, PTL DEF OneRoute

-----------------------------------------------------------------------------

\* What the receipts and the open dialogs say of the promises: AcceptedIsReturned
\* needs it, as a repeated answer is accepted on the word of a receipt.
DialogsBook ==
  /\ \A d \in Dialog : d \in pending \/ d \notin opened => returned[d] = <<>>
  /\ \A n \in 1..Len(receipts) :
       returned[receipts[n].id] = <<receipts[n].response>>

DialogsInv == Dialogs!TypeOK /\ DialogsBook /\ Dialogs!AcceptedIsReturned

\* Evicting a receipt keeps the others.
LEMMA KeptReceipts ==
  ASSUME NEW s \in Seq(Dialogs!Receipt)
  PROVE  /\ Dialogs!Kept(s) \in Seq(Dialogs!Receipt)
         /\ \A n \in 1..Len(Dialogs!Kept(s)) : \E m \in 1..Len(s) : Dialogs!Kept(s)[n] = s[m]
<1>1. CASE Len(s) > MaxReceipts /\ s # <<>>
  <2>1. Dialogs!Kept(s) = Tail(s)
    BY <1>1 DEF Dialogs!Kept
  <2>2. /\ Tail(s) \in Seq(Dialogs!Receipt) /\ Len(Tail(s)) = Len(s) - 1
        /\ \A n \in 1..Len(Tail(s)) : Tail(s)[n] = s[n + 1]
    BY <1>1
  <2>3. \A n \in 1..Len(Tail(s)) : n + 1 \in 1..Len(s)
    BY <2>2
  <2> QED  BY <2>1, <2>2, <2>3
<1>2. CASE ~(Len(s) > MaxReceipts) \/ s = <<>>
  <2>1. ASSUME s = <<>>  PROVE Tail(s) = <<>>
    BY <2>1
  <2> QED  BY <1>2, <2>1 DEF Dialogs!Kept
<1> QED  BY <1>1, <1>2

\* What has a receipt, or an accepted answer, is no longer open.
LEMMA ClosedForGood ==
  ASSUME Dialogs!TypeOK, DialogsBook, Dialogs!AcceptedIsReturned
  PROVE  /\ \A n \in 1..Len(receipts) :
              receipts[n].id \in Dialog /\ receipts[n].id \in opened \ pending
         /\ \A a \in accepted : a[1] \in Dialog /\ a[1] \in opened \ pending
<1>1. ASSUME NEW d \in Dialog, NEW x, returned[d] = <<x>>
      PROVE  d \in opened \ pending
  <2>1. returned[d] # <<>>
    BY <1>1
  <2> QED  BY <2>1 DEF DialogsBook
<1>2. \A n \in 1..Len(receipts) : receipts[n].id \in Dialog
  <2>1. \A n \in 1..Len(receipts) : receipts[n] \in Dialogs!Receipt
    BY DEF Dialogs!TypeOK
  <2> QED  BY <2>1 DEF Dialogs!Receipt
<1>3. \A a \in accepted : a[1] \in Dialog
  BY DEF Dialogs!TypeOK
<1> QED  BY <1>1, <1>2, <1>3 DEF DialogsBook, Dialogs!AcceptedIsReturned

\* A dialog that is open closes, once, with a response that is recorded.
LEMMA FinishCloses ==
  ASSUME DialogsInv, NEW d \in pending, NEW o \in Dialogs!Outcomes,
         NEW v \in Dialogs!Response \cup {Default},
         Dialogs!Finish(d, o, v), opened' = opened,
         \/ accepted' = accepted
         \/ v \in Dialogs!Response /\ accepted' = accepted \cup {<<d, v>>},
         accepting' = accepting
  PROVE  DialogsInv'
<1> DEFINE r == [id |-> d, outcome |-> o, response |-> v]
           s == Append(receipts, r)
<1>1. d \in Dialog /\ returned[d] = <<>>
  BY DEF DialogsInv, Dialogs!TypeOK, DialogsBook
<1>2. r \in Dialogs!Receipt
  BY <1>1 DEF Dialogs!Receipt
<1>3. s \in Seq(Dialogs!Receipt) /\ Len(s) = Len(receipts) + 1 /\ s[Len(s)] = r
      /\ \A n \in 1..Len(receipts) : s[n] = receipts[n]
  BY <1>2 DEF DialogsInv, Dialogs!TypeOK
<1> HIDE DEF r, s
<1>4. /\ receipts' \in Seq(Dialogs!Receipt)
      /\ \A n \in 1..Len(receipts') : \E m \in 1..Len(s) : receipts'[n] = s[m]
  BY <1>3, KeptReceipts DEF Dialogs!Finish, s, r
<1>5. /\ returned' = [returned EXCEPT ![d] = <<v>>]
      /\ returned' \in [Dialog -> Seq(Dialogs!Response \cup {Default})]
  BY <1>1 DEF DialogsInv, Dialogs!TypeOK, Dialogs!Finish, Dialogs!Resolve
<1>6. \A m \in 1..Len(s) : returned'[s[m].id] = <<s[m].response>>
  <2> TAKE m \in 1..Len(s)
  <2>1. CASE m = Len(s)
    BY <1>1, <1>3, <1>5, <2>1 DEF r, DialogsInv, Dialogs!TypeOK
  <2>2. CASE m # Len(s)
    <3>1. m \in 1..Len(receipts) /\ s[m] = receipts[m]
      BY <1>3, <2>2 DEF DialogsInv, Dialogs!TypeOK
    <3>3. receipts[m].id # d /\ receipts[m].id \in Dialog
      BY <3>1, ClosedForGood DEF DialogsInv
    <3> QED  BY <1>5, <3>1, <3>3 DEF DialogsInv, DialogsBook, Dialogs!TypeOK
  <2> QED  BY <2>1, <2>2
<1>7. pending' = pending \ {d}
  BY DEF Dialogs!Finish
<1>8. \A a \in accepted : a[1] # d /\ returned'[a[1]] = <<a[2]>>
  <2>1. \A a \in accepted : a[1] \in Dialog /\ a[1] # d
    BY ClosedForGood DEF DialogsInv
  <2> QED  BY <1>5, <2>1 DEF DialogsInv, Dialogs!AcceptedIsReturned, Dialogs!TypeOK
<1>9. Dialogs!TypeOK'
  BY <1>1, <1>4, <1>5, <1>7 DEF DialogsInv, Dialogs!TypeOK
<1>10. DialogsBook'
  <2>1. \A n \in 1..Len(receipts') : returned'[receipts'[n].id] = <<receipts'[n].response>>
    BY <1>4, <1>6
  <2>2. \A c \in Dialog : c \in pending' \/ c \notin opened' => returned'[c] = <<>>
    BY <1>1, <1>5, <1>7 DEF DialogsInv, Dialogs!TypeOK, DialogsBook
  <2> QED  BY <2>1, <2>2 DEF DialogsBook
<1>11. Dialogs!AcceptedIsReturned'
  <2>1. Len(<<v>>) = 1 /\ <<v>> # <<>>
    OBVIOUS
  <2>2. \A a \in accepted' : returned'[a[1]] = <<a[2]>>
    BY <1>1, <1>5, <1>8 DEF DialogsInv, Dialogs!TypeOK
  <2> QED  BY <1>1, <1>5, <1>7, <2>1, <2>2
  DEF DialogsInv, Dialogs!AcceptedIsReturned, Dialogs!TypeOK
<1> QED  BY <1>9, <1>10, <1>11 DEF DialogsInv

LEMMA DialogsInvHolds == Dialogs!Spec => []DialogsInv
<1>1. Dialogs!Init => DialogsInv
  BY DEF Dialogs!Init, DialogsInv, Dialogs!TypeOK, DialogsBook,
      Dialogs!AcceptedIsReturned
<1>2. DialogsInv /\ [Dialogs!Next]_(Dialogs!vars) => DialogsInv'
  <2> SUFFICES ASSUME DialogsInv, [Dialogs!Next]_(Dialogs!vars)  PROVE DialogsInv'
    OBVIOUS
  <2> USE DEF DialogsInv, Dialogs!TypeOK
  <2>1. ASSUME NEW d \in Dialog, Dialogs!Open(d)  PROVE DialogsInv'
    <3>1. d \notin pending /\ returned[d] = <<>>
      BY <2>1 DEF Dialogs!Open, DialogsBook
    <3>2. CASE accepting
      BY <2>1, <3>1, <3>2 DEF Dialogs!Open, DialogsBook, Dialogs!AcceptedIsReturned
    <3>3. CASE ~accepting
      <4>1. returned' = [returned EXCEPT ![d] = <<Default>>]
        BY <2>1, <3>1, <3>3 DEF Dialogs!Open, Dialogs!Resolve
      <4>3. \A n \in 1..Len(receipts) : receipts[n].id # d /\ receipts[n].id \in Dialog
        BY <2>1, ClosedForGood DEF Dialogs!Open
      <4>4. Len(<<Default>>) = 1 /\ <<Default>> # <<>>
            /\ <<Default>> \in Seq(Dialogs!Response \cup {Default})
        OBVIOUS
      <4>5. Dialogs!TypeOK' /\ DialogsBook'
        BY <2>1, <3>1, <3>3, <4>1, <4>3, <4>4 DEF Dialogs!Open, DialogsBook
      <4>6. Dialogs!AcceptedIsReturned'
        BY <2>1, <3>1, <3>3, <4>1, <4>4 DEF Dialogs!Open, Dialogs!AcceptedIsReturned
      <4> QED  BY <4>5, <4>6
    <3> QED  BY <3>2, <3>3
  <2>2. ASSUME NEW d \in Dialog, NEW v \in Dialogs!Response, Dialogs!Respond(d, v) 
      PROVE DialogsInv'
    <3>1. (IF v = Cancel THEN "cancelled" ELSE "answered") \in Dialogs!Outcomes
      BY DEF Dialogs!Outcomes
    <3> HIDE DEF DialogsInv, Dialogs!TypeOK
    <3> QED  BY <2>2, <3>1, FinishCloses DEF Dialogs!Respond
  <2>3. ASSUME NEW d \in Dialog, NEW v \in Dialogs!Response, Dialogs!RespondAgain(d,
      v)  PROVE DialogsInv'
    <3>1. PICK n \in 1..Len(receipts) : receipts[n].id = d /\ receipts[n].response = v
      BY <2>3 DEF Dialogs!RespondAgain, Dialogs!SameResponse
    <3>2. returned[d] = <<v>>
      BY <3>1 DEF DialogsBook
    <3>3. UNCHANGED <<accepting, pending, receipts, opened, returned>>
      BY <2>3 DEF Dialogs!RespondAgain
    <3>4. /\ accepted' = accepted \cup {<<d, v>>}
          /\ <<d, v>> \in Dialog \X Dialogs!Response
      BY <2>3 DEF Dialogs!RespondAgain
    <3>5. Dialogs!TypeOK' /\ DialogsBook'
      BY <3>3, <3>4 DEF DialogsBook
    <3>6. Dialogs!AcceptedIsReturned'
      BY <3>2, <3>3, <3>4 DEF Dialogs!AcceptedIsReturned
    <3> QED  BY <3>5, <3>6
  <2>4. ASSUME NEW d \in Dialog, NEW o \in Dialogs!Outcomes, Dialogs!TimesOut(d, o) 
      PROVE DialogsInv'
    <3> HIDE DEF DialogsInv, Dialogs!TypeOK
    <3> QED  BY <2>4, FinishCloses DEF Dialogs!TimesOut
  <2>5. CASE Dialogs!EnableDialogs
    BY <2>5 DEF Dialogs!EnableDialogs, DialogsBook, Dialogs!AcceptedIsReturned
  <2>6. CASE Dialogs!ReceiptExpires
    <3>1. /\ receipts' \in Seq(Dialogs!Receipt) /\ Len(receipts') = Len(receipts) - 1
          /\ \A n \in 1..Len(receipts') : receipts'[n] = receipts[n + 1]
      BY <2>6 DEF Dialogs!ReceiptExpires
    <3>2. \A n \in 1..Len(receipts') : n + 1 \in 1..Len(receipts)
      BY <3>1
    <3> QED  BY <2>6, <3>1, <3>2
    DEF Dialogs!ReceiptExpires, DialogsBook, Dialogs!AcceptedIsReturned
  <2>7. CASE Dialogs!Reset
    <3>1. \A d \in Dialog : d \in pending => returned'[d] = <<Default>>
      <4> TAKE d \in Dialog
      <4>1. d \in pending => returned[d] = <<>>
        BY DEF DialogsBook
      <4>2. Append(<<>>, Default) = <<Default>>
        OBVIOUS
      <4>3. d \in pending => returned'[d] = Append(returned[d], Default)
        BY <2>7 DEF Dialogs!Reset
      <4> QED  BY <4>1, <4>2, <4>3
    <3>2. \A d \in Dialog : d \notin pending => returned'[d] = returned[d]
      BY <2>7 DEF Dialogs!Reset
    <3>3. Len(<<Default>>) = 1 /\ <<Default>> # <<>>
          /\ <<Default>> \in Seq(Dialogs!Response \cup {Default})
      OBVIOUS
    <3>4. returned' \in [Dialog -> Seq(Dialogs!Response \cup {Default})]
      <4>1. \A d \in Dialog : returned'[d] \in Seq(Dialogs!Response \cup {Default})
        BY <3>1, <3>2, <3>3
      <4>2. returned' = [d \in Dialog |-> returned'[d]]
        BY <2>7 DEF Dialogs!Reset
      <4> QED  BY <4>1, <4>2
    <3>5. Dialogs!TypeOK'
      BY <2>7, <3>4 DEF Dialogs!Reset
    <3>6. DialogsBook'
      BY <2>7, <3>2 DEF Dialogs!Reset, DialogsBook
    <3>7. \A a \in accepted : a[1] \notin pending
      BY DEF DialogsBook, Dialogs!AcceptedIsReturned
    <3>8. Dialogs!AcceptedIsReturned'
      BY <2>7, <3>1, <3>2, <3>3, <3>7 DEF Dialogs!Reset, Dialogs!AcceptedIsReturned
    <3> QED  BY <3>5, <3>6, <3>8
  <2>8. CASE UNCHANGED Dialogs!vars
    BY <2>8 DEF Dialogs!vars, DialogsBook, Dialogs!AcceptedIsReturned
  <2> HIDE DEF DialogsInv, Dialogs!TypeOK
  <2> QED  BY <2>1, <2>2, <2>3, <2>4, <2>5, <2>6, <2>7, <2>8 DEF Dialogs!Next
<1> QED  BY <1>1, <1>2, PTL DEF Dialogs!Spec

\* An extension gets one answer per dialog, and it is the answer of every client
\* that was told that its own was accepted: however often answers are repeated,
\* however few receipts are kept and whenever they expire.
THEOREM AcceptedAnswersAreReturned ==
  PartsSpec => [](Dialogs!TypeOK /\ AcceptedIsReturned)
<1>1. DialogsInv => Dialogs!TypeOK /\ AcceptedIsReturned
  BY DEF DialogsInv, AcceptedIsReturned
<1> QED  BY <1>1, DialogsInvHolds, DialogsIsAPart, PTL

-----------------------------------------------------------------------------

\* Whoever is past the lock holds it.
FileLockHeld == \A s \in Save : saves[s].at \in {"locked", "read", "checked",
    "renamed"} => fileLock = s

\* What was written since a save read the file: only from outside, and after its
\* second look, once it has taken it.  The save's author had seen what it read.
SavesLooked ==
  \A s \in Save : saves[s].at \in {"read", "checked"} =>
    /\ Files!Seen(s) = saves[s].base
    /\ \A v \in saves[s].base + 1 .. Files!Current :
         versions[v].by = Outside /\ (saves[s].at = "checked" => s \in versions[v].past)

FilesInv == Files!TypeOK /\ FileLockHeld /\ SavesLooked /\ Files!NoSaveLost

Saving == [at : Files!Steps, in : Process, loaded : Nat, base : Nat]

\* A step that writes nothing keeps what is said of the versions.
LEMMA UnwrittenKeeps ==
  ASSUME FilesInv, UNCHANGED versions, FileLockHeld', Files!TypeOK',
         \A s \in Save : saves'[s].at \in {"read", "checked"} =>
            \/ saves'[s] = saves[s]
            \/ /\ saves'[s].base = Files!Current
               /\ Files!Seen(s)' = Files!Current
  PROVE  FilesInv'
<1>1. SavesLooked'
  <2>1. ASSUME NEW s \in Save, saves'[s].at \in {"read", "checked"}
        PROVE  /\ Files!Seen(s)' = saves'[s].base
               /\ \A v \in saves'[s].base + 1 .. Files!Current' :
                    /\ versions'[v].by = Outside
                    /\ saves'[s].at = "checked" => s \in versions'[v].past
    <3>1. CASE saves'[s] = saves[s]
      BY <2>1, <3>1 DEF FilesInv, SavesLooked, Files!Seen, Files!Current
    <3>2. CASE saves'[s].base = Files!Current /\ Files!Seen(s)' = Files!Current
      BY <2>1, <3>2 DEF FilesInv, Files!TypeOK, Files!Current
    <3> QED  BY <2>1, <3>1, <3>2
  <2> QED  BY <2>1 DEF SavesLooked
<1>2. Files!NoSaveLost'
  BY DEF FilesInv, Files!NoSaveLost, Files!Current
<1> QED  BY <1>1, <1>2 DEF FilesInv

LEMMA VersionsTyped ==
  ASSUME Files!TypeOK
  PROVE  /\ Files!Current \in Nat
         /\ \A v \in 1..Files!Current : versions[v] \in Files!Version /\ versions[v].base \in Nat
<1>1. \A v \in 1..Files!Current : versions[v] \in Files!Version
  BY DEF Files!TypeOK, Files!Current
<1> QED  BY <1>1 DEF Files!TypeOK, Files!Current, Files!Version

\* A step that takes one save on, and no version.
LEMMA SaveGoesOn ==
  ASSUME FilesInv, NEW s \in Save, NEW old \in Files!Steps, NEW to \in Files!Steps,
      Files!Goes(s, old, to)
  PROVE  /\ saves' \in [Save -> Saving]
         /\ saves'[s] = [saves[s] EXCEPT !.at = to] /\ saves[s].at = old
         /\ \A r \in Save \ {s} : saves'[r] = saves[r]
  BY DEF FilesInv, Files!TypeOK, Files!Goes, Saving

LEMMA FilesInvHolds == ASSUME Files!FilesAssumption PROVE Files!Spec => []FilesInv
<1>1. Files!Init => FilesInv
  <2> SUFFICES ASSUME Files!Init PROVE FilesInv
    OBVIOUS
  <2>1. /\ versions \in Seq(Files!Version) /\ Len(versions) = 1
        /\ versions[1] = [by |-> Outside, base |-> 0, past |-> {}]
    BY DEF Files!Init, Files!Version
  <2>2. \A s \in Save : saves[s].at = "idle"
    BY DEF Files!Init
  <2>3. Files!TypeOK
    BY <2>1 DEF Files!Init, Files!TypeOK, Files!Steps
  <2>4. Files!NoSaveLost
    BY <2>1, Files!FilesAssumption
    DEF Files!NoSaveLost, Files!Current, Files!FilesAssumption
  <2> QED  BY <2>2, <2>3, <2>4 DEF FilesInv, FileLockHeld, SavesLooked
<1>2. FilesInv /\ [Files!Next]_(Files!vars) => FilesInv'
  <2> SUFFICES ASSUME FilesInv, [Files!Next]_(Files!vars) PROVE FilesInv'
    OBVIOUS
  <2>1. ASSUME NEW s \in Save, Files!Load(s) PROVE FilesInv'
    <3>1. /\ saves' \in [Save -> Saving] /\ saves'[s].at = "idle"
          /\ \A r \in Save \ {s} : saves'[r] = saves[r]
          /\ UNCHANGED <<versions, names, fileLock>>
      BY <2>1, VersionsTyped DEF Files!Load, FilesInv, Files!TypeOK, Saving, Files!Steps
    <3>2. FileLockHeld' /\ Files!TypeOK'
      BY <3>1 DEF FilesInv, FileLockHeld, Files!TypeOK, Saving
    <3> QED  BY <3>1, <3>2, UnwrittenKeeps
  <2>2. ASSUME NEW s \in Save, Files!Begin(s) PROVE FilesInv'
    <3>1. /\ saves' \in [Save -> Saving] /\ saves'[s].at = "named"
          /\ \A r \in Save \ {s} : saves'[r] = saves[r]
      BY <2>2, SaveGoesOn DEF Files!Begin, Files!Steps, FilesInv, Files!TypeOK
    <3>2. /\ names' = names \cup {saves[s].in} /\ saves[s].in \in Process
          /\ UNCHANGED <<versions, fileLock>>
      BY <2>2 DEF Files!Begin, FilesInv, Files!TypeOK
    <3>3. FileLockHeld'
      BY <3>1, <3>2 DEF FilesInv, FileLockHeld
    <3>4. Files!TypeOK'
      BY <3>1, <3>2 DEF FilesInv, Files!TypeOK, Saving
    <3> QED  BY <3>1, <3>2, <3>3, <3>4, UnwrittenKeeps
  <2>3. ASSUME NEW s \in Save, Files!TakeLock(s) PROVE FilesInv'
    <3>1. /\ saves' \in [Save -> Saving] /\ saves'[s].at = "locked"
          /\ \A r \in Save \ {s} : saves'[r] = saves[r]
      BY <2>3, SaveGoesOn DEF Files!TakeLock, Files!Steps, FilesInv, Files!TypeOK
    <3>2. FileLockHeld' /\ Files!TypeOK'
      BY <2>3, <3>1, Files!FilesAssumption
      DEF Files!TakeLock, FilesInv, FileLockHeld, Files!TypeOK, Saving,
          Files!FilesAssumption
    <3> QED  BY <2>3, <3>1, <3>2, UnwrittenKeeps DEF Files!TakeLock
  <2>4. ASSUME NEW s \in Save, Files!Read(s) PROVE FilesInv'
    <3>1. /\ saves' \in [Save -> Saving]
          /\ saves'[s].at = "read" /\ saves'[s].base = Files!Current
          /\ saves'[s].loaded = saves[s].loaded /\ saves[s].at = "locked"
          /\ \A r \in Save \ {s} : saves'[r] = saves[r]
      BY <2>4, VersionsTyped DEF Files!Read, FilesInv, Files!TypeOK, Saving, Files!Steps
    <3>2. FileLockHeld' /\ Files!TypeOK'
      BY <2>4, <3>1 DEF Files!Read, FilesInv, FileLockHeld, Files!TypeOK, Saving
    <3>3. Files!Seen(s)' = Files!Current
      BY <2>4, <3>1 DEF Files!Read, Files!Seen
    <3> QED  BY <2>4, <3>1, <3>2, <3>3, UnwrittenKeeps DEF Files!Read
  <2>5. ASSUME NEW s \in Save, Files!Recheck(s) PROVE FilesInv'
    <3>1. /\ saves' \in [Save -> Saving] /\ saves[s].at = "read"
          /\ saves'[s] = [saves[s] EXCEPT !.at = "checked"]
          /\ saves[s].base = Files!Current
          /\ \A r \in Save \ {s} : saves'[r] = saves[r]
      BY <2>5, SaveGoesOn DEF Files!Recheck, Files!Steps
    <3>2. saves'[s].base = Files!Current /\ saves'[s].loaded = saves[s].loaded
      BY <3>1 DEF FilesInv, Files!TypeOK
    <3>3. FileLockHeld' /\ Files!TypeOK'
      BY <2>5, <3>1 DEF Files!Recheck, FilesInv, FileLockHeld, Files!TypeOK, Saving
    <3>4. Files!Seen(s)' = Files!Current
      BY <3>1, <3>2 DEF FilesInv, SavesLooked, Files!Seen
    <3> QED  BY <2>5, <3>1, <3>2, <3>3, <3>4, UnwrittenKeeps DEF Files!Recheck
  <2>6. ASSUME NEW s \in Save, Files!Rename(s) PROVE FilesInv'
    <3>1. /\ saves' \in [Save -> Saving] /\ saves[s].at = "checked"
          /\ saves'[s].at = "renamed"
          /\ \A r \in Save \ {s} : saves'[r] = saves[r]
      BY <2>6, SaveGoesOn DEF Files!Rename, Files!Steps, FilesInv, Files!TypeOK
    <3>2. /\ versions' = Append(versions, [by |-> s, base |-> Files!Seen(s),
                                           past |-> {}])
          /\ names' = names /\ fileLock' = fileLock /\ fileLock = s
      BY <2>6, <3>1 DEF Files!Rename, FilesInv, FileLockHeld
    <3>3. Files!Seen(s) = saves[s].base /\ Files!Seen(s) \in Nat
      BY <3>1 DEF FilesInv, SavesLooked, Files!TypeOK
    <3>4. /\ versions' \in Seq(Files!Version)
          /\ Files!Current \in Nat /\ Files!Current' = Files!Current + 1
          /\ \A v \in 1..Files!Current : versions'[v] = versions[v]
          /\ versions'[Files!Current'] = [by |-> s, base |-> Files!Seen(s), past |-> {}]
      BY <3>2, <3>3 DEF FilesInv, Files!TypeOK, Files!Version, Files!Current
    <3>5. Files!TypeOK' /\ FileLockHeld'
      BY <3>1, <3>2, <3>4 DEF FilesInv, Files!TypeOK, FileLockHeld, Saving
    <3>6. SavesLooked'
      BY <3>1, <3>2 DEF FilesInv, FileLockHeld, SavesLooked
    <3>7. ASSUME NEW w \in 1..Files!Current', versions'[w].by \in Save,
                 NEW v \in versions'[w].base + 1 .. w - 1
          PROVE  versions'[v].by = Outside /\ versions'[w].by \in versions'[v].past
      <4>1. CASE w \in 1..Files!Current
        <5>1. versions'[w] = versions[w] /\ versions[w].base \in Nat
          BY <4>1, <3>4, VersionsTyped DEF FilesInv
        <5>2. v \in 1..Files!Current
          BY <4>1, <5>1, <3>4, <3>7
        <5> QED  BY <4>1, <5>1, <5>2, <3>4, <3>7 DEF FilesInv, Files!NoSaveLost
      <4>2. CASE w = Files!Current + 1
        <5>1. v \in saves[s].base + 1 .. Files!Current /\ v \in 1..Files!Current
          BY <4>2, <3>3, <3>4, <3>7
        <5>2. versions[v].by = Outside /\ s \in versions[v].past
          BY <5>1, <3>1 DEF FilesInv, SavesLooked
        <5> QED  BY <4>2, <5>1, <5>2, <3>4
      <4> QED  BY <4>1, <4>2, <3>4, <3>7
    <3> QED  BY <3>5, <3>6, <3>7 DEF FilesInv, Files!NoSaveLost
  <2>7. ASSUME NEW s \in Save, Files!Ends(s) PROVE FilesInv'
    <3>1. /\ saves' \in [Save -> Saving] /\ saves'[s].at = "idle"
          /\ \A r \in Save \ {s} : saves'[r] = saves[r]
      BY <2>7 DEF Files!Ends, FilesInv, Files!TypeOK, Saving, Files!Steps
    <3>2. /\ fileLock' = IF fileLock = s THEN NoSave ELSE fileLock
          /\ names' = names \ {saves[s].in} /\ versions' = versions
      BY <2>7 DEF Files!Ends
    <3>3. FileLockHeld'
      BY <3>1, <3>2 DEF FilesInv, FileLockHeld
    <3>4. Files!TypeOK'
      BY <3>1, <3>2 DEF FilesInv, Files!TypeOK, Saving
    <3> QED  BY <3>1, <3>2, <3>3, <3>4, UnwrittenKeeps
  <2>8. ASSUME NEW p \in Process, Files!Dies(p) PROVE FilesInv'
    <3> DEFINE gone == {s \in Save : saves[s].in = p}
    <3>1. /\ saves' = [s \in Save |-> IF s \in gone
                                      THEN [saves[s] EXCEPT !.at = "idle", !.base = 0]
                                      ELSE saves[s]]
          /\ names' = names \ {p} /\ versions' = versions
          /\ fileLock' = IF fileLock \in gone THEN NoSave ELSE fileLock
      BY <2>8 DEF Files!Dies
    <3>2. /\ saves' \in [Save -> Saving]
          /\ \A s \in Save : IF s \in gone THEN saves'[s].at = "idle"
                             ELSE saves'[s] = saves[s]
      BY <3>1 DEF FilesInv, Files!TypeOK, Saving, Files!Steps
    <3>3. Files!TypeOK'
      BY <3>1, <3>2 DEF FilesInv, Files!TypeOK, Saving
    <3>4. FileLockHeld'
      BY <3>1, <3>2 DEF FilesInv, FileLockHeld
    <3> QED  BY <3>1, <3>2, <3>3, <3>4, UnwrittenKeeps
  <2>9. CASE Files!OutsideWrites
    <3> DEFINE looked == {s \in Save : saves[s].at = "checked"}
    <3>1. /\ versions' = Append(versions, [by |-> Outside, base |-> Files!Current,
                                           past |-> looked])
          /\ names' = names /\ fileLock' = fileLock /\ saves' = saves
      BY <2>9 DEF Files!OutsideWrites
    <3>2. /\ versions' \in Seq(Files!Version)
          /\ Files!Current \in Nat /\ Files!Current' = Files!Current + 1
          /\ \A v \in 1..Files!Current : versions'[v] = versions[v]
          /\ versions'[Files!Current'] = [by |-> Outside, base |-> Files!Current,
              past |-> looked]
      BY <3>1 DEF FilesInv, Files!TypeOK, Files!Version, Files!Current
    <3>3. Files!TypeOK' /\ FileLockHeld'
      BY <3>1, <3>2 DEF FilesInv, Files!TypeOK, FileLockHeld
    <3>4. SavesLooked'
      <4>1. ASSUME NEW s \in Save, saves[s].at \in {"read", "checked"},
                   NEW v \in saves[s].base + 1 .. Files!Current'
            PROVE  /\ versions'[v].by = Outside
                   /\ saves[s].at = "checked" => s \in versions'[v].past
        <5>1. CASE v = Files!Current'
          BY <5>1, <4>1, <3>2
        <5>2. CASE v # Files!Current'
          <6>1. saves[s].base \in Nat
            BY DEF FilesInv, Files!TypeOK
          <6>2. v \in saves[s].base + 1 .. Files!Current /\ v \in 1..Files!Current
            BY <6>1, <5>2, <4>1, <3>2
          <6> QED  BY <6>2, <4>1, <3>2 DEF FilesInv, SavesLooked
        <5> QED  BY <5>1, <5>2
      <4>2. \A s \in Save : saves[s].at \in {"read",
          "checked"} => Files!Seen(s)' = saves[s].base
        BY <3>1 DEF FilesInv, SavesLooked, Files!Seen
      <4> QED  BY <4>1, <4>2, <3>1 DEF SavesLooked
    <3>5. ASSUME NEW w \in 1..Files!Current', versions'[w].by \in Save,
                 NEW v \in versions'[w].base + 1 .. w - 1
          PROVE  versions'[v].by = Outside /\ versions'[w].by \in versions'[v].past
      <4>1. w \in 1..Files!Current
        BY <3>2, <3>5, Files!FilesAssumption DEF Files!FilesAssumption
      <4>2. versions'[w] = versions[w] /\ versions[w].base \in Nat
        BY <4>1, <3>2, VersionsTyped DEF FilesInv
      <4>3. v \in 1..Files!Current
        BY <4>1, <4>2, <3>2, <3>5
      <4> QED  BY <4>1, <4>2, <4>3, <3>2, <3>5 DEF FilesInv, Files!NoSaveLost
    <3> QED  BY <3>3, <3>4, <3>5 DEF FilesInv, Files!NoSaveLost
  <2>10. CASE UNCHANGED Files!vars
    BY <2>10
    DEF Files!vars, FilesInv, Files!TypeOK, FileLockHeld, SavesLooked, Files!Seen,
        Files!NoSaveLost, Files!Current
  <2> QED  BY <2>1, <2>2, <2>3, <2>4, <2>5, <2>6, <2>7, <2>8, <2>9, <2>10 DEF Files!Next
<1> QED  BY <1>1, <1>2, PTL DEF Files!Spec

\* No save of any process overwrites what its author has not seen, except for a
\* write from outside the lock between its second look and its rename.
THEOREM SavesAreNotLost == PartsSpec => []NoSaveLost
<1>1. FilesInv => NoSaveLost
  BY DEF FilesInv, NoSaveLost
<1>2. Files!Spec => []FilesInv
  BY PartsAssumption, FilesInvHolds
<1> QED  BY <1>1, <1>2, FilesIsAPart, PTL

-----------------------------------------------------------------------------
\* The fork requests

\* What an entry says of its fork ...
EntriesTell(kept) ==
  \A k \in Key : kept[k] # None =>
    /\ kept[k].fork \in 1..Len(forks)
    /\ LET fork == forks[kept[k].fork]
       IN  /\ fork.key = k /\ fork.life = life /\ fork.arguments = kept[k].arguments
           /\ kept[k].expires = IF fork.till = None THEN None ELSE fork.till + Ttl

\* ... and that a fork of this server has one until its time to live has passed.
ForksAreKept(kept) ==
  \A n \in 1..Len(forks) :
    LET fork == forks[n]
    IN  /\ fork.life <= life
        /\ fork.life = life =>
             \/ kept[fork.key] # None /\ kept[fork.key].fork = n
             \/ fork.till # None /\ now >= fork.till + Ttl

AnswersTell ==
  \A k \in Key : \A a \in answers[k] : a[2] \in 1..Len(forks)

ForksInv ==
  Forks!TypeOK /\ EntriesTell(entries) /\ ForksAreKept(entries) /\ AnswersTell
      /\ Forks!ForkOnce

ForkRecord == [key : Key, arguments : Arguments, from : Forks!Times,
               till : Forks!Times \cup {None}, life : Nat]

LEMMA ForksTyped ==
  ASSUME Forks!TypeOK
  PROVE  /\ Len(forks) \in Nat
         /\ \A n \in 1..Len(forks) : forks[n] \in ForkRecord
<1>1. forks \in Seq(ForkRecord)
  BY DEF Forks!TypeOK, ForkRecord
<1> QED  BY <1>1

\* What run() forgets, it may forget.
LEMMA PrunedKeeps ==
  ASSUME Forks!ForkAssumption, ForksInv
  PROVE  /\ Forks!Pruned \in [Key -> Forks!Entry \cup {None}]
         /\ EntriesTell(Forks!Pruned) /\ ForksAreKept(Forks!Pruned)
         /\ \A k \in Key : Forks!Pruned[k] \in {entries[k], None}
<1>1. \A k \in Key : Forks!Pruned[k] = entries[k] \/ (Forks!Pruned[k] = None
    /\ Forks!Expired(entries[k]))
  BY DEF Forks!Pruned
<1>2. Forks!Pruned \in [Key -> Forks!Entry \cup {None}]
  BY DEF ForksInv, Forks!TypeOK, Forks!Pruned
<1>3. EntriesTell(Forks!Pruned)
  BY <1>1 DEF ForksInv, EntriesTell
<1>4. ForksAreKept(Forks!Pruned)
  <2> SUFFICES ASSUME NEW n \in 1..Len(forks)
               PROVE  /\ forks[n].life <= life
                      /\ forks[n].life = life =>
                           \/ Forks!Pruned[forks[n].key] # None
                               /\ Forks!Pruned[forks[n].key].fork = n
                           \/ forks[n].till # None /\ now >= forks[n].till + Ttl
    BY DEF ForksAreKept
  <2> DEFINE k == forks[n].key
  <2>1. k \in Key
    BY ForksTyped DEF ForksInv, ForkRecord
  <2>2. CASE Forks!Pruned[k] = entries[k]
    BY <2>2 DEF ForksInv, ForksAreKept
  <2>3. CASE Forks!Expired(entries[k]) /\ entries[k].fork = n
    <3>1. entries[k].expires # None /\ entries[k].expires <= now
      BY <2>3 DEF Forks!Expired
    <3>2. entries[k].expires = IF forks[n].till = None THEN None ELSE forks[n].till + Ttl
      BY <2>1, <2>3 DEF ForksInv, EntriesTell, Forks!Expired
    <3> QED  BY <3>1, <3>2 DEF ForksInv, ForksAreKept
  <2>4. CASE entries[k].fork # n
    BY <2>4 DEF ForksInv, ForksAreKept
  <2> QED  BY <1>1, <2>1, <2>2, <2>3, <2>4
<1> QED  BY <1>1, <1>2, <1>3, <1>4

LEMMA AnswerAdded ==
  ASSUME NEW T, NEW all \in [Key -> SUBSET T], NEW k \in Key, NEW x \in T, NEW more,
         more = [all EXCEPT ![k] = @ \cup {x}]
  PROVE  /\ more \in [Key -> SUBSET T]
         /\ \A q \in Key : \A a \in more[q] : a \in all[q] \/ (q = k /\ a = x)
<1>1. more \in [Key -> SUBSET T]
  OBVIOUS
<1>2. more[k] = all[k] \cup {x} /\ \A q \in Key : q # k => more[q] = all[q]
  OBVIOUS
<1>3. ASSUME NEW q \in Key, NEW a \in more[q]
      PROVE  a \in all[q] \/ (q = k /\ a = x)
  BY <1>2, Zenon
<1> QED  BY <1>1, <1>3

LEMMA ForksInvHolds == ASSUME Forks!ForkAssumption PROVE Forks!Spec => []ForksInv
<1> USE Forks!ForkAssumption DEF Forks!ForkAssumption
<1>1. Forks!Init => ForksInv
  BY DEF Forks!Init, ForksInv, Forks!TypeOK, EntriesTell, ForksAreKept, AnswersTell,
      Forks!ForkOnce, Forks!Times
<1>2. ForksInv /\ [Forks!Next]_(Forks!vars) => ForksInv'
  <2> SUFFICES ASSUME ForksInv, [Forks!Next]_(Forks!vars)  PROVE ForksInv'
    OBVIOUS
  <2> USE DEF ForksInv
  <2>1. ASSUME NEW k \in Key, NEW args \in Arguments, Forks!ForkBegins(k, args)
        PROVE  ForksInv'
    <3> DEFINE new  == [key |-> k, arguments |-> args, from |-> now, till |-> None,
                        life |-> life]
               last == Len(forks) + 1
    <3>1. /\ Forks!Pruned[k] = None /\ forks' = Append(forks, new)
          /\ entries' = [Forks!Pruned EXCEPT ![k] = [arguments |-> args, fork |-> last,
                                               expires |-> None]]
          /\ UNCHANGED <<now, answers, life>>
      BY <2>1 DEF Forks!ForkBegins, Forks!Admitted
    <3>2. new \in ForkRecord
      BY DEF Forks!TypeOK, ForkRecord, Forks!Times
    <3>3. /\ forks' \in Seq(ForkRecord) /\ Len(forks') = last /\ forks'[last] = new
          /\ Len(forks) \in Nat /\ \A n \in 1..Len(forks) : forks'[n] = forks[n]
      <4>1. forks \in Seq(ForkRecord)
        BY DEF Forks!TypeOK, ForkRecord
      <4> HIDE DEF new
      <4> QED  BY <3>1, <3>2, <4>1, AppendProperties
    <3>4. /\ entries' \in [Key -> Forks!Entry \cup {None}]
          /\ entries'[k] = [arguments |-> args, fork |-> last, expires |-> None]
          /\ entries'[k] \in Forks!Entry /\ entries'[k] # None
          /\ \A q \in Key \ {k} : entries'[q] = Forks!Pruned[q]
      <4>1. [arguments |-> args, fork |-> last, expires |-> None] \in Forks!Entry
        BY <3>3 DEF Forks!Entry
      <4> HIDE DEF last
      <4> QED  BY <3>1, <4>1, PrunedKeeps
    <3>5. Forks!TypeOK'
      BY <3>1, <3>3, <3>4 DEF Forks!TypeOK, ForkRecord
    <3>6. EntriesTell(entries)'
      <4>1. ASSUME NEW q \in Key \ {k}, entries'[q] # None
            PROVE  /\ entries'[q].fork \in 1..Len(forks)
                   /\ forks'[entries'[q].fork] = forks[entries'[q].fork]
        BY <3>3, <3>4, <4>1, PrunedKeeps DEF EntriesTell
      <4>2. forks'[entries'[k].fork] = new
        BY <3>3, <3>4
      <4> QED  BY <3>1, <3>3, <3>4, <4>1, <4>2, PrunedKeeps DEF EntriesTell
    <3>7. ForksAreKept(entries)'
      <4>1. ASSUME NEW n \in 1..Len(forks)
            PROVE  /\ forks'[n] = forks[n] /\ forks[n].life <= life
                   /\ forks[n].life = life =>
                        \/ entries'[forks[n].key] # None
                            /\ entries'[forks[n].key].fork = n
                        \/ forks[n].till # None /\ now >= forks[n].till + Ttl
        <5>1. forks[n].key \in Key
          BY ForksTyped DEF ForkRecord
        <5> QED  BY <3>1, <3>3, <3>4, <5>1, PrunedKeeps DEF ForksAreKept
      <4>2. life <= life
        BY DEF Forks!TypeOK
      <4> QED  BY <3>1, <3>3, <3>4, <4>1, <4>2 DEF ForksAreKept
    <3>8. AnswersTell'
      BY <3>1, <3>3 DEF AnswersTell
    <3>9. Forks!ForkOnce'
      <4>1. ASSUME NEW m \in 1..Len(forks), forks[m].key = k, forks[m].life = life
            PROVE  forks[m].till # None /\ now >= forks[m].till + Ttl
        BY <3>1, <4>1, PrunedKeeps DEF ForksAreKept
      <4>2. ASSUME NEW m \in 1..Len(forks'), NEW n \in 1..Len(forks'), m < n,
                   forks'[m].key = forks'[n].key, forks'[m].life = forks'[n].life
            PROVE  forks'[m].till # None /\ forks'[n].from >= forks'[m].till + Ttl
        <5>1. m \in 1..Len(forks) /\ forks'[m] = forks[m]
          BY <3>3, <4>2
        <5>2. CASE n = last
          BY <3>3, <4>1, <4>2, <5>1, <5>2
        <5>3. CASE n # last
          BY <3>3, <4>2, <5>1, <5>3 DEF Forks!ForkOnce
        <5> QED  BY <5>2, <5>3
      <4>3. ASSUME NEW q \in Key, NEW a \in answers'[q]
            PROVE  forks'[a[2]].key = q /\ forks'[a[2]].arguments = a[1]
        BY <3>1, <3>3 DEF Forks!ForkOnce, AnswersTell
      <4> QED  BY <4>2, <4>3 DEF Forks!ForkOnce
    <3> QED  BY <3>5, <3>6, <3>7, <3>8, <3>9
  <2>2. ASSUME NEW k \in Key, Forks!Refused(k)  PROVE ForksInv'
    <3>1. entries' = Forks!Pruned /\ UNCHANGED <<now, forks, answers, life>>
      BY <2>2 DEF Forks!Refused
    <3> QED  BY <3>1, PrunedKeeps
             DEF Forks!TypeOK, EntriesTell, ForksAreKept, AnswersTell, Forks!ForkOnce
  <2>3. ASSUME NEW k \in Key, NEW args \in Arguments, Forks!Repeated(k,
      args)  PROVE ForksInv'
    <3>1. entries' = Forks!Pruned /\ Forks!Pruned[k] # None /\ UNCHANGED <<now, forks,
        life>>
      BY <2>3 DEF Forks!Repeated
    <3>2. \/ answers' = answers
          \/ /\ answers' = [answers EXCEPT ![k] = @ \cup {<<args,
              Forks!Pruned[k].fork>>}]
             /\ Forks!Pruned[k].arguments = args
      BY <2>3 DEF Forks!Repeated, Forks!SameRequest
    <3> DEFINE f == Forks!Pruned[k].fork
    <3>3. f \in 1..Len(forks) /\ forks[f].key = k
        /\ forks[f].arguments = Forks!Pruned[k].arguments
      BY <3>1, PrunedKeeps DEF EntriesTell
    <3>4. /\ Forks!TypeOK'
          /\ \A q \in Key : \A a \in answers'[q] :
               \/ a \in answers[q]
               \/ q = k /\ a = <<args, f>> /\ forks[f].arguments = args
      <4>1. f \in Nat
        BY <3>3, ForksTyped
      <4> HIDE DEF f
      <4>2. answers' \in [Key -> SUBSET (Arguments \X Nat)]
        BY <3>2, <4>1 DEF Forks!TypeOK, f
      <4> QED  BY <3>1, <3>2, <3>3, <4>2, PrunedKeeps DEF Forks!TypeOK, f
    <3> HIDE DEF f
    <3>5. AnswersTell' /\ Forks!ForkOnce'
      BY <3>1, <3>3, <3>4 DEF AnswersTell, Forks!ForkOnce
    <3> QED  BY <3>1, <3>4, <3>5, PrunedKeeps DEF EntriesTell, ForksAreKept
  <2>4. ASSUME NEW n \in 1..Len(forks), Forks!ForkEnds(n)  PROVE ForksInv'
    <3> DEFINE k    == forks[n].key
               done == [forks[n] EXCEPT !.till = now]
    <3>1. /\ forks[n].till = None /\ forks[n].life = life
          /\ forks' = [forks EXCEPT ![n] = done]
          /\ entries' = [entries EXCEPT ![k].expires = now + Ttl]
          /\ answers' = [answers EXCEPT ![k] = @ \cup {<<forks[n].arguments, n>>}]
          /\ UNCHANGED <<now, life>>
      BY <2>4 DEF Forks!ForkEnds, Forks!Expiry
    <3>2. /\ forks[n] \in ForkRecord /\ forks \in Seq(ForkRecord) /\ k \in Key
          /\ now \in Forks!Times /\ now \in Nat /\ now + Ttl \in Forks!Times
              /\ now # None
      <4>1. forks[n] \in ForkRecord
        BY ForksTyped
      <4> QED  BY <4>1 DEF Forks!TypeOK, ForkRecord, Forks!Times
    <3>3. /\ done \in ForkRecord /\ done.till = now /\ done.key = k
          /\ done.arguments = forks[n].arguments /\ done.life = life
          /\ done.from = forks[n].from
      BY <3>1, <3>2 DEF ForkRecord
    <3> HIDE DEF done
    <3>4. /\ forks' \in Seq(ForkRecord) /\ Len(forks') = Len(forks) /\ forks'[n] = done
          /\ \A m \in 1..Len(forks) : m # n => forks'[m] = forks[m]
      BY <3>1, <3>2, <3>3, ExceptSeq
    <3>5. entries[k] # None /\ entries[k].fork = n /\ entries[k] \in Forks!Entry
      BY <3>1, <3>2 DEF ForksAreKept, Forks!TypeOK
    <3>6. /\ entries' \in [Key -> Forks!Entry \cup {None}]
          /\ entries'[k] = [entries[k] EXCEPT !.expires = now + Ttl]
          /\ entries'[k] \in Forks!Entry /\ entries'[k] # None
          /\ \A q \in Key \ {k} : entries'[q] = entries[q]
      <4>1. [entries[k] EXCEPT !.expires = now + Ttl] \in Forks!Entry
        BY <3>2, <3>5 DEF Forks!Entry
      <4> HIDE DEF k
      <4> QED  BY <3>1, <3>2, <4>1 DEF Forks!TypeOK
    <3>7. entries'[k].expires = now + Ttl /\ entries'[k].fork = n
          /\ entries'[k].arguments = entries[k].arguments
      BY <3>5, <3>6 DEF Forks!Entry
    <3>8. /\ answers' \in [Key -> SUBSET (Arguments \X Nat)]
          /\ \A q \in Key : \A a \in answers'[q] :
               a \in answers[q] \/ (q = k /\ a = <<forks[n].arguments, n>>)
      <4>1. <<forks[n].arguments, n>> \in Arguments \X Nat
        BY <3>2 DEF ForkRecord
      <4> HIDE DEF k
      <4>2. answers \in [Key -> SUBSET (Arguments \X Nat)]
        BY DEF Forks!TypeOK
      <4> DEFINE x == <<forks[n].arguments, n>>
      <4>3. answers' = [answers EXCEPT ![k] = @ \cup {x}] /\ x \in Arguments \X Nat
        BY <3>1, <4>1
      <4> HIDE DEF x
      <4>4. /\ answers' \in [Key -> SUBSET (Arguments \X Nat)]
            /\ \A q \in Key : \A a \in answers'[q] : a \in answers[q] \/ (q = k
                /\ a = x)
        BY <3>2, <4>2, <4>3, AnswerAdded
      <4> QED  BY <4>4 DEF x
    <3> HIDE DEF k
    <3>9. Forks!TypeOK'
      BY <3>1, <3>4, <3>6, <3>8 DEF Forks!TypeOK, ForkRecord
    <3>10. EntriesTell(entries)'
      <4> SUFFICES ASSUME NEW q \in Key, entries'[q] # None
                   PROVE  /\ entries'[q].fork \in 1..Len(forks')
                          /\ forks'[entries'[q].fork].key = q
                          /\ forks'[entries'[q].fork].life = life'
                          /\ forks'[entries'[q].fork].arguments = entries'[q].arguments
                          /\ entries'[q].expires = IF forks'[entries'[q].fork].till = None
                               THEN None ELSE forks'[entries'[q].fork].till + Ttl
        BY DEF EntriesTell
      <4>1. CASE q = k
        BY <3>1, <3>2, <3>3, <3>4, <3>5, <3>6, <3>7, <4>1 DEF EntriesTell, k
      <4>2. CASE q # k
        <5>1. entries'[q] = entries[q] /\ entries[q].fork \in 1..Len(forks)
              /\ forks[entries[q].fork].key = q
          BY <3>6, <4>2 DEF EntriesTell
        <5>2. entries[q].fork # n
          BY <4>2, <5>1 DEF k
        <5>3. forks'[entries[q].fork] = forks[entries[q].fork] /\ entries[q] # None
          BY <3>4, <5>1, <5>2
        <5> DEFINE e == entries[q]
        <5>4. /\ forks[e.fork].life = life /\ forks[e.fork].arguments = e.arguments
              /\ e.expires = IF forks[e.fork].till = None THEN None
                             ELSE forks[e.fork].till + Ttl
          BY <5>3 DEF EntriesTell
        <5> HIDE DEF e
        <5> QED  BY <3>1, <3>4, <5>1, <5>3, <5>4 DEF e
      <4> QED  BY <4>1, <4>2
    <3>11. ForksAreKept(entries)'
      <4> SUFFICES ASSUME NEW m \in 1..Len(forks)
                   PROVE  /\ forks'[m].life <= life
                          /\ forks'[m].life = life =>
                               \/ /\ entries'[forks'[m].key] # None
                                  /\ entries'[forks'[m].key].fork = m
                               \/ forks'[m].till # None /\ now >= forks'[m].till + Ttl
        BY <3>1, <3>4 DEF ForksAreKept
      <4>1. CASE m = n
        BY <3>1, <3>3, <3>4, <3>6, <3>7, <4>1 DEF ForksAreKept
      <4>2. CASE m # n
        <5>1. forks'[m] = forks[m] /\ forks[m].key \in Key
          BY <3>4, <4>2, ForksTyped DEF ForkRecord
        <5>2. CASE forks[m].key = k
          BY <3>5, <3>6, <3>7, <4>2, <5>1, <5>2 DEF ForksAreKept
        <5>3. CASE forks[m].key # k
          BY <3>6, <5>1, <5>3 DEF ForksAreKept
        <5> QED  BY <5>2, <5>3
      <4> QED  BY <4>1, <4>2
    <3>12. AnswersTell'
      BY <3>4, <3>8 DEF AnswersTell
    <3>13. Forks!ForkOnce'
      <4>1. \A m \in 1..Len(forks) : /\ forks'[m].key = forks[m].key
                                     /\ forks'[m].life = forks[m].life
                                     /\ forks'[m].from = forks[m].from
                                     /\ forks'[m].arguments = forks[m].arguments
                                     /\ forks[m].till # None
                                         => forks'[m].till = forks[m].till
        BY <3>1, <3>3, <3>4 DEF k
      <4>2. \A q \in Key : \A a \in answers'[q] : forks'[a[2]].key = q
                                                  /\ forks'[a[2]].arguments = a[1]
        BY <3>3, <3>4, <3>8, <4>1 DEF Forks!ForkOnce, AnswersTell, k
      <4> QED  BY <3>4, <4>1, <4>2 DEF Forks!ForkOnce
    <3> QED  BY <3>9, <3>10, <3>11, <3>12, <3>13
  <2>5. CASE Forks!ClockTicks
    <3>1. now \in Nat /\ now' = now + 1 /\ now' \in 0..MaxTime
          /\ UNCHANGED <<entries, forks, answers, life>>
      BY <2>5 DEF Forks!ClockTicks, Forks!TypeOK
    <3>2. ForksAreKept(entries)'
      <4>1. ASSUME NEW n \in 1..Len(forks), forks[n].till # None
            PROVE  now >= forks[n].till + Ttl => now + 1 >= forks[n].till + Ttl
        BY <3>1, <4>1, ForksTyped DEF ForkRecord, Forks!Times
      <4> QED  BY <3>1, <4>1 DEF ForksAreKept
    <3> QED  BY <3>1, <3>2 DEF Forks!TypeOK, EntriesTell, AnswersTell, Forks!ForkOnce
  <2>6. CASE Forks!Restart
    <3>1. life \in Nat /\ life' = life + 1 /\ life' \in 0..MaxRestarts
          /\ entries' = [k \in Key |-> None] /\ UNCHANGED <<now, forks, answers>>
      BY <2>6 DEF Forks!Restart, Forks!TypeOK
    <3>2. \A n \in 1..Len(forks) : forks[n].life <= life /\ forks[n].life \in Nat
      BY ForksTyped DEF ForksAreKept, ForkRecord
    <3>3. ForksAreKept(entries)'
      BY <3>1, <3>2 DEF ForksAreKept
    <3> QED  BY <3>1, <3>3 DEF Forks!TypeOK, EntriesTell, AnswersTell, Forks!ForkOnce
  <2>7. CASE UNCHANGED Forks!vars
    BY <2>7 DEF Forks!vars, Forks!TypeOK, EntriesTell, ForksAreKept, AnswersTell,
        Forks!ForkOnce
  <2> QED  BY <2>1, <2>2, <2>3, <2>4, <2>5, <2>6, <2>7 DEF Forks!Next
<1> QED  BY <1>1, <1>2, PTL DEF Forks!Spec

\* Within its time to live, what is asked again is answered by the fork that was made
\* for it: a key makes one fork in one life of the server.
THEOREM ForksAreMadeOnce == PartsSpec => []ForkOnce
<1>1. ForksInv => ForkOnce
  BY DEF ForksInv, ForkOnce
<1>2. Forks!Spec => []ForksInv
  BY PartsAssumption, ForksInvHolds
<1> QED  BY <1>1, <1>2, ForksIsAPart, PTL

-----------------------------------------------------------------------------
\* The request cache

\* What a request that is under way will bring: an answer that was read holds what the
\* cache was told before the request began, and what it was told since may be missing.
TaskBrings ==
  task # None => /\ task.at = "read" => task.after \subseteq task.answer
                 /\ task.after = told \/ missed
                 /\ task.at = "wait" => task.attempt <= MaxRetries

\* Only writes that the server has made are told, or waited for.
ToldAreMade ==
  /\ told \subseteq 1..version
  /\ \A o \in untold : o.write \in 1..version
  /\ task # None => task.after \subseteq 1..version

CacheInv == Cache!TypeOK /\ TaskBrings /\ ToldAreMade /\ Cache!ToldIsShown
    /\ Cache!PanelsAreServed

\* loadRequest() leaves a request under way, or data that are fresh.
LEMMA LoadKeeps ==
  ASSUME Cache!CacheAssumption, Cache!TypeOK, NEW force \in BOOLEAN,
      NEW after \in Cache!Data,
         Cache!Load(force, after)
  PROVE  \/ /\ task' = task /\ cached' = cached
            /\ task # None \/ (~force /\ Cache!Fresh)
         \/ /\ task = None /\ task' \in Cache!Task /\ task' # None
            /\ task'.at = "asked" /\ task'.after = after
            /\ cached' \in [status : {"loading", "refreshing"},
                data : Cache!Data \cup {None},
                            updatedAt : {"null", "lately", "before"}]
<1>1. CASE task # None \/ Cache!Enough(force)
  BY <1>1 DEF Cache!Load, Cache!Enough
<1>2. CASE ~(task # None \/ Cache!Enough(force))
  <2> DEFINE new == [at |-> "asked", attempt |-> 1, answer |-> None, after |-> after]
  <2>1. new \in Cache!Task
    BY DEF Cache!Task, Cache!CacheAssumption
  <2>2. task' = new /\ task = None
        /\ cached' = [cached EXCEPT
             !.status = IF cached.data = None THEN "loading" ELSE "refreshing"]
    BY <1>2 DEF Cache!Load
  <2> QED  BY <2>1, <2>2 DEF Cache!TypeOK, Cache!CacheAssumption
<1> QED  BY <1>1, <1>2

LEMMA CacheInvHolds == ASSUME Cache!CacheAssumption PROVE Cache!Spec => []CacheInv
<1>1. Cache!Init => CacheInv
  <2> SUFFICES ASSUME Cache!Init  PROVE CacheInv
    OBVIOUS
  <2>1. /\ MaxWrites \in Nat /\ panels = [p \in Panel |-> "closed"] /\ delays = {}
        /\ untold = {}
        /\ cached = [status |-> "idle", data |-> None, updatedAt |-> "null"]
        /\ told = {} /\ version = 0
        /\ task = None /\ missed = FALSE /\ dropped = FALSE
    BY DEF Cache!CacheAssumption, Cache!Init
  <2>4. told \in Cache!Data /\ version \in 0..MaxWrites
    BY <2>1 DEF Cache!Data
  <2>3. Cache!TypeOK
    BY <2>1, <2>4 DEF Cache!TypeOK
  <2>2. TaskBrings /\ ToldAreMade /\ Cache!ToldIsShown /\ Cache!PanelsAreServed
    BY DEF Cache!Init, TaskBrings, ToldAreMade, Cache!ToldIsShown,
        Cache!PanelsAreServed, Cache!Fresh
  <2> QED  BY <2>2, <2>3 DEF CacheInv
<1>2. CacheInv /\ [Cache!Next]_(Cache!cacheVars) => CacheInv'
  <2> SUFFICES ASSUME CacheInv, [Cache!Next]_(Cache!cacheVars)  PROVE CacheInv'
    OBVIOUS
  <2> USE Cache!CacheAssumption DEF CacheInv
  <2>0. /\ told \in Cache!Data /\ told \subseteq 1..version
        /\ version \in Nat /\ version <= MaxWrites
        /\ MaxWrites \in Nat /\ MaxRetries \in Nat /\ None \notin Cache!Task
        /\ Cache!TypeOK /\ TaskBrings /\ ToldAreMade /\ Cache!ToldIsShown
            /\ Cache!PanelsAreServed
    BY DEF Cache!TypeOK, ToldAreMade, Cache!Data, Cache!CacheAssumption
  <2> HIDE DEF CacheInv
  <2>1. ASSUME NEW next \in [Panel -> {"closed", "disabled", "enabled"}],
               Cache!Commit(next)
        PROVE  CacheInv'
    <3> DEFINE begin == {p \in Panel : next[p] = "enabled" /\ panels[p] # "enabled"}
               loads == begin \ Debounced # {}
    <3>1. /\ panels' = next /\ dropped' = (dropped /\ ~loads)
          /\ delays' = {p \in delays : next[p] = "enabled"} \cup (begin \cap Debounced)
          /\ UNCHANGED <<version, untold, told>>
      BY <2>1 DEF Cache!Commit
    <3>2. /\ panels' \in [Panel -> {"closed", "disabled", "enabled"}]
          /\ delays' \subseteq Debounced /\ dropped' \in BOOLEAN
      BY <2>0, <3>1 DEF Cache!TypeOK
    \* Who is enabled after the commit was so before, or begins.
    <3>3. ASSUME NEW p \in Panel, panels'[p] = "enabled"
          PROVE  loads \/ p \in delays' \/ (panels[p] = "enabled" /\ p \notin delays)
      BY <3>1, <3>3
    <3>4. CASE Cache!Abandoned(next)
      <4>1. /\ task' = None /\ cached' = Cache!Settled(cached)
            /\ missed' = (missed \/ Cache!Behind)
            /\ \A p \in Panel : panels'[p] = "closed"
        BY <2>1, <3>1, <3>4 DEF Cache!Commit, Cache!Abandoned
      <4>2. Cache!TypeOK'
        BY <2>0, <3>1, <3>2, <4>1 DEF Cache!TypeOK, Cache!Settled
      <4>3. Cache!ToldIsShown' /\ Cache!PanelsAreServed'
        BY <2>0, <3>1, <4>1 DEF Cache!TypeOK, Cache!Settled, Cache!ToldIsShown,
            Cache!PanelsAreServed, Cache!Fresh, Cache!Behind
      <4> QED  BY <2>0, <3>1, <4>1, <4>2, <4>3 DEF CacheInv, TaskBrings, ToldAreMade
    <3>5. CASE ~Cache!Abandoned(next) /\ loads
      <4>1. Cache!Load(FALSE, told) /\ missed' = missed
        BY <2>1, <3>5 DEF Cache!Commit
      <4>2. \/ /\ task' = task /\ cached' = cached
               /\ task # None \/ Cache!Fresh
            \/ /\ task = None /\ task' \in Cache!Task /\ task' # None
               /\ task'.at = "asked" /\ task'.after = told
               /\ cached' \in [status : {"loading", "refreshing"},
                               data : Cache!Data \cup {None},
                               updatedAt : {"null", "lately", "before"}]
        BY <2>0, <4>1, LoadKeeps
      <4>3. Cache!TypeOK'
        BY <2>0, <3>1, <3>2, <4>1, <4>2 DEF Cache!TypeOK
      <4>4. TaskBrings' /\ ToldAreMade' /\ Cache!ToldIsShown' /\ Cache!PanelsAreServed'
        BY <2>0, <3>1, <4>1, <4>2
        DEF TaskBrings, ToldAreMade, Cache!ToldIsShown, Cache!PanelsAreServed,
            Cache!Fresh
      <4> QED  BY <4>3, <4>4 DEF CacheInv
    <3>6. CASE ~Cache!Abandoned(next) /\ ~loads
      <4>1. UNCHANGED <<task, cached, missed>> /\ dropped' = dropped
        BY <2>0, <2>1, <3>1, <3>6 DEF Cache!Commit, Cache!TypeOK
      <4>2. Cache!PanelsAreServed'
        BY <2>0, <3>3, <3>6, <4>1 DEF Cache!PanelsAreServed
      <4>3. Cache!TypeOK'
        BY <2>0, <3>1, <3>2, <4>1 DEF Cache!TypeOK
      <4> QED  BY <2>0, <3>1, <4>1, <4>2, <4>3
               DEF CacheInv, TaskBrings, ToldAreMade, Cache!ToldIsShown, Cache!Fresh
    <3> QED  BY <3>4, <3>5, <3>6
  <2>14. ASSUME NEW p \in Panel, Cache!TimerFires(p)  PROVE CacheInv'
    <3>1. /\ Cache!Load(FALSE, told) /\ dropped' = FALSE /\ delays' \subseteq delays
          /\ UNCHANGED <<panels, version, untold, told, missed>>
      BY <2>14 DEF Cache!TimerFires
    <3>2. \/ /\ task' = task /\ cached' = cached
             /\ task # None \/ Cache!Fresh
          \/ /\ task = None /\ task' \in Cache!Task /\ task' # None
             /\ task'.at = "asked" /\ task'.after = told
             /\ cached' \in [status : {"loading", "refreshing"},
                             data : Cache!Data \cup {None},
                             updatedAt : {"null", "lately", "before"}]
      BY <2>0, <3>1, LoadKeeps
    <3>3. Cache!TypeOK'
      BY <2>0, <3>1, <3>2 DEF Cache!TypeOK
    <3>4. TaskBrings' /\ ToldAreMade' /\ Cache!ToldIsShown' /\ Cache!PanelsAreServed'
      BY <2>0, <3>1, <3>2
      DEF TaskBrings, ToldAreMade, Cache!ToldIsShown, Cache!PanelsAreServed, Cache!Fresh
    <3> QED  BY <3>3, <3>4 DEF CacheInv
  <2>2. CASE Cache!Refresh
    <3>1. /\ Cache!Load(TRUE, told) /\ dropped' = FALSE
          /\ UNCHANGED <<panels, delays, version, untold, told, missed>>
      BY <2>2 DEF Cache!Refresh
    <3>2. \/ task' = task /\ cached' = cached /\ task # None
          \/ /\ task = None /\ task' \in Cache!Task /\ task' # None
             /\ task'.at = "asked" /\ task'.after = told
             /\ cached' \in [status : {"loading", "refreshing"},
                 data : Cache!Data \cup {None},
                             updatedAt : {"null", "lately", "before"}]
      BY <2>0, <3>1, LoadKeeps
    <3>3. Cache!TypeOK'
      BY <2>0, <3>1, <3>2 DEF Cache!TypeOK
    <3>4. TaskBrings' /\ ToldAreMade' /\ Cache!ToldIsShown' /\ Cache!PanelsAreServed'
      BY <2>0, <3>1, <3>2
      DEF TaskBrings, ToldAreMade, Cache!ToldIsShown, Cache!PanelsAreServed, Cache!Fresh
    <3> QED  BY <3>3, <3>4 DEF CacheInv
  <2>3. CASE Cache!ServerReads
    <3>1. /\ task # None /\ task' = [task EXCEPT !.at = "read", !.answer = 1..version]
          /\ UNCHANGED <<panels, delays, cached, version, untold, told, missed, dropped>>
      BY <2>3 DEF Cache!ServerReads
    <3>2. task \in Cache!Task /\ 1..version \in Cache!Data
      BY <2>0, <3>1 DEF Cache!TypeOK, Cache!Data, Cache!Writes
    <3>3. /\ task' \in Cache!Task /\ task' # None /\ task'.answer = 1..version
          /\ task'.after = task.after
      <4>1. task' = [at |-> "read", attempt |-> task.attempt, answer |-> 1..version,
                     after |-> task.after]
        BY <3>1, <3>2 DEF Cache!Task
      <4>2. task.attempt \in 1..MaxRetries + 1 /\ task.after \in Cache!Data
        BY <3>2 DEF Cache!Task
      <4>3. task' \in Cache!Task
        BY <3>2, <4>1, <4>2 DEF Cache!Task
      <4> QED  BY <2>0, <4>1, <4>3
    <3>4. Cache!TypeOK'
      BY <2>0, <3>1, <3>3 DEF Cache!TypeOK
    <3>5. TaskBrings' /\ ToldAreMade' /\ Cache!ToldIsShown' /\ Cache!PanelsAreServed'
      BY <2>0, <3>1, <3>3
      DEF TaskBrings, ToldAreMade, Cache!ToldIsShown, Cache!PanelsAreServed, Cache!Fresh
    <3> QED  BY <3>4, <3>5 DEF CacheInv
  <2>4. CASE Cache!Answered
    <3>1. /\ task # None /\ task.at = "read" /\ task' = None
          /\ cached' = [status |-> "success", data |-> task.answer,
                        updatedAt |-> "lately"]
          /\ missed' = (IF task.after = told THEN FALSE ELSE missed)
          /\ UNCHANGED <<panels, delays, version, untold, told, dropped>>
      BY <2>4 DEF Cache!Answered
    <3>2. task \in Cache!Task /\ task.answer \in Cache!Data \cup {None}
      BY <2>0, <3>1 DEF Cache!TypeOK, Cache!Task
    <3>3. Cache!TypeOK'
      BY <2>0, <3>1, <3>2 DEF Cache!TypeOK
    <3>4. Cache!ToldIsShown'
      BY <2>0, <3>1 DEF TaskBrings, Cache!ToldIsShown
    <3> QED  BY <2>0, <3>1, <3>3, <3>4
             DEF CacheInv, TaskBrings, ToldAreMade, Cache!PanelsAreServed
  <2>5. CASE Cache!Fails
    <3>1. /\ task # None /\ UNCHANGED <<panels, delays, version, untold, told, missed, dropped>>
          /\ \/ task' = None /\ cached' = [cached EXCEPT !.status = "error"]
             \/ /\ ~(task.attempt > MaxRetries)
                /\ task' = [task EXCEPT !.at = "wait", !.answer = None]
                /\ cached' = cached
      BY <2>5 DEF Cache!Fails
    <3>2. CASE task' = None /\ cached' = [cached EXCEPT !.status = "error"]
      <4>1. Cache!TypeOK'
        BY <2>0, <3>1, <3>2 DEF Cache!TypeOK
      <4>2. cached'.status = "error"
        BY <2>0, <3>2 DEF Cache!TypeOK
      <4> QED  BY <2>0, <3>1, <3>2, <4>1, <4>2
               DEF CacheInv, TaskBrings, ToldAreMade, Cache!ToldIsShown,
                   Cache!PanelsAreServed, Cache!Fresh
    <3>3. CASE /\ ~(task.attempt > MaxRetries)
               /\ task' = [task EXCEPT !.at = "wait", !.answer = None]
               /\ cached' = cached
      <4>1. task \in Cache!Task
        BY <2>0, <3>1 DEF Cache!TypeOK
      <4>2. /\ task' \in Cache!Task /\ task' # None /\ task'.at = "wait"
            /\ task'.after = task.after /\ task'.attempt <= MaxRetries
        <5>1. task' = [at |-> "wait", attempt |-> task.attempt, answer |-> None,
                       after |-> task.after]
          BY <3>3, <4>1 DEF Cache!Task
        <5>2. task.attempt \in 1..MaxRetries + 1 /\ task.after \in Cache!Data
          BY <4>1 DEF Cache!Task
        <5>3. task' \in Cache!Task
          BY <5>1, <5>2 DEF Cache!Task
        <5>4. task.attempt <= MaxRetries
          BY <2>0, <3>3, <5>2
        <5> QED  BY <2>0, <5>1, <5>3, <5>4
      <4>3. Cache!TypeOK'
        BY <2>0, <3>1, <3>3, <4>2 DEF Cache!TypeOK
      <4>4. TaskBrings' /\ ToldAreMade' /\ Cache!ToldIsShown' /\ Cache!PanelsAreServed'
        BY <2>0, <3>1, <3>3, <4>2
        DEF TaskBrings, ToldAreMade, Cache!ToldIsShown, Cache!PanelsAreServed,
            Cache!Fresh
      <4> QED  BY <4>3, <4>4 DEF CacheInv
    <3> QED  BY <3>1, <3>2, <3>3
  <2>6. CASE Cache!Retries
    <3>1. /\ task # None /\ task.at = "wait"
          /\ task' = [task EXCEPT !.at = "asked", !.attempt = @ + 1]
          /\ UNCHANGED <<panels, delays, cached, version, untold, told, missed, dropped>>
      BY <2>6 DEF Cache!Retries
    <3>2. task \in Cache!Task /\ task.attempt <= MaxRetries
      BY <2>0, <3>1 DEF Cache!TypeOK, TaskBrings
    <3>3. /\ task' \in Cache!Task /\ task' # None /\ task'.at = "asked"
          /\ task'.after = task.after
      <4>1. task' = [at |-> "asked", attempt |-> task.attempt + 1,
                     answer |-> task.answer, after |-> task.after]
        BY <3>1, <3>2 DEF Cache!Task
      <4>2. /\ task.attempt \in 1..MaxRetries + 1 /\ task.after \in Cache!Data
            /\ task.answer \in Cache!Data \cup {None}
        BY <3>2 DEF Cache!Task
      <4>3. task.attempt + 1 \in 1..MaxRetries + 1
        BY <2>0, <3>2, <4>2
      <4>4. task' \in Cache!Task
        BY <4>1, <4>2, <4>3 DEF Cache!Task
      <4> QED  BY <2>0, <4>1, <4>4
    <3>4. Cache!TypeOK'
      BY <2>0, <3>1, <3>3 DEF Cache!TypeOK
    <3>5. TaskBrings' /\ ToldAreMade' /\ Cache!ToldIsShown' /\ Cache!PanelsAreServed'
      BY <2>0, <3>1, <3>3
      DEF TaskBrings, ToldAreMade, Cache!ToldIsShown, Cache!PanelsAreServed, Cache!Fresh
    <3> QED  BY <3>4, <3>5 DEF CacheInv
  <2>7. CASE Cache!TimePasses
    <3>1. /\ cached' = [cached EXCEPT !.updatedAt = "before"]
          /\ UNCHANGED <<panels, delays, task, version, untold, told, missed, dropped>>
      BY <2>7 DEF Cache!TimePasses
    <3>2. Cache!TypeOK' /\ cached'.updatedAt = "before"
        /\ cached'.status = cached.status
      BY <2>0, <3>1 DEF Cache!TypeOK
    <3> QED  BY <2>0, <3>1, <3>2
             DEF CacheInv, TaskBrings, ToldAreMade, Cache!ToldIsShown,
                 Cache!PanelsAreServed, Cache!Fresh
  <2>8. ASSUME NEW own_ \in BOOLEAN, Cache!Write(own_)  PROVE CacheInv'
    <3> DEFINE o == [write |-> version + 1, base |-> cached.data]
    <3>1. /\ version < MaxWrites /\ version' = version + 1
          /\ untold' = untold \/ untold' = untold \cup {o}
          /\ UNCHANGED <<panels, delays, cached, task, told, missed, dropped>>
      BY <2>8 DEF Cache!Write
    <3>2. version' \in 1..MaxWrites /\ 1..version \subseteq 1..version'
      BY <2>0, <3>1 DEF Cache!TypeOK
    <3>3. o.write = version' /\ o \in [write : Cache!Writes,
        base : Cache!Data \cup {None}]
      BY <2>0, <3>1, <3>2 DEF Cache!TypeOK, Cache!Writes
    <3> HIDE DEF o
    <3>4. Cache!TypeOK'
      BY <2>0, <3>1, <3>2, <3>3 DEF Cache!TypeOK
    <3>5. ToldAreMade'
      BY <2>0, <3>1, <3>2, <3>3 DEF ToldAreMade
    <3> QED  BY <2>0, <3>1, <3>4, <3>5
             DEF CacheInv, TaskBrings, Cache!ToldIsShown, Cache!PanelsAreServed,
                 Cache!Fresh
  <2>9. ASSUME NEW o \in untold  PROVE
          /\ o.write \in Cache!Writes /\ o.base \in Cache!Data \cup {None}
              /\ o.write \in 1..version
          /\ Cache!Tell(o) => /\ told' \in Cache!Data /\ told' \subseteq 1..version
                        /\ told' = told \cup {o.write}
                        /\ untold' \subseteq untold
    <3>1. o \in [write : Cache!Writes,
        base : Cache!Data \cup {None}] /\ o.write \in 1..version
      BY <2>0, <2>9 DEF Cache!TypeOK, ToldAreMade
    <3>2. o.write \in Cache!Writes /\ o.base \in Cache!Data \cup {None}
      BY <3>1
    <3> QED  BY <2>0, <3>1, <3>2 DEF Cache!Tell, Cache!Data
  <2>10. ASSUME NEW o \in untold, Cache!TellByRefresh(o)  PROVE CacheInv'
    <3>1. /\ Cache!Tell(o) /\ Cache!Load(TRUE, told') /\ dropped' = FALSE
          /\ missed' = (missed \/ task # None) /\ UNCHANGED <<panels, delays, version>>
      BY <2>10 DEF Cache!TellByRefresh
    <3>2. \/ task' = task /\ cached' = cached /\ task # None
          \/ /\ task = None /\ task' \in Cache!Task /\ task' # None
             /\ task'.at = "asked" /\ task'.after = told'
             /\ cached' \in [status : {"loading", "refreshing"},
                 data : Cache!Data \cup {None},
                             updatedAt : {"null", "lately", "before"}]
      BY <2>0, <2>9, <3>1, LoadKeeps
    <3>3. Cache!TypeOK'
      BY <2>0, <2>9, <3>1, <3>2 DEF Cache!TypeOK
    <3>4. TaskBrings' /\ ToldAreMade' /\ Cache!ToldIsShown' /\ Cache!PanelsAreServed'
      BY <2>0, <2>9, <3>1, <3>2
      DEF TaskBrings, ToldAreMade, Cache!ToldIsShown, Cache!PanelsAreServed
    <3> QED  BY <3>3, <3>4 DEF CacheInv
  <2>11. ASSUME NEW o \in untold, Cache!TellByData(o)  PROVE CacheInv'
    <3>1. /\ Cache!Tell(o) /\ o.base # None
          /\ cached' = [status |-> "success", data |-> o.base \cup {o.write},
                        updatedAt |-> "lately"]
          /\ missed' = (missed \/ task # None \/ ~(told \subseteq o.base))
          /\ UNCHANGED <<panels, delays, task, version, dropped>>
      BY <2>11 DEF Cache!TellByData
    <3>2. o.base \cup {o.write} \in Cache!Data
      BY <2>9, <3>1 DEF Cache!Data
    <3>3. Cache!TypeOK'
      BY <2>0, <2>9, <3>1, <3>2 DEF Cache!TypeOK
    <3>4. Cache!ToldIsShown' /\ Cache!PanelsAreServed'
      BY <2>0, <2>9, <3>1 DEF Cache!ToldIsShown, Cache!PanelsAreServed
    <3>5. TaskBrings' /\ ToldAreMade'
      BY <2>0, <2>9, <3>1 DEF TaskBrings, ToldAreMade
    <3> QED  BY <3>3, <3>4, <3>5 DEF CacheInv
  <2>12. ASSUME NEW o \in untold, NEW drop \in BOOLEAN, Cache!TellByInvalidation(o,
      drop)
         PROVE  CacheInv'
    <3> DEFINE left == IF drop THEN None ELSE cached.data
    <3>1. /\ Cache!Tell(o)
          /\ cached' = Cache!Settled([cached EXCEPT !.data = left,
              !.updatedAt = "null"])
          /\ missed' = (missed \/ task # None)
          /\ dropped' = (dropped \/ drop \/ cached.data = None)
          /\ UNCHANGED <<panels, delays, task, version>>
      BY <2>12 DEF Cache!TellByInvalidation
    <3>2. cached' = [status |-> IF left = None THEN "idle" ELSE "success",
                     data |-> left, updatedAt |-> "null"]
      BY <2>0, <3>1 DEF Cache!TypeOK, Cache!Settled
    <3>6. left \in Cache!Data \cup {None} /\ (left = None => drop \/ cached.data = None)
      BY <2>0 DEF Cache!TypeOK
    <3> HIDE DEF left
    <3>7. /\ cached' \in [status : {"idle", "success"}, data : Cache!Data \cup {None},
                          updatedAt : {"null"}]
          /\ cached'.status = "idle" => left = None
      BY <3>2, <3>6
    <3>9. left = None => dropped'
      BY <3>1, <3>6
    <3>10. missed' \in BOOLEAN /\ dropped' \in BOOLEAN
      BY <3>1
    <3>3. Cache!TypeOK'
      BY <2>0, <2>9, <3>1, <3>7, <3>10 DEF Cache!TypeOK
    <3>4. Cache!ToldIsShown' /\ Cache!PanelsAreServed'
      BY <3>7, <3>9 DEF Cache!ToldIsShown, Cache!PanelsAreServed, Cache!Fresh
    <3>5. TaskBrings' /\ ToldAreMade'
      BY <2>0, <2>9, <3>1 DEF TaskBrings, ToldAreMade
    <3> QED  BY <3>3, <3>4, <3>5 DEF CacheInv
  <2>13. CASE UNCHANGED Cache!cacheVars
    BY <2>0, <2>13 DEF Cache!cacheVars, CacheInv, Cache!TypeOK, TaskBrings,
        ToldAreMade, Cache!ToldIsShown,
                       Cache!PanelsAreServed, Cache!Fresh
  <2> QED  BY <2>1, <2>2, <2>3, <2>4, <2>5, <2>6, <2>7, <2>8, <2>10, <2>11, <2>12,
              <2>13, <2>14 DEF Cache!Next
<1> QED  BY <1>1, <1>2, PTL DEF Cache!Spec

\* Data that pass for fresh hold every write the cache was told of, but for what `missed`
\* stands for; nothing is shown as loading without a request, and an enabled panel finds the
\* cache idle only while its delay runs or after an invalidation that left no data.
THEOREM TheCacheServes == PartsSpec => []CacheServes
<1>1. CacheInv => CacheServes
  BY DEF CacheInv, CacheServes, Cache!CacheServes
<1>2. Cache!Spec => []CacheInv
  BY PartsAssumption, CacheInvHolds
<1> QED  BY <1>1, <1>2, CacheIsAPart, PTL

-----------------------------------------------------------------------------
\* The connections to MCP servers

\* An entry by itself, when the server's tools are of version v: what was closed is not
\* listed, announced or probed any more and leaves no process; and pages that were read
\* before the last change are thrown away, or the news of the change is on its way.
Sound(c, v) ==
  /\ c.closing = "done" => c.process # "up"
  /\ c.listing # None => c.closing = "no" /\ c.phase \in {"listing", "ready"}
  /\ c.notified \/ c.rediscover => c.closing = "no"
  /\ c.health => c.phase = "ready"
  /\ c.listing # None /\ c.process = "up" =>
       c.dirty \/ c.notified \/ \A p \in DOMAIN c.listing : c.listing[p] = v
  /\ c.phase = "ready" /\ c.closing = "no" /\ c.process = "up"
     /\ c.tools # [p \in 1..Mcp!Pages |-> v] =>
       \/ c.notified \/ c.rediscover
       \/ /\ c.listing # None
          /\ c.dirty \/ \A p \in DOMAIN c.listing : c.listing[p] = v

\* The entries and the slot.
McpOwned ==
  /\ \A e \in Mcp!Entry : connections[e].closing = "no" /\ ~connections[e].test => slot = e
  /\ slot # None => /\ connections[slot].closing = "no" /\ ~connections[slot].test
                    /\ shown.by = slot
                    /\ shown.state = "connected" => connections[slot].phase = "ready"
                    /\ saving = 0 /\ ~connections[slot].late =>
                         connections[slot].server = stored
  /\ shown.state \in {"connecting", "connected"} => slot # None

McpTyped ==
  /\ connections \in Seq(Mcp!Connection) /\ slot \in Mcp!Entry \cup {None}
  /\ shown \in [state : {"idle", "connecting", "connected", "disconnected", "error"},
                by : Mcp!Entry \cup {None}]

McpCounted ==
  /\ offered \in Nat /\ mishaps \in Nat /\ saving \in Nat
  /\ past \subseteq Mcp!Config /\ stored \in past
  /\ saving <= stored.n /\ offered + stored.n + mishaps <= MaxEvents

McpInv ==
  McpTyped /\ McpCounted /\ McpOwned /\ (\A e \in Mcp!Entry : Sound(connections[e], offered))

AllSound == \A e \in Mcp!Entry : Sound(connections[e], offered)

McpShown == [state : {"idle", "connecting", "connected", "disconnected", "error"},
          by : Mcp!Entry \cup {None}]

LEMMA OneReplaced ==
  ASSUME NEW S, NEW all \in Seq(S), NEW e \in DOMAIN all, NEW c \in S,
         NEW next, next = [all EXCEPT ![e] = c]
  PROVE  /\ next \in Seq(S) /\ DOMAIN next = DOMAIN all /\ Len(next) = Len(all)
         /\ next[e] = c /\ \A q \in DOMAIN all : q # e => next[q] = all[q]
<1>1. e \in 1..Len(all)
  OBVIOUS
<1> QED  BY <1>1, ExceptSeq

LEMMA FieldsAreTyped ==
  ASSUME NEW r \in Mcp!Connection
  PROVE  /\ \A x \in {"no", "running", "done", "failed"} :
              [r EXCEPT !.closing = x] \in Mcp!Connection
         /\ \A x \in {"waiting", "starting", "listing", "ready", "failed"} :
              [r EXCEPT !.phase = x] \in Mcp!Connection
         /\ \A x \in {"none", "up", "down"} : [r EXCEPT !.process = x] \in Mcp!Connection
         /\ \A x \in {"never", "lately", "before"} :
              [r EXCEPT !.checked = x] \in Mcp!Connection
         /\ \A x \in Seq(Mcp!Version) : [r EXCEPT !.tools = x] \in Mcp!Connection
         /\ \A x \in Seq(Mcp!Version) \cup {None} :
              [r EXCEPT !.listing = x] \in Mcp!Connection
         /\ \A x \in BOOLEAN :
              /\ [r EXCEPT !.dirty = x] \in Mcp!Connection
              /\ [r EXCEPT !.notified = x] \in Mcp!Connection
              /\ [r EXCEPT !.rediscover = x] \in Mcp!Connection
              /\ [r EXCEPT !.health = x] \in Mcp!Connection
<1>1. \A x \in {"no", "running", "done", "failed"} :
        [r EXCEPT !.closing = x] \in Mcp!Connection
  BY DEF Mcp!Connection
<1>2. \A x \in {"waiting", "starting", "listing", "ready", "failed"} :
        [r EXCEPT !.phase = x] \in Mcp!Connection
  BY DEF Mcp!Connection
<1>3. \A x \in {"none", "up", "down"} : [r EXCEPT !.process = x] \in Mcp!Connection
  BY DEF Mcp!Connection
<1>4. \A x \in {"never", "lately", "before"} : [r EXCEPT !.checked = x] \in Mcp!Connection
  BY DEF Mcp!Connection
<1>5. \A x \in Seq(Mcp!Version) : [r EXCEPT !.tools = x] \in Mcp!Connection
  BY DEF Mcp!Connection
<1>6. \A x \in Seq(Mcp!Version) \cup {None} : [r EXCEPT !.listing = x] \in Mcp!Connection
  BY DEF Mcp!Connection
<1>7. ASSUME NEW x \in BOOLEAN  PROVE [r EXCEPT !.dirty = x] \in Mcp!Connection
  BY DEF Mcp!Connection
<1>8. ASSUME NEW x \in BOOLEAN  PROVE [r EXCEPT !.notified = x] \in Mcp!Connection
  BY DEF Mcp!Connection
<1>9. ASSUME NEW x \in BOOLEAN  PROVE [r EXCEPT !.rediscover = x] \in Mcp!Connection
  BY DEF Mcp!Connection
<1>10. ASSUME NEW x \in BOOLEAN  PROVE [r EXCEPT !.health = x] \in Mcp!Connection
  BY DEF Mcp!Connection
<1> QED  BY <1>1, <1>2, <1>3, <1>4, <1>5, <1>6, <1>7, <1>8, <1>9, <1>10

LEMMA NothingReadYet ==
  ASSUME Mcp!McpAssumption  PROVE <<>> \in Seq(Mcp!Version) /\ <<>> # None
<1>1. <<>> \in Seq(Mcp!Version)
  OBVIOUS
<1> QED  BY <1>1 DEF Mcp!McpAssumption

\* What close() makes of an entry.
ShutOne(c) ==
  IF c.closing # "no" THEN c
  ELSE [c EXCEPT !.closing = "running", !.listing = None, !.dirty = FALSE,
                 !.notified = FALSE, !.rediscover = FALSE, !.health = FALSE,
                 !.tools = <<>>, !.checked = "never"]

LEMMA ShutOneKeeps ==
  ASSUME NEW c \in Mcp!Connection, NEW v, Sound(c, v)
  PROVE  /\ ShutOne(c) \in Mcp!Connection /\ Sound(ShutOne(c), v)
         /\ ShutOne(c).closing # "no" /\ ShutOne(c).test = c.test
<1>1. CASE c.closing # "no"
  BY <1>1 DEF ShutOne
<1>2. CASE c.closing = "no"
  <2> DEFINE d == [c EXCEPT !.closing = "running", !.listing = None, !.dirty = FALSE,
                     !.notified = FALSE, !.rediscover = FALSE, !.health = FALSE,
                     !.tools = <<>>, !.checked = "never"]
  <2>1. ShutOne(c) = d
    BY <1>2 DEF ShutOne
  <2>2. <<>> \in Seq(Mcp!Version)
    OBVIOUS
  <2>3. d \in Mcp!Connection
    BY <2>2 DEF Mcp!Connection
  <2>4. /\ d.closing = "running" /\ d.listing = None /\ d.notified = FALSE
        /\ d.rediscover = FALSE /\ d.health = FALSE /\ d.test = c.test
    BY DEF Mcp!Connection
  <2> HIDE DEF d
  <2> QED  BY <2>1, <2>3, <2>4 DEF Sound
<1> QED  BY <1>1, <1>2

LEMMA ShutIs ==
  ASSUME NEW all \in Seq(Mcp!Connection), NEW e \in DOMAIN all
  PROVE  Mcp!Shut(all, e) = [all EXCEPT ![e] = ShutOne(all[e])]
<1>1. CASE all[e].closing # "no"
  <2>1. all = [all EXCEPT ![e] = all[e]]
    OBVIOUS
  <2> QED  BY <1>1, <2>1 DEF Mcp!Shut, ShutOne
<1>2. CASE all[e].closing = "no"
  BY <1>2 DEF Mcp!Shut, ShutOne
<1> QED  BY <1>1, <1>2

\* One entry changes; it stays in the slot, or out of it.
LEMMA OneChanges ==
  ASSUME Mcp!McpAssumption, McpTyped, McpOwned, AllSound,
         NEW e \in Mcp!Entry, NEW c \in Mcp!Connection, Sound(c, offered),
         c.test = connections[e].test, c.late = connections[e].late,
         c.server = connections[e].server,
         c.closing = "no" <=> connections[e].closing = "no",
         connections[e].phase = "ready" => c.phase = "ready",
         connections' = [connections EXCEPT ![e] = c],
         UNCHANGED <<slot, saving, stored, offered>>,
         \/ shown' = shown
         \/ /\ shown' \in McpShown /\ shown'.by = e
            /\ slot = e \/ (slot = None /\ shown'.state = "error")
            /\ shown'.state = "connected" => c.phase = "ready"
  PROVE  McpTyped' /\ McpOwned' /\ AllSound'
<1>1. /\ connections' \in Seq(Mcp!Connection) /\ Mcp!Entry' = Mcp!Entry
      /\ connections'[e] = c
      /\ \A q \in Mcp!Entry : q # e => connections'[q] = connections[q]
  BY OneReplaced DEF McpTyped, Mcp!Entry
<1>2. McpTyped'
  BY <1>1 DEF McpTyped, McpShown
<1>3. AllSound'
  BY <1>1 DEF AllSound
<1>4. McpOwned'
  <2>1. \A q \in Mcp!Entry : connections'[q].closing = "no" /\ ~connections'[q].test
                           => slot' = q
    BY <1>1 DEF McpOwned
  <2>2. slot # None =>
          /\ slot \in Mcp!Entry /\ connections'[slot].closing = "no"
          /\ ~connections'[slot].test
          /\ shown'.by = slot
          /\ shown'.state = "connected" => connections'[slot].phase = "ready"
          /\ saving = 0 /\ ~connections'[slot].late => connections'[slot].server = stored
    BY <1>1 DEF McpOwned, McpTyped
  <2>3. shown'.state \in {"connecting", "connected"} => slot # None
    <3>1. e \in Nat /\ e # None
      BY DEF McpTyped, Mcp!Entry, Mcp!McpAssumption
    <3> QED  BY <3>1 DEF McpOwned
  <2> QED  BY <1>1, <2>1, <2>2, <2>3 DEF McpOwned
<1> QED  BY <1>2, <1>3, <1>4

\* fail() closes an entry, whatever else becomes of it.
LEMMA FailKeeps ==
  ASSUME McpTyped, McpOwned, AllSound,
         NEW e \in Mcp!Entry, NEW c \in Mcp!Connection, Sound(c, offered),
         c.test = connections[e].test,
         NEW state \in {"error", "disconnected"},
         Mcp!Fail(e, state, [connections EXCEPT ![e] = c]),
         UNCHANGED <<saving, stored, offered>>
  PROVE  McpTyped' /\ McpOwned' /\ AllSound'
<1> DEFINE all == [connections EXCEPT ![e] = c]
           d   == ShutOne(c)
<1>1. /\ all \in Seq(Mcp!Connection) /\ DOMAIN all = Mcp!Entry /\ all[e] = c
  BY OneReplaced DEF McpTyped, Mcp!Entry
<1>2. /\ d \in Mcp!Connection /\ Sound(d, offered)
      /\ d.closing # "no" /\ d.test = connections[e].test
  BY ShutOneKeeps
<1>3. connections' = [all EXCEPT ![e] = d]
  BY <1>1, ShutIs DEF Mcp!Fail
<1>4. connections' = [connections EXCEPT ![e] = d]
  BY <1>3
<1> HIDE DEF d
<1>5. /\ connections' \in Seq(Mcp!Connection) /\ Mcp!Entry' = Mcp!Entry
      /\ connections'[e] = d
      /\ \A q \in Mcp!Entry : q # e => connections'[q] = connections[q]
  BY <1>2, <1>4, OneReplaced DEF McpTyped, Mcp!Entry
<1>6. IF slot = e THEN slot' = None /\ shown' = [state |-> state, by |-> e]
      ELSE slot' = slot /\ shown' = shown
  BY DEF Mcp!Fail, Mcp!Show
<1>7. McpTyped'
  BY <1>5, <1>6 DEF McpTyped
<1>8. AllSound'
  BY <1>2, <1>5 DEF AllSound
<1>9. McpOwned'
  <2>1. \A q \in Mcp!Entry : connections'[q].closing = "no" /\ ~connections'[q].test
                           => slot' = q
    BY <1>2, <1>5, <1>6 DEF McpOwned
  <2>2. CASE slot = e
    BY <2>1, <2>2, <1>5, <1>6 DEF McpOwned
  <2>3. CASE slot # e
    BY <2>1, <2>3, <1>5, <1>6 DEF McpOwned, McpTyped
  <2> QED  BY <2>2, <2>3
<1> QED  BY <1>7, <1>8, <1>9

LEMMA MishapsAreCounted ==
  ASSUME Mcp!McpAssumption, McpCounted, UNCHANGED <<stored, past, saving, offered>>,
         mishaps' = mishaps \/ Mcp!Mishap
  PROVE  McpCounted'
<1>1. stored.n \in Nat /\ MaxEvents \in Nat
  BY DEF Mcp!McpAssumption, McpCounted, Mcp!Config
<1>2. mishaps' \in Nat /\ offered + stored.n + mishaps' <= MaxEvents
  BY <1>1 DEF McpCounted, Mcp!Mishap, Mcp!Eventful
<1> QED  BY <1>1, <1>2 DEF McpCounted

\* invalidate() leaves no open entry but those of tests.
LEMMA InvalidatedKeeps ==
  ASSUME Mcp!McpAssumption, McpTyped, McpOwned, AllSound
  PROVE  LET all == Mcp!Invalidated(connections)
         IN  /\ all \in Seq(Mcp!Connection) /\ DOMAIN all = Mcp!Entry
             /\ Len(all) = Len(connections)
             /\ \A e \in Mcp!Entry :
                  /\ Sound(all[e], offered)
                  /\ all[e].closing = "no" => all[e].test
<1>1. CASE slot = None
  <2>1. connections \in Seq(Mcp!Connection) /\ Mcp!Entry = 1..Len(connections)
    BY DEF McpTyped, Mcp!Entry
  <2>2. \A e \in Mcp!Entry : connections[e] \in Mcp!Connection /\ e # None
    BY <2>1 DEF Mcp!McpAssumption
  <2>3. \A e \in Mcp!Entry : connections[e].closing = "no" => connections[e].test
    BY <1>1, <2>2 DEF McpOwned, Mcp!Connection
  <2> QED  BY <1>1, <2>1, <2>3 DEF Mcp!Invalidated, Mcp!Entry, AllSound
<1>2. CASE slot # None
  <2> DEFINE d == ShutOne(connections[slot])
  <2>1. slot \in Mcp!Entry /\ connections[slot] \in Mcp!Connection
    BY <1>2 DEF McpTyped, Mcp!Entry
  <2>2. /\ d \in Mcp!Connection /\ Sound(d, offered) /\ d.closing # "no"
    BY <2>1, ShutOneKeeps DEF AllSound
  <2>3. Mcp!Invalidated(connections) = [connections EXCEPT ![slot] = d]
    BY <1>2, <2>1, ShutIs DEF Mcp!Invalidated, McpTyped, Mcp!Entry
  <2> HIDE DEF d
  <2>4. /\ Mcp!Invalidated(connections) \in Seq(Mcp!Connection)
        /\ DOMAIN Mcp!Invalidated(connections) = Mcp!Entry
        /\ Len(Mcp!Invalidated(connections)) = Len(connections)
        /\ Mcp!Invalidated(connections)[slot] = d
        /\ \A q \in Mcp!Entry : q # slot => Mcp!Invalidated(connections)[q] = connections[q]
    BY <2>1, <2>2, <2>3, OneReplaced DEF McpTyped, Mcp!Entry
  <2> QED  BY <1>2, <2>1, <2>2, <2>4 DEF McpOwned, AllSound
<1> QED  BY <1>1, <1>2

LEMMA OneIsAdded ==
  ASSUME NEW S, NEW all \in Seq(S), NEW c \in S, NEW next, next = Append(all, c)
  PROVE  /\ next \in Seq(S) /\ DOMAIN next = 1..Len(all) + 1
         /\ next[Len(all) + 1] = c /\ \A q \in DOMAIN all : next[q] = all[q]
  BY AppendProperties

LEMMA NewIsSound ==
  ASSUME Mcp!McpAssumption, NEW config \in Mcp!Config, NEW test \in BOOLEAN,
         NEW prior \in Nat \cup {None}
  PROVE  LET c == Mcp!NewConnection(config, test, prior)
         IN  /\ c \in Mcp!Connection /\ \A v : Sound(c, v)
             /\ c.test = test /\ c.closing = "no" /\ c.server = config
             /\ c.late = (config # stored)
<1> DEFINE c == Mcp!NewConnection(config, test, prior)
<1>1. <<>> \in Seq(Mcp!Version) /\ (config # stored) \in BOOLEAN
  OBVIOUS
<1>2. c \in Mcp!Connection
  BY <1>1 DEF Mcp!NewConnection, Mcp!Connection
<1>3. /\ c.test = test /\ c.closing = "no" /\ c.server = config
      /\ c.late = (config # stored) /\ c.listing = None /\ c.phase = "waiting"
      /\ c.notified = FALSE /\ c.rediscover = FALSE /\ c.health = FALSE
  BY DEF Mcp!NewConnection
<1> HIDE DEF c
<1>4. \A v : Sound(c, v)
  BY <1>3 DEF Sound
<1> QED  BY <1>2, <1>3, <1>4 DEF c

LEMMA McpInvHolds == ASSUME Mcp!McpAssumption PROVE Mcp!Spec => []McpInv
<1> USE Mcp!McpAssumption
<1>1. Mcp!Init => McpInv
  <2> SUFFICES ASSUME Mcp!Init  PROVE McpInv
    OBVIOUS
  <2>1. McpTyped /\ Mcp!Entry = {} /\ slot = None /\ shown.state = "idle"
    BY DEF Mcp!Init, McpTyped, Mcp!Entry
  <2>2. McpCounted
    BY DEF Mcp!McpAssumption, Mcp!Init, McpCounted, Mcp!Config
  <2> QED  BY <2>1, <2>2 DEF McpInv, McpOwned
<1>2. McpInv /\ [Mcp!Next]_(Mcp!mcpVars) => McpInv'
  <2> SUFFICES ASSUME McpInv, [Mcp!Next]_(Mcp!mcpVars)  PROVE McpInv'
    OBVIOUS
  <2>0. /\ McpTyped /\ McpOwned /\ AllSound /\ McpCounted
        /\ connections \in Seq(Mcp!Connection) /\ Mcp!Entry = 1..Len(connections)
        /\ \A e \in Mcp!Entry :
             /\ connections[e] \in Mcp!Connection /\ e # None
             /\ Sound(connections[e], offered)
        /\ offered \in Mcp!Version
    BY DEF McpInv, AllSound, McpTyped, Mcp!Entry, McpCounted, Mcp!Config, Mcp!Version,
        Mcp!McpAssumption
  <2>1. ASSUME NEW e \in Mcp!Entry, Mcp!CloseEnds(e)  PROVE McpInv'
    <3> DEFINE c == [connections[e] EXCEPT !.closing = "done",
                       !.process = IF @ = "up" THEN "down" ELSE @]
    <3>1. /\ connections[e].closing = "running"
          /\ connections' = [connections EXCEPT ![e] = c]
          /\ UNCHANGED <<slot, shown, stored, past, saving, offered, mishaps>>
      BY <2>1 DEF Mcp!CloseEnds, Mcp!fileVars
    <3>2. c \in Mcp!Connection
      BY <2>0, <3>1, FieldsAreTyped
    <3>3. /\ c.test = connections[e].test /\ c.late = connections[e].late
          /\ c.server = connections[e].server /\ c.phase = connections[e].phase
          /\ c.tools = connections[e].tools /\ c.listing = connections[e].listing
          /\ c.dirty = connections[e].dirty /\ c.notified = connections[e].notified
          /\ c.rediscover = connections[e].rediscover
          /\ c.health = connections[e].health /\ c.closing = "done"
          /\ c.process = IF connections[e].process = "up" THEN "down"
                             ELSE connections[e].process
      BY <2>0 DEF Mcp!Connection
    <3> HIDE DEF c
    <3>4. Sound(c, offered)
      BY <2>0, <3>1, <3>3 DEF Sound
    <3>6. McpTyped' /\ McpOwned' /\ AllSound'
      BY <2>0, <3>1, <3>2, <3>3, <3>4, OneChanges
    <3>7. McpCounted'
      BY <2>0, <3>1, MishapsAreCounted
    <3> QED  BY <3>6, <3>7 DEF McpInv, AllSound
  <2>2. ASSUME NEW e \in Mcp!Entry, Mcp!CloseFails(e)  PROVE McpInv'
    <3> DEFINE c == [connections[e] EXCEPT !.closing = "failed"]
    <3>1. /\ connections[e].closing = "running"
          /\ connections' = [connections EXCEPT ![e] = c]
          /\ UNCHANGED <<slot, stored, past, saving, offered>>
          /\ Mcp!Mishap
          /\ \/ shown' = shown
             \/ shown' = [state |-> "error", by |-> e] /\ shown.by = e /\ slot # e
      BY <2>2 DEF Mcp!CloseFails, Mcp!Show, Mcp!fileVars
    <3>2. c \in Mcp!Connection
      BY <2>0, <3>1, FieldsAreTyped
    <3>3. /\ c.test = connections[e].test /\ c.late = connections[e].late
          /\ c.server = connections[e].server /\ c.phase = connections[e].phase
          /\ c.process = connections[e].process /\ c.tools = connections[e].tools
          /\ c.listing = connections[e].listing /\ c.dirty = connections[e].dirty
          /\ c.notified = connections[e].notified
          /\ c.rediscover = connections[e].rediscover
          /\ c.health = connections[e].health /\ c.closing = "failed"
      BY <2>0 DEF Mcp!Connection
    <3> HIDE DEF c
    <3>4. Sound(c, offered)
      BY <2>0, <3>1, <3>3 DEF Sound
    <3>5. \/ shown' = shown
          \/ /\ shown' \in McpShown /\ shown'.by = e
             /\ slot = e \/ (slot = None /\ shown'.state = "error")
             /\ shown'.state = "connected" => c.phase = "ready"
      BY <2>0, <3>1, <3>3 DEF McpShown, McpOwned, Sound
    <3>6. McpTyped' /\ McpOwned' /\ AllSound'
      BY <2>0, <3>1, <3>2, <3>3, <3>4, <3>5, OneChanges
    <3>7. McpCounted'
      BY <2>0, <3>1, MishapsAreCounted
    <3> QED  BY <3>6, <3>7 DEF McpInv, AllSound
  <2>3. ASSUME NEW e \in Mcp!Entry, Mcp!Dies(e)  PROVE McpInv'
    <3> DEFINE c == [connections[e] EXCEPT !.process = "down"]
    <3>1. /\ connections' = [connections EXCEPT ![e] = c]
          /\ UNCHANGED <<slot, shown, stored, past, saving, offered>>
          /\ Mcp!Mishap
      BY <2>3 DEF Mcp!Dies, Mcp!fileVars
    <3>2. c \in Mcp!Connection
      BY <2>0, <3>1, FieldsAreTyped
    <3>3. /\ c.test = connections[e].test /\ c.late = connections[e].late
          /\ c.server = connections[e].server /\ c.closing = connections[e].closing
          /\ c.phase = connections[e].phase /\ c.tools = connections[e].tools
          /\ c.listing = connections[e].listing /\ c.dirty = connections[e].dirty
          /\ c.notified = connections[e].notified
          /\ c.rediscover = connections[e].rediscover
          /\ c.health = connections[e].health /\ c.process = "down"
      BY <2>0 DEF Mcp!Connection
    <3> HIDE DEF c
    <3>4. Sound(c, offered)
      BY <2>0, <3>1, <3>3 DEF Sound
    <3>6. McpTyped' /\ McpOwned' /\ AllSound'
      BY <2>0, <3>1, <3>2, <3>3, <3>4, OneChanges
    <3>7. McpCounted'
      BY <2>0, <3>1, MishapsAreCounted
    <3> QED  BY <3>6, <3>7 DEF McpInv, AllSound
  <2>4. ASSUME NEW e \in Mcp!Entry, Mcp!Disconnected(e)  PROVE McpInv'
    <3> DEFINE c == connections[e]
    <3>0. connections = [connections EXCEPT ![e] = c]
      BY <2>0
    <3>1. /\ Mcp!Fail(e, "disconnected", [connections EXCEPT ![e] = c])
          /\ UNCHANGED <<stored, past, saving, offered>> /\ mishaps' = mishaps
      BY <2>4, <3>0 DEF Mcp!Disconnected, Mcp!fileVars
    <3>2. c \in Mcp!Connection
      BY <2>0, <3>1, FieldsAreTyped
    <3>3. c.test = connections[e].test /\ Sound(c, offered)
      BY <2>0
    <3> HIDE DEF c
    <3>6. McpTyped' /\ McpOwned' /\ AllSound'
      BY <2>0, <3>1, <3>2, <3>3, FailKeeps
    <3>7. McpCounted'
      BY <2>0, <3>1, MishapsAreCounted
    <3> QED  BY <3>6, <3>7 DEF McpInv, AllSound
  <2>5. ASSUME NEW e \in Mcp!Entry, Mcp!ProtocolError(e)  PROVE McpInv'
    <3> DEFINE c == [connections[e] EXCEPT !.checked = "never"]
    <3>1. /\ slot = e
          /\ connections' = [connections EXCEPT ![e] = c]
          /\ UNCHANGED <<slot, stored, past, saving, offered>>
          /\ Mcp!Mishap
          /\ shown' = [state |-> "error", by |-> e]
      BY <2>5 DEF Mcp!ProtocolError, Mcp!Show, Mcp!fileVars
    <3>2. c \in Mcp!Connection
      BY <2>0, <3>1, FieldsAreTyped
    <3>3. /\ c.test = connections[e].test /\ c.late = connections[e].late
          /\ c.server = connections[e].server /\ c.closing = connections[e].closing
          /\ c.phase = connections[e].phase /\ c.process = connections[e].process
          /\ c.tools = connections[e].tools /\ c.listing = connections[e].listing
          /\ c.dirty = connections[e].dirty /\ c.notified = connections[e].notified
          /\ c.rediscover = connections[e].rediscover
          /\ c.health = connections[e].health
      BY <2>0 DEF Mcp!Connection
    <3> HIDE DEF c
    <3>4. Sound(c, offered)
      BY <2>0, <3>1, <3>3 DEF Sound
    <3>5. \/ shown' = shown
          \/ /\ shown' \in McpShown /\ shown'.by = e
             /\ slot = e \/ (slot = None /\ shown'.state = "error")
             /\ shown'.state = "connected" => c.phase = "ready"
      BY <2>0, <3>1, <3>3 DEF McpShown, McpOwned, Sound
    <3>6. McpTyped' /\ McpOwned' /\ AllSound'
      BY <2>0, <3>1, <3>2, <3>3, <3>4, <3>5, OneChanges
    <3>7. McpCounted'
      BY <2>0, <3>1, MishapsAreCounted
    <3> QED  BY <3>6, <3>7 DEF McpInv, AllSound
  <2>6. ASSUME NEW e \in Mcp!Entry, Mcp!Start(e)  PROVE McpInv'
    <3> DEFINE up   == [connections[e] EXCEPT !.phase = "starting", !.process = "up"]
               none == [connections[e] EXCEPT !.phase = "failed"]
    <3>1. /\ connections[e].phase = "waiting"
          /\ \/ /\ connections[e].closing = "no"
                /\ connections' = [connections EXCEPT ![e] = up]
                /\ UNCHANGED <<slot, shown>>
             \/ Mcp!Fail(e, "error", [connections EXCEPT ![e] = none])
          /\ UNCHANGED <<stored, past, saving, offered, mishaps>>
      BY <2>6 DEF Mcp!Start, Mcp!MayStart, Mcp!Closed, Mcp!fileVars
    <3>2. ASSUME /\ connections[e].closing = "no"
                 /\ connections' = [connections EXCEPT ![e] = up]
                 /\ UNCHANGED <<slot, shown>>
          PROVE  McpTyped' /\ McpOwned' /\ AllSound'
      <4>1. up \in Mcp!Connection
        BY <2>0, FieldsAreTyped
      <4>2. /\ up.test = connections[e].test /\ up.late = connections[e].late
            /\ up.server = connections[e].server /\ up.closing = connections[e].closing
            /\ up.tools = connections[e].tools /\ up.listing = connections[e].listing
            /\ up.dirty = connections[e].dirty /\ up.notified = connections[e].notified
            /\ up.rediscover = connections[e].rediscover
            /\ up.health = connections[e].health /\ up.phase = "starting"
            /\ up.process = "up"
        BY <2>0 DEF Mcp!Connection
      <4> HIDE DEF up, none
      <4>3. Sound(up, offered)
        BY <2>0, <3>1, <3>2, <4>2 DEF Sound
      <4> QED  BY <2>0, <3>1, <3>2, <4>1, <4>2, <4>3, OneChanges
    <3>3. ASSUME Mcp!Fail(e, "error", [connections EXCEPT ![e] = none])
          PROVE  McpTyped' /\ McpOwned' /\ AllSound'
      <4>1. none \in Mcp!Connection
        BY <2>0, FieldsAreTyped
      <4>2. /\ none.test = connections[e].test /\ none.late = connections[e].late
            /\ none.server = connections[e].server
            /\ none.closing = connections[e].closing
            /\ none.process = connections[e].process
            /\ none.tools = connections[e].tools
            /\ none.listing = connections[e].listing
            /\ none.dirty = connections[e].dirty
            /\ none.notified = connections[e].notified
            /\ none.rediscover = connections[e].rediscover
            /\ none.health = connections[e].health /\ none.phase = "failed"
        BY <2>0 DEF Mcp!Connection
      <4> HIDE DEF up, none
      <4>3. Sound(none, offered)
        BY <2>0, <3>1, <4>2 DEF Sound
      <4> QED  BY <2>0, <3>1, <3>3, <4>1, <4>2, <4>3, FailKeeps
    <3> HIDE DEF up, none
    <3>4. McpTyped' /\ McpOwned' /\ AllSound'
      BY <3>1, <3>2, <3>3
    <3>5. McpCounted'
      BY <2>0, <3>1, MishapsAreCounted
    <3> QED  BY <3>4, <3>5 DEF McpInv, AllSound
  <2>7. ASSUME NEW e \in Mcp!Entry, Mcp!Initialized(e)  PROVE McpInv'
    <3> DEFINE c == [connections[e] EXCEPT !.listing = <<>>, !.dirty = FALSE,
                       !.phase = "listing"]
    <3>1. /\ connections[e].phase = "starting" /\ connections[e].closing = "no"
          /\ connections' = [connections EXCEPT ![e] = c]
          /\ UNCHANGED <<slot, shown, stored, past, saving, offered, mishaps>>
      BY <2>7 DEF Mcp!Initialized, Mcp!Listing, Mcp!Closed, Mcp!fileVars
    <3>8. <<>> \in Seq(Mcp!Version) /\ <<>> # None
      BY NothingReadYet
    <3>2. c \in Mcp!Connection
      BY <2>0, <3>1, <3>8, FieldsAreTyped
    <3>3. /\ c.test = connections[e].test /\ c.late = connections[e].late
          /\ c.server = connections[e].server /\ c.closing = connections[e].closing
          /\ c.process = connections[e].process /\ c.tools = connections[e].tools
          /\ c.notified = connections[e].notified
          /\ c.rediscover = connections[e].rediscover
          /\ c.health = connections[e].health /\ c.listing = <<>> /\ c.dirty = FALSE
          /\ c.phase = "listing"
      BY <2>0, <3>8 DEF Mcp!Connection
    <3> HIDE DEF c
    <3>4. Sound(c, offered)
      <4>1. Sound(connections[e], offered)
        BY <2>0
      <4>2. /\ c.listing # None
            /\ (\A p \in DOMAIN connections[e].listing : connections[e].listing[p] = offered)
                 => \A p \in DOMAIN c.listing : c.listing[p] = offered
        BY <3>3, <3>8 DEF Mcp!McpAssumption
      <4> QED  BY <4>1, <4>2, <3>1, <3>3 DEF Sound
    <3>6. McpTyped' /\ McpOwned' /\ AllSound'
      BY <2>0, <3>1, <3>2, <3>3, <3>4, OneChanges
    <3>7. McpCounted'
      BY <2>0, <3>1, MishapsAreCounted
    <3> QED  BY <3>6, <3>7 DEF McpInv, AllSound
  <2>8. ASSUME NEW e \in Mcp!Entry, Mcp!NeverReady(e)  PROVE McpInv'
    <3> DEFINE c == [connections[e] EXCEPT !.phase = "failed", !.listing = None]
    <3>1. /\ connections[e].phase \in {"starting", "listing"}
          /\ Mcp!Fail(e, "error", [connections EXCEPT ![e] = c])
          /\ UNCHANGED <<stored, past, saving, offered>>
          /\ (mishaps' = mishaps \/ Mcp!Mishap)
      BY <2>8 DEF Mcp!NeverReady, Mcp!Refused, Mcp!fileVars
    <3>2. c \in Mcp!Connection
      BY <2>0, <3>1, FieldsAreTyped
    <3>3. /\ c.test = connections[e].test /\ c.late = connections[e].late
          /\ c.server = connections[e].server /\ c.closing = connections[e].closing
          /\ c.process = connections[e].process /\ c.tools = connections[e].tools
          /\ c.dirty = connections[e].dirty /\ c.notified = connections[e].notified
          /\ c.rediscover = connections[e].rediscover
          /\ c.health = connections[e].health /\ c.phase = "failed" /\ c.listing = None
      BY <2>0 DEF Mcp!Connection
    <3> HIDE DEF c
    <3>4. Sound(c, offered)
      BY <2>0, <3>1, <3>3 DEF Sound
    <3>6. McpTyped' /\ McpOwned' /\ AllSound'
      BY <2>0, <3>1, <3>2, <3>3, <3>4, FailKeeps
    <3>7. McpCounted'
      BY <2>0, <3>1, MishapsAreCounted
    <3> QED  BY <3>6, <3>7 DEF McpInv, AllSound
  <2>9. ASSUME NEW e \in Mcp!Entry, Mcp!PageRead(e)  PROVE McpInv'
    <3> DEFINE c == [connections[e] EXCEPT !.listing = Append(@, offered)]
    <3>1. /\ connections[e].listing # None
          /\ connections' = [connections EXCEPT ![e] = c]
          /\ UNCHANGED <<slot, shown, stored, past, saving, offered, mishaps>>
      BY <2>9 DEF Mcp!PageRead, Mcp!fileVars
    <3>5. connections[e].listing \in Seq(Mcp!Version)
      BY <2>0, <3>1 DEF Mcp!Connection
    <3>8. /\ Append(connections[e].listing, offered) \in Seq(Mcp!Version)
          /\ (\A p \in DOMAIN connections[e].listing : connections[e].listing[p] = offered)
               => \A p \in DOMAIN Append(connections[e].listing, offered) :
                    Append(connections[e].listing, offered)[p] = offered
      BY <2>0, <3>5, AppendProperties
    <3>2. c \in Mcp!Connection
      BY <2>0, <3>1, <3>8, FieldsAreTyped
    <3>3. /\ c.test = connections[e].test /\ c.late = connections[e].late
          /\ c.server = connections[e].server /\ c.closing = connections[e].closing
          /\ c.phase = connections[e].phase /\ c.process = connections[e].process
          /\ c.tools = connections[e].tools /\ c.dirty = connections[e].dirty
          /\ c.notified = connections[e].notified
          /\ c.rediscover = connections[e].rediscover
          /\ c.health = connections[e].health
          /\ c.listing = Append(connections[e].listing, offered)
      BY <2>0, <3>8 DEF Mcp!Connection
    <3> HIDE DEF c
    <3>4. Sound(c, offered)
      <4>1. Sound(connections[e], offered)
        BY <2>0
      <4>2. /\ c.listing # None
            /\ (\A p \in DOMAIN connections[e].listing : connections[e].listing[p] = offered)
                 => \A p \in DOMAIN c.listing : c.listing[p] = offered
        BY <3>3, <3>8 DEF Mcp!McpAssumption
      <4> QED  BY <4>1, <4>2, <3>1, <3>3 DEF Sound
    <3>6. McpTyped' /\ McpOwned' /\ AllSound'
      BY <2>0, <3>1, <3>2, <3>3, <3>4, OneChanges
    <3>7. McpCounted'
      BY <2>0, <3>1, MishapsAreCounted
    <3> QED  BY <3>6, <3>7 DEF McpInv, AllSound
  <2>10. ASSUME NEW e \in Mcp!Entry, Mcp!Discovered(e)  PROVE McpInv'
    <3> DEFINE again == [connections[e] EXCEPT !.listing = <<>>, !.dirty = FALSE]
               found == [connections[e] EXCEPT !.tools = connections[e].listing,
                           !.listing = None, !.checked = "lately", !.phase = "ready"]
    <3>1. /\ connections[e].listing # None /\ Len(connections[e].listing) = Mcp!Pages
          /\ \/ /\ connections[e].dirty
                /\ connections' = [connections EXCEPT ![e] = again]
                /\ UNCHANGED shown
             \/ /\ ~connections[e].dirty
                /\ connections' = IF connections[e].test
                                  THEN Mcp!Shut([connections EXCEPT ![e] = found], e)
                                  ELSE [connections EXCEPT ![e] = found]
                /\ IF slot = e THEN shown' = [state |-> "connected", by |-> e]
                   ELSE UNCHANGED shown
          /\ UNCHANGED <<slot, stored, past, saving, offered, mishaps>>
      BY <2>10 DEF Mcp!Discovered, Mcp!Listing, Mcp!Show, Mcp!fileVars
    <3>8. connections[e].listing \in Seq(Mcp!Version)
      BY <2>0, <3>1 DEF Mcp!Connection
    <3>2. /\ <<>> \in Seq(Mcp!Version) /\ <<>> # None
          /\ connections[e].listing \in Seq(Mcp!Version)
      BY <3>8, NothingReadYet
    <3>3. ASSUME /\ connections[e].dirty /\ connections' = [connections EXCEPT ![e] = again]
                 /\ UNCHANGED shown
          PROVE  McpTyped' /\ McpOwned' /\ AllSound'
      <4>1. again \in Mcp!Connection
        BY <2>0, <3>2, FieldsAreTyped
      <4>2. /\ again.test = connections[e].test /\ again.late = connections[e].late
            /\ again.server = connections[e].server
            /\ again.closing = connections[e].closing
            /\ again.phase = connections[e].phase
            /\ again.process = connections[e].process
            /\ again.tools = connections[e].tools
            /\ again.notified = connections[e].notified
            /\ again.rediscover = connections[e].rediscover
            /\ again.health = connections[e].health /\ again.listing = <<>>
            /\ again.dirty = FALSE
        BY <2>0 DEF Mcp!Connection
      <4> HIDE DEF again, found
      <4>3. Sound(again, offered)
        BY <2>0, <3>1, <3>2, <4>2 DEF Sound
      <4> QED  BY <2>0, <3>1, <3>3, <4>1, <4>2, <4>3, OneChanges
    <3>4. ASSUME ~connections[e].dirty
          PROVE  McpTyped' /\ McpOwned' /\ AllSound'
      <4>1. found \in Mcp!Connection
        BY <2>0, <3>2, FieldsAreTyped
      <4>2. /\ found.test = connections[e].test /\ found.late = connections[e].late
            /\ found.server = connections[e].server
            /\ found.closing = connections[e].closing
            /\ found.process = connections[e].process
            /\ found.dirty = connections[e].dirty
            /\ found.notified = connections[e].notified
            /\ found.rediscover = connections[e].rediscover
            /\ found.health = connections[e].health
            /\ found.tools = connections[e].listing /\ found.listing = None
            /\ found.phase = "ready"
        BY <2>0 DEF Mcp!Connection
      <4>3. /\ connections' = IF connections[e].test
                              THEN Mcp!Shut([connections EXCEPT ![e] = found], e)
                              ELSE [connections EXCEPT ![e] = found]
            /\ IF slot = e THEN shown' = [state |-> "connected", by |-> e]
               ELSE UNCHANGED shown
        BY <3>1, <3>4
      <4> HIDE DEF again, found
      <4>4. ASSUME \A p \in DOMAIN connections[e].listing :
                     connections[e].listing[p] = offered
            PROVE  connections[e].listing = [p \in 1..Mcp!Pages |-> offered]
        BY <4>4, <3>1, <3>2
      <4>5. Sound(found, offered)
        BY <2>0, <3>1, <3>4, <4>2, <4>4 DEF Sound
      <4>6. ASSUME connections[e].test
            PROVE  McpTyped' /\ McpOwned' /\ AllSound'
        <5>1. slot # e
          BY <2>0, <4>6 DEF McpOwned
        <5>2. Mcp!Fail(e, "error", [connections EXCEPT ![e] = found])
          BY <3>1, <4>3, <4>6, <5>1 DEF Mcp!Fail
        <5> QED  BY <2>0, <3>1, <4>1, <4>2, <4>5, <5>2, FailKeeps
      <4>7. ASSUME ~connections[e].test
            PROVE  McpTyped' /\ McpOwned' /\ AllSound'
        <5>1. connections' = [connections EXCEPT ![e] = found]
          BY <4>3, <4>7
        <5>2. \/ shown' = shown
              \/ /\ shown' \in McpShown /\ shown'.by = e /\ slot = e
                 /\ found.phase = "ready"
          BY <4>2, <4>3 DEF McpShown
        <5> QED  BY <2>0, <3>1, <4>1, <4>2, <4>5, <5>1, <5>2, OneChanges
      <4> QED  BY <4>6, <4>7
    <3> HIDE DEF again, found
    <3>5. McpTyped' /\ McpOwned' /\ AllSound'
      BY <3>1, <3>3, <3>4
    <3>6. McpCounted'
      BY <2>0, <3>1, MishapsAreCounted
    <3> QED  BY <3>5, <3>6 DEF McpInv, AllSound
  <2>11. ASSUME NEW e \in Mcp!Entry, Mcp!DiscoveryFails(e)  PROVE McpInv'
    <3> DEFINE c == connections[e]
    <3>0. connections = [connections EXCEPT ![e] = c]
      BY <2>0
    <3>1. /\ Mcp!Fail(e, "error", [connections EXCEPT ![e] = c])
          /\ UNCHANGED <<stored, past, saving, offered>>
          /\ (mishaps' = mishaps \/ Mcp!Mishap)
      BY <2>11, <3>0 DEF Mcp!DiscoveryFails, Mcp!Refused, Mcp!fileVars
    <3>2. c \in Mcp!Connection
      BY <2>0, <3>1, FieldsAreTyped
    <3>3. c.test = connections[e].test /\ Sound(c, offered)
      BY <2>0
    <3> HIDE DEF c
    <3>6. McpTyped' /\ McpOwned' /\ AllSound'
      BY <2>0, <3>1, <3>2, <3>3, FailKeeps
    <3>7. McpCounted'
      BY <2>0, <3>1, MishapsAreCounted
    <3> QED  BY <3>6, <3>7 DEF McpInv, AllSound
  <2>12. ASSUME NEW e \in Mcp!Entry, Mcp!Notified(e)  PROVE McpInv'
    <3> DEFINE c == [connections[e] EXCEPT !.notified = FALSE, !.dirty = TRUE,
                       !.rediscover = TRUE]
    <3>1. /\ connections[e].notified
          /\ connections' = [connections EXCEPT ![e] = c]
          /\ UNCHANGED <<slot, shown, stored, past, saving, offered, mishaps>>
      BY <2>12 DEF Mcp!Notified, Mcp!fileVars
    <3>2. c \in Mcp!Connection
      BY <2>0, <3>1, FieldsAreTyped
    <3>3. /\ c.test = connections[e].test /\ c.late = connections[e].late
          /\ c.server = connections[e].server /\ c.closing = connections[e].closing
          /\ c.phase = connections[e].phase /\ c.process = connections[e].process
          /\ c.tools = connections[e].tools /\ c.listing = connections[e].listing
          /\ c.health = connections[e].health /\ c.notified = FALSE /\ c.dirty = TRUE
          /\ c.rediscover = TRUE
      BY <2>0 DEF Mcp!Connection
    <3> HIDE DEF c
    <3>4. Sound(c, offered)
      BY <2>0, <3>1, <3>3 DEF Sound
    <3>6. McpTyped' /\ McpOwned' /\ AllSound'
      BY <2>0, <3>1, <3>2, <3>3, <3>4, OneChanges
    <3>7. McpCounted'
      BY <2>0, <3>1, MishapsAreCounted
    <3> QED  BY <3>6, <3>7 DEF McpInv, AllSound
  <2>13. ASSUME NEW e \in Mcp!Entry, Mcp!Rediscover(e)  PROVE McpInv'
    <3> DEFINE c == IF connections[e].listing # None
                    THEN [connections[e] EXCEPT !.rediscover = FALSE]
                    ELSE [connections[e] EXCEPT !.listing = <<>>, !.dirty = FALSE,
                            !.rediscover = FALSE]
    <3>1. /\ connections[e].rediscover /\ connections[e].phase = "ready"
          /\ connections' = [connections EXCEPT ![e] = c]
          /\ UNCHANGED <<slot, shown, stored, past, saving, offered, mishaps>>
      BY <2>13 DEF Mcp!Rediscover, Mcp!Listing, Mcp!fileVars
    <3>8. <<>> \in Seq(Mcp!Version) /\ <<>> # None
      BY NothingReadYet
    <3>2. c \in Mcp!Connection
      BY <2>0, <3>8, FieldsAreTyped
    <3>3. /\ c.test = connections[e].test /\ c.late = connections[e].late
          /\ c.server = connections[e].server /\ c.closing = connections[e].closing
          /\ c.phase = connections[e].phase /\ c.process = connections[e].process
          /\ c.tools = connections[e].tools /\ c.notified = connections[e].notified
          /\ c.health = connections[e].health /\ c.rediscover = FALSE
          /\ c.listing = IF connections[e].listing # None THEN connections[e].listing
                         ELSE <<>>
          /\ c.dirty = IF connections[e].listing # None THEN connections[e].dirty
                       ELSE FALSE
      BY <2>0, <3>8 DEF Mcp!Connection
    <3> HIDE DEF c
    <3>4. Sound(c, offered)
      BY <2>0, <3>1, <3>3, <3>8 DEF Sound
    <3>6. McpTyped' /\ McpOwned' /\ AllSound'
      BY <2>0, <3>1, <3>2, <3>3, <3>4, OneChanges
    <3>7. McpCounted'
      BY <2>0, <3>1, MishapsAreCounted
    <3> QED  BY <3>6, <3>7 DEF McpInv, AllSound
  <2>14. ASSUME NEW e \in Mcp!Entry, Mcp!Probes(e)  PROVE McpInv'
    <3> DEFINE c == [connections[e] EXCEPT !.health = TRUE]
    <3>1. /\ connections[e].phase = "ready"
          /\ connections' = [connections EXCEPT ![e] = c]
          /\ UNCHANGED <<slot, shown, stored, past, saving, offered, mishaps>>
      BY <2>14 DEF Mcp!Probes, Mcp!fileVars
    <3>2. c \in Mcp!Connection
      BY <2>0, <3>1, FieldsAreTyped
    <3>3. /\ c.test = connections[e].test /\ c.late = connections[e].late
          /\ c.server = connections[e].server /\ c.closing = connections[e].closing
          /\ c.phase = connections[e].phase /\ c.process = connections[e].process
          /\ c.tools = connections[e].tools /\ c.listing = connections[e].listing
          /\ c.dirty = connections[e].dirty /\ c.notified = connections[e].notified
          /\ c.rediscover = connections[e].rediscover /\ c.health = TRUE
      BY <2>0 DEF Mcp!Connection
    <3> HIDE DEF c
    <3>4. Sound(c, offered)
      <4>1. Sound(connections[e], offered)
        BY <2>0
      <4> QED  BY <4>1, <3>1, <3>3 DEF Sound
    <3>6. McpTyped' /\ McpOwned' /\ AllSound'
      BY <2>0, <3>1, <3>2, <3>3, <3>4, OneChanges
    <3>7. McpCounted'
      BY <2>0, <3>1, MishapsAreCounted
    <3> QED  BY <3>6, <3>7 DEF McpInv, AllSound
  <2>15. ASSUME NEW e \in Mcp!Entry, Mcp!Healthy(e)  PROVE McpInv'
    <3> DEFINE c == [connections[e] EXCEPT !.health = FALSE, !.checked = "lately"]
    <3>1. /\ connections[e].health
          /\ connections' = [connections EXCEPT ![e] = c]
          /\ UNCHANGED <<slot, stored, past, saving, offered, mishaps>>
          /\ \/ shown' = shown
             \/ shown' = [state |-> "connected", by |-> e] /\ slot = e
      BY <2>15 DEF Mcp!Healthy, Mcp!Show, Mcp!fileVars
    <3>2. c \in Mcp!Connection
      BY <2>0, <3>1, FieldsAreTyped
    <3>3. /\ c.test = connections[e].test /\ c.late = connections[e].late
          /\ c.server = connections[e].server /\ c.closing = connections[e].closing
          /\ c.phase = connections[e].phase /\ c.process = connections[e].process
          /\ c.tools = connections[e].tools /\ c.listing = connections[e].listing
          /\ c.dirty = connections[e].dirty /\ c.notified = connections[e].notified
          /\ c.rediscover = connections[e].rediscover /\ c.health = FALSE
      BY <2>0 DEF Mcp!Connection
    <3> HIDE DEF c
    <3>4. Sound(c, offered)
      <4>1. Sound(connections[e], offered)
        BY <2>0
      <4> QED  BY <4>1, <3>1, <3>3 DEF Sound
    <3>5. \/ shown' = shown
          \/ /\ shown' \in McpShown /\ shown'.by = e
             /\ slot = e \/ (slot = None /\ shown'.state = "error")
             /\ shown'.state = "connected" => c.phase = "ready"
      BY <2>0, <3>1, <3>3 DEF McpShown, McpOwned, Sound
    <3>6. McpTyped' /\ McpOwned' /\ AllSound'
      BY <2>0, <3>1, <3>2, <3>3, <3>4, <3>5, OneChanges
    <3>7. McpCounted'
      BY <2>0, <3>1, MishapsAreCounted
    <3> QED  BY <3>6, <3>7 DEF McpInv, AllSound
  <2>16. ASSUME NEW e \in Mcp!Entry, Mcp!ProbeFails(e)  PROVE McpInv'
    <3> DEFINE c == connections[e]
    <3>0. connections = [connections EXCEPT ![e] = c]
      BY <2>0
    <3>1. /\ Mcp!Fail(e, "error", [connections EXCEPT ![e] = c])
          /\ UNCHANGED <<stored, past, saving, offered>>
          /\ (mishaps' = mishaps \/ Mcp!Mishap)
      BY <2>16, <3>0 DEF Mcp!ProbeFails, Mcp!Refused, Mcp!fileVars
    <3>2. c \in Mcp!Connection
      BY <2>0, <3>1, FieldsAreTyped
    <3>3. c.test = connections[e].test /\ Sound(c, offered)
      BY <2>0
    <3> HIDE DEF c
    <3>6. McpTyped' /\ McpOwned' /\ AllSound'
      BY <2>0, <3>1, <3>2, <3>3, FailKeeps
    <3>7. McpCounted'
      BY <2>0, <3>1, MishapsAreCounted
    <3> QED  BY <3>6, <3>7 DEF McpInv, AllSound
  <2>17. ASSUME NEW e \in Mcp!Entry, Mcp!TimePasses(e)  PROVE McpInv'
    <3> DEFINE c == [connections[e] EXCEPT !.checked = "before"]
    <3>1. /\ connections' = [connections EXCEPT ![e] = c]
          /\ UNCHANGED <<slot, shown, stored, past, saving, offered>>
          /\ Mcp!Mishap
      BY <2>17 DEF Mcp!TimePasses, Mcp!fileVars
    <3>2. c \in Mcp!Connection
      BY <2>0, <3>1, FieldsAreTyped
    <3>3. /\ c.test = connections[e].test /\ c.late = connections[e].late
          /\ c.server = connections[e].server /\ c.closing = connections[e].closing
          /\ c.phase = connections[e].phase /\ c.process = connections[e].process
          /\ c.tools = connections[e].tools /\ c.listing = connections[e].listing
          /\ c.dirty = connections[e].dirty /\ c.notified = connections[e].notified
          /\ c.rediscover = connections[e].rediscover
          /\ c.health = connections[e].health
      BY <2>0 DEF Mcp!Connection
    <3> HIDE DEF c
    <3>4. Sound(c, offered)
      BY <2>0, <3>1, <3>3 DEF Sound
    <3>6. McpTyped' /\ McpOwned' /\ AllSound'
      BY <2>0, <3>1, <3>2, <3>3, <3>4, OneChanges
    <3>7. McpCounted'
      BY <2>0, <3>1, MishapsAreCounted
    <3> QED  BY <3>6, <3>7 DEF McpInv, AllSound
  <2>18. CASE Mcp!ToolsChange
    <3>1. /\ offered + stored.n + mishaps < MaxEvents /\ offered' = offered + 1
          /\ connections' = [e \in Mcp!Entry |->
               IF /\ connections[e].process = "up" /\ connections[e].closing = "no"
                  /\ connections[e].phase \in {"listing", "ready"}
               THEN [connections[e] EXCEPT !.notified = TRUE] ELSE connections[e]]
          /\ UNCHANGED <<slot, shown, stored, past, saving, mishaps>>
      BY <2>18 DEF Mcp!ToolsChange, Mcp!Eventful, Mcp!Up, Mcp!Closed, Mcp!fileVars
    <3>2. ASSUME NEW e \in Mcp!Entry
          PROVE  /\ connections'[e] \in Mcp!Connection /\ Sound(connections'[e], offered')
                 /\ connections'[e].closing = connections[e].closing
                 /\ connections'[e].test = connections[e].test
                 /\ connections'[e].phase = connections[e].phase
                 /\ connections'[e].late = connections[e].late
                 /\ connections'[e].server = connections[e].server
      <4> DEFINE c == [connections[e] EXCEPT !.notified = TRUE]
      <4>1. CASE /\ connections[e].process = "up" /\ connections[e].closing = "no"
                 /\ connections[e].phase \in {"listing", "ready"}
        <5>1. connections'[e] = c
          BY <3>1, <4>1
        <5>2. c \in Mcp!Connection
          BY <2>0, FieldsAreTyped
        <5>3. /\ c.test = connections[e].test /\ c.late = connections[e].late
              /\ c.server = connections[e].server /\ c.closing = connections[e].closing
              /\ c.phase = connections[e].phase /\ c.process = connections[e].process
              /\ c.tools = connections[e].tools /\ c.listing = connections[e].listing
              /\ c.dirty = connections[e].dirty
              /\ c.rediscover = connections[e].rediscover
              /\ c.health = connections[e].health /\ c.notified = TRUE
          BY <2>0 DEF Mcp!Connection
        <5> HIDE DEF c
        <5>4. Sound(c, offered')
          BY <2>0, <4>1, <5>3 DEF Sound
        <5> QED  BY <5>1, <5>2, <5>3, <5>4
      <4>2. CASE ~(/\ connections[e].process = "up" /\ connections[e].closing = "no"
                   /\ connections[e].phase \in {"listing", "ready"})
        <5>1. connections'[e] = connections[e]
          BY <3>1, <4>2
        <5>2. Sound(connections[e], offered')
          BY <2>0, <4>2 DEF Sound
        <5> QED  BY <2>0, <5>1, <5>2
      <4> QED  BY <4>1, <4>2
    <3>3. connections' \in Seq(Mcp!Connection) /\ Mcp!Entry' = Mcp!Entry
      <4>1. /\ Len(connections) \in Nat
            /\ connections' = [e \in 1..Len(connections) |-> connections'[e]]
        BY <2>0, <3>1
      <4>2. connections' \in [1..Len(connections) -> Mcp!Connection]
        BY <2>0, <3>2, <4>1
      <4> QED  BY <2>0, <4>1, <4>2 DEF Mcp!Entry
    <3>4. McpTyped'
      BY <2>0, <3>1, <3>3 DEF McpTyped
    <3>5. AllSound'
      BY <3>2, <3>3 DEF AllSound
    <3>6. McpOwned'
      <4>1. slot # None => slot \in Mcp!Entry
        BY <2>0 DEF McpTyped
      <4> QED  BY <2>0, <3>1, <3>2, <3>3, <4>1 DEF McpOwned
    <3>7. McpCounted'
      <4>1. stored.n \in Nat /\ MaxEvents \in Nat
        BY <2>0 DEF McpCounted, Mcp!Config, Mcp!McpAssumption
      <4> QED  BY <2>0, <3>1, <4>1 DEF McpCounted
    <3> QED  BY <3>4, <3>5, <3>6, <3>7 DEF McpInv, AllSound
  <2>19. ASSUME NEW config \in past, Mcp!Connects(config)  PROVE McpInv'
    <3> DEFINE all == Mcp!Invalidated(connections)
               c   == Mcp!NewConnection(config, FALSE, slot)
               i   == Len(connections) + 1
    <3>1. /\ connections' = Append(all, c) /\ slot' = i
          /\ shown' = [state |-> "connecting", by |-> i]
          /\ UNCHANGED <<stored, past, saving, offered, mishaps>>
      BY <2>19 DEF Mcp!Connects, Mcp!Show, Mcp!fileVars
    <3>2. /\ all \in Seq(Mcp!Connection) /\ DOMAIN all = Mcp!Entry
          /\ Len(all) = Len(connections)
          /\ \A e \in Mcp!Entry :
               /\ Sound(all[e], offered)
               /\ all[e].closing = "no" => all[e].test
      BY <2>0, InvalidatedKeeps
    <3>3. /\ c \in Mcp!Connection /\ Sound(c, offered) /\ c.test = FALSE
          /\ c.closing = "no"
          /\ c.late = (config # stored) /\ c.server = config
      <4>1. config \in Mcp!Config /\ slot \in Nat \cup {None}
        BY <2>0 DEF McpCounted, McpTyped
      <4> QED  BY <4>1, NewIsSound
    <3> HIDE DEF c, all
    <3>4. /\ connections' \in Seq(Mcp!Connection) /\ Mcp!Entry' = 1..i /\ i \in Nat
          /\ connections'[i] = c /\ \A q \in Mcp!Entry : q # i /\ connections'[q] = all[q]
          /\ \A q \in Mcp!Entry' : q = i \/ q \in Mcp!Entry
      BY <2>0, <3>1, <3>2, <3>3, OneIsAdded DEF Mcp!Entry
    <3>5. McpTyped'
      BY <3>1, <3>4 DEF McpTyped
    <3>6. AllSound'
      BY <3>1, <3>2, <3>3, <3>4 DEF AllSound
    <3>7. McpOwned'
      <4>1. i # None
        BY <3>4 DEF Mcp!McpAssumption
      <4> QED  BY <4>1, <3>1, <3>2, <3>3, <3>4 DEF McpOwned
    <3>8. McpCounted'
      BY <2>0, <3>1, MishapsAreCounted
    <3> QED  BY <3>5, <3>6, <3>7, <3>8 DEF McpInv, AllSound
  <2>20. ASSUME connections' = Mcp!Invalidated(connections), slot' = None,
                shown' \in [state : {"idle", "error"}, by : {None}], offered' = offered
         PROVE  McpTyped' /\ McpOwned' /\ AllSound'
    <3>1. /\ connections' \in Seq(Mcp!Connection) /\ Mcp!Entry' = Mcp!Entry
          /\ \A e \in Mcp!Entry :
               /\ Sound(connections'[e], offered)
               /\ connections'[e].closing = "no" => connections'[e].test
      BY <2>0, <2>20, InvalidatedKeeps DEF Mcp!Entry
    <3>2. McpTyped'
      BY <2>20, <3>1 DEF McpTyped
    <3> QED  BY <2>20, <3>1, <3>2 DEF AllSound, McpOwned
  <2>21. ASSUME NEW config \in past, Mcp!CannotConnect(config)  PROVE McpInv'
    <3>1. /\ connections' = Mcp!Invalidated(connections) /\ slot' = None
          /\ shown' = [state |-> "error", by |-> None] /\ Mcp!Mishap
          /\ UNCHANGED <<stored, past, saving, offered>>
      BY <2>21 DEF Mcp!CannotConnect, Mcp!Show, Mcp!fileVars
    <3>2. McpCounted'
      BY <2>0, <3>1, MishapsAreCounted
    <3> QED  BY <2>20, <3>1, <3>2 DEF McpInv, AllSound
  <2>22. CASE Mcp!Tests
    <3> DEFINE c == Mcp!NewConnection(stored, TRUE, None)
               i == Len(connections) + 1
    <3>1. /\ connections' = Append(connections, c)
          /\ UNCHANGED <<slot, shown, stored, past, saving, offered, mishaps>>
      BY <2>22 DEF Mcp!Tests, Mcp!fileVars
    <3>2. c \in Mcp!Connection /\ Sound(c, offered) /\ c.test = TRUE
      <4>1. stored \in Mcp!Config
        BY <2>0 DEF McpCounted
      <4> QED  BY <4>1, NewIsSound
    <3> HIDE DEF c
    <3>3. /\ connections' \in Seq(Mcp!Connection) /\ Mcp!Entry' = 1..i /\ i \in Nat
          /\ connections'[i] = c /\ \A q \in Mcp!Entry : connections'[q] = connections[q]
          /\ \A q \in Mcp!Entry' : q = i \/ q \in Mcp!Entry
          /\ \A q \in Mcp!Entry : q \in Mcp!Entry'
      BY <2>0, <3>1, <3>2, OneIsAdded DEF Mcp!Entry
    <3>4. McpTyped'
      BY <2>0, <3>1, <3>3 DEF McpTyped
    <3>5. AllSound'
      BY <2>0, <3>1, <3>2, <3>3 DEF AllSound
    <3>6. McpOwned'
      <4>1. slot # None => slot \in Mcp!Entry
        BY <2>0 DEF McpTyped
      <4> QED  BY <2>0, <3>1, <3>2, <3>3, <4>1 DEF McpOwned
    <3>7. McpCounted'
      BY <2>0, <3>1, MishapsAreCounted
    <3> QED  BY <3>4, <3>5, <3>6, <3>7 DEF McpInv, AllSound
  <2>23. ASSUME NEW enabled \in BOOLEAN, Mcp!Saves(enabled)  PROVE McpInv'
    <3>1. /\ offered + stored.n + mishaps < MaxEvents
          /\ stored' = [n |-> stored.n + 1, enabled |-> enabled] /\ saving' = saving + 1
          /\ past' = past \cup {stored'}
          /\ UNCHANGED <<connections, slot, shown, offered, mishaps>>
      BY <2>23 DEF Mcp!Saves, Mcp!Eventful
    <3>2. saving \in Nat /\ stored.n \in Nat /\ offered \in Nat /\ mishaps \in Nat
          /\ MaxEvents \in Nat /\ past \subseteq Mcp!Config /\ saving <= stored.n
      BY <2>0 DEF McpCounted, Mcp!Config, Mcp!McpAssumption
    <3>3. stored' \in Mcp!Config /\ stored'.n = stored.n + 1
      BY <3>1, <3>2 DEF Mcp!Config
    <3>4. McpCounted'
      BY <3>1, <3>2, <3>3 DEF McpCounted
    <3>5. McpTyped' /\ AllSound'
      BY <2>0, <3>1 DEF McpTyped, AllSound, Mcp!Entry
    <3>6. McpOwned'
      <4>1. saving' # 0
        BY <3>1, <3>2
      <4> QED  BY <2>0, <3>1, <4>1 DEF McpOwned, Mcp!Entry
    <3> QED  BY <3>4, <3>5, <3>6 DEF McpInv, AllSound
  <2>24. CASE Mcp!Invalidates
    <3>1. /\ connections' = Mcp!Invalidated(connections) /\ slot' = None
          /\ shown' = [state |-> "idle", by |-> None] /\ saving > 0
          /\ saving' = saving - 1
          /\ UNCHANGED <<stored, past, offered, mishaps>>
      BY <2>24 DEF Mcp!Invalidates, Mcp!Show
    <3>2. McpCounted'
      <4>1. stored.n \in Nat
        BY <2>0 DEF McpCounted, Mcp!Config
      <4> QED  BY <2>0, <3>1, <4>1 DEF McpCounted
    <3> QED  BY <2>20, <3>1, <3>2 DEF McpInv, AllSound
  <2>25. CASE UNCHANGED Mcp!mcpVars
    BY <2>0, <2>25 DEF Mcp!mcpVars, McpInv, McpTyped, McpCounted, McpOwned, Mcp!Entry
  <2> QED  BY <2>1, <2>2, <2>3, <2>4, <2>5, <2>6, <2>7, <2>8, <2>9, <2>10, <2>11, <2>12,
              <2>13, <2>14, <2>15, <2>16, <2>17, <2>18, <2>19, <2>21, <2>22, <2>23,
              <2>24, <2>25 DEF Mcp!Next
<1> QED  BY <1>1, <1>2, PTL DEF Mcp!Spec

LEMMA McpIsOwned ==
  ASSUME Mcp!McpAssumption, McpInv  PROVE Mcp!TypeOK /\ Mcp!ConnectionsAreOwned
<1>1. /\ connections \in Seq(Mcp!Connection) /\ Mcp!Entry = 1..Len(connections)
      /\ \A e \in Mcp!Entry : connections[e] \in Mcp!Connection
  BY DEF McpInv, McpTyped, Mcp!Entry
<1>2. Mcp!TypeOK
  BY <1>1 DEF McpInv, McpTyped, McpCounted, Mcp!TypeOK, Mcp!Config, Mcp!Version,
      Mcp!McpAssumption
<1>3. Mcp!NothingLeaks
  BY DEF McpInv, McpOwned, Mcp!NothingLeaks, Sound, Mcp!Closed, Mcp!Up
<1>4. Mcp!ShownIsOfTheSlot
  BY DEF McpInv, McpOwned, Mcp!ShownIsOfTheSlot
<1>5. Mcp!CatalogIsReplaced
  BY DEF McpInv, Sound, Mcp!CatalogIsReplaced, Mcp!Closed, Mcp!Up
<1>6. Mcp!SavedIsConnected
  BY DEF McpInv, McpOwned, Mcp!SavedIsConnected
<1> QED  BY <1>2, <1>3, <1>4, <1>5, <1>6 DEF Mcp!ConnectionsAreOwned

\* Every open connection is the one in the slot or a test, what is shown is about it, a
\* stale catalog is going to be replaced, and the saved configuration is connected.
THEOREM TheConnectionsAreOwned == PartsSpec => []ConnectionsAreOwned
<1>1. McpInv => ConnectionsAreOwned
  BY PartsAssumption, McpIsOwned DEF ConnectionsAreOwned
<1>2. Mcp!Spec => []McpInv
  BY PartsAssumption, McpInvHolds
<1> QED  BY <1>1, <1>2, McpIsAPart, PTL

-----------------------------------------------------------------------------
\* The list of conversations

ListScanning == scan # List!Idle
ListAnswered == listRequest.at = "answered"

\* A name that is answered, or about to be, was written; and only what was saved once
\* has been renamed, listed or deleted.
NameIsWritten(s) ==
  /\ own[s] # NoName => own[s] <= files[s].name
  /\ \A n \in List!Name : <<s, n>> \in patches => n <= files[s].name
  /\ files[s].state \in {"none", "unsaved"} =>
       /\ own[s] = NoName /\ \A n \in List!Name : <<s, n>> \notin patches
       /\ ListScanning => scan.list[s] = NoName
       /\ ListAnswered => listRequest.list[s] = NoName
  /\ files[s].state = "none" =>
       snapshot[s] = NoName /\ optimistic[s] = NoName /\ s \notin deleting

\* What the tab knows of its own rename.
OwnIsKnown(s) ==
  /\ pendingNames[s] > 0 => own[s] # NoName /\ renamedTo[s] = own[s]
  /\ optimistic[s] # NoName /\ own[s] # NoName => optimistic[s] = own[s]

\* A list with a name that is older than the tab's is of a scan that was in progress when
\* the rename was answered, or of a request that the rename overtook.
OlderIsExplained(s) ==
  /\ ListScanning /\ scan.list[s] # NoName /\ own[s] # NoName /\ scan.list[s] < own[s] =>
       scans <= during[s]
  /\ ListAnswered /\ listRequest.list[s] # NoName /\ own[s] # NoName
     /\ listRequest.list[s] < own[s] =>
       listRequest.scan <= during[s] \/ pendingNames[s] > listRequest.since

\* Once a list had a conversation of the tab, every later one has it.
MineIsListed(s) ==
  s \in mine =>
    /\ s \notin deleting /\ files[s].state \in {"unsaved", "saved"}
    /\ optimistic[s] = NoName =>
         files[s].state = "saved" /\ (ListAnswered => listRequest.list[s] # NoName)
    /\ (/\ ListScanning
        /\ optimistic[s] = NoName \/ (ListAnswered /\ listRequest.list[s] # NoName)) =>
         s \in scan.unread \/ scan.list[s] # NoName

ChangeStays(s) ==
  /\ List!Overtaken(s) => 0 < listed /\ listed <= during[s]
  /\ s \in mine => snapshot[s] # NoName

NetIsInOrder ==
  /\ ListScanning => scans > 0
  /\ listRequest # List!Idle => listRequest.since <= nameRevision
  /\ ListAnswered => listRequest.scan > 0

ListInv ==
  /\ List!TypeOK /\ NetIsInOrder
  /\ \A s \in Conversation : /\ NameIsWritten(s) /\ OwnIsKnown(s) /\ OlderIsExplained(s)
                             /\ MineIsListed(s) /\ ChangeStays(s)

LEMMA OneIsSet ==
  ASSUME NEW S, NEW T, NEW f \in [S -> T], NEW s \in S, NEW v \in T,
         NEW g, g = [f EXCEPT ![s] = v]
  PROVE  g \in [S -> T] /\ g[s] = v /\ \A q \in S : q # s => g[q] = f[q]
  OBVIOUS

LEMMA ListTyped ==
  ASSUME List!TypeOK
  PROVE  /\ ListScanning => /\ scan.unread \subseteq Conversation
                            /\ scan.list \in List!Names
                            /\ scan.at = "scanning"
         /\ ListAnswered => /\ listRequest # List!Idle /\ listRequest.list \in List!Names
                            /\ listRequest.scan \in Nat
         /\ listRequest # List!Idle => /\ listRequest.since \in Nat
                                       /\ listRequest.at \in {"sent", "joined", "answered"}
         /\ listRequest = List!Idle => listRequest.at = "none" /\ ~ListAnswered
         /\ listRequest.at \in {"sent", "joined"} =>
              listRequest \in [at : {"sent", "joined"}, since : Nat] /\ ~ListAnswered
<1>1. /\ scan \in List!Scans \cup {List!Idle}
      /\ listRequest \in List!Requests \cup {List!Idle}
  BY DEF List!TypeOK
<1>2. ListScanning => scan \in List!Scans
  BY <1>1 DEF ListScanning
<1>3. listRequest = List!Idle => listRequest.at = "none"
  BY DEF List!Idle
<1>4. \/ listRequest = List!Idle
      \/ listRequest \in [at : {"sent", "joined"}, since : Nat]
      \/ listRequest \in [at : {"answered"}, since : Nat, list : List!Names, scan : Nat]
  BY <1>1 DEF List!Requests
<1>5. CASE listRequest = List!Idle
  BY <1>5, <1>2, <1>3 DEF List!Scans, ListAnswered
<1>6. CASE listRequest \in [at : {"sent", "joined"}, since : Nat]
  <2>1. listRequest.at \in {"sent", "joined"} /\ listRequest.since \in Nat
    BY <1>6
  <2> QED  BY <2>1, <1>2, <1>3, <1>6 DEF List!Scans, ListAnswered
<1>7. CASE listRequest \in [at : {"answered"}, since : Nat, list : List!Names, scan : Nat]
  <2>1. /\ listRequest.at = "answered" /\ listRequest.since \in Nat
        /\ listRequest.list \in List!Names
        /\ listRequest.scan \in Nat
    BY <1>7
  <2> QED  BY <2>1, <1>2, <1>3 DEF List!Scans, ListAnswered
<1> QED  BY <1>4, <1>5, <1>6, <1>7

\* refreshSessionList() begins a request, or leaves the one there is.
LEMMA RefreshKeeps ==
  ASSUME List!TypeOK, NEW invalidate \in BOOLEAN, NEW revision \in Nat,
         List!Refresh(invalidate, revision)
  PROVE  /\ listRequest' \in List!Requests \cup {List!Idle} /\ refreshAgain' \in BOOLEAN
         /\ \/ listRequest # List!Idle /\ listRequest' = listRequest
            \/ /\ listRequest = List!Idle /\ ~ListAnswered
               /\ listRequest' # List!Idle /\ ~ListAnswered'
               /\ listRequest'.since = revision
         /\ ListAnswered' => ListAnswered /\ listRequest' = listRequest
<1>1. CASE listRequest # List!Idle
  BY <1>1 DEF List!Refresh, List!TypeOK, ListAnswered
<1>2. CASE listRequest = List!Idle
  <2>1. listRequest' = [at |-> "sent", since |-> revision] /\ refreshAgain' = refreshAgain
    BY <1>2 DEF List!Refresh
  <2>2. /\ listRequest' \in [at : {"sent", "joined"}, since : Nat]
        /\ listRequest'.at = "sent" /\ listRequest'.since = revision
    BY <2>1
  <2>3. listRequest' # List!Idle
    BY <2>2 DEF List!Idle
  <2> QED  BY <1>2, <2>1, <2>2, <2>3, ListTyped
           DEF List!Requests, List!TypeOK, ListAnswered
<1> QED  BY <1>1, <1>2

LEMMA AgainKeeps ==
  ASSUME List!TypeOK, List!Again, nameRevision' = nameRevision
  PROVE  /\ listRequest' \in List!Requests \cup {List!Idle} /\ refreshAgain' = FALSE /\ ~ListAnswered'
         /\ listRequest' # List!Idle => listRequest'.since = nameRevision
<1>1. refreshAgain' = FALSE
      /\ listRequest' = IF refreshAgain THEN [at |-> "sent", since |-> nameRevision']
                        ELSE List!Idle
  BY DEF List!Again
<1>2. nameRevision \in Nat
  BY DEF List!TypeOK
<1>3. CASE refreshAgain
  <2>1. listRequest' = [at |-> "sent", since |-> nameRevision]
    BY <1>1, <1>3
  <2> QED  BY <1>1, <1>2, <2>1 DEF List!Requests, ListAnswered
<1>4. CASE ~refreshAgain
  <2>1. listRequest' = List!Idle /\ listRequest'.at = "none"
    BY <1>1, <1>4 DEF List!Idle
  <2> QED  BY <1>1, <2>1 DEF ListAnswered
<1> QED  BY <1>3, <1>4

LEMMA ListInvHolds == ASSUME List!ListAssumption PROVE List!Spec => []ListInv
<1> USE List!ListAssumption
<1>1. List!Init => ListInv
  <2> SUFFICES ASSUME List!Init  PROVE ListInv
    OBVIOUS
  <2>1. /\ MaxNames \in Nat /\ NoName \notin Nat /\ 0 \in List!Name
    BY DEF List!ListAssumption, List!Name
  <2>2. PICK old \in SUBSET Conversation :
          /\ files = [s \in Conversation |-> [state |-> IF s \in old THEN "saved" ELSE "none",
                                              name |-> 0]]
          /\ snapshot = [s \in Conversation |-> IF s \in old THEN 0 ELSE NoName]
    BY DEF List!Init
  <2>3. files \in [Conversation -> List!File] /\ snapshot \in List!Names
    BY <2>1, <2>2 DEF List!File, List!Names
  <2>4. /\ scan = List!Idle /\ scans = 0 /\ listRequest = List!Idle /\ nameRevision = 0
        /\ optimistic = [s \in Conversation |-> NoName] /\ renamedTo = optimistic
        /\ own = optimistic /\ pendingNames = [s \in Conversation |-> 0]
        /\ during = pendingNames /\ patches = {} /\ deleting = {} /\ listed = 0
        /\ mine = {} /\ refreshAgain = FALSE
    BY DEF List!Init
  <2>5. optimistic \in List!Names /\ pendingNames \in [Conversation -> Nat]
    BY <2>4 DEF List!Names
  <2>6. List!TypeOK
    BY <2>3, <2>4, <2>5 DEF List!TypeOK
  <2>7. ~ListScanning /\ ~ListAnswered
    BY <2>4 DEF ListScanning, ListAnswered, List!Idle
  <2>8. NetIsInOrder
    BY <2>4, <2>7 DEF NetIsInOrder
  <2> QED  BY <2>1, <2>2, <2>4, <2>6, <2>7, <2>8
           DEF ListInv, NameIsWritten, OwnIsKnown, OlderIsExplained, MineIsListed,
               ChangeStays, List!Overtaken
<1>2. ListInv /\ [List!Next]_(List!vars) => ListInv'
  <2> SUFFICES ASSUME ListInv, [List!Next]_(List!vars)  PROVE ListInv'
    OBVIOUS
  <2>100. /\ List!TypeOK /\ NetIsInOrder
          /\ \A s \in Conversation :
               /\ NameIsWritten(s) /\ OwnIsKnown(s) /\ OlderIsExplained(s)
               /\ MineIsListed(s) /\ ChangeStays(s)
    BY DEF ListInv
  <2>101. /\ files \in [Conversation -> List!File]
          /\ snapshot \in [Conversation -> List!Name \cup {NoName}]
          /\ optimistic \in [Conversation -> List!Name \cup {NoName}]
          /\ pendingNames \in [Conversation -> Nat]
          /\ renamedTo \in [Conversation -> List!Name \cup {NoName}]
          /\ own \in [Conversation -> List!Name \cup {NoName}]
          /\ during \in [Conversation -> Nat]
          /\ nameRevision \in Nat /\ scans \in Nat /\ listed \in Nat
          /\ patches \subseteq Conversation \X List!Name
          /\ deleting \subseteq Conversation
          /\ mine \subseteq Conversation
          /\ 0 \in List!Name /\ List!Name \subseteq Nat /\ NoName \notin List!Name
          /\ NoName \notin Nat
    BY <2>100 DEF List!TypeOK, List!Names, List!Name, List!ListAssumption
  <2>102. /\ ListScanning => /\ scan.unread \subseteq Conversation
                             /\ scan.list \in [Conversation -> List!Name \cup {NoName}]
          /\ ListAnswered => /\ listRequest.list \in [Conversation -> List!Name \cup {NoName}]
                             /\ listRequest.scan \in Nat
          /\ listRequest # List!Idle => listRequest.since \in Nat
          /\ listRequest = List!Idle => ~ListAnswered
    BY <2>100, ListTyped DEF List!Names
  <2>103. ASSUME NEW s \in Conversation
          PROVE  /\ files[s].state \in {"none", "unsaved", "saved", "deleted"}
                 /\ files[s].name \in List!Name /\ files[s] \in List!File
                 /\ snapshot[s] \in List!Name \cup {NoName}
                 /\ optimistic[s] \in List!Name \cup {NoName} /\ pendingNames[s] \in Nat
                 /\ own[s] \in List!Name \cup {NoName} /\ during[s] \in Nat
                 /\ ListScanning => scan.list[s] \in List!Name \cup {NoName}
                 /\ ListAnswered => listRequest.list[s] \in List!Name \cup {NoName}
    <3>1. files[s] \in List!File
      BY <2>101
    <3>2. files[s].state \in {"none", "unsaved", "saved", "deleted"}
          /\ files[s].name \in List!Name
      BY <3>1 DEF List!File
    <3> QED  BY <2>101, <2>102, <3>1, <3>2
  <2>1. ASSUME NEW s \in Conversation, List!Persists(s)  PROVE ListInv'
    <3>1. /\ files[s].state = "unsaved"
          /\ files' = [files EXCEPT ![s].state = "saved"]
          /\ UNCHANGED <<scan, scans, snapshot, optimistic, pendingNames, renamedTo,
                         nameRevision, listRequest, refreshAgain, patches, deleting,
                         own, during, listed, mine>>
      BY <2>1 DEF List!Persists, List!server, List!tab, List!net, List!history
    <3>9. (ListScanning' <=> ListScanning) /\ (ListAnswered' <=> ListAnswered)
      BY <3>1 DEF ListScanning, ListAnswered
    <3>10. /\ files' \in [Conversation -> List!File] /\ files'[s].state = "saved"
           /\ files'[s].name = files[s].name
           /\ \A q \in Conversation : q # s => files'[q] = files[q]
      BY <2>101, <2>103, <3>1 DEF List!File, List!Name, List!ListAssumption
    <3>2. List!TypeOK'
      BY <2>100, <2>101, <3>1, <3>9, <3>10 DEF List!TypeOK
    <3>3. NetIsInOrder'
      BY <2>100, <2>101, <2>102, <3>1, <3>9, <3>10 DEF NetIsInOrder
    <3>4. ASSUME NEW q \in Conversation
          PROVE  /\ NameIsWritten(q)' /\ OwnIsKnown(q)' /\ OlderIsExplained(q)'
                 /\ MineIsListed(q)' /\ ChangeStays(q)'
      <4>0. /\ NameIsWritten(q) /\ OwnIsKnown(q) /\ OlderIsExplained(q)
            /\ MineIsListed(q) /\ ChangeStays(q)
        BY <2>100
      <4>1. CASE q = s
        <5>1. NameIsWritten(q)'
          BY <2>101, <2>102, <2>103, <4>0, <4>1, <3>1, <3>9, <3>10 DEF NameIsWritten
        <5>2. OwnIsKnown(q)'
          BY <2>101, <2>102, <2>103, <4>0, <4>1, <3>1, <3>9, <3>10 DEF OwnIsKnown
        <5>3. OlderIsExplained(q)'
          BY <2>101, <2>102, <2>103, <4>0, <4>1, <3>1, <3>9, <3>10 DEF OlderIsExplained
        <5>4. MineIsListed(q)'
          BY <2>101, <2>102, <2>103, <4>0, <4>1, <3>1, <3>9, <3>10 DEF MineIsListed
        <5>5. ChangeStays(q)'
          BY <2>101, <2>102, <2>103, <4>0, <4>1, <3>1, <3>9, <3>10
          DEF ChangeStays, List!Overtaken
        <5> QED  BY <5>1, <5>2, <5>3, <5>4, <5>5
      <4>2. CASE q # s
        BY <2>101, <2>102, <2>103, <4>0, <4>2, <3>1, <3>9, <3>10
        DEF NameIsWritten, OwnIsKnown, OlderIsExplained, MineIsListed, ChangeStays,
            List!Overtaken
      <4> QED  BY <4>1, <4>2
    <3> QED  BY <3>2, <3>3, <3>4 DEF ListInv
  <2>2. ASSUME NEW s \in Conversation, List!OtherRenames(s)  PROVE ListInv'
    <3>1. /\ files[s].state = "saved" /\ files[s].name < MaxNames
          /\ files' = [files EXCEPT ![s].name = files[s].name + 1]
          /\ UNCHANGED <<scan, scans, snapshot, optimistic, pendingNames, renamedTo,
                         nameRevision, listRequest, refreshAgain, patches, deleting,
                         own, during, listed, mine>>
      BY <2>2
      DEF List!OtherRenames, List!Rename, List!server, List!tab, List!net, List!history
    <3>9. (ListScanning' <=> ListScanning) /\ (ListAnswered' <=> ListAnswered)
      BY <3>1 DEF ListScanning, ListAnswered
    <3>10. /\ files' \in [Conversation -> List!File] /\ files'[s].state = "saved"
           /\ files'[s].name = files[s].name + 1
           /\ \A q \in Conversation : q # s => files'[q] = files[q]
      BY <2>101, <2>103, <3>1 DEF List!File, List!Name, List!ListAssumption
    <3>2. List!TypeOK'
      BY <2>100, <2>101, <3>1, <3>9, <3>10 DEF List!TypeOK
    <3>3. NetIsInOrder'
      BY <2>100, <2>101, <2>102, <3>1, <3>9, <3>10 DEF NetIsInOrder
    <3>4. ASSUME NEW q \in Conversation
          PROVE  /\ NameIsWritten(q)' /\ OwnIsKnown(q)' /\ OlderIsExplained(q)'
                 /\ MineIsListed(q)' /\ ChangeStays(q)'
      <4>0. /\ NameIsWritten(q) /\ OwnIsKnown(q) /\ OlderIsExplained(q)
            /\ MineIsListed(q) /\ ChangeStays(q)
        BY <2>100
      <4>1. CASE q = s
        <5>1. NameIsWritten(q)'
          BY <2>101, <2>102, <2>103, <4>0, <4>1, <3>1, <3>9, <3>10 DEF NameIsWritten
        <5>2. OwnIsKnown(q)'
          BY <2>101, <2>102, <2>103, <4>0, <4>1, <3>1, <3>9, <3>10 DEF OwnIsKnown
        <5>3. OlderIsExplained(q)'
          BY <2>101, <2>102, <2>103, <4>0, <4>1, <3>1, <3>9, <3>10 DEF OlderIsExplained
        <5>4. MineIsListed(q)'
          BY <2>101, <2>102, <2>103, <4>0, <4>1, <3>1, <3>9, <3>10 DEF MineIsListed
        <5>5. ChangeStays(q)'
          BY <2>101, <2>102, <2>103, <4>0, <4>1, <3>1, <3>9, <3>10
          DEF ChangeStays, List!Overtaken
        <5> QED  BY <5>1, <5>2, <5>3, <5>4, <5>5
      <4>2. CASE q # s
        BY <2>101, <2>102, <2>103, <4>0, <4>2, <3>1, <3>9, <3>10
        DEF NameIsWritten, OwnIsKnown, OlderIsExplained, MineIsListed, ChangeStays,
            List!Overtaken
      <4> QED  BY <4>1, <4>2
    <3> QED  BY <3>2, <3>3, <3>4 DEF ListInv
  <2>3. ASSUME NEW s \in Conversation, List!OtherDeletes(s)  PROVE ListInv'
    <3>1. /\ files[s].state = "saved"
          /\ files' = [files EXCEPT ![s].state = "deleted"]
          /\ mine' = mine \ {s}
          /\ UNCHANGED <<scan, scans, snapshot, optimistic, pendingNames, renamedTo,
                         nameRevision, listRequest, refreshAgain, patches, deleting,
                         own, during, listed>>
      BY <2>3 DEF List!OtherDeletes, List!server, List!tab, List!net, List!history
    <3>9. (ListScanning' <=> ListScanning) /\ (ListAnswered' <=> ListAnswered)
      BY <3>1 DEF ListScanning, ListAnswered
    <3>10. /\ files' \in [Conversation -> List!File] /\ files'[s].state = "deleted"
           /\ files'[s].name = files[s].name
           /\ \A q \in Conversation : q # s => files'[q] = files[q]
      BY <2>101, <2>103, <3>1 DEF List!File, List!Name, List!ListAssumption
    <3>2. List!TypeOK'
      BY <2>100, <2>101, <3>1, <3>9, <3>10 DEF List!TypeOK
    <3>3. NetIsInOrder'
      BY <2>100, <2>101, <2>102, <3>1, <3>9, <3>10 DEF NetIsInOrder
    <3>4. ASSUME NEW q \in Conversation
          PROVE  /\ NameIsWritten(q)' /\ OwnIsKnown(q)' /\ OlderIsExplained(q)'
                 /\ MineIsListed(q)' /\ ChangeStays(q)'
      <4>0. /\ NameIsWritten(q) /\ OwnIsKnown(q) /\ OlderIsExplained(q)
            /\ MineIsListed(q) /\ ChangeStays(q)
        BY <2>100
      <4>1. CASE q = s
        <5>1. NameIsWritten(q)'
          BY <2>101, <2>102, <2>103, <4>0, <4>1, <3>1, <3>9, <3>10 DEF NameIsWritten
        <5>2. OwnIsKnown(q)'
          BY <2>101, <2>102, <2>103, <4>0, <4>1, <3>1, <3>9, <3>10 DEF OwnIsKnown
        <5>3. OlderIsExplained(q)'
          BY <2>101, <2>102, <2>103, <4>0, <4>1, <3>1, <3>9, <3>10 DEF OlderIsExplained
        <5>4. MineIsListed(q)'
          BY <2>101, <2>102, <2>103, <4>0, <4>1, <3>1, <3>9, <3>10 DEF MineIsListed
        <5>5. ChangeStays(q)'
          BY <2>101, <2>102, <2>103, <4>0, <4>1, <3>1, <3>9, <3>10
          DEF ChangeStays, List!Overtaken
        <5> QED  BY <5>1, <5>2, <5>3, <5>4, <5>5
      <4>2. CASE q # s
        BY <2>101, <2>102, <2>103, <4>0, <4>2, <3>1, <3>9, <3>10
        DEF NameIsWritten, OwnIsKnown, OlderIsExplained, MineIsListed, ChangeStays,
            List!Overtaken
      <4> QED  BY <4>1, <4>2
    <3> QED  BY <3>2, <3>3, <3>4 DEF ListInv
  <2>4. ASSUME NEW s \in Conversation, List!ScanReads(s)  PROVE ListInv'
    <3>1. /\ scan # List!Idle /\ s \in scan.unread
          /\ scan' = [scan EXCEPT !.unread = scan.unread \ {s},
                               !.list = [scan.list EXCEPT ![s] = List!Listed(s)]]
          /\ UNCHANGED <<files, scans, snapshot, optimistic, pendingNames, renamedTo,
                         nameRevision, listRequest, refreshAgain, patches, deleting,
                         own, during, listed, mine>>
      BY <2>4 DEF List!ScanReads, List!server, List!tab, List!net, List!history
    <3>9. (ListAnswered' <=> ListAnswered)
      BY <3>1 DEF ListScanning, ListAnswered
    <3>10. /\ scan' \in List!Scans /\ ListScanning /\ ListScanning'
           /\ scan'.unread = scan.unread \ {s}
           /\ scan'.list[s] = IF files[s].state = "saved" THEN files[s].name ELSE NoName
           /\ \A q \in Conversation : q # s => scan'.list[q] = scan.list[q]
      <4>1. scan \in List!Scans /\ List!Listed(s) \in List!Name \cup {NoName}
        BY <2>100, <2>103, <3>1 DEF List!TypeOK, List!Listed
      <4>2. scan' = [at |-> "scanning", unread |-> scan.unread \ {s},
                     list |-> [scan.list EXCEPT ![s] = List!Listed(s)]]
        BY <3>1, <4>1 DEF List!Scans
      <4>3. scan.list \in List!Names /\ scan.unread \in SUBSET Conversation
        BY <4>1 DEF List!Scans
      <4>4. [scan.list EXCEPT ![s] = List!Listed(s)] \in List!Names
        BY <4>1, <4>3 DEF List!Names
      <4>5. scan' \in List!Scans /\ scan'.at = "scanning"
        BY <4>2, <4>3, <4>4 DEF List!Scans
      <4>6. scan' # List!Idle /\ scan # List!Idle
        BY <3>1, <4>5 DEF List!Idle
      <4>7. /\ scan'.list[s] = List!Listed(s)
            /\ \A q \in Conversation : q # s => scan'.list[q] = scan.list[q]
        BY <4>1, <4>2, <4>3 DEF List!Names
      <4>8. scan'.unread = scan.unread \ {s}
        BY <4>2
      <4> QED  BY <4>5, <4>6, <4>7, <4>8 DEF ListScanning, List!Listed
    <3>2. List!TypeOK'
      BY <2>100, <2>101, <3>1, <3>9, <3>10 DEF List!TypeOK
    <3>3. NetIsInOrder'
      BY <2>100, <2>101, <2>102, <3>1, <3>9, <3>10 DEF NetIsInOrder
    <3>4. ASSUME NEW q \in Conversation
          PROVE  /\ NameIsWritten(q)' /\ OwnIsKnown(q)' /\ OlderIsExplained(q)'
                 /\ MineIsListed(q)' /\ ChangeStays(q)'
      <4>0. /\ NameIsWritten(q) /\ OwnIsKnown(q) /\ OlderIsExplained(q)
            /\ MineIsListed(q) /\ ChangeStays(q)
        BY <2>100
      <4>1. CASE q = s
        <5>1. NameIsWritten(q)'
          BY <2>101, <2>102, <2>103, <4>0, <4>1, <3>1, <3>9, <3>10 DEF NameIsWritten
        <5>2. OwnIsKnown(q)'
          BY <2>101, <2>102, <2>103, <4>0, <4>1, <3>1, <3>9, <3>10 DEF OwnIsKnown
        <5>3. OlderIsExplained(q)'
          BY <2>101, <2>102, <2>103, <4>0, <4>1, <3>1, <3>9, <3>10
          DEF NameIsWritten, OwnIsKnown, OlderIsExplained, MineIsListed, ChangeStays,
              List!Overtaken
        <5>4. MineIsListed(q)'
          BY <2>101, <2>102, <2>103, <4>0, <4>1, <3>1, <3>9, <3>10
          DEF NameIsWritten, OwnIsKnown, OlderIsExplained, MineIsListed, ChangeStays,
              List!Overtaken
        <5>5. ChangeStays(q)'
          BY <2>101, <2>102, <2>103, <4>0, <4>1, <3>1, <3>9, <3>10
          DEF ChangeStays, List!Overtaken
        <5> QED  BY <5>1, <5>2, <5>3, <5>4, <5>5
      <4>2. CASE q # s
        BY <2>101, <2>102, <2>103, <4>0, <4>2, <3>1, <3>9, <3>10
        DEF NameIsWritten, OwnIsKnown, OlderIsExplained, MineIsListed, ChangeStays,
            List!Overtaken
      <4> QED  BY <4>1, <4>2
    <3> QED  BY <3>2, <3>3, <3>4 DEF ListInv
  <2>5. ASSUME NEW s \in Conversation, List!Creates(s)  PROVE ListInv'
    <3>1. /\ files[s].state = "none"
          /\ files' = [files EXCEPT ![s].state = "unsaved"]
          /\ optimistic' = [optimistic EXCEPT ![s] = 0]
          /\ snapshot' = [snapshot EXCEPT ![s] = 0]
          /\ mine' = mine \cup {s}
          /\ List!Refresh(TRUE, nameRevision)
          /\ UNCHANGED <<scan, scans, pendingNames, renamedTo, nameRevision, patches,
                         deleting, own, during, listed>>
      BY <2>5 DEF List!Creates, List!server, List!tab, List!net, List!history
    <3>9. (ListScanning' <=> ListScanning)
      BY <3>1 DEF ListScanning, ListAnswered
    <3>20. /\ optimistic' \in [Conversation -> List!Name \cup {NoName}]
           /\ optimistic'[s] = 0
           /\ \A q \in Conversation : q # s => optimistic'[q] = optimistic[q]
      BY <2>101, <2>103, <3>1, OneIsSet
    <3>21. /\ snapshot' \in [Conversation -> List!Name \cup {NoName}] /\ snapshot'[s] = 0
           /\ \A q \in Conversation : q # s => snapshot'[q] = snapshot[q]
      BY <2>101, <2>103, <3>1, OneIsSet
    <3>10. /\ files' \in [Conversation -> List!File] /\ files'[s].state = "unsaved"
           /\ files'[s].name = files[s].name
           /\ \A q \in Conversation : q # s => files'[q] = files[q]
      BY <2>101, <2>103, <3>1 DEF List!File, List!Name, List!ListAssumption
    <3>11. /\ listRequest' \in List!Requests \cup {List!Idle} /\ refreshAgain' \in BOOLEAN
           /\ \/ listRequest # List!Idle /\ listRequest' = listRequest
              \/ /\ listRequest = List!Idle /\ ~ListAnswered
                 /\ listRequest' # List!Idle /\ ~ListAnswered'
                 /\ listRequest'.since = nameRevision
           /\ ListAnswered' => ListAnswered /\ listRequest' = listRequest
      BY <2>100, <2>101, <3>1, RefreshKeeps
    <3>2. List!TypeOK'
      BY <2>100, <2>101, <3>1, <3>9, <3>20, <3>21, <3>10, <3>11
      DEF List!TypeOK, List!Names
    <3>3. NetIsInOrder'
      BY <2>100, <2>101, <2>102, <3>1, <3>9, <3>20, <3>21, <3>10, <3>11 DEF NetIsInOrder
    <3>4. ASSUME NEW q \in Conversation
          PROVE  /\ NameIsWritten(q)' /\ OwnIsKnown(q)' /\ OlderIsExplained(q)'
                 /\ MineIsListed(q)' /\ ChangeStays(q)'
      <4>0. /\ NameIsWritten(q) /\ OwnIsKnown(q) /\ OlderIsExplained(q)
            /\ MineIsListed(q) /\ ChangeStays(q)
        BY <2>100
      <4>1. CASE q = s
        <5>1. NameIsWritten(q)'
          BY <2>101, <2>102, <2>103, <4>0, <4>1, <3>1, <3>9, <3>20, <3>21, <3>10, <3>11
          DEF NameIsWritten
        <5>2. OwnIsKnown(q)'
          BY <2>101, <2>102, <2>103, <4>0, <4>1, <3>1, <3>9, <3>20, <3>21, <3>10, <3>11
          DEF NameIsWritten, OwnIsKnown, OlderIsExplained, MineIsListed, ChangeStays,
              List!Overtaken
        <5>3. OlderIsExplained(q)'
          BY <2>101, <2>102, <2>103, <4>0, <4>1, <3>1, <3>9, <3>20, <3>21, <3>10, <3>11
          DEF OlderIsExplained
        <5>4. MineIsListed(q)'
          <6>1. optimistic'[q] # NoName /\ files'[q].state = "unsaved"
            BY <2>101, <3>10, <3>20, <4>1
          <6>2. ListAnswered' => listRequest'.list[q] = NoName
            BY <3>1, <3>11, <4>0, <4>1 DEF NameIsWritten
          <6>3. q \notin deleting'
            BY <3>1, <4>0, <4>1 DEF NameIsWritten
          <6>4. ~(optimistic'[q] = NoName \/ (ListAnswered' /\ listRequest'.list[q] # NoName))
            BY <6>1, <6>2
          <6> QED  BY <6>1, <6>3, <6>4 DEF MineIsListed
        <5>5. ChangeStays(q)'
          BY <2>101, <2>102, <2>103, <4>0, <4>1, <3>1, <3>9, <3>20, <3>21, <3>10, <3>11
          DEF NameIsWritten, OwnIsKnown, OlderIsExplained, MineIsListed, ChangeStays,
              List!Overtaken
        <5> QED  BY <5>1, <5>2, <5>3, <5>4, <5>5
      <4>2. CASE q # s
        BY <2>101, <2>102, <2>103, <4>0, <4>2, <3>1, <3>9, <3>20, <3>21, <3>10, <3>11
        DEF NameIsWritten, OwnIsKnown, OlderIsExplained, MineIsListed, ChangeStays,
            List!Overtaken
      <4> QED  BY <4>1, <4>2
    <3> QED  BY <3>2, <3>3, <3>4 DEF ListInv
  <2>6. ASSUME NEW s \in Conversation, List!RenameBegins(s)  PROVE ListInv'
    <3>1. /\ files[s].state = "saved" /\ files[s].name < MaxNames
          /\ files' = [files EXCEPT ![s].name = files[s].name + 1]
          /\ patches' = patches \cup {<<s, files'[s].name>>}
          /\ UNCHANGED <<scan, scans, snapshot, optimistic, pendingNames, renamedTo,
                         nameRevision, listRequest, refreshAgain, deleting, own,
                         during, listed, mine>>
      BY <2>6
      DEF List!RenameBegins, List!Rename, List!server, List!tab, List!net, List!history
    <3>9. (ListScanning' <=> ListScanning) /\ (ListAnswered' <=> ListAnswered)
      BY <3>1 DEF ListScanning, ListAnswered
    <3>10. /\ files' \in [Conversation -> List!File] /\ files'[s].state = "saved"
           /\ files'[s].name = files[s].name + 1
           /\ \A q \in Conversation : q # s => files'[q] = files[q]
      BY <2>101, <2>103, <3>1 DEF List!File, List!Name, List!ListAssumption
    <3>12. /\ files[s].name + 1 \in List!Name
           /\ patches' \subseteq Conversation \X List!Name
           /\ \A q \in Conversation, m \in List!Name :
                <<q, m>> \in patches' =>
                  <<q, m>> \in patches \/ (q = s /\ m = files[s].name + 1)
      BY <2>101, <2>103, <3>1, <3>10 DEF List!Name, List!ListAssumption
    <3>2. List!TypeOK'
      BY <2>100, <2>101, <3>1, <3>9, <3>10, <3>12 DEF List!TypeOK
    <3>3. NetIsInOrder'
      BY <2>100, <2>101, <2>102, <3>1, <3>9, <3>10, <3>12 DEF NetIsInOrder
    <3>4. ASSUME NEW q \in Conversation
          PROVE  /\ NameIsWritten(q)' /\ OwnIsKnown(q)' /\ OlderIsExplained(q)'
                 /\ MineIsListed(q)' /\ ChangeStays(q)'
      <4>0. /\ NameIsWritten(q) /\ OwnIsKnown(q) /\ OlderIsExplained(q)
            /\ MineIsListed(q) /\ ChangeStays(q)
        BY <2>100
      <4>1. CASE q = s
        <5>1. NameIsWritten(q)'
          BY <2>101, <2>102, <2>103, <4>0, <4>1, <3>1, <3>9, <3>10, <3>12
          DEF NameIsWritten
        <5>2. OwnIsKnown(q)'
          BY <2>101, <2>102, <2>103, <4>0, <4>1, <3>1, <3>9, <3>10, <3>12 DEF OwnIsKnown
        <5>3. OlderIsExplained(q)'
          BY <2>101, <2>102, <2>103, <4>0, <4>1, <3>1, <3>9, <3>10, <3>12
          DEF OlderIsExplained
        <5>4. MineIsListed(q)'
          BY <2>101, <2>102, <2>103, <4>0, <4>1, <3>1, <3>9, <3>10, <3>12 DEF MineIsListed
        <5>5. ChangeStays(q)'
          BY <2>101, <2>102, <2>103, <4>0, <4>1, <3>1, <3>9, <3>10, <3>12
          DEF ChangeStays, List!Overtaken
        <5> QED  BY <5>1, <5>2, <5>3, <5>4, <5>5
      <4>2. CASE q # s
        BY <2>101, <2>102, <2>103, <4>0, <4>2, <3>1, <3>9, <3>10, <3>12
        DEF NameIsWritten, OwnIsKnown, OlderIsExplained, MineIsListed, ChangeStays,
            List!Overtaken
      <4> QED  BY <4>1, <4>2
    <3> QED  BY <3>2, <3>3, <3>4 DEF ListInv
  <2>7. ASSUME NEW s \in Conversation, NEW name \in List!Name, List!RenameEnds(s, name)
        PROVE  ListInv'
    <3>1. /\ <<s, name>> \in patches /\ patches' = patches \ {<<s, name>>}
          /\ nameRevision' = nameRevision + 1
          /\ pendingNames' = [pendingNames EXCEPT ![s] = nameRevision']
          /\ renamedTo' = [renamedTo EXCEPT ![s] = name]
          /\ optimistic' = [optimistic EXCEPT ![s] = IF optimistic[s] = NoName
                                             THEN optimistic[s] ELSE name]
          /\ snapshot' = [snapshot EXCEPT ![s] = IF snapshot[s] = NoName
                                         THEN snapshot[s] ELSE name]
          /\ own' = [own EXCEPT ![s] = name]
          /\ during' = [during EXCEPT ![s] = IF scan = List!Idle THEN 0 ELSE scans]
          /\ List!Refresh(TRUE, nameRevision')
          /\ UNCHANGED <<files, scan, scans, deleting, listed, mine>>
      BY <2>7 DEF List!RenameEnds, List!server, List!tab, List!net, List!history
    <3>9. (ListScanning' <=> ListScanning)
      BY <3>1 DEF ListScanning, ListAnswered
    <3>8. nameRevision' \in Nat
      BY <2>101, <3>1
    <3>20. /\ pendingNames' \in [Conversation -> Nat] /\ pendingNames'[s] = nameRevision'
           /\ \A q \in Conversation : q # s => pendingNames'[q] = pendingNames[q]
      BY <2>101, <2>103, <3>1, <3>8, OneIsSet
    <3>21. /\ renamedTo' \in [Conversation -> List!Name \cup {NoName}]
           /\ renamedTo'[s] = name
           /\ \A q \in Conversation : q # s => renamedTo'[q] = renamedTo[q]
      BY <2>101, <2>103, <3>1, <3>8, OneIsSet
    <3>22. /\ optimistic' \in [Conversation -> List!Name \cup {NoName}]
           /\ optimistic'[s] = IF optimistic[s] = NoName THEN NoName ELSE name
           /\ \A q \in Conversation : q # s => optimistic'[q] = optimistic[q]
      BY <2>101, <2>103, <3>1, OneIsSet
    <3>23. /\ snapshot' \in [Conversation -> List!Name \cup {NoName}]
           /\ snapshot'[s] = IF snapshot[s] = NoName THEN NoName ELSE name
           /\ \A q \in Conversation : q # s => snapshot'[q] = snapshot[q]
      BY <2>101, <2>103, <3>1, OneIsSet
    <3>24. /\ own' \in [Conversation -> List!Name \cup {NoName}] /\ own'[s] = name
           /\ \A q \in Conversation : q # s => own'[q] = own[q]
      BY <2>101, <2>103, <3>1, <3>8, OneIsSet
    <3>25. /\ during' \in [Conversation -> Nat]
           /\ during'[s] = IF scan = List!Idle THEN 0 ELSE scans
           /\ \A q \in Conversation : q # s => during'[q] = during[q]
      BY <2>101, <2>103, <3>1, OneIsSet
    <3>11. /\ listRequest' \in List!Requests \cup {List!Idle} /\ refreshAgain' \in BOOLEAN
           /\ \/ listRequest # List!Idle /\ listRequest' = listRequest
              \/ /\ listRequest = List!Idle /\ ~ListAnswered
                 /\ listRequest' # List!Idle /\ ~ListAnswered'
                 /\ listRequest'.since = nameRevision'
           /\ ListAnswered' => ListAnswered /\ listRequest' = listRequest
      BY <2>100, <3>8, <3>1, RefreshKeeps
    <3>12. /\ patches' \subseteq Conversation \X List!Name /\ name <= files[s].name
           /\ \A q \in Conversation, m \in List!Name :
                <<q, m>> \in patches' => <<q, m>> \in patches
           /\ files[s].state \notin {"none", "unsaved"} /\ name # NoName
           /\ ListScanning <=> scan # List!Idle
      BY <2>100, <2>101, <3>1 DEF NameIsWritten, ListScanning
    <3>2. List!TypeOK'
      BY <2>100, <2>101, <3>1, <3>9, <3>20, <3>21, <3>22, <3>23, <3>24, <3>25, <3>8,
          <3>11, <3>12
      DEF List!TypeOK, List!Names
    <3>3. NetIsInOrder'
      BY <2>100, <2>101, <2>102, <3>1, <3>9, <3>20, <3>21, <3>22, <3>23, <3>24, <3>25,
          <3>8, <3>11, <3>12
      DEF NetIsInOrder
    <3>4. ASSUME NEW q \in Conversation
          PROVE  /\ NameIsWritten(q)' /\ OwnIsKnown(q)' /\ OlderIsExplained(q)'
                 /\ MineIsListed(q)' /\ ChangeStays(q)'
      <4>0. /\ NameIsWritten(q) /\ OwnIsKnown(q) /\ OlderIsExplained(q)
            /\ MineIsListed(q) /\ ChangeStays(q)
        BY <2>100
      <4>1. CASE q = s
        <5>1. NameIsWritten(q)'
          BY <2>101, <2>102, <2>103, <4>0, <4>1, <3>1, <3>9, <3>20, <3>21, <3>22, <3>23,
              <3>24, <3>25, <3>8, <3>11, <3>12
          DEF NameIsWritten
        <5>2. OwnIsKnown(q)'
          BY <2>101, <2>102, <2>103, <4>0, <4>1, <3>1, <3>9, <3>20, <3>21, <3>22, <3>23,
              <3>24, <3>25, <3>8, <3>11, <3>12
          DEF OwnIsKnown
        <5>3. OlderIsExplained(q)'
          <6>1. ListScanning' => scans' <= during'[q]
            BY <2>101, <3>1, <3>9, <3>25, <4>1 DEF ListScanning
          <6>2. ListAnswered' => pendingNames'[q] > listRequest'.since
            <7>1. ListAnswered' =>
                    ListAnswered /\ listRequest' = listRequest /\ listRequest # List!Idle
              BY <2>102, <3>11
            <7>2. listRequest # List!Idle =>
                    listRequest.since <= nameRevision /\ listRequest.since \in Nat
              BY <2>100, <2>102 DEF NetIsInOrder
            <7> QED  BY <2>101, <3>1, <3>20, <4>1, <7>1, <7>2
          <6> QED  BY <6>1, <6>2 DEF OlderIsExplained
        <5>4. MineIsListed(q)'
          BY <2>101, <2>102, <2>103, <4>0, <4>1, <3>1, <3>9, <3>20, <3>21, <3>22, <3>23,
              <3>24, <3>25, <3>8, <3>11, <3>12
          DEF MineIsListed
        <5>5. ChangeStays(q)'
          BY <2>101, <2>102, <2>103, <4>0, <4>1, <3>1, <3>9, <3>20, <3>21, <3>22, <3>23,
              <3>24, <3>25, <3>8, <3>11, <3>12
          DEF ChangeStays, List!Overtaken
        <5> QED  BY <5>1, <5>2, <5>3, <5>4, <5>5
      <4>2. CASE q # s
        BY <2>101, <2>102, <2>103, <4>0, <4>2, <3>1, <3>9, <3>20, <3>21, <3>22, <3>23,
            <3>24, <3>25, <3>8, <3>11, <3>12
        DEF NameIsWritten, OwnIsKnown, OlderIsExplained, MineIsListed, ChangeStays,
            List!Overtaken
      <4> QED  BY <4>1, <4>2
    <3> QED  BY <3>2, <3>3, <3>4 DEF ListInv
  <2>8. ASSUME NEW s \in Conversation, NEW name \in List!Name, List!RenameLost(s, name)
        PROVE  ListInv'
    <3>1. /\ patches' = patches \ {<<s, name>>}
          /\ UNCHANGED <<files, scan, scans, snapshot, optimistic, pendingNames,
                         renamedTo, nameRevision, listRequest, refreshAgain, deleting,
                         own, during, listed, mine>>
      BY <2>8 DEF List!RenameLost, List!server, List!tab, List!net, List!history
    <3>9. (ListScanning' <=> ListScanning) /\ (ListAnswered' <=> ListAnswered)
      BY <3>1 DEF ListScanning, ListAnswered
    <3>2. List!TypeOK'
      BY <2>100, <2>101, <3>1, <3>9 DEF List!TypeOK
    <3>3. NetIsInOrder'
      BY <2>100, <2>101, <2>102, <3>1, <3>9 DEF NetIsInOrder
    <3>4. ASSUME NEW q \in Conversation
          PROVE  /\ NameIsWritten(q)' /\ OwnIsKnown(q)' /\ OlderIsExplained(q)'
                 /\ MineIsListed(q)' /\ ChangeStays(q)'
      <4>0. /\ NameIsWritten(q) /\ OwnIsKnown(q) /\ OlderIsExplained(q)
            /\ MineIsListed(q) /\ ChangeStays(q)
        BY <2>100
      <4>1. NameIsWritten(q)'
        BY <2>101, <2>102, <2>103, <4>0, <3>1, <3>9 DEF NameIsWritten
      <4>2. OwnIsKnown(q)'
        BY <2>101, <2>102, <2>103, <4>0, <3>1, <3>9 DEF OwnIsKnown
      <4>3. OlderIsExplained(q)'
        BY <2>101, <2>102, <2>103, <4>0, <3>1, <3>9 DEF OlderIsExplained
      <4>4. MineIsListed(q)'
        BY <2>101, <2>102, <2>103, <4>0, <3>1, <3>9 DEF MineIsListed
      <4>5. ChangeStays(q)'
        BY <2>101, <2>102, <2>103, <4>0, <3>1, <3>9 DEF ChangeStays, List!Overtaken
      <4> QED  BY <4>1, <4>2, <4>3, <4>4, <4>5
    <3> QED  BY <3>2, <3>3, <3>4 DEF ListInv
  <2>9. ASSUME NEW s \in Conversation, List!DeleteBegins(s)  PROVE ListInv'
    <3>1. /\ snapshot[s] # NoName
          /\ deleting' = deleting \cup {s}
          /\ \/ /\ files[s].state = "saved"
                /\ files' = [files EXCEPT ![s].state = "deleted"]
             \/ files' = files
          /\ mine' = mine \ {s}
          /\ UNCHANGED <<scan, scans, snapshot, optimistic, pendingNames, renamedTo,
                         nameRevision, listRequest, refreshAgain, patches, own, during,
                         listed>>
      BY <2>9 DEF List!DeleteBegins, List!server, List!tab, List!net, List!history
    <3>9. (ListScanning' <=> ListScanning) /\ (ListAnswered' <=> ListAnswered)
      BY <3>1 DEF ListScanning, ListAnswered
    <3>10. /\ files' \in [Conversation -> List!File] /\ files'[s].name = files[s].name
           /\ files'[s].state \in {files[s].state, "deleted"}
           /\ \A q \in Conversation : q # s => files'[q] = files[q]
      <4>1. CASE files' = [files EXCEPT ![s].state = "deleted"]
        BY <2>101, <2>103, <4>1 DEF List!File
      <4>2. CASE files' = files
        BY <2>101, <4>2
      <4> QED  BY <3>1, <4>1, <4>2
    <3>2. List!TypeOK'
      BY <2>100, <2>101, <3>1, <3>9, <3>10 DEF List!TypeOK
    <3>3. NetIsInOrder'
      BY <2>100, <2>101, <2>102, <3>1, <3>9, <3>10 DEF NetIsInOrder
    <3>4. ASSUME NEW q \in Conversation
          PROVE  /\ NameIsWritten(q)' /\ OwnIsKnown(q)' /\ OlderIsExplained(q)'
                 /\ MineIsListed(q)' /\ ChangeStays(q)'
      <4>0. /\ NameIsWritten(q) /\ OwnIsKnown(q) /\ OlderIsExplained(q)
            /\ MineIsListed(q) /\ ChangeStays(q)
        BY <2>100
      <4>1. CASE q = s
        <5>1. NameIsWritten(q)'
          BY <2>101, <2>102, <2>103, <4>0, <4>1, <3>1, <3>9, <3>10 DEF NameIsWritten
        <5>2. OwnIsKnown(q)'
          BY <2>101, <2>102, <2>103, <4>0, <4>1, <3>1, <3>9, <3>10 DEF OwnIsKnown
        <5>3. OlderIsExplained(q)'
          BY <2>101, <2>102, <2>103, <4>0, <4>1, <3>1, <3>9, <3>10 DEF OlderIsExplained
        <5>4. MineIsListed(q)'
          BY <2>101, <2>102, <2>103, <4>0, <4>1, <3>1, <3>9, <3>10 DEF MineIsListed
        <5>5. ChangeStays(q)'
          BY <2>101, <2>102, <2>103, <4>0, <4>1, <3>1, <3>9, <3>10
          DEF ChangeStays, List!Overtaken
        <5> QED  BY <5>1, <5>2, <5>3, <5>4, <5>5
      <4>2. CASE q # s
        BY <2>101, <2>102, <2>103, <4>0, <4>2, <3>1, <3>9, <3>10
        DEF NameIsWritten, OwnIsKnown, OlderIsExplained, MineIsListed, ChangeStays,
            List!Overtaken
      <4> QED  BY <4>1, <4>2
    <3> QED  BY <3>2, <3>3, <3>4 DEF ListInv
  <2>10. ASSUME NEW s \in Conversation, List!DeleteEnds(s)  PROVE ListInv'
    <3>1. /\ s \in deleting /\ deleting' = deleting \ {s}
          /\ optimistic' = [optimistic EXCEPT ![s] = NoName]
          /\ pendingNames' = [pendingNames EXCEPT ![s] = 0]
          /\ renamedTo' = [renamedTo EXCEPT ![s] = NoName]
          /\ snapshot' = [snapshot EXCEPT ![s] = NoName]
          /\ own' = [own EXCEPT ![s] = NoName]
          /\ List!Refresh(TRUE, nameRevision)
          /\ UNCHANGED <<files, scan, scans, nameRevision, patches, during, listed, mine>>
      BY <2>10 DEF List!DeleteEnds, List!server, List!tab, List!net, List!history
    <3>9. (ListScanning' <=> ListScanning)
      BY <3>1 DEF ListScanning, ListAnswered
    <3>20. /\ optimistic' \in [Conversation -> List!Name \cup {NoName}]
           /\ optimistic'[s] = NoName
           /\ \A q \in Conversation : q # s => optimistic'[q] = optimistic[q]
      BY <2>101, <2>103, <3>1, OneIsSet
    <3>21. /\ pendingNames' \in [Conversation -> Nat] /\ pendingNames'[s] = 0
           /\ \A q \in Conversation : q # s => pendingNames'[q] = pendingNames[q]
      BY <2>101, <2>103, <3>1, OneIsSet
    <3>22. /\ renamedTo' \in [Conversation -> List!Name \cup {NoName}]
           /\ renamedTo'[s] = NoName
           /\ \A q \in Conversation : q # s => renamedTo'[q] = renamedTo[q]
      BY <2>101, <2>103, <3>1, OneIsSet
    <3>23. /\ snapshot' \in [Conversation -> List!Name \cup {NoName}]
           /\ snapshot'[s] = NoName
           /\ \A q \in Conversation : q # s => snapshot'[q] = snapshot[q]
      BY <2>101, <2>103, <3>1, OneIsSet
    <3>24. /\ own' \in [Conversation -> List!Name \cup {NoName}] /\ own'[s] = NoName
           /\ \A q \in Conversation : q # s => own'[q] = own[q]
      BY <2>101, <2>103, <3>1, OneIsSet
    <3>11. /\ listRequest' \in List!Requests \cup {List!Idle} /\ refreshAgain' \in BOOLEAN
           /\ \/ listRequest # List!Idle /\ listRequest' = listRequest
              \/ /\ listRequest = List!Idle /\ ~ListAnswered
                 /\ listRequest' # List!Idle /\ ~ListAnswered'
                 /\ listRequest'.since = nameRevision
           /\ ListAnswered' => ListAnswered /\ listRequest' = listRequest
      BY <2>100, <2>101, <3>1, RefreshKeeps
    <3>2. List!TypeOK'
      BY <2>100, <2>101, <3>1, <3>9, <3>20, <3>21, <3>22, <3>23, <3>24, <3>11
      DEF List!TypeOK, List!Names
    <3>3. NetIsInOrder'
      BY <2>100, <2>101, <2>102, <3>1, <3>9, <3>20, <3>21, <3>22, <3>23, <3>24, <3>11
      DEF NetIsInOrder
    <3>4. ASSUME NEW q \in Conversation
          PROVE  /\ NameIsWritten(q)' /\ OwnIsKnown(q)' /\ OlderIsExplained(q)'
                 /\ MineIsListed(q)' /\ ChangeStays(q)'
      <4>0. /\ NameIsWritten(q) /\ OwnIsKnown(q) /\ OlderIsExplained(q)
            /\ MineIsListed(q) /\ ChangeStays(q)
        BY <2>100
      <4>1. CASE q = s
        <5>1. NameIsWritten(q)'
          BY <2>101, <2>102, <2>103, <4>0, <4>1, <3>1, <3>9, <3>20, <3>21, <3>22, <3>23,
              <3>24, <3>11
          DEF NameIsWritten
        <5>2. OwnIsKnown(q)'
          BY <2>101, <2>102, <2>103, <4>0, <4>1, <3>1, <3>9, <3>20, <3>21, <3>22, <3>23,
              <3>24, <3>11
          DEF OwnIsKnown
        <5>3. OlderIsExplained(q)'
          BY <2>101, <2>102, <2>103, <4>0, <4>1, <3>1, <3>9, <3>20, <3>21, <3>22, <3>23,
              <3>24, <3>11
          DEF OlderIsExplained
        <5>4. MineIsListed(q)'
          BY <2>101, <2>102, <2>103, <4>0, <4>1, <3>1, <3>9, <3>20, <3>21, <3>22, <3>23,
              <3>24, <3>11
          DEF MineIsListed
        <5>5. ChangeStays(q)'
          BY <2>101, <2>102, <2>103, <4>0, <4>1, <3>1, <3>9, <3>20, <3>21, <3>22, <3>23,
              <3>24, <3>11
          DEF NameIsWritten, OwnIsKnown, OlderIsExplained, MineIsListed, ChangeStays,
              List!Overtaken
        <5> QED  BY <5>1, <5>2, <5>3, <5>4, <5>5
      <4>2. CASE q # s
        BY <2>101, <2>102, <2>103, <4>0, <4>2, <3>1, <3>9, <3>20, <3>21, <3>22, <3>23,
            <3>24, <3>11
        DEF NameIsWritten, OwnIsKnown, OlderIsExplained, MineIsListed, ChangeStays,
            List!Overtaken
      <4> QED  BY <4>1, <4>2
    <3> QED  BY <3>2, <3>3, <3>4 DEF ListInv
  <2>11. ASSUME NEW s \in Conversation, List!DeleteLost(s)  PROVE ListInv'
    <3>1. /\ deleting' = deleting \ {s}
          /\ UNCHANGED <<files, scan, scans, snapshot, optimistic, pendingNames,
                         renamedTo, nameRevision, listRequest, refreshAgain, patches,
                         own, during, listed, mine>>
      BY <2>11 DEF List!DeleteLost, List!server, List!tab, List!net, List!history
    <3>9. (ListScanning' <=> ListScanning) /\ (ListAnswered' <=> ListAnswered)
      BY <3>1 DEF ListScanning, ListAnswered
    <3>2. List!TypeOK'
      BY <2>100, <2>101, <3>1, <3>9 DEF List!TypeOK
    <3>3. NetIsInOrder'
      BY <2>100, <2>101, <2>102, <3>1, <3>9 DEF NetIsInOrder
    <3>4. ASSUME NEW q \in Conversation
          PROVE  /\ NameIsWritten(q)' /\ OwnIsKnown(q)' /\ OlderIsExplained(q)'
                 /\ MineIsListed(q)' /\ ChangeStays(q)'
      <4>0. /\ NameIsWritten(q) /\ OwnIsKnown(q) /\ OlderIsExplained(q)
            /\ MineIsListed(q) /\ ChangeStays(q)
        BY <2>100
      <4>1. NameIsWritten(q)'
        BY <2>101, <2>102, <2>103, <4>0, <3>1, <3>9 DEF NameIsWritten
      <4>2. OwnIsKnown(q)'
        BY <2>101, <2>102, <2>103, <4>0, <3>1, <3>9 DEF OwnIsKnown
      <4>3. OlderIsExplained(q)'
        BY <2>101, <2>102, <2>103, <4>0, <3>1, <3>9 DEF OlderIsExplained
      <4>4. MineIsListed(q)'
        BY <2>101, <2>102, <2>103, <4>0, <3>1, <3>9 DEF MineIsListed
      <4>5. ChangeStays(q)'
        BY <2>101, <2>102, <2>103, <4>0, <3>1, <3>9 DEF ChangeStays, List!Overtaken
      <4> QED  BY <4>1, <4>2, <4>3, <4>4, <4>5
    <3> QED  BY <3>2, <3>3, <3>4 DEF ListInv
  <2>104. ASSUME List!ScanBegins
          PROVE  /\ ~ListScanning /\ scans' = scans + 1
                 /\ scan' \in List!Scans /\ ListScanning' /\ scan'.unread = Conversation
                 /\ \A s \in Conversation : scan'.list[s] = NoName
                 /\ UNCHANGED <<files, snapshot, optimistic, pendingNames, renamedTo,
                                nameRevision, refreshAgain, patches, deleting, own,
                                during, listed, mine>>
    <3>1. /\ scan = List!Idle /\ scans' = scans + 1
          /\ scan' = [at |-> "scanning", unread |-> Conversation,
                      list |-> [s \in Conversation |-> NoName]]
          /\ UNCHANGED <<files, snapshot, optimistic, pendingNames, renamedTo,
                         nameRevision, refreshAgain, patches, deleting, own, during,
                         listed, mine>>
      BY <2>104 DEF List!ScanBegins, List!tab, List!history
    <3>2. [s \in Conversation |-> NoName] \in List!Names
      BY DEF List!Names
    <3>3. /\ scan' \in List!Scans /\ scan'.at = "scanning" /\ scan'.unread = Conversation
          /\ \A s \in Conversation : scan'.list[s] = NoName
      BY <3>1, <3>2 DEF List!Scans
    <3>4. scan' # List!Idle
      BY <3>3 DEF List!Idle
    <3> QED  BY <3>1, <3>3, <3>4 DEF ListScanning
  <2>12. CASE List!OtherLists
    <3>1. List!ScanBegins /\ listRequest' = listRequest /\ (ListAnswered' <=> ListAnswered)
      BY <2>12 DEF List!OtherLists, ListAnswered
    <3>2. List!TypeOK'
      BY <2>100, <2>101, <3>1, <2>104 DEF List!TypeOK
    <3>3. NetIsInOrder'
      BY <2>100, <2>101, <2>102, <3>1, <2>104 DEF NetIsInOrder
    <3>4. ASSUME NEW q \in Conversation
          PROVE  /\ NameIsWritten(q)' /\ OwnIsKnown(q)' /\ OlderIsExplained(q)'
                 /\ MineIsListed(q)' /\ ChangeStays(q)'
      <4>0. /\ NameIsWritten(q) /\ OwnIsKnown(q) /\ OlderIsExplained(q)
            /\ MineIsListed(q) /\ ChangeStays(q)
        BY <2>100
      <4>1. NameIsWritten(q)'
        BY <2>101, <2>102, <2>103, <4>0, <3>1, <2>104 DEF NameIsWritten
      <4>2. OwnIsKnown(q)'
        BY <2>101, <2>102, <2>103, <4>0, <3>1, <2>104 DEF OwnIsKnown
      <4>3. OlderIsExplained(q)'
        BY <2>101, <2>102, <2>103, <4>0, <3>1, <2>104 DEF OlderIsExplained
      <4>4. MineIsListed(q)'
        BY <2>101, <2>102, <2>103, <4>0, <3>1, <2>104 DEF MineIsListed
      <4>5. ChangeStays(q)'
        BY <2>101, <2>102, <2>103, <4>0, <3>1, <2>104 DEF ChangeStays, List!Overtaken
      <4> QED  BY <4>1, <4>2, <4>3, <4>4, <4>5
    <3> QED  BY <3>2, <3>3, <3>4 DEF ListInv
  <2>13. CASE List!RequestArrives
    <3>1. /\ listRequest.at = "sent"
          /\ listRequest' = [listRequest EXCEPT !.at = "joined"]
          /\ \/ List!ScanBegins
             \/ UNCHANGED <<files, scan, scans, snapshot, optimistic, pendingNames,
                            renamedTo, nameRevision, refreshAgain, patches, deleting,
                            own, during, listed, mine>>
      BY <2>13 DEF List!RequestArrives, List!server, List!tab, List!history
    <3>10. /\ listRequest' \in List!Requests /\ ~ListAnswered /\ ~ListAnswered'
           /\ listRequest # List!Idle
           /\ listRequest' # List!Idle /\ listRequest'.since = listRequest.since
      <4>1. listRequest \in [at : {"sent", "joined"}, since : Nat] /\ ~ListAnswered
        BY <2>100, <3>1, ListTyped
      <4>2. /\ listRequest' \in [at : {"sent", "joined"}, since : Nat]
            /\ listRequest'.at = "joined" /\ listRequest'.since = listRequest.since
        BY <3>1, <4>1
      <4>3. listRequest # List!Idle /\ listRequest' # List!Idle
        BY <3>1, <4>2 DEF List!Idle
      <4> QED  BY <4>1, <4>2, <4>3 DEF List!Requests, ListAnswered
    <3>11. /\ UNCHANGED <<files, snapshot, optimistic, pendingNames, renamedTo,
                          nameRevision, refreshAgain, patches, deleting, own, during,
                          listed, mine>>
           /\ \/ /\ ~ListScanning /\ scans' = scans + 1
                 /\ scan' \in List!Scans /\ ListScanning'
                 /\ scan'.unread = Conversation
                 /\ \A s \in Conversation : scan'.list[s] = NoName
              \/ scan' = scan /\ scans' = scans /\ (ListScanning' <=> ListScanning)
      BY <2>104, <3>1 DEF ListScanning
    <3>2. List!TypeOK'
      BY <2>100, <2>101, <3>10, <3>11 DEF List!TypeOK
    <3>3. NetIsInOrder'
      BY <2>100, <2>101, <2>102, <3>10, <3>11 DEF NetIsInOrder
    <3>4. ASSUME NEW q \in Conversation
          PROVE  /\ NameIsWritten(q)' /\ OwnIsKnown(q)' /\ OlderIsExplained(q)'
                 /\ MineIsListed(q)' /\ ChangeStays(q)'
      <4>0. /\ NameIsWritten(q) /\ OwnIsKnown(q) /\ OlderIsExplained(q)
            /\ MineIsListed(q) /\ ChangeStays(q)
        BY <2>100
      <4>1. NameIsWritten(q)'
        BY <2>101, <2>102, <2>103, <4>0, <3>10, <3>11 DEF NameIsWritten
      <4>2. OwnIsKnown(q)'
        BY <2>101, <2>102, <2>103, <4>0, <3>10, <3>11 DEF OwnIsKnown
      <4>3. OlderIsExplained(q)'
        BY <2>101, <2>102, <2>103, <4>0, <3>10, <3>11 DEF OlderIsExplained
      <4>4. MineIsListed(q)'
        BY <2>101, <2>102, <2>103, <4>0, <3>10, <3>11 DEF MineIsListed
      <4>5. ChangeStays(q)'
        BY <2>101, <2>102, <2>103, <4>0, <3>10, <3>11 DEF ChangeStays, List!Overtaken
      <4> QED  BY <4>1, <4>2, <4>3, <4>4, <4>5
    <3> QED  BY <3>2, <3>3, <3>4 DEF ListInv
  <2>14. CASE List!ScanEnds
    <3>1. /\ scan # List!Idle /\ scan.unread = {} /\ scan' = List!Idle
          /\ listRequest' = IF listRequest.at # "joined" THEN listRequest
                            ELSE [at |-> "answered", since |-> listRequest.since,
                                  list |-> scan.list, scan |-> scans]
          /\ UNCHANGED <<files, scans, snapshot, optimistic, pendingNames, renamedTo,
                         nameRevision, refreshAgain, patches, deleting, own, during,
                         listed, mine>>
      BY <2>14 DEF List!ScanEnds, List!tab, List!history
    <3>10. /\ ListScanning /\ ~ListScanning'
           /\ listRequest' \in List!Requests \cup {List!Idle}
           /\ \/ listRequest' = listRequest /\ (ListAnswered' <=> ListAnswered)
              \/ /\ ~ListAnswered /\ ListAnswered'
                 /\ listRequest # List!Idle /\ listRequest' # List!Idle
                 /\ listRequest'.since = listRequest.since
                 /\ listRequest'.list = scan.list
                 /\ listRequest'.scan = scans
      <4>1. scan.list \in List!Names /\ ListScanning /\ ~ListScanning'
        BY <2>100, <3>1, ListTyped DEF ListScanning
      <4>2. CASE listRequest.at # "joined"
        BY <2>100, <3>1, <4>1, <4>2 DEF List!TypeOK, ListAnswered
      <4>3. CASE listRequest.at = "joined"
        <5>1. listRequest # List!Idle /\ listRequest.since \in Nat /\ ~ListAnswered
          BY <2>100, <4>3, ListTyped DEF List!Idle
        <5>2. listRequest' = [at |-> "answered", since |-> listRequest.since,
                              list |-> scan.list, scan |-> scans]
          BY <3>1, <4>3
        <5>3. listRequest' \in [at : {"answered"}, since : Nat, list : List!Names, scan : Nat]
          BY <2>101, <4>1, <5>1, <5>2
        <5>4. /\ listRequest'.at = "answered" /\ listRequest'.since = listRequest.since
              /\ listRequest'.list = scan.list /\ listRequest'.scan = scans
          BY <5>2
        <5>5. listRequest' # List!Idle
          BY <5>4 DEF List!Idle
        <5> QED  BY <4>1, <5>1, <5>3, <5>4, <5>5 DEF List!Requests, ListAnswered
      <4> QED  BY <4>2, <4>3
    <3>2. List!TypeOK'
      BY <2>100, <2>101, <3>1, <3>10 DEF List!TypeOK
    <3>3. NetIsInOrder'
      BY <2>100, <2>101, <2>102, <3>1, <3>10 DEF NetIsInOrder
    <3>4. ASSUME NEW q \in Conversation
          PROVE  /\ NameIsWritten(q)' /\ OwnIsKnown(q)' /\ OlderIsExplained(q)'
                 /\ MineIsListed(q)' /\ ChangeStays(q)'
      <4>0. /\ NameIsWritten(q) /\ OwnIsKnown(q) /\ OlderIsExplained(q)
            /\ MineIsListed(q) /\ ChangeStays(q)
        BY <2>100
      <4>1. NameIsWritten(q)'
        BY <2>101, <2>102, <2>103, <4>0, <3>1, <3>10 DEF NameIsWritten
      <4>2. OwnIsKnown(q)'
        BY <2>101, <2>102, <2>103, <4>0, <3>1, <3>10 DEF OwnIsKnown
      <4>3. OlderIsExplained(q)'
        BY <2>101, <2>102, <2>103, <4>0, <3>1, <3>10 DEF OlderIsExplained
      <4>4. MineIsListed(q)'
        <5>1. ASSUME q \in mine, optimistic[q] = NoName
              PROVE  /\ files[q].state = "saved" /\ scan.list[q] # NoName
                     /\ ListAnswered => listRequest.list[q] # NoName
          BY <3>1, <3>10, <4>0, <5>1 DEF MineIsListed
        <5>2. q \in mine /\ optimistic[q] = NoName /\ ListAnswered' => listRequest'.list[q] # NoName
          BY <3>10, <5>1
        <5>3. /\ mine' = mine /\ optimistic' = optimistic /\ files' = files
              /\ deleting' = deleting /\ ~ListScanning'
          BY <3>1, <3>10
        <5>4. q \in mine => q \notin deleting /\ files[q].state \in {"unsaved", "saved"}
          BY <4>0 DEF MineIsListed
        <5> QED  BY <5>1, <5>2, <5>3, <5>4 DEF MineIsListed
      <4>5. ChangeStays(q)'
        BY <2>101, <2>102, <2>103, <4>0, <3>1, <3>10 DEF ChangeStays, List!Overtaken
      <4> QED  BY <4>1, <4>2, <4>3, <4>4, <4>5
    <3> QED  BY <3>2, <3>3, <3>4 DEF ListInv
  <2>15. CASE List!Polls
    <3>1. /\ List!Refresh(FALSE, nameRevision)
          /\ UNCHANGED <<files, scan, scans, snapshot, optimistic, pendingNames,
                         renamedTo, nameRevision, patches, deleting, own, during,
                         listed, mine>>
      BY <2>15 DEF List!Polls, List!server, List!tab, List!net, List!history
    <3>9. (ListScanning' <=> ListScanning)
      BY <3>1 DEF ListScanning, ListAnswered
    <3>11. /\ listRequest' \in List!Requests \cup {List!Idle} /\ refreshAgain' \in BOOLEAN
           /\ \/ listRequest # List!Idle /\ listRequest' = listRequest
              \/ /\ listRequest = List!Idle /\ ~ListAnswered
                 /\ listRequest' # List!Idle /\ ~ListAnswered'
                 /\ listRequest'.since = nameRevision
           /\ ListAnswered' => ListAnswered /\ listRequest' = listRequest
      BY <2>100, <2>101, <3>1, RefreshKeeps
    <3>2. List!TypeOK'
      BY <2>100, <2>101, <3>1, <3>9, <3>11 DEF List!TypeOK
    <3>3. NetIsInOrder'
      BY <2>100, <2>101, <2>102, <3>1, <3>9, <3>11 DEF NetIsInOrder
    <3>4. ASSUME NEW q \in Conversation
          PROVE  /\ NameIsWritten(q)' /\ OwnIsKnown(q)' /\ OlderIsExplained(q)'
                 /\ MineIsListed(q)' /\ ChangeStays(q)'
      <4>0. /\ NameIsWritten(q) /\ OwnIsKnown(q) /\ OlderIsExplained(q)
            /\ MineIsListed(q) /\ ChangeStays(q)
        BY <2>100
      <4>1. NameIsWritten(q)'
        BY <2>101, <2>102, <2>103, <4>0, <3>1, <3>9, <3>11 DEF NameIsWritten
      <4>2. OwnIsKnown(q)'
        BY <2>101, <2>102, <2>103, <4>0, <3>1, <3>9, <3>11 DEF OwnIsKnown
      <4>3. OlderIsExplained(q)'
        BY <2>101, <2>102, <2>103, <4>0, <3>1, <3>9, <3>11 DEF OlderIsExplained
      <4>4. MineIsListed(q)'
        BY <2>101, <2>102, <2>103, <4>0, <3>1, <3>9, <3>11 DEF MineIsListed
      <4>5. ChangeStays(q)'
        BY <2>101, <2>102, <2>103, <4>0, <3>1, <3>9, <3>11 DEF ChangeStays, List!Overtaken
      <4> QED  BY <4>1, <4>2, <4>3, <4>4, <4>5
    <3> QED  BY <3>2, <3>3, <3>4 DEF ListInv
  <2>16. CASE List!ResponseArrives
    <3> DEFINE list    == listRequest.list
               kept(s) == /\ List!StillOwn(s, listRequest.since)
                          /\ List!ShownFrom(list, s) # NoName
    <3>1. /\ listRequest.at = "answered"
          /\ snapshot' = [s \in Conversation |-> IF kept(s) THEN renamedTo[s]
                                                 ELSE List!ShownFrom(list, s)]
          /\ optimistic' = [s \in Conversation |-> IF list[s] = NoName THEN optimistic[s]
                                                   ELSE NoName]
          /\ pendingNames' = [s \in Conversation |-> IF kept(s) THEN pendingNames[s] ELSE 0]
          /\ renamedTo' = [s \in Conversation |-> IF kept(s) THEN renamedTo[s] ELSE NoName]
          /\ listed' = listRequest.scan /\ nameRevision' = nameRevision /\ List!Again
          /\ UNCHANGED <<files, scan, scans, patches, deleting, own, during, mine>>
      BY <2>16 DEF List!ResponseArrives, List!server
    <3>9. ListAnswered /\ (ListScanning' <=> ListScanning) /\ listRequest # List!Idle
      BY <3>1, <2>102 DEF ListScanning, ListAnswered
    <3>10. /\ listRequest' \in List!Requests \cup {List!Idle} /\ refreshAgain' = FALSE
           /\ ~ListAnswered'
           /\ listRequest' # List!Idle => listRequest'.since = nameRevision
      BY <2>100, <3>1, AgainKeeps
    <3>11. ASSUME NEW s \in Conversation
           PROVE  /\ list[s] \in List!Name \cup {NoName}
                  /\ List!ShownFrom(list, s) = IF list[s] = NoName THEN optimistic[s]
                                               ELSE list[s]
                  /\ List!ShownFrom(list, s) \in List!Name \cup {NoName}
                  /\ kept(s) <=> /\ pendingNames[s] > listRequest.since
                                /\ List!ShownFrom(list, s) # NoName
                  /\ kept(s) => own[s] # NoName /\ renamedTo[s] = own[s]
      <4>1. list[s] \in List!Name \cup {NoName} /\ listRequest.since \in Nat
        BY <2>102, <3>9
      <4>2. pendingNames[s] > 0 => own[s] # NoName /\ renamedTo[s] = own[s]
        BY <2>100 DEF OwnIsKnown
      <4> QED  BY <2>103, <4>1, <4>2 DEF List!StillOwn, List!ShownFrom
    <3>12. \A s \in Conversation :
             /\ snapshot'[s] = IF kept(s) THEN own[s] ELSE List!ShownFrom(list, s)
             /\ optimistic'[s] = IF list[s] = NoName THEN optimistic[s] ELSE NoName
             /\ pendingNames'[s] = IF kept(s) THEN pendingNames[s] ELSE 0
             /\ renamedTo'[s] = IF kept(s) THEN own[s] ELSE NoName
      BY <3>1, <3>11
    <3> HIDE DEF kept
    <3>2. List!TypeOK'
      <4>1. /\ snapshot' \in [Conversation -> List!Name \cup {NoName}]
            /\ optimistic' \in [Conversation -> List!Name \cup {NoName}]
            /\ renamedTo' \in [Conversation -> List!Name \cup {NoName}]
        BY <2>101, <3>1, <3>11
      <4>2. pendingNames' \in [Conversation -> Nat]
        BY <2>101, <3>1
      <4>3. listed' \in Nat
        BY <2>102, <3>1, <3>9
      <4> QED  BY <2>100, <3>1, <3>10, <4>1, <4>2, <4>3 DEF List!TypeOK, List!Names
    <3>3. NetIsInOrder'
      BY <2>100, <2>101, <3>1, <3>9, <3>10 DEF NetIsInOrder
    <3>4. ASSUME NEW q \in Conversation
          PROVE  /\ NameIsWritten(q)' /\ OwnIsKnown(q)' /\ OlderIsExplained(q)'
                 /\ MineIsListed(q)' /\ ChangeStays(q)'
      <4>0. /\ NameIsWritten(q) /\ OwnIsKnown(q) /\ OlderIsExplained(q)
            /\ MineIsListed(q) /\ ChangeStays(q)
        BY <2>100
      <4>9. /\ list[q] \in List!Name \cup {NoName}
            /\ List!ShownFrom(list, q) = IF list[q] = NoName THEN optimistic[q] ELSE list[q]
            /\ kept(q) <=> /\ pendingNames[q] > listRequest.since
                          /\ List!ShownFrom(list, q) # NoName
            /\ kept(q) => own[q] # NoName /\ renamedTo[q] = own[q]
            /\ snapshot'[q] = IF kept(q) THEN own[q] ELSE List!ShownFrom(list, q)
            /\ optimistic'[q] = IF list[q] = NoName THEN optimistic[q] ELSE NoName
            /\ pendingNames'[q] = IF kept(q) THEN pendingNames[q] ELSE 0
            /\ renamedTo'[q] = IF kept(q) THEN own[q] ELSE NoName
        BY <3>11, <3>12
      <4>1. NameIsWritten(q)'
        BY <2>101, <2>102, <2>103, <3>1, <3>9, <3>10, <4>0, <4>9 DEF NameIsWritten
      <4>2. OwnIsKnown(q)'
        BY <2>101, <2>102, <2>103, <3>1, <3>9, <3>10, <4>0, <4>9 DEF OwnIsKnown
      <4>3. OlderIsExplained(q)'
        BY <2>101, <2>102, <2>103, <3>1, <3>9, <3>10, <4>0, <4>9 DEF OlderIsExplained
      <4>4. MineIsListed(q)'
        BY <2>101, <2>102, <2>103, <3>1, <3>9, <3>10, <4>0, <4>9
        DEF NameIsWritten, OwnIsKnown, OlderIsExplained, MineIsListed, ChangeStays,
            List!Overtaken
      <4>5. ChangeStays(q)'
        <5>1. listRequest.scan > 0 /\ ListAnswered
          BY <2>100, <3>9 DEF NetIsInOrder
        <5>2. ASSUME own[q] # NoName, snapshot'[q] # NoName, snapshot'[q] < own[q]
              PROVE  0 < listRequest.scan /\ listRequest.scan <= during[q]
          <6>1. ~kept(q)
            <7>1. SUFFICES ASSUME kept(q)  PROVE FALSE
              OBVIOUS
            <7>2. snapshot'[q] = own[q]
              BY <4>9, <7>1
            <7>3. own[q] \in Nat
              BY <2>101, <2>103, <5>2
            <7> QED  BY <5>2, <7>2, <7>3
          <6>2. snapshot'[q] = List!ShownFrom(list, q)
            BY <4>9, <6>1
          <6>3. list[q] # NoName
            <7>1. SUFFICES ASSUME list[q] = NoName  PROVE FALSE
              OBVIOUS
            <7>2. snapshot'[q] = optimistic[q]
              BY <4>9, <6>2, <7>1
            <7>3. optimistic[q] = own[q]
              BY <4>0, <5>2, <7>2 DEF OwnIsKnown
            <7>4. own[q] \in Nat
              BY <2>101, <2>103, <5>2
            <7> QED  BY <5>2, <7>2, <7>3, <7>4
          <6>4. ~(pendingNames[q] > listRequest.since)
            BY <4>9, <5>2, <6>1, <6>2
          <6> QED  BY <4>0, <4>9, <5>1, <5>2, <6>2, <6>3, <6>4 DEF OlderIsExplained
        <5>3. ASSUME q \in mine  PROVE snapshot'[q] # NoName
          BY <4>0, <4>9, <5>1, <5>3 DEF MineIsListed
        <5> QED  BY <3>1, <5>2, <5>3 DEF ChangeStays, List!Overtaken
      <4> QED  BY <4>1, <4>2, <4>3, <4>4, <4>5
    <3> QED  BY <3>2, <3>3, <3>4 DEF ListInv
  <2>17. CASE List!RequestFails
    <3>1. /\ List!Again
          /\ UNCHANGED <<files, scan, scans, snapshot, optimistic, pendingNames,
                         renamedTo, nameRevision, patches, deleting, own, during,
                         listed, mine>>
      BY <2>17 DEF List!RequestFails, List!server, List!tab, List!net, List!history
    <3>9. (ListScanning' <=> ListScanning)
      BY <3>1 DEF ListScanning, ListAnswered
    <3>11. /\ listRequest' \in List!Requests \cup {List!Idle} /\ refreshAgain' = FALSE
           /\ ~ListAnswered'
           /\ listRequest' # List!Idle => listRequest'.since = nameRevision
      BY <2>100, <3>1, AgainKeeps
    <3>2. List!TypeOK'
      BY <2>100, <2>101, <3>1, <3>9, <3>11 DEF List!TypeOK
    <3>3. NetIsInOrder'
      BY <2>100, <2>101, <2>102, <3>1, <3>9, <3>11 DEF NetIsInOrder
    <3>4. ASSUME NEW q \in Conversation
          PROVE  /\ NameIsWritten(q)' /\ OwnIsKnown(q)' /\ OlderIsExplained(q)'
                 /\ MineIsListed(q)' /\ ChangeStays(q)'
      <4>0. /\ NameIsWritten(q) /\ OwnIsKnown(q) /\ OlderIsExplained(q)
            /\ MineIsListed(q) /\ ChangeStays(q)
        BY <2>100
      <4>1. NameIsWritten(q)'
        BY <2>101, <2>102, <2>103, <4>0, <3>1, <3>9, <3>11 DEF NameIsWritten
      <4>2. OwnIsKnown(q)'
        BY <2>101, <2>102, <2>103, <4>0, <3>1, <3>9, <3>11 DEF OwnIsKnown
      <4>3. OlderIsExplained(q)'
        BY <2>101, <2>102, <2>103, <4>0, <3>1, <3>9, <3>11 DEF OlderIsExplained
      <4>4. MineIsListed(q)'
        BY <2>101, <2>102, <2>103, <4>0, <3>1, <3>9, <3>11 DEF MineIsListed
      <4>5. ChangeStays(q)'
        BY <2>101, <2>102, <2>103, <4>0, <3>1, <3>9, <3>11 DEF ChangeStays, List!Overtaken
      <4> QED  BY <4>1, <4>2, <4>3, <4>4, <4>5
    <3> QED  BY <3>2, <3>3, <3>4 DEF ListInv
  <2>18. CASE UNCHANGED List!vars
    BY <2>100, <2>18
    DEF List!vars, List!server, List!tab, List!net, List!history, ListInv, List!TypeOK,
        NetIsInOrder, NameIsWritten, OwnIsKnown, OlderIsExplained, MineIsListed,
            ChangeStays,
        List!Overtaken, ListScanning, ListAnswered
  <2> QED  BY <2>1, <2>2, <2>3, <2>4, <2>5, <2>6, <2>7, <2>8, <2>9, <2>10, <2>11, <2>12,
      <2>13, <2>14, <2>15, <2>16, <2>17, <2>18
           DEF List!Next
<1> QED  BY <1>1, <1>2, PTL DEF List!Spec

LEMMA ListIsRight == ListInv => List!TypeOK /\ List!OwnChangesStay
<1> SUFFICES ASSUME ListInv  PROVE List!TypeOK /\ List!OwnChangesStay
  OBVIOUS
<1>1. List!TypeOK /\ \A s \in Conversation : ChangeStays(s)
  BY DEF ListInv
<1>2. mine \subseteq Conversation
  BY <1>1 DEF List!TypeOK
<1> QED  BY <1>1, <1>2 DEF List!OwnChangesStay, ChangeStays

\* A rename that was answered stays in the list although older lists arrive after it, and
\* a conversation of the tab is in its list until somebody deletes it.
THEOREM OwnChangesAreKept == PartsSpec => []OwnChangesStay
<1>1. ListInv => OwnChangesStay
  BY PartsAssumption, ListIsRight DEF OwnChangesStay
<1>2. List!Spec => []ListInv
  BY PartsAssumption, ListInvHolds
<1> QED  BY <1>1, <1>2, ListIsAPart, PTL
=============================================================================
