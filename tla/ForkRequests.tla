----------------------------- MODULE ForkRequests -----------------------------
(***************************************************************************)
(* Forks that are asked for again (ForkRequestCache in                       *)
(* lib/fork-request-cache.ts, used by POST /api/agent/[id]).  A client gives  *)
(* every fork a key; the transport may deliver the request again while the    *)
(* fork is under way, after its answer was lost, or late.  A fork that is     *)
(* carried out twice leaves two conversations.                                *)
(***************************************************************************)
EXTENDS Naturals, Sequences, FiniteSets

CONSTANTS
  Key,         \* session and key of a request
  Arguments,   \* fingerprints of its body
  None,
  MaxEntries,  \* options.maxEntries
  Ttl,         \* options.ttlMs
  MaxTime,     \* bound: the clock,
  MaxForks,    \* forks carried out,
  MaxRestarts  \* and restarts of the server

VARIABLES
  now,
  entries,  \* what is kept: the arguments, and when the answer is forgotten
  forks,    \* history: the forks carried out, and when each was answered,
  answers,  \* the forks whose answer the requests of each key got,
  life      \* and the number of the server process

vars == <<now, entries, forks, answers, life>>

Times == 0..MaxTime + Ttl
Entry == [arguments : Arguments, fork : Nat, expires : Times \cup {None}]

ForkAssumption ==
  /\ None \notin Key \cup Nat \cup Entry
  /\ MaxEntries \in Nat \ {0} /\ Ttl \in Nat \ {0}
  /\ MaxTime \in Nat /\ MaxForks \in Nat /\ MaxRestarts \in Nat

TypeOK ==
  /\ now \in 0..MaxTime
  /\ entries \in [Key -> Entry \cup {None}]
  /\ forks \in Seq([key : Key, arguments : Arguments, from : Times,
                    till : Times \cup {None}, life : Nat])
  /\ answers \in [Key -> SUBSET (Arguments \X Nat)]
  /\ life \in 0..MaxRestarts

Init ==
  /\ now = 0 /\ life = 0
  /\ entries = [k \in Key |-> None]
  /\ forks = <<>> /\ answers = [k \in Key |-> {}]

\* A fork that is under way has no expiry.
Expired(e) == e # None /\ e.expires # None /\ e.expires <= now

\* run() forgets what has expired whenever a request arrives.
Pruned == [k \in Key |-> IF Expired(entries[k]) THEN None ELSE entries[k]]

\* Fault: what was answered makes room for the next fork.
AdmittedAlways(kept) == IF Cardinality({k \in Key : kept[k] # None}) < MaxEntries
                        THEN kept
                        ELSE [k \in Key |-> IF kept[k] # None /\ kept[k].expires # None
                                            THEN None ELSE kept[k]]

\* Nothing that has not expired makes room for another fork.
Admitted(kept) == kept

\* A request with a new key: the fork begins.
ForkBegins(k, args) ==
  LET kept == Admitted(Pruned)
  IN /\ kept[k] = None
     /\ Cardinality({q \in Key : kept[q] # None}) < MaxEntries
     /\ Len(forks) < MaxForks
     /\ forks' = Append(forks, [key |-> k, arguments |-> args, from |-> now,
                                till |-> None, life |-> life])
     /\ entries' = [kept EXCEPT ![k] = [arguments |-> args, fork |-> Len(forks) + 1,
                                        expires |-> None]]
     /\ UNCHANGED <<now, answers, life>>

\* Status 503: there is no room.
Refused(k) ==
  /\ Pruned[k] = None
  /\ Cardinality({q \in Key : Pruned[q] # None}) >= MaxEntries
  /\ entries' = Pruned
  /\ UNCHANGED <<now, forks, answers, life>>

SameRequest(e, args) == e.arguments = args

\* A request whose key is known waits for the answer that is, or will be, saved;
\* with other arguments it is refused (status 409).
Repeated(k, args) ==
  /\ Pruned[k] # None /\ entries' = Pruned
  /\ answers' = IF SameRequest(Pruned[k], args)
                THEN [answers EXCEPT ![k] = @ \cup {<<args, Pruned[k].fork>>}]
                ELSE answers
  /\ UNCHANGED <<now, forks, life>>

Expiry(n) == now + Ttl

\* execute() returns or throws: the answer, or one that stands for it when it is
\* too large or unreadable, is saved.
ForkEnds(n) ==
  /\ forks[n].till = None /\ forks[n].life = life
  /\ forks' = [forks EXCEPT ![n].till = now]
  /\ entries' = [entries EXCEPT ![forks[n].key].expires = Expiry(n)]
  /\ answers' = [answers EXCEPT ![forks[n].key] = @ \cup {<<forks[n].arguments, n>>}]
  /\ UNCHANGED <<now, life>>

ClockTicks == /\ now < MaxTime /\ now' = now + 1
              /\ UNCHANGED <<entries, forks, answers, life>>

\* The entries "intentionally" do not survive the server.
Restart ==
  /\ life < MaxRestarts /\ life' = life + 1
  /\ entries' = [k \in Key |-> None]
  /\ UNCHANGED <<now, forks, answers>>

Next ==
  \/ \E k \in Key : \/ \E args \in Arguments : ForkBegins(k, args) \/ Repeated(k, args)
                    \/ Refused(k)
  \/ \E n \in 1..Len(forks) : ForkEnds(n)
  \/ ClockTicks \/ Restart

Spec == Init /\ [][Next]_vars

-----------------------------------------------------------------------------
\* While the server lives, a key is not forked for again before its time to live
\* has passed since the answer, however long the fork took, however often and with
\* whatever arguments it is asked for, and however many other forks are asked for
\* meanwhile; and whoever asks gets the answer of a fork with his own arguments.
ForkOnce ==
  /\ \A m, n \in 1..Len(forks) :
       m < n /\ forks[m].key = forks[n].key /\ forks[m].life = forks[n].life
         => forks[m].till # None /\ forks[n].from >= forks[m].till + Ttl
  /\ \A k \in Key : \A a \in answers[k] : forks[a[2]].key = k
                                          /\ forks[a[2]].arguments = a[1]
=============================================================================
