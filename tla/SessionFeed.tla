----------------------------- MODULE SessionFeed -----------------------------
(***************************************************************************)
(* What the event stream of a session promises a browser tab, without the   *)
(* log, the connection or the cursors.  The tab shows a prefix of what some *)
(* runtime published, extends it one event at a time in the order of        *)
(* publication, or exchanges it for a prefix of what a runtime published    *)
(* that has served the session displayed (a longer one, when it is the same *)
(* runtime's).  It never shows an event twice, leaves one out, or takes an  *)
(* event of the same runtime back while it displays the same page, and it   *)
(* turns to another session only where an event it comes to leads there, or *)
(* when a runtime that has served both tells it so.                         *)
(***************************************************************************)
EXTENDS Naturals, Sequences

CONSTANT MaxSid

VARIABLES
  served,     \* for every runtime, the sessions it has served so far
  published,  \* for every runtime, where its events lead, in order: to a session
              \* or, most of them, nowhere (0)
  shown,      \* what the tab shows: the session, the runtime and its events, and
              \* whether its page has turned to a session and is to be mounted anew
  mounted     \* the session its page was mounted for

vars == <<served, published, shown, mounted>>

UpTo(n) == [i \in 1..n |-> i]

Nothing(s) == [sid |-> s, epoch |-> 0, seen |-> <<>>, turned |-> FALSE]

\* The page p, led to session s.
Led(p, s) ==
  IF s \in {0, p.sid} THEN p ELSE [p EXCEPT !.sid = s, !.turned = TRUE]

Init ==
  /\ served = <<>> /\ published = <<>>
  /\ shown = Nothing(1)
  /\ mounted = 1

\* A runtime starts, turns to a session, maybe a former one of its own, or
\* publishes one event.
Publish ==
  \/ \E s \in 1..MaxSid :
       served' = Append(served, {s}) /\ published' = Append(published, <<>>)
  \/ \E e \in DOMAIN served, s \in 1..MaxSid :
       served' = [served EXCEPT ![e] = @ \cup {s}] /\ UNCHANGED published
  \/ \E e \in DOMAIN published : \E s \in served[e] \cup {0} :
       published' = [published EXCEPT ![e] = Append(@, s)] /\ UNCHANGED served

\* The next event of the runtime the tab follows; the page goes where it leads.
Extend ==
  LET n == Len(shown.seen) + 1
  IN  /\ shown.epoch \in DOMAIN published
      /\ n <= Len(published[shown.epoch])
      /\ shown' = Led([shown EXCEPT !.seen = UpTo(n)], published[shown.epoch][n])

\* A snapshot of the session displayed: everything a runtime that has served it has
\* published up to some point, not less than the tab shows of the same runtime.
Replace ==
  \E e \in DOMAIN published : \E n \in 0..Len(published[e]) :
    /\ shown.sid \in served[e]
    /\ shown.epoch = e => n >= Len(shown.seen)
    /\ shown' = [shown EXCEPT !.epoch = e, !.seen = UpTo(n)]

\* A runtime that has served the session displayed and another one: the page is told
\* to turn there,
Follow ==
  \E e \in DOMAIN served : \E s \in served[e] :
    shown.sid \in served[e] /\ shown' = Led(shown, s)

\* or is sent a snapshot of that other session, passes it over, and what it shows is
\* no longer followed.
Lose ==
  /\ \E e \in DOMAIN served : shown.sid \in served[e] /\ served[e] # {shown.sid}
  /\ shown' = [shown EXCEPT !.epoch = 0, !.seen = <<>>]

\* The page that has turned is mounted for the session it turned to.
Mount ==
  /\ shown.turned
  /\ mounted' = shown.sid
  /\ shown' = Nothing(shown.sid)

Next ==
  \/ Publish /\ UNCHANGED <<shown, mounted>>
  \/ (Extend \/ Replace \/ Follow \/ Lose) /\ UNCHANGED <<served, published, mounted>>
  \/ Mount /\ UNCHANGED <<served, published>>

Spec == Init /\ [][Next]_vars
=============================================================================
