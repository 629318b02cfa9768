-------------------------- MODULE ExtensionDialogs --------------------------
(***************************************************************************)
(* The dialogs an extension opens in the browser (WebExtensionUIBridge in    *)
(* lib/web-extension-ui.ts).  An answer, a timeout, the abort signal of the  *)
(* extension and the end of the session race for a dialog; an answer may     *)
(* come from several tabs, and again when its acknowledgement was lost, so   *)
(* the bridge keeps receipts for a while, and not all of them.               *)
(***************************************************************************)
EXTENDS Naturals, Sequences

CONSTANTS
  Dialog,
  Answer,      \* valid answers, and
  Cancel,      \* the one that cancels the dialog
  Default,     \* what a dialog that was not answered returns
  MaxReceipts  \* MAX_RESPONSE_RECEIPTS

DialogsAssumption == /\ Cancel \notin Answer /\ Default \notin Answer \cup {Cancel}
                     /\ MaxReceipts \in Nat

VARIABLES
  accepting, \* acceptDialogs
  pending,   \* the dialogs that are open
  receipts,  \* in the order the dialogs were closed
  opened,    \* history: the dialogs ever opened,
  returned,  \* what each promise was resolved with, in order,
  accepted   \* and the answers that clients were told are accepted

vars == <<accepting, pending, receipts, opened, returned, accepted>>

Response == Answer \cup {Cancel}
Outcomes == {"answered", "cancelled", "timeout", "aborted", "session_closed"}
Receipt  == [id : Dialog, outcome : Outcomes, response : Response \cup {Default}]

TypeOK ==
  /\ accepting \in BOOLEAN
  /\ pending \subseteq opened /\ opened \subseteq Dialog
  /\ receipts \in Seq(Receipt)
  /\ returned \in [Dialog -> Seq(Response \cup {Default})]
  /\ accepted \subseteq Dialog \X Response

Init ==
  /\ accepting \in BOOLEAN
  /\ pending = {} /\ opened = {}
  /\ receipts = <<>>
  /\ returned = [d \in Dialog |-> <<>>]
  /\ accepted = {}

Resolve(ret, d, v) == [ret EXCEPT ![d] = Append(@, v)]

\* openDialog(): while dialogs are not accepted yet it returns at once.
Open(d) ==
  /\ d \notin opened /\ opened' = opened \cup {d}
  /\ IF accepting THEN pending' = pending \cup {d} /\ UNCHANGED returned
                  ELSE returned' = Resolve(returned, d, Default) /\ UNCHANGED pending
  /\ UNCHANGED <<accepting, receipts, accepted>>

EnableDialogs == /\ accepting' = TRUE
                 /\ UNCHANGED <<pending, receipts, opened, returned, accepted>>

\* pruneReceipts(): no more than the newest.
Kept(s) == IF Len(s) > MaxReceipts THEN Tail(s) ELSE s

\* finish()
Finish(d, outcome, response) ==
  /\ pending' = pending \ {d}
  /\ receipts' = Kept(Append(receipts, [id |-> d, outcome |-> outcome,
                                        response |-> response]))
  /\ returned' = Resolve(returned, d, response)

\* Fault: any answer to a dialog that was answered is taken for a repetition.
SameAgain(r, v) == r.outcome \in {"answered", "cancelled"}

\* The fingerprint of a receipt; what closed without an answer has none.
SameResponse(r, v) == r.response = v

\* respond(), to a dialog that is open ...
Respond(d, v) ==
  /\ d \in pending
  /\ Finish(d, IF v = Cancel THEN "cancelled" ELSE "answered", v)
  /\ accepted' = accepted \cup {<<d, v>>}
  /\ UNCHANGED <<accepting, opened>>

\* ... or no longer is: accepted if its receipt says the same.
RespondAgain(d, v) ==
  /\ d \in opened \ pending
  /\ \E n \in 1..Len(receipts) : receipts[n].id = d /\ SameResponse(receipts[n], v)
  /\ accepted' = accepted \cup {<<d, v>>}
  /\ UNCHANGED <<accepting, pending, receipts, opened, returned>>

\* The timer of the dialog, or the abort signal of the extension.
TimesOut(d, outcome) ==
  /\ d \in pending /\ outcome \in {"timeout", "aborted"}
  /\ Finish(d, outcome, Default)
  /\ UNCHANGED <<accepting, opened, accepted>>

\* The oldest receipt expires.
ReceiptExpires ==
  /\ receipts # <<>> /\ receipts' = Tail(receipts)
  /\ UNCHANGED <<accepting, pending, opened, returned, accepted>>

\* resetForSessionReplacement(): closeAll(), and the receipts go.
Reset ==
  /\ pending' = {} /\ receipts' = <<>>
  /\ returned' = [d \in Dialog |-> IF d \in pending THEN Append(returned[d], Default)
                                   ELSE returned[d]]
  /\ UNCHANGED <<accepting, opened, accepted>>

Next ==
  \/ \E d \in Dialog :
       \/ Open(d)
       \/ \E v \in Response : Respond(d, v) \/ RespondAgain(d, v)
       \/ \E o \in Outcomes : TimesOut(d, o)
  \/ EnableDialogs \/ ReceiptExpires \/ Reset

Spec == Init /\ [][Next]_vars

-----------------------------------------------------------------------------
\* An extension gets one answer per dialog, and a client that is told its answer
\* was accepted, at once or when it asks again after a lost acknowledgement, was
\* the one whose answer the extension got.
AcceptedIsReturned ==
  /\ \A d \in Dialog : /\ Len(returned[d]) <= 1
                       /\ returned[d] = <<>> => d \notin opened \/ d \in pending
  /\ \A a \in accepted : returned[a[1]] = <<a[2]>>
=============================================================================
