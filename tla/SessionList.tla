----------------------------- MODULE SessionList -----------------------------
(***************************************************************************)
(* The list of conversations a browser tab shows (lib/session-list-store.ts) *)
(* and the listing of session files behind it (listAllSessions() in          *)
(* lib/session-reader.ts).  The tab has one request at a time; it shows its  *)
(* own new conversations and its own renames before any list has them.  The  *)
(* server has one scan at a time, which the requests that arrive during it   *)
(* share.  Other tabs and commands rename, delete and list conversations too.*)
(*                                                                           *)
(* A name is the number of the rename that wrote it.                         *)
(***************************************************************************)
EXTENDS Naturals

CONSTANTS
  Session,
  NoName,    \* of a conversation that is not in a list
  MaxNames,  \* bound: renames of one conversation,
  MaxScans   \* and scans of the server

ListAssumption == /\ NoName \notin Nat
                  /\ MaxNames \in Nat /\ MaxScans \in Nat

Name     == 0..MaxNames
Names    == [Session -> Name \cup {NoName}]
Idle     == [at |-> "none"]
Requests == [at : {"sent", "joined"}, since : Nat]
            \cup [at : {"answered"}, since : Nat, list : Names, scan : Nat]
Scans    == [at : {"scanning"}, unread : SUBSET Session, list : Names]

VARIABLES
  files,       \* the session files: where each is, and its name
  scan,        \* the listing in progress: what it has read, and what not yet
  scans,       \* the number of scans begun
  snapshot,    \* snapshot.allSessions of the tab
  optimistic,  \* its new conversations that no list had yet
  pendingNames,\* its renames that no later request has confirmed: the revision
  renamedTo,   \* and the name
  nameRevision,
  request,     \* pending, with the revision it started at
  refreshAgain,
  patches,     \* renames of the tab that were carried out, not yet answered,
  deleting,    \* and its deletions
  own,         \* history: the last rename that was answered,
  during,      \* the scan that was in progress then,
  listed,      \* the scan the list shown is of,
  mine         \* and the conversations the tab created that nobody deleted

server  == <<files, scan, scans>>
tab     == <<snapshot, optimistic, pendingNames, renamedTo, nameRevision>>
net     == <<request, refreshAgain>>
history == <<own, during, listed, mine>>
vars == <<server, tab, net, patches, deleting, history>>

File == [state : {"none", "unsaved", "saved", "deleted"}, name : Name]

TypeOK ==
  /\ files \in [Session -> File]
  /\ scan \in Scans \cup {Idle}
  /\ scans \in Nat
  /\ snapshot \in Names /\ optimistic \in Names
  /\ pendingNames \in [Session -> Nat] /\ renamedTo \in Names
  /\ nameRevision \in Nat
  /\ request \in Requests \cup {Idle} /\ refreshAgain \in BOOLEAN
  /\ patches \subseteq Session \X Name /\ deleting \subseteq Session
  /\ own \in Names /\ during \in [Session -> Nat] /\ listed \in Nat
  /\ mine \subseteq Session

Init ==
  /\ \E old \in SUBSET Session :
       /\ files = [s \in Session |-> [state |-> IF s \in old THEN "saved" ELSE "none",
                                      name |-> 0]]
       /\ snapshot = [s \in Session |-> IF s \in old THEN 0 ELSE NoName]
  /\ scan = Idle /\ scans = 0
  /\ optimistic = [s \in Session |-> NoName] /\ renamedTo = optimistic
  /\ pendingNames = [s \in Session |-> 0] /\ nameRevision = 0
  /\ request = Idle /\ refreshAgain = FALSE
  /\ patches = {} /\ deleting = {}
  /\ own = optimistic /\ during = pendingNames /\ listed = 0 /\ mine = {}

-----------------------------------------------------------------------------
\* The server.

\* What a listing finds of a conversation.
Listed(s) == IF files[s].state = "saved" THEN files[s].name ELSE NoName

\* A conversation is saved with its first answer.
Persists(s) ==
  /\ files[s].state = "unsaved"
  /\ files' = [files EXCEPT ![s].state = "saved"]
  /\ UNCHANGED <<scan, scans, tab, net, patches, deleting, history>>

Rename(s) ==
  /\ files[s].state = "saved" /\ files[s].name < MaxNames
  /\ files' = [files EXCEPT ![s].name = @ + 1]

OtherRenames(s) ==
  /\ Rename(s)
  /\ UNCHANGED <<scan, scans, tab, net, patches, deleting, history>>

OtherDeletes(s) ==
  /\ files[s].state = "saved"
  /\ files' = [files EXCEPT ![s].state = "deleted"] /\ mine' = mine \ {s}
  /\ UNCHANGED <<scan, scans, tab, net, patches, deleting, own, during, listed>>

\* listAllSessions(): a listing in progress is shared.
ScanBegins ==
  /\ scan = Idle /\ scans < MaxScans /\ scans' = scans + 1
  /\ scan' = [at |-> "scanning", unread |-> Session,
              list |-> [s \in Session |-> NoName]]
  /\ UNCHANGED <<files, tab, refreshAgain, patches, deleting, history>>

OtherLists == ScanBegins /\ UNCHANGED request

RequestArrives ==
  /\ request.at = "sent"
  /\ request' = [request EXCEPT !.at = "joined"]
  /\ \/ ScanBegins
     \/ /\ scan # Idle
        /\ UNCHANGED <<server, tab, refreshAgain, patches, deleting, history>>

\* Each file is read at its own moment.
ScanReads(s) ==
  /\ scan # Idle /\ s \in scan.unread
  /\ scan' = [scan EXCEPT !.unread = @ \ {s}, !.list[s] = Listed(s)]
  /\ UNCHANGED <<files, scans, tab, net, patches, deleting, history>>

ScanEnds ==
  /\ scan # Idle /\ scan.unread = {}
  /\ scan' = Idle
  /\ request' = IF request.at # "joined" THEN request
                ELSE [at |-> "answered", since |-> request.since,
                      list |-> scan.list, scan |-> scans]
  /\ UNCHANGED <<files, scans, tab, refreshAgain, patches, deleting, history>>

-----------------------------------------------------------------------------
\* The tab.

\* refreshSessionList(invalidate), given the revision of names
Refresh(invalidate, revision) ==
  IF request # Idle
  THEN /\ refreshAgain' = (refreshAgain \/ invalidate)
       /\ UNCHANGED request
  ELSE /\ request' = [at |-> "sent", since |-> revision]
       /\ UNCHANGED refreshAgain

\* The poll, the focus and the network.
Polls ==
  /\ Refresh(FALSE, nameRevision)
  /\ UNCHANGED <<server, tab, patches, deleting, history>>

\* rememberNewSession()
Creates(s) ==
  /\ files[s].state = "none"
  /\ files' = [files EXCEPT ![s].state = "unsaved"]
  /\ optimistic' = [optimistic EXCEPT ![s] = 0]
  /\ snapshot' = [snapshot EXCEPT ![s] = 0]
  /\ mine' = mine \cup {s}
  /\ Refresh(TRUE, nameRevision)
  /\ UNCHANGED <<scan, scans, pendingNames, renamedTo, nameRevision, patches, deleting,
                 own, during, listed>>

\* PATCH: carried out, ...
RenameBegins(s) ==
  /\ snapshot[s] # NoName /\ Rename(s)
  /\ patches' = patches \cup {<<s, files'[s].name>>}
  /\ UNCHANGED <<scan, scans, tab, net, deleting, history>>

\* ... and answered: updateSessionName(), and the list is loaded again;
RenameEnds(s, name) ==
  /\ <<s, name>> \in patches /\ patches' = patches \ {<<s, name>>}
  /\ nameRevision' = nameRevision + 1
  /\ pendingNames' = [pendingNames EXCEPT ![s] = nameRevision']
  /\ renamedTo' = [renamedTo EXCEPT ![s] = name]
  /\ optimistic' = [optimistic EXCEPT ![s] = IF @ = NoName THEN @ ELSE name]
  /\ snapshot' = [snapshot EXCEPT ![s] = IF @ = NoName THEN @ ELSE name]
  /\ own' = [own EXCEPT ![s] = name]
  /\ during' = [during EXCEPT ![s] = IF scan = Idle THEN 0 ELSE scans]
  /\ Refresh(TRUE, nameRevision')
  /\ UNCHANGED <<server, deleting, listed, mine>>

\* or the answer is lost.
RenameLost(s, name) ==
  /\ <<s, name>> \in patches /\ patches' = patches \ {<<s, name>>}
  /\ UNCHANGED <<server, tab, net, deleting, history>>

\* DELETE, carried out or refused, ...
DeleteBegins(s) ==
  /\ snapshot[s] # NoName /\ s \notin deleting /\ deleting' = deleting \cup {s}
  /\ \/ /\ files[s].state = "saved"
        /\ files' = [files EXCEPT ![s].state = "deleted"]
     \/ UNCHANGED files
  /\ mine' = mine \ {s}
  /\ UNCHANGED <<scan, scans, tab, net, patches, own, during, listed>>

\* ... and answered: forgetSession(), whatever the answer says.
DeleteEnds(s) ==
  /\ s \in deleting /\ deleting' = deleting \ {s}
  /\ optimistic' = [optimistic EXCEPT ![s] = NoName]
  /\ pendingNames' = [pendingNames EXCEPT ![s] = 0]
  /\ renamedTo' = [renamedTo EXCEPT ![s] = NoName]
  /\ snapshot' = [snapshot EXCEPT ![s] = NoName]
  /\ own' = [own EXCEPT ![s] = NoName]
  /\ Refresh(TRUE, nameRevision)
  /\ UNCHANGED <<server, nameRevision, patches, during, listed, mine>>

\* Or the answer is lost.
DeleteLost(s) ==
  /\ s \in deleting /\ deleting' = deleting \ {s}
  /\ UNCHANGED <<server, tab, net, patches, history>>

\* The request is over: another one if a change was announced meanwhile.
Again ==
  /\ refreshAgain' = FALSE
  /\ request' = IF refreshAgain THEN [at |-> "sent", since |-> nameRevision'] ELSE Idle

\* Fault: a response is believed although it was requested before the rename.
StillOwnOnce(s, revision) == FALSE

\* A rename that is younger than the request.
StillOwn(s, revision) == pendingNames[s] > revision

\* The conversation as the tab shows it after a response.
ShownFrom(list, s) == IF list[s] = NoName THEN optimistic[s] ELSE list[s]

\* refreshSessionList(), with its response
ResponseArrives ==
  LET list == request.list
      kept(s) == StillOwn(s, request.since) /\ ShownFrom(list, s) # NoName
  IN /\ request.at = "answered"
     /\ snapshot' = [s \in Session |-> IF kept(s) THEN renamedTo[s]
                                       ELSE ShownFrom(list, s)]
     /\ optimistic' = [s \in Session |-> IF list[s] = NoName THEN optimistic[s]
                                         ELSE NoName]
     /\ pendingNames' = [s \in Session |-> IF kept(s) THEN pendingNames[s] ELSE 0]
     /\ renamedTo' = [s \in Session |-> IF kept(s) THEN renamedTo[s] ELSE NoName]
     /\ listed' = request.scan
     /\ UNCHANGED nameRevision /\ Again
     /\ UNCHANGED <<server, patches, deleting, own, during, mine>>

RequestFails ==
  /\ request # Idle
  /\ UNCHANGED nameRevision /\ Again
  /\ UNCHANGED <<server, snapshot, optimistic, pendingNames, renamedTo, patches,
                 deleting, history>>

Next ==
  \/ \E s \in Session :
       \/ Persists(s) \/ OtherRenames(s) \/ OtherDeletes(s) \/ ScanReads(s)
       \/ Creates(s) \/ RenameBegins(s) \/ DeleteBegins(s) \/ DeleteEnds(s)
       \/ DeleteLost(s)
       \/ \E name \in Name : RenameEnds(s, name) \/ RenameLost(s, name)
  \/ OtherLists \/ RequestArrives \/ ScanEnds \/ Polls
  \/ ResponseArrives \/ RequestFails

Spec == Init /\ [][Next]_vars

-----------------------------------------------------------------------------
Overtaken(s) == own[s] # NoName /\ snapshot[s] # NoName /\ snapshot[s] < own[s]

\* A rename that was answered stays in the list although lists requested before
\* it arrive after it; a list can only show an older name than that when it is
\* of a scan that was in progress already when the rename was answered.  And a
\* conversation the tab created is in its list until somebody deletes it, on
\* either side of the moment the server first lists it.
OwnChangesStay ==
  /\ \A s \in Session : Overtaken(s) => 0 < listed /\ listed <= during[s]
  /\ \A s \in mine : snapshot[s] # NoName

\* lib/__tests__/session-list-store.test.ts: the list "does not overwrite a
\* committed rename with an older list response".
CommittedRenameShown == \A s \in Session : ~Overtaken(s)
=============================================================================
