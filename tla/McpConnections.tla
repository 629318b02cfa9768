---------------------------- MODULE McpConnections ----------------------------
(***************************************************************************)
(* The connections to an MCP server (McpConnectionManager in                 *)
(* lib/mcp-client.ts and its callers in lib/mcp.ts).                         *)
(*                                                                         *)
(* One server id.  The manager keeps one connection of it in a slot: it is    *)
(* claimed before the process is started, given away when the configuration   *)
(* is saved or the connection fails, and its process is stopped after that.   *)
(* Meanwhile the server changes its tools between two pages of a listing, dies *)
(* or does not answer, and other callers connect, probe and test.  A caller    *)
(* needs no state of its own: connect() is one step, what it awaits then is    *)
(* the connection's, and a tool's request changes nothing here.                *)
(***************************************************************************)
EXTENDS Naturals, Sequences

CONSTANTS
  None,
  MaxConnections,  \* bounds: connections ever made; and, together, changes of the
  MaxEvents        \* server's tools and of its configuration, timeouts, errors,
                   \* crashes and health intervals that pass

VARIABLES
  connections,  \* the entries ever made, in order
  slot,         \* entries: the one the manager owns, or None
  shown,        \* statuses: what is shown, and which entry it is about
  stored,       \* the configuration in the file, the last of
  past,         \* those that were stored: a caller may have read any of them
  saving,       \* saves that are written and have not invalidated yet
  offered,      \* the server's tools: all pages of them carry this version
  mishaps

mcpVars == <<connections, slot, shown, stored, past, saving, offered, mishaps>>
fileVars == <<stored, past, saving>>

Pages == 2
Config == [n : 0..MaxEvents, enabled : BOOLEAN]
Entry == DOMAIN connections
Version == 0..MaxEvents

McpAssumption ==
  None \notin Nat \cup Seq(Version) /\ MaxConnections \in Nat /\ MaxEvents \in Nat

Connection ==
  [server     : Config,               \* server and signature
   test       : BOOLEAN,              \* made by test(): not published
   prior      : Nat \cup {None},      \* whose teardown it awaits
   phase      : {"waiting", "starting", "listing", "ready", "failed"},
   closing    : {"no", "running", "done", "failed"},
   process    : {"none", "up", "down"},
   tools      : Seq(Version),         \* the version of each page
   listing    : Seq(Version) \cup {None},  \* discovery: the pages read so far
   dirty      : BOOLEAN,
   notified   : BOOLEAN,              \* a list_changed is on its way
   rediscover : BOOLEAN,              \* ready.then(() => discover())
   checked    : {"never", "lately", "before"},  \* checkedAt
   health     : BOOLEAN,              \* a ping is under way
   late       : BOOLEAN]              \* history: its configuration was read before
                                      \* a save that was then written

TypeOK ==
  /\ connections \in Seq(Connection)
  /\ slot \in Entry \cup {None}
  /\ shown \in [state : {"idle", "connecting", "connected", "disconnected", "error"},
                by : Entry \cup {None}]
  /\ past \subseteq Config /\ stored \in past /\ saving \in 0..MaxEvents
  /\ offered \in Version
  /\ mishaps \in 0..MaxEvents

Init ==
  /\ connections = <<>> /\ slot = None
  /\ shown = [state |-> "idle", by |-> None]
  /\ stored = [n |-> 0, enabled |-> TRUE] /\ past = {stored} /\ saving = 0
  /\ offered = 0 /\ mishaps = 0

Closed(e) == connections[e].closing # "no"
Up(e) == connections[e].process = "up"
Eventful == offered + stored.n + mishaps < MaxEvents
Mishap == Eventful /\ mishaps' = mishaps + 1
Show(state, e) == shown' = [state |-> state, by |-> e]

\* close(): once.  It aborts the requests of the entry; what an answer that is already
\* there would do afterwards finds the entry closed and does nothing (assertOpen()),
\* and nobody reads its catalog again.
Shut(all, e) ==
  IF all[e].closing # "no" THEN all
  ELSE [all EXCEPT ![e] = [@ EXCEPT !.closing = "running", !.listing = None,
                             !.dirty = FALSE, !.notified = FALSE, !.rediscover = FALSE,
                             !.health = FALSE, !.tools = <<>>, !.checked = "never"]]

-----------------------------------------------------------------------------
\* How a connection ends

\* fail() up to its await; `all` is the connections with what else the step does.
Fail(e, state, all) ==
  /\ connections' = Shut(all, e)
  /\ IF slot = e THEN slot' = None /\ Show(state, e) ELSE UNCHANGED <<slot, shown>>

\* invalidate() up to its await.
Invalidated(all) == IF slot = None THEN all ELSE Shut(all, slot)

\* The client and the transport are closed, and the process has ended.
CloseEnds(e) ==
  /\ connections[e].closing = "running"
  /\ connections' = [connections EXCEPT
       ![e].closing = "done", ![e].process = IF @ = "up" THEN "down" ELSE @]
  /\ UNCHANGED <<slot, shown, fileVars, offered, mishaps>>

\* The end of the process cannot be confirmed: fail() says so unless the status is
\* another's by now.
CloseFails(e) ==
  /\ connections[e].closing = "running" /\ Up(e) /\ Mishap
  /\ connections' = [connections EXCEPT ![e].closing = "failed"]
  /\ IF shown.by = e /\ slot # e THEN Show("error", e) ELSE UNCHANGED shown
  /\ UNCHANGED <<slot, fileVars, offered>>

\* The process dies; client.onclose hears of it later.
Dies(e) ==
  /\ Up(e) /\ Mishap
  /\ connections' = [connections EXCEPT ![e].process = "down"]
  /\ UNCHANGED <<slot, shown, fileVars, offered>>

Disconnected(e) ==
  /\ connections[e].process = "down" /\ ~Closed(e)
  /\ Fail(e, "disconnected", connections)
  /\ UNCHANGED <<fileVars, offered, mishaps>>

\* client.onerror: shown, and the next refresh will probe.
ProtocolError(e) ==
  /\ slot = e /\ ~Closed(e) /\ Up(e) /\ Mishap
  /\ Show("error", e)
  /\ connections' = [connections EXCEPT ![e].checked = "never"]
  /\ UNCHANGED <<slot, fileVars, offered>>

-----------------------------------------------------------------------------
\* How a connection begins: the promise `ready`

NewConnection(config, test, prior) ==
  [server |-> config, test |-> test, prior |-> prior, phase |-> "waiting",
   closing |-> "no", process |-> "none", tools |-> <<>>, listing |-> None,
   dirty |-> FALSE, notified |-> FALSE, rediscover |-> FALSE, checked |-> "never",
   health |-> FALSE, late |-> config # stored]

MayStartAlways(e) == TRUE  \* Fault: nobody looks again after the wait.

\* An entry that was replaced while it waited starts nothing.
MayStart(e) == ~Closed(e)

\* The teardown of the former connection is over: client.connect() starts the
\* process, unless that teardown failed or the entry is closed by now.
Start(e) ==
  LET prior == connections[e].prior
      torn == prior # None => connections[prior].closing \in {"done", "failed"}
      whole == prior # None => connections[prior].closing = "done"
  IN /\ connections[e].phase = "waiting" /\ torn
     /\ IF whole /\ MayStart(e)
        THEN /\ connections' = [connections EXCEPT ![e].phase = "starting",
                                                   ![e].process = "up"]
             /\ UNCHANGED <<slot, shown>>
        ELSE Fail(e, "error", [connections EXCEPT ![e].phase = "failed"])
     /\ UNCHANGED <<fileVars, offered, mishaps>>

\* discover() begins: `dirty` is reset before the first page is asked for.
Listing(entry) == [entry EXCEPT !.listing = <<>>, !.dirty = FALSE]

Initialized(e) ==
  /\ connections[e].phase = "starting" /\ Up(e) /\ ~Closed(e)
  /\ connections' = [connections EXCEPT ![e] = [Listing(@) EXCEPT !.phase = "listing"]]
  /\ UNCHANGED <<slot, shown, fileVars, offered, mishaps>>

\* A request is answered by an error when the connection is closed or its process
\* down, and at its deadline.
Refused(e) == IF Closed(e) \/ ~Up(e) THEN UNCHANGED mishaps ELSE Mishap

NeverReady(e) ==
  /\ connections[e].phase \in {"starting", "listing"} /\ Refused(e)
  /\ Fail(e, "error", [connections EXCEPT ![e].phase = "failed", ![e].listing = None])
  /\ UNCHANGED <<fileVars, offered>>

-----------------------------------------------------------------------------
\* The catalog of tools: listAll() and discover()

PageRead(e) ==
  LET read == connections[e].listing
  IN /\ read # None /\ Len(read) < Pages /\ Up(e)
     /\ connections' = [connections EXCEPT ![e].listing = Append(read, offered)]
     /\ UNCHANGED <<slot, shown, fileVars, offered, mishaps>>

\* The last page is read: once more if a change was announced meanwhile, else the
\* pages become the catalog.  The publication, `discovery = undefined` and the end of a
\* test(), which only awaits `ready`, are microtasks of one answer, hence one step.
Discovered(e) ==
  LET entry == connections[e]
  IN /\ entry.listing # None /\ Len(entry.listing) = Pages
     /\ IF entry.dirty
        THEN connections' = [connections EXCEPT ![e] = Listing(@)] /\ UNCHANGED shown
        ELSE /\ connections' =
                  LET found == [connections EXCEPT ![e] =
                        [@ EXCEPT !.tools = entry.listing, !.listing = None,
                                  !.checked = "lately", !.phase = "ready"]]
                  IN  IF entry.test THEN Shut(found, e) ELSE found
             /\ IF slot = e THEN Show("connected", e) ELSE UNCHANGED shown
     /\ UNCHANGED <<slot, fileVars, offered, mishaps>>

\* A discovery after the first one fails, and the connection with it.
DiscoveryFails(e) ==
  /\ connections[e].listing # None /\ connections[e].phase = "ready" /\ Refused(e)
  /\ Fail(e, "error", connections)
  /\ UNCHANGED <<fileVars, offered>>

\* The server changes its tools and says so to everyone it has initialized.
ToolsChange ==
  /\ Eventful /\ offered' = offered + 1
  /\ connections' = [e \in Entry |->
       IF Up(e) /\ ~Closed(e) /\ connections[e].phase \in {"listing", "ready"}
       THEN [connections[e] EXCEPT !.notified = TRUE] ELSE connections[e]]
  /\ UNCHANGED <<slot, shown, fileVars, mishaps>>

Notified(e) ==
  /\ connections[e].notified
  /\ connections' = [connections EXCEPT
       ![e] = [@ EXCEPT !.notified = FALSE, !.dirty = TRUE, !.rediscover = TRUE]]
  /\ UNCHANGED <<slot, shown, fileVars, offered, mishaps>>

\* `ready` is resolved: a discovery begins, unless one is under way, which then sees
\* that the catalog is dirty.
Rediscover(e) ==
  /\ connections[e].rediscover /\ connections[e].phase = "ready"
  /\ connections' = [connections EXCEPT ![e] =
       IF @.listing # None THEN [@ EXCEPT !.rediscover = FALSE]
       ELSE [Listing(@) EXCEPT !.rediscover = FALSE]]
  /\ UNCHANGED <<slot, shown, fileVars, offered, mishaps>>

-----------------------------------------------------------------------------
\* connect(): by a refresh of the MCP center, by an extension that registers the tools,
\* and by a call of one of them, for a configuration that was enabled when it was read.
Shared(config) == slot # None /\ connections[slot].server = config

\* The slot is claimed at once; the new connection awaits the end of the old one.  With
\* the same configuration the old one is shared, and nothing changes.
Connects(config) ==
  /\ config.enabled /\ ~Shared(config) /\ Len(connections) < MaxConnections
  /\ connections' = Append(Invalidated(connections), NewConnection(config, FALSE, slot))
  /\ slot' = Len(connections) + 1 /\ Show("connecting", Len(connections) + 1)
  /\ UNCHANGED <<fileVars, offered, mishaps>>

\* The transport cannot be made: a variable of the environment is missing.
CannotConnect(config) ==
  /\ config.enabled /\ ~Shared(config) /\ Mishap
  /\ connections' = Invalidated(connections)
  /\ slot' = None /\ Show("error", None)
  /\ UNCHANGED <<fileVars, offered>>

\* refresh() of a connection that nobody looked at for a while: one probe for all.
Probes(e) ==
  /\ connections[e].phase = "ready" /\ ~Closed(e)
  /\ connections[e].checked # "lately" /\ ~connections[e].health
  /\ connections' = [connections EXCEPT ![e].health = TRUE]
  /\ UNCHANGED <<slot, shown, fileVars, offered, mishaps>>

Healthy(e) ==
  /\ connections[e].health /\ Up(e)
  /\ connections' = [connections EXCEPT ![e].health = FALSE, ![e].checked = "lately"]
  /\ IF slot = e THEN Show("connected", e) ELSE UNCHANGED shown
  /\ UNCHANGED <<slot, fileVars, offered, mishaps>>

ProbeFails(e) ==
  /\ connections[e].health /\ Refused(e)
  /\ Fail(e, "error", connections)
  /\ UNCHANGED <<fileVars, offered>>

\* HEALTH_INTERVAL_MS pass.
TimePasses(e) ==
  /\ connections[e].checked = "lately" /\ ~Closed(e) /\ Mishap
  /\ connections' = [connections EXCEPT ![e].checked = "before"]
  /\ UNCHANGED <<slot, shown, fileVars, offered>>

\* test(): a connection of its own, enabled or not, closed when it is ready or failed.
Tests ==
  /\ Len(connections) < MaxConnections
  /\ connections' = Append(connections, NewConnection(stored, TRUE, None))
  /\ UNCHANGED <<slot, shown, fileVars, offered, mishaps>>

-----------------------------------------------------------------------------
\* saveMcpServer() and deleteMcpServer(): the file first, then the connection.
Saves(enabled) ==
  /\ Eventful
  /\ stored' = [n |-> stored.n + 1, enabled |-> enabled] /\ saving' = saving + 1
  /\ past' = past \cup {stored'}
  /\ UNCHANGED <<connections, slot, shown, offered, mishaps>>

Invalidates ==
  /\ saving > 0 /\ saving' = saving - 1
  /\ connections' = Invalidated(connections)
  /\ slot' = None /\ Show("idle", None)
  /\ UNCHANGED <<stored, past, offered, mishaps>>

Next ==
  \/ \E e \in Entry :
       \/ CloseEnds(e) \/ CloseFails(e) \/ Dies(e)
       \/ Disconnected(e) \/ ProtocolError(e)
       \/ Start(e) \/ Initialized(e) \/ NeverReady(e)
       \/ PageRead(e) \/ Discovered(e) \/ DiscoveryFails(e)
       \/ Notified(e) \/ Rediscover(e)
       \/ Probes(e) \/ Healthy(e) \/ ProbeFails(e) \/ TimePasses(e)
  \/ ToolsChange
  \/ \E config \in past : Connects(config) \/ CannotConnect(config)
  \/ Tests
  \/ \E enabled \in BOOLEAN : Saves(enabled)
  \/ Invalidates

Spec == Init /\ [][Next]_mcpVars

-----------------------------------------------------------------------------
\* Who is not closed is in the slot, or is a test; and who was closed and has been
\* torn down leaves no process, whenever it was closed: before its start, during its
\* handshake or while it listed.  (While the old process is still ending, a new one
\* may already run: fail() gives the slot away before it closes.)
NothingLeaks ==
  \A e \in Entry :
    /\ ~Closed(e) /\ ~connections[e].test => slot = e
    /\ connections[e].closing = "done" => ~Up(e)

\* What is shown is about the connection in the slot, except the failure of the last
\* one: no answer of a former connection shows it again.
ShownIsOfTheSlot ==
  /\ shown.state \in {"connecting", "connected"} => slot # None /\ shown.by = slot
  /\ slot # None => shown.by = slot
  /\ shown.state = "connected" => connections[slot].phase = "ready"

\* A catalog that is no longer the server's, because a page of it changed while it was
\* listed or later, is going to be replaced: the news of the change is on its way, or a
\* discovery waits to begin, or one is under way that has read nothing older or will
\* begin again.
CatalogIsReplaced ==
  \A e \in Entry :
    LET entry == connections[e]
        current == [p \in 1..Pages |-> offered]
    IN entry.phase = "ready" /\ ~Closed(e) /\ Up(e) /\ entry.tools # current =>
         \/ entry.notified \/ entry.rediscover
         \/ /\ entry.listing # None
            /\ entry.dirty \/ \A p \in DOMAIN entry.listing : entry.listing[p] = offered

\* When every save has invalidated, the connection in the slot has the configuration in
\* the file, unless its caller had read the file before that was written.
SavedIsConnected ==
  slot # None /\ saving = 0 /\ ~connections[slot].late
    => connections[slot].server = stored

ConnectionsAreOwned ==
  NothingLeaks /\ ShownIsOfTheSlot /\ CatalogIsReplaced /\ SavedIsConnected
=============================================================================
