------------------------------- MODULE MCParts -------------------------------
(***************************************************************************)
(* Model-checking instances of ten parts that share no state: the runs of a  *)
(* session, its compaction queue, the dialogs of its extensions, the         *)
(* registry of sessions, the managed updates, the files that are saved by    *)
(* version, the list of conversations, the forks, the connections to an MCP  *)
(* server and the cache of the panels.  A behaviour is one of a single part, *)
(* chosen at the beginning; the other parts stay as they are.                *)
(*                                                                         *)
(* Where a part has a module of proofs it is instantiated with them, so that  *)
(* MCPartsProofs can use its theorems; TLC sees only the part.               *)
(***************************************************************************)
EXTENDS SessionRuns

\* CompactionQueue
CONSTANTS Item, Request, AutoId, NoItem, MaxRuns, MaxAuto, MaxTimers
VARIABLES current, comp, requests, calls, compacting, streaming, ended, queue, known,
          flush, timers, runs, autos, from, sent, cleared, failed, rest, handing, refused
Compaction == INSTANCE CompactionQueueProofs

\* ExtensionDialogs
CONSTANTS Dialog, Answer, Cancel, Default, MaxReceipts
VARIABLES accepting, pending, receipts, opened, returned, accepted
Dialogs == INSTANCE ExtensionDialogs

\* UpdateOperations
CONSTANTS Op, None, MaxRestarts, MaxDeaths
VARIABLES mutex, lock, record, server, holder, request, supervisor, helper, deaths,
          contended
Updates == INSTANCE UpdateOperationsProofs

\* SessionRegistry (None as above)
CONSTANTS Session, Stored, MaxWrappers, MaxChanges
VARIABLES registry, locks, wrappers, made, changes
Registry == INSTANCE SessionRegistryProofs

\* VersionedFiles
CONSTANTS Save, Change, Process, Outside, NoSave, MaxVersions
VARIABLES versions, names, fileLock, saves
Files == INSTANCE VersionedFiles WITH lock <- fileLock

\* SessionList
CONSTANTS Conversation, NoName, MaxNames, MaxScans
VARIABLES files, scan, scans, snapshot, optimistic, pendingNames, renamedTo,
          nameRevision, listRequest, refreshAgain, patches, deleting, own, during,
          listed, mine
List == INSTANCE SessionList WITH Session <- Conversation, request <- listRequest

\* ForkRequests (None and MaxRestarts as above)
CONSTANTS Key, Arguments, MaxEntries, Ttl, MaxTime, MaxForks
VARIABLES now, entries, forks, answers, life
Forks == INSTANCE ForkRequests

\* McpConnections (None as above)
CONSTANTS MaxConnections, MaxEvents
VARIABLES connections, slot, shown, stored, past, saving, offered, mishaps
Mcp == INSTANCE McpConnections

\* RequestCache (None as above)
CONSTANTS Panel, Debounced, MaxRetries, MaxWrites
VARIABLES panels, delays, cached, task, version, untold, told, missed, dropped
Cache == INSTANCE RequestCache

ASSUME PartsAssumption ==
       /\ Compaction!CompactionAssumption
       /\ Dialogs!DialogsAssumption /\ Updates!UpdateAssumption
       /\ Registry!RegistryAssumption /\ Files!FilesAssumption
       /\ List!ListAssumption /\ Forks!ForkAssumption
       /\ Mcp!McpAssumption /\ Cache!CacheAssumption

VARIABLE part

compactionVars == <<current, comp, requests, calls, compacting, streaming, ended,
                    queue, known, flush, timers, runs, autos, from, sent, cleared,
                    failed, rest, handing, refused>>
dialogsVars == <<accepting, pending, receipts, opened, returned, accepted>>
updatesVars == <<mutex, lock, record, server, holder, request, supervisor, helper,
                 deaths, contended>>
registryVars == <<registry, locks, wrappers, made, changes>>
filesVars == <<versions, names, fileLock, saves>>
listVars == <<files, scan, scans, snapshot, optimistic, pendingNames, renamedTo,
              nameRevision, listRequest, refreshAgain, patches, deleting, own, during,
              listed, mine>>
forksVars == <<now, entries, forks, answers, life>>
mcpVars == <<connections, slot, shown, stored, past, saving, offered, mishaps>>
cacheVars == <<panels, delays, cached, task, version, untold, told, missed, dropped>>
partsVars == <<part, vars, compactionVars, dialogsVars, updatesVars, registryVars,
               filesVars, listVars, forksVars, mcpVars, cacheVars>>

\* A part that is not the one of the behaviour begins in one way only.
PartsInit ==
  /\ part \in {"runs", "compaction", "dialogs", "updates", "registry", "files", "list",
               "forks", "mcp", "cache"}
  /\ part # "dialogs" => accepting = TRUE
  /\ Init /\ Compaction!Init /\ Dialogs!Init /\ Updates!Init
  /\ Registry!Init /\ Files!Init /\ List!Init /\ Forks!Init
  /\ Mcp!Init /\ Cache!Init
  /\ part # "files" =>
       saves = [s \in Save |-> [at |-> "idle", in |-> CHOOSE p \in Process : TRUE,
                                loaded |-> 0, base |-> 0]]
  /\ part # "list" => \A s \in Conversation : files[s].state = "none"

PartsNext ==
  \/ /\ part = "runs" /\ Next
     /\ UNCHANGED <<part, compactionVars, dialogsVars, updatesVars, registryVars,
                    filesVars, listVars, forksVars, mcpVars, cacheVars>>
  \/ /\ part = "compaction" /\ Compaction!Next
     /\ UNCHANGED <<part, vars, dialogsVars, updatesVars, registryVars,
                    filesVars, listVars, forksVars, mcpVars, cacheVars>>
  \/ /\ part = "dialogs" /\ Dialogs!Next
     /\ UNCHANGED <<part, vars, compactionVars, updatesVars, registryVars,
                    filesVars, listVars, forksVars, mcpVars, cacheVars>>
  \/ /\ part = "updates" /\ Updates!Next
     /\ UNCHANGED <<part, vars, compactionVars, dialogsVars, registryVars,
                    filesVars, listVars, forksVars, mcpVars, cacheVars>>
  \/ /\ part = "registry" /\ Registry!Next
     /\ UNCHANGED <<part, vars, compactionVars, dialogsVars, updatesVars,
                    filesVars, listVars, forksVars, mcpVars, cacheVars>>
  \/ /\ part = "files" /\ Files!Next
     /\ UNCHANGED <<part, vars, compactionVars, dialogsVars, updatesVars,
                    registryVars, listVars, forksVars, mcpVars, cacheVars>>
  \/ /\ part = "list" /\ List!Next
     /\ UNCHANGED <<part, vars, compactionVars, dialogsVars, updatesVars,
                    registryVars, filesVars, forksVars, mcpVars, cacheVars>>
  \/ /\ part = "forks" /\ Forks!Next
     /\ UNCHANGED <<part, vars, compactionVars, dialogsVars, updatesVars,
                    registryVars, filesVars, listVars, mcpVars, cacheVars>>
  \/ /\ part = "mcp" /\ Mcp!Next
     /\ UNCHANGED <<part, vars, compactionVars, dialogsVars, updatesVars,
                    registryVars, filesVars, listVars, forksVars, cacheVars>>
  \/ /\ part = "cache" /\ Cache!Next
     /\ UNCHANGED <<part, vars, compactionVars, dialogsVars, updatesVars,
                    registryVars, filesVars, listVars, forksVars, mcpVars>>

PartsSpec == PartsInit /\ [][PartsNext]_partsVars

\* The properties of the other parts; each is stated and explained in its module.  With
\* them go the types of the parts about which nothing is proved.
QueueIsServed      == part = "compaction" => Compaction!QueueIsServed
CompactionIsShown  == part = "compaction" => Compaction!CompactionIsShown
OnceOrExplained    == part = "compaction" => Compaction!OnceOrExplained
AcceptedIsReturned == part = "dialogs" => Dialogs!AcceptedIsReturned
HelperHoldsLock    == part = "updates" => Updates!HelperHoldsLock
OneRoute           == part = "registry" => Registry!OneRoute
NoSaveLost         == part = "files" => Files!TypeOK /\ Files!NoSaveLost
OwnChangesStay     == part = "list" => List!TypeOK /\ List!OwnChangesStay
ForkOnce           == part = "forks" => Forks!TypeOK /\ Forks!ForkOnce
ConnectionsAreOwned == part = "mcp" => Mcp!TypeOK /\ Mcp!ConnectionsAreOwned
CacheServes        == part = "cache" => Cache!TypeOK /\ Cache!CacheServes
VerdictStands      == Updates!VerdictStands
=============================================================================
