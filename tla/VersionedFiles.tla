---------------------------- MODULE VersionedFiles ----------------------------
(***************************************************************************)
(* Writes of one file that several server processes share: the editor, the   *)
(* models and MCP configuration, a reverted hunk, a skill's switch            *)
(* (lib/versioned-file.ts and its callers).  A save holds a name in the      *)
(* process's memory and a lock of the operating system's, writes a temporary  *)
(* file, looks at the version once more and renames.  Writers outside the     *)
(* lock exist: other programs, and the moves and uploads of this one.         *)
(***************************************************************************)
EXTENDS Naturals, Sequences

CONSTANTS
  Save,        \* requests, each serving one save after another;
  Change,      \* those that edit what they read under the lock (MCP, skills), the
               \* others carry the version their client loaded
  Process,
  Outside,     \* any writer without the lock
  NoSave,
  MaxVersions  \* bound: versions of the file

FilesAssumption == /\ Change \subseteq Save
                   /\ Outside \notin Save /\ NoSave \notin Save
                   /\ MaxVersions \in Nat \ {0}

VARIABLES
  versions,  \* the file: who wrote each of its versions, from what, and who had
             \* looked for the last time by then
  names,     \* __piFileMutations of each process: whether the file is in it
  lock,      \* who holds the lock file
  saves

vars == <<versions, names, lock, saves>>

Current == Len(versions)
Version == [by : Save \cup {Outside}, base : Nat, past : SUBSET Save]
Steps   == {"idle", "named", "locked", "read", "checked", "renamed"}

TypeOK ==
  /\ versions \in Seq(Version)
  /\ names \subseteq Process
  /\ lock \in Save \cup {NoSave}
  /\ saves \in [Save -> [at : Steps, in : Process, loaded : Nat, base : Nat]]

Init ==
  /\ versions = <<[by |-> Outside, base |-> 0, past |-> {}]>>
  /\ names = {} /\ lock = NoSave
  /\ saves \in [Save -> [at : {"idle"}, in : Process, loaded : {0}, base : {0}]]

Goes(s, from, to) ==
  /\ saves[s].at = from
  /\ saves' = [saves EXCEPT ![s].at = to]

\* The client reads the file.
Load(s) ==
  /\ s \notin Change /\ saves[s].at = "idle"
  /\ saves' = [saves EXCEPT ![s].loaded = Current]
  /\ UNCHANGED <<versions, names, lock>>

\* withFileMutation(): in the process, one at a time; another is refused.
Begin(s) ==
  /\ s \in Change \/ saves[s].loaded # 0
  /\ saves[s].in \notin names /\ names' = names \cup {saves[s].in}
  /\ Goes(s, "idle", "named")
  /\ UNCHANGED <<versions, lock>>

\* withFileMutationLock(): BEGIN IMMEDIATE with no time to wait
TakeLock(s) ==
  /\ lock = NoSave /\ lock' = s
  /\ Goes(s, "named", "locked")
  /\ UNCHANGED <<versions, names>>

\* The caller's snapshot under the lock: the version the client loaded, or any
\* if the change is made to what is read.
Read(s) ==
  /\ saves[s].at = "locked"
  /\ s \in Change \/ saves[s].loaded = Current
  /\ saves' = [saves EXCEPT ![s].at = "read", ![s].base = Current]
  /\ UNCHANGED <<versions, names, lock>>

\* Fault: what is written is not looked at again.
RecheckNothing(s) == /\ Goes(s, "read", "checked")
                     /\ UNCHANGED <<versions, names, lock>>

\* replaceFileSnapshot(): the temporary file is written; the second look ...
Recheck(s) ==
  /\ saves[s].base = Current
  /\ Goes(s, "read", "checked")
  /\ UNCHANGED <<versions, names, lock>>

\* The version its author has seen.
Seen(s) == IF s \in Change THEN saves[s].base ELSE saves[s].loaded

\* ... and the rename.
Rename(s) ==
  /\ Current < MaxVersions
  /\ versions' = Append(versions, [by |-> s, base |-> Seen(s), past |-> {}])
  /\ Goes(s, "checked", "renamed")
  /\ UNCHANGED <<names, lock>>

\* The answer, or an error at any step: the lock goes, then the name.
Ends(s) ==
  /\ saves[s].at # "idle"
  /\ saves' = [saves EXCEPT ![s].at = "idle", ![s].base = 0]
  /\ names' = names \ {saves[s].in}
  /\ lock' = IF lock = s THEN NoSave ELSE lock
  /\ UNCHANGED versions

\* A process dies: the operating system releases its lock.
Dies(p) ==
  LET gone == {s \in Save : saves[s].in = p}
  IN /\ saves' = [s \in Save |-> IF s \in gone THEN [saves[s] EXCEPT !.at = "idle", !.base = 0]
                                 ELSE saves[s]]
     /\ names' = names \ {p}
     /\ lock' = IF lock \in gone THEN NoSave ELSE lock
     /\ UNCHANGED versions

OutsideWrites ==
  /\ Current < MaxVersions
  /\ versions' = Append(versions, [by |-> Outside, base |-> Current,
                                   past |-> {s \in Save : saves[s].at = "checked"}])
  /\ UNCHANGED <<names, lock, saves>>

Next ==
  \/ \E s \in Save : \/ Load(s) \/ Begin(s) \/ TakeLock(s) \/ Read(s) \/ Recheck(s)
                     \/ Rename(s) \/ Ends(s)
  \/ \E p \in Process : Dies(p)
  \/ OutsideWrites

Spec == Init /\ [][Next]_vars

-----------------------------------------------------------------------------
\* Nothing that was saved is overwritten by somebody who has not seen it: between
\* the version its author had seen and the one a save wrote there are only versions
\* of writers outside the lock, written after the save had looked for the last
\* time.  This holds for saves of every process, also when one of them dies or
\* fails at any step.
NoSaveLost ==
  \A w \in 1..Current : versions[w].by \in Save =>
    \A v \in versions[w].base + 1 .. w - 1 :
      versions[v].by = Outside /\ versions[w].by \in versions[v].past
=============================================================================
