----------------------------- MODULE Persistence -----------------------------
(***************************************************************************)
(* How a server keeps its persistent entries in a file                     *)
(* (Vision/src/Storage.cpp: GetPersistentEntries, SavePersistent,          *)
(* LoadPersistent; Vision/src/Dispatcher.cpp: the periodic save).          *)
(*                                                                         *)
(* What is saved is a version of the table.  The dispatch thread saves     *)
(* when the table is dirty; the program may save too, and the process may  *)
(* die between any two calls to the file system and start again.           *)
(***************************************************************************)
EXTENDS Naturals, FiniteSets

CONSTANTS MaxVersions,  \* bound: changes of persistent entries
          MaxFiles,     \* bound: files ever created
          MaxCrashes    \* bound: crashes

ASSUME PersistenceAssumption ==
  MaxVersions \in Nat /\ MaxFiles \in Nat /\ MaxCrashes \in Nat

Paths  == {"fn", "tmp", "bak"}
Savers == {"dispatch", "user"}
Nothing == 0   \* no file under a name; also the version of an empty table

VARIABLES version, edits,  \* the table; how often it was changed
          dirty,             \* m_persistent_dirty
          pc, snap, handle,  \* each saver: where it is, what it saves, its file
          path, data, files, \* the file system: names, contents, files created
          crashes, loaded,
          shared,            \* history: both have saved to the file at once
          userSaved,         \* history: the program has saved
          stranded           \* history: a restore failed, no save has ended since

savers == <<pc, snap, handle>>
disk   == <<path, data, files>>
persistVars == <<version, edits, dirty, savers, disk, crashes, loaded, shared, userSaved,
                stranded>>

Empty == [saved |-> Nothing, whole |-> FALSE]   \* a file just opened

PersistInit ==
  /\ version = 0 /\ edits = 0 /\ dirty = FALSE
  /\ pc = [s \in Savers |-> "idle"]
  /\ snap = [s \in Savers |-> 0] /\ handle = [s \in Savers |-> Nothing]
  /\ path = [p \in Paths |-> Nothing] /\ data = [i \in 1 .. MaxFiles |-> Empty]
  /\ files = 0 /\ crashes = 0 /\ loaded = 0 /\ shared = FALSE /\ userSaved = FALSE
  /\ stranded = FALSE

ChangeTable ==
  /\ edits < MaxVersions
  /\ edits' = edits + 1 /\ version' = edits + 1 /\ dirty' = TRUE
  /\ UNCHANGED <<savers, disk, crashes, loaded, shared, userSaved, stranded>>
-----------------------------------------------------------------------------
(* SavePersistent.                                                         *)

At(s, from, to) == pc[s] = from /\ pc' = [pc EXCEPT ![s] = to]
TableKept == UNCHANGED <<version, edits, crashes, loaded, userSaved>>

\* GetPersistentEntries: the flag is cleared before anything is written.
Snapshot(s) ==
  /\ At(s, "idle", "open")
  /\ s = "dispatch" => dirty
  /\ dirty' = FALSE
  /\ snap' = [snap EXCEPT ![s] = version]
  /\ shared' = (shared \/ \E t \in Savers \ {s} : pc[t] # "idle")
  /\ userSaved' = (userSaved \/ s = "user")
  /\ UNCHANGED <<version, edits, handle, disk, crashes, loaded, stranded>>

\* The program saves to another file.
SaveElsewhere ==
  /\ pc["user"] = "idle" /\ ~userSaved
  /\ dirty' = FALSE /\ userSaved' = TRUE
  /\ UNCHANGED <<version, edits, savers, disk, crashes, loaded, shared, stranded>>

\* Only the periodic save tries again after an error.
FailedSave(s) == dirty' = (dirty \/ s = "dispatch")

\* Opening a file truncates it.
OpenTmp(s) ==
  /\ LET i == IF path["tmp"] # Nothing THEN path["tmp"] ELSE files + 1
     IN /\ i <= MaxFiles
        /\ \/ /\ At(s, "open", "write")
              /\ path' = [path EXCEPT !["tmp"] = i]
              /\ data' = [data EXCEPT ![i] = Empty]
              /\ files' = IF i > files THEN i ELSE files
              /\ handle' = [handle EXCEPT ![s] = i]
              /\ UNCHANGED dirty
           \/ At(s, "open", "idle") /\ FailedSave(s) /\ UNCHANGED <<disk, handle>>
  /\ TableKept /\ UNCHANGED <<snap, shared, stranded>>

\* Mutant: an error of the stream is not looked at.
WriteTmpUnchecked(s) ==
  /\ At(s, "write", "remove")
  /\ data' = [data EXCEPT ![handle[s]] = [saved |-> snap[s], whole |-> FALSE]]
  /\ TableKept /\ UNCHANGED <<dirty, path, snap, handle, files, shared, stranded>>

\* remove; rename, which replaces its target and fails if there is no source.
\* Either may fail without anybody looking.
Without(name) == [path EXCEPT ![name] = Nothing]
Rename(from, to) == [path EXCEPT ![to] = path[from], ![from] = Nothing]

RemoveName(name) == path' \in {path, Without(name)}
TryRename(from, to) ==
  path' \in {path} \cup (IF path[from] = Nothing THEN {} ELSE {Rename(from, to)})

WriteTmp(s) ==
  /\ \/ /\ At(s, "write", "remove")
        /\ data' = [data EXCEPT ![handle[s]] = [saved |-> snap[s], whole |-> TRUE]]
        /\ UNCHANGED <<dirty, path>>
     \/ At(s, "write", "idle") /\ RemoveName("tmp") /\ FailedSave(s) /\ UNCHANGED data
  /\ TableKept /\ UNCHANGED <<snap, handle, files, shared, stranded>>

RemoveBak(s) ==
  /\ At(s, "remove", "backup")
  /\ RemoveName("bak")
  /\ TableKept /\ UNCHANGED <<dirty, snap, handle, data, files, shared, stranded>>

BackUp(s) ==
  /\ At(s, "backup", "move")
  /\ TryRename("fn", "bak")
  /\ TableKept /\ UNCHANGED <<dirty, snap, handle, data, files, shared, stranded>>

MoveToReal(s) ==
  /\ \/ /\ path["tmp"] # Nothing
        /\ At(s, "move", "idle")
        /\ path' = Rename("tmp", "fn") /\ stranded' = FALSE
     \/ At(s, "move", "restore") /\ UNCHANGED <<path, stranded>>
  /\ TableKept /\ UNCHANGED <<dirty, snap, handle, data, files, shared>>

\* "attempt to restore backup"
Restore(s) ==
  /\ At(s, "restore", "idle")
  /\ TryRename("bak", "fn")
  /\ stranded' = (stranded \/ (path["bak"] # Nothing /\ path' = path))
  /\ FailedSave(s)
  /\ TableKept /\ UNCHANGED <<snap, handle, data, files, shared>>
-----------------------------------------------------------------------------
\* The process dies.  StartServer loads the file; without one, or with half of
\* one, it starts with nothing of what was saved.
Crash ==
  /\ crashes < MaxCrashes
  /\ crashes' = crashes + 1
  /\ version' = IF path["fn"] # Nothing /\ data[path["fn"]].whole
                THEN data[path["fn"]].saved ELSE Nothing
  /\ loaded' = version'
  /\ dirty' = FALSE
  /\ pc' = [s \in Savers |-> "idle"]
  /\ UNCHANGED <<edits, snap, handle, disk, shared, userSaved, stranded>>

Saving(s) ==
  \/ Snapshot(s) \/ OpenTmp(s) \/ WriteTmp(s) \/ RemoveBak(s) \/ BackUp(s)
  \/ MoveToReal(s) \/ Restore(s)

PersistNext ==
  \/ ChangeTable \/ SaveElsewhere \/ Crash
  \/ \E s \in Savers : Saving(s)

PersistSpec == PersistInit /\ [][PersistNext]_persistVars
-----------------------------------------------------------------------------
(* Properties.                                                             *)

\* The names, files and savers have their types; no file has two names.
PersistTypeOK ==
  /\ version \in 0 .. edits /\ edits \in 0 .. MaxVersions
  /\ stranded \in BOOLEAN /\ dirty \in BOOLEAN /\ loaded \in 0 .. edits
  /\ pc \in [Savers -> {"idle", "open", "write", "remove", "backup", "move", "restore"}]
  /\ snap \in [Savers -> 0 .. edits] /\ handle \in [Savers -> 0 .. files]
  /\ \A p, q \in Paths : p # q /\ path[p] = path[q] => path[p] = Nothing
  /\ path \in [Paths -> 0 .. files] /\ files \in 0 .. MaxFiles /\ crashes \in 0 .. MaxCrashes

\* As long as the two savers do not work on the file at once, the real file and
\* the backup are never half-written, at whatever call the process dies.
NeverTorn ==
  ~shared => \A p \in {"fn", "bak"} : path[p] # Nothing => data[path[p]].whole

\* Whenever the process dies, a complete version is on the disk once one has
\* been saved: in the real file, the backup or the temporary file.  (Not so the
\* next time, nor after a restore that failed: where only the backup has the
\* table, the next save removes it, and may then fail like the one before.)
SomeCopy ==
  crashes = 0 /\ ~shared /\ ~stranded /\ (\E i \in 1 .. files : data[i].whole) =>
    \E p \in Paths : path[p] # Nothing /\ data[path[p]].whole

\* A table that is not dirty is in the file, unless the program saved too (any
\* save of the program clears the flag, and none of its errors sets it again)
\* or has not changed since it was loaded.
CleanIsSaved ==
  ~userSaved /\ ~dirty /\ pc["dispatch"] = "idle" =>
    \/ version = loaded
    \/ path["fn"] # Nothing /\ data[path["fn"]] = [saved |-> version, whole |-> TRUE]

\* What the run checks of the persistent file.
SaveSafe == PersistTypeOK /\ NeverTorn /\ SomeCopy /\ CleanIsSaved
=============================================================================
