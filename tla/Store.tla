-------------------------------- MODULE Store --------------------------------
(***************************************************************************)
(* The versioned store of playdate/store: Save writes a temporary file and *)
(* renames it over the stored one, with a backup swap for a platform whose *)
(* rename refuses an existing destination; Load recovers the backup,       *)
(* migrates older versions and persists the result through Save.           *)
(*                                                                         *)
(* Each call to the filesystem is a step of its own, so the device may     *)
(* lose power between any two, and each may fail.  Rename is atomic and a  *)
(* flushed and closed file survives a crash: those are assumptions about   *)
(* the Playdate filesystem.  Payload bytes are abstract values; a file is  *)
(* complete (a version and a value), corrupt, or torn, which is what a     *)
(* crash or a short write leaves of a file that was being written.         *)
(***************************************************************************)
EXTENDS Naturals

CONSTANTS
  Payloads,      \* payloads
  Current,     \* Config.Version, at least 1
  Newest,      \* newest version a stored file may carry, not below Current
  Trials,      \* what may go wrong: the kinds of filesystem calls that may
               \* fail on their own, how many of them, how many power losses
  Absent, Corrupt, Torn

(* What may go wrong in a behaviour. *)
Trial(faulty, count, losses) == [faulty |-> faulty, faults |-> count, crashes |-> losses]

(* One loss of power and then a rename that fails, or a Stat as well.      *)
RenameAfterLoss == {Trial({"rename"}, 1, 1)}
StatAfterLoss == {Trial({"rename", "stat"}, 2, 1)}

(* Any number of calls other than rename may fail and power may be lost any *)
(* number of times; or any two calls fail and the power stays on.  Beyond  *)
(* that a value can be lost: a Save drops the only copy when its rename    *)
(* fails after an interrupted one has left nothing but a backup.           *)
TrialsBounded ==
  \A t \in Trials :
    /\ t.faults \in Nat /\ t.crashes \in Nat
    /\ "rename" \in t.faulty => t.faults <= 2 /\ t.crashes = 0

VARIABLES
  trial,       \* what may go wrong in this behaviour
  disk,        \* path -> its file
  overwrites,  \* whether rename replaces an existing destination
  op,          \* the next filesystem call, or how the operation ended
  task,        \* "save", "load" or "none"
  payload,     \* the value being saved or loaded
  faults,      \* filesystem calls that failed on their own so far
  faulted,     \* history: one of them belongs to the operation in progress
  crashes      \* power losses so far

files == <<trial, disk, overwrites, op, task, payload, faults, faulted, crashes>>

File(version, value) == [version |-> version, value |-> value]
Files == [version : 1 .. Newest, value : Payloads]
FileStates == Files \cup {Absent, Corrupt, Torn}

(* The configured version is a version, and what is not a file is neither  *)
(* a file nor a payload.                                                   *)
VersionsAndFiles ==
  /\ Newest \in Nat /\ Current \in 1 .. Newest
  /\ \A c \in {Absent, Corrupt, Torn} : c \notin Files \cup Payloads

SaveOps == {"open", "write", "publish", "dropBackup", "backup", "republish", "restore"}
LoadOps == {"stat", "statBackup", "recover", "restat", "read", "dropStale"}

(* Any file that a program with this store's paths may have left behind:   *)
(* none, a corrupt one, or one of an older, this or a newer version.       *)
StoreInit ==
  /\ trial \in Trials
  /\ \E f \in Files \cup {Absent, Corrupt} :
       disk = [final |-> f, temporary |-> Absent, backup |-> Absent]
  /\ overwrites \in BOOLEAN
  /\ op = "idle"
  /\ task = "none"
  /\ payload = Absent
  /\ faults = 0
  /\ faulted = FALSE
  /\ crashes = 0

-----------------------------------------------------------------------------
(* The filesystem. *)

Fault(kind) ==
  /\ kind \in trial.faulty
  /\ faults < trial.faults
  /\ faults' = faults + 1
  /\ faulted' = TRUE

NoFault == UNCHANGED <<faults, faulted>>

CanRename(from, to) == disk[from] # Absent /\ (overwrites \/ disk[to] = Absent)

Rename(from, to, done, failed) ==
  \/ /\ CanRename(from, to)
     /\ disk' = [disk EXCEPT ![to] = disk[from], ![from] = Absent]
     /\ op' = done
     /\ NoFault
  \/ /\ (~CanRename(from, to) /\ NoFault) \/ Fault("rename")
     /\ op' = failed
     /\ UNCHANGED disk

(* Errors of Remove are ignored, that of a missing file among them. *)
RemoveFile(path, next) ==
  /\ op' = next
  /\ \/ disk' = [disk EXCEPT ![path] = Absent] /\ NoFault
     \/ UNCHANGED disk /\ Fault("remove")

Keep == UNCHANGED <<trial, overwrites, task, payload, crashes>>

-----------------------------------------------------------------------------
(* Save. *)

BeginSave(v) ==
  /\ op = "idle"
  /\ op' = "open"
  /\ task' = "save"
  /\ payload' = v
  /\ faulted' = FALSE
  /\ UNCHANGED <<trial, disk, overwrites, faults, crashes>>

Open ==
  /\ op = "open"
  /\ Keep
  /\ \/ /\ disk' = [disk EXCEPT !.temporary = Torn]
        /\ op' = "write"
        /\ NoFault
     \/ /\ op' = "failed"
        /\ Fault("open")
        /\ UNCHANGED disk

(* Write, Flush and Close; any of them failing ends the Save with the      *)
(* temporary file in whatever state that left it.                          *)
WrittenUnversioned == File(0, payload)
Written == File(Current, payload)

Write ==
  /\ op = "write"
  /\ Keep
  /\ \/ /\ disk' = [disk EXCEPT !.temporary = Written]
        /\ op' = "publish"
        /\ NoFault
     \/ /\ disk' \in {disk, [disk EXCEPT !.temporary = Written]}
        /\ op' = "failed"
        /\ Fault("write")

Publish == op = "publish" /\ Keep /\ Rename("temporary", "final", "cleanup", "dropBackup")

DropBackup == op = "dropBackup" /\ Keep /\ RemoveFile("backup", "backup")

BackupByRemoving == op = "backup" /\ Keep /\ RemoveFile("final", "republish")
Backup == op = "backup" /\ Keep /\ Rename("final", "backup", "republish", "failed")

RepublishUnrestored ==
  op = "republish" /\ Keep /\ Rename("temporary", "final", "cleanup", "cleanup")
Republish ==
  op = "republish" /\ Keep /\ Rename("temporary", "final", "cleanup", "restore")

Restore == op = "restore" /\ Keep /\ Rename("backup", "final", "failed", "failed")

Cleanup ==
  /\ op = "cleanup"
  /\ Keep
  /\ RemoveFile("backup", IF task = "save" THEN "saved" ELSE "loaded")

-----------------------------------------------------------------------------
(* Load. *)

BeginLoad ==
  /\ op = "idle"
  /\ op' = "stat"
  /\ task' = "load"
  /\ faulted' = FALSE
  /\ UNCHANGED <<trial, disk, overwrites, payload, faults, crashes>>

StatOf(path, found, missing) ==
  /\ Keep
  /\ UNCHANGED disk
  /\ \/ disk[path] # Absent /\ op' = found /\ NoFault
     \/ /\ (disk[path] = Absent /\ NoFault) \/ Fault("stat")
        /\ op' = missing

StatOnly == op = "stat" /\ StatOf("final", "read", "failed")
Stat == op = "stat" /\ StatOf("final", "read", "statBackup")

StatBackup == op = "statBackup" /\ StatOf("backup", "recover", "failed")

Recover == op = "recover" /\ Keep /\ Rename("backup", "final", "restat", "failed")

Restat == op = "restat" /\ StatOf("final", "read", "failed")

(* Open, read, close and decode.  An older version runs its migrations,    *)
(* which the application may not have or which may fail, and saves the     *)
(* result; a migrated payload is the same value to the caller.             *)
ReadFails ==
  /\ op = "read"
  /\ \/ Fault("read")
     \/ disk.final \in {Corrupt, Torn} /\ NoFault
     \/ disk.final \in Files /\ disk.final.version > Current /\ NoFault
  /\ op' = "failed"
  /\ Keep
  /\ UNCHANGED disk

ReadCurrent ==
  /\ op = "read"
  /\ disk.final \in Files
  /\ disk.final.version = Current
  /\ payload' = disk.final.value
  /\ op' = "dropStale"
  /\ NoFault
  /\ UNCHANGED <<trial, disk, overwrites, task, crashes>>

MigratedUnsaved == "loaded"
Migrated == "open"

Migrate ==
  /\ op = "read"
  /\ disk.final \in Files
  /\ disk.final.version < Current
  /\ payload' = disk.final.value
  /\ op' \in {Migrated, "failed"}
  /\ NoFault
  /\ UNCHANGED <<trial, disk, overwrites, task, crashes>>

DropStale == op = "dropStale" /\ Keep /\ RemoveFile("backup", "loaded")

-----------------------------------------------------------------------------
Return ==
  /\ op \in {"saved", "loaded", "failed"}
  /\ op' = "idle"
  /\ task' = "none"
  /\ payload' = Absent
  /\ UNCHANGED <<trial, disk, overwrites, faults, faulted, crashes>>

(* Power is lost, and the game starts again over the same files. *)
Crash ==
  /\ op # "idle"
  /\ crashes < trial.crashes
  /\ crashes' = crashes + 1
  /\ op' = "idle"
  /\ task' = "none"
  /\ payload' = Absent
  /\ UNCHANGED <<trial, disk, overwrites, faults, faulted>>

Save == Open \/ Write \/ Publish \/ DropBackup \/ Backup \/ Republish \/ Restore \/ Cleanup

Load ==
  Stat \/ StatBackup \/ Recover \/ Restat \/ ReadFails \/ ReadCurrent \/ Migrate \/ DropStale

StoreNext ==
  \/ \E v \in Payloads : BeginSave(v)
  \/ BeginLoad
  \/ Save
  \/ Load
  \/ Return
  \/ Crash

StoreSpec == StoreInit /\ [][StoreNext]_files

-----------------------------------------------------------------------------
StoreTypeOK ==
  /\ disk \in [final : FileStates, temporary : FileStates, backup : FileStates]
  /\ overwrites \in BOOLEAN
  /\ op \in SaveOps \cup LoadOps \cup {"cleanup", "idle", "saved", "loaded", "failed"}
  /\ task \in {"none", "save", "load"}
  /\ payload \in Payloads \cup {Absent}
  /\ trial \in Trials
  /\ faults \in 0 .. trial.faults
  /\ faulted \in BOOLEAN
  /\ crashes \in 0 .. trial.crashes

(* The file the next Load would read: it prefers the stored file, falls    *)
(* back to the backup and never looks at the temporary one.                *)
Recoverable == IF disk.final # Absent THEN disk.final ELSE disk.backup
ValueOf(f) == IF f \in Files THEN f.value ELSE f

Atomic == INSTANCE AtomicStore WITH
  Values <- Payloads, None <- Absent,
  committed <- ValueOf(Recoverable),
  attempt <- IF task = "save" THEN payload ELSE Absent,
  outcome <- IF task # "save" THEN "idle"
             ELSE IF op \in SaveOps THEN "running"
             ELSE IF op = "failed" THEN "failed" ELSE "committed"

(* store.go:29, "atomically loads and replaces one versioned value", with  *)
(* README.md, "preservation of the last valid value": across every call    *)
(* that fails and every loss of power a Save replaces the value or leaves  *)
(* it, an error means it was left, and a Load never changes it.            *)
SavesAtomically == Atomic!Spec

(* README.md, "preservation of the last valid value", at its weakest: once *)
(* a value is stored, a Load would still find one after every call of a    *)
(* later Save or Load.                                                     *)
LastValueSurvives ==
  [][ValueOf(Recoverable) \in Payloads => ValueOf(Recoverable)' \in Payloads]_files

(* README.md, "Load recovers the backup if power was lost between those    *)
(* operations": a Load, whose Stat may fail for another reason, does not   *)
(* put a backup in the place of a newer stored file.                       *)
LoadKeepsValue ==
  [][task = "load" => ValueOf(Recoverable)' = ValueOf(Recoverable)]_files

(* store.go:120, "successful migrations are atomically persisted before    *)
(* the upgraded payload is returned": what Load returns is what is stored, *)
(* at the current version.                                                 *)
LoadedIsStored == op = "loaded" => disk.final = File(Current, payload)

(* README.md, "Load recovers the backup if power was lost between those    *)
(* operations": a Load whose filesystem calls work finds a value of the    *)
(* current version wherever an interrupted Save left it.                   *)
LoadFindsValue ==
  (op = "failed" /\ task = "load" /\ ~faulted) =>
    ~(Recoverable \in Files /\ Recoverable.version = Current)

LoadsFaithfully == LoadedIsStored /\ LoadFindsValue
=============================================================================
