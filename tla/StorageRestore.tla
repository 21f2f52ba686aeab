--------------------------- MODULE StorageRestore ---------------------------
(***************************************************************************)
(* `backup` and `restore` of storage_cli (storage.py): copies of the       *)
(* active SQLite database are staged, validated, published by link or      *)
(* rename, and synced; a restore that fails after its publication is       *)
(* rolled back from the safety backup it made.                             *)
(*                                                                         *)
(* A command is a process; it may be killed, every step of it may raise,   *)
(* and the machine may lose its power.  A change of a directory that has   *)
(* not been synced may be gone after that, in one directory the latest     *)
(* changes first.  The database is as in a directory of its own: when      *)
(* backups share it, as the default safety backup does, less can be lost.  *)
(* The contents of a file are durable when it has its name: SQLite syncs   *)
(* what it commits.                                                        *)
(*                                                                         *)
(* The contents of a database are the number of the commit they end with.  *)
(* Temporary files have names that nobody else uses: `staged` is theirs.   *)
(*                                                                         *)
(* The application is stopped before a restore, and one restore runs at a  *)
(* time, as the operator is told to do; backups are made at any time.      *)
(***************************************************************************)
EXTENDS Naturals, FiniteSets

CONSTANTS
  Processes,     \* commands that may run at the same time
  Destinations,  \* names of backups
  NoFile,        \* nothing has the name
  Broken,        \* a file that is no valid database
  MaxCommits,    \* bound on commits of the application
  MaxRestores,   \* bound on restores
  MaxFaults      \* bound on exceptions, kills, losses of power and damages

Contents == 0 .. MaxCommits
Safeties == 1 .. MaxRestores       \* _default_safety_backup, one per restore
Names == Destinations \cup Safeties

ASSUME ConstantsAssumption ==
  /\ {NoFile, Broken} \cap Nat = {} /\ NoFile # Broken
  /\ Destinations \cap Nat = {}
  /\ MaxCommits \in Nat /\ MaxRestores \in Nat /\ MaxFaults \in Nat

VARIABLES
  data,        \* the active database: its main file and what its WAL adds
  dataOld,     \* states of it that a loss of power may bring back
  backups,     \* name -> file
  backupsOld,  \* states of them that a loss of power may bring back
  process,     \* per process: its command and where it stands
  running,     \* the application runs
  truth,       \* history: the contents that the user relies on, NoFile when a
               \* command ended that did not say what they are
  commits, restores, faults

files == <<data, dataOld, backups, backupsOld>>
vars == <<files, process, running, truth, commits, restores, faults>>

File == Contents \cup {NoFile, Broken}
Data == [main : Contents, wal : Contents \cup {NoFile}]

\* What a connection to the active database reads.
Reads(d) == IF d.wal = NoFile THEN d.main ELSE d.wal

MayBecome == dataOld \cup {data}
BackupsMayBecome == backupsOld \cup {backups}

Idle == [stage |-> "idle", command |-> "none", target |-> NoFile, candidate |-> NoFile,
         overwrite |-> FALSE, staged |-> NoFile, before |-> 0]

BackupStages == {"copy", "publish", "sync"}
StagingStages == {"stage", "checkpoint", "unlink", "replace"}
VerifyStages == {"sync_restored", "validate_restored"}
RollbackStages == {"copy_safety", "unlink_again", "replace_again",
                   "sync_rollback", "validate_rollback"}

At(p, stage) == process[p].stage = stage
GoTo(p, stage) == process' = [process EXCEPT ![p].stage = stage]
Stage(p, stage, file) ==
  process' = [process EXCEPT ![p].stage = stage, ![p].staged = file]

Restoring == {p \in Processes : process[p].command = "restore"}

ChangeData(d) == data' = d /\ dataOld' = dataOld \cup {data}
ChangeBackups(b) == backups' = b /\ backupsOld' = backupsOld \cup {backups}

DataKept == UNCHANGED <<data, dataOld>>
BackupsKept == UNCHANGED <<backups, backupsOld>>
EnvironmentKept == UNCHANGED <<running, commits, restores, faults>>

Init ==
  /\ data = [main |-> 0, wal |-> NoFile] /\ dataOld = {}
  /\ backups = [n \in Names |-> NoFile] /\ backupsOld = {}
  /\ process = [p \in Processes |-> Idle]
  /\ running = FALSE
  /\ truth = 0 /\ commits = 0 /\ restores = 0 /\ faults = 0

-----------------------------------------------------------------------------
(* create_backup                                                           *)

\* The command of a user, or the first part of a restore.
StartBackup(p, target, overwrite) ==
  /\ At(p, "idle")
  /\ backups[target] = NoFile \/ overwrite
  /\ process' = [process EXCEPT ![p] =
       [Idle EXCEPT !.stage = "copy", !.command = "backup", !.target = target,
                    !.overwrite = overwrite]]
  /\ UNCHANGED <<files, truth>> /\ EnvironmentKept

\* _copy_sqlite_snapshot: one consistent snapshot, the WAL included; its
\* validation may raise.
Copy(p) ==
  /\ At(p, "copy")
  /\ Stage(p, "publish", Reads(data))
  /\ UNCHANGED <<files, truth>> /\ EnvironmentKept

\* Fault: a rename, after the destination was seen to be free.
PublishByRename(p) ==
  /\ At(p, "publish")
  /\ ChangeBackups([backups EXCEPT ![process[p].target] = process[p].staged])
  /\ GoTo(p, "sync")
  /\ DataKept /\ UNCHANGED truth /\ EnvironmentKept

\* os.replace, or os.link, which fails when the name is taken.
Publish(p) ==
  /\ At(p, "publish")
  /\ process[p].overwrite \/ backups[process[p].target] = NoFile
  /\ ChangeBackups([backups EXCEPT ![process[p].target] = process[p].staged])
  /\ GoTo(p, "sync")
  /\ DataKept /\ UNCHANGED truth /\ EnvironmentKept

\* The command ends without an exception, or the restore goes on.
AfterBackup(p) ==
  IF process[p].command = "restore" THEN GoTo(p, "stage")
  ELSE process' = [process EXCEPT ![p] = Idle]

\* Fault: the directory of the backup is not synced.
SyncNothing(p) ==
  /\ At(p, "sync")
  /\ AfterBackup(p)
  /\ UNCHANGED <<files, truth>> /\ EnvironmentKept

Sync(p) ==
  /\ At(p, "sync")
  /\ backupsOld' = {}
  /\ AfterBackup(p)
  /\ DataKept /\ UNCHANGED <<backups, truth>> /\ EnvironmentKept

-----------------------------------------------------------------------------
(* restore_backup                                                          *)

StartRestore(p, candidate) ==
  /\ At(p, "idle")
  /\ ~running /\ Restoring = {}
  /\ restores < MaxRestores
  /\ backups[candidate] \notin {NoFile, Broken}
  /\ restores' = restores + 1
  /\ process' = [process EXCEPT ![p] =
       [Idle EXCEPT !.stage = "copy", !.command = "restore", !.target = restores + 1,
                    !.candidate = candidate, !.before = Reads(data)]]
  /\ UNCHANGED <<files, truth, running, commits, faults>>

\* The safety backup is valid; the candidate is read and validated again.
StageCandidate(p) ==
  /\ At(p, "stage")
  /\ backups[process[p].candidate] # Broken
  /\ Stage(p, "checkpoint", backups[process[p].candidate])
  /\ UNCHANGED <<files, truth>> /\ EnvironmentKept

\* Fault: the WAL is not checkpointed before it is unlinked.
CheckpointNothing(p) ==
  /\ At(p, "checkpoint")
  /\ GoTo(p, "unlink")
  /\ UNCHANGED <<files, truth>> /\ EnvironmentKept

\* SQLite moves the WAL into the main file, durably.
Checkpoint(p) ==
  /\ At(p, "checkpoint")
  /\ data' = [main |-> Reads(data), wal |-> NoFile]
  /\ GoTo(p, "unlink")
  /\ BackupsKept /\ UNCHANGED <<dataOld, truth>> /\ EnvironmentKept

UnlinkSidecars(p) ==
  /\ \/ At(p, "unlink") /\ GoTo(p, "replace")
     \/ At(p, "unlink_again") /\ GoTo(p, "replace_again")
  /\ ChangeData([data EXCEPT !.wal = NoFile])
  /\ BackupsKept /\ UNCHANGED truth /\ EnvironmentKept

Replace(p) ==
  /\ \/ At(p, "replace") /\ GoTo(p, "sync_restored")
     \/ At(p, "replace_again") /\ GoTo(p, "sync_rollback")
  /\ ChangeData([data EXCEPT !.main = process[p].staged])
  /\ BackupsKept /\ UNCHANGED truth /\ EnvironmentKept

\* Fault: success is reported before the directory is synced.
SyncNoData(p) ==
  /\ \/ At(p, "sync_restored") /\ GoTo(p, "validate_restored")
     \/ At(p, "sync_rollback") /\ GoTo(p, "validate_rollback")
  /\ UNCHANGED <<files, truth>> /\ EnvironmentKept

SyncData(p) ==
  /\ \/ At(p, "sync_restored") /\ GoTo(p, "validate_restored")
     \/ At(p, "sync_rollback") /\ GoTo(p, "validate_rollback")
  /\ dataOld' = {}
  /\ BackupsKept /\ UNCHANGED <<data, truth>> /\ EnvironmentKept

\* The command reports the restored database, which is what the user has now.
Restored(p) ==
  /\ At(p, "validate_restored")
  /\ truth' = Reads(data)
  /\ process' = [process EXCEPT ![p] = Idle]
  /\ UNCHANGED files /\ EnvironmentKept

-----------------------------------------------------------------------------
(* _rollback_restore                                                       *)

CopySafety(p) ==
  /\ At(p, "copy_safety")
  /\ Stage(p, "unlink_again", backups[process[p].target])
  /\ UNCHANGED <<files, truth>> /\ EnvironmentKept

\* The restore raises: "rollback succeeded".
RolledBack(p) ==
  /\ At(p, "validate_rollback")
  /\ process' = [process EXCEPT ![p] = Idle]
  /\ UNCHANGED <<files, truth>> /\ EnvironmentKept

-----------------------------------------------------------------------------
(* Exceptions, kills and losses of power                                   *)

Fault == faults < MaxFaults /\ faults' = faults + 1

\* The command ends with an exception, unless it still has to roll back; what
\* it published stays.
Raised(p) ==
  IF process[p].stage \in VerifyStages THEN GoTo(p, "copy_safety")
  ELSE process' = [process EXCEPT ![p] = Idle]

Raises(p) ==
  /\ ~At(p, "idle")
  /\ Fault
  /\ Raised(p)
  /\ UNCHANGED <<files, truth, running, commits, restores>>

\* The exceptions that nobody needs bad luck for.
Refuses(p) ==
  /\ \/ At(p, "publish") /\ ~process[p].overwrite /\ backups[process[p].target] # NoFile
     \/ At(p, "stage") /\ backups[process[p].candidate] = Broken
  /\ Raised(p)
  /\ UNCHANGED <<files, truth>> /\ EnvironmentKept

Killed(p) ==
  /\ ~At(p, "idle")
  /\ Fault
  /\ process' = [process EXCEPT ![p] = Idle]
  /\ UNCHANGED <<files, truth, running, commits, restores>>

PowerLoss ==
  /\ Fault
  /\ data' \in MayBecome /\ dataOld' = {}
  /\ backups' \in BackupsMayBecome /\ backupsOld' = {}
  /\ process' = [p \in Processes |-> Idle]
  /\ running' = FALSE
  /\ UNCHANGED <<truth, commits, restores>>

\* A backup is damaged, or something else is put in its place.
Damaged ==
  /\ Fault
  /\ \E n \in Destinations :
       backups[n] # Broken /\ ChangeBackups([backups EXCEPT ![n] = Broken])
  /\ DataKept /\ UNCHANGED <<process, truth, running, commits, restores>>

-----------------------------------------------------------------------------
(* The application                                                         *)

\* The user goes on with the database that is there, whichever it is.
AppStarts ==
  /\ ~running /\ Restoring = {}
  /\ running' = TRUE
  /\ truth' = IF Reads(data) = truth THEN truth ELSE NoFile
  /\ UNCHANGED <<files, process, commits, restores, faults>>

\* The first commit to a new WAL syncs the directory, too.
AppCommits ==
  /\ running
  /\ commits < MaxCommits
  /\ commits' = commits + 1
  /\ data' = [data EXCEPT !.wal = commits + 1] /\ dataOld' = {}
  /\ truth' = commits + 1
  /\ BackupsKept /\ UNCHANGED <<process, running, restores, faults>>

\* SQLite's own checkpoints.
AppCheckpoints ==
  /\ running
  /\ data.wal # NoFile
  /\ data' = [main |-> Reads(data), wal |-> NoFile]
  /\ BackupsKept /\ UNCHANGED <<dataOld, process, truth>> /\ EnvironmentKept

AppStops ==
  /\ running
  /\ running' = FALSE
  /\ UNCHANGED <<files, process, truth, commits, restores, faults>>

-----------------------------------------------------------------------------

Backup(p) ==
  \/ \E target \in Destinations, overwrite \in BOOLEAN : StartBackup(p, target, overwrite)
  \/ Copy(p) \/ Publish(p) \/ Sync(p)

Restore(p) ==
  \/ \E candidate \in Names : StartRestore(p, candidate)
  \/ StageCandidate(p) \/ Checkpoint(p) \/ UnlinkSidecars(p)
  \/ Replace(p) \/ SyncData(p) \/ Restored(p)

Rollback(p) == CopySafety(p) \/ RolledBack(p)

Next ==
  \/ \E p \in Processes :
       Backup(p) \/ Restore(p) \/ Rollback(p) \/ Raises(p) \/ Refuses(p) \/ Killed(p)
  \/ PowerLoss \/ Damaged
  \/ AppStarts \/ AppCommits \/ AppCheckpoints \/ AppStops

Spec == Init /\ [][Next]_vars

-----------------------------------------------------------------------------
(* Properties                                                              *)

Stages == {"idle"} \cup BackupStages \cup StagingStages \cup VerifyStages
            \cup RollbackStages

Activity == [stage : Stages, command : {"none", "backup", "restore"},
             target : Names \cup {NoFile}, candidate : Names \cup {NoFile},
             overwrite : BOOLEAN, staged : Contents \cup {NoFile}, before : Contents]

TypeOK ==
  /\ MayBecome \subseteq Data
  /\ BackupsMayBecome \subseteq [Names -> File]
  /\ process \in [Processes -> Activity]
  /\ running \in BOOLEAN
  /\ truth \in Contents \cup {NoFile}
  /\ commits \in 0 .. MaxCommits /\ restores \in 0 .. MaxRestores
  /\ faults \in 0 .. MaxFaults

(***************************************************************************)
(* At every moment of a restore, whatever raises and wherever it is killed *)
(* or the power goes, the inventory that the user relies on is in the      *)
(* active database or in a safety backup, the WAL's commits included.      *)
(***************************************************************************)
Recoverable ==
  truth # NoFile =>
    \A d \in MayBecome, b \in BackupsMayBecome :
      Reads(d) = truth \/ \E n \in Safeties : b[n] = truth

\* A restore ends without having restored, nor having failed to roll back.
GivesUp(p) ==
  /\ process[p].command = "restore" /\ process'[p] = Idle
  /\ process[p].stage \in BackupStages \cup StagingStages \cup {"validate_rollback"}
  /\ UNCHANGED files

(***************************************************************************)
(* A restore that fails before its publication, or that says it has rolled *)
(* back, leaves the database it found; and what it rolled back to stays,   *)
(* should the power go.                                                    *)
(***************************************************************************)
FailedRestoreKeeps ==
  [][\A p \in Processes : GivesUp(p) =>
       /\ Reads(data') = process[p].before
       /\ At(p, "validate_rollback") =>
            \A d \in MayBecome' : Reads(d) = process[p].before]_vars

(***************************************************************************)
(* A restore that is reported is there to stay, and it is the candidate,   *)
(* without anything of the database it replaced.                           *)
(***************************************************************************)
RestoreIsDurable ==
  [][\A p \in Processes :
       At(p, "validate_restored") /\ process'[p] = Idle /\ truth' # truth =>
         \A d \in MayBecome' : Reads(d) = process[p].staged]_vars

(***************************************************************************)
(* No command replaces a backup, or a file that is none, unless it was     *)
(* asked to: the names are taken by the first of two racing commands.      *)
(***************************************************************************)
NothingOverwritten ==
  [][\A n \in Names :
       backups[n] # NoFile /\ backups'[n] # backups[n] =>
         \/ faults' # faults
         \/ \E p \in Processes : At(p, "publish") /\ process[p].overwrite
                                  /\ process[p].target = n]_vars

=============================================================================
