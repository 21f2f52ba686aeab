---------------------------- MODULE StorageProofs ----------------------------
(***************************************************************************)
(* Proofs about backup and restore, for any commands, names and numbers of *)
(* commits, restores and faults; and about exports, imports and bootstraps *)
(* of inventories of any size, for any documents and manifests, commits,   *)
(* kills and steps of others.                                              *)
(***************************************************************************)
EXTENDS StorageRestore, PortableTransfer, FiniteSetTheorems, TLAPS

-----------------------------------------------------------------------------
(* Backup and restore *)

Published == VerifyStages \cup RollbackStages

\* What kind of command stands where.
PlaceInv(p) ==
  /\ process[p].command = "none" => process[p].stage = "idle"
  /\ process[p].command = "backup" =>
       process[p].stage \in BackupStages /\ process[p].target \in Destinations
  /\ process[p].command = "restore" =>
       /\ process[p].stage # "idle" /\ ~process[p].overwrite /\ ~running
       /\ process[p].target = restores /\ restores \in Safeties
       /\ process[p].candidate \in Names /\ backups[process[p].candidate] # NoFile
  /\ process[p].stage \notin {"idle", "copy"} => process[p].staged \in Contents

CommandInv ==
  /\ \A p \in Processes : PlaceInv(p)
  /\ \A p, q \in Restoring : p = q

\* What the files of a restore hold at each of its stages.
StageInv(p, stage, before) ==
  /\ stage \in BackupStages \cup StagingStages => Reads(data) = before
  /\ stage \in {"publish", "sync"} => process[p].staged = before
  /\ stage = "sync" => backups[process[p].target] = before
  /\ stage \notin BackupStages =>
       \A b \in BackupsMayBecome : b[process[p].target] = before
  /\ stage \in {"unlink", "replace"} \cup Published => data.wal = NoFile
  /\ stage \in VerifyStages => data.main = process[p].staged
  /\ stage \in {"unlink_again", "replace_again"} => process[p].staged = before
  /\ stage \in {"sync_rollback", "validate_rollback"} => data.main = before
  /\ stage \in {"validate_restored", "validate_rollback"} => dataOld = {}

FilesInv == \A p \in Restoring : StageInv(p, process[p].stage, process[p].before)

\* What a restore found is what the user relies on, or that is safe already.
TruthInv ==
  \A p \in Restoring :
    \/ truth \in {NoFile, process[p].before}
    \/ \A b \in BackupsMayBecome : \E n \in Safeties : b[n] = truth

IInv == TypeOK /\ CommandInv /\ FilesInv /\ TruthInv /\ Recoverable

\* What one command does.
Step(p) == Backup(p) \/ Restore(p) \/ Rollback(p) \/ Raises(p) \/ Refuses(p) \/ Killed(p)

Environment ==
  PowerLoss \/ Damaged \/ AppStarts \/ AppCommits \/ AppCheckpoints \/ AppStops

LEMMA NextIsStep == Next <=> (\E p \in Processes : Step(p)) \/ Environment
  BY DEF Next, Step, Environment

LEMMA Initially == Init => IInv
<1> SUFFICES ASSUME Init PROVE IInv
  OBVIOUS
<1> USE ConstantsAssumption
<1>1. Idle \in Activity
  BY DEF Idle, Activity, Stages, Contents
<1>2. TypeOK
  <2>1. 0 \in Contents
    BY DEF Contents
  <2>2. data \in Data
    BY <2>1 DEF Init, Data
  <2>3. backups \in [Names -> File]
    BY DEF Init, File
  <2>4. 0 \in 0 .. MaxCommits /\ 0 \in 0 .. MaxRestores /\ 0 \in 0 .. MaxFaults
    OBVIOUS
  <2>5. process \in [Processes -> Activity]
    BY <1>1 DEF Init
  <2>6. QED
    BY <2>1, <2>2, <2>3, <2>4, <2>5 DEF Init, TypeOK, MayBecome, BackupsMayBecome
<1>3. Restoring = {}
  BY DEF Init, Restoring, Idle
<1>4. CommandInv
  BY <1>3 DEF CommandInv, PlaceInv, Init, Idle
<1>5. Recoverable
  BY DEF Recoverable, Init, MayBecome, Reads
<1>6. QED
  BY <1>2, <1>3, <1>4, <1>5 DEF IInv, FilesInv, TruthInv

-----------------------------------------------------------------------------
(* Type correctness                                                        *)

LEMMA IdleType ==
  ASSUME TypeOK, NEW p \in Processes, process' = [process EXCEPT ![p] = Idle]
  PROVE  process' \in [Processes -> Activity]
<1>1. Idle \in Activity
  BY ConstantsAssumption DEF Idle, Activity, Stages, Contents
<1>2. QED
  BY <1>1 DEF TypeOK

LEMMA GoToType ==
  ASSUME TypeOK, NEW p \in Processes, NEW s \in Stages, GoTo(p, s)
  PROVE  process' \in [Processes -> Activity]
<1> DEFINE next == [process[p] EXCEPT !.stage = s]
<1>1. process[p] \in Activity
  BY DEF TypeOK
<1>2. next \in Activity
  BY <1>1, Zenon DEF Activity
<1>3. process' = [process EXCEPT ![p] = next]
  BY DEF GoTo
<1> HIDE DEF next
<1>4. QED
  BY <1>2, <1>3 DEF TypeOK

LEMMA StageType ==
  ASSUME TypeOK, NEW p \in Processes, NEW s \in Stages,
         NEW file \in Contents \cup {NoFile}, Stage(p, s, file)
  PROVE  process' \in [Processes -> Activity]
<1> DEFINE next == [process[p] EXCEPT !.stage = s, !.staged = file]
<1>1. process[p] \in Activity
  BY DEF TypeOK
<1>2. next \in Activity
  BY <1>1, Zenon DEF Activity
<1>3. process' = [process EXCEPT ![p] = next]
  BY DEF Stage
<1> HIDE DEF next
<1>4. QED
  BY <1>2, <1>3 DEF TypeOK

LEMMA TypeStep ==
  ASSUME TypeOK, CommandInv, FilesInv, NEW p \in Processes, Step(p)
  PROVE  TypeOK'
<1> USE ConstantsAssumption
<1> USE DEF MayBecome, BackupsMayBecome, EnvironmentKept, DataKept, BackupsKept, files
<1>a. process[p] \in Activity /\ data \in Data /\ backups \in [Names -> File]
  BY DEF TypeOK
<1>b. Reads(data) \in Contents
  BY <1>a DEF Reads, Data
<1>c. process[p].staged \in Contents \cup {NoFile}
  BY <1>a DEF Activity
<1>1. ASSUME NEW dest \in Destinations, NEW overwrite \in BOOLEAN,
             StartBackup(p, dest, overwrite)
      PROVE  TypeOK'
  <2> DEFINE next == [Idle EXCEPT !.stage = "copy", !.command = "backup",
                                  !.target = dest, !.overwrite = overwrite]
  <2>1. next \in Activity
    <3>1. Idle \in Activity
      BY DEF Idle, Activity, Stages, Contents
    <3>2. dest \in Names \cup {NoFile} /\ "copy" \in Stages
      BY DEF Names, Stages, BackupStages
    <3>3. QED
      BY <3>1, <3>2, Zenon DEF Activity
  <2>2. process' = [process EXCEPT ![p] = next]
    BY <1>1 DEF StartBackup
  <2> HIDE DEF next
  <2>3. QED
    BY <1>1, <2>1, <2>2 DEF StartBackup, TypeOK
<1>2. CASE Copy(p)
  BY <1>2, <1>b, StageType DEF Copy, TypeOK, Stages, BackupStages
<1>3. CASE Publish(p)
  <2>1. process' \in [Processes -> Activity]
    BY <1>3, GoToType DEF Publish, Stages, BackupStages
  <2>2. backups' \in [Names -> File]
    BY <1>3, <1>a, <1>c DEF Publish, ChangeBackups, File
  <2>3. QED
    BY <1>3, <2>1, <2>2 DEF Publish, ChangeBackups, TypeOK
<1>4. CASE Sync(p)
  <2>1. process' \in [Processes -> Activity]
    BY <1>4, IdleType, GoToType DEF Sync, AfterBackup, Stages, StagingStages
  <2>2. QED
    BY <1>4, <2>1 DEF Sync, TypeOK
<1>5. ASSUME NEW candidate \in Names, StartRestore(p, candidate)
      PROVE  TypeOK'
  <2> DEFINE next == [Idle EXCEPT !.stage = "copy", !.command = "restore",
                                  !.target = restores + 1, !.candidate = candidate,
                                  !.before = Reads(data)]
  <2>0. restores + 1 \in Safeties /\ restores' \in 0 .. MaxRestores
    BY <1>5 DEF StartRestore, Safeties, TypeOK
  <2>1. next \in Activity
    <3>1. Idle \in Activity
      BY DEF Idle, Activity, Stages, Contents
    <3>2. "copy" \in Stages /\ restores + 1 \in Names
      BY <2>0 DEF Names, Stages, BackupStages
    <3>3. QED
      BY <1>b, <3>1, <3>2, Zenon DEF Activity
  <2>2. process' = [process EXCEPT ![p] = next]
    BY <1>5 DEF StartRestore
  <2> HIDE DEF next
  <2>3. QED
    BY <1>5, <2>0, <2>1, <2>2 DEF StartRestore, TypeOK
<1>6. CASE StageCandidate(p)
  <2>1. process[p].command = "restore"
    BY <1>6, <1>a DEF StageCandidate, At, CommandInv, PlaceInv, Activity, BackupStages
  <2>2. backups[process[p].candidate] \in Contents
    BY <1>6, <1>a, <2>1 DEF StageCandidate, CommandInv, PlaceInv, File
  <2>3. QED
    BY <1>6, <2>2, StageType DEF StageCandidate, TypeOK, Stages, StagingStages
<1>7. CASE Checkpoint(p)
  <2>1. process' \in [Processes -> Activity]
    BY <1>7, GoToType DEF Checkpoint, Stages, StagingStages
  <2>2. QED
    BY <1>7, <1>b, <2>1 DEF Checkpoint, TypeOK, Data
<1>8. CASE UnlinkSidecars(p)
  <2>1. process' \in [Processes -> Activity]
    BY <1>8, GoToType DEF UnlinkSidecars, Stages, StagingStages, RollbackStages
  <2>2. data' \in Data
    BY <1>8, <1>a DEF UnlinkSidecars, ChangeData, Data
  <2>3. QED
    BY <1>8, <2>1, <2>2 DEF UnlinkSidecars, ChangeData, TypeOK
<1>9. CASE Replace(p)
  <2>1. process' \in [Processes -> Activity]
    BY <1>9, GoToType DEF Replace, Stages, VerifyStages, RollbackStages
  <2>2. process[p].staged \in Contents
    BY <1>9 DEF Replace, At, CommandInv, PlaceInv
  <2>3. data' \in Data
    BY <1>9, <1>a, <2>2 DEF Replace, ChangeData, Data
  <2>4. QED
    BY <1>9, <2>1, <2>3 DEF Replace, ChangeData, TypeOK
<1>10. CASE SyncData(p)
  <2>1. process' \in [Processes -> Activity]
    BY <1>10, GoToType DEF SyncData, Stages, VerifyStages, RollbackStages
  <2>2. QED
    BY <1>10, <2>1 DEF SyncData, TypeOK
<1>11. CASE Restored(p)
  BY <1>11, <1>b, IdleType DEF Restored, TypeOK
<1>12. CASE CopySafety(p)
  <2>1. p \in Restoring /\ process[p].stage \notin BackupStages
    BY <1>12, <1>a DEF CopySafety, At, CommandInv, PlaceInv, Activity, BackupStages,
                       Restoring
  <2>2. backups[process[p].target] \in Contents
    BY <1>a, <2>1 DEF FilesInv, StageInv, Activity
  <2>3. QED
    BY <1>12, <2>2, StageType DEF CopySafety, TypeOK, Stages, RollbackStages
<1>13. CASE RolledBack(p)
  BY <1>13, IdleType DEF RolledBack, TypeOK
<1>14. CASE Raises(p) \/ Refuses(p)
  <2>1. process' \in [Processes -> Activity]
    BY <1>14, IdleType, GoToType DEF Raises, Refuses, Raised, Stages, RollbackStages
  <2>2. faults' \in 0 .. MaxFaults
    BY <1>14 DEF Raises, Refuses, Fault, TypeOK
  <2>3. QED
    BY <1>14, <2>1, <2>2 DEF Raises, Refuses, TypeOK
<1>15. CASE Killed(p)
  <2>1. process' \in [Processes -> Activity]
    BY <1>15, IdleType DEF Killed
  <2>2. faults' \in 0 .. MaxFaults
    BY <1>15 DEF Killed, Fault, TypeOK
  <2>3. QED
    BY <1>15, <2>1, <2>2 DEF Killed, TypeOK
<1>16. QED
  BY <1>1, <1>2, <1>3, <1>4, <1>5, <1>6, <1>7, <1>8, <1>9, <1>10, <1>11, <1>12,
     <1>13, <1>14, <1>15 DEF Step, Backup, Restore, Rollback

LEMMA TypeEnvironment ==
  ASSUME TypeOK, Environment
  PROVE  TypeOK'
<1> USE ConstantsAssumption
<1> USE DEF MayBecome, BackupsMayBecome, EnvironmentKept, DataKept, BackupsKept, files
<1>a. data \in Data /\ backups \in [Names -> File]
  BY DEF TypeOK
<1>b. Reads(data) \in Contents
  BY <1>a DEF Reads, Data
<1>1. Fault => faults' \in 0 .. MaxFaults
  BY DEF Fault, TypeOK
<1>2. CASE PowerLoss
  <2>1. Idle \in Activity
    BY DEF Idle, Activity, Stages, Contents
  <2>2. process' \in [Processes -> Activity]
    BY <1>2, <2>1 DEF PowerLoss
  <2>3. QED
    BY <1>1, <1>2, <2>2 DEF PowerLoss, TypeOK
<1>3. CASE Damaged
  <2>1. backups' \in [Names -> File]
    BY <1>3, <1>a DEF Damaged, ChangeBackups, File
  <2>2. QED
    BY <1>1, <1>3, <2>1 DEF Damaged, ChangeBackups, TypeOK
<1>4. CASE AppStarts
  BY <1>4 DEF AppStarts, TypeOK
<1>5. CASE AppCommits
  <2>1. commits + 1 \in Contents /\ commits' \in 0 .. MaxCommits
    BY <1>5 DEF AppCommits, Contents, TypeOK
  <2>2. data' \in Data
    BY <1>5, <1>a, <2>1 DEF AppCommits, Data
  <2>3. QED
    BY <1>5, <2>1, <2>2 DEF AppCommits, TypeOK
<1>6. CASE AppCheckpoints
  BY <1>6, <1>b DEF AppCheckpoints, TypeOK, Data
<1>7. CASE AppStops
  BY <1>7 DEF AppStops, TypeOK
<1>8. QED
  BY <1>2, <1>3, <1>4, <1>5, <1>6, <1>7 DEF Environment

-----------------------------------------------------------------------------
(* What a step does to its own process and what it leaves to the others    *)

\* What GoTo and Stage leave alone.
SameCommand(p) ==
  /\ process'[p].command = process[p].command
  /\ process'[p].target = process[p].target
  /\ process'[p].candidate = process[p].candidate
  /\ process'[p].overwrite = process[p].overwrite
  /\ process'[p].before = process[p].before

OthersKept(p) == \A q \in Processes \ {p} : process'[q] = process[q]

LEMMA GoToFields ==
  ASSUME TypeOK, NEW p \in Processes, NEW s, GoTo(p, s)
  PROVE  /\ process'[p].stage = s /\ process'[p].staged = process[p].staged
         /\ SameCommand(p) /\ OthersKept(p)
<1>1. process[p] \in Activity /\ process \in [Processes -> Activity]
  BY DEF TypeOK
<1>2. process'[p] = [process[p] EXCEPT !.stage = s] /\ OthersKept(p)
  BY <1>1 DEF GoTo, OthersKept
<1>3. QED
  BY <1>1, <1>2 DEF Activity, SameCommand

LEMMA StageFields ==
  ASSUME TypeOK, NEW p \in Processes, NEW s, NEW file, Stage(p, s, file)
  PROVE  /\ process'[p].stage = s /\ process'[p].staged = file
         /\ SameCommand(p) /\ OthersKept(p)
<1>1. process[p] \in Activity /\ process \in [Processes -> Activity]
  BY DEF TypeOK
<1>2. process'[p] = [process[p] EXCEPT !.stage = s, !.staged = file] /\ OthersKept(p)
  BY <1>1 DEF Stage, OthersKept
<1>3. QED
  BY <1>1, <1>2 DEF Activity, SameCommand

LEMMA IdleFields ==
  ASSUME TypeOK, NEW p \in Processes, process' = [process EXCEPT ![p] = Idle]
  PROVE  process'[p] = Idle /\ OthersKept(p)
BY DEF TypeOK, OthersKept

LEMMA Frame ==
  ASSUME TypeOK, CommandInv, NEW p \in Processes, Step(p)
  PROVE  /\ OthersKept(p) /\ UNCHANGED running
         /\ restores' = restores \/ Restoring = {}
         /\ \A n \in Names : backups[n] # NoFile => backups'[n] # NoFile
         /\ p \notin Restoring => UNCHANGED <<data, dataOld, truth>>
<1> DEFINE Goal == /\ OthersKept(p) /\ UNCHANGED running
                   /\ restores' = restores \/ Restoring = {}
                   /\ \A n \in Names : backups[n] # NoFile => backups'[n] # NoFile
                   /\ p \notin Restoring => UNCHANGED <<data, dataOld, truth>>
<1> USE ConstantsAssumption
<1> USE DEF EnvironmentKept, DataKept, BackupsKept, files
<1>a. process[p] \in Activity /\ PlaceInv(p) /\ process \in [Processes -> Activity]
  BY DEF TypeOK, CommandInv
<1>b. p \notin Restoring => process[p].stage \in {"idle"} \cup BackupStages
  BY <1>a DEF Activity, PlaceInv, Restoring
<1>c. backups \in [Names -> File]
  BY DEF TypeOK, BackupsMayBecome
<1>1. CASE \E dest \in Destinations, overwrite \in BOOLEAN :
             StartBackup(p, dest, overwrite)
  <2>1. OthersKept(p)
    BY <1>1, <1>a DEF StartBackup, OthersKept
  <2>2. QED
    BY <1>1, <2>1 DEF StartBackup
<1>2. CASE Copy(p)
  BY <1>2, StageFields DEF Copy
<1>3. CASE Publish(p)
  <2>1. process[p].staged \in Contents
    BY <1>3, <1>a DEF Publish, At, PlaceInv
  <2>2. process[p].staged # NoFile
    BY <2>1 DEF Contents
  <2>3. \A n \in Names : backups[n] # NoFile => backups'[n] # NoFile
    BY <1>3, <1>c, <2>2 DEF Publish, ChangeBackups
  <2>4. OthersKept(p)
    BY <1>3, GoToFields DEF Publish
  <2>5. QED
    BY <1>3, <2>3, <2>4 DEF Publish
<1>4. CASE Sync(p)
  BY <1>4, GoToFields, IdleFields DEF Sync, AfterBackup
<1>5. CASE \E candidate \in Names : StartRestore(p, candidate)
  <2>1. OthersKept(p)
    BY <1>5, <1>a DEF StartRestore, OthersKept
  <2>2. QED
    BY <1>5, <2>1 DEF StartRestore
<1>6. CASE StageCandidate(p)
  BY <1>6, StageFields DEF StageCandidate
<1>7. CASE Checkpoint(p)
  BY <1>7, <1>b, GoToFields DEF Checkpoint, At, BackupStages
<1>8. CASE UnlinkSidecars(p)
  BY <1>8, <1>b, GoToFields DEF UnlinkSidecars, At, BackupStages
<1>9. CASE Replace(p)
  BY <1>9, <1>b, GoToFields DEF Replace, At, BackupStages
<1>10. CASE SyncData(p)
  BY <1>10, <1>b, GoToFields DEF SyncData, At, BackupStages
<1>11. CASE Restored(p)
  BY <1>11, <1>b, IdleFields DEF Restored, At, BackupStages
<1>12. CASE CopySafety(p)
  BY <1>12, StageFields DEF CopySafety
<1>13. CASE RolledBack(p)
  BY <1>13, IdleFields DEF RolledBack
<1>14. CASE Raises(p) \/ Refuses(p)
  BY <1>14, GoToFields, IdleFields DEF Raises, Refuses, Raised
<1>15. CASE Killed(p)
  BY <1>15, IdleFields DEF Killed
<1>16. QED
  BY <1>1, <1>2, <1>3, <1>4, <1>5, <1>6, <1>7, <1>8, <1>9, <1>10, <1>11, <1>12,
     <1>13, <1>14, <1>15 DEF Step, Backup, Restore, Rollback

-----------------------------------------------------------------------------
(* Which commands stand where                                              *)

LEMMA OwnPlace ==
  ASSUME TypeOK, CommandInv, FilesInv, NEW p \in Processes, Step(p)
  PROVE  PlaceInv(p)' /\ (p \in Restoring' => p \in Restoring \/ Restoring = {})
<1> USE ConstantsAssumption
<1> USE DEF EnvironmentKept, DataKept, BackupsKept, files
<1>a. process[p] \in Activity /\ PlaceInv(p) /\ process \in [Processes -> Activity]
  BY DEF TypeOK, CommandInv
<1>b. /\ OthersKept(p) /\ UNCHANGED running
      /\ restores' = restores \/ Restoring = {}
      /\ \A n \in Names : backups[n] # NoFile => backups'[n] # NoFile
  BY Frame
<1>c. process[p].command \in {"none", "backup", "restore"}
  BY <1>a DEF Activity
<1>d. p \in Restoring <=> process[p].command = "restore"
  BY DEF Restoring
<1>e. p \in Restoring' <=> process'[p].command = "restore"
  BY DEF Restoring
<1>f. backups \in [Names -> File] /\ Reads(data) \in Contents
  BY DEF TypeOK, BackupsMayBecome, MayBecome, Data, Reads
<1>g. ASSUME process'[p] = Idle
      PROVE  PlaceInv(p)' /\ p \notin Restoring'
  BY <1>g, <1>e DEF Idle, PlaceInv
<1>1. CASE \E dest \in Destinations, overwrite \in BOOLEAN :
             StartBackup(p, dest, overwrite)
  <2>1. PICK dest \in Destinations, overwrite \in BOOLEAN :
          StartBackup(p, dest, overwrite)
    BY <1>1
  <2>2. process'[p].stage = "copy" /\ process'[p].command = "backup"
          /\ process'[p].target = dest
    BY <2>1, <1>a DEF StartBackup, Idle
  <2>3. QED
    BY <2>2, <1>e DEF PlaceInv, BackupStages
<1>2. CASE Copy(p)
  <2>1. process'[p].stage = "publish" /\ process'[p].staged = Reads(data)
          /\ SameCommand(p) /\ process[p].stage = "copy"
    BY <1>2, StageFields DEF Copy, At
  <2>2. QED
    BY <2>1, <1>2, <1>a, <1>b, <1>c, <1>d, <1>e, <1>f
    DEF Copy, PlaceInv, SameCommand, BackupStages
<1>3. CASE Publish(p)
  <2>1. process'[p].stage = "sync" /\ process'[p].staged = process[p].staged
          /\ SameCommand(p) /\ process[p].stage = "publish"
    BY <1>3, GoToFields DEF Publish, At
  <2>2. QED
    BY <2>1, <1>3, <1>a, <1>b, <1>c, <1>d, <1>e
    DEF Publish, PlaceInv, SameCommand, BackupStages
<1>4. CASE Sync(p)
  <2>1. CASE process[p].command = "restore"
    <3>1. process'[p].stage = "stage" /\ process'[p].staged = process[p].staged
            /\ SameCommand(p) /\ process[p].stage = "sync"
      BY <1>4, <2>1, GoToFields DEF Sync, AfterBackup, At
    <3>2. QED
      BY <3>1, <2>1, <1>4, <1>a, <1>b, <1>d, <1>e DEF Sync, PlaceInv, SameCommand
  <2>2. CASE process[p].command # "restore"
    BY <2>2, <1>4, <1>g, IdleFields DEF Sync, AfterBackup
  <2>3. QED
    BY <2>1, <2>2
<1>5. CASE \E candidate \in Names : StartRestore(p, candidate)
  <2>1. PICK candidate \in Names : StartRestore(p, candidate)
    BY <1>5
  <2>2. restores + 1 \in Safeties /\ restores' = restores + 1
    BY <2>1 DEF StartRestore, Safeties, TypeOK
  <2>3. /\ process'[p].stage = "copy" /\ process'[p].command = "restore"
        /\ process'[p].target = restores + 1 /\ process'[p].candidate = candidate
        /\ ~process'[p].overwrite
    BY <2>1, <1>a DEF StartRestore, Idle
  <2>4. ~running /\ Restoring = {} /\ backups[candidate] # NoFile
    BY <2>1 DEF StartRestore
  <2>5. QED
    BY <2>2, <2>3, <2>4, <1>b DEF PlaceInv
<1>6. CASE StageCandidate(p)
  <2>1. process[p].command = "restore" /\ process[p].stage = "stage"
    BY <1>6, <1>a, <1>c DEF StageCandidate, At, PlaceInv, BackupStages
  <2>2. backups[process[p].candidate] \in Contents
    BY <1>6, <1>a, <1>f, <2>1 DEF StageCandidate, PlaceInv, File
  <2>3. process'[p].stage = "checkpoint" /\ SameCommand(p)
          /\ process'[p].staged = backups[process[p].candidate]
    BY <1>6, StageFields DEF StageCandidate
  <2>4. QED
    BY <2>1, <2>2, <2>3, <1>6, <1>a, <1>b, <1>d, <1>e
    DEF StageCandidate, PlaceInv, SameCommand
<1>7. CASE \E s \in Stages \ {"idle"} :
             /\ process[p].stage \in StagingStages \cup VerifyStages \cup RollbackStages
             /\ GoTo(p, s) /\ UNCHANGED restores
  <2>1. PICK s \in Stages \ {"idle"} : GoTo(p, s)
    BY <1>7
  <2>2. process[p].command = "restore" /\ process[p].stage \notin {"idle", "copy"}
    BY <1>7, <1>a, <1>c DEF PlaceInv, BackupStages, StagingStages, VerifyStages, RollbackStages
  <2>3. process'[p].stage = s /\ process'[p].staged = process[p].staged /\ SameCommand(p)
    BY <2>1, GoToFields
  <2>4. QED
    BY <2>2, <2>3, <1>7, <1>a, <1>b, <1>d, <1>e DEF PlaceInv, SameCommand
<1>8. CASE Checkpoint(p) \/ UnlinkSidecars(p) \/ Replace(p) \/ SyncData(p)
  BY <1>7, <1>8
  DEF Checkpoint, UnlinkSidecars, Replace, SyncData, At, Stages, StagingStages, VerifyStages,
      RollbackStages
<1>9. CASE Raises(p) \/ Refuses(p)
  <2>1. CASE process[p].stage \in VerifyStages
    BY <1>7, <1>9, <2>1 DEF Raises, Refuses, Raised, Stages, RollbackStages
  <2>2. CASE process[p].stage \notin VerifyStages
    BY <1>9, <1>g, <2>2, IdleFields DEF Raises, Refuses, Raised
  <2>3. QED
    BY <2>1, <2>2
<1>10. CASE CopySafety(p)
  <2>1. process[p].command = "restore" /\ process[p].stage = "copy_safety"
    BY <1>10, <1>a, <1>c DEF CopySafety, At, PlaceInv, BackupStages
  <2>2. backups[process[p].target] \in Contents
    BY <2>1, <1>a, <1>d
    DEF FilesInv, StageInv, BackupStages, BackupsMayBecome, Activity
  <2>3. process'[p].stage = "unlink_again" /\ SameCommand(p)
          /\ process'[p].staged = backups[process[p].target]
    BY <1>10, StageFields DEF CopySafety
  <2>4. QED
    BY <2>1, <2>2, <2>3, <1>10, <1>a, <1>b, <1>d, <1>e
    DEF CopySafety, PlaceInv, SameCommand
<1>11. CASE Restored(p) \/ RolledBack(p) \/ Killed(p)
  BY <1>11, <1>g, IdleFields DEF Restored, RolledBack, Killed
<1>12. QED
  BY <1>1, <1>2, <1>3, <1>4, <1>5, <1>6, <1>8, <1>9, <1>10, <1>11
  DEF Step, Backup, Restore, Rollback

LEMMA CommandStep ==
  ASSUME TypeOK, CommandInv, FilesInv, NEW p \in Processes, Step(p)
  PROVE  CommandInv'
<1>1. /\ OthersKept(p) /\ UNCHANGED running
      /\ restores' = restores \/ Restoring = {}
      /\ \A n \in Names : backups[n] # NoFile => backups'[n] # NoFile
  BY Frame
<1>2. PlaceInv(p)' /\ (p \in Restoring' => p \in Restoring \/ Restoring = {})
  BY OwnPlace
<1>3. ASSUME NEW q \in Processes, q # p
       PROVE  PlaceInv(q)' /\ (q \in Restoring' <=> q \in Restoring)
  <2>1. process'[q] = process[q] /\ PlaceInv(q)
    BY <1>3, <1>1 DEF OthersKept, CommandInv
  <2>2. process[q].command = "restore" => restores' = restores
    BY <1>1, <1>3 DEF Restoring
  <2>3. QED
    BY <2>1, <2>2, <1>1 DEF PlaceInv, Restoring
<1>4. \A q \in Processes : PlaceInv(q)'
  BY <1>2, <1>3
<1>5. \A q, r \in Restoring' : q = r
  <2>1. \A q \in Restoring' : q \in Processes
    BY DEF Restoring
  <2>2. QED
    BY <1>2, <1>3, <2>1 DEF CommandInv
<1>6. QED
  BY <1>4, <1>5 DEF CommandInv

LEMMA CommandEnvironment ==
  ASSUME TypeOK, CommandInv, Environment
  PROVE  CommandInv'
<1> USE DEF CommandInv, PlaceInv, Restoring
<1>1. CASE PowerLoss
  BY <1>1 DEF PowerLoss, Idle
<1>2. CASE Damaged
  <2>1. PICK n \in Destinations : backups' = [backups EXCEPT ![n] = Broken]
    BY <1>2 DEF Damaged, ChangeBackups
  <2>2. \A m \in Names : backups[m] # NoFile => backups'[m] # NoFile
    BY <2>1, ConstantsAssumption DEF TypeOK, BackupsMayBecome
  <2>3. QED
    BY <1>2, <2>2 DEF Damaged
<1>3. CASE AppStarts
  BY <1>3 DEF AppStarts, files
<1>4. CASE AppCommits
  BY <1>4 DEF AppCommits, BackupsKept
<1>5. CASE AppCheckpoints
  BY <1>5 DEF AppCheckpoints, BackupsKept, EnvironmentKept
<1>6. CASE AppStops
  BY <1>6 DEF AppStops, files
<1>7. QED
  BY <1>1, <1>2, <1>3, <1>4, <1>5, <1>6 DEF Environment

-----------------------------------------------------------------------------
(* The safety backups                                                      *)

\* Whatever the directory of the backups becomes, what it holds of the safety
\* backups it could have held before.
SafetiesStay ==
  /\ \A n \in Safeties : backups[n] # NoFile => backups'[n] = backups[n]
  /\ \A c \in BackupsMayBecome' : \E b \in BackupsMayBecome :
       \A n \in Safeties : b[n] # NoFile => c[n] = b[n]

LEMMA SafetiesKept ==
  ASSUME TypeOK, CommandInv,
         (\E p \in Processes : Step(p)) \/ (Environment /\ ~PowerLoss)
  PROVE  SafetiesStay
<1> USE ConstantsAssumption
<1>a. backups \in [Names -> File] /\ Destinations \cap Safeties = {}
  BY DEF TypeOK, BackupsMayBecome, Safeties
<1>1. CASE BackupsMayBecome' \subseteq BackupsMayBecome /\ UNCHANGED backups
  BY <1>1 DEF SafetiesStay
<1>2. ASSUME NEW n, NEW file, n \in Safeties => backups[n] = NoFile,
             ChangeBackups([backups EXCEPT ![n] = file])
      PROVE  SafetiesStay
  <2>1. \A m \in Safeties : backups[m] # NoFile => backups'[m] = backups[m]
    BY <1>2, <1>a DEF ChangeBackups, Names
  <2>2. BackupsMayBecome' = BackupsMayBecome \cup {backups'} /\ backups \in BackupsMayBecome
    BY <1>2 DEF BackupsMayBecome, ChangeBackups
  <2>3. QED
    BY <2>1, <2>2 DEF SafetiesStay
<1>3. CASE \E p \in Processes : Publish(p)
  <2>1. PICK p \in Processes : Publish(p)
    BY <1>3
  <2>2. process[p] \in Activity /\ PlaceInv(p) /\ process[p].stage = "publish"
    BY <2>1 DEF TypeOK, CommandInv, Publish, At
  <2>3. process[p].target \in Safeties => backups[process[p].target] = NoFile
    BY <2>1, <2>2, <1>a DEF Publish, PlaceInv, Activity
  <2>4. QED
    BY <2>1, <2>3, <1>2 DEF Publish
<1>4. CASE \E p \in Processes : Sync(p)
  BY <1>1, <1>4 DEF Sync, BackupsMayBecome
<1>5. CASE Damaged
  BY <1>2, <1>5, <1>a DEF Damaged
<1>6. ASSUME NEW p \in Processes, Step(p), ~Publish(p), ~Sync(p)
      PROVE  UNCHANGED <<backups, backupsOld>>
  BY <1>6
  DEF Step, Backup, Restore, Rollback, StartBackup, Copy, StartRestore, StageCandidate,
      Checkpoint, UnlinkSidecars, Replace, SyncData, Restored, CopySafety, RolledBack,
      Raises, Refuses, Killed, BackupsKept, files
<1>7. ASSUME Environment, ~PowerLoss, ~Damaged
      PROVE  UNCHANGED <<backups, backupsOld>>
  BY <1>7
  DEF Environment, AppStarts, AppCommits, AppCheckpoints, AppStops, BackupsKept, files
<1>8. ASSUME UNCHANGED <<backups, backupsOld>>
      PROVE  SafetiesStay
  BY <1>1, <1>8 DEF BackupsMayBecome
<1>9. QED
  BY <1>3, <1>4, <1>5, <1>6, <1>7, <1>8

-----------------------------------------------------------------------------
(* The files of a restore                                                  *)

LEMMA OwnFiles ==
  ASSUME TypeOK, CommandInv, FilesInv, NEW p \in Restoring', Step(p)
  PROVE  StageInv(p, process[p].stage, process[p].before)'
<1> USE ConstantsAssumption
<1> USE DEF EnvironmentKept, DataKept, BackupsKept, files, MayBecome, BackupsMayBecome
<1>a. p \in Processes /\ process'[p].command = "restore"
  BY DEF Restoring
<1>b. process[p] \in Activity /\ PlaceInv(p) /\ process \in [Processes -> Activity]
  BY <1>a DEF TypeOK, CommandInv
<1>c. data \in Data /\ backups \in [Names -> File]
  BY DEF TypeOK
<1>d. Reads(data) \in Contents
  BY <1>c DEF Reads, Data
<1>e. ASSUME process[p].command = "restore"
      PROVE  StageInv(p, process[p].stage, process[p].before)
              /\ process[p].before \in Contents /\ process[p].target \in Names
  BY <1>a, <1>b, <1>e DEF FilesInv, Restoring, Activity, PlaceInv, Names
<1> USE DEF StageInv, BackupStages, StagingStages, VerifyStages, RollbackStages, Published,
            SameCommand
<1>f. process'[p] # Idle
  BY <1>a DEF Idle
<1>1. ~\E dest \in Destinations, overwrite \in BOOLEAN : StartBackup(p, dest, overwrite)
  BY <1>a, <1>b DEF StartBackup, Idle
<1>2. CASE Copy(p)
  <2>1. /\ process[p].stage = "copy" /\ process'[p].stage = "publish"
        /\ process'[p].staged = Reads(data) /\ SameCommand(p)
    BY <1>2, <1>a, StageFields DEF Copy, At
  <2>2. QED
    BY <1>2, <2>1, <1>a, <1>e DEF Copy, Reads
<1>3. CASE Publish(p)
  <2>1. /\ process[p].stage = "publish" /\ process'[p].stage = "sync"
        /\ process'[p].staged = process[p].staged /\ SameCommand(p)
    BY <1>3, <1>a, GoToFields DEF Publish, At
  <2>2. backups'[process[p].target] = process[p].staged
    BY <1>3, <1>a, <1>c, <1>e, <2>1 DEF Publish, ChangeBackups
  <2>3. QED
    BY <1>3, <2>1, <2>2, <1>a, <1>e DEF Publish, Reads
<1>4. CASE Sync(p)
  <2>1. process[p].command = "restore"
    BY <1>4, <1>a, <1>f, IdleFields DEF Sync, AfterBackup
  <2>2. process[p].stage = "sync" /\ process'[p].stage = "stage" /\ SameCommand(p)
    BY <1>4, <2>1, <1>a, GoToFields DEF Sync, AfterBackup, At
  <2>3. QED
    BY <1>4, <2>1, <2>2, <1>e DEF Sync, Reads
<1>5. CASE \E candidate \in Names : StartRestore(p, candidate)
  <2>1. process'[p].stage = "copy" /\ process'[p].before = Reads(data)
    BY <1>5, <1>a, <1>b DEF StartRestore, Idle
  <2>2. QED
    BY <1>5, <2>1 DEF StartRestore, Reads
<1>6. CASE StageCandidate(p)
  <2>1. /\ process[p].stage = "stage" /\ process'[p].stage = "checkpoint"
        /\ SameCommand(p)
    BY <1>6, <1>a, StageFields DEF StageCandidate, At
  <2>2. QED
    BY <1>6, <2>1, <1>a, <1>e DEF StageCandidate, Reads
<1>7. CASE Checkpoint(p)
  <2>1. /\ process[p].stage = "checkpoint" /\ process'[p].stage = "unlink"
        /\ SameCommand(p)
    BY <1>7, <1>a, GoToFields DEF Checkpoint, At
  <2>2. data'.wal = NoFile /\ data'.main = Reads(data)
    BY <1>7 DEF Checkpoint
  <2>3. QED
    BY <1>7, <2>1, <2>2, <1>a, <1>e DEF Checkpoint, Reads
<1>8. CASE UnlinkSidecars(p)
  <2>1. /\ \/ process[p].stage = "unlink" /\ process'[p].stage = "replace"
           \/ process[p].stage = "unlink_again" /\ process'[p].stage = "replace_again"
        /\ process'[p].staged = process[p].staged /\ SameCommand(p)
    BY <1>8, <1>a, GoToFields DEF UnlinkSidecars, At
  <2>2. data'.wal = NoFile /\ data'.main = data.main
    BY <1>8, <1>c DEF UnlinkSidecars, ChangeData, Data
  <2>3. QED
    BY <1>8, <2>1, <2>2, <1>a, <1>e DEF UnlinkSidecars, Reads
<1>9. CASE Replace(p)
  <2>1. /\ \/ process[p].stage = "replace" /\ process'[p].stage = "sync_restored"
           \/ process[p].stage = "replace_again" /\ process'[p].stage = "sync_rollback"
        /\ process'[p].staged = process[p].staged /\ SameCommand(p)
    BY <1>9, <1>a, GoToFields DEF Replace, At
  <2>2. data'.wal = data.wal /\ data'.main = process[p].staged
    BY <1>9, <1>c DEF Replace, ChangeData, Data
  <2>3. UNCHANGED <<backups, backupsOld>>
    BY <1>9 DEF Replace
  <2>4. CASE process[p].stage = "replace"
    BY <2>1, <2>2, <2>3, <2>4, <1>a, <1>e
  <2>5. CASE process[p].stage = "replace_again"
    BY <2>1, <2>2, <2>3, <2>5, <1>a, <1>e
  <2>6. QED
    BY <2>1, <2>4, <2>5
<1>10. CASE SyncData(p)
  <2>1. /\ \/ process[p].stage = "sync_restored" /\ process'[p].stage = "validate_restored"
           \/ process[p].stage = "sync_rollback" /\ process'[p].stage = "validate_rollback"
        /\ process'[p].staged = process[p].staged /\ SameCommand(p)
    BY <1>10, <1>a, GoToFields DEF SyncData, At
  <2>2. dataOld' = {} /\ UNCHANGED <<data, backups, backupsOld>>
    BY <1>10 DEF SyncData
  <2>3. CASE process[p].stage = "sync_restored"
    BY <2>1, <2>2, <2>3, <1>a, <1>e
  <2>4. CASE process[p].stage = "sync_rollback"
    BY <2>1, <2>2, <2>4, <1>a, <1>e
  <2>5. QED
    BY <2>1, <2>3, <2>4
<1>11. CASE CopySafety(p)
  <2>1. /\ process[p].stage = "copy_safety" /\ process'[p].stage = "unlink_again"
        /\ process'[p].staged = backups[process[p].target] /\ SameCommand(p)
    BY <1>11, <1>a, StageFields DEF CopySafety, At
  <2>2. QED
    BY <1>11, <2>1, <1>a, <1>e DEF CopySafety
<1>12. CASE Raises(p) \/ Refuses(p)
  <2>1. process[p].stage \in VerifyStages
    BY <1>12, <1>a, <1>f, IdleFields DEF Raises, Refuses, Raised
  <2>2. process'[p].stage = "copy_safety" /\ SameCommand(p)
    BY <1>12, <1>a, <2>1, GoToFields DEF Raises, Refuses, Raised
  <2>3. QED
    BY <1>12, <2>1, <2>2, <1>a, <1>e DEF Raises, Refuses
<1>13. ~(Restored(p) \/ RolledBack(p) \/ Killed(p))
  BY <1>a, <1>f, IdleFields DEF Restored, RolledBack, Killed
<1>14. QED
  BY <1>1, <1>2, <1>3, <1>4, <1>5, <1>6, <1>7, <1>8, <1>9, <1>10, <1>11, <1>12, <1>13
  DEF Step, Backup, Restore, Rollback

\* Nobody else touches what a restore works on.
LEMMA BystanderFiles ==
  ASSUME TypeOK, CommandInv, FilesInv, NEW q \in Restoring,
         process'[q] = process[q], UNCHANGED <<data, dataOld>>, SafetiesStay
  PROVE  StageInv(q, process[q].stage, process[q].before)'
<1>1. StageInv(q, process[q].stage, process[q].before)
  BY DEF FilesInv
<1>2. process[q].target \in Safeties /\ process[q].before # NoFile
  BY ConstantsAssumption
  DEF Restoring, CommandInv, PlaceInv, TypeOK, Activity, Contents
<1>3. \A c \in BackupsMayBecome' : \E b \in BackupsMayBecome :
        b[process[q].target] # NoFile => c[process[q].target] = b[process[q].target]
  BY <1>2 DEF SafetiesStay
<1>4. backups[process[q].target] # NoFile =>
        backups'[process[q].target] = backups[process[q].target]
  BY <1>2 DEF SafetiesStay
<1>5. QED
  BY <1>1, <1>2, <1>3, <1>4 DEF StageInv, Reads

LEMMA FilesStep ==
  ASSUME TypeOK, CommandInv, FilesInv, NEW p \in Processes, Step(p)
  PROVE  FilesInv'
<1> SUFFICES ASSUME NEW q \in Restoring'
             PROVE  StageInv(q, process[q].stage, process[q].before)'
  BY DEF FilesInv
<1>1. CASE q = p
  BY <1>1, OwnFiles
<1>2. CASE q # p
  <2>1. q \in Processes /\ process'[q] = process[q] /\ q \in Restoring
    BY <1>2, Frame DEF Restoring, OthersKept
  <2>2. p \in Restoring' => p = q
    <3>1. CommandInv'
      BY CommandStep
    <3>2. QED
      BY <3>1 DEF CommandInv
  <2>3. p \notin Restoring
    BY <1>2, <2>1 DEF CommandInv
  <2>4. UNCHANGED <<data, dataOld>>
    BY <2>3, Frame
  <2>5. QED
    BY <2>1, <2>4, SafetiesKept, BystanderFiles
<1>3. QED
  BY <1>1, <1>2

LEMMA FilesEnvironment ==
  ASSUME TypeOK, CommandInv, FilesInv, Environment
  PROVE  FilesInv'
<1>1. CASE PowerLoss
  BY <1>1 DEF PowerLoss, FilesInv, Restoring, Idle
<1>2. ASSUME ~PowerLoss, NEW q \in Restoring'
      PROVE  StageInv(q, process[q].stage, process[q].before)'
  <2>1. UNCHANGED process
    BY <1>2
    DEF Environment, Damaged, AppStarts, AppCommits, AppCheckpoints, AppStops
  <2>2. q \in Restoring
    BY <2>1 DEF Restoring
  <2>3. ~running
    BY <2>2 DEF Restoring, CommandInv, PlaceInv
  <2>4. UNCHANGED <<data, dataOld>>
    BY <1>2, <2>2, <2>3
    DEF Environment, Damaged, AppStarts, AppCommits, AppCheckpoints, AppStops, DataKept, files
  <2>5. QED
    BY <1>2, <2>1, <2>2, <2>4, SafetiesKept, BystanderFiles
<1>3. QED
  BY <1>1, <1>2 DEF FilesInv

-----------------------------------------------------------------------------
(* The inventory that the user relies on                                   *)

\* That the safety backups hold it is not forgotten.
LEMMA SafetyStays ==
  ASSUME SafetiesStay, truth # NoFile,
         \A b \in BackupsMayBecome : \E n \in Safeties : b[n] = truth
  PROVE  \A c \in BackupsMayBecome' : \E n \in Safeties : c[n] = truth
<1> TAKE c \in BackupsMayBecome'
<1>1. PICK b \in BackupsMayBecome : \A n \in Safeties : b[n] # NoFile => c[n] = b[n]
  BY DEF SafetiesStay
<1>2. PICK n \in Safeties : b[n] = truth
  OBVIOUS
<1>3. QED
  BY <1>1, <1>2

LEMMA TruthStep ==
  ASSUME TypeOK, CommandInv, TruthInv, Recoverable, NEW p \in Processes, Step(p),
         SafetiesStay
  PROVE  TruthInv'
<1> USE DEF files
<1>1. CASE Restored(p)
  <2>1. p \in Restoring
    BY <1>1 DEF Restored, At, VerifyStages, BackupStages, TypeOK, Activity, CommandInv,
                PlaceInv, Restoring
  <2>2. Restoring' = {}
    <3>1. process'[p] = Idle /\ OthersKept(p)
      BY <1>1, IdleFields DEF Restored
    <3>2. \A q \in Processes : q # p => q \notin Restoring
      BY <2>1 DEF CommandInv
    <3>3. QED
      BY <3>1, <3>2 DEF Restoring, OthersKept, Idle
  <2>3. QED
    BY <2>2 DEF TruthInv
<1>2. CASE \E candidate \in Names : StartRestore(p, candidate)
  <2>1. Restoring' \subseteq {p} /\ UNCHANGED <<truth, data, dataOld, backups, backupsOld>>
    BY <1>2, Frame DEF StartRestore, Restoring, OthersKept
  <2>2. process'[p].before = Reads(data)
    BY <1>2 DEF StartRestore, TypeOK, Idle
  <2>3. QED
    BY <2>1, <2>2 DEF TruthInv, Recoverable, MayBecome, BackupsMayBecome
<1>3. ASSUME ~Restored(p), ~\E candidate \in Names : StartRestore(p, candidate)
      PROVE  TruthInv'
  <2>1. UNCHANGED truth
    BY <1>3
    DEF Step, Backup, Restore, Rollback, StartBackup, Copy, Publish, Sync, StageCandidate,
        Checkpoint, UnlinkSidecars, Replace, SyncData, CopySafety, RolledBack, Raises,
        Refuses, Killed
  <2>2. p \in Restoring' => p \in Restoring /\ process'[p].before = process[p].before
    <3>1. ASSUME NEW s, NEW file, GoTo(p, s) \/ Stage(p, s, file)
          PROVE  SameCommand(p)
      BY <3>1, GoToFields, StageFields
    <3>2. SameCommand(p) \/ p \notin Restoring'
      <4>1. ASSUME process' = [process EXCEPT ![p] = Idle]
            PROVE  p \notin Restoring'
        <5>1. process'[p] = Idle
          BY <4>1, IdleFields
        <5>2. QED
          BY <5>1 DEF Restoring, Idle
      <4>2. ASSUME NEW dest, NEW overwrite, StartBackup(p, dest, overwrite)
            PROVE  p \notin Restoring'
        BY <4>2 DEF StartBackup, TypeOK, Restoring, Idle
      <4>3. QED
        BY <1>3, <3>1, <4>1, <4>2
        DEF Step, Backup, Restore, Rollback, Copy, Publish, Sync, AfterBackup,
            StageCandidate, Checkpoint, UnlinkSidecars, Replace, SyncData, CopySafety,
            RolledBack, Raises, Refuses, Raised, Killed
    <3>3. QED
      BY <3>2 DEF SameCommand, Restoring
  <2>3. \A q \in Restoring' : q \in Restoring /\ process'[q].before = process[q].before
    BY <2>2, Frame DEF OthersKept, Restoring
  <2>4. QED
    BY <2>1, <2>3, SafetyStays DEF TruthInv
<1>4. QED
  BY <1>1, <1>2, <1>3

LEMMA TruthEnvironment ==
  ASSUME TypeOK, CommandInv, TruthInv, Environment, PowerLoss \/ SafetiesStay
  PROVE  TruthInv'
<1>1. CASE PowerLoss
  BY <1>1 DEF PowerLoss, TruthInv, Restoring, Idle
<1>2. CASE ~PowerLoss
  <2>1. UNCHANGED process
    BY <1>2
    DEF Environment, Damaged, AppStarts, AppCommits, AppCheckpoints, AppStops
  <2>2. Restoring' = Restoring /\ (Restoring # {} => ~running)
    BY <2>1 DEF Restoring, CommandInv, PlaceInv
  <2>3. Restoring # {} => UNCHANGED truth
    BY <1>2, <2>2
    DEF Environment, Damaged, AppStarts, AppCommits, AppCheckpoints, AppStops,
        EnvironmentKept
  <2>4. QED
    BY <1>2, <2>1, <2>2, <2>3, SafetyStays DEF TruthInv
<1>3. QED
  BY <1>1, <1>2

\* Only the application and the two replacements change what is read.
LEMMA RecoverableStep ==
  ASSUME TypeOK, CommandInv, FilesInv, TruthInv, Recoverable, NEW p \in Processes, Step(p),
         SafetiesStay
  PROVE  Recoverable'
<1> USE ConstantsAssumption
<1> USE DEF MayBecome, files, BackupsKept, DataKept
<1>a. process[p] \in Activity /\ PlaceInv(p) /\ data \in Data
  BY DEF TypeOK, CommandInv
<1>b. ASSUME process[p].stage \notin {"idle"} \cup BackupStages
      PROVE  p \in Restoring /\ StageInv(p, process[p].stage, process[p].before)
  BY <1>a, <1>b DEF PlaceInv, Activity, Restoring, FilesInv
<1>1. CASE Restored(p)
  <2>1. dataOld = {}
    BY <1>1, <1>b DEF Restored, At, BackupStages, StageInv
  <2>2. MayBecome' = {data} /\ truth' = Reads(data) /\ data' = data
    BY <1>1, <2>1 DEF Restored
  <2>3. QED
    BY <2>2 DEF Recoverable
<1>2. CASE ~Restored(p)
  <2> SUFFICES ASSUME truth # NoFile, NEW d \in MayBecome', NEW c \in BackupsMayBecome'
               PROVE  Reads(d) = truth \/ \E n \in Safeties : c[n] = truth
    <3>1. UNCHANGED truth
      BY <1>2
      DEF Step, Backup, Restore, Rollback, StartBackup, StartRestore, Copy, Publish, Sync,
          StageCandidate, Checkpoint, UnlinkSidecars, Replace, SyncData, CopySafety,
          RolledBack, Raises, Refuses, Killed
    <3>2. QED
      BY <3>1 DEF Recoverable
  <2>1. CASE \E e \in MayBecome : Reads(d) = Reads(e)
    BY <2>1, SafetyStays DEF Recoverable
  <2>2. CASE Replace(p) /\ d = data'
    <3>1. process[p].stage \in {"replace", "replace_again"}
      BY <2>2 DEF Replace, At
    <3>2. p \in Restoring /\ StageInv(p, process[p].stage, process[p].before)
            /\ process[p].target \in Safeties
      BY <1>a, <1>b, <3>1 DEF BackupStages, Restoring, PlaceInv
    <3>3. CASE \A b \in BackupsMayBecome : \E n \in Safeties : b[n] = truth
      BY <3>3, SafetyStays
    <3>4. CASE truth = process[p].before
      <4>1. \A b \in BackupsMayBecome : b[process[p].target] = truth
        BY <3>1, <3>2, <3>4 DEF StageInv, BackupStages
      <4>2. QED
        BY <3>2, <4>1, SafetyStays
    <3>5. QED
      BY <3>2, <3>3, <3>4 DEF TruthInv
  <2>3. CASE Checkpoint(p) \/ UnlinkSidecars(p)
    <3>1. ASSUME UnlinkSidecars(p)
          PROVE  data.wal = NoFile
      BY <1>b, <3>1
      DEF UnlinkSidecars, At, StageInv, BackupStages, Published, RollbackStages
    <3>2. Reads(data') = Reads(data)
      <4>1. CASE Checkpoint(p)
        BY <4>1 DEF Checkpoint, Reads
      <4>2. CASE UnlinkSidecars(p)
        <5>1. data'.wal = NoFile /\ data'.main = data.main
          BY <1>a, <4>2 DEF UnlinkSidecars, ChangeData, Data
        <5>2. QED
          BY <3>1, <4>2, <5>1 DEF Reads
      <4>3. QED
        BY <2>3, <4>1, <4>2
    <3>3. d = data' \/ d \in MayBecome
      BY <2>3 DEF Checkpoint, UnlinkSidecars, ChangeData
    <3>4. QED
      BY <2>1, <3>2, <3>3
  <2>4. CASE Replace(p) /\ d # data'
    <3>1. d \in MayBecome
      BY <2>4 DEF Replace, ChangeData
    <3>2. QED
      BY <2>1, <3>1
  <2>5. CASE ~(Checkpoint(p) \/ UnlinkSidecars(p) \/ Replace(p))
    <3>1. UNCHANGED data /\ dataOld' \subseteq dataOld
      BY <1>2, <2>5
      DEF Step, Backup, Restore, Rollback, StartBackup, StartRestore, Copy, Publish, Sync,
          StageCandidate, SyncData, CopySafety, RolledBack, Raises, Refuses, Killed
    <3>2. QED
      BY <2>1, <3>1
  <2>6. QED
    BY <2>2, <2>3, <2>4, <2>5
<1>3. QED
  BY <1>1, <1>2

LEMMA RecoverableEnvironment ==
  ASSUME TypeOK, Recoverable, Environment, PowerLoss \/ SafetiesStay
  PROVE  Recoverable'
<1> USE ConstantsAssumption
<1> USE DEF MayBecome, files, BackupsKept, DataKept
<1>1. CASE PowerLoss
  BY <1>1 DEF PowerLoss, Recoverable, BackupsMayBecome
<1>2. CASE AppCommits
  <2>1. data \in Data /\ commits + 1 # NoFile
    BY DEF TypeOK
  <2>2. data'.wal = commits + 1
    BY <1>2, <2>1 DEF AppCommits, Data
  <2>3. Reads(data') = truth' /\ MayBecome' = {data'}
    BY <1>2, <2>1, <2>2 DEF AppCommits, Reads
  <2>4. QED
    BY <2>3 DEF Recoverable
<1>3. ASSUME SafetiesStay, truth' \in {truth, NoFile},
             \A d \in MayBecome' : \E e \in MayBecome : Reads(d) = Reads(e)
      PROVE  Recoverable'
  BY <1>3, SafetyStays DEF Recoverable
<1>4. CASE AppCheckpoints
  <2>1. Reads(data') = Reads(data)
    BY <1>4 DEF AppCheckpoints, Reads
  <2>2. ~PowerLoss
    BY <1>4 DEF AppCheckpoints, PowerLoss, EnvironmentKept, Fault, TypeOK
  <2>3. QED
    BY <1>3, <1>4, <2>1, <2>2 DEF AppCheckpoints
<1>5. CASE AppStarts \/ AppStops \/ Damaged
  BY <1>1, <1>3, <1>5 DEF AppStarts, AppStops, Damaged
<1>6. QED
  BY <1>1, <1>2, <1>4, <1>5 DEF Environment

-----------------------------------------------------------------------------
(* The theorems                                                            *)

LEMMA Inductive == IInv /\ [Next]_vars => IInv'
<1> SUFFICES ASSUME IInv, [Next]_vars
             PROVE  IInv'
  OBVIOUS
<1> USE DEF IInv
<1>1. ASSUME NEW p \in Processes, Step(p)
      PROVE  IInv'
  <2>1. SafetiesStay
    BY <1>1, SafetiesKept
  <2>2. QED
    BY <1>1, <2>1, TypeStep, CommandStep, FilesStep, TruthStep, RecoverableStep
<1>2. CASE Environment
  <2>1. PowerLoss \/ SafetiesStay
    BY <1>2, SafetiesKept
  <2>2. QED
    BY <1>2, <2>1, TypeEnvironment, CommandEnvironment, FilesEnvironment,
       TruthEnvironment, RecoverableEnvironment
<1>3. CASE UNCHANGED vars
  BY <1>3
  DEF vars, files, TypeOK, CommandInv, PlaceInv, FilesInv, StageInv, TruthInv, Recoverable,
      MayBecome, BackupsMayBecome, Restoring, Reads
<1>4. QED
  BY <1>1, <1>2, <1>3, NextIsStep

LEMMA Invariance == Spec => []IInv
<1>1. QED
  BY Initially, Inductive, PTL DEF Spec

\* The variables keep their types, and so a database is only ever replaced by
\* contents that were validated, never by a damaged file or by no file.
THEOREM TypeCorrect == Spec => []TypeOK
<1>1. IInv => TypeOK
  BY DEF IInv
<1>2. QED
  BY <1>1, Invariance, PTL

\* Whatever raises, is killed or loses its power in a restore or a rollback,
\* the user's inventory is in the active database or in a safety backup.
THEOREM InventoryIsRecoverable == Spec => []Recoverable
<1>1. IInv => Recoverable
  BY DEF IInv
<1>2. QED
  BY <1>1, Invariance, PTL

\* A restore that reports a failure, with the files it has seen, leaves the
\* inventory that it found, and for good when it says it rolled back.
THEOREM FailedRestoresKeep == Spec => FailedRestoreKeeps
<1> DEFINE Keeps(p) ==
      GivesUp(p) =>
        /\ Reads(data') = process[p].before
        /\ At(p, "validate_rollback") =>
             \A d \in MayBecome' : Reads(d) = process[p].before
<1>1. ASSUME IInv, NEW p \in Processes
      PROVE  Keeps(p)
  <2> SUFFICES ASSUME GivesUp(p)
               PROVE  /\ Reads(data') = process[p].before
                      /\ At(p, "validate_rollback") =>
                           \A d \in MayBecome' : Reads(d) = process[p].before
    OBVIOUS
  <2>1. StageInv(p, process[p].stage, process[p].before)
    BY <1>1 DEF GivesUp, IInv, FilesInv, Restoring
  <2>2. Reads(data) = process[p].before /\ (At(p, "validate_rollback") => dataOld = {})
    BY <2>1, ConstantsAssumption DEF GivesUp, StageInv, Reads, At, Published, RollbackStages
  <2>3. UNCHANGED <<data, dataOld>>
    BY DEF GivesUp, files
  <2>4. QED
    BY <2>2, <2>3 DEF MayBecome, Reads
<1>2. IInv /\ [Next]_vars => [\A p \in Processes : Keeps(p)]_vars
  BY <1>1
<1>3. QED
  BY <1>2, Invariance, PTL DEF Spec, FailedRestoreKeeps

\* A restore that is reported stays, whatever happens to the power after it.
THEOREM ReportedRestoresStay == Spec => RestoreIsDurable
<1> DEFINE Durable(p) ==
      At(p, "validate_restored") /\ process'[p] = Idle /\ truth' # truth =>
        \A d \in MayBecome' : Reads(d) = process[p].staged
<1>1. ASSUME IInv, Next, NEW p \in Processes
      PROVE  Durable(p)
  <2> SUFFICES ASSUME At(p, "validate_restored"), process'[p] = Idle, truth' # truth
               PROVE  \A d \in MayBecome' : Reads(d) = process[p].staged
    OBVIOUS
  <2>1. process[p] # Idle
    BY DEF At, Idle
  <2>2. ~Environment
    BY <2>1
    DEF Environment, PowerLoss, Damaged, AppStarts, AppCommits, AppCheckpoints, AppStops,
        EnvironmentKept
  <2>3. Step(p)
    <3>1. PICK q \in Processes : Step(q)
      BY <1>1, <2>2, NextIsStep
    <3>2. OthersKept(q)
      BY <1>1, <3>1, Frame DEF IInv
    <3>3. QED
      BY <2>1, <3>1, <3>2 DEF OthersKept
  <2>4. Restored(p)
    BY <2>3
    DEF Step, Backup, Restore, Rollback, StartBackup, StartRestore, Copy, Publish, Sync,
        StageCandidate, Checkpoint, UnlinkSidecars, Replace, SyncData, CopySafety,
        RolledBack, Raises, Refuses, Killed
  <2>5. p \in Restoring
    BY <1>1 DEF IInv, CommandInv, PlaceInv, TypeOK, Activity, At, BackupStages, Restoring
  <2>6. data.wal = NoFile /\ data.main = process[p].staged /\ dataOld = {}
    BY <1>1, <2>5
    DEF IInv, FilesInv, StageInv, At, Published, VerifyStages, RollbackStages
  <2>7. QED
    BY <2>4, <2>6 DEF Restored, files, MayBecome, Reads
<1>2. IInv /\ [Next]_vars => [\A p \in Processes : Durable(p)]_vars
  BY <1>1
<1>3. QED
  BY <1>2, Invariance, PTL DEF Spec, RestoreIsDurable

\* Two commands that race for a name: the second fails, unless it may overwrite.
THEOREM NamesAreNotTaken == Spec => NothingOverwritten
<1> DEFINE Kept(n) ==
      backups[n] # NoFile /\ backups'[n] # backups[n] =>
        \/ faults' # faults
        \/ \E p \in Processes : At(p, "publish") /\ process[p].overwrite
                                 /\ process[p].target = n
<1>1. ASSUME TypeOK, Next, NEW n \in Names
      PROVE  Kept(n)
  <2> SUFFICES ASSUME backups[n] # NoFile, backups'[n] # backups[n], faults' = faults
               PROVE  \E p \in Processes : At(p, "publish") /\ process[p].overwrite
                                            /\ process[p].target = n
    OBVIOUS
  <2>1. ~Fault
    BY <1>1 DEF TypeOK, Fault
  <2>2. ~Environment
    BY <2>1
    DEF Environment, PowerLoss, Damaged, AppStarts, AppCommits, AppCheckpoints, AppStops,
        BackupsKept, files
  <2>3. PICK p \in Processes : Step(p)
    BY <1>1, <2>2, NextIsStep
  <2>4. Publish(p)
    BY <2>3
    DEF Step, Backup, Restore, Rollback, StartBackup, StartRestore, Copy, Sync,
        StageCandidate, Checkpoint, UnlinkSidecars, Replace, SyncData, Restored, CopySafety,
        RolledBack, Raises, Refuses, Killed, BackupsKept, files
  <2>5. process[p].target = n
    BY <1>1, <2>4 DEF Publish, ChangeBackups, TypeOK, BackupsMayBecome
  <2>6. QED
    BY <2>4, <2>5 DEF Publish
<1>2. TypeOK /\ [Next]_vars => [\A n \in Names : Kept(n)]_vars
  BY <1>1
<1>3. QED
  BY <1>2, TypeCorrect, PTL DEF Spec, NothingOverwritten

-----------------------------------------------------------------------------
(* Export, import and bootstrap *)

LEMMA LeastKey ==
  ASSUME NEW T, T \subseteq Nat, T # {}
  PROVE  \E x \in T : \A y \in T : x <= y
<1> DEFINE Below == {1 .. n : n \in T}
<1>1. Below \subseteq FiniteSubsetsOf(Nat) /\ Below # {}
  <2>1. \A n \in T : 1 .. n \subseteq Nat /\ IsFiniteSet(1 .. n)
    BY FS_Interval
  <2>2. QED
    BY <2>1 DEF FiniteSubsetsOf
<1>2. PICK b \in Below : \A c \in Below : <<c, b>> \notin StrictSubsetOrdering(Nat)
  <2> HIDE DEF Below
  <2>1. QED
    BY <1>1, FS_StrictSubsetOrderingWellFounded, WFMin
<1>3. PICK x \in T : b = 1 .. x
  OBVIOUS
<1>4. ASSUME NEW y \in T, ~ (x <= y)
      PROVE  FALSE
  <2>1. 1 .. y \in SUBSET Nat /\ 1 .. x \in SUBSET Nat
    OBVIOUS
  <2>2. 1 .. y \subseteq 1 .. x /\ x \in 1 .. x /\ x \notin 1 .. y /\ 1 .. y \in Below
    BY <1>4
  <2>3. 1 .. y # 1 .. x
    BY <2>2
  <2>4. QED
    BY <1>2, <1>3, <2>1, <2>2, <2>3 DEF StrictSubsetOrdering
<1>5. QED
  BY <1>4

\* A function on numbers that goes on from its last value.
Iterates(f, n, S, s, next) ==
  /\ f \in [0 .. n -> S] /\ f[0] = s
  /\ \A k \in 1 .. n : f[k] = next[<<k, f[k - 1]>>]

LEMMA Iteration ==
  ASSUME NEW S, NEW s \in S, NEW m \in Nat, NEW next \in [(1 .. m) \X S -> S]
  PROVE  \E f : Iterates(f, m, S, s, next)
<1> DEFINE T == {k \in 0 .. m : ~ \E f : Iterates(f, k, S, s, next)}
<1>1. SUFFICES ASSUME T # {} PROVE FALSE
  OBVIOUS
<1>2. PICK n \in T : \A y \in T : n <= y
  <2>1. T \subseteq Nat
    OBVIOUS
  <2> HIDE DEF T
  <2>2. QED
    BY <1>1, <2>1, LeastKey
<1>3. CASE n = 0
  <2>1. Iterates([k \in 0 .. 0 |-> s], 0, S, s, next)
    BY DEF Iterates
  <2>2. QED
    BY <2>1, <1>3
<1>4. CASE n # 0
  <2>1. n - 1 \in 0 .. m /\ n - 1 \notin T /\ n \in 1 .. m
    BY <1>2, <1>4
  <2>2. PICK f : Iterates(f, n - 1, S, s, next)
    BY <2>1
  <2>3. PICK v \in S : v = next[<<n, f[n - 1]>>]
    <3>1. f[n - 1] \in S
      BY <2>1, <2>2 DEF Iterates
    <3>2. QED
      BY <2>1, <3>1
  <2> DEFINE g == [k \in 0 .. n |-> IF k = n THEN v ELSE f[k]]
  <2>4. g \in [0 .. n -> S] /\ g[0] = s
    BY <2>1, <2>2, <1>4 DEF Iterates
  <2>5. ASSUME NEW k \in 1 .. n PROVE g[k] = next[<<k, g[k - 1]>>]
    <3>1. k - 1 \in 0 .. (n - 1) /\ k - 1 # n /\ k \in 0 .. n /\ k - 1 \in 0 .. n
      BY <2>1
    <3>2. g[k - 1] = f[k - 1]
      BY <3>1
    <3>3. CASE k = n
      BY <3>1, <3>2, <3>3, <2>3
    <3>4. CASE k # n
      BY <3>1, <3>2, <3>4, <2>2 DEF Iterates
    <3>5. QED
      BY <3>3, <3>4
  <2>6. Iterates(g, n, S, s, next)
    BY <2>4, <2>5 DEF Iterates
  <2>7. QED
    BY <2>6
<1>5. QED
  BY <1>3, <1>4

-----------------------------------------------------------------------------
(* Trees *)

\* Places and their parents.
Tree(up) == DOMAIN up \subseteq Places /\ up \in [DOMAIN up -> Places \cup {Nil}] /\ Linked(up)
Size(up) == Cardinality(DOMAIN up)

LEMMA NilIsNoPlace == Nil \notin Places
  BY TransferConstants

LEMMA TreeSize ==
  ASSUME NEW up, Tree(up)
  PROVE  IsFiniteSet(DOMAIN up) /\ Size(up) \in Nat /\ up \in [DOMAIN up -> DOMAIN up \cup {Nil}]
<1>1. IsFiniteSet(DOMAIN up)
  BY TransferConstants, FS_Subset DEF Tree
<1>2. QED
  BY <1>1, FS_CardinalityType DEF Tree, Size, Linked

\* The way up from a place.
LEMMA AboveIs ==
  ASSUME NEW up, Tree(up), NEW p \in DOMAIN up \cup {Nil}
  PROVE  /\ Above(up, p) \in [0 .. Size(up) -> DOMAIN up \cup {Nil}]
         /\ Above(up, p)[0] = p
         /\ \A n \in 1 .. Size(up) :
              Above(up, p)[n] = IF Above(up, p)[n - 1] = Nil THEN Nil ELSE up[Above(up, p)[n - 1]]
<1> DEFINE S == DOMAIN up \cup {Nil}
           next == [e \in (1 .. Size(up)) \X S |-> IF e[2] = Nil THEN Nil ELSE up[e[2]]]
           Is(f) == f = [n \in 0 .. Size(up) |->
                           IF n = 0 THEN p
                           ELSE LET q == f[n - 1] IN IF q = Nil THEN Nil ELSE up[q]]
           above == CHOOSE f : Is(f)
<1>1. next \in [(1 .. Size(up)) \X S -> S]
  BY TreeSize
<1>2. PICK f : Iterates(f, Size(up), S, p, next)
  <2> HIDE DEF next, S
  <2>1. Size(up) \in Nat /\ p \in S
    BY TreeSize DEF S
  <2>2. QED
    BY <1>1, <2>1, Iteration
<1>3. \A n \in 1 .. Size(up) : n - 1 \in 0 .. Size(up) /\ f[n - 1] \in S
                               /\ f[n] = IF f[n - 1] = Nil THEN Nil ELSE up[f[n - 1]]
  <2>1. SUFFICES ASSUME NEW n \in 1 .. Size(up)
                 PROVE  /\ n - 1 \in 0 .. Size(up) /\ f[n - 1] \in S
                        /\ f[n] = IF f[n - 1] = Nil THEN Nil ELSE up[f[n - 1]]
    OBVIOUS
  <2>2. n - 1 \in 0 .. Size(up)
    BY TreeSize
  <2>3. f[n - 1] \in S /\ f[n] = next[<<n, f[n - 1]>>]
    BY <2>2, <1>2 DEF Iterates
  <2>4. QED
    BY <2>2, <2>3
<1>4. Is(f)
  <2>1. f = [n \in 0 .. Size(up) |-> f[n]] /\ f[0] = p
    BY <1>2 DEF Iterates
  <2>2. ASSUME NEW n \in 0 .. Size(up), n # 0 PROVE n \in 1 .. Size(up)
    BY <2>2, TreeSize
  <2>3. QED
    BY <2>1, <2>2, <1>3
<1>5. Is(above)
  BY <1>4
<1>6. above = Above(up, p)
  BY DEF Above, Size
<1> HIDE DEF above
<1>7. ASSUME NEW g, Is(g) PROVE g = f
  <2> DEFINE T == {n \in 0 .. Size(up) : g[n] # f[n]}
  <2>1. T = {}
    <3> SUFFICES ASSUME T # {} PROVE FALSE
      OBVIOUS
    <3>1. PICK n \in T : \A y \in T : n <= y
      <4>1. T \subseteq Nat
        OBVIOUS
      <4> HIDE DEF T
      <4>2. QED
        BY <4>1, LeastKey
    <3>2. n \in 0 .. Size(up) /\ g[n] # f[n] /\ Size(up) \in Nat
      BY TreeSize
    <3>3. n # 0
      BY <3>2, <1>7, <1>2 DEF Iterates
    <3>4. n \in 1 .. Size(up) /\ n - 1 \in 0 .. Size(up) /\ n - 1 \notin T
      BY <3>1, <3>2, <3>3
    <3>5. g[n] = IF g[n - 1] = Nil THEN Nil ELSE up[g[n - 1]]
      BY <3>3, <3>2, <1>7
    <3>6. QED
      BY <3>2, <3>4, <3>5, <1>3
  <2>2. g = [n \in 0 .. Size(up) |-> g[n]]
    BY <1>7
  <2>3. f = [n \in 0 .. Size(up) |-> f[n]]
    BY <1>2 DEF Iterates
  <2>4. QED
    BY <2>1, <2>2, <2>3
<1>8. above = f
  <2> HIDE DEF Is
  <2>1. QED
    BY <1>5, <1>7
<1>9. QED
  BY <1>2, <1>3, <1>6, <1>8 DEF Iterates

\* Every way up from W stays in it and descends to a root.
Descends(up, W, rank) ==
  \A x \in W : up[x] = Nil \/ (up[x] \in W /\ rank[up[x]] < rank[x])
Grounded(up, W) == \E rank \in [W -> Nat] : Descends(up, W, rank)

\* From x, the way is the rest of the way from the place below.
LEMMA AboveShifts ==
  ASSUME NEW up, Tree(up), NEW x \in DOMAIN up, NEW n \in 0 .. (Size(up) - 1)
  PROVE  Above(up, x)[n + 1] = Above(up, up[x])[n]
<1> DEFINE a == Above(up, x)
           b == Above(up, up[x])
           N == Size(up)
           T == {k \in 0 .. (N - 1) : a[k + 1] # b[k]}
<1>1. up[x] \in DOMAIN up \cup {Nil} /\ N \in Nat /\ x # Nil
  BY TreeSize, NilIsNoPlace DEF Tree
<1>2. /\ a[0] = x /\ b[0] = up[x]
      /\ \A k \in 1 .. N : a[k] = IF a[k - 1] = Nil THEN Nil ELSE up[a[k - 1]]
      /\ \A k \in 1 .. N : b[k] = IF b[k - 1] = Nil THEN Nil ELSE up[b[k - 1]]
  BY <1>1, AboveIs
<1> HIDE DEF a, b, N
<1>3. SUFFICES ASSUME T # {} PROVE FALSE
  BY DEF a, b, N
<1>4. PICK k \in T : \A y \in T : k <= y
  <2>1. T \subseteq Nat
    BY <1>1
  <2> HIDE DEF T
  <2>2. QED
    BY <2>1, <1>3, LeastKey
<1>5. k \in 0 .. (N - 1) /\ a[k + 1] # b[k] /\ k + 1 \in 1 .. N
  BY <1>1
<1>6. a[k + 1] = IF a[k] = Nil THEN Nil ELSE up[a[k]]
  <2>1. (k + 1) - 1 = k
    BY <1>5
  <2>2. QED
    BY <2>1, <1>5, <1>2
<1>7. k # 0
  <2>1. SUFFICES ASSUME k = 0 PROVE FALSE
    OBVIOUS
  <2>2. a[k] = x /\ b[k] = up[x]
    BY <2>1, <1>2
  <2>3. a[k + 1] = up[x]
    BY <2>2, <1>1, <1>6
  <2>4. QED
    BY <2>2, <2>3, <1>5
<1>8. k - 1 \in 0 .. (N - 1) /\ k - 1 \notin T /\ k \in 1 .. N
  BY <1>1, <1>4, <1>5, <1>7
<1>9. a[k] = b[k - 1]
  <2>1. a[(k - 1) + 1] = b[k - 1] /\ (k - 1) + 1 = k
    BY <1>8
  <2>2. QED
    BY <2>1
<1>10. b[k] = IF b[k - 1] = Nil THEN Nil ELSE up[b[k - 1]]
  BY <1>8, <1>2
<1>11. QED
  BY <1>5, <1>6, <1>9, <1>10

LEMMA NilStaysNil ==
  ASSUME NEW up, Tree(up), NEW p \in DOMAIN up \cup {Nil},
         NEW n \in 0 .. Size(up), NEW m \in 0 .. Size(up), n <= m, Above(up, p)[n] = Nil
  PROVE  Above(up, p)[m] = Nil
<1> DEFINE a == Above(up, p)
           N == Size(up)
           T == {k \in n .. N : a[k] # Nil}
<1>1. N \in Nat /\ \A k \in 1 .. N : a[k] = IF a[k - 1] = Nil THEN Nil ELSE up[a[k - 1]]
  BY AboveIs, TreeSize
<1> HIDE DEF a, N
<1>2. SUFFICES ASSUME T # {} PROVE FALSE
  BY <1>1 DEF a, N
<1>3. PICK k \in T : \A y \in T : k <= y
  <2>1. T \subseteq Nat
    BY <1>1
  <2> HIDE DEF T
  <2>2. QED
    BY <2>1, <1>2, LeastKey
<1>4. k \in n .. N /\ a[k] # Nil /\ k # n
  BY DEF a
<1>5. k \in 1 .. N /\ k - 1 \in n .. N /\ k - 1 \notin T
  BY <1>1, <1>3, <1>4
<1>6. QED
  BY <1>1, <1>4, <1>5

\* Where ranks fall, nobody meets itself, and every way ends.
LEMMA GroundedIsRooted ==
  ASSUME NEW up, Tree(up), NEW W, W \subseteq DOMAIN up, Grounded(up, W), NEW p \in W
  PROVE  Rooted(up, p) /\ Above(up, p)[Size(up)] = Nil
<1> DEFINE a == Above(up, p)
           N == Size(up)
<1>1. /\ N \in Nat /\ IsFiniteSet(DOMAIN up) /\ Cardinality(DOMAIN up) = N
      /\ a \in [0 .. N -> DOMAIN up \cup {Nil}] /\ a[0] = p
      /\ \A k \in 1 .. N : a[k] = IF a[k - 1] = Nil THEN Nil ELSE up[a[k - 1]]
  BY AboveIs, TreeSize DEF Size
<1>2. SUFFICES a[N] = Nil
  <2>1. N \in DOMAIN Above(up, p)
    BY <1>1
  <2>2. QED
    BY <2>1 DEF Rooted
<1>3. PICK rank \in [W -> Nat] : Descends(up, W, rank)
  BY DEF Grounded
<1> DEFINE Fine(k) == a[k] \in W /\ \A j \in 0 .. N : j < k => a[j] \in W /\ rank[a[k]] < rank[a[j]]
           T == {k \in 0 .. N : ~ Fine(k)}
<1>4. \A n \in 0 .. N : \A m \in 0 .. N : n <= m /\ a[n] = Nil => a[m] = Nil
  BY NilStaysNil
<1>5. Nil \notin W
  BY NilIsNoPlace DEF Tree
<1> HIDE DEF a, N
<1>6. SUFFICES ASSUME a[N] # Nil PROVE FALSE
  OBVIOUS
<1>7. \A k \in 0 .. N : a[k] # Nil
  BY <1>1, <1>4, <1>6
<1>8. T = {}
  <2> SUFFICES ASSUME T # {} PROVE FALSE
    OBVIOUS
  <2>1. PICK k \in T : \A y \in T : k <= y
    <3>1. T \subseteq Nat
      BY <1>1
    <3> HIDE DEF T
    <3>2. QED
      BY <3>1, LeastKey
  <2>2. k \in 0 .. N /\ ~ Fine(k)
    OBVIOUS
  <2>3. k # 0
    BY <2>2, <1>1
  <2>4. k \in 1 .. N /\ k - 1 \in 0 .. N /\ k - 1 \notin T
    BY <1>1, <2>1, <2>2, <2>3
  <2>5. Fine(k - 1)
    BY <2>4
  <2>6. a[k] = up[a[k - 1]] /\ a[k] # Nil /\ a[k - 1] \in W
    BY <1>1, <1>7, <2>2, <2>4, <2>5
  <2>7. a[k] \in W /\ rank[a[k]] < rank[a[k - 1]]
    BY <2>6, <1>3 DEF Descends
  <2>8. ASSUME NEW j \in 0 .. N, j < k PROVE a[j] \in W /\ rank[a[k]] < rank[a[j]]
    <3>1. CASE j = k - 1
      BY <3>1, <2>6, <2>7
    <3>2. CASE j # k - 1
      <4>1. j < k - 1
        BY <3>2, <2>8, <2>2
      <4>2. a[j] \in W /\ rank[a[k - 1]] < rank[a[j]]
        BY <4>1, <2>5
      <4>3. rank[a[j]] \in Nat /\ rank[a[k - 1]] \in Nat /\ rank[a[k]] \in Nat
        BY <4>2, <2>6, <2>7
      <4>4. QED
        BY <4>2, <4>3, <2>7
    <3>3. QED
      BY <3>1, <3>2
  <2>9. QED
    BY <2>2, <2>7, <2>8
<1>9. \A k \in 0 .. N : Fine(k)
  BY <1>8
<1>10. \A j, k \in 0 .. N : j < k => a[j] # a[k]
  <2> SUFFICES ASSUME NEW j \in 0 .. N, NEW k \in 0 .. N, j < k, a[j] = a[k] PROVE FALSE
    OBVIOUS
  <2>1. a[k] \in W /\ rank[a[k]] < rank[a[j]]
    BY <1>9
  <2>2. rank[a[k]] \in Nat
    BY <2>1
  <2>3. QED
    BY <2>1, <2>2
<1>11. a \in [0 .. N -> DOMAIN up]
  BY <1>1, <1>7
<1>12. IsFiniteSet(0 .. N) /\ Cardinality(DOMAIN up) < Cardinality(0 .. N)
  BY <1>1, FS_Interval
<1>13. PICK j \in 0 .. N, k \in 0 .. N : j # k /\ a[j] = a[k]
  BY <1>1, <1>11, <1>12, FS_PigeonHole
<1>14. QED
  BY <1>1, <1>10, <1>13

LEMMA RootedIsGrounded ==
  ASSUME NEW up, Tree(up), \A p \in DOMAIN up : Rooted(up, p)
  PROVE  Grounded(up, DOMAIN up)
<1> DEFINE N == Size(up)
           Ends(p) == {n \in 0 .. N : Above(up, p)[n] = Nil}
           rank == [p \in DOMAIN up |-> CHOOSE n \in Ends(p) : \A m \in Ends(p) : n <= m]
<1>1. N \in Nat /\ Nil \notin DOMAIN up
  BY TreeSize, NilIsNoPlace DEF Tree
<1>2. ASSUME NEW p \in DOMAIN up
      PROVE  rank[p] \in Ends(p) /\ \A m \in Ends(p) : rank[p] <= m
  <2>1. DOMAIN Above(up, p) = 0 .. N
    BY AboveIs
  <2>2. Ends(p) # {} /\ Ends(p) \subseteq Nat
    BY <2>1, <1>1 DEF Rooted
  <2>3. \E n \in Ends(p) : \A m \in Ends(p) : n <= m
    <3> HIDE DEF Ends
    <3>1. QED
      BY <2>2, LeastKey
  <2>4. QED
    BY <2>3
<1>3. rank \in [DOMAIN up -> Nat]
  BY <1>1, <1>2
<1> HIDE DEF rank
<1>4. ASSUME NEW x \in DOMAIN up, up[x] # Nil
      PROVE  up[x] \in DOMAIN up /\ rank[up[x]] < rank[x]
  <2>1. up[x] \in DOMAIN up
    BY <1>4, TreeSize
  <2>2. rank[x] \in 0 .. N /\ Above(up, x)[rank[x]] = Nil /\ Above(up, x)[0] = x
    BY <1>2, AboveIs
  <2>3. rank[x] # 0
    BY <2>2, <1>1
  <2>4. rank[x] - 1 \in 0 .. (N - 1) /\ rank[x] - 1 \in 0 .. N /\ (rank[x] - 1) + 1 = rank[x]
    BY <1>1, <2>2, <2>3
  <2>5. Above(up, up[x])[rank[x] - 1] = Nil
    BY <2>2, <2>4, AboveShifts
  <2>6. rank[x] - 1 \in Ends(up[x])
    BY <2>4, <2>5
  <2>7. rank[up[x]] <= rank[x] - 1
    BY <1>2, <2>1, <2>6
  <2>8. rank[up[x]] \in Nat /\ rank[x] \in Nat
    BY <1>3, <2>1
  <2>9. QED
    BY <2>1, <2>7, <2>8
<1>5. QED
  BY <1>3, <1>4 DEF Grounded, Descends

-----------------------------------------------------------------------------
(* Walks *)

\* Where a walk stops.
Stops(up, done, p) == {n \in 0 .. Size(up) : Above(up, p)[n] \in done \cup {Nil}}

LEMMA WalkedIs ==
  ASSUME NEW up, Tree(up), NEW done, NEW p \in DOMAIN up
  PROVE  /\ Stops(up, done, p) = {} => Walked(up, done, p) = Nil
         /\ \A k \in Stops(up, done, p) : (\A m \in Stops(up, done, p) : k <= m) =>
              Walked(up, done, p) = done \cup {Above(up, p)[n] : n \in 0 .. (k - 1)}
<1> DEFINE a == Above(up, p)
           stops == {n \in DOMAIN a : a[n] \in done \cup {Nil}}
<1>1. DOMAIN a = 0 .. Size(up) /\ Size(up) \in Nat
  BY AboveIs, TreeSize
<1>2. stops = Stops(up, done, p)
  BY <1>1 DEF Stops
<1>3. Walked(up, done, p) =
        IF stops = {} THEN Nil
        ELSE done \cup {a[n] : n \in {m \in DOMAIN a : \A k \in stops : m < k}}
  BY DEF Walked
<1> HIDE DEF a, stops
<1>4. ASSUME NEW k \in stops, \A m \in stops : k <= m
      PROVE  {m \in DOMAIN a : \A j \in stops : m < j} = 0 .. (k - 1)
  <2>1. stops \subseteq 0 .. Size(up)
    BY <1>1 DEF stops
  <2>2. k \in 0 .. Size(up)
    BY <2>1
  <2>3. ASSUME NEW m \in 0 .. Size(up), \A j \in stops : m < j PROVE m \in 0 .. (k - 1)
    BY <2>2, <2>3, <1>1
  <2>4. ASSUME NEW m \in 0 .. (k - 1), NEW j \in stops PROVE m \in 0 .. Size(up) /\ m < j
    <3>1. k <= j /\ j \in 0 .. Size(up)
      BY <1>4, <2>1
    <3>2. QED
      BY <3>1, <2>2, <1>1
  <2>5. QED
    BY <2>3, <2>4, <1>1
<1>5. QED
  BY <1>2, <1>3, <1>4 DEF a

\* A walk adds what it has passed, and that is grounded when what was there is.
LEMMA WalkedGrounds ==
  ASSUME NEW up, Tree(up), NEW done, done \subseteq DOMAIN up, Grounded(up, done),
         NEW p \in DOMAIN up, Walked(up, done, p) # Nil
  PROVE  LET next == Walked(up, done, p) IN
           next \subseteq DOMAIN up /\ done \subseteq next /\ p \in next /\ Grounded(up, next)
<1> DEFINE a == Above(up, p)
           N == Size(up)
           stops == Stops(up, done, p)
<1>1. /\ N \in Nat /\ Nil \notin DOMAIN up
      /\ a \in [0 .. N -> DOMAIN up \cup {Nil}] /\ a[0] = p
      /\ \A k \in 1 .. N : a[k] = IF a[k - 1] = Nil THEN Nil ELSE up[a[k - 1]]
  BY AboveIs, TreeSize, NilIsNoPlace DEF Tree
<1>2. stops # {} /\ stops \subseteq 0 .. N
  BY WalkedIs DEF Stops
<1>3. PICK k \in stops : \A m \in stops : k <= m
  <2>1. stops \subseteq Nat
    BY <1>1, <1>2
  <2> HIDE DEF stops
  <2>2. QED
    BY <2>1, <1>2, LeastKey
<1>4. Walked(up, done, p) = done \cup {a[n] : n \in 0 .. (k - 1)}
  BY <1>3, WalkedIs
<1> DEFINE next == done \cup {a[n] : n \in 0 .. (k - 1)}
<1>5. k \in 0 .. N /\ a[k] \in done \cup {Nil} /\ \A n \in 0 .. (k - 1) : n \in 0 .. N /\ a[n] \notin done \cup {Nil}
  <2>1. k \in 0 .. N /\ a[k] \in done \cup {Nil}
    BY DEF Stops
  <2>2. ASSUME NEW n \in 0 .. (k - 1) PROVE n \in 0 .. N /\ a[n] \notin done \cup {Nil}
    <3>1. n \in 0 .. N /\ ~ (k <= n)
      BY <2>1, <1>1
    <3>2. n \notin stops
      BY <3>1, <1>3
    <3>3. QED
      BY <3>1, <3>2 DEF Stops
  <2>3. QED
    BY <2>1, <2>2
<1> HIDE DEF a, N, stops
<1>6. next \subseteq DOMAIN up
  BY <1>1, <1>5
<1>7. p \in next
  <2>1. CASE k = 0
    BY <2>1, <1>1, <1>5
  <2>2. CASE k # 0
    <3>1. 0 \in 0 .. (k - 1)
      BY <2>2, <1>5, <1>1
    <3>2. QED
      BY <3>1, <1>1
  <2>3. QED
    BY <2>1, <2>2
<1>8. PICK rank \in [done -> Nat] : Descends(up, done, rank)
  BY DEF Grounded
\* The rank of what was passed counts from the last time it was passed.
<1> DEFINE base == IF a[k] = Nil THEN 0 ELSE rank[a[k]]
           Times(x) == {m \in 1 .. k : a[k - m] = x}
           First(x) == CHOOSE m \in Times(x) : \A j \in Times(x) : m <= j
           r == [x \in next |-> IF x \in done THEN rank[x] ELSE base + First(x)]
<1>9. base \in Nat
  BY <1>5, <1>8
<1>10. ASSUME NEW x \in next, x \notin done
       PROVE  First(x) \in Times(x) /\ \A j \in Times(x) : First(x) <= j
  <2>1. PICK n \in 0 .. (k - 1) : x = a[n]
    BY <1>10
  <2>2. k - n \in 1 .. k /\ k - (k - n) = n
    BY <2>1, <1>5, <1>1
  <2>3. Times(x) # {} /\ Times(x) \subseteq Nat
    BY <2>1, <2>2, <1>5
  <2>4. \E m \in Times(x) : \A j \in Times(x) : m <= j
    <3> HIDE DEF Times
    <3>1. QED
      BY <2>3, LeastKey
  <2>5. QED
    BY <2>4
<1>11. r \in [next -> Nat]
  <2>1. ASSUME NEW x \in next, x \notin done PROVE First(x) \in Nat
    BY <1>10, <1>5, <2>1
  <2> HIDE DEF First, base
  <2>2. ASSUME NEW x \in next PROVE (IF x \in done THEN rank[x] ELSE base + First(x)) \in Nat
    <3> HIDE DEF next
    <3>1. CASE x \in done
      BY <3>1, <1>8
    <3>2. CASE x \notin done
      BY <3>2, <2>1, <1>9
    <3>3. QED
      BY <3>1, <3>2
  <2> HIDE DEF next
  <2>3. QED
    BY <2>2
<1>12. ASSUME NEW x \in next, up[x] # Nil
       PROVE  up[x] \in next /\ r[up[x]] < r[x]
  <2>1. CASE x \in done
    <3>1. up[x] \in done /\ rank[up[x]] < rank[x]
      BY <2>1, <1>12, <1>8 DEF Descends
    <3>2. QED
      BY <3>1, <2>1
  <2>2. CASE x \notin done
    <3> DEFINE m == First(x)
    <3>1. m \in 1 .. k /\ a[k - m] = x /\ r[x] = base + m
      <4>1. r[x] = base + First(x)
        BY <2>2
      <4> HIDE DEF First
      <4>2. First(x) \in Times(x)
        BY <1>10, <2>2
      <4>3. QED
        BY <4>1, <4>2
    <3>2. r[x] \in Nat
      BY <1>11
    <3> HIDE DEF m
    <3>8. m \in Nat /\ k - m \in 0 .. (k - 1) /\ k - m \in 0 .. N
      BY <3>1, <1>5, <1>1
    <3> HIDE DEF First
    <3>3. (k - m) + 1 \in 1 .. N /\ ((k - m) + 1) - 1 = k - m
      BY <3>1, <3>8, <1>5, <1>1
    <3>4. a[(k - m) + 1] = up[x] /\ x # Nil
      <4>1. x # Nil
        BY <1>6, <1>1
      <4>2. QED
        BY <4>1, <3>1, <3>3, <1>1
    <3>5. CASE m = 1
      <4>1. (k - m) + 1 = k
        BY <3>5, <3>8, <1>5
      <4>2. up[x] = a[k] /\ up[x] \in done
        BY <4>1, <3>4, <1>5, <1>12
      <4>3. r[up[x]] = base
        BY <4>2, <1>12
      <4>4. QED
        BY <4>2, <4>3, <3>1, <3>5, <1>9
    <3>6. CASE m # 1
      <4>1. m - 1 \in 1 .. k /\ k - (m - 1) = (k - m) + 1 /\ (k - m) + 1 \in 0 .. (k - 1)
        BY <3>1, <3>6, <1>5, <1>1
      <4>2. up[x] \in next /\ up[x] \notin done
        BY <4>1, <3>4, <1>5
      <4>3. m - 1 \in Times(up[x])
        BY <4>1, <3>4
      <4>4. First(up[x]) <= m - 1 /\ First(up[x]) \in 1 .. k
        BY <4>2, <4>3, <1>10
      <4>5. r[up[x]] = base + First(up[x])
        BY <4>2
      <4>6. QED
        <5> HIDE DEF r, base
        <5>1. QED
          BY <4>2, <4>4, <4>5, <3>1, <3>2, <3>8, <1>9
    <3>7. QED
      BY <3>5, <3>6
  <2>3. QED
    BY <2>1, <2>2
<1>13. Grounded(up, next)
  <2> HIDE DEF r
  <2>1. Descends(up, next, r)
    BY <1>12 DEF Descends
  <2>2. QED
    BY <2>1, <1>11 DEF Grounded
<1>14. QED
  BY <1>4, <1>6, <1>7, <1>13

\* A walk from what has a root arrives.
LEMMA WalkedArrives ==
  ASSUME NEW up, Tree(up), NEW done, done \subseteq DOMAIN up, NEW p \in DOMAIN up
  PROVE  /\ Walked(up, done, p) \in (SUBSET DOMAIN up) \cup {Nil}
         /\ Rooted(up, p) => Walked(up, done, p) # Nil
<1> DEFINE stops == Stops(up, done, p)
<1>1. DOMAIN Above(up, p) = 0 .. Size(up) /\ Size(up) \in Nat
      /\ Above(up, p) \in [0 .. Size(up) -> DOMAIN up \cup {Nil}]
  BY AboveIs, TreeSize
<1>2. Rooted(up, p) => stops # {}
  BY <1>1 DEF Rooted, Stops
<1>3. CASE stops = {}
  <2>1. Walked(up, done, p) = Nil
    BY <1>3, WalkedIs
  <2>2. QED
    BY <2>1, <1>2, <1>3
<1>4. CASE stops # {}
  <2>1. PICK k \in stops : \A m \in stops : k <= m
    <3>1. stops \subseteq Nat
      BY <1>1 DEF Stops
    <3> HIDE DEF stops
    <3>2. QED
      BY <3>1, <1>4, LeastKey
  <2>2. Walked(up, done, p) = done \cup {Above(up, p)[n] : n \in 0 .. (k - 1)}
    BY <2>1, WalkedIs
  <2>3. ASSUME NEW n \in 0 .. (k - 1) PROVE Above(up, p)[n] \in DOMAIN up
    <3>1. k \in 0 .. Size(up)
      BY DEF Stops
    <3>2. n \in 0 .. Size(up) /\ ~ (k <= n)
      BY <3>1, <1>1
    <3>3. n \notin stops
      BY <3>2, <2>1
    <3>4. Above(up, p)[n] # Nil
      BY <3>2, <3>3 DEF Stops
    <3>5. QED
      BY <3>2, <3>4, <1>1
  <2>4. Walked(up, done, p) \in SUBSET DOMAIN up
    BY <2>2, <2>3
  <2>5. Walked(up, done, p) # Nil
    BY <2>4, TransferConstants DEF Tree
  <2>6. QED
    BY <2>4, <2>5
<1>5. QED
  BY <1>3, <1>4

LEMMA FiniteIsBounded ==
  ASSUME NEW S, S \subseteq Nat, IsFiniteSet(S)
  PROVE  \E b \in Nat : \A x \in S : x <= b
<1> DEFINE Bounded(U) == \E b \in Nat : \A x \in U : x <= b
           T == {U \in FiniteSubsetsOf(Nat) : ~ Bounded(U)}
<1>1. SUFFICES ASSUME T # {} PROVE FALSE
  BY DEF FiniteSubsetsOf
<1>2. PICK U \in T : \A V \in T : <<V, U>> \notin StrictSubsetOrdering(Nat)
  <2>1. T \subseteq FiniteSubsetsOf(Nat)
    OBVIOUS
  <2> HIDE DEF T
  <2>2. QED
    BY <1>1, <2>1, FS_StrictSubsetOrderingWellFounded, WFMin
<1>3. U \subseteq Nat /\ IsFiniteSet(U) /\ ~ Bounded(U)
  BY DEF FiniteSubsetsOf
<1>4. PICK x \in U : TRUE
  <2>1. U # {}
    BY <1>3
  <2>2. QED
    BY <2>1
<1>5. U \ {x} \in FiniteSubsetsOf(Nat)
  BY <1>3, FS_RemoveElement DEF FiniteSubsetsOf
<1>6. <<U \ {x}, U>> \in StrictSubsetOrdering(Nat)
  BY <1>3, <1>4 DEF StrictSubsetOrdering
<1>7. PICK b \in Nat : \A y \in U \ {x} : y <= b
  BY <1>2, <1>5, <1>6
<1>8. \A y \in U : y <= b + x
  BY <1>3, <1>7
<1>9. b + x \in Nat
  BY <1>3
<1>10. QED
  BY <1>3, <1>8, <1>9

LEMMA LastPlaceIs == LastPlace \in Places /\ LastPlace \in Nat /\ \A q \in Places : q <= LastPlace
<1> DEFINE T == {b \in Nat : \A q \in Places : q <= b}
<1>1. Places \subseteq Nat /\ IsFiniteSet(Places) /\ Places # {} /\ 0 \notin Places
  BY TransferConstants
<1>2. T # {}
  BY <1>1, FiniteIsBounded
<1>3. PICK b \in T : \A c \in T : b <= c
  <2>1. T \subseteq Nat
    OBVIOUS
  <2> HIDE DEF T
  <2>2. QED
    BY <1>2, <2>1, LeastKey
<1>4. b \in Places
  <2>1. SUFFICES ASSUME b \notin Places PROVE FALSE
    OBVIOUS
  <2>2. \A q \in Places : q <= b - 1
    BY <1>1, <2>1
  <2>3. b - 1 \in Nat
    <3>1. PICK q \in Places : TRUE
      BY <1>1
    <3>2. q \in Nat /\ q # 0 /\ q <= b
      BY <1>1
    <3>3. QED
      BY <3>2
  <2>4. b - 1 \in T
    BY <2>2, <2>3
  <2>5. QED
    BY <1>3, <2>4
<1>5. \E p \in Places : \A q \in Places : q <= p
  BY <1>4
<1>6. QED
  BY <1>1, <1>5 DEF LastPlace

LEMMA WalksAre ==
  ASSUME NEW up, Tree(up)
  PROVE  /\ Walks(up) \in [0 .. LastPlace -> (SUBSET DOMAIN up) \cup {Nil}]
         /\ Walks(up)[0] = {}
         /\ \A p \in 1 .. LastPlace :
              Walks(up)[p] = IF p \notin DOMAIN up \/ Walks(up)[p - 1] = Nil THEN Walks(up)[p - 1]
                             ELSE Walked(up, Walks(up)[p - 1], p)
<1> DEFINE S == (SUBSET DOMAIN up) \cup {Nil}
           next == [e \in (1 .. LastPlace) \X S |->
                      IF e[1] \notin DOMAIN up \/ e[2] = Nil THEN e[2] ELSE Walked(up, e[2], e[1])]
           Is(f) == f = [p \in 0 .. LastPlace |->
                           IF p = 0 THEN {}
                           ELSE IF p \notin DOMAIN up \/ f[p - 1] = Nil THEN f[p - 1]
                           ELSE Walked(up, f[p - 1], p)]
           walks == CHOOSE f : Is(f)
<1>1. next \in [(1 .. LastPlace) \X S -> S]
  <2>1. ASSUME NEW p \in 1 .. LastPlace, NEW done \in S, p \in DOMAIN up, done # Nil
        PROVE  Walked(up, done, p) \in S
    BY <2>1, WalkedArrives
  <2>2. QED
    BY <2>1
<1>2. PICK f : Iterates(f, LastPlace, S, {}, next)
  <2> HIDE DEF next
  <2>1. LastPlace \in Nat /\ {} \in S
    BY LastPlaceIs
  <2> HIDE DEF S
  <2>2. QED
    BY <1>1, <2>1, Iteration
<1>3. ASSUME NEW p \in 1 .. LastPlace
      PROVE  /\ p - 1 \in 0 .. LastPlace /\ f[p - 1] \in S
             /\ f[p] = IF p \notin DOMAIN up \/ f[p - 1] = Nil THEN f[p - 1]
                       ELSE Walked(up, f[p - 1], p)
  <2>1. p - 1 \in 0 .. LastPlace
    BY LastPlaceIs
  <2>2. f[p - 1] \in S /\ f[p] = next[<<p, f[p - 1]>>]
    <3> HIDE DEF next, S
    <3>1. QED
      BY <2>1, <1>2 DEF Iterates
  <2>3. QED
    BY <2>1, <2>2
<1>4. f \in [0 .. LastPlace -> S] /\ f[0] = {}
  <2> HIDE DEF next, S
  <2>1. QED
    BY <1>2 DEF Iterates
<1>5. Is(f)
  <2>1. f = [p \in 0 .. LastPlace |-> f[p]]
    BY <1>4
  <2>2. ASSUME NEW p \in 0 .. LastPlace, p # 0 PROVE p \in 1 .. LastPlace
    BY <2>2, LastPlaceIs
  <2>3. QED
    BY <2>1, <2>2, <1>3, <1>4
<1>6. Is(walks)
  BY <1>5
<1>7. walks = Walks(up)
  BY DEF Walks
<1> HIDE DEF walks
<1>8. ASSUME NEW g, Is(g) PROVE g = f
  <2> DEFINE T == {p \in 0 .. LastPlace : g[p] # f[p]}
  <2>1. T = {}
    <3> SUFFICES ASSUME T # {} PROVE FALSE
      OBVIOUS
    <3>1. PICK p \in T : \A q \in T : p <= q
      <4>1. T \subseteq Nat
        BY LastPlaceIs
      <4> HIDE DEF T
      <4>2. QED
        BY <4>1, LeastKey
    <3>2. p \in 0 .. LastPlace /\ g[p] # f[p] /\ LastPlace \in Nat
      BY LastPlaceIs
    <3>3. p # 0
      <4>1. 0 \in 0 .. LastPlace /\ g[0] = {}
        BY <1>8, <3>2
      <4>2. QED
        BY <4>1, <3>2, <1>4
    <3>4. p \in 1 .. LastPlace /\ p - 1 \in 0 .. LastPlace /\ p - 1 \notin T
      BY <3>1, <3>2, <3>3
    <3>5. g[p] = IF p \notin DOMAIN up \/ g[p - 1] = Nil THEN g[p - 1] ELSE Walked(up, g[p - 1], p)
      BY <3>3, <3>2, <1>8
    <3>6. QED
      BY <3>2, <3>4, <3>5, <1>3
  <2>2. g = [p \in 0 .. LastPlace |-> g[p]]
    BY <1>8
  <2>3. f = [p \in 0 .. LastPlace |-> f[p]]
    BY <1>4
  <2>4. QED
    BY <2>1, <2>2, <2>3
<1>9. walks = f
  <2> HIDE DEF Is
  <2>1. QED
    BY <1>6, <1>8
<1>10. QED
  BY <1>3, <1>4, <1>7, <1>9

\* The walks arrive exactly when every place has a root.
LEMMA WalksArrive ==
  ASSUME NEW up, Tree(up)
  PROVE  Walks(up)[LastPlace] # Nil <=> \A p \in DOMAIN up : Rooted(up, p)
<1> DEFINE W == Walks(up)
           Far(k) == /\ W[k] \subseteq DOMAIN up /\ Grounded(up, W[k])
                     /\ \A p \in DOMAIN up : p <= k => p \in W[k]
<1>1. /\ W \in [0 .. LastPlace -> (SUBSET DOMAIN up) \cup {Nil}] /\ W[0] = {}
      /\ \A p \in 1 .. LastPlace :
           W[p] = IF p \notin DOMAIN up \/ W[p - 1] = Nil THEN W[p - 1] ELSE Walked(up, W[p - 1], p)
  BY WalksAre
<1>2. LastPlace \in Nat /\ DOMAIN up \subseteq 1 .. LastPlace /\ Nil \notin SUBSET DOMAIN up
  BY LastPlaceIs, TransferConstants DEF Tree
<1> HIDE DEF W
<1>3. ASSUME W[LastPlace] # Nil, NEW q \in DOMAIN up PROVE Rooted(up, q)
  <2> DEFINE T == {k \in 0 .. LastPlace : W[k] # Nil /\ ~ Far(k)}
  <2>1. T = {}
    <3> SUFFICES ASSUME T # {} PROVE FALSE
      OBVIOUS
    <3>1. PICK k \in T : \A j \in T : k <= j
      <4>1. T \subseteq Nat
        BY <1>2
      <4> HIDE DEF T
      <4>2. QED
        BY <4>1, LeastKey
    <3>2. k \in 0 .. LastPlace /\ W[k] # Nil /\ ~ Far(k)
      OBVIOUS
    <3>3. k # 0
      <4>1. Far(0)
        <5>1. Grounded(up, {})
          <6>1. [x \in {} |-> 0] \in [{} -> Nat] /\ Descends(up, {}, [x \in {} |-> 0])
            BY DEF Descends
          <6>2. QED
            BY <6>1 DEF Grounded
        <5>2. \A p \in DOMAIN up : ~ (p <= 0)
          BY <1>2
        <5>3. QED
          BY <5>1, <5>2, <1>1
      <4> HIDE DEF Far
      <4>2. QED
        BY <4>1, <3>2
    <3>4. k \in 1 .. LastPlace /\ k - 1 \in 0 .. LastPlace /\ k - 1 \notin T
      BY <3>1, <3>2, <3>3, <1>2
    <3>5. W[k] = IF k \notin DOMAIN up \/ W[k - 1] = Nil THEN W[k - 1] ELSE Walked(up, W[k - 1], k)
      BY <3>4, <1>1
    <3>6. W[k - 1] # Nil /\ Far(k - 1)
      BY <3>2, <3>4, <3>5
    <3>7. \A p \in DOMAIN up : p <= k => p <= k - 1 \/ p = k
      BY <1>2, <3>4
    <3>8. CASE k \notin DOMAIN up
      <4>1. W[k] = W[k - 1]
        BY <3>5, <3>8
      <4>2. Far(k)
        BY <4>1, <3>6, <3>7, <3>8
      <4>3. QED
        BY <4>2, <3>2
    <3>9. CASE k \in DOMAIN up
      <4>1. W[k] = Walked(up, W[k - 1], k)
        BY <3>5, <3>6, <3>9
      <4>2. W[k] \subseteq DOMAIN up /\ W[k - 1] \subseteq W[k] /\ k \in W[k] /\ Grounded(up, W[k])
        BY <4>1, <3>2, <3>6, <3>9, WalkedGrounds
      <4>3. Far(k)
        BY <4>2, <3>6, <3>7
      <4>4. QED
        BY <4>3, <3>2
    <3>10. QED
      BY <3>8, <3>9
  <2>2. Far(LastPlace)
    BY <2>1, <1>2, <1>3
  <2>3. q \in W[LastPlace]
    BY <2>2, <1>2
  <2>4. QED
    BY <2>2, <2>3, GroundedIsRooted
<1>4. ASSUME \A p \in DOMAIN up : Rooted(up, p) PROVE W[LastPlace] # Nil
  <2> DEFINE T == {k \in 0 .. LastPlace : W[k] = Nil}
  <2>1. T = {}
    <3> SUFFICES ASSUME T # {} PROVE FALSE
      OBVIOUS
    <3>1. PICK k \in T : \A j \in T : k <= j
      <4>1. T \subseteq Nat
        BY <1>2
      <4> HIDE DEF T
      <4>2. QED
        BY <4>1, LeastKey
    <3>2. k \in 0 .. LastPlace /\ W[k] = Nil
      OBVIOUS
    <3>3. k # 0
      <4>1. {} # Nil
        BY <1>2
      <4>2. QED
        BY <4>1, <3>2, <1>1
    <3>4. k \in 1 .. LastPlace /\ k - 1 \in 0 .. LastPlace /\ k - 1 \notin T
      BY <3>1, <3>2, <3>3, <1>2
    <3>5. W[k] = IF k \notin DOMAIN up \/ W[k - 1] = Nil THEN W[k - 1] ELSE Walked(up, W[k - 1], k)
      BY <3>4, <1>1
    <3>6. W[k - 1] # Nil
      BY <3>4
    <3>7. W[k - 1] \subseteq DOMAIN up
      BY <3>4, <3>6, <1>1
    <3>8. k \in DOMAIN up /\ Walked(up, W[k - 1], k) = Nil
      BY <3>2, <3>5, <3>6
    <3>9. QED
      BY <3>7, <3>8, <1>4, WalkedArrives
  <2>2. QED
    BY <2>1, <1>2
<1>5. QED
  BY <1>3, <1>4 DEF W

\* How far a place is below its root.
Height(up, p) == Cardinality({n \in 0 .. Size(up) : Above(up, p)[n] # Nil}) - 1

LEMMA HeightIs ==
  ASSUME NEW up, Tree(up), Grounded(up, DOMAIN up), NEW p \in DOMAIN up
  PROVE  /\ Height(up, p) \in 0 .. (Size(up) - 1)
         /\ \A n \in 0 .. Size(up) : Above(up, p)[n] # Nil <=> n <= Height(up, p)
<1> DEFINE a == Above(up, p)
           N == Size(up)
           Ends == {n \in 0 .. N : a[n] = Nil}
<1>1. /\ N \in Nat /\ Nil \notin DOMAIN up /\ a[0] = p
      /\ \A n \in 0 .. N : \A m \in 0 .. N : n <= m /\ a[n] = Nil => a[m] = Nil
  BY AboveIs, TreeSize, NilIsNoPlace, NilStaysNil DEF Tree
<1>2. a[N] = Nil
  BY GroundedIsRooted
<1> HIDE DEF a, N
<1>3. PICK e \in Ends : \A n \in Ends : e <= n
  <2>1. Ends # {} /\ Ends \subseteq Nat
    BY <1>1, <1>2
  <2> HIDE DEF Ends
  <2>2. QED
    BY <2>1, LeastKey
<1>4. e \in 0 .. N /\ a[e] = Nil /\ e # 0 /\ \A n \in 0 .. N : a[n] = Nil => e <= n
  BY <1>1, <1>3
<1>5. {n \in 0 .. N : a[n] # Nil} = 0 .. (e - 1)
  BY <1>1, <1>4
<1>6. Cardinality(0 .. (e - 1)) = e
  BY <1>4, FS_Interval
<1>7. Height(up, p) = e - 1
  BY <1>5, <1>6 DEF Height, a, N
<1>8. \A n \in 0 .. N : a[n] # Nil <=> n <= e - 1
  BY <1>1, <1>4
<1>9. QED
  BY <1>1, <1>4, <1>7, <1>8 DEF a, N

LEMMA HeightFalls ==
  ASSUME NEW up, Tree(up), Grounded(up, DOMAIN up), NEW p \in DOMAIN up
  PROVE  /\ up[p] = Nil => Height(up, p) = 0
         /\ up[p] # Nil => up[p] \in DOMAIN up /\ Height(up, p) = Height(up, up[p]) + 1
<1> DEFINE N == Size(up)
           h == Height(up, p)
<1>1. N \in Nat /\ h \in 0 .. (N - 1) /\ up[p] \in DOMAIN up \cup {Nil}
  BY TreeSize, HeightIs
<1>2. \A n \in 0 .. N : Above(up, p)[n] # Nil <=> n <= h
  BY HeightIs
<1>3. \A n \in 0 .. (N - 1) : Above(up, p)[n + 1] = Above(up, up[p])[n]
  BY AboveShifts
<1>4. Above(up, up[p])[0] = up[p]
  BY <1>1, AboveIs
<1>5. N >= 1
  BY <1>1
<1>6. Above(up, p)[1] = up[p]
  <2>1. 0 \in 0 .. (N - 1) /\ 0 + 1 = 1
    BY <1>1
  <2>2. QED
    BY <2>1, <1>3, <1>4
<1> HIDE DEF h, N
<1>7. CASE up[p] = Nil
  <2>1. ~ (1 <= h)
    BY <1>1, <1>2, <1>5, <1>6, <1>7
  <2>2. h = 0
    BY <2>1, <1>1
  <2>3. QED
    BY <2>2, <1>7 DEF h
<1>8. CASE up[p] # Nil
  <2>1. up[p] \in DOMAIN up
    BY <1>1, <1>8
  <2> DEFINE g == Height(up, up[p])
  <2>2. g \in 0 .. (N - 1) /\ \A n \in 0 .. N : Above(up, up[p])[n] # Nil <=> n <= g
    BY <2>1, HeightIs DEF N
  <2> HIDE DEF g
  <2>3. \A n \in 0 .. (N - 1) : n <= g <=> n + 1 <= h
    <3> SUFFICES ASSUME NEW n \in 0 .. (N - 1) PROVE n <= g <=> n + 1 <= h
      OBVIOUS
    <3>1. n \in 0 .. N /\ n + 1 \in 0 .. N
      BY <1>1
    <3>2. Above(up, p)[n + 1] = Above(up, up[p])[n]
      BY <1>3
    <3>3. QED
      BY <3>1, <3>2, <1>2, <2>2
  <2>4. g + 1 <= h
    BY <2>2, <2>3, <1>1
  <2>5. ~ (g + 1 < h)
    <3>1. SUFFICES ASSUME g + 1 < h PROVE FALSE
      OBVIOUS
    <3>2. g + 1 \in 0 .. (N - 1) /\ (g + 1) + 1 <= h /\ ~ (g + 1 <= g)
      BY <3>1, <2>2, <1>1
    <3>3. QED
      BY <3>2, <2>3
  <2>6. h = g + 1
    BY <2>2, <2>4, <2>5, <1>1
  <2>7. QED
    BY <2>1, <2>6, <1>8 DEF g, h
<1>9. QED
  BY <1>7, <1>8

-----------------------------------------------------------------------------
(* Hierarchies of documents *)

LEMMA RowsAreTree ==
  ASSUME NEW d, Rows(d)
  PROVE  /\ DOMAIN Parents(d) = DOMAIN d.places
         /\ \A p \in DOMAIN d.places : Parents(d)[p] = d.places[p].up
         /\ Linked(Parents(d)) => Tree(Parents(d))
<1>1. DOMAIN Parents(d) = DOMAIN d.places /\ \A p \in DOMAIN d.places : Parents(d)[p] = d.places[p].up
  BY DEF Parents
<1>2. \A p \in DOMAIN d.places : d.places[p].up \in Places \cup {Nil}
  BY DEF Rows, PlaceRow
<1>3. Parents(d) \in [DOMAIN Parents(d) -> Places \cup {Nil}]
  BY <1>2 DEF Parents
<1>4. QED
  BY <1>1, <1>3 DEF Rows, Tree

\* The two readers, and ranks, say the same of a hierarchy.
LEMMA HierarchyIs ==
  ASSUME NEW d, Rows(d)
  PROVE  /\ ValidHierarchy(d) <=>
              Linked(Parents(d)) /\ \A p \in DOMAIN Parents(d) : Rooted(Parents(d), p)
         /\ ValidHierarchy(d) <=>
              Linked(Parents(d)) /\ Grounded(Parents(d), DOMAIN d.places)
<1> DEFINE up == Parents(d)
<1>1. ValidHierarchy(d) <=> Linked(up) /\ Walks(up)[LastPlace] # Nil
  BY DEF ValidHierarchy
<1>2. Linked(up) => Tree(up)
  BY RowsAreTree
<1>3. DOMAIN up = DOMAIN d.places
  BY RowsAreTree
<1> HIDE DEF up
<1>4. Tree(up) => (Walks(up)[LastPlace] # Nil <=> \A p \in DOMAIN up : Rooted(up, p))
  BY WalksArrive
<1>5. Tree(up) /\ Grounded(up, DOMAIN up) => \A p \in DOMAIN up : Rooted(up, p)
  BY GroundedIsRooted
<1>6. Tree(up) /\ (\A p \in DOMAIN up : Rooted(up, p)) => Grounded(up, DOMAIN up)
  BY RootedIsGrounded
<1>7. QED
  BY <1>1, <1>2, <1>3, <1>4, <1>5, <1>6 DEF up

LEMMA ReadersAreOne ==
  ASSUME NEW doc, IsDocument(doc)
  PROVE  Valid(doc) <=> ValidWhole(doc)
  BY HierarchyIs DEF IsDocument, Valid, ValidWhole, ValidTree

LEMMA OverTyped ==
  ASSUME NEW f, NEW g, NEW S, \A x \in DOMAIN f : f[x] \in S, \A x \in DOMAIN g : g[x] \in S
  PROVE  Over(f, g) \in [DOMAIN Over(f, g) -> S]
  BY DEF Over

\* Where new places hang on old ones, or on new ones of a lower rank.
Hangs(f, places, r) ==
  \A x \in DOMAIN f : \/ f[x].up \in DOMAIN places \cup {Nil}
                      \/ f[x].up \in DOMAIN f /\ r[f[x].up] < r[x]

LEMMA NewPlacesHang ==
  ASSUME NEW d, Rows(d), ValidHierarchy(d),
         NEW f, DOMAIN f \cap DOMAIN d.places = {},
         NEW r \in [DOMAIN f -> Nat], Hangs(f, d.places, r),
         NEW e, Rows(e), e.places = Over(f, d.places)
  PROVE  ValidHierarchy(e)
<1> DEFINE old == Parents(d)
           new == Parents(e)
           N == Size(old)
<1>1. /\ DOMAIN old = DOMAIN d.places /\ \A p \in DOMAIN d.places : old[p] = d.places[p].up
      /\ Tree(old) /\ Grounded(old, DOMAIN old) /\ N \in Nat
  BY RowsAreTree, HierarchyIs, TreeSize
<1>2. /\ DOMAIN new = DOMAIN e.places /\ \A p \in DOMAIN e.places : new[p] = e.places[p].up
  BY RowsAreTree
<1>3. /\ DOMAIN e.places = DOMAIN f \cup DOMAIN d.places
      /\ \A x \in DOMAIN f : e.places[x] = f[x]
      /\ \A x \in DOMAIN d.places : e.places[x] = d.places[x] /\ x \notin DOMAIN f
  BY DEF Over
<1>4. \A p \in DOMAIN old : Height(old, p) \in 0 .. (N - 1)
  BY <1>1, HeightIs
<1>5. \A p \in DOMAIN old : old[p] = Nil \/ (old[p] \in DOMAIN old /\ Height(old, old[p]) < Height(old, p))
  <2> SUFFICES ASSUME NEW p \in DOMAIN old, old[p] # Nil
               PROVE  old[p] \in DOMAIN old /\ Height(old, old[p]) < Height(old, p)
    OBVIOUS
  <2>1. old[p] \in DOMAIN old /\ Height(old, p) = Height(old, old[p]) + 1
    BY <1>1, HeightFalls
  <2>2. Height(old, old[p]) \in Nat
    BY <2>1, <1>4
  <2>3. QED
    BY <2>1, <2>2
<1> DEFINE rank == [x \in DOMAIN e.places |-> IF x \in DOMAIN f THEN N + r[x] ELSE Height(old, x)]
<1> HIDE DEF old, new, N
<1>6. rank \in [DOMAIN e.places -> Nat]
  BY <1>1, <1>3, <1>4
<1>7. ASSUME NEW x \in DOMAIN e.places, new[x] # Nil
      PROVE  new[x] \in DOMAIN e.places /\ rank[new[x]] < rank[x]
  <2>1. CASE x \in DOMAIN f
    <3>1. new[x] = f[x].up /\ rank[x] = N + r[x] /\ r[x] \in Nat
      BY <2>1, <1>2, <1>3
    <3>2. CASE f[x].up \in DOMAIN d.places
      <4>1. rank[new[x]] = Height(old, new[x]) /\ Height(old, new[x]) \in 0 .. (N - 1)
        BY <3>1, <3>2, <1>1, <1>3, <1>4
      <4>2. QED
        BY <4>1, <3>1, <3>2, <1>1, <1>3
    <3>3. CASE f[x].up \in DOMAIN f /\ r[f[x].up] < r[x]
      <4>1. rank[new[x]] = N + r[f[x].up] /\ r[f[x].up] \in Nat
        BY <3>1, <3>3, <1>3
      <4>2. QED
        BY <4>1, <3>1, <3>3, <1>1, <1>3
    <3>4. QED
      BY <2>1, <3>1, <3>2, <3>3, <1>7 DEF Hangs
  <2>2. CASE x \in DOMAIN d.places
    <3>1. new[x] = old[x]
      BY <2>2, <1>1, <1>2, <1>3
    <3>2. old[x] \in DOMAIN d.places /\ Height(old, old[x]) < Height(old, x)
      BY <2>2, <3>1, <1>1, <1>5, <1>7
    <3>3. QED
      BY <2>2, <3>1, <3>2, <1>3
  <2>3. QED
    BY <2>1, <2>2, <1>3
<1>8. Grounded(new, DOMAIN e.places)
  <2> HIDE DEF rank
  <2>1. Descends(new, DOMAIN e.places, rank)
    BY <1>7 DEF Descends
  <2>2. QED
    BY <2>1, <1>6 DEF Grounded
<1>9. Linked(new)
  BY <1>2, <1>7 DEF Linked
<1>10. QED
  BY <1>8, <1>9, HierarchyIs DEF new

-----------------------------------------------------------------------------
(* What the application commits *)

DbOK(d) == Rows(d) /\ Valid(Document(V3, d))

LEMMA DbParts ==
  ASSUME NEW d
  PROVE  DbOK(d) <=> /\ Rows(d) /\ ValidSiblings(d) /\ ValidHierarchy(d)
                     /\ ValidItems(V3, d) /\ ValidEvents(d)
  BY DEF DbOK, Valid, Document

\* What the format says of a row of an item.
TrueRow(item) ==
  /\ item.state \in {"active", "removed"}
  /\ (item.status = "known") = (item.place # Nil)
  /\ (item.state = "removed") = (item.status = "not_applicable")
  /\ QuantityIsTrue(item) /\ (item.state = "removed") = (item.reason # Nil)

LEMMA ValidItemIs ==
  ASSUME NEW d, NEW item \in ItemRow
  PROVE  ValidItem(V3, d, item) <=> TrueRow(item) /\ item.place \in DOMAIN d.places \cup {Nil}
<1>1. item.state \in States /\ V3 # V1
  BY DEF ItemRow, V1, V3
<1>2. QED
  BY <1>1 DEF ValidItem, TrueRow, StatusIn, States

LEMMA MorePlaces ==
  ASSUME NEW d, DbOK(d), NEW p \in Places \ DOMAIN d.places,
         NEW u \in DOMAIN d.places \cup {Nil}, NEW n \in PlaceNames,
         NEW e, e = PutPlace(d, p, [up |-> u, name |-> n]),
         ValidSiblings(e)
  PROVE  DbOK(e)
<1> DEFINE f == [q \in {p} |-> [up |-> u, name |-> n]]
<1>1. Rows(d) /\ ValidHierarchy(d) /\ ValidItems(V3, d) /\ ValidEvents(d)
  BY DbParts
<1>2. e.places = Over(f, d.places) /\ e.items = d.items /\ e.events = d.events
      /\ e = [places |-> e.places, items |-> e.items, events |-> e.events]
  <2>1. d = [places |-> d.places, items |-> d.items, events |-> d.events]
    BY <1>1 DEF Rows
  <2> HIDE DEF f
  <2>2. e = [d EXCEPT !.places = Over(f, d.places)]
    BY DEF f, PutPlace
  <2>3. QED
    BY <2>1, <2>2
<1>3. DOMAIN f = {p} /\ f[p] = [up |-> u, name |-> n] /\ f[p] \in PlaceRow
  BY <1>1 DEF PlaceRow, Rows
<1> HIDE DEF f
<1>4. DOMAIN e.places = {p} \cup DOMAIN d.places
  BY <1>2, <1>3 DEF Over
<1>5. e.places \in [DOMAIN e.places -> PlaceRow]
  <2>1. \A x \in DOMAIN f : f[x] \in PlaceRow
    BY <1>3
  <2>2. \A x \in DOMAIN d.places : d.places[x] \in PlaceRow
    BY <1>1 DEF Rows
  <2>3. QED
    BY <2>1, <2>2, <1>2, OverTyped
<1>6. Rows(e)
  BY <1>1, <1>2, <1>4, <1>5 DEF Rows
<1>7. ValidHierarchy(e)
  <2> DEFINE r == [x \in {p} |-> 0]
  <2>1. r \in [DOMAIN f -> Nat]
    BY <1>3
  <2>2. Hangs(f, d.places, r)
    BY <1>3 DEF Hangs
  <2>3. DOMAIN f \cap DOMAIN d.places = {}
    BY <1>3
  <2> HIDE DEF r
  <2>4. QED
    BY <1>1, <1>2, <1>6, <2>1, <2>2, <2>3, NewPlacesHang
<1>8. ValidItems(V3, e)
  BY <1>1, <1>2, <1>4 DEF ValidItems, ValidItem
<1>9. ValidEvents(e)
  BY <1>1, <1>2, <1>4 DEF ValidEvents
<1>10. QED
  BY <1>6, <1>7, <1>8, <1>9, DbParts

LEMMA LogsAndPuts ==
  ASSUME NEW d, DbOK(d), NEW i \in Items, NEW row \in ItemRow, TrueRow(row),
         row.place \in DOMAIN d.places \cup {Nil}, NEW p \in DOMAIN d.places \cup {Nil},
         NEW e, e = Log(Put(d, i, row), i, p)
  PROVE  DbOK(e)
<1> DEFINE f == [j \in {i} |-> row]
<1>1. Rows(d) /\ ValidSiblings(d) /\ ValidHierarchy(d) /\ ValidItems(V3, d) /\ ValidEvents(d)
  BY DbParts
<1>2. DOMAIN f = {i} /\ f[i] = row
  OBVIOUS
<1>3. Put(d, i, row) = [d EXCEPT !.items = Over(f, d.items)]
  BY DEF Put
<1> HIDE DEF f
<1>4. /\ e.places = d.places /\ e.items = Over(f, d.items)
      /\ e.events = d.events \cup {[item |-> i, place |-> p]}
      /\ e = [places |-> e.places, items |-> e.items, events |-> e.events]
  <2>1. d = [places |-> d.places, items |-> d.items, events |-> d.events]
    BY <1>1 DEF Rows
  <2>2. PICK g : g = Put(d, i, row)
    OBVIOUS
  <2>3. g = [places |-> d.places, items |-> Over(f, d.items), events |-> d.events]
    BY <2>1, <2>2, <1>3
  <2>4. e = [g EXCEPT !.events = g.events \cup {[item |-> i, place |-> p]}]
    BY <2>2 DEF Log
  <2>5. QED
    BY <2>3, <2>4
<1>5. DOMAIN e.items = {i} \cup DOMAIN d.items
  BY <1>2, <1>4 DEF Over
<1>6. e.items \in [DOMAIN e.items -> ItemRow]
  <2>1. \A x \in DOMAIN f : f[x] \in ItemRow
    BY <1>2
  <2>2. \A x \in DOMAIN d.items : d.items[x] \in ItemRow
    BY <1>1 DEF Rows
  <2>3. QED
    BY <2>1, <2>2, <1>4, OverTyped
<1>7. Rows(e)
  <2>1. [item |-> i, place |-> p] \in EventRow
    BY <1>1 DEF Rows, EventRow
  <2>2. QED
    BY <2>1, <1>1, <1>4, <1>5, <1>6 DEF Rows
<1>8. ValidItems(V3, e)
  <2> SUFFICES ASSUME NEW j \in DOMAIN e.items PROVE ValidItem(V3, e, e.items[j])
    BY DEF ValidItems
  <2>1. CASE j = i
    <3>1. e.items[j] = row
      BY <2>1, <1>2, <1>4 DEF Over
    <3>2. QED
      BY <3>1, <1>4, ValidItemIs
  <2>2. CASE j # i
    <3>1. e.items[j] = d.items[j] /\ j \in DOMAIN d.items
      BY <2>2, <1>2, <1>4, <1>5 DEF Over
    <3>2. ValidItem(V3, d, d.items[j])
      BY <3>1, <1>1 DEF ValidItems
    <3>3. QED
      BY <3>1, <3>2, <1>4 DEF ValidItem
  <2>3. QED
    BY <2>1, <2>2
<1>9. ValidEvents(e)
  BY <1>1, <1>4, <1>5 DEF ValidEvents
<1>10. ValidSiblings(e)
  BY <1>1, <1>4 DEF ValidSiblings
<1>11. ValidHierarchy(e)
  BY <1>1, <1>4 DEF ValidHierarchy, Parents
<1>12. QED
  BY <1>7, <1>8, <1>9, <1>10, <1>11, DbParts

LEMMA ChangesAreGood ==
  ASSUME NEW d, DbOK(d), NEW e \in Changes(d), ValidSiblings(e)
  PROVE  DbOK(e)
<1>1. Rows(d) /\ ValidItems(V3, d) /\ DOMAIN d.places \subseteq Places /\ DOMAIN d.items \subseteq Items
  BY DbParts DEF Rows
<1>2. ASSUME NEW i \in DOMAIN d.items
      PROVE  d.items[i] \in ItemRow /\ TrueRow(d.items[i]) /\ d.items[i].place \in DOMAIN d.places \cup {Nil}
  BY <1>1, ValidItemIs DEF Rows, ValidItems
<1>3. CASE \E p \in Places \ DOMAIN d.places, u \in DOMAIN d.places \cup {Nil}, n \in PlaceNames :
             e = PutPlace(d, p, [up |-> u, name |-> n])
  BY <1>3, MorePlaces
<1>4. CASE \E i \in Items \ DOMAIN d.items, p \in DOMAIN d.places \cup {Nil} :
             e = Log(Put(d, i, Lot(p)), i, p)
  <2>1. PICK i \in Items \ DOMAIN d.items, p \in DOMAIN d.places \cup {Nil} :
             e = Log(Put(d, i, Lot(p)), i, p)
    BY <1>4
  <2>2. Lot(p) \in ItemRow /\ TrueRow(Lot(p)) /\ Lot(p).place = p
    BY <1>1, TransferConstants DEF Lot, ItemRow, TrueRow, States, Statuses, QuantityIsTrue
  <2>3. QED
    BY <2>1, <2>2, LogsAndPuts
<1>5. CASE \E i \in {j \in DOMAIN d.items : d.items[j].state = "active"}, p \in DOMAIN d.places :
             e = Log(Put(d, i, Moved(d.items[i], p)), i, p)
  <2>1. PICK i \in DOMAIN d.items, p \in DOMAIN d.places :
             /\ d.items[i].state = "active"
             /\ e = Log(Put(d, i, Moved(d.items[i], p)), i, p)
    BY <1>5
  <2>2. PICK row \in ItemRow : row = d.items[i] /\ TrueRow(row) /\ row.state = "active"
    BY <1>2, <2>1
  <2>3. PICK new : new = Moved(row, p)
    OBVIOUS
  <2>6. p \in Places /\ p # Nil
    BY <1>1, TransferConstants
  <2>7. new = [state |-> row.state, place |-> p, status |-> "known",
               mode |-> row.mode, quantity |-> row.quantity, reason |-> row.reason]
    BY <2>2, <2>3 DEF Moved, ItemRow
  <2>8. new \in ItemRow
    BY <2>2, <2>6, <2>7 DEF ItemRow, Statuses
  <2>4. new \in ItemRow /\ TrueRow(new) /\ new.place = p
    BY <2>2, <2>6, <2>7, <2>8 DEF TrueRow, QuantityIsTrue
  <2>5. QED
    BY <2>1, <2>2, <2>3, <2>4, <1>1, LogsAndPuts
<1>6. CASE \E i \in {j \in DOMAIN d.items : d.items[j].state = "active"} :
             e = Log(Put(d, i, Removed(d.items[i], "lost")), i, Nil)
  <2>1. PICK i \in DOMAIN d.items :
             d.items[i].state = "active" /\ e = Log(Put(d, i, Removed(d.items[i], "lost")), i, Nil)
    BY <1>6
  <2>2. PICK row \in ItemRow : row = d.items[i] /\ TrueRow(row) /\ row.state = "active"
    BY <1>2, <2>1
  <2>3. PICK new : new = Removed(row, "lost")
    OBVIOUS
  <2>4. new \in ItemRow /\ TrueRow(new) /\ new.place = Nil
    BY <2>2, <2>3, TransferConstants DEF Removed, ItemRow, TrueRow, States, Statuses, QuantityIsTrue, Reasons
  <2>5. QED
    BY <2>1, <2>2, <2>3, <2>4, <1>1, LogsAndPuts
<1>7. CASE \E i \in {j \in DOMAIN d.items : d.items[j].state = "active"} :
             e = Log(Put(d, i, Uncounted(d.items[i])), i, Nil)
  <2>1. PICK i \in DOMAIN d.items :
             /\ d.items[i].state = "active"
             /\ e = Log(Put(d, i, Uncounted(d.items[i])), i, Nil)
    BY <1>7
  <2>2. PICK row \in ItemRow : /\ row = d.items[i] /\ TrueRow(row) /\ row.state = "active"
                               /\ row.place \in DOMAIN d.places \cup {Nil}
    BY <1>2, <2>1
  <2>3. PICK new : new = Uncounted(row)
    OBVIOUS
  <2>4. new \in ItemRow /\ TrueRow(new) /\ new.place = row.place
    BY <2>2, <2>3, TransferConstants DEF Uncounted, ItemRow, TrueRow, States, Statuses, QuantityIsTrue
  <2>5. QED
    BY <2>1, <2>2, <2>3, <2>4, <1>1, LogsAndPuts
<1>8. QED
  BY <1>3, <1>4, <1>5, <1>6, <1>7 DEF Changes

-----------------------------------------------------------------------------
(* What a bootstrap commits *)

\* The paths of a manifest: none is empty, and every parent is there.
LEMMA PathsAre ==
  ASSUME NEW m, IsManifest(m), ValidManifest(m), NEW path \in Range(m.paths)
  PROVE  /\ path \in Seq(PlaceNames) /\ path # << >> /\ Len(path) \in Nat /\ Len(path) >= 1
         /\ Last(path) \in PlaceNames /\ Front(path) \in Seq(PlaceNames)
         /\ Len(Front(path)) = Len(path) - 1
         /\ Len(path) > 1 => Front(path) \in Range(m.paths)
<1>1. PICK k \in DOMAIN m.paths : path = m.paths[k]
  BY DEF Range
<1>2. path \in Seq(PlaceNames)
  BY <1>1 DEF IsManifest
<1>3. path # << >> /\ (Len(path) > 1 => Front(path) \in Range(m.paths))
  BY <1>1 DEF ValidManifest, ValidPaths
<1>4. Len(path) \in Nat /\ Len(path) >= 1
  BY <1>2, <1>3
<1>5. Last(path) \in PlaceNames
  BY <1>2, <1>4 DEF Last
<1>6. Front(path) \in Seq(PlaceNames) /\ Len(Front(path)) = Len(path) - 1
  <2>1. PICK n \in Nat : n = Len(path) - 1
    BY <1>4
  <2>2. Front(path) = SubSeq(path, 1, n) /\ 1 \in Int /\ n <= Len(path)
    BY <2>1, <1>4 DEF Front
  <2>3. SubSeq(path, 1, n) \in Seq(PlaceNames) /\ Len(SubSeq(path, 1, n)) = n
    BY <2>1, <1>2, <1>4
  <2>4. QED
    BY <2>1, <2>2, <2>3
<1>7. QED
  BY <1>2, <1>3, <1>4, <1>5, <1>6

LEMMA PlantedIs ==
  ASSUME NEW P, NEW Q, NEW at \in Injection(P, Q)
  PROVE  /\ DOMAIN at = P /\ DOMAIN Planted(at) = Range(at) /\ Range(at) \subseteq Q
         /\ \A x \in Range(at) : \E path \in P : x = at[path]
  BY DEF Injection, IsInjective, Range, Planted

LEMMA PlantedAt ==
  ASSUME NEW P, NEW Q, NEW at \in Injection(P, Q), NEW path \in P
  PROVE  /\ at[path] \in Range(at) /\ at[path] \in Q
         /\ Planted(at)[at[path]] =
              [up |-> IF Front(path) \in P THEN at[Front(path)] ELSE Nil, name |-> Last(path)]
<1>1. at \in [P -> Q] /\ \A a \in P : \A b \in P : at[a] = at[b] => a = b
  BY DEF Injection, IsInjective
<1>2. DOMAIN at = P /\ at[path] \in Range(at) /\ at[path] \in Q
  BY <1>1 DEF Range
<1>3. (CHOOSE q \in DOMAIN at : at[q] = at[path]) = path
  BY <1>1, <1>2
<1>4. QED
  BY <1>2, <1>3 DEF Planted

LEMMA PlantedRows ==
  ASSUME NEW m, IsManifest(m), ValidManifest(m), NEW Q, Q \subseteq Places,
         NEW at \in Injection(Range(m.paths), Q), NEW x \in Range(at)
  PROVE  Planted(at)[x] \in PlaceRow
<1>1. PICK path \in Range(m.paths) : x = at[path]
  BY PlantedIs
<1>2. Planted(at)[x] = [up |-> IF Front(path) \in Range(m.paths) THEN at[Front(path)] ELSE Nil, name |-> Last(path)]
  BY <1>1, PlantedAt
<1>3. Last(path) \in PlaceNames
  BY PathsAre
<1>4. Front(path) \in Range(m.paths) => at[Front(path)] \in Places
  BY PlantedAt
<1>5. QED
  BY <1>2, <1>3, <1>4 DEF PlaceRow

LEMMA PlantedHang ==
  ASSUME NEW m, IsManifest(m), ValidManifest(m), NEW Q, NEW places,
         NEW at \in Injection(Range(m.paths), Q)
  PROVE  \E r \in [Range(at) -> Nat] : Hangs(Planted(at), places, r)
<1> DEFINE P == Range(m.paths)
           r == [x \in Range(at) |-> Len(CHOOSE q \in P : at[q] = x)]
<1>1. \A a \in P : \A b \in P : at[a] = at[b] => a = b
  BY DEF Injection, IsInjective
<1>2. \A path \in P : Len(path) \in Nat
  BY PathsAre
<1>3. \A x \in Range(at) : \E path \in P : x = at[path]
  BY PlantedIs
<1>4. ASSUME NEW path \in P PROVE r[at[path]] = Len(path)
  <2>1. at[path] \in Range(at)
    BY PlantedAt
  <2>2. (CHOOSE q \in P : at[q] = at[path]) = path
    BY <1>1
  <2>3. QED
    BY <2>1, <2>2
<1>5. r \in [Range(at) -> Nat]
  BY <1>2, <1>3, <1>4
<1> HIDE DEF r
<1>6. ASSUME NEW x \in Range(at)
      PROVE  \/ Planted(at)[x].up = Nil
             \/ Planted(at)[x].up \in Range(at) /\ r[Planted(at)[x].up] < r[x]
  <2>1. PICK path \in P : x = at[path]
    BY <1>3
  <2>2. Planted(at)[x] = [up |-> IF Front(path) \in P THEN at[Front(path)] ELSE Nil, name |-> Last(path)]
    BY <2>1, PlantedAt
  <2>3. Len(Front(path)) = Len(path) - 1 /\ Len(path) \in Nat
    BY PathsAre
  <2>4. CASE Front(path) \in P
    <3>1. Planted(at)[x].up = at[Front(path)] /\ at[Front(path)] \in Range(at)
      <4>1. at[Front(path)] \in Range(at)
        <5>1. PICK q \in P : q = Front(path)
          BY <2>4
        <5>2. at[q] \in Range(at)
          BY PlantedAt
        <5>3. QED
          BY <5>1, <5>2
      <4>2. QED
        BY <4>1, <2>2, <2>4
    <3>2. r[at[Front(path)]] = Len(path) - 1 /\ r[x] = Len(path)
      BY <1>4, <2>1, <2>3, <2>4
    <3>3. QED
      BY <3>1, <3>2, <2>3
  <2>5. CASE Front(path) \notin P
    BY <2>2, <2>5
  <2>6. QED
    BY <2>4, <2>5
<1>7. Hangs(Planted(at), places, r)
  <2>1. DOMAIN Planted(at) = Range(at)
    BY PlantedIs
  <2>2. QED
    BY <2>1, <1>6 DEF Hangs
<1>8. QED
  BY <1>5, <1>7

\* The row of an entry is true, where its path has led.
LEMMA BootstrapItemIs ==
  ASSUME NEW m, IsManifest(m), ValidManifest(m), NEW k \in DOMAIN m.items,
         NEW Q, Q \subseteq Places, NEW at \in Injection(Range(m.paths), Q),
         NEW result, result = BootstrapItem(m.items[k], at),
         NEW place, place = IF m.items[k].path = Nil THEN Nil ELSE at[m.items[k].path]
  PROVE  /\ result \in ItemRow /\ TrueRow(result)
         /\ result.place = place
         /\ result.place \in Range(at) \cup {Nil}
         /\ result.state = m.items[k].state /\ result.mode = m.items[k].mode
         /\ result.quantity = m.items[k].quantity /\ result.reason = m.items[k].reason
<1>1. PICK e \in Entry : e = m.items[k]
  BY DEF IsManifest
<1>2. /\ e.state \in {"active", "removed"} /\ QuantityIsTrue(e)
      /\ (e.state = "removed") = (e.reason # Nil) /\ (e.state = "removed" => e.path = Nil)
      /\ (e.path # Nil => e.path \in Range(m.paths))
  BY <1>1 DEF ValidManifest, ValidEntry, Entry, States
<1> DEFINE p == IF e.path = Nil THEN Nil ELSE at[e.path]
<1>3. p \in Range(at) \cup {Nil} /\ p \in Places \cup {Nil} /\ (p = Nil <=> e.path = Nil)
  <2>1. e.path # Nil => at[e.path] \in Range(at) /\ at[e.path] \in Places
    <3>1. ASSUME NEW path \in Range(m.paths) PROVE at[path] \in Range(at) /\ at[path] \in Places
      BY PlantedAt
    <3>2. QED
      BY <1>2, <3>1
  <2>2. QED
    BY <2>1, TransferConstants
<1> HIDE DEF p
<1>4. PICK q \in Places \cup {Nil} : q = p
  BY <1>3
<1>5. PICK lot : lot = Lot(q)
  OBVIOUS
<1>6. /\ lot = [state |-> "active", place |-> q, status |-> IF q = Nil THEN "unknown" ELSE "known",
                mode |-> "exact", quantity |-> 1, reason |-> Nil]
  BY <1>5 DEF Lot
<1>7. PICK row : row = [lot EXCEPT !.mode = e.mode, !.quantity = e.quantity]
  OBVIOUS
<1>8. row = [state |-> "active", place |-> q, status |-> IF q = Nil THEN "unknown" ELSE "known",
             mode |-> e.mode, quantity |-> e.quantity, reason |-> Nil]
  BY <1>6, <1>7
<1>9. e.mode \in {"exact", "unknown"} /\ e.quantity \in {1, Nil} /\ e.reason \in Reasons \cup {Nil}
  BY DEF Entry
<1>10. CASE e.state = "removed"
  <2>1. PICK gone : gone = Removed(row, e.reason)
    OBVIOUS
  <2>2. gone = [state |-> "removed", place |-> Nil, status |-> "not_applicable",
                mode |-> e.mode, quantity |-> e.quantity, reason |-> e.reason]
    BY <2>1, <1>8 DEF Removed
  <2>3. BootstrapItem(e, at) = gone
    BY <2>1, <1>4, <1>5, <1>7, <1>10 DEF BootstrapItem, p
  <2>4. gone \in ItemRow
    BY <2>2, <1>9 DEF ItemRow, States, Statuses
  <2>5. TrueRow(gone)
    BY <2>2, <1>2, <1>10 DEF TrueRow, QuantityIsTrue
  <2>6. QED
    BY <2>2, <2>3, <2>4, <2>5, <1>1, <1>2, <1>10
<1>11. CASE e.state = "active"
  <2>1. PICK there : there = [row EXCEPT !.state = e.state]
    OBVIOUS
  <2>2. there = [state |-> "active", place |-> q, status |-> IF q = Nil THEN "unknown" ELSE "known",
                 mode |-> e.mode, quantity |-> e.quantity, reason |-> Nil]
    BY <2>1, <1>8, <1>11
  <2>3. BootstrapItem(e, at) = there
    BY <2>1, <1>4, <1>5, <1>7, <1>11 DEF BootstrapItem, p
  <2>4. there \in ItemRow
    BY <2>2, <1>9 DEF ItemRow, States, Statuses
  <2>5. TrueRow(there)
    BY <2>2, <1>2, <1>11 DEF TrueRow, QuantityIsTrue
  <2>6. there.place = q /\ q \in Range(at) \cup {Nil} /\ q = IF e.path = Nil THEN Nil ELSE at[e.path]
    BY <2>2, <1>3, <1>4 DEF p
  <2>7. QED
    BY <2>2, <2>3, <2>4, <2>5, <2>6, <1>1, <1>2, <1>11
<1>12. QED
  BY <1>2, <1>10, <1>11

\* What of a listed item its stored row repeats.
LEMMA BootstrapItemKeeps ==
  ASSUME NEW m, IsManifest(m), ValidManifest(m), NEW k \in DOMAIN m.items,
         NEW Q, Q \subseteq Places, NEW at \in Injection(Range(m.paths), Q),
         NEW result, result = BootstrapItem(m.items[k], at)
  PROVE  /\ result.state = m.items[k].state /\ result.mode = m.items[k].mode
         /\ result.quantity = m.items[k].quantity /\ result.reason = m.items[k].reason
<1>1. PICK place : place = IF m.items[k].path = Nil THEN Nil ELSE at[m.items[k].path]
  OBVIOUS
<1>2. QED
  BY <1>1, BootstrapItemIs, SMTT(30)

\* A bootstrap as one operator: e is d filled with m.
Fills(e, d, m, at, key) ==
  e = [places |-> Over(Planted(at), d.places), items |-> Over(Stocked(m, at, key), d.items),
    events |-> d.events \cup Entered(m, at, key)]

LEMMA FilledIs ==
  ASSUME NEW d, NEW m
  PROVE  \A e : e \in Filled(d, m) <=> 
           \E at \in Injection(Range(m.paths), Places \ DOMAIN d.places),
              key \in Injection(DOMAIN m.items, Items \ DOMAIN d.items) : Fills(e, d, m, at, key)
  BY DEF Filled, Fills

LEMMA InjectionIs ==
  ASSUME NEW S, NEW T, NEW h \in Injection(S, T)
  PROVE  /\ h \in [S -> T] /\ DOMAIN h = S /\ Range(h) \subseteq T
         /\ \A x \in Range(h) : \E k \in S : x = h[k]
         /\ \A k \in S : h[k] \in Range(h) /\ h[k] \in T
         /\ \A k \in S : \A j \in S : h[j] = h[k] => j = k
  BY DEF Injection, IsInjective, Range

LEMMA StockedAt ==
  ASSUME NEW m, NEW at, NEW h, NEW k \in DOMAIN h, \A j \in DOMAIN h : h[j] = h[k] => j = k,
         NEW row, row = BootstrapItem(m.items[k], at)
  PROVE  Stocked(m, at, h)[h[k]] = row
<1>1. h[k] \in Range(h)
  BY DEF Range
<1>2. (CHOOSE j \in DOMAIN h : h[j] = h[k]) = k
  OBVIOUS
<1>3. QED
  BY <1>1, <1>2 DEF Stocked

LEMMA FilledIsGood ==
  ASSUME NEW d, DbOK(d), NEW m, IsManifest(m), ValidManifest(m),
         NEW Q, Q \subseteq Places, Q \cap DOMAIN d.places = {},
         NEW R, R \subseteq Items, R \cap DOMAIN d.items = {},
         NEW at \in Injection(Range(m.paths), Q),
         NEW S, S \subseteq DOMAIN m.items, NEW key \in Injection(S, R),
         NEW e, Fills(e, d, m, at, key), ValidSiblings(e)
  PROVE  DbOK(e)
<1> DEFINE f == Planted(at)
           g == Stocked(m, at, key)
<1>1. Rows(d) /\ ValidHierarchy(d) /\ ValidItems(V3, d) /\ ValidEvents(d)
  BY DbParts
<1>2. Q \subseteq Places /\ R \subseteq Items
  OBVIOUS
<1>3. DOMAIN f = Range(at) /\ Range(at) \subseteq Q /\ DOMAIN g = Range(key) /\ Range(key) \subseteq R
  <2>1. DOMAIN f = Range(at) /\ Range(at) \subseteq Q
    BY PlantedIs
  <2>2. DOMAIN g = Range(key)
    BY DEF Stocked
  <2>3. Range(key) \subseteq R
    BY InjectionIs
  <2>4. QED
    BY <2>1, <2>2, <2>3
<1>4. \A x \in DOMAIN f : f[x] \in PlaceRow
  BY <1>2, <1>3, PlantedRows
<1>d. f = Planted(at) /\ g = Stocked(m, at, key)
  OBVIOUS
<1> HIDE DEF f, g
<1>b. \A k \in S : key[k] \in Range(key) /\ \A j \in S : key[j] = key[k] => j = k
  BY InjectionIs
<1>c. DOMAIN key = S
  BY InjectionIs
<1>a. \A x \in Range(key) : \E k \in S : x = key[k]
  BY <1>c DEF Range
<1>5. ASSUME NEW i \in DOMAIN g
      PROVE  g[i] \in ItemRow /\ TrueRow(g[i]) /\ g[i].place \in Range(at) \cup {Nil}
  <2>1. PICK k \in S : i = key[k]
    <3>1. i \in Range(key)
      BY <1>3
    <3>2. QED
      BY <3>1, <1>a
  <2>2. PICK row : row = BootstrapItem(m.items[k], at)
    OBVIOUS
  <2>5. g[i] = row
    <3>1. k \in DOMAIN key /\ \A j \in DOMAIN key : key[j] = key[k] => j = k
      BY <1>b, <1>c
    <3>2. Stocked(m, at, key)[key[k]] = row
      BY <3>1, <2>2, StockedAt
    <3>3. QED
      BY <3>2, <1>d, <2>1
  <2>6. PICK place : place = IF m.items[k].path = Nil THEN Nil ELSE at[m.items[k].path]
    OBVIOUS
  <2>3. row \in ItemRow /\ TrueRow(row) /\ row.place \in Range(at) \cup {Nil}
    BY <2>2, <2>6, <1>2, BootstrapItemIs
  <2>4. QED
    BY <2>5, <2>3
<1>6. ASSUME NEW v \in Entered(m, at, key)
      PROVE  v.item \in Range(key) /\ v.place \in Range(at) \cup {Nil} /\ v = [item |-> v.item, place |-> v.place]
  <2>1. PICK k \in DOMAIN key :
          v = [item |-> key[k], place |-> IF m.items[k].path = Nil THEN Nil ELSE at[m.items[k].path]]
    BY DEF Entered
  <2>2. k \in S
    BY <2>1, <1>c
  <2>3. key[k] \in Range(key)
    BY <2>2, <1>b
  <2>4. (IF m.items[k].path = Nil THEN Nil ELSE at[m.items[k].path]) \in Range(at) \cup {Nil}
    <3>1. m.items[k].path # Nil => m.items[k].path \in Range(m.paths)
      BY <2>2 DEF ValidManifest, ValidEntry
    <3>2. \A path \in Range(m.paths) : at[path] \in Range(at)
      BY PlantedAt
    <3>3. QED
      BY <3>1, <3>2
  <2>5. QED
    BY <2>1, <2>3, <2>4
<1>7. PICK r \in [DOMAIN f -> Nat] : Hangs(f, d.places, r)
  BY <1>d, <1>3, PlantedHang
<1>8. /\ e.places = Over(f, d.places) /\ e.items = Over(g, d.items)
      /\ e.events = d.events \cup Entered(m, at, key)
      /\ e = [places |-> e.places, items |-> e.items, events |-> e.events]
  BY <1>d DEF Fills
<1>9. DOMAIN e.places = Range(at) \cup DOMAIN d.places /\ DOMAIN e.items = Range(key) \cup DOMAIN d.items
  BY <1>3, <1>8 DEF Over
<1>10. e.places \in [DOMAIN e.places -> PlaceRow] /\ e.items \in [DOMAIN e.items -> ItemRow]
  <2>1. \A x \in DOMAIN d.places : d.places[x] \in PlaceRow
    BY <1>1 DEF Rows
  <2>2. \A x \in DOMAIN d.items : d.items[x] \in ItemRow
    BY <1>1 DEF Rows
  <2>3. e.places \in [DOMAIN e.places -> PlaceRow]
    BY <2>1, <1>4, <1>8, OverTyped
  <2>4. e.items \in [DOMAIN e.items -> ItemRow]
    <3>1. \A x \in DOMAIN g : g[x] \in ItemRow
      BY <1>5
    <3>2. QED
      BY <2>2, <3>1, <1>8, OverTyped
  <2>5. QED
    BY <2>3, <2>4
<1>11. DOMAIN e.places \subseteq Places /\ DOMAIN e.items \subseteq Items
  BY <1>1, <1>3, <1>9 DEF Rows
<1>12. e.events \subseteq EventRow
  <2>1. \A v \in Entered(m, at, key) : v \in EventRow
    <3> SUFFICES ASSUME NEW v \in Entered(m, at, key) PROVE v \in EventRow
      OBVIOUS
    <3>1. v.item \in Items \cup {Nil} /\ v.place \in Places \cup {Nil}
      BY <1>3, <1>2, <1>6
    <3>2. PICK i \in Items \cup {Nil}, p \in Places \cup {Nil} : i = v.item /\ p = v.place
      BY <3>1
    <3>3. v = [item |-> i, place |-> p]
      BY <3>2, <1>6
    <3>4. QED
      BY <3>3 DEF EventRow
  <2>2. QED
    BY <2>1, <1>1, <1>8 DEF Rows
<1>13. Rows(e)
  BY <1>8, <1>10, <1>11, <1>12 DEF Rows
<1>14. ValidHierarchy(e)
  <2>1. DOMAIN f \cap DOMAIN d.places = {}
    BY <1>3
  <2>2. QED
    BY <2>1, <1>1, <1>7, <1>8, <1>13, NewPlacesHang
<1>15. ValidItems(V3, e)
  <2> SUFFICES ASSUME NEW i \in DOMAIN e.items PROVE ValidItem(V3, e, e.items[i])
    BY DEF ValidItems
  <2>1. CASE i \in DOMAIN g
    <3>1. e.items[i] = g[i]
      BY <2>1, <1>8 DEF Over
    <3>2. PICK row \in ItemRow : row = g[i] /\ TrueRow(row) /\ row.place \in Range(at) \cup {Nil}
      BY <2>1, <1>5
    <3>3. ValidItem(V3, e, row)
      BY <3>2, <1>9, ValidItemIs
    <3>4. QED
      BY <3>1, <3>2, <3>3
  <2>2. CASE i \notin DOMAIN g
    <3>1. e.items[i] = d.items[i] /\ i \in DOMAIN d.items
      BY <2>2, <1>3, <1>8, <1>9 DEF Over
    <3>2. ValidItem(V3, d, d.items[i])
      BY <3>1, <1>1 DEF ValidItems
    <3>3. PICK row \in ItemRow : row = d.items[i]
      BY <3>1, <1>1 DEF Rows
    <3>4. TrueRow(row) /\ row.place \in DOMAIN d.places \cup {Nil}
      BY <3>2, <3>3, ValidItemIs
    <3>5. ValidItem(V3, e, row)
      BY <3>4, <1>9, ValidItemIs
    <3>6. QED
      BY <3>1, <3>3, <3>5
  <2>3. QED
    BY <2>1, <2>2
<1>16. ValidEvents(e)
  <2> SUFFICES ASSUME NEW v \in e.events
               PROVE  v.item \in DOMAIN e.items \cup {Nil} /\ v.place \in DOMAIN e.places \cup {Nil}
    BY DEF ValidEvents
  <2>1. CASE v \in d.events
    BY <2>1, <1>1, <1>9 DEF ValidEvents
  <2>2. CASE v \in Entered(m, at, key)
    BY <2>2, <1>6, <1>9
  <2>3. QED
    BY <2>1, <2>2, <1>8
<1>17. QED
  BY <1>13, <1>14, <1>15, <1>16, DbParts

\* A set holds as many numbers as it has elements.
LEMMA NumbersFit ==
  ASSUME NEW T, IsFiniteSet(T), NEW n \in Nat, n <= Cardinality(T)
  PROVE  \E g \in [1 .. n -> T] : \A j \in 1 .. n : \A k \in 1 .. n : g[j] = g[k] => j = k
<1> DEFINE c == Cardinality(T)
<1>1. c \in Nat /\ ExistsBijection(1 .. c, T)
  BY FS_CardinalityType
<1>2. PICK h \in [1 .. c -> T] : \A j \in 1 .. c : \A k \in 1 .. c : h[j] = h[k] => j = k
  BY <1>1 DEF ExistsBijection, Bijection, Injection, IsInjective
<1> HIDE DEF c
<1>3. \A k \in 1 .. n : k \in 1 .. c
  BY <1>1 DEF c
<1> DEFINE g == [k \in 1 .. n |-> h[k]]
<1>4. g \in [1 .. n -> T]
  BY <1>2, <1>3
<1>5. \A j \in 1 .. n : \A k \in 1 .. n : g[j] = g[k] => j = k
  BY <1>2, <1>3
<1>6. QED
  BY <1>4, <1>5

\* Paths of one front and one last name.
LEMMA FrontAndLast ==
  ASSUME NEW a \in Seq(PlaceNames), NEW b \in Seq(PlaceNames), a # << >>, b # << >>,
         Front(a) = Front(b), Last(a) = Last(b)
  PROVE  a = b
<1>0. ASSUME NEW c \in Seq(PlaceNames), c # << >> PROVE Len(c) \in Nat /\ Len(c) >= 1
  BY <1>0
<1>1. Len(a) \in Nat /\ Len(b) \in Nat /\ Len(a) >= 1 /\ Len(b) >= 1
  BY <1>0
<1> DEFINE n == Len(a) - 1
           m == Len(b) - 1
<1>2. n \in Nat /\ m \in Nat /\ n = Len(a) - 1 /\ m = Len(b) - 1
  BY <1>1
<1>3. SubSeq(a, 1, n) = SubSeq(b, 1, m)
  BY <1>2 DEF Front
<1> HIDE DEF n, m
<1>4. Len(SubSeq(a, 1, n)) = n /\ Len(SubSeq(b, 1, m)) = m
  BY <1>1, <1>2
<1>5. n = m /\ Len(a) = Len(b)
  BY <1>1, <1>2, <1>3, <1>4
<1>6. ASSUME NEW k \in 1 .. Len(a) PROVE a[k] = b[k]
  <2>1. CASE k <= n
    <3>1. k \in 1 .. n
      BY <2>1, <1>1
    <3>2. SubSeq(a, 1, n)[k] = a[k] /\ SubSeq(b, 1, n)[k] = b[k]
      BY <3>1, <1>1, <1>2, <1>5
    <3>3. QED
      BY <3>2, <1>3, <1>5
  <2>2. CASE k = Len(a)
    BY <2>2, <1>5 DEF Last
  <2>3. QED
    BY <2>1, <2>2, <1>1, <1>2
<1>7. QED
  BY <1>5, <1>6

\* Planted places have no siblings of their name.
LEMMA PlantedSiblings ==
  ASSUME NEW m, IsManifest(m), ValidManifest(m), NEW Q, Q \subseteq Places,
         NEW at \in Injection(Range(m.paths), Q), NEW e, e.places = Planted(at)
  PROVE  ValidSiblings(e)
<1> DEFINE P == Range(m.paths)
<1>1. /\ DOMAIN e.places = Range(at)
      /\ \A x \in Range(at) : \E path \in P : x = at[path]
  BY PlantedIs
<1>2. \A a \in P : \A b \in P : at[a] = at[b] => a = b
  BY DEF Injection, IsInjective
<1>3. ASSUME NEW path \in P
      PROVE  /\ e.places[at[path]].up = IF Front(path) \in P THEN at[Front(path)] ELSE Nil
             /\ e.places[at[path]].name = Last(path)
             /\ at[path] # Nil
  <2>1. e.places[at[path]] =
          [up |-> IF Front(path) \in P THEN at[Front(path)] ELSE Nil, name |-> Last(path)]
    BY PlantedAt
  <2>2. at[path] \in Places
    BY PlantedAt
  <2>3. QED
    BY <2>1, <2>2, NilIsNoPlace
<1>4. ASSUME NEW a \in P PROVE e.places[at[a]].up # at[a]
  <2>1. Len(Front(a)) = Len(a) - 1 /\ Len(a) \in Nat
    BY PathsAre
  <2>2. Front(a) # a
    BY <2>1
  <2>3. QED
    BY <2>2, <1>2, <1>3
<1>5. ASSUME NEW a \in P, NEW b \in P, e.places[at[a]] = e.places[at[b]]
      PROVE  a = b
  <2>1. /\ a \in Seq(PlaceNames) /\ a # << >> /\ Len(a) \in Nat /\ Len(a) >= 1
        /\ Len(a) > 1 => Front(a) \in P
    BY PathsAre
  <2>2. /\ b \in Seq(PlaceNames) /\ b # << >> /\ Len(b) \in Nat /\ Len(b) >= 1
        /\ Len(b) > 1 => Front(b) \in P
    BY PathsAre
  <2>3. Last(a) = Last(b)
    BY <1>3, <1>5
  <2>4. CASE Front(a) \in P /\ Front(b) \in P
    <3>1. PICK x \in P, y \in P : x = Front(a) /\ y = Front(b)
      BY <2>4
    <3>2. at[x] = at[y]
      BY <3>1, <1>3, <1>5
    <3>3. Front(a) = Front(b)
      BY <3>1, <3>2, <1>2
    <3>4. a \in Seq(PlaceNames) /\ b \in Seq(PlaceNames) /\ a # << >> /\ b # << >>
      BY <2>1, <2>2
    <3>5. QED
      BY <3>3, <3>4, <2>3, FrontAndLast
  <2>5. CASE Front(a) \notin P /\ Front(b) \notin P
    <3> HIDE DEF P
    <3>a. ~ (Len(a) > 1)
      BY <2>1, <2>5
    <3>b. ~ (Len(b) > 1)
      BY <2>2, <2>5
    <3>c. PICK i \in Nat, j \in Nat : i = Len(a) /\ j = Len(b)
      BY <2>1, <2>2
    <3>d. i >= 1 /\ j >= 1 /\ ~ (i > 1) /\ ~ (j > 1)
      BY <3>a, <3>b, <3>c, <2>1, <2>2
    <3>1. Len(a) = 1 /\ Len(b) = 1
      BY <3>c, <3>d
    <3>2. a[1] = b[1]
      BY <3>1, <2>3 DEF Last
    <3>3. QED
      BY <3>1, <3>2, <2>1, <2>2
  <2>6. CASE Front(a) \in P /\ Front(b) \notin P
    <3>1. PICK x \in P : x = Front(a)
      BY <2>6
    <3>2. at[x] = Nil
      BY <3>1, <2>6, <1>3, <1>5
    <3>3. QED
      BY <3>2, <1>3
  <2>7. CASE Front(a) \notin P /\ Front(b) \in P
    <3>1. PICK x \in P : x = Front(b)
      BY <2>7
    <3>2. at[x] = Nil
      BY <3>1, <2>7, <1>3, <1>5
    <3>3. QED
      BY <3>2, <1>3
  <2>8. QED
    BY <2>4, <2>5, <2>6, <2>7
<1>6. QED
  BY <1>1, <1>4, <1>5 DEF ValidSiblings

\* An empty database has room for a valid manifest, and refuses nothing of it.
LEMMA FilledFits ==
  ASSUME NEW m, IsManifest(m), ValidManifest(m)
  PROVE  {new \in Filled(Empty, m) : ~ Refused(new, m)} # {}
<1>1. Len(m.paths) \in Nat /\ Len(m.items) \in Nat /\ DOMAIN m.paths = 1 .. Len(m.paths)
      /\ DOMAIN m.items = 1 .. Len(m.items)
      /\ Len(m.paths) <= Cardinality(Places) /\ Len(m.items) <= Cardinality(Items)
  BY DEF IsManifest
<1>2. PICK g \in [1 .. Len(m.paths) -> Places] :
        \A j \in 1 .. Len(m.paths) : \A k \in 1 .. Len(m.paths) : g[j] = g[k] => j = k
  BY <1>1, NumbersFit, TransferConstants
<1>3. PICK key \in [1 .. Len(m.items) -> Items] :
        \A j \in 1 .. Len(m.items) : \A k \in 1 .. Len(m.items) : key[j] = key[k] => j = k
  BY <1>1, NumbersFit, TransferConstants
<1> DEFINE P == Range(m.paths)
           at == [path \in P |-> g[CHOOSE k \in 1 .. Len(m.paths) : m.paths[k] = path]]
<1>4. \A path \in P : \E k \in 1 .. Len(m.paths) : m.paths[k] = path
  BY <1>1 DEF Range
<1>5. at \in [P -> Places] /\ \A a \in P : \A b \in P : at[a] = at[b] => a = b
  BY <1>2, <1>4
<1> HIDE DEF at
<1> DEFINE Q == Places \ DOMAIN Empty.places
           R == Items \ DOMAIN Empty.items
<1>6. Q = Places /\ R = Items
  BY DEF Empty
<1>7. at \in Injection(P, Q) /\ key \in Injection(DOMAIN m.items, R)
  BY <1>1, <1>3, <1>5, <1>6 DEF Injection, IsInjective
<1>8. PICK new : Fills(new, Empty, m, at, key)
  BY DEF Fills
<1>9. new \in Filled(Empty, m)
  <2> HIDE DEF P, Q, R
  <2>1. \E x \in Injection(P, Q), y \in Injection(DOMAIN m.items, R) : Fills(new, Empty, m, x, y)
    BY <1>7, <1>8
  <2>2. QED
    BY <2>1, FilledIs DEF P, Q, R
<1>10. new.places = Planted(at)
  <2>1. new.places = Over(Planted(at), Empty.places)
    BY <1>8 DEF Fills
  <2>2. DOMAIN Empty.places = {}
    BY DEF Empty
  <2>3. \A f, h : DOMAIN h = {} /\ f = [x \in DOMAIN f |-> f[x]] => Over(f, h) = f
    BY DEF Over
  <2>4. Planted(at) = [x \in DOMAIN Planted(at) |-> Planted(at)[x]]
    BY DEF Planted
  <2>5. QED
    BY <2>1, <2>2, <2>3, <2>4
<1>11. ValidSiblings(new)
  <2> HIDE DEF Q
  <2>1. Q \subseteq Places
    BY <1>6
  <2>2. QED
    BY <2>1, <1>7, <1>10, PlantedSiblings
<1>12. ~ Refused(new, m)
  BY <1>11 DEF Refused, ValidManifest, ValidPaths, ValidEntry
<1>13. QED
  BY <1>9, <1>12

LEMMA DepthIs ==
  ASSUME NEW d, Rows(d), ValidHierarchy(d), NEW p \in DOMAIN d.places
  PROVE  Depth(d, p) = Height(Parents(d), p)
<1>1. Tree(Parents(d)) /\ p \in DOMAIN Parents(d)
  BY RowsAreTree, HierarchyIs
<1>2. DOMAIN Above(Parents(d), p) = 0 .. Size(Parents(d))
  BY <1>1, AboveIs
<1>3. QED
  BY <1>2 DEF Depth, Height

\* The path to a place is the path to the place above, and its name.
LEMMA PathFalls ==
  ASSUME NEW d, Rows(d), ValidHierarchy(d), NEW p \in DOMAIN d.places,
         NEW q, q = d.places[p].up, NEW h, h = Depth(d, p)
  PROVE  /\ h \in Nat /\ PathTo(d, p) \in [1 .. h + 1 -> PlaceNames]
         /\ PathTo(d, p)[h + 1] = d.places[p].name
         /\ q = Nil => h = 0
         /\ q # Nil => /\ q \in DOMAIN d.places /\ Depth(d, q) = h - 1 /\ h - 1 \in Nat
                       /\ \A k \in 1 .. h : PathTo(d, p)[k] = PathTo(d, q)[k]
<1> DEFINE up == Parents(d)
           N == Size(up)
           a == Above(up, p)
<1>1. /\ Tree(up) /\ Grounded(up, DOMAIN up) /\ DOMAIN up = DOMAIN d.places
      /\ up[p] = q /\ N \in Nat
  BY RowsAreTree, HierarchyIs, TreeSize
<1>2. h \in 0 .. (N - 1) /\ \A n \in 0 .. N : a[n] # Nil <=> n <= h
  <2>1. h = Height(up, p)
    BY DepthIs
  <2>2. QED
    BY <2>1, <1>1, HeightIs
<1>3. a \in [0 .. N -> DOMAIN up \cup {Nil}] /\ a[0] = p
  BY <1>1, AboveIs
<1>4. PathTo(d, p) = [k \in 1 .. h + 1 |-> d.places[a[h + 1 - k]].name]
  BY DEF PathTo
<1> HIDE DEF a
<1>5. \A k \in 1 .. h + 1 : h + 1 - k \in 0 .. N /\ h + 1 - k <= h
  <2> HIDE DEF N
  <2>1. QED
    BY <1>1, <1>2
<1>6. \A k \in 1 .. h + 1 : d.places[a[h + 1 - k]].name \in PlaceNames
  <2> SUFFICES ASSUME NEW k \in 1 .. h + 1 PROVE d.places[a[h + 1 - k]].name \in PlaceNames
    OBVIOUS
  <2>1. PICK n \in 0 .. N : n = h + 1 - k /\ n <= h
    BY <1>5
  <2>2. a[n] \in DOMAIN d.places
    BY <2>1, <1>1, <1>2, <1>3
  <2>3. d.places[a[n]] \in PlaceRow
    BY <2>2 DEF Rows
  <2>4. QED
    BY <2>1, <2>3 DEF PlaceRow
<1>7. h \in Nat /\ PathTo(d, p) \in [1 .. h + 1 -> PlaceNames]
  BY <1>2, <1>4, <1>6
<1>8. PathTo(d, p)[h + 1] = d.places[p].name
  <2>1. h + 1 \in 1 .. h + 1 /\ h + 1 - (h + 1) = 0
    BY <1>7
  <2>2. QED
    BY <2>1, <1>3, <1>4
<1>9. CASE q = Nil
  <2>1. h = 0
    BY <1>1, <1>9, DepthIs, HeightFalls
  <2>2. QED
    BY <2>1, <1>7, <1>8, <1>9
<1>10. CASE q # Nil
  <2>1. q \in DOMAIN d.places /\ Height(up, p) = Height(up, q) + 1
    BY <1>1, <1>10, HeightFalls
  <2>2. Height(up, q) \in Nat
    <3>1. Height(up, q) \in 0 .. (N - 1)
      BY <2>1, <1>1, HeightIs
    <3>2. QED
      BY <3>1
  <2>3. Depth(d, q) = h - 1 /\ h - 1 \in Nat
    <3>1. Depth(d, q) = Height(up, q) /\ h = Height(up, p)
      BY <2>1, DepthIs
    <3>2. QED
      BY <3>1, <2>1, <2>2
  <2> DEFINE b == Above(up, q)
  <2>4. PathTo(d, q) = [k \in 1 .. Depth(d, q) + 1 |-> d.places[b[Depth(d, q) + 1 - k]].name]
    BY DEF PathTo
  <2> HIDE DEF b
  <2>5. \A k \in 1 .. h : PathTo(d, q)[k] = d.places[b[h - k]].name
    <3>1. h - 1 + 1 = h
      BY <1>7
    <3>2. PathTo(d, q) = [k \in 1 .. h - 1 + 1 |-> d.places[b[h - 1 + 1 - k]].name]
      BY <2>3, <2>4
    <3>3. ASSUME NEW k \in 1 .. h PROVE PathTo(d, q)[k] = d.places[b[h - k]].name
      <4>1. k \in 1 .. h - 1 + 1 /\ h - 1 + 1 - k = h - k
        BY <3>1, <1>7
      <4>2. PathTo(d, q)[k] = d.places[b[h - 1 + 1 - k]].name
        BY <3>2, <4>1
      <4>3. QED
        BY <4>1, <4>2
    <3>4. QED
      BY <3>3
  <2>6. \A n \in 0 .. (N - 1) : a[n + 1] = b[n]
    BY <1>1, AboveShifts DEF a, b
  <2> HIDE DEF N
  <2>7. ASSUME NEW k \in 1 .. h PROVE PathTo(d, p)[k] = PathTo(d, q)[k]
    <3>a. h - k \in 0 .. (N - 1)
      BY <1>1, <1>2
    <3>1. PICK n \in 0 .. (N - 1) : n = h - k
      BY <3>a
    <3>2. h + 1 - k = n + 1 /\ k \in 1 .. h + 1
      BY <3>1, <1>7
    <3>3. PathTo(d, p)[k] = d.places[a[n + 1]].name
      BY <3>2, <1>4
    <3>4. PathTo(d, q)[k] = d.places[b[n]].name
      BY <3>1, <2>5
    <3>5. QED
      BY <3>3, <3>4, <2>6
  <2>8. QED
    BY <2>1, <2>3, <2>7, <1>7, <1>8, <1>10
<1>11. QED
  BY <1>9, <1>10

\* A planted place is where its path leads to.
LEMMA PlantedPath ==
  ASSUME NEW m, IsManifest(m), ValidManifest(m), NEW Q, Q \subseteq Places,
         NEW at \in Injection(Range(m.paths), Q),
         NEW e, Rows(e), ValidHierarchy(e), NEW places, e.places = Over(Planted(at), places),
         NEW path \in Range(m.paths)
  PROVE  at[path] \in DOMAIN e.places /\ PathTo(e, at[path]) = path
<1> DEFINE P == Range(m.paths)
           Bad == {x \in P : PathTo(e, at[x]) # x}
           Lengths == {Len(x) : x \in Bad}
<1>1. ASSUME NEW x \in P
      PROVE  /\ at[x] \in DOMAIN e.places /\ at[x] # Nil
             /\ e.places[at[x]].name = Last(x)
             /\ e.places[at[x]].up = IF Front(x) \in P THEN at[Front(x)] ELSE Nil
  <2>1. at[x] \in Range(at) /\ at[x] \in Places
    BY PlantedAt
  <2>2. Planted(at)[at[x]] =
          [up |-> IF Front(x) \in P THEN at[Front(x)] ELSE Nil, name |-> Last(x)]
    BY PlantedAt
  <2>3. DOMAIN Planted(at) = Range(at)
    BY DEF Planted
  <2>4. at[x] \in DOMAIN e.places /\ e.places[at[x]] = Planted(at)[at[x]]
    BY <2>1, <2>3 DEF Over
  <2>5. QED
    BY <2>1, <2>2, <2>4, NilIsNoPlace
<1>2. SUFFICES ASSUME Bad # {} PROVE FALSE
  BY <1>1
<1>3. PICK x \in Bad : \A y \in Bad : Len(x) <= Len(y)
  <2>1. \A y \in P : Len(y) \in Nat
    BY PathsAre
  <2>2. Lengths \subseteq Nat /\ Lengths # {}
    BY <1>2, <2>1
  <2> HIDE DEF Lengths
  <2>3. PICK n \in Lengths : \A k \in Lengths : n <= k
    BY <2>2, LeastKey
  <2> USE DEF Lengths
  <2> HIDE DEF Bad
  <2>4. QED
    BY <2>3
<1>4. /\ x \in Seq(PlaceNames) /\ x # << >> /\ Len(x) \in Nat /\ Len(x) >= 1
      /\ Front(x) \in Seq(PlaceNames) /\ Len(Front(x)) = Len(x) - 1
      /\ Len(x) > 1 => Front(x) \in P
  <2>1. x \in P
    OBVIOUS
  <2>2. QED
    BY <2>1, PathsAre
<1>5. x \in P /\ PathTo(e, at[x]) # x
  OBVIOUS
<1>6. PICK n \in Nat : n = Len(x) /\ n >= 1
  BY <1>4
<1> DEFINE p == at[x]
           q == e.places[p].up
           h == Depth(e, p)
<1>7. p \in DOMAIN e.places /\ e.places[p].name = x[n]
  BY <1>1, <1>5, <1>6 DEF Last
<1>8. /\ h \in Nat /\ PathTo(e, p) \in [1 .. h + 1 -> PlaceNames]
      /\ PathTo(e, p)[h + 1] = x[n]
      /\ q = Nil => h = 0
      /\ q # Nil => /\ q \in DOMAIN e.places /\ Depth(e, q) = h - 1 /\ h - 1 \in Nat
                    /\ \A k \in 1 .. h : PathTo(e, p)[k] = PathTo(e, q)[k]
  <2> HIDE DEF p
  <2>1. QED
    BY <1>7, PathFalls
<1>9. q = IF Front(x) \in P THEN at[Front(x)] ELSE Nil
  BY <1>1, <1>5
<1> HIDE DEF p, q, h
<1>10. h + 1 = n /\ \A k \in 1 .. n : PathTo(e, p)[k] = x[k]
  <2>1. CASE Front(x) \in P
    <3>1. PICK y \in P : y = Front(x)
      BY <2>1
    <3>2. Len(y) = n - 1 /\ y \notin Bad
      <4>1. Len(y) = n - 1
        BY <3>1, <1>4, <1>6
      <4>2. ~ (n <= n - 1)
        BY <1>6
      <4>3. QED
        BY <4>1, <4>2, <1>3, <1>6
    <3>3. q = at[y] /\ q # Nil
      BY <3>1, <1>1, <1>9
    <3>4. PathTo(e, q) = y
      BY <3>2, <3>3
    <3>5. h - 1 \in Nat /\ Depth(e, q) = h - 1 /\ q \in DOMAIN e.places
      BY <1>8, <3>3
    <3>6. PathTo(e, q) \in [1 .. h - 1 + 1 -> PlaceNames]
      BY <3>5, PathFalls
    <3>7. h = n - 1
      <4>1. DOMAIN y = 1 .. h
        BY <3>4, <3>5, <3>6, <1>8
      <4>2. y \in Seq(PlaceNames)
        BY <3>1, <1>4
      <4>3. Len(y) = h
        BY <4>1, <4>2, <1>8
      <4>4. QED
        BY <4>3, <3>2
    <3>8. ASSUME NEW k \in 1 .. h PROVE x[k] = y[k]
      <4>1. y = SubSeq(x, 1, n - 1)
        BY <3>1, <1>6 DEF Front
      <4>2. n - 1 \in Nat /\ k \in 1 .. (n - 1) /\ n - 1 <= Len(x)
        BY <1>6, <3>7
      <4>3. QED
        BY <4>1, <4>2, <1>4
    <3>9. \A k \in 1 .. h : PathTo(e, p)[k] = x[k]
      BY <1>8, <3>3, <3>4, <3>8
    <3>10. h + 1 = n
      BY <3>7, <1>6
    <3>11. \A k \in 1 .. n : k \in 1 .. h \/ k = h + 1
      BY <3>10, <1>8
    <3>12. QED
      BY <3>9, <3>10, <3>11, <1>8
  <2>2. CASE Front(x) \notin P
    <3>1. q = Nil /\ h = 0
      BY <2>2, <1>8, <1>9
    <3>2. ~ (n > 1)
      BY <2>2, <1>4, <1>6
    <3>3. n = 1
      BY <3>2, <1>6
    <3>4. QED
      BY <3>1, <3>3, <1>8
  <2>3. QED
    BY <2>1, <2>2
<1>11. PathTo(e, p) \in [1 .. n -> PlaceNames]
  BY <1>8, <1>10
<1>12. x \in [1 .. n -> PlaceNames]
  BY <1>4, <1>6
<1>13. PathTo(e, p) = x
  BY <1>10, <1>11, <1>12
<1>14. QED
  BY <1>5, <1>13 DEF p

\* A bootstrap leaves all of its manifest.
LEMMA FilledFulfils ==
  ASSUME NEW m, IsManifest(m), ValidManifest(m), NEW d,
         NEW Q, Q \subseteq Places, NEW R, R \subseteq Items,
         NEW at \in Injection(Range(m.paths), Q),
         NEW S, S \subseteq DOMAIN m.items, DOMAIN m.items \subseteq S, NEW key \in Injection(S, R),
         NEW e, Fills(e, d, m, at, key), Rows(e), ValidHierarchy(e)
  PROVE  Fulfils(e, m)
<1>1. /\ e.places = Over(Planted(at), d.places) /\ e.items = Over(Stocked(m, at, key), d.items)
  BY DEF Fills
<1>2. \A path \in Range(m.paths) : at[path] \in DOMAIN e.places /\ PathTo(e, at[path]) = path
  BY <1>1, PlantedPath
<1>3. \A k \in DOMAIN m.paths : m.paths[k] \in Range(m.paths)
  BY DEF Range
<1>4. ASSUME NEW k \in DOMAIN m.items
      PROVE  \E i \in DOMAIN e.items :
               /\ e.items[i].state = m.items[k].state /\ e.items[i].mode = m.items[k].mode
               /\ e.items[i].quantity = m.items[k].quantity
               /\ e.items[i].reason = m.items[k].reason
               /\ e.items[i].place = IF m.items[k].path = Nil THEN Nil ELSE at[m.items[k].path]
  <2>1. k \in DOMAIN key /\ \A j \in DOMAIN key : key[j] = key[k] => j = k
    <3>1. DOMAIN key = S /\ \A i \in S : \A j \in S : key[j] = key[i] => j = i
      BY InjectionIs
    <3>2. QED
      BY <3>1
  <2>2. PICK row : row = BootstrapItem(m.items[k], at)
    OBVIOUS
  <2>3. Stocked(m, at, key)[key[k]] = row
    BY <2>1, <2>2, StockedAt
  <2>4. key[k] \in DOMAIN Stocked(m, at, key)
    BY <2>1 DEF Stocked, Range
  <2>5. key[k] \in DOMAIN e.items /\ e.items[key[k]] = row
    BY <2>3, <2>4, <1>1 DEF Over
  <2>6. PICK place : place = IF m.items[k].path = Nil THEN Nil ELSE at[m.items[k].path]
    OBVIOUS
  <2>8. row.place = place
    BY <2>2, <2>6, BootstrapItemIs
  <2>9. /\ row.state = m.items[k].state /\ row.mode = m.items[k].mode
        /\ row.quantity = m.items[k].quantity /\ row.reason = m.items[k].reason
    BY <2>2, BootstrapItemKeeps
  <2>7. QED
    BY <2>5, <2>6, <2>8, <2>9
<1>5. ASSUME NEW k \in DOMAIN m.items, NEW place,
             place = IF m.items[k].path = Nil THEN Nil ELSE at[m.items[k].path]
      PROVE  IsAt(e, place, m.items[k].path)
  <2>1. CASE m.items[k].path = Nil
    BY <2>1, <1>5 DEF IsAt
  <2>2. CASE m.items[k].path # Nil
    <3>1. m.items[k].path \in Range(m.paths)
      BY <2>2 DEF ValidManifest, ValidEntry
    <3>2. PICK path \in Range(m.paths) : path = m.items[k].path
      BY <3>1
    <3>3. at[path] \in Places
      BY PlantedAt
    <3>4. place = at[path] /\ place # Nil /\ PathTo(e, place) = path
      BY <3>2, <3>3, <2>2, <1>2, <1>5, NilIsNoPlace
    <3>5. QED
      BY <3>2, <3>4, <2>2 DEF IsAt
  <2>3. QED
    BY <2>1, <2>2
<1>6. \A k \in DOMAIN m.paths : \E p \in DOMAIN e.places : PathTo(e, p) = m.paths[k]
  BY <1>2, <1>3
<1>7. ASSUME NEW k \in DOMAIN m.items
      PROVE  \E i \in DOMAIN e.items :
               /\ <<e.items[i].state, e.items[i].mode, e.items[i].quantity, e.items[i].reason>> =
                  <<m.items[k].state, m.items[k].mode, m.items[k].quantity, m.items[k].reason>>
               /\ IsAt(e, e.items[i].place, m.items[k].path)
  <2>1. PICK i \in DOMAIN e.items :
               /\ e.items[i].state = m.items[k].state /\ e.items[i].mode = m.items[k].mode
               /\ e.items[i].quantity = m.items[k].quantity
               /\ e.items[i].reason = m.items[k].reason
               /\ e.items[i].place = IF m.items[k].path = Nil THEN Nil ELSE at[m.items[k].path]
    BY <1>4
  <2>2. IsAt(e, e.items[i].place, m.items[k].path)
    BY <2>1, <1>5
  <2>3. QED
    BY <2>1, <2>2
<1>8. QED
  BY <1>6, <1>7 DEF Fulfils

Versions == {V1, V2, V3}
Absent == {"sold", "discarded"}

LEMMA NilIsNoWord == Nil \notin {"sold", "discarded", "lost"} /\ Nil # 1
  BY TransferConstants

\* What becomes of an item.
LEMMA ImportTruthIs ==
  ASSUME NEW item \in ItemRow, NEW v \in Versions, NEW new, new = ImportTruth(v, item)
  PROVE  /\ new \in ItemRow /\ new.place = item.place /\ new.quantity = item.quantity
         /\ v = V3 => new = item
         /\ v # V3 => /\ new.mode = "exact" /\ new.status = StatusIn(v, item)
                      /\ item.state \in Absent => new.state = "removed" /\ new.reason = item.state
                      /\ item.state \notin Absent => new.state = item.state /\ new.reason = Nil
<1>1. item = [state |-> item.state, place |-> item.place, status |-> item.status, mode |-> item.mode,
              quantity |-> item.quantity, reason |-> item.reason]
  BY DEF ItemRow
<1>2. /\ item.state \in States /\ item.place \in Places \cup {Nil} /\ item.status \in Statuses
      /\ item.mode \in {"exact", "unknown"} /\ item.quantity \in {1, Nil} /\ item.reason \in Reasons \cup {Nil}
  BY DEF ItemRow
<1>3. CASE v = V3
  BY <1>3 DEF ImportTruth
<1>4. CASE v # V3
  <2>1. PICK status : status = StatusIn(v, item)
    OBVIOUS
  <2>2. status \in Statuses
    BY <2>1, <1>2 DEF StatusIn, LegacyStatus, Statuses
  <2>3. CASE item.state \in Absent
    <3>1. new = [item EXCEPT !.state = "removed", !.status = status, !.mode = "exact", !.reason = item.state]
      BY <2>1, <2>3, <1>1, <1>4 DEF ImportTruth, Absent
    <3>2. new = [state |-> "removed", place |-> item.place, status |-> status, mode |-> "exact",
                 quantity |-> item.quantity, reason |-> item.state]
      BY <3>1, <1>1
    <3>3. new \in ItemRow
      BY <3>2, <2>2, <2>3, <1>2 DEF ItemRow, States, Reasons, Absent
    <3>4. QED
      BY <3>2, <3>3, <2>1, <2>3, <1>4
  <2>4. CASE item.state \notin Absent
    <3>1. new = [item EXCEPT !.state = item.state, !.status = status, !.mode = "exact", !.reason = Nil]
      BY <2>1, <2>4, <1>1, <1>4 DEF ImportTruth, Absent
    <3>2. new = [state |-> item.state, place |-> item.place, status |-> status, mode |-> "exact",
                 quantity |-> item.quantity, reason |-> Nil]
      BY <3>1, <1>1
    <3>3. new \in ItemRow
      BY <3>2, <2>2, <1>2 DEF ItemRow
    <3>4. QED
      BY <3>2, <3>3, <2>1, <2>4, <1>4
  <2>5. QED
    BY <2>3, <2>4
<1>5. QED
  BY <1>3, <1>4

\* The truth of a valid item satisfies the constraint, and, if no older version
\* says "removed", the whole format.
LEMMA ImportTruthHolds ==
  ASSUME NEW item \in ItemRow, NEW v \in Versions, NEW new, new = ImportTruth(v, item),
         NEW d, ValidItem(v, d, item)
  PROVE  /\ QuantityIsTrue(new) /\ new.place \in DOMAIN d.places \cup {Nil}
         /\ (v # V3 => item.state # "removed") => TrueRow(new)
<1>1. /\ new \in ItemRow /\ new.place = item.place /\ new.quantity = item.quantity
      /\ v = V3 => new = item
      /\ v # V3 => /\ new.mode = "exact" /\ new.status = StatusIn(v, item)
                   /\ item.state \in Absent => new.state = "removed" /\ new.reason = item.state
                   /\ item.state \notin Absent => new.state = item.state /\ new.reason = Nil
  BY ImportTruthIs
<1>2. item.place \in DOMAIN d.places \cup {Nil}
  BY DEF ValidItem
<1>3. CASE v = V3
  <2>1. TrueRow(item)
    BY <1>3, ValidItemIs
  <2>2. QED
    BY <2>1, <1>1, <1>2, <1>3 DEF TrueRow
<1>4. CASE v # V3
  <2>1. /\ item.quantity # Nil /\ (StatusIn(v, item) = "known") = (item.place # Nil)
        /\ (item.state \in Absent) = (StatusIn(v, item) = "not_applicable")
    BY <1>4 DEF ValidItem, Absent
  <2>2. QuantityIsTrue(new)
    BY <2>1, <1>1, <1>4 DEF QuantityIsTrue
  <2>3. ASSUME item.state # "removed" PROVE TrueRow(new)
    <3>1. item.state \in States
      BY DEF ItemRow
    <3>2. CASE item.state \in Absent
      BY <3>2, <2>1, <2>2, <1>1, <1>4, NilIsNoWord DEF TrueRow, Absent
    <3>3. CASE item.state \notin Absent
      BY <3>1, <3>3, <2>1, <2>2, <2>3, <1>1, <1>4 DEF TrueRow, Absent, States
    <3>4. QED
      BY <3>2, <3>3
  <2>4. QED
    BY <2>2, <2>3, <1>1, <1>2, <1>4
<1>5. QED
  BY <1>3, <1>4

\* A database that has all of a document.
Imported(doc, d) ==
  /\ d.places = doc.rows.places /\ d.events = doc.rows.events
  /\ d.items = [i \in DOMAIN doc.rows.items |-> ImportTruth(doc.version, doc.rows.items[i])]
  /\ d = [places |-> d.places, items |-> d.items, events |-> d.events]

LEMMA DocumentItems ==
  ASSUME NEW doc, IsDocument(doc), NEW i \in DOMAIN doc.rows.items
  PROVE  doc.rows.items[i] \in ItemRow /\ doc.version \in Versions
  BY DEF IsDocument, Rows, Versions

LEMMA ImportedRows ==
  ASSUME NEW doc, IsDocument(doc), NEW d, Imported(doc, d)
  PROVE  Rows(d)
<1>1. Rows(doc.rows)
  BY DEF IsDocument
<1>2. \A i \in DOMAIN doc.rows.items : ImportTruth(doc.version, doc.rows.items[i]) \in ItemRow
  <2> SUFFICES ASSUME NEW i \in DOMAIN doc.rows.items
               PROVE  ImportTruth(doc.version, doc.rows.items[i]) \in ItemRow
    OBVIOUS
  <2>1. PICK item \in ItemRow, v \in Versions : item = doc.rows.items[i] /\ v = doc.version
    BY DocumentItems
  <2>2. ImportTruth(v, item) \in ItemRow
    BY ImportTruthIs
  <2>3. QED
    BY <2>1, <2>2
<1>3. DOMAIN d.items = DOMAIN doc.rows.items /\ d.items \in [DOMAIN d.items -> ItemRow]
  BY <1>2 DEF Imported
<1>4. QED
  BY <1>1, <1>3 DEF Imported, Rows

LEMMA ImportedIsFaithful ==
  ASSUME NEW doc, IsDocument(doc), Valid(doc), Frozen(doc), NEW d, Imported(doc, d)
  PROVE  Same(doc, d) /\ Valid(Document(V3, d))
<1>1. Rows(d) /\ Rows(doc.rows)
  BY ImportedRows DEF IsDocument
<1>2. /\ DOMAIN d.items = DOMAIN doc.rows.items
      /\ \A i \in DOMAIN d.items : d.items[i] = ImportTruth(doc.version, doc.rows.items[i])
      /\ d.places = doc.rows.places /\ d.events = doc.rows.events
  BY DEF Imported
<1>3. ASSUME NEW i \in DOMAIN d.items
      PROVE  /\ d.items[i].place = doc.rows.items[i].place
             /\ d.items[i].quantity = doc.rows.items[i].quantity
             /\ d.items[i].state = "removed" =>
                  doc.rows.items[i].reason = d.items[i].reason \/ doc.rows.items[i].state = d.items[i].reason
             /\ d.items[i].state # "removed" => doc.rows.items[i].state = d.items[i].state
             /\ ValidItem(V3, d, d.items[i])
  <2>1. PICK item \in ItemRow, v \in Versions : item = doc.rows.items[i] /\ v = doc.version
    BY <1>2, DocumentItems
  <2>2. PICK new : new = ImportTruth(v, item)
    OBVIOUS
  <2>3. d.items[i] = new
    BY <2>1, <2>2, <1>2
  <2>4. /\ new \in ItemRow /\ new.place = item.place /\ new.quantity = item.quantity
        /\ v = V3 => new = item
        /\ v # V3 => /\ new.mode = "exact" /\ new.status = StatusIn(v, item)
                     /\ item.state \in Absent => new.state = "removed" /\ new.reason = item.state
                     /\ item.state \notin Absent => new.state = item.state /\ new.reason = Nil
    BY <2>2, ImportTruthIs
  <2>5. ValidItem(v, doc.rows, item) /\ (v # V3 => item.state # "removed")
    BY <2>1, <1>2 DEF Valid, ValidItems, Frozen
  <2>6. TrueRow(new) /\ new.place \in DOMAIN d.places \cup {Nil}
    BY <2>2, <2>5, <1>2, ImportTruthHolds
  <2>7. ValidItem(V3, d, new)
    BY <2>4, <2>6, ValidItemIs
  <2>8. new.state = "removed" => item.reason = new.reason \/ item.state = new.reason
    BY <2>4, <2>5
  <2>9. new.state # "removed" => item.state = new.state
    BY <2>4, <2>5
  <2>10. QED
    BY <2>1, <2>3, <2>4, <2>7, <2>8, <2>9
<1>4. Same(doc, d)
  BY <1>2, <1>3 DEF Same
<1>5. ValidSiblings(d) /\ ValidEvents(d)
  BY <1>2 DEF Valid, ValidSiblings, ValidEvents
<1>6. ValidHierarchy(d)
  <2>1. Parents(d) = Parents(doc.rows)
    BY <1>2 DEF Parents
  <2>2. QED
    BY <2>1 DEF Valid, ValidHierarchy
<1>7. ValidItems(V3, d)
  BY <1>3 DEF ValidItems
<1>8. QED
  BY <1>1, <1>4, <1>5, <1>6, <1>7, DbParts DEF DbOK

-----------------------------------------------------------------------------
(* The levels of the importer *)

\* The places above a level are written, and nothing else.
Written(doc, w, l) ==
  /\ w = [places |-> w.places, items |-> Empty.items, events |-> {}]
  /\ w.places = [p \in {q \in DOMAIN doc.rows.places : Depth(doc.rows, q) < l} |-> doc.rows.places[p]]

LEMMA NothingWritten ==
  ASSUME NEW doc, IsDocument(doc), Valid(doc)
  PROVE  Written(doc, Empty, 0)
<1>1. \A q \in DOMAIN doc.rows.places : Depth(doc.rows, q) \in Nat
  BY PathFalls DEF IsDocument, Valid
<1>2. {q \in DOMAIN doc.rows.places : Depth(doc.rows, q) < 0} = {}
  BY <1>1
<1>3. Empty.places = [p \in {} |-> doc.rows.places[p]]
  BY DEF Empty
<1>4. QED
  BY <1>2, <1>3 DEF Written, Empty

LEMMA LevelIsWritten ==
  ASSUME NEW doc, IsDocument(doc), Valid(doc), NEW l \in Nat, NEW w, Written(doc, w, l),
         NEW here, here = {p \in DOMAIN doc.rows.places : Depth(doc.rows, p) = l}
  PROVE  /\ \A p \in here : doc.rows.places[p].up \in DOMAIN w.places \cup here \cup {Nil}
         /\ \A new : new = [w EXCEPT !.places = Over([p \in here |-> doc.rows.places[p]], @)]
                     => Written(doc, new, l + 1)
<1> DEFINE d == doc.rows
           Upto(k) == {q \in DOMAIN d.places : Depth(d, q) < k}
<1>1. Rows(d) /\ ValidHierarchy(d)
  BY DEF IsDocument, Valid
<1>2. \A q \in DOMAIN d.places : Depth(d, q) \in Nat
  BY <1>1, PathFalls
<1>3. DOMAIN w.places = Upto(l) /\ \A p \in Upto(l) : w.places[p] = d.places[p]
  BY DEF Written
<1>4. ASSUME NEW p \in here PROVE d.places[p].up \in Upto(l) \cup {Nil}
  <2>1. p \in DOMAIN d.places /\ Depth(d, p) = l
    OBVIOUS
  <2>2. PICK q : q = d.places[p].up
    OBVIOUS
  <2>3. q # Nil => q \in DOMAIN d.places /\ Depth(d, q) = l - 1
    BY <1>1, <2>1, <2>2, PathFalls
  <2>4. q # Nil => q \in Upto(l)
    BY <2>3
  <2>5. QED
    BY <2>2, <2>4
<1>5. Upto(l + 1) = here \cup Upto(l) /\ here \cap Upto(l) = {} /\ here \subseteq DOMAIN d.places
  BY <1>2
<1>6. ASSUME NEW new, new = [w EXCEPT !.places = Over([p \in here |-> d.places[p]], @)]
      PROVE  Written(doc, new, l + 1)
  <2> DEFINE f == [p \in here |-> d.places[p]]
  <2>1. DOMAIN f = here /\ \A p \in here : f[p] = d.places[p]
    OBVIOUS
  <2> HIDE DEF f, Upto
  <2>2. w = [places |-> w.places, items |-> Empty.items, events |-> {}]
    BY DEF Written
  <2>3. new = [w EXCEPT !.places = Over(f, w.places)]
    BY <1>6 DEF f
  <2>4. new = [places |-> Over(f, w.places), items |-> Empty.items, events |-> {}]
    BY <2>2, <2>3
  <2>5. DOMAIN Over(f, w.places) = here \cup Upto(l)
    BY <2>1, <1>3 DEF Over
  <2>6. \A p \in here \cup Upto(l) : Over(f, w.places)[p] = d.places[p]
    BY <2>1, <1>3 DEF Over
  <2>7. Over(f, w.places) = [p \in here \cup Upto(l) |-> d.places[p]]
    BY <2>5, <2>6 DEF Over
  <2>8. new.places = [p \in Upto(l + 1) |-> d.places[p]]
    BY <2>4, <2>7, <1>5
  <2>9. new = [places |-> new.places, items |-> Empty.items, events |-> {}]
    BY <2>4
  <2>10. QED
    BY <2>8, <2>9 DEF Written, Upto
<1>7. \A p \in here : d.places[p].up \in DOMAIN w.places \cup here \cup {Nil}
  BY <1>3, <1>4
<1>8. QED
  BY <1>6, <1>7

LEMMA WrittenRows ==
  ASSUME NEW doc, IsDocument(doc), NEW l, NEW w, Written(doc, w, l)
  PROVE  Rows(w)
<1>1. /\ DOMAIN doc.rows.places \subseteq Places
      /\ \A p \in DOMAIN doc.rows.places : doc.rows.places[p] \in PlaceRow
  BY DEF IsDocument, Rows
<1>2. /\ DOMAIN w.places \subseteq DOMAIN doc.rows.places
      /\ \A p \in DOMAIN w.places : w.places[p] = doc.rows.places[p]
      /\ w.places = [p \in DOMAIN w.places |-> w.places[p]]
      /\ w.items = Empty.items /\ w.events = {}
      /\ w = [places |-> w.places, items |-> w.items, events |-> w.events]
  BY DEF Written
<1>3. w.places \in [DOMAIN w.places -> PlaceRow]
  BY <1>1, <1>2
<1>4. DOMAIN w.items = {} /\ w.items \in [DOMAIN w.items -> ItemRow]
  BY <1>2 DEF Empty
<1>5. QED
  BY <1>1, <1>2, <1>3, <1>4 DEF Rows

\* When all levels are written, the rows complete the document.
LEMMA RowsComplete ==
  ASSUME NEW doc, IsDocument(doc), Valid(doc), NEW l, NEW w, Written(doc, w, l),
         DOMAIN doc.rows.places = DOMAIN w.places,
         NEW items, items = [i \in DOMAIN doc.rows.items |-> ImportTruth(doc.version, doc.rows.items[i])]
  PROVE  /\ \A i \in DOMAIN items : QuantityIsTrue(items[i])
         /\ \A new : new = [w EXCEPT !.items = items, !.events = doc.rows.events] => Imported(doc, new)
<1>1. w = [places |-> w.places, items |-> Empty.items, events |-> {}]
  BY DEF Written
<1>2. doc.rows.places = [p \in DOMAIN doc.rows.places |-> doc.rows.places[p]]
  BY DEF IsDocument, Rows
<1>3. w.places = doc.rows.places
  <2>1. PICK D : D = {q \in DOMAIN doc.rows.places : Depth(doc.rows, q) < l}
    OBVIOUS
  <2>2. w.places = [p \in D |-> doc.rows.places[p]]
    BY <2>1 DEF Written
  <2>3. D = DOMAIN doc.rows.places
    BY <2>2
  <2>4. QED
    BY <2>2, <2>3, <1>2
<1>4. ASSUME NEW i \in DOMAIN items PROVE QuantityIsTrue(items[i])
  <2>1. PICK item \in ItemRow, v \in Versions : item = doc.rows.items[i] /\ v = doc.version
    BY DocumentItems
  <2>2. PICK new : new = ImportTruth(v, item)
    OBVIOUS
  <2>3. ValidItem(v, doc.rows, item)
    BY <2>1 DEF Valid, ValidItems
  <2>4. QuantityIsTrue(new)
    BY <2>2, <2>3, ImportTruthHolds
  <2>5. QED
    BY <2>1, <2>2, <2>4
<1>5. ASSUME NEW new, new = [w EXCEPT !.items = items, !.events = doc.rows.events]
      PROVE  Imported(doc, new)
  <2>1. new = [places |-> w.places, items |-> items, events |-> doc.rows.events]
    BY <1>1, <1>5
  <2>2. QED
    BY <2>1, <1>3 DEF Imported
<1>6. QED
  BY <1>4, <1>5

-----------------------------------------------------------------------------
(* The invariant *)

\* Every state of the database has been what the format allows.
HistoryIsGood == db \in past /\ \A d \in past : DbOK(d)

Counts ==
  /\ sessions \in Nat /\ others \in 0 .. MaxOther /\ kills \in 0 .. MaxKills
  /\ sidecar \in BOOLEAN

\* The items of a snapshot up to a page.
ItemsUpTo(d, n) == [i \in {j \in DOMAIN d.items : j <= n} |-> d.items[i]]

\* What an export has written of its snapshot.
ExportIsOn ==
  /\ snapshot \in past
  /\ partial = [places |-> IF ex = "places" THEN Empty.places ELSE snapshot.places,
                items |-> IF ex = "places" THEN Empty.items
                          ELSE IF ex = "items" THEN ItemsUpTo(snapshot, page) ELSE snapshot.items,
                events |-> IF ex = "written" THEN snapshot.events ELSE {}]

ExportInv ==
  /\ page \in {0} \cup Items
  /\ \/ /\ ex \in {"none", "ready", "done", "dead"}
        /\ snapshot = Empty /\ partial = Empty
     \/ ex = "places" /\ page = 0 /\ ExportIsOn
     \/ ex \in {"items", "events", "written"} /\ ExportIsOn
  /\ exported # Nil => exported = Document(V3, exported.rows) /\ exported.rows \in past

BootInv ==
  /\ boot = [pc |-> boot.pc, files |-> boot.files, manifest |-> boot.manifest]
  /\ \A m \in boot.files : m # Nil => IsManifest(m)
  /\ \/ boot.pc \in {"none", "ready", "refused"}
     \/ /\ boot.pc \in {"loaded", "checked", "empty", "applied"}
        /\ IsManifest(boot.manifest) /\ ValidManifest(boot.manifest)
  /\ boot.pc = "applied" => \E d \in past : Fulfils(d, boot.manifest)

Accepted(doc) == doc # Nil /\ IsDocument(doc) /\ Valid(doc)

\* What an import has read and built.
ImportInv ==
  /\ given # Nil => IsDocument(given)
  /\ source # Nil => IsDocument(source)
  /\ level \in Nat
  /\ \/ im \in {"ready", "checked"} /\ work = Empty /\ level = 0
     \/ im \in {"refused", "done", "dead"} /\ work = Empty
     \/ im = "read" /\ source # Nil /\ work = Empty /\ level = 0
     \/ im = "writing" /\ Accepted(source) /\ Written(source, work, level)
     \/ im \in {"built", "staged", "clear", "linked"} /\ Accepted(source) /\ Imported(source, work)

\* A database that an import has published is all of a document.
TargetInv ==
  /\ target.by \in {"nobody", "import", "other"}
  /\ im = "linked" => target.by = "import"
  /\ target.by = "import" => Accepted(target.from) /\ Imported(target.from, target.db)

TransferInv == HistoryIsGood /\ Counts /\ ExportInv /\ BootInv /\ ImportInv /\ TargetInv

-----------------------------------------------------------------------------
(* What a step touches *)

LEMMA ExportFrame ==
  ASSUME [TransferNext]_transferVars
  PROVE  \/ exportVars' = exportVars
         \/ ExportBegins \/ WritePlaces \/ WriteItems \/ WriteEvents \/ ExportEnds \/ KillExport
<1>1. CASE TransferNext
  BY <1>1 DEF TransferNext, SessionCommits, BootstrapLoad, BootstrapCheck, BootstrapLook, BootstrapApply,
       ImportBegins, ReadDocument, Validate, WriteLevel, WriteRows, CheckAgain, CheckSidecars, Link,
       PublishImport, KillImport, OtherCreates, OtherOpens, OtherCloses, OtherDeletes, OtherStep
<1>2. CASE UNCHANGED transferVars
  BY <1>2 DEF transferVars
<1>3. QED
  BY <1>1, <1>2

LEMMA DatabaseFrame ==
  ASSUME [TransferNext]_transferVars
  PROVE  (db' = db /\ past' = past) \/ SessionCommits \/ BootstrapApply
<1>1. CASE TransferNext
  BY <1>1 DEF TransferNext, BootstrapLoad, BootstrapCheck, BootstrapLook,
       ExportBegins, WritePlaces, WriteItems, WriteEvents, ExportEnds, KillExport,
       ImportBegins, ReadDocument, Validate, WriteLevel, WriteRows, CheckAgain, CheckSidecars, Link,
       PublishImport, KillImport, OtherCreates, OtherOpens, OtherCloses, OtherDeletes, OtherStep
<1>2. CASE UNCHANGED transferVars
  BY <1>2 DEF transferVars
<1>3. QED
  BY <1>1, <1>2

LEMMA BootFrame ==
  ASSUME [TransferNext]_transferVars
  PROVE  boot' = boot \/ BootstrapLoad \/ BootstrapCheck \/ BootstrapLook \/ BootstrapApply
<1>1. CASE TransferNext
  BY <1>1 DEF TransferNext, SessionCommits,
       ExportBegins, WritePlaces, WriteItems, WriteEvents, ExportEnds, KillExport,
       ImportBegins, ReadDocument, Validate, WriteLevel, WriteRows, CheckAgain, CheckSidecars, Link,
       PublishImport, KillImport, OtherCreates, OtherOpens, OtherCloses, OtherDeletes, OtherStep
<1>2. CASE UNCHANGED transferVars
  BY <1>2 DEF transferVars
<1>3. QED
  BY <1>1, <1>2

LEMMA ImportFrame ==
  ASSUME [TransferNext]_transferVars
  PROVE  /\ given' = given
         /\ \/ importVars' = importVars
            \/ ImportBegins \/ ReadDocument \/ Validate \/ WriteLevel \/ WriteRows
            \/ CheckAgain \/ CheckSidecars \/ Link \/ PublishImport \/ KillImport
<1>1. CASE TransferNext
  BY <1>1 DEF TransferNext, SessionCommits, BootstrapLoad, BootstrapCheck, BootstrapLook, BootstrapApply,
       ExportBegins, WritePlaces, WriteItems, WriteEvents, ExportEnds, KillExport,
       ImportBegins, ReadDocument, Validate, WriteLevel, WriteRows, CheckAgain, CheckSidecars, Link,
       PublishImport, KillImport, OtherCreates, OtherOpens, OtherCloses, OtherDeletes, OtherStep
<1>2. CASE UNCHANGED transferVars
  BY <1>2 DEF transferVars
<1>3. QED
  BY <1>1, <1>2

LEMMA TargetFrame ==
  ASSUME [TransferNext]_transferVars
  PROVE  \/ target' = target \/ Link \/ PublishImport
         \/ OtherCreates \/ OtherDeletes
<1>1. CASE TransferNext
  BY <1>1 DEF TransferNext, SessionCommits, BootstrapLoad, BootstrapCheck, BootstrapLook, BootstrapApply,
       ExportBegins, WritePlaces, WriteItems, WriteEvents, ExportEnds, KillExport,
       ImportBegins, ReadDocument, Validate, WriteLevel, WriteRows, CheckAgain, CheckSidecars,
       KillImport, OtherOpens, OtherCloses, OtherStep, fileVars
<1>2. CASE UNCHANGED transferVars
  BY <1>2 DEF transferVars, fileVars
<1>3. QED
  BY <1>1, <1>2

LEMMA TransferStarts ==
  ASSUME TransferInit
  PROVE  TransferInv
<1>1. PICK s \in Scenarios :
        /\ db = s.db /\ past = {s.db} /\ sessions = s.sessions
        /\ ex = s.ex /\ snapshot = Empty /\ page = 0 /\ partial = Empty /\ exported = Nil
        /\ given = s.given
        /\ boot = [pc |-> IF s.files = {} THEN "none" ELSE "ready", files |-> s.files, manifest |-> Nil]
        /\ im = "ready" /\ source = Nil /\ level = 0 /\ work = Empty
        /\ target = Nothing /\ sidecar = FALSE /\ others = s.others /\ kills = MaxKills
  BY DEF TransferInit
<1>2. /\ Rows(s.db) /\ Valid(Document(V3, s.db)) /\ s.sessions \in Nat
      /\ s.ex \in {"none", "ready"} /\ s.others \in 0 .. MaxOther
      /\ s.given # Nil => IsDocument(s.given)
      /\ \A m \in s.files : m # Nil => IsManifest(m)
  BY TransferConstants DEF IsScenario
<1>3. HistoryIsGood
  BY <1>1, <1>2 DEF HistoryIsGood, DbOK
<1>4. Counts
  <2>1. kills \in 0 .. MaxKills
    BY <1>1, TransferConstants
  <2>2. others \in 0 .. MaxOther /\ sessions \in Nat /\ sidecar \in BOOLEAN
    BY <1>1, <1>2
  <2>3. QED
    BY <2>1, <2>2 DEF Counts
<1>5. ExportInv
  BY <1>1, <1>2 DEF ExportInv
<1>6. BootInv
  <2>1. boot = [pc |-> boot.pc, files |-> boot.files, manifest |-> boot.manifest]
    BY <1>1
  <2>2. boot.files = s.files /\ boot.pc \in {"none", "ready"}
    BY <1>1
  <2>3. QED
    BY <2>1, <2>2, <1>2 DEF BootInv
<1>7. ImportInv
  BY <1>1, <1>2 DEF ImportInv
<1>8. TargetInv
  BY <1>1 DEF TargetInv, Nothing
<1>9. QED
  BY <1>3, <1>4, <1>5, <1>6, <1>7, <1>8 DEF TransferInv

LEMMA CountsStep ==
  ASSUME Counts, [TransferNext]_transferVars
  PROVE  Counts'
<1>1. sessions' \in Nat
  <2>1. CASE TransferNext
    <3>1. sessions' = sessions \/ (sessions > 0 /\ sessions' = sessions - 1)
      BY <2>1 DEF TransferNext, SessionCommits, BootstrapLoad, BootstrapCheck, BootstrapLook, BootstrapApply,
       ExportBegins, WritePlaces, WriteItems, WriteEvents, ExportEnds, KillExport,
       ImportBegins, ReadDocument, Validate, WriteLevel, WriteRows, CheckAgain, CheckSidecars, Link,
       PublishImport, KillImport, OtherCreates, OtherOpens, OtherCloses, OtherDeletes, OtherStep
    <3>2. QED
      BY <3>1 DEF Counts
  <2>2. CASE UNCHANGED transferVars
    BY <2>2 DEF transferVars, Counts
  <2>3. QED
    BY <2>1, <2>2
<1>2. kills' \in 0 .. MaxKills
  <2>1. CASE TransferNext
    <3>1. kills' = kills \/ (kills > 0 /\ kills' = kills - 1)
      BY <2>1 DEF TransferNext, SessionCommits, BootstrapLoad, BootstrapCheck, BootstrapLook, BootstrapApply,
       ExportBegins, WritePlaces, WriteItems, WriteEvents, ExportEnds, KillExport,
       ImportBegins, ReadDocument, Validate, WriteLevel, WriteRows, CheckAgain, CheckSidecars, Link,
       PublishImport, KillImport, OtherCreates, OtherOpens, OtherCloses, OtherDeletes, OtherStep
    <3>2. QED
      BY <3>1, TransferConstants DEF Counts
  <2>2. CASE UNCHANGED transferVars
    BY <2>2 DEF transferVars, Counts
  <2>3. QED
    BY <2>1, <2>2
<1>3. others' \in 0 .. MaxOther
  <2>1. CASE TransferNext
    <3>1. others' = others \/ (others > 0 /\ others' = others - 1)
      BY <2>1 DEF TransferNext, SessionCommits, BootstrapLoad, BootstrapCheck, BootstrapLook, BootstrapApply,
       ExportBegins, WritePlaces, WriteItems, WriteEvents, ExportEnds, KillExport,
       ImportBegins, ReadDocument, Validate, WriteLevel, WriteRows, CheckAgain, CheckSidecars, Link,
       PublishImport, KillImport, OtherCreates, OtherOpens, OtherCloses, OtherDeletes, OtherStep, fileVars
    <3>2. QED
      BY <3>1, TransferConstants DEF Counts
  <2>2. CASE UNCHANGED transferVars
    BY <2>2 DEF transferVars, fileVars, Counts
  <2>3. QED
    BY <2>1, <2>2
<1>4. sidecar' \in BOOLEAN
  <2>1. CASE TransferNext
    <3>1. sidecar' = sidecar \/ sidecar' = TRUE \/ sidecar' = FALSE
      BY <2>1 DEF TransferNext, SessionCommits, BootstrapLoad, BootstrapCheck, BootstrapLook, BootstrapApply,
       ExportBegins, WritePlaces, WriteItems, WriteEvents, ExportEnds, KillExport,
       ImportBegins, ReadDocument, Validate, WriteLevel, WriteRows, CheckAgain, CheckSidecars, Link,
       PublishImport, KillImport, OtherCreates, OtherOpens, OtherCloses, OtherDeletes, OtherStep, fileVars
    <3>2. QED
      BY <3>1 DEF Counts
  <2>2. CASE UNCHANGED transferVars
    BY <2>2 DEF transferVars, fileVars, Counts
  <2>3. QED
    BY <2>1, <2>2
<1>5. QED
  BY <1>1, <1>2, <1>3, <1>4 DEF Counts

LEMMA TargetStep ==
  ASSUME ImportInv, TargetInv, [TransferNext]_transferVars
  PROVE  /\ TargetInv'
         /\ im' # im /\ target.by = "other" => target' = target
<1>1. CASE Link
  <2>1. CASE ~There
    <3>1. target' = [by |-> "import", db |-> work, from |-> source] /\ im' = "linked"
      BY <1>1, <2>1 DEF Link, ImportTo
    <3>2. Accepted(source) /\ Imported(source, work)
      BY <1>1 DEF Link, ImportInv
    <3>3. target.by # "other"
      BY <2>1 DEF There
    <3>4. target'.by = "import" /\ target'.from = source /\ target'.db = work
      BY <3>1
    <3>5. QED
      BY <3>1, <3>2, <3>3, <3>4 DEF TargetInv
  <2>2. CASE There
    <3>1. target' = target /\ im' = "refused"
      BY <1>1, <2>2 DEF Link, Fail, ImportTo
    <3>2. QED
      BY <3>1 DEF TargetInv
  <2>3. QED
    BY <2>1, <2>2
<1>2. CASE PublishImport
  <2>1. target.by = "import"
    BY <1>2 DEF PublishImport, TargetInv
  <2>2. im' \in {"refused", "done"} /\ (target' = target \/ target' = Nothing)
    BY <1>2 DEF PublishImport, Fail, ImportTo
  <2>3. Nothing.by = "nobody"
    BY DEF Nothing
  <2>4. QED
    BY <2>1, <2>2, <2>3 DEF TargetInv
<1>3. CASE OtherCreates
  <2>1. target' = [by |-> "other", db |-> Empty, from |-> Nil] /\ im' = im
    BY <1>3 DEF OtherCreates, OtherStep, importVars
  <2>2. target.by = "nobody"
    BY <1>3 DEF OtherCreates, There
  <2>3. target'.by = "other"
    BY <2>1
  <2>4. QED
    BY <2>1, <2>2, <2>3 DEF TargetInv
<1>4. CASE OtherDeletes
  <2>1. target' = Nothing /\ im' = im /\ target.by = "other"
    BY <1>4 DEF OtherDeletes, OtherStep, importVars
  <2>2. target'.by = "nobody"
    BY <2>1 DEF Nothing
  <2>3. QED
    BY <2>1, <2>2 DEF TargetInv
<1>5. CASE target' = target
  <2>1. im' = "linked" => target.by = "import"
    <3>1. CASE importVars' = importVars
      BY <3>1 DEF importVars, TargetInv
    <3>2. CASE Link
      BY <3>2, <1>5 DEF Link, Fail, ImportTo
    <3>3. CASE ImportBegins \/ ReadDocument \/ Validate \/ WriteLevel \/ WriteRows
               \/ CheckAgain \/ CheckSidecars \/ PublishImport \/ KillImport
      BY <3>3 DEF ImportBegins, ReadDocument, Validate, WriteLevel, WriteRows, CheckAgain, CheckSidecars,
           PublishImport, KillImport, Fail, ImportTo
    <3>4. QED
      BY <3>1, <3>2, <3>3, ImportFrame
  <2>2. QED
    BY <2>1, <1>5 DEF TargetInv
<1>6. QED
  BY <1>1, <1>2, <1>3, <1>4, <1>5, TargetFrame

\* What was in the history stays there.
LEMMA HistoryGrows ==
  ASSUME [TransferNext]_transferVars
  PROVE  past \subseteq past'
<1>1. CASE db' = db /\ past' = past
  BY <1>1
<1>2. CASE SessionCommits
  BY <1>2 DEF SessionCommits, Commit
<1>3. CASE BootstrapApply
  BY <1>3 DEF BootstrapApply, Commit
<1>4. QED
  BY <1>1, <1>2, <1>3, DatabaseFrame

\* A manifest whose bootstrap is about to be applied.
LEMMA BootstrapManifest ==
  ASSUME BootInv, BootstrapApply
  PROVE  IsManifest(boot.manifest) /\ ValidManifest(boot.manifest)
  BY DEF BootInv, BootstrapApply

\* Whatever was committed before a bootstrap, it commits what the format allows
\* and all of its manifest.
LEMMA AppliedIsGood ==
  ASSUME NEW d, DbOK(d), NEW m, IsManifest(m), ValidManifest(m),
         NEW new, new \in Filled(d, m), ~ Refused(new, m)
  PROVE  DbOK(new) /\ Fulfils(new, m)
<1>1. PICK at \in Injection(Range(m.paths), Places \ DOMAIN d.places),
           key \in Injection(DOMAIN m.items, Items \ DOMAIN d.items) : Fills(new, d, m, at, key)
  BY FilledIs
<1> DEFINE Q == Places \ DOMAIN d.places
           R == Items \ DOMAIN d.items
           S == DOMAIN m.items
<1>2. Q \subseteq Places /\ Q \cap DOMAIN d.places = {} /\ R \subseteq Items /\ R \cap DOMAIN d.items = {}
  OBVIOUS
<1>3. at \in Injection(Range(m.paths), Q) /\ key \in Injection(S, R)
      /\ S \subseteq DOMAIN m.items /\ DOMAIN m.items \subseteq S
  OBVIOUS
<1>4. ValidSiblings(new)
  BY DEF Refused
<1> HIDE DEF Q, R, S
<1>5. DbOK(new)
  BY <1>1, <1>2, <1>3, <1>4, FilledIsGood
<1>6. Rows(new) /\ ValidHierarchy(new)
  BY <1>5, DbParts
<1>7. Fulfils(new, m)
  BY <1>1, <1>2, <1>3, <1>6, FilledFulfils
<1>8. QED
  BY <1>5, <1>7

LEMMA HistoryStep ==
  ASSUME HistoryIsGood, BootInv, [TransferNext]_transferVars
  PROVE  HistoryIsGood'
<1>1. CASE db' = db /\ past' = past
  BY <1>1 DEF HistoryIsGood
<1>2. CASE SessionCommits
  <2>1. PICK new : new \in Changes(db) /\ ValidSiblings(new) /\ db' = new /\ past' = past \cup {new}
    BY <1>2 DEF SessionCommits, Commit
  <2>2. DbOK(db)
    BY DEF HistoryIsGood
  <2>3. DbOK(new)
    BY <2>1, <2>2, ChangesAreGood
  <2>4. QED
    BY <2>1, <2>3 DEF HistoryIsGood
<1>3. CASE BootstrapApply
  <2> DEFINE m == boot.manifest
  <2>1. IsManifest(m) /\ ValidManifest(m)
    BY <1>3, BootstrapManifest
  <2>2. DbOK(db)
    BY DEF HistoryIsGood
  <2>3. CASE db' = db /\ past' = past
    BY <1>1, <2>3
  <2>4. CASE ~ (db' = db /\ past' = past)
    <3>1. PICK new : new \in Filled(db, m) /\ ~ Refused(new, m) /\ db' = new /\ past' = past \cup {new}
      BY <1>3, <2>4 DEF BootstrapApply, Commit
    <3> HIDE DEF m
    <3>2. DbOK(new)
      BY <3>1, <2>1, <2>2, AppliedIsGood
    <3>3. QED
      BY <3>1, <3>2 DEF HistoryIsGood
  <2>5. QED
    BY <2>3, <2>4
<1>4. QED
  BY <1>1, <1>2, <1>3, DatabaseFrame

LEMMA BootStep ==
  ASSUME HistoryIsGood, BootInv, [TransferNext]_transferVars
  PROVE  BootInv'
<1>1. boot = [pc |-> boot.pc, files |-> boot.files, manifest |-> boot.manifest]
      /\ (\A m \in boot.files : m # Nil => IsManifest(m))
  BY DEF BootInv
<1>2. ASSUME NEW pc, pc \in {"refused", "checked", "empty"}, BootstrapTo(pc),
             boot.pc \in {"loaded", "checked", "empty"}
      PROVE  BootInv'
  <2>1. boot' = [pc |-> pc, files |-> boot.files, manifest |-> boot.manifest]
    BY <1>1, <1>2 DEF BootstrapTo
  <2>2. IsManifest(boot.manifest) /\ ValidManifest(boot.manifest)
    BY <1>2 DEF BootInv
  <2>3. boot'.pc = pc /\ boot'.files = boot.files /\ boot'.manifest = boot.manifest
        /\ boot' = [pc |-> boot'.pc, files |-> boot'.files, manifest |-> boot'.manifest]
    BY <2>1
  <2>4. QED
    BY <2>2, <2>3, <1>1, <1>2 DEF BootInv
<1>3. CASE boot' = boot
  BY <1>3, HistoryGrows DEF BootInv
<1>4. CASE BootstrapLoad
  <2>1. PICK m \in boot.files :
          boot' = [boot EXCEPT !.pc = IF ValidManifest(m) THEN "loaded" ELSE "refused", !.manifest = m]
    BY <1>4 DEF BootstrapLoad
  <2>2. PICK pc : pc = IF ValidManifest(m) THEN "loaded" ELSE "refused"
    OBVIOUS
  <2>3. boot' = [pc |-> pc, files |-> boot.files, manifest |-> m]
    BY <2>1, <2>2, <1>1
  <2>4. boot'.pc = pc /\ boot'.files = boot.files /\ boot'.manifest = m
        /\ boot' = [pc |-> boot'.pc, files |-> boot'.files, manifest |-> boot'.manifest]
    BY <2>3
  <2>5. pc = "loaded" => ValidManifest(m) /\ IsManifest(m)
    <3>1. ValidManifest(m) => m # Nil
      BY DEF ValidManifest
    <3>2. QED
      BY <3>1, <2>2, <1>1
  <2>6. pc \in {"loaded", "refused"}
    BY <2>2
  <2>7. QED
    BY <2>4, <2>5, <2>6, <1>1 DEF BootInv
<1>5. CASE BootstrapCheck
  <2>1. \E pc \in {"refused", "checked"} : BootstrapTo(pc)
    BY <1>5 DEF BootstrapCheck
  <2>2. boot.pc = "loaded"
    BY <1>5 DEF BootstrapCheck
  <2>3. QED
    BY <2>1, <2>2, <1>2
<1>6. CASE BootstrapLook
  <2>1. \E pc \in {"refused", "empty"} : BootstrapTo(pc)
    BY <1>6 DEF BootstrapLook
  <2>2. boot.pc = "checked"
    BY <1>6 DEF BootstrapLook
  <2>3. QED
    BY <2>1, <2>2, <1>2
<1>7. CASE BootstrapApply
  <2> DEFINE m == boot.manifest
             filled == {new \in Filled(db, m) : ~ Refused(new, m)}
  <2>1. IsManifest(m) /\ ValidManifest(m) /\ boot.pc = "empty"
    BY <1>7, BootstrapManifest DEF BootstrapApply
  <2>2. DbOK(db)
    BY DEF HistoryIsGood
  <2>3. CASE filled # {}
    <3>1. PICK new : new \in Filled(db, m) /\ ~ Refused(new, m) /\ past' = past \cup {new}
                     /\ BootstrapTo("applied")
      BY <1>7, <2>3 DEF BootstrapApply, Commit
    <3>2. boot' = [pc |-> "applied", files |-> boot.files, manifest |-> m]
      BY <3>1, <1>1 DEF BootstrapTo
    <3> HIDE DEF m
    <3>3. Fulfils(new, m)
      BY <3>1, <2>1, <2>2, AppliedIsGood
    <3>4. boot'.pc = "applied" /\ boot'.files = boot.files /\ boot'.manifest = m
          /\ boot' = [pc |-> boot'.pc, files |-> boot'.files, manifest |-> boot'.manifest]
      BY <3>2
    <3>5. \E d \in past' : Fulfils(d, m)
      BY <3>1, <3>3
    <3>6. QED
      BY <3>4, <3>5, <2>1, <1>1 DEF BootInv
  <2>4. CASE filled = {}
    <3>1. db # Empty
      <4> HIDE DEF m
      <4>1. {new \in Filled(Empty, m) : ~ Refused(new, m)} # {}
        BY <2>1, FilledFits
      <4>2. QED
        BY <4>1, <2>4
    <3>2. BootstrapTo("refused")
      BY <1>7, <2>4, <3>1 DEF BootstrapApply
    <3>3. QED
      BY <3>2, <2>1, <1>2
  <2>5. QED
    BY <2>3, <2>4
<1>8. QED
  BY <1>3, <1>4, <1>5, <1>6, <1>7, BootFrame

LEMMA SectionsAre ==
  ASSUME NextSection
  PROVE  /\ ex = "places" => ex' = "items"
         /\ ex = "items" => ex' = "events"
         /\ ex = "events" => ex' = "written"
<1>1. /\ Len(Sections) = 4 /\ Sections[1] = "places" /\ Sections[2] = "items"
      /\ Sections[3] = "events" /\ Sections[4] = "written"
  BY DEF Sections
<1>2. ex' = Sections[CHOOSE k \in 2 .. 4 : Sections[k - 1] = ex]
  BY <1>1 DEF NextSection
<1>3. \A k \in 2 .. 4 : k = 2 \/ k = 3 \/ k = 4
  OBVIOUS
<1>4. 2 - 1 = 1 /\ 3 - 1 = 2 /\ 4 - 1 = 3
  OBVIOUS
<1>5. ASSUME ex = "places" PROVE ex' = "items"
  <2>1. (CHOOSE k \in 2 .. 4 : Sections[k - 1] = ex) = 2
    BY <1>1, <1>3, <1>4, <1>5
  <2>2. QED
    BY <2>1, <1>1, <1>2
<1>6. ASSUME ex = "items" PROVE ex' = "events"
  <2>1. (CHOOSE k \in 2 .. 4 : Sections[k - 1] = ex) = 3
    BY <1>1, <1>3, <1>4, <1>6
  <2>2. QED
    BY <2>1, <1>1, <1>2
<1>7. ASSUME ex = "events" PROVE ex' = "written"
  <2>1. (CHOOSE k \in 2 .. 4 : Sections[k - 1] = ex) = 4
    BY <1>1, <1>3, <1>4, <1>7
  <2>2. QED
    BY <2>1, <1>1, <1>2
<1>8. QED
  BY <1>5, <1>6, <1>7

\* Pages end where the items end.
LEMMA PagesAre ==
  ASSUME NEW d, Rows(d), NEW n \in {0} \cup Items
  PROVE  /\ ItemsUpTo(d, 0) = Empty.items
         /\ (\A i \in DOMAIN d.items : i <= n) => ItemsUpTo(d, n) = d.items
         /\ \A i \in DOMAIN d.items :
              i > n /\ (\A k \in DOMAIN d.items : k > n => i <= k)
              => Over([j \in {i} |-> d.items[i]], ItemsUpTo(d, n)) = ItemsUpTo(d, i)
<1>1. DOMAIN d.items \subseteq Items /\ d.items = [i \in DOMAIN d.items |-> d.items[i]]
  BY DEF Rows
<1>2. \A i \in DOMAIN d.items : i \in Nat /\ i > 0
  <2>1. Items \subseteq Nat \ {0}
    BY TransferConstants
  <2>2. \A i \in Nat \ {0} : i \in Nat /\ i > 0
    OBVIOUS
  <2>3. QED
    BY <2>1, <2>2, <1>1
<1>3. n \in Nat
  <2>1. Items \subseteq Nat
    BY TransferConstants
  <2>2. QED
    BY <2>1
<1>4. ItemsUpTo(d, 0) = Empty.items
  <2>1. {j \in DOMAIN d.items : j <= 0} = {}
    BY <1>2
  <2>2. QED
    BY <2>1 DEF ItemsUpTo, Empty
<1>5. ASSUME \A i \in DOMAIN d.items : i <= n PROVE ItemsUpTo(d, n) = d.items
  <2>1. {j \in DOMAIN d.items : j <= n} = DOMAIN d.items
    BY <1>5
  <2>2. QED
    BY <2>1, <1>1 DEF ItemsUpTo
<1>6. ASSUME NEW i \in DOMAIN d.items, i > n, \A k \in DOMAIN d.items : k > n => i <= k
      PROVE  Over([j \in {i} |-> d.items[i]], ItemsUpTo(d, n)) = ItemsUpTo(d, i)
  <2> DEFINE f == [j \in {i} |-> d.items[i]]
             A == {j \in DOMAIN d.items : j <= n}
             B == {j \in DOMAIN d.items : j <= i}
  <2>1. B = {i} \cup A
    <3>1. \A j \in DOMAIN d.items : j <= i <=> j = i \/ j <= n
      BY <1>2, <1>3, <1>6
    <3>2. QED
      BY <3>1
  <2>2. DOMAIN f = {i} /\ f[i] = d.items[i]
    OBVIOUS
  <2>3. ItemsUpTo(d, n) = [j \in A |-> d.items[j]] /\ ItemsUpTo(d, i) = [j \in B |-> d.items[j]]
    BY DEF ItemsUpTo
  <2> HIDE DEF f, A, B
  <2>4. DOMAIN Over(f, ItemsUpTo(d, n)) = B
    BY <2>1, <2>2, <2>3 DEF Over
  <2>5. \A j \in B : Over(f, ItemsUpTo(d, n))[j] = d.items[j]
    BY <2>1, <2>2, <2>3 DEF Over
  <2>6. Over(f, ItemsUpTo(d, n)) = [j \in B |-> d.items[j]]
    BY <2>4, <2>5 DEF Over
  <2>7. QED
    BY <2>3, <2>6 DEF f
<1>7. QED
  BY <1>4, <1>5, <1>6

LEMMA ExportStep ==
  ASSUME HistoryIsGood, ExportInv, [TransferNext]_transferVars
  PROVE  ExportInv'
<1>1. past \subseteq past'
  BY HistoryGrows
<1>2. exported # Nil => exported = Document(V3, exported.rows) /\ exported.rows \in past'
  BY <1>1 DEF ExportInv
<1>3. page \in {0} \cup Items
  BY DEF ExportInv
<1>4. CASE exportVars' = exportVars
  <2>1. ex' = ex /\ snapshot' = snapshot /\ page' = page /\ partial' = partial /\ exported' = exported
    BY <1>4 DEF exportVars
  <2>2. ExportIsOn => ExportIsOn'
    BY <2>1, <1>1 DEF ExportIsOn
  <2>3. QED
    BY <2>1, <2>2, <1>2 DEF ExportInv
<1>5. CASE ExportBegins
  <2>1. ex' = "places" /\ snapshot' = db /\ page' = 0 /\ partial' = Empty /\ exported' = exported /\ db \in past
    BY <1>5 DEF ExportBegins, Sections, HistoryIsGood
  <2>2. ExportIsOn'
    BY <2>1, <1>1 DEF ExportIsOn, Empty
  <2>3. QED
    BY <2>1, <2>2, <1>2 DEF ExportInv
<1>6. ASSUME ex \in {"places", "items", "events", "written"}
      PROVE  ExportIsOn /\ snapshot \in past' /\ Rows(snapshot)
             /\ snapshot = [places |-> snapshot.places, items |-> snapshot.items, events |-> snapshot.events]
  <2>1. ExportIsOn
    BY <1>6 DEF ExportInv
  <2>2. snapshot \in past /\ DbOK(snapshot)
    BY <2>1 DEF ExportIsOn, HistoryIsGood
  <2>3. QED
    BY <2>1, <2>2, <1>1 DEF DbOK, Rows
<1>7. CASE WritePlaces
  <2>1. /\ ex = "places" /\ ex' = "items" /\ partial' = [partial EXCEPT !.places = snapshot.places]
        /\ snapshot' = snapshot /\ page' = page /\ exported' = exported
    BY <1>7, SectionsAre DEF WritePlaces, Seen
  <2>2. page = 0 /\ partial = [places |-> Empty.places, items |-> Empty.items, events |-> {}]
    BY <2>1, <1>6 DEF ExportInv, ExportIsOn
  <2>3. partial' = [places |-> snapshot.places, items |-> Empty.items, events |-> {}]
    BY <2>1, <2>2
  <2>4. ItemsUpTo(snapshot, page) = Empty.items
    BY <2>1, <2>2, <1>6, PagesAre
  <2>5. ExportIsOn'
    BY <2>1, <2>3, <2>4, <1>6 DEF ExportIsOn
  <2>6. QED
    BY <2>1, <2>5, <1>2, <1>3 DEF ExportInv
<1>8. CASE WriteItems
  <2> DEFINE rest == {i \in DOMAIN snapshot.items : i > page}
  <2>1. /\ ex = "items" /\ snapshot' = snapshot /\ exported' = exported
    BY <1>8 DEF WriteItems
  <2>2. partial = [places |-> snapshot.places, items |-> ItemsUpTo(snapshot, page), events |-> {}]
    BY <2>1, <1>6 DEF ExportIsOn
  <2>3. /\ DOMAIN snapshot.items \subseteq Items
        /\ \A i \in DOMAIN snapshot.items : i \in Nat
    BY <2>1, <1>6, TransferConstants DEF Rows
  <2>4. page \in Nat
    BY <1>3, TransferConstants
  <2>5. CASE rest = {}
    <3>1. ex' = "events" /\ page' = page /\ partial' = partial
      BY <1>8, <2>1, <2>5, SectionsAre DEF WriteItems, Seen
    <3>2. \A i \in DOMAIN snapshot.items : i <= page
      BY <2>3, <2>4, <2>5
    <3>3. ItemsUpTo(snapshot, page) = snapshot.items
      BY <3>2, <2>1, <1>3, <1>6, PagesAre
    <3>4. ExportIsOn'
      BY <2>1, <2>2, <3>1, <3>3, <1>6 DEF ExportIsOn
    <3>5. QED
      BY <2>1, <3>1, <3>4, <1>2, <1>3 DEF ExportInv
  <2>6. CASE rest # {}
    <3> DEFINE i == CHOOSE j \in rest : \A k \in rest : j <= k
    <3>1. partial' = Put(partial, i, snapshot.items[i]) /\ page' = i /\ ex' = ex
      BY <1>8, <2>6 DEF WriteItems, Seen
    <3>2. i \in rest /\ \A k \in rest : i <= k
      <4>1. rest \subseteq Nat
        BY <2>3
      <4> HIDE DEF rest
      <4>2. \E j \in rest : \A k \in rest : j <= k
        BY <4>1, <2>6, LeastKey
      <4>3. QED
        BY <4>2
    <3> HIDE DEF i
    <3>3. i \in DOMAIN snapshot.items /\ i > page /\ (\A k \in DOMAIN snapshot.items : k > page => i <= k)
          /\ i \in Items
      BY <3>2, <2>3
    <3>4. Over([j \in {i} |-> snapshot.items[i]], ItemsUpTo(snapshot, page)) = ItemsUpTo(snapshot, i)
      BY <3>3, <2>1, <1>3, <1>6, PagesAre
    <3>5. partial' = [partial EXCEPT !.items = Over([j \in {i} |-> snapshot.items[i]], ItemsUpTo(snapshot, page))]
      BY <3>1, <2>2 DEF Put
    <3>6. partial' = [places |-> snapshot.places, items |-> ItemsUpTo(snapshot, i), events |-> {}]
      BY <3>4, <3>5, <2>2
    <3>7. ExportIsOn'
      BY <2>1, <3>1, <3>6, <1>6 DEF ExportIsOn
    <3>8. QED
      BY <2>1, <3>1, <3>3, <3>7, <1>2 DEF ExportInv
  <2>7. QED
    BY <2>5, <2>6
<1>9. CASE WriteEvents
  <2>1. /\ ex = "events" /\ ex' = "written" /\ partial' = [partial EXCEPT !.events = snapshot.events]
        /\ snapshot' = snapshot /\ page' = page /\ exported' = exported
    BY <1>9, SectionsAre DEF WriteEvents, Seen
  <2>2. partial = [places |-> snapshot.places, items |-> snapshot.items, events |-> {}]
    BY <2>1, <1>6 DEF ExportIsOn
  <2>3. partial' = [places |-> snapshot.places, items |-> snapshot.items, events |-> snapshot.events]
    BY <2>1, <2>2
  <2>4. ExportIsOn'
    BY <2>1, <2>3, <1>6 DEF ExportIsOn
  <2>5. QED
    BY <2>1, <2>4, <1>2, <1>3 DEF ExportInv
<1>10. CASE ExportEnds
  <2>1. /\ ex = "written" /\ ex' = "done" /\ exported' = Document(V3, partial)
        /\ partial' = Empty /\ snapshot' = Empty /\ page' = page
    BY <1>10 DEF ExportEnds
  <2>2. partial = snapshot /\ snapshot \in past'
    BY <2>1, <1>6 DEF ExportIsOn
  <2>3. exported' = Document(V3, exported'.rows) /\ exported'.rows \in past'
    BY <2>1, <2>2 DEF Document
  <2>4. QED
    BY <2>1, <2>3, <1>3 DEF ExportInv
<1>11. CASE KillExport
  <2>1. ex' = "dead" /\ partial' = Empty /\ snapshot' = Empty /\ page' = page /\ exported' = exported
    BY <1>11 DEF KillExport
  <2>2. QED
    BY <2>1, <1>2, <1>3 DEF ExportInv
<1>12. QED
  BY <1>4, <1>5, <1>7, <1>8, <1>9, <1>10, <1>11, ExportFrame

\* What an import can read is a document.
LEMMA ReadsDocuments ==
  ASSUME HistoryIsGood, ExportInv, ImportInv, NEW doc \in {given, exported} \ {Nil}
  PROVE  IsDocument(doc)
<1>1. CASE doc = given
  BY <1>1 DEF ImportInv
<1>2. CASE doc = exported
  <2>1. exported = Document(V3, exported.rows) /\ Rows(exported.rows)
    BY <1>2 DEF ExportInv, HistoryIsGood, DbOK
  <2>2. exported.version = V3
    BY <2>1 DEF Document
  <2>3. QED
    BY <1>2, <2>1, <2>2 DEF IsDocument
<1>3. QED
  BY <1>1, <1>2

LEMMA ImportStep ==
  ASSUME HistoryIsGood, ExportInv, ImportInv, [TransferNext]_transferVars
  PROVE  ImportInv'
<1>1. /\ given' # Nil => IsDocument(given')
      /\ source # Nil => IsDocument(source)
      /\ level \in Nat
  BY ImportFrame DEF ImportInv
<1>2. ASSUME NEW pc, pc \in {"refused", "done", "dead"}, Fail(pc)
      PROVE  ImportInv'
  <2>1. im' = pc /\ source' = Nil /\ work' = Empty /\ level' = 0
    BY <1>2 DEF Fail, ImportTo
  <2>2. QED
    BY <2>1, <1>1, <1>2 DEF ImportInv
<1>3. CASE importVars' = importVars
  <2>1. im' = im /\ source' = source /\ work' = work /\ level' = level
    BY <1>3 DEF importVars
  <2>2. QED
    BY <2>1, <1>1 DEF ImportInv
<1>4. CASE ImportBegins
  <2>1. im' \in {"checked", "refused"} /\ source' = source /\ work' = work /\ level' = level /\ im = "ready"
    BY <1>4 DEF ImportBegins, ImportTo
  <2>2. work = Empty /\ level = 0
    BY <2>1 DEF ImportInv
  <2>3. QED
    BY <2>1, <2>2, <1>1 DEF ImportInv
<1>5. CASE ReadDocument
  <2>1. PICK doc \in {given, exported} \ {Nil} : source' = doc
    BY <1>5 DEF ReadDocument
  <2>2. im' = "read" /\ work' = work /\ level' = level /\ im = "checked"
    BY <1>5 DEF ReadDocument, ImportTo
  <2>3. work = Empty /\ level = 0
    BY <2>2 DEF ImportInv
  <2>4. source' # Nil /\ IsDocument(source')
    BY <2>1, ReadsDocuments
  <2>5. QED
    BY <2>2, <2>3, <2>4, <1>1 DEF ImportInv
<1>6. CASE Validate
  <2>1. im = "read"
    BY <1>6 DEF Validate
  <2>2. source # Nil /\ work = Empty /\ level = 0
    BY <2>1 DEF ImportInv
  <2>3. CASE Valid(source)
    <3>1. im' = "writing" /\ source' = source /\ work' = work /\ level' = level
      BY <1>6, <2>3 DEF Validate, ImportTo
    <3>2. Written(source, work, level)
      BY <2>2, <2>3, <1>1, NothingWritten
    <3>3. QED
      BY <2>2, <2>3, <3>1, <3>2, <1>1 DEF ImportInv, Accepted
  <2>4. CASE ~ Valid(source)
    BY <1>2, <1>6, <2>4 DEF Validate
  <2>5. QED
    BY <2>3, <2>4
<1>7. CASE WriteLevel
  <2> DEFINE here == {p \in DOMAIN source.rows.places : Depth(source.rows, p) = level}
  <2>1. im = "writing"
    BY <1>7 DEF WriteLevel
  <2>2. source # Nil /\ IsDocument(source) /\ Valid(source) /\ Written(source, work, level)
    BY <2>1 DEF ImportInv, Accepted
  <2>3. /\ \A p \in here : source.rows.places[p].up \in DOMAIN work.places \cup here \cup {Nil}
        /\ \A new : new = [work EXCEPT !.places = Over([p \in here |-> source.rows.places[p]], @)]
                    => Written(source, new, level + 1)
    <3>1. PICK there : there = here
      OBVIOUS
    <3> HIDE DEF here
    <3>2. there = {p \in DOMAIN source.rows.places : Depth(source.rows, p) = level}
      BY <3>1 DEF here
    <3>3. /\ \A p \in there : source.rows.places[p].up \in DOMAIN work.places \cup there \cup {Nil}
          /\ \A new : new = [work EXCEPT !.places = Over([p \in there |-> source.rows.places[p]], @)]
                    => Written(source, new, level + 1)
      BY <3>2, <2>2, <1>1, LevelIsWritten
    <3>4. QED
      BY <3>1, <3>3
  <2>4. /\ work' = [work EXCEPT !.places = Over([p \in here |-> source.rows.places[p]], @)]
        /\ level' = level + 1 /\ im' = im /\ source' = source
    BY <1>7, <2>3 DEF WriteLevel
  <2> HIDE DEF here
  <2>5. Written(source, work', level')
    BY <2>3, <2>4
  <2>6. level' \in Nat
    BY <2>4, <1>1
  <2>7. QED
    BY <2>1, <2>2, <2>4, <2>5, <2>6, <1>1 DEF ImportInv, Accepted
<1>8. CASE WriteRows
  <2> DEFINE items == [i \in DOMAIN source.rows.items |-> ImportTruth(source.version, source.rows.items[i])]
  <2>1. im = "writing" /\ DOMAIN source.rows.places = DOMAIN work.places
    BY <1>8 DEF WriteRows
  <2>2. source # Nil /\ IsDocument(source) /\ Valid(source) /\ Written(source, work, level)
    BY <2>1 DEF ImportInv, Accepted
  <2>3. PICK all : all = items
    OBVIOUS
  <2>4. /\ \A i \in DOMAIN all : QuantityIsTrue(all[i])
        /\ \A new : new = [work EXCEPT !.items = all, !.events = source.rows.events] => Imported(source, new)
    BY <2>1, <2>2, <2>3, RowsComplete
  <2>5. /\ work' = [work EXCEPT !.items = all, !.events = source.rows.events]
        /\ im' = "built" /\ source' = source /\ level' = level
    BY <1>8, <2>3, <2>4 DEF WriteRows, ImportTo
  <2>6. Imported(source, work')
    BY <2>4, <2>5
  <2>7. QED
    BY <2>2, <2>5, <2>6, <1>1 DEF ImportInv, Accepted
<1>9. CASE CheckAgain \/ CheckSidecars \/ Link \/ PublishImport
  <2>1. im \in {"built", "staged", "clear", "linked"}
    BY <1>9 DEF CheckAgain, CheckSidecars, Link, PublishImport
  <2>2. Accepted(source) /\ Imported(source, work)
    BY <2>1 DEF ImportInv
  <2>3. \/ im' \in {"staged", "clear", "linked"} /\ source' = source /\ level' = level /\ work' = work
        \/ Fail("refused") \/ Fail("done")
    BY <1>9 DEF CheckAgain, CheckSidecars, Link, PublishImport, ImportTo
  <2>4. CASE im' \in {"staged", "clear", "linked"} /\ source' = source /\ level' = level /\ work' = work
    BY <2>2, <2>4, <1>1 DEF ImportInv
  <2>5. QED
    BY <2>3, <2>4, <1>2
<1>10. CASE KillImport
  BY <1>2, <1>10 DEF KillImport
<1>11. QED
  BY <1>3, <1>4, <1>5, <1>6, <1>7, <1>8, <1>9, <1>10, ImportFrame

LEMMA TransferStep ==
  ASSUME TransferInv, [TransferNext]_transferVars
  PROVE  TransferInv'
<1>1. HistoryIsGood /\ Counts /\ ExportInv /\ BootInv /\ ImportInv /\ TargetInv
  BY DEF TransferInv
<1>2. HistoryIsGood'
  BY <1>1, HistoryStep
<1>3. Counts'
  BY <1>1, CountsStep
<1>4. ExportInv'
  BY <1>1, ExportStep
<1>5. BootInv'
  BY <1>1, BootStep
<1>6. ImportInv'
  BY <1>1, ImportStep
<1>7. TargetInv'
  BY <1>1, TargetStep
<1>8. QED
  BY <1>2, <1>3, <1>4, <1>5, <1>6, <1>7 DEF TransferInv

LEMMA TransferInvariance == TransferSpec => []TransferInv
<1>1. TransferInit => TransferInv
  BY TransferStarts
<1>2. TransferInv /\ [TransferNext]_transferVars => TransferInv'
  BY TransferStep
<1>3. QED
  BY <1>1, <1>2, PTL DEF TransferSpec

LEMMA EmptyRows == Rows(Empty)
  BY DEF Empty, Rows

LEMMA TransferTypes ==
  ASSUME TransferInv
  PROVE  TransferTypeOK
<1>1. HistoryIsGood /\ Counts /\ ExportInv /\ BootInv /\ ImportInv /\ TargetInv
  BY DEF TransferInv
<1>2. \A d \in past : Rows(d) /\ ValidItems(V3, d)
  BY <1>1, DbParts DEF HistoryIsGood
<1>3. Rows(db) /\ \A i \in DOMAIN db.items : QuantityIsTrue(db.items[i])
  <2>1. Rows(db) /\ ValidItems(V3, db)
    BY <1>1, <1>2 DEF HistoryIsGood
  <2>2. QED
    BY <2>1 DEF ValidItems, ValidItem
<1>4. Rows(work)
  <2>1. CASE work = Empty
    BY <2>1, EmptyRows
  <2>2. CASE im = "writing" /\ Accepted(source) /\ Written(source, work, level)
    BY <2>2, WrittenRows DEF Accepted
  <2>3. CASE Accepted(source) /\ Imported(source, work)
    BY <2>3, ImportedRows DEF Accepted
  <2>4. QED
    BY <2>1, <2>2, <2>3, <1>1 DEF ImportInv
<1>5. Rows(snapshot) /\ Rows(partial)
  <2>1. CASE snapshot = Empty /\ partial = Empty
    BY <2>1, EmptyRows
  <2>2. CASE ExportIsOn
    <3>1. Rows(snapshot)
      BY <2>2, <1>2 DEF ExportIsOn
    <3>2. PICK places, items, events :
            /\ partial = [places |-> places, items |-> items, events |-> events]
            /\ places = Empty.places \/ places = snapshot.places
            /\ items = Empty.items \/ items = ItemsUpTo(snapshot, page) \/ items = snapshot.items
            /\ events = {} \/ events = snapshot.events
      BY <2>2 DEF ExportIsOn
    <3>3. DOMAIN places \subseteq Places /\ places \in [DOMAIN places -> PlaceRow]
      BY <3>1, <3>2, EmptyRows DEF Rows
    <3>4. DOMAIN items \subseteq Items /\ items \in [DOMAIN items -> ItemRow]
      <4>1. CASE items = Empty.items \/ items = snapshot.items
        BY <4>1, <3>1, EmptyRows DEF Rows
      <4>2. CASE items = ItemsUpTo(snapshot, page)
        BY <4>2, <3>1 DEF ItemsUpTo, Rows
      <4>3. QED
        BY <4>1, <4>2, <3>2
    <3>5. events \subseteq EventRow
      BY <3>1, <3>2 DEF Rows
    <3>6. QED
      BY <3>1, <3>2, <3>3, <3>4, <3>5 DEF Rows
  <2>3. QED
    BY <2>1, <2>2, <1>1 DEF ExportInv
<1>6. ex \in {"none", "ready", "places", "items", "events", "written", "done", "dead"}
      /\ page \in {0} \cup Items
  BY <1>1 DEF ExportInv
<1>7. im \in {"ready", "checked", "read", "writing", "built", "staged", "clear", "linked",
              "refused", "broken", "done", "dead"}
      /\ level \in Nat
  BY <1>1 DEF ImportInv
<1>8. boot.pc \in {"none", "ready", "loaded", "checked", "empty", "applied", "refused", "broken"}
  BY <1>1 DEF BootInv
<1>9. QED
  BY <1>1, <1>3, <1>4, <1>5, <1>6, <1>7, <1>8 DEF TransferTypeOK, Counts, TargetInv

\* The variables have their types.
THEOREM TransferTypesHold == TransferSpec => []TransferTypeOK
  BY TransferInvariance, TransferTypes, PTL

\* Whatever is committed while an export reads, what it leaves is one state the
\* database was in, and valid (stream_portable_inventory).
THEOREM ExportsAreOneState == TransferSpec => []ExportIsOneState
<1>1. TransferInv => ExportIsOneState
  <2>1. SUFFICES ASSUME TransferInv, exported # Nil
                 PROVE  exported.rows \in past /\ Valid(exported)
    BY TransferTypes DEF ExportIsOneState
  <2>2. exported = Document(V3, exported.rows) /\ exported.rows \in past /\ DbOK(exported.rows)
    BY <2>1 DEF TransferInv, ExportInv, HistoryIsGood
  <2>3. QED
    BY <2>2 DEF DbOK
<1>2. QED
  BY <1>1, TransferInvariance, PTL

\* The two readers accept the same documents, whatever an import has read
\* (_validate_stream_hierarchy, _validate_portable_tree).
THEOREM ReadersAlwaysAgree == TransferSpec => []ReadersAgree
<1>1. TransferInv => ReadersAgree
  <2>1. SUFFICES ASSUME TransferInv, source # Nil
                 PROVE  Valid(source) <=> ValidWhole(source)
    BY DEF ReadersAgree
  <2>2. IsDocument(source)
    BY <2>1 DEF TransferInv, ImportInv
  <2>3. QED
    BY <2>2, ReadersAreOne
<1>2. QED
  BY <1>1, TransferInvariance, PTL

\* What a valid document or manifest says is written, and all of it
\* (import_portable_inventory, apply_bootstrap_import).
THEOREM ImportsAreFaithful == TransferSpec => []ImportIsFaithful
<1>1. TransferInv => ImportIsFaithful
  <2> SUFFICES ASSUME TransferInv PROVE ImportIsFaithful
    OBVIOUS
  <2>1. im # "broken" /\ boot.pc # "broken"
    BY DEF TransferInv, ImportInv, BootInv
  <2>2. ASSUME target.by = "import", Frozen(target.from)
        PROVE  Same(target.from, target.db) /\ Valid(Document(V3, target.db))
    <3>1. PICK doc, d : doc = target.from /\ d = target.db
      OBVIOUS
    <3>2. IsDocument(doc) /\ Valid(doc) /\ Frozen(doc) /\ Imported(doc, d)
      BY <2>2, <3>1 DEF TransferInv, TargetInv, Accepted
    <3>3. QED
      BY <3>1, <3>2, ImportedIsFaithful
  <2>3. boot.pc = "applied" => \E d \in past : Fulfils(d, boot.manifest)
    BY DEF TransferInv, BootInv
  <2>4. QED
    BY <2>1, <2>2, <2>3 DEF ImportIsFaithful
<1>2. QED
  BY <1>1, TransferInvariance, PTL

\* No step of an import replaces or deletes a file that another program made
\* (_publish_new_database).
THEOREM NothingIsReplaced == TransferSpec => NothingReplaced
<1>1. TransferInv /\ [TransferNext]_transferVars
        => [im' # im /\ target.by = "other" => target' = target]_transferVars
  BY TargetStep DEF TransferInv
<1>2. QED
  BY <1>1, TransferInvariance, PTL DEF TransferSpec, NothingReplaced

=============================================================================
