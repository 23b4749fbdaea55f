------------------------------- MODULE Backups -------------------------------
(***************************************************************************)
(* The backups to Cloudflare R2 (services/backup_service.py): a scheduler  *)
(* thread and the console start them, one at a time; each uploads an       *)
(* archive and rotates the old ones away.  Settings change and the         *)
(* operator deletes backups whenever they like, and the process may die.   *)
(***************************************************************************)
EXTENDS Naturals, FiniteSets

CONSTANTS
    Keeps,        \* values that rotation_keep is set to
    MaxUploads    \* bound: uploads that are tried

ASSUME BackupAssumption == Keeps \subseteq Nat /\ MaxUploads \in Nat

VARIABLES
    backupSettings,   \* config.get_backup_settings: on or off, fit for a backup or not (a
                  \* credential or the passphrase of the encryption is missing), rotation_keep
    due,          \* the interval has passed since last_finished_at
    scheduler,    \* the thread waits, found that a backup is due, or runs one
    running,      \* _running
    backup,       \* the backup under way: where it is, the settings it read, its object,
                  \* what it still has to rotate away
    record,       \* backup_state.json: last_status and last_object_key
    bucket,       \* the backups in the bucket, by their uploads
    uploads,      \* uploads so far, which number the objects: the newest has the greatest
    removed       \* what the operator deleted

backupVars == <<backupSettings, due, scheduler, running, backup, record, bucket, uploads, removed>>

BackupSettings == [enabled : BOOLEAN, fit : BOOLEAN, keep : Keeps]
NoBackup    == [pc |-> "none", keep |-> 0, key |-> 0, doomed |-> {}]
JobAt(pc)   == backup.pc = pc
JobGoes(pc) == backup' = [backup EXCEPT !.pc = pc]

-----------------------------------------------------------------------------
(* Starting.                                                               *)

\* run_scheduled_backup_if_needed looks without the lock.
Look ==
    /\ scheduler = "waits" /\ backupSettings.enabled /\ ~running /\ due
    /\ scheduler' = "starts"
    /\ UNCHANGED <<backupSettings, due, running, backup, record, bucket, uploads, removed>>

\* run_backup under the lock. The record may not be written (a full disk), which leaves
\* _running as it was set.
Begin ==
    /\ uploads < MaxUploads
    /\ ~running /\ running' = TRUE
    /\ \/ record' = [record EXCEPT !.status = "idle"] /\ backup' = [NoBackup EXCEPT !.pc = "starting"]
       \/ UNCHANGED <<record, backup>>
    /\ UNCHANGED <<backupSettings, due, bucket, uploads, removed>>

RunManually == Begin /\ UNCHANGED scheduler
RunScheduled ==
    /\ scheduler = "starts"
    /\ Begin /\ scheduler' = IF backup' = backup THEN "waits" ELSE "runs"

\* Somebody else was faster.
RunRefused ==
    /\ scheduler = "starts" /\ running
    /\ scheduler' = "waits"
    /\ UNCHANGED <<backupSettings, due, running, backup, record, bucket, uploads, removed>>

-----------------------------------------------------------------------------
(* One backup.                                                             *)

\* The backup is over: the record is written, and the next one may start.
BackupOver(status, key) ==
    /\ record' = [status |-> status, key |-> key]
    /\ running' = FALSE /\ backup' = NoBackup /\ due' = FALSE
    /\ scheduler' = IF scheduler = "runs" THEN "waits" ELSE scheduler
    /\ UNCHANGED <<backupSettings, removed>>

\* Mutant: only a success lets the next backup start.
FailsRunning ==
    /\ record' = [record EXCEPT !.status = "error"]
    /\ backup' = NoBackup /\ due' = FALSE
    /\ scheduler' = IF scheduler = "runs" THEN "waits" ELSE scheduler
    /\ UNCHANGED <<backupSettings, running, removed>>

\* The key that was recorded before stays.
JobFails == BackupOver("error", record.key)

\* The settings are read once, then the archive is built and encrypted.
Prepare ==
    /\ JobAt("starting")
    /\ IF backupSettings.fit
       THEN /\ backup' = [backup EXCEPT !.pc = "uploading", !.keep = backupSettings.keep]
            /\ UNCHANGED <<backupSettings, due, scheduler, running, record, removed>>
       ELSE JobFails
    /\ UNCHANGED <<bucket, uploads>>

\* An upload whose answer is lost may have arrived.
Upload ==
    /\ JobAt("uploading")
    /\ uploads' = uploads + 1
    /\ \/ /\ bucket' = bucket \cup {uploads'}
          /\ backup' = [backup EXCEPT !.pc = "rotating", !.key = uploads']
          /\ UNCHANGED <<backupSettings, due, scheduler, running, record, removed>>
       \/ bucket' \in {bucket, bucket \cup {uploads'}} /\ JobFails

NewerThan(key) == {other \in bucket : other > key}

\* Mutant: one backup fewer is kept.
ExcessButOne == {key \in bucket : backup.keep > 0 /\ Cardinality(NewerThan(key)) + 1 >= backup.keep}

\* _apply_rotation: what is not among the newest; 0 keeps everything.
Excess == {key \in bucket : backup.keep > 0 /\ Cardinality(NewerThan(key)) >= backup.keep}

\* The list is read once; listing may fail.
ListForRotation ==
    /\ JobAt("rotating")
    /\ \/ /\ backup' = [backup EXCEPT !.pc = "deleting", !.doomed = Excess]
          /\ UNCHANGED <<backupSettings, due, scheduler, running, record, removed>>
       \/ JobFails
    /\ UNCHANGED <<bucket, uploads>>

\* One delete after the other, the newest first; the first that fails ends the backup.
RotateOne ==
    /\ JobAt("deleting")
    /\ \E key \in backup.doomed :
          /\ \A other \in backup.doomed : other <= key
          /\ \/ /\ bucket' = bucket \ {key}
                /\ backup' = [backup EXCEPT !.doomed = @ \ {key}]
                /\ UNCHANGED <<backupSettings, due, scheduler, running, record, removed>>
             \/ bucket' \in {bucket, bucket \ {key}} /\ JobFails
    /\ UNCHANGED uploads

JobSucceeds ==
    /\ JobAt("deleting") /\ backup.doomed = {}
    /\ BackupOver("success", backup.key)
    /\ UNCHANGED <<bucket, uploads>>

-----------------------------------------------------------------------------
(* The operator, time and the process.                                     *)

ChangeSettings ==
    /\ backupSettings' \in BackupSettings
    /\ UNCHANGED <<due, scheduler, running, backup, record, bucket, uploads, removed>>

DeleteBackup(key) ==
    /\ key \in bucket
    /\ bucket' = bucket \ {key} /\ removed' = removed \cup {key}
    /\ UNCHANGED <<backupSettings, due, scheduler, running, backup, record, uploads>>

IntervalPasses ==
    /\ ~due /\ due' = TRUE
    /\ UNCHANGED <<backupSettings, scheduler, running, backup, record, bucket, uploads, removed>>

\* The thread is a daemon, and stop waits for it two seconds: a stop is a crash to a
\* backup under way. start begins anew.
BackupRestart ==
    /\ running' = FALSE /\ backup' = NoBackup /\ scheduler' = "waits"
    /\ UNCHANGED <<backupSettings, due, record, bucket, uploads, removed>>

-----------------------------------------------------------------------------
BackupInit ==
    /\ backupSettings \in BackupSettings
    /\ due = TRUE /\ scheduler = "waits" /\ running = FALSE
    /\ backup = NoBackup /\ record = [status |-> "idle", key |-> 0]
    /\ bucket = {} /\ uploads = 0 /\ removed = {}

JobStep == Prepare \/ Upload \/ ListForRotation \/ RotateOne \/ JobSucceeds

BackupNext ==
    \/ Look \/ RunManually \/ RunScheduled \/ RunRefused \/ JobStep
    \/ ChangeSettings \/ IntervalPasses \/ BackupRestart
    \/ \E key \in 1 .. MaxUploads : DeleteBackup(key)

BackupSpec == BackupInit /\ [][BackupNext]_backupVars

-----------------------------------------------------------------------------
\* The backup that the console shows as the last success is in the bucket, unless the
\* operator deleted it: no later rotation, with whatever number to keep, took it away.
SuccessIsThere ==
    record.status = "success" => record.key \in bucket \cup removed

\* A backup that has begun ends, in whatever way, and gives way to the next.
BackupsEnd == JobAt("starting") ~> ~running
=============================================================================
