------------------------------- MODULE Backups -------------------------------
(***************************************************************************)
(* Backups of the database, their retention and the way back               *)
(* (backend/src/data/pg_backup.py, orchestration/backup_scheduler.py and   *)
(* the backup endpoints of api/routes/system.py).                          *)
(*                                                                         *)
(* A backup is a dump and, written after it, a manifest.  The database     *)
(* goes on changing while a dump is made, the process may die between any  *)
(* two files, disks lose files, and a restore runs in a process of its     *)
(* own.  The database's content is a number that grows; 0: no database.    *)
(***************************************************************************)
EXTENDS Naturals, FiniteSets

CONSTANTS
    MaxBackups,     \* backups started (bound)
    MaxDbChanges,   \* changes of the database (bound)
    MaxBackupDays,  \* days (bound)
    KeepCount, RetentionDays,
    MaxBackupFaults \* crashes and files lost (bound)

ASSUME BackupsAssumption ==
    /\ MaxBackups \in Nat \ {0} /\ MaxDbChanges \in Nat /\ MaxBackupDays \in Nat
    /\ KeepCount \in Nat /\ RetentionDays \in Nat /\ MaxBackupFaults \in Nat

VARIABLES
    database,       \* its content
    backup_day, taken_on,  \* the day, and the day each backup was started; 0: never
    dump, manifest, \* by backup: 0, or the content dumped, or recorded
    damaged,        \* backups whose dump is no longer what was written
    backup_job,     \* the one run of run_postgres_backup
    restore_job,    \* the restore script
    finished,       \* some backup has completed
    backup_faults

backupVars == <<database, backup_day, taken_on, dump, manifest, damaged, backup_job, restore_job,
                finished, backup_faults>>

BackupId == 1 .. MaxBackups
NoJob == [at |-> "idle"]

BackupsInit ==
    /\ database = 1 /\ backup_day = 1 /\ taken_on = [b \in BackupId |-> 0]
    /\ dump = [b \in BackupId |-> 0] /\ manifest = [b \in BackupId |-> 0] /\ damaged = {}
    /\ backup_job = NoJob /\ restore_job = NoJob /\ finished = FALSE /\ backup_faults = 0

\* The application commits.
DatabaseChanges ==
    /\ database \in 1 .. MaxDbChanges /\ restore_job = NoJob /\ database' = database + 1
    /\ UNCHANGED <<backup_day, taken_on, dump, manifest, damaged, backup_job, restore_job,
                   finished, backup_faults>>
BackupDayPasses ==
    /\ backup_day < MaxBackupDays /\ backup_day' = backup_day + 1
    /\ UNCHANGED <<database, taken_on, dump, manifest, damaged, backup_job, restore_job,
                   finished, backup_faults>>
-----------------------------------------------------------------------------
(* Making one.                                                             *)

\* One run at a time in the process; an identifier is used once.
run_postgres_backup(b) ==
    /\ backup_job = NoJob /\ database # 0 /\ taken_on[b] = 0
    /\ \A c \in BackupId : c < b => taken_on[c] # 0
    /\ taken_on' = [taken_on EXCEPT ![b] = backup_day]
    /\ backup_job' = [at |-> "facts", id |-> b]
    /\ UNCHANGED <<database, backup_day, dump, manifest, damaged, restore_job, finished, backup_faults>>

\* A snapshot is exported, and the figures are read in it.
_read_facts ==
    /\ backup_job.at = "facts" /\ database # 0
    /\ backup_job' = [at |-> "dump", id |-> backup_job.id, snapshot |-> database]
    /\ UNCHANGED <<database, backup_day, taken_on, dump, manifest, damaged, restore_job, finished, backup_faults>>

\* Mutant: pg_dump is not given the snapshot.
Dumped_Now(job) == database

Dumped(job) == job.snapshot

\* pg_dump to a partial file, a listing of it, and the rename.
create_postgres_backup ==
    /\ backup_job.at = "dump" /\ database # 0
    /\ dump' = [dump EXCEPT ![backup_job.id] = Dumped(backup_job)]
    /\ backup_job' = [backup_job EXCEPT !.at = "manifest"]
    /\ UNCHANGED <<database, backup_day, taken_on, manifest, damaged, restore_job, finished, backup_faults>>

\* A tool that is missing, fails or takes too long: the partial file is removed, the
\* failure is announced and nothing is pruned.
backup_fails ==
    /\ backup_job.at \in {"facts", "dump"} /\ backup_job' = NoJob
    /\ UNCHANGED <<database, backup_day, taken_on, dump, manifest, damaged, restore_job, finished, backup_faults>>

write_manifest ==
    /\ backup_job.at = "manifest" /\ finished' = TRUE
    /\ manifest' = [manifest EXCEPT ![backup_job.id] = backup_job.snapshot]
    /\ backup_job' = [at |-> "prune"]
    /\ UNCHANGED <<database, backup_day, taken_on, dump, damaged, restore_job, backup_faults>>
-----------------------------------------------------------------------------
(* Listing and pruning.                                                    *)

_info(b) == IF dump[b] # 0 /\ manifest[b] # 0 THEN "ok" ELSE "incomplete"
list_backups == {b \in BackupId : dump[b] # 0 \/ manifest[b] # 0}
CompleteBackups == {b \in list_backups : _info(b) = "ok"}
NewestComplete(n) ==
    {b \in CompleteBackups : Cardinality({c \in CompleteBackups : c > b}) < n}

KeepAtLeast == IF KeepCount < 1 THEN 1 ELSE KeepCount
Kept == NewestComplete(KeepAtLeast)
          \cup {b \in CompleteBackups : taken_on[b] + RetentionDays >= backup_day}

\* An incomplete one is a leftover once it is a day old.
prune_backups ==
    LET removed == {b \in list_backups \ Kept : _info(b) = "ok" \/ taken_on[b] < backup_day}
    IN  /\ backup_job.at = "prune" /\ backup_job' = NoJob
        /\ dump' = [b \in BackupId |-> IF b \in removed THEN 0 ELSE dump[b]]
        /\ manifest' = [b \in BackupId |-> IF b \in removed THEN 0 ELSE manifest[b]]
        /\ UNCHANGED <<database, backup_day, taken_on, damaged, restore_job, finished, backup_faults>>
-----------------------------------------------------------------------------
(* The way back.                                                           *)

\* Size, checksum and the dump's own listing against the manifest.
verify_backup(b) == _info(b) = "ok" /\ b \notin damaged

\* Only a backup that verifies; the target is dropped and created again.
restore_postgres_backup(b) ==
    /\ restore_job = NoJob /\ verify_backup(b)
    /\ restore_job' = [at |-> "load", id |-> b] /\ database' = 0
    /\ UNCHANGED <<backup_day, taken_on, dump, manifest, damaged, backup_job, finished, backup_faults>>

\* The dump may have been pruned or lost since it was verified.
pg_restore ==
    /\ restore_job.at = "load"
    /\ LET b == restore_job.id
       IN  IF dump[b] # 0 /\ b \notin damaged
           THEN database' = dump[b] /\ restore_job' = [restore_job EXCEPT !.at = "verify"]
           ELSE restore_job' = NoJob /\ UNCHANGED database
    /\ UNCHANGED <<backup_day, taken_on, dump, manifest, damaged, backup_job, finished, backup_faults>>

verify_restored_database ==
    /\ restore_job.at = "verify" /\ restore_job' = NoJob
    /\ UNCHANGED <<database, backup_day, taken_on, dump, manifest, damaged, backup_job, finished,
                   backup_faults>>
-----------------------------------------------------------------------------
BackupProcessDies ==
    /\ backup_job # NoJob /\ backup_faults < MaxBackupFaults
    /\ backup_faults' = backup_faults + 1 /\ backup_job' = NoJob
    /\ UNCHANGED <<database, backup_day, taken_on, dump, manifest, damaged, restore_job, finished>>

DumpDamaged(b) ==
    /\ dump[b] # 0 /\ b \notin damaged /\ backup_faults < MaxBackupFaults
    /\ backup_faults' = backup_faults + 1 /\ damaged' = damaged \cup {b}
    /\ UNCHANGED <<database, backup_day, taken_on, dump, manifest, backup_job, restore_job, finished>>

BackupsNext ==
    \/ DatabaseChanges \/ BackupDayPasses
    \/ \E b \in BackupId : run_postgres_backup(b)
    \/ _read_facts \/ create_postgres_backup \/ backup_fails \/ write_manifest \/ prune_backups
    \/ \E b \in BackupId : restore_postgres_backup(b) \/ DumpDamaged(b)
    \/ pg_restore \/ verify_restored_database
    \/ BackupProcessDies
-----------------------------------------------------------------------------
BackupsTypeOK ==
    /\ database \in 0 .. MaxDbChanges + 1 /\ dump \in [BackupId -> 0 .. MaxDbChanges + 1]
    /\ manifest \in [BackupId -> 0 .. MaxDbChanges + 1] /\ damaged \subseteq BackupId
    /\ finished \in BOOLEAN

(* Once a backup has completed, one that is listed as complete always remains, and    *)
(* each of those that its disk has kept holds exactly the data its manifest records,  *)
(* whatever the database, a failed or interrupted run, pruning and a restore do       *)
(* meanwhile (create_postgres_backup, prune_backups).                                 *)
BackupsCanBeTrusted ==
    /\ finished => CompleteBackups # {}
    /\ \A b \in CompleteBackups \ damaged : dump[b] = manifest[b]
=============================================================================
