------------------------------- MODULE Backup -------------------------------
(***************************************************************************)
(* scripts/backup.py: a process of its own, that copies the database and   *)
(* then, one by one, the files the database refers to (backup.py).  The    *)
(* application goes on meanwhile.                                          *)
(*                                                                         *)
(*   backup    the backup being made, or the last one made                 *)
(*   backups   how many were begun (only to bound them)                    *)
(***************************************************************************)
EXTENDS Observations

CONSTANTS
    MaxBackups,     \* bound: backups made
    None

VARIABLES backup, backups

backupVars == <<backup, backups>>

\* The rows a copy of the database file holds.
Database ==
    [projects |-> projects, audit |-> audit, artifacts |-> artifacts, contents |-> contents,
     observations |-> observations, proposals |-> proposals]

BackupPhase == {"none", "copied", "copying", "made"}

BackupTypeOK ==
    /\ backup.phase \in BackupPhase
    /\ backup.phase = "none" => backup.db = None
    /\ backup.todo \subseteq Digest
    /\ backup.objects \subseteq Digest
    /\ backups \in 0 .. MaxBackups

NoBackup == [phase |-> "none", db |-> None, todo |-> {}, objects |-> {}]

BackupInit == backup = NoBackup /\ backups = 0

\* The online backup API copies one committed state of the database.
_backup_sqlite_file ==
    /\ backup.phase \in {"none", "made"}
    /\ backups < MaxBackups
    /\ backups' = backups + 1
    /\ backup' = [NoBackup EXCEPT !.phase = "copied", !.db = Database]

\* Asked of the live database, on a connection of its own.
_referenced_sha256s ==
    /\ backup.phase = "copied"
    /\ backup' = [backup EXCEPT !.phase = "copying", !.todo = Referenced(DOMAIN contents)]
    /\ UNCHANGED backups

\* A file that is not there is skipped; one that goes between the look and the
\* copy ends the backup with an exception, before the manifest is written.
CopyObject ==
    /\ backup.phase = "copying"
    /\ \E d \in backup.todo :
          \/ /\ d \in objects
             /\ backup' = [backup EXCEPT !.todo = @ \ {d}, !.objects = @ \cup {d}]
          \/ d \notin objects /\ backup' = [backup EXCEPT !.todo = @ \ {d}]
          \/ d \notin objects /\ backup' = NoBackup
    /\ UNCHANGED backups

\* Faulty: the database is copied after the files.
CopyDatabaseLast ==
    /\ backup.phase = "copying"
    /\ backup.todo = {}
    /\ backup' = [backup EXCEPT !.phase = "made", !.db = Database]
    /\ UNCHANGED backups

WriteManifest ==
    /\ backup.phase = "copying"
    /\ backup.todo = {}
    /\ backup' = [backup EXCEPT !.phase = "made"]
    /\ UNCHANGED backups

create_backup == _backup_sqlite_file \/ _referenced_sha256s \/ CopyObject \/ WriteManifest

\* With force, over the database in use: its rows are replaced, and files are
\* added to those there are.
restore_backup ==
    /\ backup.phase = "made"
    /\ projects' = backup.db.projects
    /\ audit' = backup.db.audit
    /\ artifacts' = backup.db.artifacts
    /\ contents' = backup.db.contents
    /\ observations' = backup.db.observations
    /\ proposals' = backup.db.proposals
    /\ objects' = objects \cup backup.objects
=============================================================================
