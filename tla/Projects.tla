------------------------------ MODULE Projects ------------------------------
(***************************************************************************)
(* Project rows and their audit entries (services/projects.py).  Each      *)
(* operation is one transaction: it reads the row, refuses or writes it,   *)
(* and records the audit entry.  An id is used for one project only.       *)
(*                                                                         *)
(*   projects   status of each project's row, or why there is none         *)
(*   audit      the last audit entry of each project, as <<action, status  *)
(*              after it>>                                                 *)
(*   edits      lifecycle operations so far (only to bound them)           *)
(***************************************************************************)
EXTENDS Naturals

CONSTANTS
    Project,        \* ids of projects
    MaxEdits        \* bound: edits, archivings and restorings

VARIABLES projects, audit, edits

projectVars == <<projects, audit, edits>>

EDITABLE_STATUSES == {"active", "on_hold", "completed"}

ProjectStatus == EDITABLE_STATUSES \cup {"archived"}

AuditAction == {"create", "update", "archive", "restore"}

\* No row: never created, or deleted.
NoRow == {"unused", "deleted"}

Exists(p) == projects[p] \in ProjectStatus

ProjectsTypeOK ==
    /\ projects \in [Project -> ProjectStatus \cup NoRow]
    /\ audit \in [Project -> {<<>>} \cup (AuditAction \X ProjectStatus)]
    /\ edits \in 0 .. MaxEdits

ProjectsInit ==
    /\ projects = [p \in Project |-> "unused"]
    /\ audit = [p \in Project |-> <<>>]
    /\ edits = 0

\* The row becomes `status`, in one transaction with the audit entry.
Recorded(p, action, status) ==
    /\ projects' = [projects EXCEPT ![p] = status]
    /\ audit' = [audit EXCEPT ![p] = <<action, status>>]

create_project(p) ==
    /\ projects[p] = "unused"
    /\ \E status \in EDITABLE_STATUSES : Recorded(p, "create", status)
    /\ UNCHANGED edits

\* Faulty: an edit form left open on a project archived meanwhile is accepted.
EditableAnyway(p) == Exists(p)

Editable(p) == Exists(p) /\ projects[p] # "archived"

set_archived(p, archived) ==
    IF archived THEN Recorded(p, "archive", "archived") ELSE Recorded(p, "restore", "active")

Lifecycle == edits < MaxEdits /\ edits' = edits + 1

edit_project(p) ==
    /\ Lifecycle
    /\ Editable(p)
    /\ \E status \in EDITABLE_STATUSES : Recorded(p, "update", status)

archive_project(p) == Lifecycle /\ Editable(p) /\ set_archived(p, TRUE)

restore_project(p) == Lifecycle /\ projects[p] = "archived" /\ set_archived(p, FALSE)

\* The row goes in the transaction that deletes everything the project owns.
DeleteProjectRow(p) ==
    /\ projects' = [projects EXCEPT ![p] = "deleted"]
    /\ audit' = [audit EXCEPT ![p] = <<>>]
    /\ UNCHANGED edits
=============================================================================
