------------------------------ MODULE Workspace ------------------------------
(***************************************************************************)
(* The workspace: browser sessions that submit evidence, extract and       *)
(* reconcile observations, and delete projects, each on its own database   *)
(* connection, with the backup beside them.  A session's pc names the step *)
(* it takes next:                                                          *)
(*                                                                         *)
(*   submit -> storing -> idle         a form of the Evidence page         *)
(*   extract* -> persist* -> idle      "Extract observations"              *)
(*   ( reconcile -> insert )* -> idle  "Reconcile pending observations"    *)
(*   disconnect -> purge -> sweep*     "Permanently delete"                *)
(*                                                                         *)
(* A transaction that only touches rows is one step.  That of an intake is *)
(* two, since it writes a file before it commits, and files are removed    *)
(* without regard to transactions.                                         *)
(*                                                                         *)
(*   writer    the session whose transaction is open (BEGIN IMMEDIATE)     *)
(*   secrets   projects a connector's credential is stored for             *)
(*   late      history: digests submitted, and projects connected, while a *)
(*             deletion was past the point of seeing it                    *)
(***************************************************************************)
EXTENDS Backup

CONSTANTS
    Session,        \* open browser sessions
    MaxSubmits,     \* bound: forms submitted
    MaxCrashes      \* bound: crashes of the application

ASSUME WorkspaceAssumption ==
    /\ None \notin Session
    /\ {MaxEdits, MaxSubmits, MaxBackups, MaxCrashes} \subseteq Nat

VARIABLES session, writer, secrets, late, submits, crashes

workspaceVars == <<session, writer, secrets, late, submits, crashes>>

vars == <<projectVars, evidenceVars, observationVars, backupVars, workspaceVars>>

PC == {"idle", "submit", "storing", "extract", "persist", "reconcile", "insert",
       "disconnect", "purge", "sweep"}

\* todo: chunks, observations or digests still to be dealt with; found: what
\* was accepted so far, or the observation a proposal was computed for.
SessionRow ==
    [pc: PC, project: Project \cup {None}, content: Content \cup {None},
     todo: (SUBSET Chunk) \cup (SUBSET Observation) \cup (SUBSET Digest),
     found: SUBSET Observation]

Idle == [pc |-> "idle", project |-> None, content |-> None, todo |-> {}, found |-> {}]

At(s, pc) == session[s].pc = pc

Goto(s, row) == session' = [session EXCEPT ![s] = row]

Stop(s) == Goto(s, Idle)

\* With nothing left to do the session is idle again.
GotoUntil(s, row) == IF row.todo = {} THEN Stop(s) ELSE Goto(s, row)

Unlocked == writer = None

Init ==
    /\ ProjectsInit /\ EvidenceInit /\ ObservationsInit /\ BackupInit
    /\ session = [s \in Session |-> Idle]
    /\ writer = None
    /\ secrets = {}
    /\ late = {}
    /\ submits = 0
    /\ crashes = 0

-----------------------------------------------------------------------------
(* The Projects page. *)

ManageProjects(s) ==
    /\ At(s, "idle")
    /\ Unlocked
    /\ \E p \in Project :
          create_project(p) \/ edit_project(p) \/ archive_project(p) \/ restore_project(p)
    /\ UNCHANGED <<evidenceVars, observationVars, backupVars, workspaceVars>>

-----------------------------------------------------------------------------
(* Intake. *)

\* get_project and parsing come before the transaction.
submit_manual_text(s, p, title, d) ==
    Goto(s, [Idle EXCEPT !.pc = "submit", !.project = p,
                         !.content = <<<<p, external_id("text", title)>>, d>>])

submit_file_upload(s, p, filename, d) ==
    /\ d \notin Oversized
    /\ Goto(s, [Idle EXCEPT !.pc = "submit", !.project = p,
                            !.content = <<<<p, external_id("file", filename)>>, d>>])

\* The two forms of the Evidence page.
Submit(s) ==
    /\ At(s, "idle")
    /\ submits < MaxSubmits
    /\ submits' = submits + 1
    /\ \E p \in Project, name \in Name, d \in Digest :
          /\ Exists(p)
          /\ submit_manual_text(s, p, name, d) \/ submit_file_upload(s, p, name, d)
    /\ UNCHANGED <<projectVars, evidenceVars, observationVars, backupVars,
                   writer, secrets, late, crashes>>

\* A deletion whose rows are gone is about to remove the file of d.
BeingSwept(d) == \E s \in Session : At(s, "sweep") /\ d \in session[s].todo

\* The transaction opens.  Without a project row the source row cannot be
\* inserted, and the transaction ends there.
BeginStore(s) ==
    /\ At(s, "submit")
    /\ Unlocked
    /\ LET d == session[s].content[2]
       IN  IF Exists(session[s].project)
           THEN /\ store_bytes(d)
                /\ writer' = s
                /\ Goto(s, [session[s] EXCEPT !.pc = "storing"])
                /\ late' = IF BeingSwept(d) THEN late \cup {d} ELSE late
           ELSE Stop(s) /\ UNCHANGED <<objects, writer, late>>
    /\ UNCHANGED <<projectVars, artifacts, contents, observationVars, backupVars,
                   secrets, submits, crashes>>

CommitStore(s) ==
    /\ At(s, "storing")
    /\ _store_content_and_chunks(session[s].content[1], session[s].content[2])
    /\ writer' = None
    /\ Stop(s)
    /\ UNCHANGED <<projectVars, objects, observationVars, backupVars,
                   secrets, late, submits, crashes>>

-----------------------------------------------------------------------------
(* Extraction, of the version the Evidence page shows: the current one. *)

StartExtract(s) ==
    /\ At(s, "idle")
    /\ \E a \in DOMAIN artifacts :
          /\ Chunks[artifacts[a]] # {}
          /\ Goto(s, [Idle EXCEPT !.pc = "extract", !.content = <<a, artifacts[a]>>,
                                  !.todo = Chunks[artifacts[a]]])
    /\ UNCHANGED <<projectVars, evidenceVars, observationVars, backupVars,
                   writer, secrets, late, submits, crashes>>

\* What was accepted is persisted, whether the run ended well or not.
Extracted(s, left, found) ==
    IF left # {} THEN Goto(s, [session[s] EXCEPT !.todo = left, !.found = found])
    ELSE GotoUntil(s, [session[s] EXCEPT !.pc = "persist", !.todo = found, !.found = {}])

\* The call for one chunk: an answer, a refusal (as if there was nothing in
\* it), or an error that ends the run.
ExtractChunk(s) ==
    /\ At(s, "extract")
    /\ \E chunk \in session[s].todo :
          \/ \E batch \in SUBSET Statement :
                Extracted(s, session[s].todo \ {chunk},
                          session[s].found \cup Accepted(session[s].content, chunk, batch))
          \/ Extracted(s, {}, session[s].found)
    /\ UNCHANGED <<projectVars, evidenceVars, observationVars, backupVars,
                   writer, secrets, late, submits, crashes>>

\* One transaction for each.  The content may be gone with its project.
Persist(s) ==
    /\ At(s, "persist")
    /\ Unlocked
    /\ \E o \in session[s].todo :
          IF o.content \in DOMAIN contents
          THEN /\ persist_observation(o)
               /\ GotoUntil(s, [session[s] EXCEPT !.todo = @ \ {o}])
          ELSE Stop(s) /\ UNCHANGED observationVars
    /\ UNCHANGED <<projectVars, evidenceVars, backupVars,
                   writer, secrets, late, submits, crashes>>

-----------------------------------------------------------------------------
(* Reconciliation. *)

StartReconcile(s) ==
    /\ At(s, "idle")
    /\ \E p \in Project :
          /\ Pending(p) # {}
          /\ Goto(s, [Idle EXCEPT !.pc = "reconcile", !.todo = Pending(p)])
    /\ UNCHANGED <<projectVars, evidenceVars, observationVars, backupVars,
                   writer, secrets, late, submits, crashes>>

\* Outside the transaction: an observation with a proposal is left alone, one
\* that is gone or no longer valid ends the run, and so does an assertion in
\* the classification; otherwise a proposal is computed.
CheckProposals(s) ==
    /\ At(s, "reconcile")
    /\ \E o \in session[s].todo :
          IF o \in DOMAIN proposals /\ proposals[o] # <<>>
          THEN GotoUntil(s, [session[s] EXCEPT !.todo = @ \ {o}])
          ELSE \/ Stop(s)
               \/ /\ o \in DOMAIN observations /\ observations[o] = "valid"
                  /\ Goto(s, [session[s] EXCEPT !.pc = "insert", !.found = {o}])
    /\ UNCHANGED <<projectVars, evidenceVars, observationVars, backupVars,
                   writer, secrets, late, submits, crashes>>

\* The transaction fails if the observation is gone (a foreign key) or has a
\* pending proposal by now (the unique index).
InsertProposal(s) ==
    /\ At(s, "insert")
    /\ Unlocked
    /\ \E o \in session[s].found :
          IF o \in DOMAIN observations /\ ~HasPending(o)
          THEN /\ insert_proposal(o)
               /\ GotoUntil(s, [session[s] EXCEPT !.pc = "reconcile", !.todo = @ \ {o},
                                                  !.found = {}])
          ELSE Stop(s) /\ UNCHANGED observationVars
    /\ UNCHANGED <<projectVars, evidenceVars, backupVars,
                   writer, secrets, late, submits, crashes>>

Review(s) ==
    /\ At(s, "idle")
    /\ Unlocked
    /\ \E o \in DOMAIN observations : Decide(o)
    /\ UNCHANGED <<projectVars, evidenceVars, backupVars, workspaceVars>>

-----------------------------------------------------------------------------
(* Deletion. *)

Connect(s) ==
    /\ At(s, "idle")
    /\ \E p \in Project :
          /\ Exists(p)
          /\ secrets' = secrets \cup {p}
          /\ late' = IF \E t \in Session : At(t, "purge") /\ session[t].project = p
                     THEN late \cup {p} ELSE late
    /\ UNCHANGED <<projectVars, evidenceVars, observationVars, backupVars,
                   session, writer, submits, crashes>>

\* The project is there and its name was typed.
ConfirmDelete(s) ==
    /\ At(s, "idle")
    /\ \E p \in Project :
          /\ Exists(p)
          /\ Goto(s, [Idle EXCEPT !.pc = "disconnect", !.project = p])
    /\ UNCHANGED <<projectVars, evidenceVars, observationVars, backupVars,
                   writer, secrets, late, submits, crashes>>

\* Faulty: the rows are deleted without looking for credentials.
DisconnectNone(s) ==
    /\ At(s, "disconnect")
    /\ Goto(s, [session[s] EXCEPT !.pc = "purge"])
    /\ UNCHANGED <<projectVars, evidenceVars, observationVars, backupVars,
                   writer, secrets, late, submits, crashes>>

\* Each source that has a credential is disconnected, before the transaction.
DisconnectSources(s) ==
    /\ At(s, "disconnect")
    /\ secrets' = secrets \ {session[s].project}
    /\ Goto(s, [session[s] EXCEPT !.pc = "purge"])
    /\ UNCHANGED <<projectVars, evidenceVars, observationVars, backupVars,
                   writer, late, submits, crashes>>

\* The transaction: find the files only this project needs, delete its rows.
Purge(s) ==
    /\ At(s, "purge")
    /\ Unlocked
    /\ LET p == session[s].project
       IN  /\ GotoUntil(s, [session[s] EXCEPT
                               !.pc = "sweep", !.todo = sha256_only_referenced_by_project(p)])
           /\ DeleteEvidenceRows(p)
           /\ DeleteObservationRows(p)
           /\ DeleteProjectRow(p)
    /\ UNCHANGED <<objects, backupVars, writer, secrets, late, submits, crashes>>

\* The files go after the transaction, one by one.
DeleteObject(s) ==
    /\ At(s, "sweep")
    /\ \E d \in session[s].todo :
          /\ delete_object(d)
          /\ GotoUntil(s, [session[s] EXCEPT !.todo = @ \ {d}])
    /\ UNCHANGED <<projectVars, artifacts, contents, observationVars, backupVars,
                   writer, secrets, late, submits, crashes>>

-----------------------------------------------------------------------------
(* What may go wrong, the backup, and the whole. *)

\* The busy timeout passes while another session's transaction is open.
Busy(s) ==
    /\ writer \notin {None, s}
    /\ session[s].pc \in {"submit", "persist", "insert", "purge"}
    /\ Stop(s)
    /\ UNCHANGED <<projectVars, evidenceVars, observationVars, backupVars,
                   writer, secrets, late, submits, crashes>>

\* The application stops: open transactions are rolled back, files stay.
Crash ==
    /\ crashes < MaxCrashes
    /\ crashes' = crashes + 1
    /\ session' = [s \in Session |-> Idle]
    /\ writer' = None
    /\ UNCHANGED <<projectVars, evidenceVars, observationVars, backupVars,
                   secrets, late, submits>>

MakeBackup ==
    /\ create_backup
    /\ UNCHANGED <<projectVars, evidenceVars, observationVars, workspaceVars>>

\* With the application stopped.  Files that only projects deleted since the
\* copy needed may be gone.
Restore ==
    /\ \A s \in Session : At(s, "idle")
    /\ crashes < MaxCrashes
    /\ crashes' = crashes + 1
    /\ restore_backup
    /\ late' = late \cup Referenced(DOMAIN backup.db.contents \ DOMAIN contents)
    /\ UNCHANGED <<edits, backupVars, session, writer, secrets, submits>>

Step(s) ==
    \/ ManageProjects(s)
    \/ Submit(s) \/ BeginStore(s) \/ CommitStore(s)
    \/ StartExtract(s) \/ ExtractChunk(s) \/ Persist(s)
    \/ StartReconcile(s) \/ CheckProposals(s) \/ InsertProposal(s) \/ Review(s)
    \/ Connect(s) \/ ConfirmDelete(s) \/ DisconnectSources(s) \/ Purge(s) \/ DeleteObject(s)
    \/ Busy(s)

Next == (\E s \in Session : Step(s)) \/ Crash \/ MakeBackup \/ Restore

Spec == Init /\ [][Next]_vars

-----------------------------------------------------------------------------
(* Properties. *)

\* Rows and sessions keep their shape, and no row refers to one that is gone.
WorkspaceTypeOK ==
    /\ ProjectsTypeOK /\ EvidenceTypeOK /\ ObservationsTypeOK /\ BackupTypeOK
    /\ \A a \in DOMAIN artifacts : Exists(a[1])
    /\ session \in [Session -> SessionRow]
    /\ writer \in Session \cup {None}
    /\ secrets \subseteq Project
    /\ late \subseteq Digest \cup Project
    /\ submits \in 0 .. MaxSubmits
    /\ crashes \in 0 .. MaxCrashes

\* The file of every content is there (evidence can be read back, FR-007),
\* though projects share files and deletions remove them after their commit.
\* Only bytes submitted again in that very gap can lose theirs.
RowsHaveObjects == \A c \in DOMAIN contents : c[2] \in objects \cup late

\* "Content-addressed bytes are deleted only when no reference remains", and
\* then they are: at rest, if nothing crashed, no file is left over.
NoFileLeftOver ==
    (crashes = 0 /\ \A s \in Session : At(s, "idle")) =>
        objects \subseteq Referenced(DOMAIN contents)

\* No credential outlives its project, unless it was stored after the deletion
\* had disconnected the project's sources.
NoSecretLeft == \A p \in secrets : projects[p] = "deleted" => p \in late

\* An observation is reconciled exactly when it has a proposal, and of its
\* proposals at most the last is pending, whatever sessions reconcile and
\* review it at once.  (services/reconciliation.py:283, "at most one pending
\* proposal can exist per observation".)
ReconciledIffProposed ==
    \A o \in DOMAIN observations :
        /\ observations[o] = "reconciled" <=> proposals[o] # <<>>
        /\ \A n \in DOMAIN proposals[o] :
              proposals[o][n] = "pending" => n = Len(proposals[o])

\* "A repeated reconciliation run must not duplicate proposals"
\* (services/reconciliation.py:277).  The code does not keep this: a proposal
\* decided between another run's check and its insertion is followed by a second.
OneProposalPerObservation ==
    \A o \in DOMAIN proposals : Len(proposals[o]) <= 1

\* A backup made while the application goes on has the file of every content
\* its database has and nobody deleted.
BackupComplete ==
    backup.phase = "made" =>
        \A c \in DOMAIN backup.db.contents \cap DOMAIN contents :
            c[2] \in backup.objects \cup late

\* An archived project is left by restoring it only, and as restored it is
\* recorded, whatever edit forms were open on it: deletion and the restoring of a
\* backup aside.  (services/projects.py:edit_project.)
ArchivedIsFrozen ==
    [][\A p \in Project :
         (projects[p] = "archived" /\ projects'[p] # "archived") =>
             \/ projects'[p] = "deleted"
             \/ projects'[p] = "active" /\ audit'[p][1] = "restore"
             \/ Restore]_vars
=============================================================================
