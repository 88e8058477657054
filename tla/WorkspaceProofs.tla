--------------------------- MODULE WorkspaceProofs ---------------------------
(***************************************************************************)
(* Proofs about the workspace, for any sets of projects, sessions, names,  *)
(* digests and statements and any numbers of submissions, crashes and      *)
(* backups.  The inductive invariant has a part for each thing that is     *)
(* shared: the tables (the live ones and the backup's copy of them), the   *)
(* write lock, the files, the credentials.                                 *)
(***************************************************************************)
EXTENDS Workspace, FiniteSetTheorems, TLAPS

-----------------------------------------------------------------------------
(* The invariant. *)

\* The tables of a database, the one in use or a copy.
ProjectTables(pr, au) ==
    /\ pr \in [Project -> ProjectStatus \cup NoRow]
    /\ au \in [Project -> {<<>>} \cup (AuditAction \X ProjectStatus)]

EvidenceTables(pr, ar, co) ==
    /\ DOMAIN ar \subseteq Artifact
    /\ \A a \in DOMAIN ar : <<a, ar[a]>> \in DOMAIN co /\ pr[a[1]] \in ProjectStatus
    /\ DOMAIN co \subseteq Content
    /\ \A c \in DOMAIN co : co[c] \in 1 .. Cardinality(Digest)

ObservationTables(co, ob, pm) ==
    /\ DOMAIN ob \subseteq Observation
    /\ \A o \in DOMAIN ob : ob[o] \in ObservationStatus /\ o.content \in DOMAIN co
    /\ DOMAIN pm = DOMAIN ob
    /\ \A o \in DOMAIN ob : /\ pm[o] \in Seq({"pending", "decided"})
                            /\ ob[o] = "reconciled" <=> pm[o] # <<>>
                            /\ \A n \in DOMAIN pm[o] :
                                  pm[o][n] = "pending" => n = Len(pm[o])

Tables ==
    /\ ProjectTables(projects, audit)
    /\ EvidenceTables(projects, artifacts, contents)
    /\ ObservationTables(contents, observations, proposals)

\* A copy is as consistent as the tables were; what is in it and no longer in
\* use belongs to projects deleted since; and while files are copied, those
\* wanted by both are there, or still to be copied, or lost to a deletion.
Copied == backup.phase # "none"

CopyOK ==
    Copied =>
        /\ ProjectTables(backup.db.projects, backup.db.audit)
        /\ EvidenceTables(backup.db.projects, backup.db.artifacts, backup.db.contents)
        /\ ObservationTables(backup.db.contents, backup.db.observations, backup.db.proposals)
        /\ \A p \in Project : backup.db.projects[p] = "deleted" => projects[p] = "deleted"
        /\ \A c \in DOMAIN backup.db.contents :
              c \in DOMAIN contents \/ projects[OwnerOf(c)] = "deleted"

FilesCopied ==
    backup.phase \in {"copying", "made"} =>
        \A c \in DOMAIN backup.db.contents \cap DOMAIN contents :
            \/ backup.phase = "copying" /\ c[2] \in backup.todo
            \/ c[2] \in backup.objects \cup late

BackupRow ==
    backup \in [phase : BackupPhase, db : {backup.db}, todo : SUBSET Digest,
                objects : SUBSET Digest]

BackupOK ==
    /\ BackupRow
    /\ backup.phase = "none" => backup.db = None
    /\ CopyOK
    /\ FilesCopied

\* What a session is working on, by the step it takes next.
RowOK(r) ==
    /\ r.pc \in {"submit", "storing"} => r.content \in Content /\ r.project = OwnerOf(r.content)
    /\ r.pc = "extract" => r.content \in Content /\ r.todo \subseteq Chunk
    /\ r.pc \in {"persist", "reconcile", "insert"} => r.todo \subseteq Observation
    /\ r.pc \in {"disconnect", "purge"} => r.project \in Project
    /\ r.pc = "sweep" => r.todo \subseteq Digest

SessionsOK ==
    /\ session \in [Session -> SessionRow]
    /\ \A s \in Session : RowOK(session[s])

\* Who is storing has the lock, and its project cannot go.
LockOK ==
    /\ writer \in Session \cup {None}
    /\ \A s \in Session :
          /\ At(s, "storing") <=> writer = s
          /\ At(s, "storing") => Exists(session[s].project)

BeingStored(d) == \E s \in Session : At(s, "storing") /\ session[s].content[2] = d

Wanted(d) == d \in Referenced(DOMAIN contents) \/ BeingStored(d)

\* No file that a row refers to, or will, is missing or about to be removed.
FilesOK ==
    /\ objects \subseteq Digest
    /\ \A d \in Digest : Wanted(d) => d \in objects \cup late
    /\ \A d \in Digest : Wanted(d) /\ BeingSwept(d) => d \in late

NothingForgotten == crashes = 0 => \A d \in objects : Wanted(d) \/ BeingSwept(d)

\* A credential found by no deletion was stored after it looked.
SecretsOK ==
    /\ secrets \subseteq Project
    /\ \A p \in secrets :
          projects[p] = "deleted" \/ (\E s \in Session : At(s, "purge") /\ session[s].project = p)
              => p \in late

CountersOK ==
    /\ edits \in 0 .. MaxEdits
    /\ submits \in 0 .. MaxSubmits
    /\ crashes \in 0 .. MaxCrashes
    /\ backups \in 0 .. MaxBackups
    /\ late \subseteq Digest \cup Project

IInv ==
    /\ Tables /\ BackupOK /\ SessionsOK /\ LockOK
    /\ FilesOK /\ NothingForgotten /\ SecretsOK /\ CountersOK

-----------------------------------------------------------------------------
(* Steps of a session that touch neither files, credentials nor the lock. *)

LEMMA IdleTyped == Idle \in SessionRow /\ RowOK(Idle) /\ Idle.pc = "idle"
BY DEF Idle, SessionRow, PC, RowOK

\* A session that goes on, the others staying where they are.
LEMMA Moved ==
    ASSUME SessionsOK, NEW s \in Session, NEW row \in SessionRow, RowOK(row), Goto(s, row)
    PROVE  /\ SessionsOK'
           /\ session'[s] = row
           /\ \A t \in Session \ {s} : session'[t] = session[t]
BY DEF SessionsOK, Goto, RowOK

LEMMA Stopped ==
    ASSUME SessionsOK, NEW s \in Session, Stop(s)
    PROVE  /\ SessionsOK'
           /\ session'[s] = Idle
           /\ \A t \in Session \ {s} : session'[t] = session[t]
BY IdleTyped, Moved DEF Stop

\* GotoUntil comes to rest when nothing is left.
LEMMA MovedUntil ==
    ASSUME SessionsOK, NEW s \in Session, NEW row \in SessionRow, RowOK(row),
           GotoUntil(s, row)
    PROVE  /\ SessionsOK'
           /\ session'[s] = IF row.todo = {} THEN Idle ELSE row
           /\ \A t \in Session \ {s} : session'[t] = session[t]
BY Moved, Stopped DEF GotoUntil

\* The steps of a session between those that matter to the others.
Quiet ==
    \A t \in Session :
        \/ session'[t] = session[t]
        \/ /\ session[t].pc \notin {"storing", "sweep"}
           /\ session'[t].pc \notin {"storing", "sweep", "purge"}

LEMMA QuietStep ==
    ASSUME IInv, Quiet, SessionsOK', Tables', submits' \in 0 .. MaxSubmits,
           UNCHANGED <<projectVars, evidenceVars, backupVars, writer, secrets, late, crashes>>
    PROVE  IInv'
<1> USE DEF IInv, projectVars, evidenceVars, backupVars
<1>1. BackupOK'
  BY DEF BackupOK, BackupRow, CopyOK, Copied, FilesCopied, OwnerOf
<1>2. /\ \A s \in Session : At(s, "storing")' <=> At(s, "storing")
      /\ \A s \in Session : At(s, "sweep")' <=> At(s, "sweep")
      /\ \A s \in Session : At(s, "purge")' => At(s, "purge")
      /\ \A s \in Session : session[s].pc \in {"storing", "sweep"} \/ At(s, "purge")'
            => session'[s] = session[s]
  BY DEF Quiet, At
<1>3. LockOK'
  BY <1>2 DEF LockOK, Exists, At
<1>4. /\ \A d \in Digest : BeingStored(d)' <=> BeingStored(d)
      /\ \A d \in Digest : BeingSwept(d)' <=> BeingSwept(d)
  BY <1>2 DEF BeingStored, BeingSwept, At
<1>5. \A d \in Digest : Wanted(d)' <=> Wanted(d)
  BY <1>4 DEF Wanted, Referenced
<1>6. FilesOK'
  BY <1>4, <1>5 DEF FilesOK
<1>7. NothingForgotten'
  BY <1>4, <1>5 DEF NothingForgotten, FilesOK
<1>8. SecretsOK'
  BY <1>2 DEF SecretsOK
<1>9. CountersOK'
  BY DEF CountersOK
<1> QED
  BY <1>1, <1>3, <1>6, <1>7, <1>8, <1>9

LEMMA QuietMove ==
    ASSUME SessionsOK, NEW s \in Session, session[s].pc \notin {"storing", "sweep"},
           NEW row \in SessionRow, RowOK(row), row.pc \notin {"storing", "sweep", "purge"},
           Goto(s, row) \/ GotoUntil(s, row) \/ Stop(s)
    PROVE  SessionsOK' /\ Quiet
<1>1. CASE Goto(s, row)
  BY <1>1, Moved DEF Quiet
<1>2. CASE GotoUntil(s, row)
  BY <1>2, MovedUntil, IdleTyped DEF Quiet
<1>3. CASE Stop(s)
  BY <1>3, Stopped, IdleTyped DEF Quiet
<1> QED
  BY <1>1, <1>2, <1>3

-----------------------------------------------------------------------------
(* The tables. *)

LEMMA TablesKept ==
    ASSUME Tables, UNCHANGED <<projectVars, evidenceVars, observationVars>>
    PROVE  Tables'
BY DEF Tables, projectVars, evidenceVars, observationVars, ProjectTables, EvidenceTables,
       ObservationTables

LEMMA ObservationPersisted ==
    ASSUME Tables, NEW o \in Observation, o.content \in DOMAIN contents,
           persist_observation(o), UNCHANGED <<projectVars, evidenceVars>>
    PROVE  Tables'
<1> USE DEF Tables, projectVars, evidenceVars, observationVars
<1>1. CASE o \in DOMAIN observations
  BY <1>1, TablesKept DEF persist_observation
<1>2. CASE o \notin DOMAIN observations
  <2>1. /\ observations' = Upsert(observations, o, "valid")
        /\ proposals' = Upsert(proposals, o, <<>>)
    BY <1>2 DEF persist_observation
  <2>2. /\ DOMAIN observations' = DOMAIN observations \cup {o}
        /\ DOMAIN proposals' = DOMAIN observations \cup {o}
        /\ observations'[o] = "valid" /\ proposals'[o] = <<>>
        /\ \A x \in DOMAIN observations :
              observations'[x] = observations[x] /\ proposals'[x] = proposals[x]
    BY <1>2, <2>1 DEF Upsert, ObservationTables
  <2>3. <<>> \in Seq({"pending", "decided"}) /\ DOMAIN <<>> = {} /\ "valid" # "reconciled"
    OBVIOUS
  <2>4. ObservationTables(contents, observations, proposals)
    OBVIOUS
  <2>5. ObservationTables(contents, observations, proposals)'
    BY <2>2, <2>3, <2>4 DEF ObservationTables, ObservationStatus
  <2> QED
    BY <2>5 DEF ProjectTables, EvidenceTables
<1> QED
  BY <1>1, <1>2

LEMMA ProposalInserted ==
    ASSUME Tables, NEW o \in DOMAIN observations, ~ HasPending(o),
           insert_proposal(o), UNCHANGED <<projectVars, evidenceVars>>
    PROVE  Tables'
<1> USE DEF Tables, projectVars, evidenceVars
<1> DEFINE more == Append(proposals[o], "pending")
<1>1. proposals[o] \in Seq({"pending", "decided"})
  BY DEF ObservationTables
<1>2. /\ more \in Seq({"pending", "decided"}) /\ more # <<>>
      /\ \A n \in DOMAIN more : more[n] = "pending" => n = Len(more)
  BY <1>1 DEF HasPending
<1>3. /\ proposals' = [proposals EXCEPT ![o] = more]
      /\ observations' = [observations EXCEPT ![o] = "reconciled"]
  BY DEF insert_proposal
<1> HIDE DEF more
<1>4. ObservationTables(contents, observations, proposals)'
  BY <1>2, <1>3 DEF ObservationTables, ObservationStatus
<1> QED
  BY <1>4 DEF ProjectTables, EvidenceTables

LEMMA ProposalDecided ==
    ASSUME Tables, NEW o \in DOMAIN observations,
           Decide(o), UNCHANGED <<projectVars, evidenceVars>>
    PROVE  Tables'
<1> USE DEF Tables, projectVars, evidenceVars
<1> DEFINE decided == [n \in DOMAIN proposals[o] |-> "decided"]
<1>1. proposals[o] \in Seq({"pending", "decided"})
  BY DEF ObservationTables
<1>2. /\ decided \in Seq({"pending", "decided"}) /\ (decided # <<>> <=> proposals[o] # <<>>)
      /\ \A n \in DOMAIN decided : decided[n] # "pending"
  <2>1. decided \in [1 .. Len(proposals[o]) -> {"pending", "decided"}]
    BY <1>1
  <2>2. /\ decided \in Seq({"pending", "decided"}) /\ Len(decided) = Len(proposals[o])
        /\ \A n \in DOMAIN decided : decided[n] # "pending"
    BY <1>1, <2>1
  <2> HIDE DEF decided
  <2> QED
    BY <1>1, <2>2
<1>3. proposals' = [proposals EXCEPT ![o] = decided] /\ UNCHANGED observations
  BY DEF Decide
<1> HIDE DEF decided
<1>4. ObservationTables(contents, observations, proposals)'
  BY <1>2, <1>3 DEF ObservationTables
<1> QED
  BY <1>4 DEF ProjectTables, EvidenceTables

-----------------------------------------------------------------------------
(* Submitting, extracting and reconciling. *)

LEMMA ContentSubmitted ==
    ASSUME NEW p \in Project, NEW kind \in Intake, NEW name \in Name, NEW d \in Digest
    PROVE  LET row == [Idle EXCEPT !.pc = "submit", !.project = p,
                                   !.content = <<<<p, external_id(kind, name)>>, d>>]
           IN  row \in SessionRow /\ RowOK(row) /\ row.pc = "submit"
<1>1. <<<<p, external_id(kind, name)>>, d>> \in Content
  BY EvidenceAssumption DEF external_id, Content, Artifact, ExternalId
<1> QED
  BY <1>1 DEF Idle, SessionRow, PC, RowOK, OwnerOf

LEMMA SubmitStep ==
    ASSUME IInv, NEW s \in Session, Submit(s)
    PROVE  IInv'
<1>1. PICK p \in Project, name \in Name, d \in Digest :
         submit_manual_text(s, p, name, d) \/ submit_file_upload(s, p, name, d)
  BY DEF Submit
<1>2. PICK kind \in Intake :
         Goto(s, [Idle EXCEPT !.pc = "submit", !.project = p,
                              !.content = <<<<p, external_id(kind, name)>>, d>>])
  BY <1>1 DEF submit_manual_text, submit_file_upload, Intake
<1> DEFINE row == [Idle EXCEPT !.pc = "submit", !.project = p,
                               !.content = <<<<p, external_id(kind, name)>>, d>>]
<1>3. row \in SessionRow /\ RowOK(row) /\ row.pc = "submit"
  BY ContentSubmitted
<1> HIDE DEF row
<1>6. SessionsOK' /\ Quiet
  BY <1>2, <1>3, QuietMove DEF IInv, Submit, At, row
<1>4. Tables'
  BY TablesKept DEF IInv, Submit
<1>5. submits' \in 0 .. MaxSubmits
  BY WorkspaceAssumption DEF IInv, CountersOK, Submit
<1> QED
  BY <1>4, <1>5, <1>6, QuietStep DEF Submit

LEMMA StartExtractStep ==
    ASSUME IInv, NEW s \in Session, StartExtract(s)
    PROVE  IInv'
<1>1. PICK a \in DOMAIN artifacts :
         Goto(s, [Idle EXCEPT !.pc = "extract", !.content = <<a, artifacts[a]>>,
                              !.todo = Chunks[artifacts[a]]])
  BY DEF StartExtract
<1> DEFINE row == [Idle EXCEPT !.pc = "extract", !.content = <<a, artifacts[a]>>,
                               !.todo = Chunks[artifacts[a]]]
<1>2. <<a, artifacts[a]>> \in Content
  BY DEF IInv, Tables, EvidenceTables
<1>3. Chunks[artifacts[a]] \subseteq Chunk
  BY <1>2, EvidenceAssumption DEF Content
<1>4. row \in SessionRow /\ RowOK(row) /\ row.pc = "extract"
  BY <1>2, <1>3 DEF Idle, SessionRow, PC, RowOK
<1> HIDE DEF row
<1>5. SessionsOK' /\ Quiet
  BY <1>1, <1>4, QuietMove DEF IInv, StartExtract, At, row
<1> QED
  BY <1>5, TablesKept, QuietStep DEF IInv, CountersOK, StartExtract

LEMMA ExtractedRow ==
    ASSUME IInv, NEW s \in Session, At(s, "extract"), NEW left, left \subseteq Chunk,
           NEW found, found \subseteq Observation, Extracted(s, left, found)
    PROVE  SessionsOK' /\ Quiet
<1> DEFINE on == [session[s] EXCEPT !.todo = left, !.found = found]
           off == [session[s] EXCEPT !.pc = "persist", !.todo = found, !.found = {}]
<1>1. session[s] \in SessionRow /\ RowOK(session[s]) /\ session[s].pc = "extract"
  BY DEF IInv, SessionsOK, At
<1>2. on \in SessionRow /\ RowOK(on) /\ on.pc = "extract"
  BY <1>1 DEF SessionRow, RowOK
<1>3. off \in SessionRow /\ RowOK(off) /\ off.pc = "persist"
  BY <1>1 DEF SessionRow, RowOK, PC
<1>4. Goto(s, on) \/ GotoUntil(s, off)
  BY DEF Extracted
<1> HIDE DEF on, off
<1> QED
  BY <1>1, <1>2, <1>3, <1>4, QuietMove DEF IInv

LEMMA ExtractChunkStep ==
    ASSUME IInv, NEW s \in Session, ExtractChunk(s)
    PROVE  IInv'
<1>1. /\ session[s] \in SessionRow /\ session[s].found \subseteq Observation
      /\ session[s].content \in Content /\ session[s].todo \subseteq Chunk
      /\ At(s, "extract")
  BY DEF IInv, SessionsOK, RowOK, SessionRow, ExtractChunk, At
<1>2. PICK chunk \in session[s].todo :
         \/ \E batch \in SUBSET Statement :
               Extracted(s, session[s].todo \ {chunk},
                         session[s].found \cup Accepted(session[s].content, chunk, batch))
         \/ Extracted(s, {}, session[s].found)
  BY DEF ExtractChunk
<1>3. \A batch \in SUBSET Statement :
         Accepted(session[s].content, chunk, batch) \subseteq Observation
  BY <1>1, ObservationAssumption DEF Accepted, Observation
<1>4. \A batch \in SUBSET Statement :
         session[s].found \cup Accepted(session[s].content, chunk, batch) \subseteq Observation
  BY <1>1, <1>3
<1>5. SessionsOK' /\ Quiet
  BY <1>1, <1>2, <1>4, ExtractedRow
<1> QED
  BY <1>5, TablesKept, QuietStep DEF IInv, CountersOK, ExtractChunk

LEMMA PersistStep ==
    ASSUME IInv, NEW s \in Session, Persist(s)
    PROVE  IInv'
<1>1. PICK o \in session[s].todo :
         IF o.content \in DOMAIN contents
         THEN /\ persist_observation(o)
              /\ GotoUntil(s, [session[s] EXCEPT !.todo = @ \ {o}])
         ELSE Stop(s) /\ UNCHANGED observationVars
  BY DEF Persist
<1> DEFINE row == [session[s] EXCEPT !.todo = @ \ {o}]
<1>2. /\ session[s] \in SessionRow /\ session[s].pc = "persist"
      /\ session[s].todo \subseteq Observation /\ o \in Observation
  BY DEF IInv, SessionsOK, RowOK, Persist, At
<1>3. row \in SessionRow /\ RowOK(row) /\ row.pc = "persist"
  BY <1>2 DEF SessionRow, RowOK
<1> HIDE DEF row
<1>4. SessionsOK' /\ Quiet
  BY <1>1, <1>2, <1>3, QuietMove DEF IInv, row
<1>5. Tables'
  BY <1>1, <1>2, ObservationPersisted, TablesKept DEF IInv, Persist
<1> QED
  BY <1>4, <1>5, QuietStep DEF IInv, CountersOK, Persist

LEMMA StartReconcileStep ==
    ASSUME IInv, NEW s \in Session, StartReconcile(s)
    PROVE  IInv'
<1>1. PICK p \in Project : Goto(s, [Idle EXCEPT !.pc = "reconcile", !.todo = Pending(p)])
  BY DEF StartReconcile
<1> DEFINE row == [Idle EXCEPT !.pc = "reconcile", !.todo = Pending(p)]
<1>2. Pending(p) \subseteq Observation
  BY DEF IInv, Tables, ObservationTables, Pending
<1>3. row \in SessionRow /\ RowOK(row) /\ row.pc = "reconcile"
  BY <1>2 DEF Idle, SessionRow, PC, RowOK
<1> HIDE DEF row
<1>4. SessionsOK' /\ Quiet
  BY <1>1, <1>3, QuietMove DEF IInv, StartReconcile, At, row
<1> QED
  BY <1>4, TablesKept, QuietStep DEF IInv, CountersOK, StartReconcile

LEMMA CheckProposalsStep ==
    ASSUME IInv, NEW s \in Session, CheckProposals(s)
    PROVE  IInv'
<1>1. /\ session[s] \in SessionRow /\ RowOK(session[s]) /\ session[s].pc = "reconcile"
      /\ session[s].todo \subseteq Observation
  BY DEF IInv, SessionsOK, RowOK, CheckProposals, At
<1>2. PICK o \in session[s].todo :
         \/ GotoUntil(s, [session[s] EXCEPT !.todo = @ \ {o}])
         \/ Stop(s)
         \/ Goto(s, [session[s] EXCEPT !.pc = "insert", !.found = {o}])
  BY DEF CheckProposals
<1> DEFINE less == [session[s] EXCEPT !.todo = @ \ {o}]
           next == [session[s] EXCEPT !.pc = "insert", !.found = {o}]
<1>3. less \in SessionRow /\ RowOK(less) /\ less.pc = "reconcile"
  BY <1>1 DEF SessionRow, RowOK
<1>4. next \in SessionRow /\ RowOK(next) /\ next.pc = "insert"
  BY <1>1 DEF SessionRow, RowOK, PC
<1> HIDE DEF less, next
<1>5. SessionsOK' /\ Quiet
  BY <1>1, <1>2, <1>3, <1>4, QuietMove DEF IInv, less, next
<1> QED
  BY <1>5, TablesKept, QuietStep DEF IInv, CountersOK, CheckProposals

LEMMA InsertProposalStep ==
    ASSUME IInv, NEW s \in Session, InsertProposal(s)
    PROVE  IInv'
<1>1. PICK o \in session[s].found :
         IF o \in DOMAIN observations /\ ~HasPending(o)
         THEN /\ insert_proposal(o)
              /\ GotoUntil(s, [session[s] EXCEPT !.pc = "reconcile", !.todo = @ \ {o},
                                                 !.found = {}])
         ELSE Stop(s) /\ UNCHANGED observationVars
  BY DEF InsertProposal
<1> DEFINE row == [session[s] EXCEPT !.pc = "reconcile", !.todo = @ \ {o}, !.found = {}]
<1>2. /\ session[s] \in SessionRow /\ session[s].pc = "insert"
      /\ session[s].todo \subseteq Observation
  BY DEF IInv, SessionsOK, RowOK, InsertProposal, At
<1>3. row \in SessionRow /\ RowOK(row) /\ row.pc = "reconcile"
  BY <1>2 DEF SessionRow, RowOK, PC
<1> HIDE DEF row
<1>4. SessionsOK' /\ Quiet
  BY <1>1, <1>2, <1>3, QuietMove DEF IInv, row
<1>5. Tables'
  BY <1>1, ProposalInserted, TablesKept DEF IInv, InsertProposal
<1> QED
  BY <1>4, <1>5, QuietStep DEF IInv, CountersOK, InsertProposal

LEMMA ReviewStep ==
    ASSUME IInv, NEW s \in Session, Review(s)
    PROVE  IInv'
<1>1. PICK o \in DOMAIN observations : Decide(o)
  BY DEF Review
<1>2. Tables'
  BY <1>1, ProposalDecided DEF IInv, Review
<1>3. SessionsOK' /\ Quiet
  BY DEF IInv, Review, workspaceVars, SessionsOK, Quiet, RowOK
<1> QED
  BY <1>2, <1>3, QuietStep DEF IInv, CountersOK, Review, workspaceVars

LEMMA ConfirmDeleteStep ==
    ASSUME IInv, NEW s \in Session, ConfirmDelete(s)
    PROVE  IInv'
<1>1. PICK p \in Project : Goto(s, [Idle EXCEPT !.pc = "disconnect", !.project = p])
  BY DEF ConfirmDelete
<1> DEFINE row == [Idle EXCEPT !.pc = "disconnect", !.project = p]
<1>2. row \in SessionRow /\ RowOK(row) /\ row.pc = "disconnect"
  BY DEF Idle, SessionRow, PC, RowOK
<1> HIDE DEF row
<1>3. SessionsOK' /\ Quiet
  BY <1>1, <1>2, QuietMove DEF IInv, ConfirmDelete, At, row
<1> QED
  BY <1>3, TablesKept, QuietStep DEF IInv, CountersOK, ConfirmDelete

LEMMA BusyStep ==
    ASSUME IInv, NEW s \in Session, Busy(s)
    PROVE  IInv'
<1>1. SessionsOK' /\ Quiet
  BY Stopped, IdleTyped DEF IInv, Quiet, Busy
<1> QED
  BY <1>1, TablesKept, QuietStep DEF IInv, CountersOK, Busy

-----------------------------------------------------------------------------
(* Projects. *)

\* What the backup holds stays as it should be while projects only go for good,
\* contents only with their project, and no content comes back.
LEMMA BackupKept ==
    ASSUME BackupOK, UNCHANGED backup, late \subseteq late',
           \A p \in Project : projects[p] = "deleted" => projects'[p] = "deleted",
           \A c \in DOMAIN contents :
              c \in DOMAIN contents' \/ projects'[OwnerOf(c)] = "deleted",
           \A c \in DOMAIN contents' \ DOMAIN contents : projects[OwnerOf(c)] # "deleted"
    PROVE  BackupOK'
<1>1. BackupRow' /\ (backup.phase = "none" => backup.db = None)'
  BY DEF BackupOK, BackupRow
<1>2. Copied => \A c \in DOMAIN backup.db.contents : c \in Content /\ OwnerOf(c) \in Project
  BY DEF BackupOK, CopyOK, EvidenceTables, Content, Artifact, OwnerOf
<1>3. CopyOK'
  BY <1>2 DEF BackupOK, CopyOK, Copied
<1>4. FilesCopied'
  BY <1>2 DEF BackupOK, CopyOK, Copied, FilesCopied
<1> QED
  BY <1>1, <1>3, <1>4 DEF BackupOK

LEMMA ProjectRecorded ==
    ASSUME Tables, CountersOK, NEW p \in Project,
           create_project(p) \/ edit_project(p) \/ archive_project(p) \/ restore_project(p)
    PROVE  /\ ProjectTables(projects, audit)'
           /\ edits' \in 0 .. MaxEdits
           /\ \A q \in Project : projects'[q] = "deleted" <=> projects[q] = "deleted"
           /\ \A q \in Project : projects[q] \in ProjectStatus => projects'[q] \in ProjectStatus
<1>1. PICK status \in ProjectStatus, action \in AuditAction :
         /\ Recorded(p, action, status)
         /\ projects[p] # "deleted"
  BY DEF create_project, edit_project, archive_project, restore_project, set_archived,
         ProjectStatus, AuditAction, Editable, Exists, EDITABLE_STATUSES
<1>2. edits' \in 0 .. MaxEdits
  <2>1. edits' = edits \/ (edits < MaxEdits /\ edits' = edits + 1)
    BY DEF create_project, edit_project, archive_project, restore_project, Lifecycle
  <2>2. edits \in 0 .. MaxEdits /\ MaxEdits \in Nat
    BY WorkspaceAssumption DEF CountersOK
  <2> QED
    BY <2>1, <2>2
<1>3. "deleted" \notin ProjectStatus
  BY DEF ProjectStatus, EDITABLE_STATUSES
<1>4. /\ projects' = [projects EXCEPT ![p] = status]
      /\ audit' = [audit EXCEPT ![p] = <<action, status>>]
  BY <1>1 DEF Recorded
<1> QED
  BY <1>1, <1>2, <1>3, <1>4 DEF Tables, ProjectTables

LEMMA ManageProjectsStep ==
    ASSUME IInv, NEW s \in Session, ManageProjects(s)
    PROVE  IInv'
<1> USE DEF IInv, evidenceVars, observationVars, backupVars, workspaceVars
<1>1. /\ ProjectTables(projects, audit)'
      /\ edits' \in 0 .. MaxEdits
      /\ \A q \in Project : projects'[q] = "deleted" <=> projects[q] = "deleted"
      /\ \A q \in Project : projects[q] \in ProjectStatus => projects'[q] \in ProjectStatus
  BY ProjectRecorded DEF ManageProjects
<1>2. UNCHANGED <<artifacts, contents, objects, observations, proposals, backup, backups,
                  session, writer, secrets, late, submits, crashes>>
  BY DEF ManageProjects
<1>3. Tables'
  <2>1. \A a \in DOMAIN artifacts : a[1] \in Project
    BY DEF Tables, EvidenceTables, Artifact
  <2> QED
    BY <1>1, <1>2, <2>1 DEF Tables, EvidenceTables, ObservationTables
<1>4. BackupOK'
  BY <1>1, <1>2, BackupKept
<1>5. SessionsOK'
  BY <1>2 DEF SessionsOK, RowOK
<1>6. LockOK'
  <2>1. \A t \in Session : At(t, "storing") => session[t].project \in Project
    BY DEF SessionsOK, RowOK, At, OwnerOf, Content, Artifact
  <2> QED
    BY <1>1, <1>2, <2>1 DEF LockOK, At, Exists
<1>7. FilesOK' /\ NothingForgotten'
  BY <1>2 DEF FilesOK, NothingForgotten, Wanted, BeingStored, BeingSwept, At, Referenced
<1>8. SecretsOK'
  BY <1>1, <1>2 DEF SecretsOK, At
<1>9. CountersOK'
  BY <1>1, <1>2 DEF CountersOK
<1> QED
  BY <1>3, <1>4, <1>5, <1>6, <1>7, <1>8, <1>9

-----------------------------------------------------------------------------
(* Storing. *)

\* BeginStore without a project: the transaction ends where it opens.
LEMMA BeginStoreStep ==
    ASSUME IInv, NEW s \in Session, BeginStore(s)
    PROVE  IInv'
<1> USE DEF IInv
<1> DEFINE d == session[s].content[2]
           row == [session[s] EXCEPT !.pc = "storing"]
<1>1. /\ session[s] \in SessionRow /\ session[s].pc = "submit"
      /\ session[s].content \in Content /\ session[s].project = OwnerOf(session[s].content)
      /\ d \in Digest
  BY DEF SessionsOK, RowOK, BeginStore, At, Content
<1>2. row \in SessionRow /\ RowOK(row) /\ row.pc = "storing"
          /\ row.project = session[s].project /\ row.content[2] = d
  BY <1>1 DEF SessionRow, RowOK, PC
<1>3. UNCHANGED <<projects, audit, edits, artifacts, contents, observations, proposals,
                  backup, backups, secrets, submits, crashes>>
  BY DEF BeginStore, projectVars, observationVars, backupVars
<1> HIDE DEF d, row
<1>4. CASE Exists(session[s].project)
  <2>1. /\ objects' = objects \cup {d}
        /\ writer' = s
        /\ Goto(s, row)
        /\ late' = IF BeingSwept(d) THEN late \cup {d} ELSE late
    BY <1>4 DEF BeginStore, store_bytes, d, row
  <2>2. /\ SessionsOK'
        /\ session'[s] = row
        /\ \A t \in Session \ {s} : session'[t] = session[t]
    BY <1>2, <2>1, Moved
  <2>3. writer = None /\ None \notin Session
    BY WorkspaceAssumption DEF BeginStore, Unlocked
  <2>4. \A t \in Session : ~ At(t, "storing")
    BY <2>3 DEF LockOK
  <2>5. LockOK'
    <3>1. \A t \in Session : At(t, "storing")' <=> t = s
      BY <1>2, <2>2, <2>4 DEF At
    <3>2. Exists(session[s].project)'
      BY <1>2, <1>3, <1>4, <2>2 DEF Exists
    <3> QED
      BY <2>1, <3>1, <3>2 DEF LockOK
  <2>6. \A x \in Digest : Wanted(x)' <=> Wanted(x) \/ x = d
    BY <1>2, <1>3, <2>2, <2>4 DEF Wanted, BeingStored, Referenced, At
  <2>7. \A x \in Digest : BeingSwept(x)' <=> BeingSwept(x)
    BY <1>1, <1>2, <2>2 DEF BeingSwept, At
  <2>8. FilesOK'
    BY <1>1, <2>1, <2>6, <2>7 DEF FilesOK
  <2>9. NothingForgotten'
    BY <1>1, <1>3, <2>1, <2>6, <2>7 DEF NothingForgotten, FilesOK
  <2>10. SecretsOK'
    <3>1. \A t \in Session : At(t, "purge")' => At(t, "purge") /\ session'[t] = session[t]
      BY <1>2, <2>2 DEF At
    <3> QED
      BY <1>3, <2>1, <3>1 DEF SecretsOK
  <2>11. Tables'
    BY <1>3 DEF Tables, ProjectTables, EvidenceTables, ObservationTables
  <2>12. BackupOK'
    BY <1>3, <2>1, BackupKept
  <2>13. CountersOK'
    BY <1>1, <1>3, <2>1 DEF CountersOK
  <2> QED
    BY <2>2, <2>5, <2>8, <2>9, <2>10, <2>11, <2>12, <2>13
<1>5. CASE ~ Exists(session[s].project)
  <2>1. Stop(s) /\ UNCHANGED <<objects, writer, late>>
    BY <1>5 DEF BeginStore
  <2>2. SessionsOK' /\ Quiet
    BY <1>1, <2>1, Stopped, IdleTyped DEF Quiet
  <2> QED
    BY <1>3, <2>1, <2>2, TablesKept, QuietStep
       DEF projectVars, evidenceVars, observationVars, backupVars, CountersOK
<1> QED
  BY <1>4, <1>5

\* The versions of an artifact are as many as the digests they have.
LEMMA VersionKeyFits ==
    ASSUME EvidenceTables(projects, artifacts, contents), NEW a, NEW d \in Digest,
           <<a, d>> \notin DOMAIN contents
    PROVE  next_version_key(a) \in 1 .. Cardinality(Digest)
<1> DEFINE cs == {c \in DOMAIN contents : c[1] = a}
           rest == Digest \ {d}
           digest == [c \in cs |-> c[2]]
<1>1. \A c \in cs : c = <<a, c[2]>> /\ c[2] \in rest
  BY DEF EvidenceTables, Content
<1>2. digest \in [cs -> rest]
  BY <1>1
<1>3. \A c, e \in cs : digest[c] = digest[e] => c = e
  <2>1. SUFFICES ASSUME NEW c \in cs, NEW e \in cs, c[2] = e[2] PROVE c = e
    BY DEF digest
  <2> QED
    BY <1>1, <2>1
<1>4. digest \in Injection(cs, rest)
  BY <1>2, <1>3 DEF Injection, IsInjective
<1>5. /\ IsFiniteSet(rest) /\ IsFiniteSet(Digest)
      /\ Cardinality(rest) = Cardinality(Digest) - 1
      /\ Cardinality(Digest) \in Nat
  BY EvidenceAssumption, FS_RemoveElement, FS_CardinalityType
<1> HIDE DEF cs, rest, digest
<1>6. IsFiniteSet(cs) /\ Cardinality(cs) <= Cardinality(rest)
  BY <1>4, <1>5, FS_Injection
<1>7. Cardinality(cs) \in Nat
  BY <1>6, FS_CardinalityType
<1>8. next_version_key(a) = Cardinality(cs) + 1
  BY DEF next_version_key, cs
<1> QED
  BY <1>5, <1>6, <1>7, <1>8

LEMMA EvidenceStored ==
    ASSUME Tables, NEW a \in Artifact, NEW d \in Digest, Exists(a[1]),
           _store_content_and_chunks(a, d), UNCHANGED <<projectVars, observationVars>>
    PROVE  /\ Tables'
           /\ DOMAIN contents' = DOMAIN contents \cup {<<a, d>>}
<1> USE DEF projectVars, observationVars
<1> DEFINE c == <<a, d>>
<1>1. /\ DOMAIN artifacts' = DOMAIN artifacts \cup {a}
      /\ artifacts'[a] = d
      /\ \A b \in DOMAIN artifacts \ {a} : artifacts'[b] = artifacts[b]
  BY DEF _store_content_and_chunks, Upsert
<1>2. /\ DOMAIN contents' = DOMAIN contents \cup {c}
      /\ contents'[c] \in 1 .. Cardinality(Digest)
      /\ \A b \in DOMAIN contents \ {c} : contents'[b] = contents[b]
  <2>1. CASE c \in DOMAIN contents
    BY <2>1 DEF _store_content_and_chunks, Tables, EvidenceTables
  <2>2. CASE c \notin DOMAIN contents
    <3>1. contents' = Upsert(contents, c, next_version_key(a))
      BY <2>2 DEF _store_content_and_chunks
    <3>2. next_version_key(a) \in 1 .. Cardinality(Digest)
      BY <2>2, VersionKeyFits DEF Tables
    <3> QED
      BY <3>1, <3>2 DEF Upsert
  <2> QED
    BY <2>1, <2>2
<1>3. c \in Content
  BY DEF Content
<1> HIDE DEF c
<1>4. EvidenceTables(projects, artifacts, contents)'
  <2>1. DOMAIN artifacts' \subseteq Artifact /\ DOMAIN contents' \subseteq Content
    BY <1>1, <1>2, <1>3 DEF Tables, EvidenceTables
  <2>2. \A b \in DOMAIN artifacts' : <<b, artifacts'[b]>> \in DOMAIN contents'
    BY <1>1, <1>2 DEF Tables, EvidenceTables, c
  <2>3. \A b \in DOMAIN artifacts' : projects'[b[1]] \in ProjectStatus
    BY <1>1 DEF Tables, EvidenceTables, Exists
  <2>4. \A b \in DOMAIN contents' : contents'[b] \in 1 .. Cardinality(Digest)
    BY <1>2 DEF Tables, EvidenceTables
  <2> QED
    BY <2>1, <2>2, <2>3, <2>4 DEF EvidenceTables
<1>5. ObservationTables(contents, observations, proposals)'
  BY <1>2 DEF Tables, ObservationTables
<1>6. ProjectTables(projects, audit)'
  BY DEF Tables, ProjectTables
<1> QED
  BY <1>2, <1>4, <1>5, <1>6 DEF Tables, c

LEMMA CommitStoreStep ==
    ASSUME IInv, NEW s \in Session, CommitStore(s)
    PROVE  IInv'
<1> USE DEF IInv
<1> DEFINE a == session[s].content[1]
           d == session[s].content[2]
<1>1. /\ session[s].content \in Content /\ session[s].project = a[1]
      /\ session[s].content = <<a, d>> /\ a \in Artifact /\ d \in Digest
      /\ session[s].pc = "storing" /\ Exists(a[1]) /\ writer = s
      /\ \A t \in Session : At(t, "storing") <=> t = s
  BY DEF SessionsOK, RowOK, CommitStore, At, Content, OwnerOf, LockOK
<1>2. UNCHANGED <<projects, audit, edits, objects, observations, proposals,
                  backup, backups, secrets, late, submits, crashes>>
  BY DEF CommitStore, projectVars, observationVars, backupVars
<1>3. _store_content_and_chunks(a, d) /\ writer' = None /\ Stop(s)
  BY DEF CommitStore
<1> HIDE DEF a, d
<1>4. /\ Tables'
      /\ DOMAIN contents' = DOMAIN contents \cup {<<a, d>>}
  BY <1>1, <1>2, <1>3, EvidenceStored DEF projectVars, observationVars
<1>5. /\ SessionsOK'
      /\ session'[s] = Idle /\ Idle.pc = "idle"
      /\ \A t \in Session \ {s} : session'[t] = session[t]
  BY <1>3, Stopped, IdleTyped
<1>6. \A t \in Session : ~ At(t, "storing")'
  BY <1>1, <1>5 DEF At
<1>7. LockOK'
  BY <1>3, <1>6, WorkspaceAssumption DEF LockOK
<1>8. \A x \in Digest : Wanted(x)' <=> Wanted(x)
  <2>1. \A x \in Digest : BeingStored(x) <=> x = d
    BY <1>1 DEF BeingStored, d
  <2>2. Referenced(DOMAIN contents') = Referenced(DOMAIN contents) \cup {d}
    <3> DEFINE c == <<a, d>>
    <3>1. c[2] = d
      OBVIOUS
    <3>2. DOMAIN contents' = DOMAIN contents \cup {c}
      BY <1>4
    <3> HIDE DEF c
    <3> QED
      BY <3>1, <3>2, Zenon DEF Referenced
  <2>3. \A x \in Digest : ~ BeingStored(x)'
    BY <1>6 DEF BeingStored
  <2> QED
    BY <2>1, <2>2, <2>3 DEF Wanted
<1>9. \A x \in Digest : BeingSwept(x)' <=> BeingSwept(x)
  BY <1>1, <1>5 DEF BeingSwept, At
<1>10. FilesOK'
  BY <1>2, <1>8, <1>9 DEF FilesOK
<1>11. NothingForgotten'
  BY <1>2, <1>8, <1>9 DEF NothingForgotten, FilesOK
<1>12. SecretsOK'
  <2>1. \A t \in Session : At(t, "purge")' => At(t, "purge") /\ session'[t] = session[t]
    BY <1>5 DEF At
  <2> QED
    BY <1>2, <2>1 DEF SecretsOK
<1>13. BackupOK'
  <2>1. projects[a[1]] # "deleted" /\ OwnerOf(<<a, d>>) = a[1]
    BY <1>1 DEF Exists, ProjectStatus, EDITABLE_STATUSES, OwnerOf
  <2> QED
    BY <1>2, <1>4, <2>1, BackupKept
<1>14. CountersOK'
  BY <1>2 DEF CountersOK
<1> QED
  BY <1>4, <1>5, <1>7, <1>10, <1>11, <1>12, <1>13, <1>14

-----------------------------------------------------------------------------
(* Credentials and deletion. *)

LEMMA ConnectStep ==
    ASSUME IInv, NEW s \in Session, Connect(s)
    PROVE  IInv'
<1> USE DEF IInv
<1>1. PICK p \in Project :
         /\ Exists(p)
         /\ secrets' = secrets \cup {p}
         /\ late' = IF \E t \in Session : At(t, "purge") /\ session[t].project = p
                    THEN late \cup {p} ELSE late
  BY DEF Connect
<1>2. UNCHANGED <<projects, audit, edits, artifacts, contents, objects, observations,
                  proposals, backup, backups, session, writer, submits, crashes>>
  BY DEF Connect, projectVars, evidenceVars, observationVars, backupVars
<1>3. late \subseteq late' /\ late' \subseteq late \cup {p}
  BY <1>1
<1>4. Tables'
  BY <1>2 DEF Tables, ProjectTables, EvidenceTables, ObservationTables
<1>5. BackupOK'
  BY <1>2, <1>3, BackupKept
<1>6. SessionsOK' /\ LockOK' /\ CountersOK'
  BY <1>2, <1>3 DEF SessionsOK, RowOK, LockOK, At, Exists, CountersOK
<1>7. FilesOK' /\ NothingForgotten'
  BY <1>2, <1>3 DEF FilesOK, NothingForgotten, Wanted, BeingStored, BeingSwept, At, Referenced
<1>8. SecretsOK'
  <2>1. projects[p] # "deleted"
    BY <1>1 DEF Exists, ProjectStatus, EDITABLE_STATUSES
  <2>2. (\E t \in Session : At(t, "purge") /\ session[t].project = p) => p \in late'
    BY <1>1
  <2> QED
    BY <1>1, <1>2, <1>3, <2>1, <2>2 DEF SecretsOK, At
<1> QED
  BY <1>4, <1>5, <1>6, <1>7, <1>8

LEMMA DisconnectSourcesStep ==
    ASSUME IInv, NEW s \in Session, DisconnectSources(s)
    PROVE  IInv'
<1> USE DEF IInv
<1> DEFINE p == session[s].project
           row == [session[s] EXCEPT !.pc = "purge"]
<1>1. session[s] \in SessionRow /\ session[s].pc = "disconnect" /\ p \in Project
  BY DEF SessionsOK, RowOK, DisconnectSources, At
<1>2. row \in SessionRow /\ RowOK(row) /\ row.pc = "purge" /\ row.project = p
  BY <1>1 DEF SessionRow, RowOK, PC
<1>3. UNCHANGED <<projects, audit, edits, artifacts, contents, objects, observations,
                  proposals, backup, backups, writer, late, submits, crashes>>
  BY DEF DisconnectSources, projectVars, evidenceVars, observationVars, backupVars
<1>4. secrets' = secrets \ {p} /\ Goto(s, row)
  BY DEF DisconnectSources
<1> HIDE DEF p, row
<1>5. /\ SessionsOK'
      /\ session'[s] = row
      /\ \A t \in Session \ {s} : session'[t] = session[t]
  BY <1>2, <1>4, Moved
<1>6. /\ \A t \in Session : At(t, "storing")' <=> At(t, "storing")
      /\ \A t \in Session : At(t, "sweep")' <=> At(t, "sweep")
      /\ \A t \in Session : At(t, "storing") \/ At(t, "sweep") => session'[t] = session[t]
  BY <1>1, <1>2, <1>5 DEF At
<1>7. Tables'
  BY <1>3 DEF Tables, ProjectTables, EvidenceTables, ObservationTables
<1>8. BackupOK'
  BY <1>3, BackupKept
<1>9. LockOK'
  BY <1>3, <1>6 DEF LockOK, Exists
<1>10. /\ \A x \in Digest : BeingStored(x)' <=> BeingStored(x)
       /\ \A x \in Digest : BeingSwept(x)' <=> BeingSwept(x)
  BY <1>6 DEF BeingStored, BeingSwept
<1>11. \A x \in Digest : Wanted(x)' <=> Wanted(x)
  BY <1>3, <1>10 DEF Wanted, Referenced
<1>12. FilesOK' /\ NothingForgotten'
  BY <1>3, <1>10, <1>11 DEF FilesOK, NothingForgotten
<1>13. SecretsOK'
  <2>1. \A t \in Session \ {s} : At(t, "purge")' => At(t, "purge") /\ session'[t] = session[t]
    BY <1>5 DEF At
  <2>2. \A q \in secrets' : q \in secrets /\ q # session'[s].project
    BY <1>2, <1>4, <1>5
  <2> QED
    BY <1>3, <2>1, <2>2 DEF SecretsOK
<1>14. CountersOK'
  BY <1>3 DEF CountersOK
<1> QED
  BY <1>5, <1>7, <1>8, <1>9, <1>12, <1>13, <1>14

LEMMA RowsDeleted ==
    ASSUME Tables, NEW p \in Project,
           DeleteEvidenceRows(p), DeleteObservationRows(p), DeleteProjectRow(p)
    PROVE  /\ Tables'
           /\ DOMAIN contents' = DOMAIN contents \ OwnedBy(p)
           /\ projects' = [projects EXCEPT ![p] = "deleted"]
<1>1. /\ projects' = [projects EXCEPT ![p] = "deleted"]
      /\ audit' = [audit EXCEPT ![p] = <<>>]
  BY DEF DeleteProjectRow
<1>2. /\ DOMAIN contents' = DOMAIN contents \ OwnedBy(p)
      /\ \A c \in DOMAIN contents' : contents'[c] = contents[c]
  BY DEF DeleteEvidenceRows, Without
<1>3. /\ DOMAIN artifacts' = {a \in DOMAIN artifacts : a[1] # p}
      /\ \A a \in DOMAIN artifacts' : artifacts'[a] = artifacts[a]
  BY DEF DeleteEvidenceRows, Without
<1>4. /\ DOMAIN observations' = {o \in DOMAIN observations : OwnerOf(o.content) # p}
      /\ DOMAIN proposals' = {o \in DOMAIN observations : OwnerOf(o.content) # p}
      /\ \A o \in DOMAIN observations' :
            observations'[o] = observations[o] /\ proposals'[o] = proposals[o]
  BY DEF DeleteObservationRows, Without, Tables, ObservationTables
<1>5. ProjectTables(projects, audit)'
  BY <1>1 DEF Tables, ProjectTables, NoRow
<1>6. EvidenceTables(projects, artifacts, contents)'
  <2>1. \A a \in DOMAIN artifacts' : <<a, artifacts'[a]>> \in DOMAIN contents'
    BY <1>2, <1>3 DEF Tables, EvidenceTables, OwnedBy, OwnerOf
  <2>2. \A a \in DOMAIN artifacts' : projects'[a[1]] \in ProjectStatus
    BY <1>1, <1>3 DEF Tables, EvidenceTables, ProjectTables, Artifact
  <2> QED
    BY <1>2, <1>3, <2>1, <2>2 DEF Tables, EvidenceTables
<1>7. ObservationTables(contents, observations, proposals)'
  BY <1>2, <1>4 DEF Tables, ObservationTables, OwnedBy
<1> QED
  BY <1>1, <1>2, <1>5, <1>6, <1>7 DEF Tables

LEMMA PurgeStep ==
    ASSUME IInv, NEW s \in Session, Purge(s)
    PROVE  IInv'
<1> USE DEF IInv
<1> DEFINE p == session[s].project
           doomed == sha256_only_referenced_by_project(p)
           row == [session[s] EXCEPT !.pc = "sweep", !.todo = doomed]
<1>1. session[s] \in SessionRow /\ session[s].pc = "purge" /\ p \in Project
  BY DEF SessionsOK, RowOK, Purge, At
<1>2. doomed \subseteq Digest
  BY DEF sha256_only_referenced_by_project, Referenced, OwnedBy, Tables, EvidenceTables,
         Content
<1> HIDE DEF doomed
<1>3. row \in SessionRow /\ RowOK(row) /\ row.pc = "sweep" /\ row.todo = doomed
  BY <1>1, <1>2 DEF SessionRow, RowOK, PC
<1>4. /\ GotoUntil(s, row)
      /\ DeleteEvidenceRows(p) /\ DeleteObservationRows(p) /\ DeleteProjectRow(p)
  BY DEF Purge, doomed
<1>5. UNCHANGED <<edits, objects, backup, backups, writer, secrets, late, submits, crashes>>
  BY DEF Purge, DeleteProjectRow, backupVars
<1> HIDE DEF p, row
<1>6. /\ SessionsOK'
      /\ session'[s] = IF doomed = {} THEN Idle ELSE row
      /\ \A t \in Session \ {s} : session'[t] = session[t]
  BY <1>3, <1>4, MovedUntil
<1>7. /\ Tables'
      /\ DOMAIN contents' = DOMAIN contents \ OwnedBy(p)
      /\ projects' = [projects EXCEPT ![p] = "deleted"]
  BY <1>1, <1>4, RowsDeleted
<1>8. \A t \in Session : ~ At(t, "storing") /\ ~ At(t, "storing")'
  <2>1. \A t \in Session : ~ At(t, "storing")
    BY WorkspaceAssumption DEF LockOK, Purge, Unlocked
  <2> QED
    BY <1>3, <1>6, <2>1, IdleTyped DEF At
<1>9. LockOK'
  BY <1>5, <1>8 DEF LockOK
<1>10. Referenced(DOMAIN contents) = Referenced(DOMAIN contents)' \cup doomed
  BY <1>7 DEF doomed, sha256_only_referenced_by_project, Referenced, OwnedBy
<1>11. Referenced(DOMAIN contents)' \cap doomed = {}
  BY <1>7 DEF doomed, sha256_only_referenced_by_project
<1>12. \A x \in Digest : Wanted(x) <=> Wanted(x)' \/ x \in doomed
  BY <1>8, <1>10 DEF Wanted, BeingStored
<1>13. \A x \in Digest : BeingSwept(x)' <=> BeingSwept(x) \/ x \in doomed
  BY <1>1, <1>3, <1>6, IdleTyped DEF BeingSwept, At
<1>14. \A x \in Digest : ~ (Wanted(x)' /\ x \in doomed)
  BY <1>8, <1>11 DEF Wanted, BeingStored
<1>15. FilesOK' /\ NothingForgotten'
  BY <1>5, <1>12, <1>13, <1>14 DEF FilesOK, NothingForgotten
<1>16. SecretsOK'
  <2>1. \A t \in Session : At(t, "purge")' => At(t, "purge") /\ session'[t] = session[t]
    BY <1>3, <1>6, IdleTyped DEF At
  <2>2. \A q \in secrets : projects'[q] = "deleted" => projects[q] = "deleted" \/ q = p
    BY <1>1, <1>7 DEF SecretsOK, Tables, ProjectTables
  <2>3. p \in secrets => p \in late
    BY <1>1 DEF SecretsOK, At, p
  <2> QED
    BY <1>5, <2>1, <2>2, <2>3 DEF SecretsOK
<1>17. BackupOK'
  <2>1. projects \in [Project -> ProjectStatus \cup NoRow]
    BY DEF Tables, ProjectTables
  <2>2. \A c \in OwnedBy(p) : projects'[OwnerOf(c)] = "deleted"
    BY <1>1, <1>7, <2>1 DEF OwnedBy
  <2> QED
    BY <1>1, <1>5, <1>7, <2>1, <2>2, BackupKept
<1>18. CountersOK'
  BY <1>5 DEF CountersOK
<1> QED
  BY <1>6, <1>7, <1>9, <1>15, <1>16, <1>17, <1>18

LEMMA DeleteObjectStep ==
    ASSUME IInv, NEW s \in Session, DeleteObject(s)
    PROVE  IInv'
<1> USE DEF IInv
<1>1. PICK d \in session[s].todo :
         /\ delete_object(d)
         /\ GotoUntil(s, [session[s] EXCEPT !.todo = @ \ {d}])
  BY DEF DeleteObject
<1> DEFINE row == [session[s] EXCEPT !.todo = @ \ {d}]
<1>2. /\ session[s] \in SessionRow /\ session[s].pc = "sweep"
      /\ session[s].todo \subseteq Digest /\ d \in Digest
  BY DEF SessionsOK, RowOK, DeleteObject, At
<1>3. row \in SessionRow /\ RowOK(row) /\ row.pc = "sweep" /\ row.todo = session[s].todo \ {d}
  BY <1>2 DEF SessionRow, RowOK
<1>4. UNCHANGED <<projects, audit, edits, artifacts, contents, observations, proposals,
                  backup, backups, writer, secrets, late, submits, crashes>>
  BY DEF DeleteObject, projectVars, observationVars, backupVars
<1>5. objects' = objects \ {d}
  BY <1>1 DEF delete_object
<1> HIDE DEF row
<1>6. /\ SessionsOK'
      /\ session'[s] = IF row.todo = {} THEN Idle ELSE row
      /\ \A t \in Session \ {s} : session'[t] = session[t]
  BY <1>1, <1>3, MovedUntil DEF row
<1>7. /\ \A t \in Session : At(t, "storing")' <=> At(t, "storing")
      /\ \A t \in Session : At(t, "storing") => session'[t] = session[t]
      /\ \A t \in Session : At(t, "purge")' => At(t, "purge") /\ session'[t] = session[t]
  BY <1>2, <1>3, <1>6, IdleTyped DEF At
<1>8. \A x \in Digest : Wanted(x)' <=> Wanted(x)
  BY <1>4, <1>7 DEF Wanted, BeingStored, Referenced
<1>9. BeingSwept(d)
  BY <1>2 DEF BeingSwept, At
<1>10. \A x \in Digest : /\ BeingSwept(x)' => BeingSwept(x)
                         /\ BeingSwept(x) => BeingSwept(x)' \/ x = d
  BY <1>2, <1>3, <1>6, IdleTyped DEF BeingSwept, At
<1>11. FilesOK'
  BY <1>2, <1>4, <1>5, <1>8, <1>9, <1>10 DEF FilesOK
<1>12. NothingForgotten'
  BY <1>4, <1>5, <1>8, <1>10 DEF NothingForgotten, FilesOK
<1>13. Tables'
  BY <1>4 DEF Tables, ProjectTables, EvidenceTables, ObservationTables
<1>14. BackupOK'
  BY <1>4, BackupKept
<1>15. LockOK'
  BY <1>4, <1>7 DEF LockOK, Exists
<1>16. SecretsOK'
  BY <1>4, <1>7 DEF SecretsOK
<1>17. CountersOK'
  BY <1>4 DEF CountersOK
<1> QED
  BY <1>6, <1>11, <1>12, <1>13, <1>14, <1>15, <1>16, <1>17

-----------------------------------------------------------------------------
(* Crashes and the backup. *)

LEMMA CrashStep ==
    ASSUME IInv, Crash
    PROVE  IInv'
<1> USE DEF IInv
<1>1. UNCHANGED <<projects, audit, edits, artifacts, contents, objects, observations,
                  proposals, backup, backups, secrets, late, submits>>
  BY DEF Crash, projectVars, evidenceVars, observationVars, backupVars
<1>2. session' = [s \in Session |-> Idle] /\ writer' = None
  BY DEF Crash
<1>3. SessionsOK' /\ \A s \in Session : session'[s].pc = "idle"
  BY <1>2, IdleTyped DEF SessionsOK
<1>4. LockOK'
  BY <1>2, <1>3, WorkspaceAssumption DEF LockOK, At
<1>5. crashes \in Nat /\ crashes' = crashes + 1 /\ crashes' \in 0 .. MaxCrashes
  BY WorkspaceAssumption DEF CountersOK, Crash
<1>6. FilesOK' /\ NothingForgotten'
  BY <1>1, <1>3, <1>5 DEF FilesOK, NothingForgotten, Wanted, BeingStored, BeingSwept, At,
                          Referenced
<1>7. SecretsOK'
  BY <1>1, <1>3 DEF SecretsOK, At
<1>8. Tables'
  BY <1>1 DEF Tables, ProjectTables, EvidenceTables, ObservationTables
<1>9. BackupOK'
  BY <1>1, BackupKept
<1>10. CountersOK'
  BY <1>1, <1>5 DEF CountersOK
<1> QED
  BY <1>3, <1>4, <1>6, <1>7, <1>8, <1>9, <1>10

LEMMA MakeBackupStep ==
    ASSUME IInv, MakeBackup
    PROVE  IInv'
<1> USE DEF IInv
<1>1. UNCHANGED <<projects, audit, edits, artifacts, contents, objects, observations,
                  proposals, session, writer, secrets, late, submits, crashes>>
  BY DEF MakeBackup, projectVars, evidenceVars, observationVars, workspaceVars
<1>2. Tables'
  BY <1>1 DEF Tables, ProjectTables, EvidenceTables, ObservationTables
<1>3. SessionsOK' /\ LockOK'
  BY <1>1 DEF SessionsOK, RowOK, LockOK, At, Exists
<1>4. FilesOK' /\ NothingForgotten' /\ SecretsOK'
  BY <1>1 DEF FilesOK, NothingForgotten, Wanted, BeingStored, BeingSwept, At, Referenced,
              SecretsOK
<1>5. create_backup
  BY DEF MakeBackup
<1>6. Referenced(DOMAIN contents) \subseteq Digest
  BY DEF Tables, EvidenceTables, Referenced, Content
<1>7. CASE _backup_sqlite_file
  <2>1. /\ backup'.phase = "copied" /\ backup'.db = Database
        /\ backup'.todo = {} /\ backup'.objects = {}
        /\ backup' = [phase |-> "copied", db |-> Database, todo |-> {}, objects |-> {}]
    BY <1>7 DEF _backup_sqlite_file, NoBackup
  <2>2. /\ backup'.db.projects = projects /\ backup'.db.audit = audit
        /\ backup'.db.artifacts = artifacts /\ backup'.db.contents = contents
        /\ backup'.db.observations = observations /\ backup'.db.proposals = proposals
    BY <2>1 DEF Database
  <2>3. CopyOK'
    BY <1>1, <2>2 DEF CopyOK, Tables
  <2>4. FilesCopied' /\ BackupRow' /\ (backup.phase = "none" => backup.db = None)'
    BY <2>1 DEF FilesCopied, BackupRow, BackupPhase
  <2>5. backups' \in 0 .. MaxBackups
    BY <1>7, WorkspaceAssumption DEF _backup_sqlite_file, CountersOK
  <2> QED
    BY <1>1, <1>2, <1>3, <1>4, <2>3, <2>4, <2>5 DEF BackupOK, CountersOK
<1>8. CASE _referenced_sha256s
  <2>1. /\ backup.phase = "copied" /\ backup'.phase = "copying" /\ backup'.db = backup.db
        /\ backup'.todo = Referenced(DOMAIN contents) /\ backup'.objects = backup.objects
        /\ BackupRow' /\ backups' = backups
    BY <1>6, <1>8 DEF _referenced_sha256s, BackupOK, BackupRow, BackupPhase
  <2>2. FilesCopied'
    BY <1>1, <2>1 DEF FilesCopied, Referenced
  <2>3. CopyOK'
    BY <1>1, <2>1 DEF BackupOK, CopyOK, Copied
  <2> QED
    BY <1>1, <1>2, <1>3, <1>4, <2>1, <2>2, <2>3 DEF BackupOK, CountersOK
<1>9. CASE CopyObject
  <2>1. PICK d \in backup.todo :
          \/ /\ d \in objects
             /\ backup' = [backup EXCEPT !.todo = @ \ {d}, !.objects = @ \cup {d}]
          \/ d \notin objects /\ backup' = [backup EXCEPT !.todo = @ \ {d}]
          \/ d \notin objects /\ backup' = NoBackup
    BY <1>9 DEF CopyObject
  <2>2. backup.phase = "copying" /\ backups' = backups
    BY <1>9 DEF CopyObject
  <2>3. CASE backup' = NoBackup
    BY <1>1, <1>2, <1>3, <1>4, <2>2, <2>3
       DEF NoBackup, BackupOK, BackupRow, BackupPhase, CopyOK, Copied, FilesCopied, CountersOK
  <2>4. CASE backup' # NoBackup
    <3>1. /\ backup'.phase = "copying" /\ backup'.db = backup.db
          /\ backup'.todo = backup.todo \ {d}
          /\ backup.objects \subseteq backup'.objects
          /\ d \in objects => d \in backup'.objects
          /\ BackupRow'
      <4>1. /\ d \in Digest /\ backup.objects \subseteq Digest
            /\ backup \in [phase : BackupPhase, db : {backup.db}, todo : SUBSET Digest,
                           objects : SUBSET Digest]
        BY DEF BackupOK, BackupRow
      <4>2. CASE backup' = [backup EXCEPT !.todo = @ \ {d}, !.objects = @ \cup {d}]
        BY <2>2, <4>1, <4>2 DEF BackupRow
      <4>3. CASE d \notin objects /\ backup' = [backup EXCEPT !.todo = @ \ {d}]
        BY <2>2, <4>1, <4>3 DEF BackupRow
      <4> QED
        BY <2>1, <2>4, <4>2, <4>3
    <3>2. \A c \in DOMAIN contents : c[2] = d => d \in backup'.objects \cup late
      BY <3>1 DEF FilesOK, Wanted, Referenced, BackupOK, BackupRow
    <3>3. FilesCopied'
      BY <1>1, <2>2, <3>1, <3>2 DEF BackupOK, FilesCopied
    <3>4. CopyOK'
      BY <1>1, <2>2, <3>1 DEF BackupOK, CopyOK, Copied
    <3> QED
      BY <1>1, <1>2, <1>3, <1>4, <2>2, <3>1, <3>3, <3>4 DEF BackupOK, CountersOK
  <2> QED
    BY <2>3, <2>4
<1>10. CASE WriteManifest
  <2>1. /\ backup.phase = "copying" /\ backup'.phase = "made" /\ backup'.db = backup.db
        /\ backup.todo = {} /\ backup'.objects = backup.objects
        /\ BackupRow' /\ backups' = backups
    BY <1>10 DEF WriteManifest, BackupOK, BackupRow, BackupPhase
  <2>2. FilesCopied'
    BY <1>1, <2>1 DEF BackupOK, FilesCopied
  <2>3. CopyOK'
    BY <1>1, <2>1 DEF BackupOK, CopyOK, Copied
  <2> QED
    BY <1>1, <1>2, <1>3, <1>4, <2>1, <2>2, <2>3 DEF BackupOK, CountersOK
<1> QED
  BY <1>5, <1>7, <1>8, <1>9, <1>10 DEF create_backup

LEMMA RestoreStep ==
    ASSUME IInv, Restore
    PROVE  IInv'
<1> USE DEF IInv
<1> DEFINE db == backup.db
           lost == Referenced(DOMAIN db.contents \ DOMAIN contents)
<1>1. UNCHANGED <<edits, backup, backups, session, writer, secrets, submits>>
  BY DEF Restore, backupVars
<1>2. /\ backup.phase = "made"
      /\ projects' = db.projects /\ audit' = db.audit
      /\ artifacts' = db.artifacts /\ contents' = db.contents
      /\ observations' = db.observations /\ proposals' = db.proposals
      /\ objects' = objects \cup backup.objects
      /\ late' = late \cup lost
  BY DEF Restore, restore_backup
<1>3. \A s \in Session : session[s].pc = "idle"
  BY DEF Restore, At
<1>4. crashes \in Nat /\ crashes' = crashes + 1 /\ crashes' \in 0 .. MaxCrashes
  BY WorkspaceAssumption DEF CountersOK, Restore
<1>5. /\ ProjectTables(db.projects, db.audit)
      /\ EvidenceTables(db.projects, db.artifacts, db.contents)
      /\ ObservationTables(db.contents, db.observations, db.proposals)
      /\ \A p \in Project : db.projects[p] = "deleted" => projects[p] = "deleted"
  BY <1>2 DEF BackupOK, CopyOK, Copied
<1>6. Tables'
  BY <1>2, <1>5 DEF Tables
<1>7. \A c \in DOMAIN db.contents : c \in DOMAIN contents \/ c[2] \in lost
  BY DEF Referenced
<1>8. lost \subseteq Digest
  BY <1>5 DEF EvidenceTables, Referenced, Content
<1> HIDE DEF lost
<1>9. SessionsOK' /\ LockOK'
  BY <1>1, <1>3 DEF SessionsOK, RowOK, LockOK, At
<1>10. BackupOK'
  <2>1. CopyOK'
    BY <1>1, <1>2, <1>5 DEF CopyOK
  <2>2. FilesCopied'
    BY <1>1, <1>2, <1>7 DEF BackupOK, FilesCopied
  <2> QED
    BY <1>1, <2>1, <2>2 DEF BackupOK, BackupRow
<1>11. FilesOK'
  <2>1. \A d \in Digest : ~ BeingStored(d)' /\ ~ BeingSwept(d)'
    BY <1>1, <1>3 DEF BeingStored, BeingSwept, At
  <2>2. \A c \in DOMAIN contents : c[2] \in objects \cup late
    BY DEF FilesOK, Wanted, Referenced, Tables, EvidenceTables, Content
  <2>3. \A c \in DOMAIN contents' : c[2] \in objects' \cup late'
    BY <1>2, <1>7, <2>2
  <2>4. objects' \subseteq Digest
    BY <1>2 DEF FilesOK, BackupOK, BackupRow
  <2> QED
    BY <2>1, <2>3, <2>4 DEF FilesOK, Wanted, Referenced
<1>12. NothingForgotten'
  BY <1>4 DEF NothingForgotten
<1>13. SecretsOK'
  BY <1>1, <1>2, <1>3, <1>5 DEF SecretsOK, At
<1>14. CountersOK'
  BY <1>1, <1>2, <1>4, <1>8 DEF CountersOK
<1> QED
  BY <1>6, <1>9, <1>10, <1>11, <1>12, <1>13, <1>14

-----------------------------------------------------------------------------
(* The theorems. *)

LEMMA Initially == Init => IInv
<1> SUFFICES ASSUME Init PROVE IInv
  OBVIOUS
<1> USE DEF Init, ProjectsInit, EvidenceInit, ObservationsInit, BackupInit, NoBackup
<1>1. Tables
  BY DEF Tables, ProjectTables, EvidenceTables, ObservationTables, NoRow
<1>2. BackupOK
  BY DEF BackupOK, BackupRow, BackupPhase, CopyOK, Copied, FilesCopied
<1>3. SessionsOK /\ \A s \in Session : session[s].pc = "idle"
  BY IdleTyped DEF SessionsOK
<1>4. LockOK
  BY <1>3, WorkspaceAssumption DEF LockOK, At
<1>5. FilesOK /\ NothingForgotten
  BY <1>3 DEF FilesOK, NothingForgotten, Wanted, BeingStored, Referenced, At
<1>6. SecretsOK
  BY DEF SecretsOK
<1>7. CountersOK
  BY WorkspaceAssumption DEF CountersOK
<1> QED
  BY <1>1, <1>2, <1>3, <1>4, <1>5, <1>6, <1>7 DEF IInv

LEMMA Stuttering == IInv /\ UNCHANGED vars => IInv'
<1> SUFFICES ASSUME IInv, UNCHANGED vars PROVE IInv'
  OBVIOUS
<1> USE DEF vars, workspaceVars
<1>1. SessionsOK' /\ Quiet /\ submits' \in 0 .. MaxSubmits
  BY DEF IInv, SessionsOK, RowOK, Quiet, CountersOK
<1> QED
  BY <1>1, TablesKept, QuietStep DEF IInv

LEMMA Inductive == IInv /\ [Next]_vars => IInv'
<1> SUFFICES ASSUME IInv, Next PROVE IInv'
  BY Stuttering
<1>1. CASE \E s \in Session : Step(s)
  BY <1>1, ManageProjectsStep, SubmitStep, BeginStoreStep, CommitStoreStep, StartExtractStep,
     ExtractChunkStep, PersistStep, StartReconcileStep, CheckProposalsStep,
     InsertProposalStep, ReviewStep, ConnectStep, ConfirmDeleteStep, DisconnectSourcesStep,
     PurgeStep, DeleteObjectStep, BusyStep DEF Step
<1> QED
  BY <1>1, CrashStep, MakeBackupStep, RestoreStep DEF Next

LEMMA Always == Spec => []IInv
BY Initially, Inductive, PTL DEF Spec

\* Whatever the sessions, the backup, crashes and a restore do to them, the rows keep
\* their shape and refer to rows that are there.
THEOREM WorkspaceTyped == Spec => []WorkspaceTypeOK
<1>1. IInv => WorkspaceTypeOK
  <2> SUFFICES ASSUME IInv PROVE WorkspaceTypeOK
    OBVIOUS
  <2> USE DEF IInv, Tables, CountersOK
  <2>1. ProjectsTypeOK
    BY DEF ProjectsTypeOK, ProjectTables
  <2>2. EvidenceTypeOK
    BY DEF EvidenceTypeOK, EvidenceTables, FilesOK
  <2>3. ObservationsTypeOK
    BY DEF ObservationsTypeOK, ObservationTables
  <2>4. BackupTypeOK
    BY DEF BackupTypeOK, BackupOK, BackupRow
  <2>5. \A a \in DOMAIN artifacts : Exists(a[1])
    BY DEF EvidenceTables, Exists
  <2> QED
    BY <2>1, <2>2, <2>3, <2>4, <2>5 DEF WorkspaceTypeOK, SessionsOK, LockOK, SecretsOK
<1> QED
  BY <1>1, Always, PTL

\* No file that evidence refers to is lost, however deletions, intakes of the same bytes,
\* crashes and a restore interleave, but for bytes submitted within a deletion's own gap.
THEOREM FilesStay == Spec => []RowsHaveObjects
<1>1. IInv => RowsHaveObjects
  BY DEF IInv, FilesOK, Wanted, Referenced, Tables, EvidenceTables, Content, RowsHaveObjects
<1> QED
  BY <1>1, Always, PTL

\* When all is done and nothing crashed, no file is left that no row refers to.
THEOREM FilesGo == Spec => []NoFileLeftOver
<1>1. IInv => NoFileLeftOver
  BY DEF IInv, FilesOK, NothingForgotten, Wanted, BeingStored, BeingSwept, At, NoFileLeftOver
<1> QED
  BY <1>1, Always, PTL

\* A deleted project's credentials are gone, those stored behind the deletion's back aside.
THEOREM SecretsGo == Spec => []NoSecretLeft
<1>1. IInv => NoSecretLeft
  BY DEF IInv, SecretsOK, NoSecretLeft
<1> QED
  BY <1>1, Always, PTL

\* However many reconciliations, extractions and reviews go on at once, an observation is
\* reconciled exactly when it was proposed, and only its last proposal can be pending.
THEOREM ReconciledOnce == Spec => []ReconciledIffProposed
<1>1. IInv => ReconciledIffProposed
  BY DEF IInv, Tables, ObservationTables, ReconciledIffProposed
<1> QED
  BY <1>1, Always, PTL

\* A finished backup has the files of all it copied that was not deleted meanwhile.
THEOREM BackupsComplete == Spec => []BackupComplete
<1>1. IInv => BackupComplete
  BY DEF IInv, BackupOK, FilesCopied, BackupComplete
<1> QED
  BY <1>1, Always, PTL

\* One project's part of ArchivedIsFrozen.
Thawed(p) ==
    (projects[p] = "archived" /\ projects'[p] # "archived") =>
        \/ projects'[p] = "deleted"
        \/ projects'[p] = "active" /\ audit'[p][1] = "restore"
        \/ Restore

\* An archived project is left by restoring it only, whatever forms were open on it, and
\* whatever the other sessions, the backup and crashes did.
THEOREM ArchivedFrozen == Spec => ArchivedIsFrozen
<1>1. ASSUME IInv, Next, NEW p \in Project
      PROVE  Thawed(p)
  <2>1. /\ projects \in [Project -> ProjectStatus \cup NoRow]
        /\ audit \in [Project -> {<<>>} \cup (AuditAction \X ProjectStatus)]
    BY <1>1 DEF IInv, Tables, ProjectTables
  <2>2. ASSUME NEW s \in Session, ManageProjects(s)
        PROVE  Thawed(p)
    <3>1. PICK q \in Project :
             create_project(q) \/ edit_project(q) \/ archive_project(q) \/ restore_project(q)
      BY <2>2 DEF ManageProjects
    <3>2. CASE create_project(q)
      BY <2>1, <3>2 DEF Thawed, create_project, Recorded
    <3>3. CASE edit_project(q)
      BY <2>1, <3>3 DEF Thawed, edit_project, Editable, Recorded
    <3>4. CASE archive_project(q)
      BY <2>1, <3>4 DEF Thawed, archive_project, Editable, set_archived, Recorded
    <3>5. CASE restore_project(q)
      BY <2>1, <3>5 DEF Thawed, restore_project, set_archived, Recorded
    <3> QED
      BY <3>1, <3>2, <3>3, <3>4, <3>5
  <2>3. ASSUME NEW s \in Session, Purge(s)
        PROVE  Thawed(p)
    BY <2>1, <2>3 DEF Thawed, Purge, DeleteProjectRow
  <2>4. ASSUME NEW s \in Session, Step(s), ~ ManageProjects(s), ~ Purge(s)
        PROVE  UNCHANGED projects
    BY <2>4 DEF Step, Submit, BeginStore, CommitStore, StartExtract, ExtractChunk, Persist,
       StartReconcile, CheckProposals, InsertProposal, Review, Connect, ConfirmDelete,
       DisconnectSources, DeleteObject, Busy, projectVars
  <2>5. CASE Crash \/ MakeBackup
    BY <2>5 DEF Thawed, Crash, MakeBackup, projectVars
  <2>6. CASE Restore
    BY <2>6 DEF Thawed
  <2> QED
    BY <1>1, <2>2, <2>3, <2>4, <2>5, <2>6 DEF Next, Thawed
<1>2. IInv /\ [Next]_vars => [\A p \in Project : Thawed(p)]_vars
  BY <1>1
<1> QED
  BY <1>2, Always, PTL DEF Spec, ArchivedIsFrozen, Thawed
=============================================================================
