----------------------------- MODULE MCWorkspace -----------------------------
(* Small instances of module Workspace, and of the ledger and the briefs of one *)
(* of its projects. *)
EXTENDS Workspace, MCPassages, MCLedger

CONSTANTS n1, n2, d1, d2, c1, o1, o2

\* Two spellings of one name.
MCNormal == [n \in Name |-> n1]

\* Nothing can be parsed of d2.
MCChunks == [d \in Digest |-> IF d = d1 THEN {c1} ELSE {}]

\* Sessions, readers and projects are interchangeable.
MCSymmetry ==
    Permutations(Session) \cup Permutations(Project) \cup Permutations(Reader)

\* What a behaviour may be about besides: lifecycle and credentials, reconciliation by two
\* sessions, files, deletions and the backup, the text of one document and the
\* rules for one event or recording.
WorkspaceThemes == {"projects", "reconciliation", "files", "texts"}

MCInit ==
    /\ Init
    /\ \/ theme \in WorkspaceThemes /\ NoBriefs
       \/ LedgerThemesInit
    /\ IF theme = "texts" THEN TextInit ELSE NoDocument /\ NoItem

MCNext ==
    /\ UNCHANGED theme
    /\ \/ theme = "texts" /\ TextNext /\ UNCHANGED <<vars, ledgerBriefVars>>
       \/ /\ theme \in LedgerThemes
          /\ LedgerThemesNext /\ UNCHANGED <<vars, passageVars, matchVars>>
       \/ /\ theme \in WorkspaceThemes \ {"texts"}
          /\ Next /\ UNCHANGED <<passageVars, matchVars, ledgerBriefVars>>
    /\ theme # "projects" => secrets' = {} /\ edits' = 0
    /\ theme # "projects" => \A p \in Project : projects'[p] \in {"active"} \cup NoRow
    /\ theme = "projects" => submits' = 0 /\ backups' = 0
    /\ theme = "reconciliation" => submits' <= 2 /\ backups' = 0
    /\ theme = "files" =>
         /\ \A s \in Session : session'[s].pc # "extract"
         /\ submits' + backups' + crashes' <= 4

MCSpec == MCInit /\ [][MCNext]_<<vars, passageVars, matchVars, ledgerBriefVars, theme>>
=============================================================================
