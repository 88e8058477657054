------------------------------- MODULE Briefs -------------------------------
(***************************************************************************)
(* Current Project Briefs and Meeting Preparation Briefs, generated by     *)
(* sessions while the ledger goes on changing: retrieval/briefs.py,        *)
(* retrieval/meeting_prep.py, services/briefs.py, services/meeting_prep.py *)
(* and ui/pages/briefs.py.                                                 *)
(*                                                                         *)
(*   briefs   generated_briefs with their brief_claims                     *)
(*   gen      per session: the selected project, how far its generation    *)
(*            is, and the facts it holds                                   *)
(*   preview  per session: the facts of the meeting previewed last, in     *)
(*            st.session_state until a meeting's brief was generated       *)
(*                                                                         *)
(* The facts are read query by query, in no transaction: the ledger may    *)
(* change in between.  Home is the project whose ledger the variables of   *)
(* module Ledger are; the other projects' ledgers are empty.  A session    *)
(* may end at any step (CloseTab): a brief it had inserted stays           *)
(* "generating".  RECENT_CHANGES_LIMIT and CHANGES_SINCE_PREVIOUS_LIMIT    *)
(* are above the number of versions an instance has.  A meeting, its       *)
(* participants and its previous meeting are left out but for the cutoff   *)
(* they lead to.  An operator commented "faulty" is a bug some property    *)
(* must catch.                                                             *)
(***************************************************************************)
EXTENDS Ledger, ClaimRules, Sequences

CONSTANTS
    Home,           \* the project of the modelled ledger
    OtherProject,   \* projects with an empty one
    Reader,         \* browser sessions
    MaxBriefs,      \* bound: briefs inserted in a behaviour
    MaxComposed     \* bound: claims a model returns

AnyProject == {Home} \cup OtherProject

VARIABLES briefs, gen, preview

briefVars == <<briefs, gen, preview>>

\* Faulty: the changes are read last.
state_first ==
    [current_project |->
        <<"milestone", "commitment", "decision", "risk", "blocker", "open_question",
          "changes">>,
     meeting_preparation |->
        <<"commitment", "open_question", "risk", "blocker", "changes">>]

\* The queries of a fact builder in the order it makes them; all but the first
\* are for the open items of one kind.
Queries ==
    [current_project |->
        <<"changes", "milestone", "commitment", "decision", "risk", "blocker",
          "open_question">>,
     meeting_preparation |->
        <<"changes", "commitment", "open_question", "risk", "blocker">>]

ChangesSection ==
    [current_project |-> "recent_changes", meeting_preparation |-> "changes_since_previous"]

OpenStatuses(kind) ==
    CASE kind = "decision"      -> {"active"}
      [] kind = "open_question" -> {"open"}
      [] OTHER                  -> {"open", "active"}

\* A question someone owns is a decision required of them.
SectionOf(type, row) ==
    CASE row.kind = "milestone"             -> "next_milestone"
      [] row.kind \in {"risk", "blocker"}   -> "risks_and_blockers"
      [] row.kind = "decision"              -> "decisions"
      [] row.kind = "commitment" ->
            IF type = "current_project" THEN "open_commitments"
            ELSE "outstanding_commitments"
      [] row.kind = "open_question" ->
            CASE type = "current_project"                     -> "unresolved_questions"
              [] type # "current_project" /\ row.owner = NULL -> "unanswered_questions"
              [] OTHER                                        -> "decisions_required"

current_state_fact(type, i) ==
    [section |-> SectionOf(type, items[i]), version |-> items[i].current_version_id,
     project |-> Home]

transition_fact(section, v) == [section |-> section, version |-> v, project |-> Home]

Idling(project) ==
    [pc |-> "idle", project |-> project, type |-> "current_project", query |-> 0,
     facts |-> {}, brief |-> 0]

BriefsInit ==
    /\ briefs = <<>>
    /\ gen \in [Reader -> {Idling(p) : p \in AnyProject}]
    /\ preview = [s \in Reader |-> NULL]

-----------------------------------------------------------------------------
(* Building the facts. *)

\* A project picked on the Projects page; a preview stays in the session's state.
SelectProject(s, p) ==
    /\ gen[s].pc = "idle"
    /\ p # gen[s].project
    /\ gen' = [gen EXCEPT ![s].project = p]
    /\ UNCHANGED <<briefs, preview>>

StartFacts(s, type) ==
    /\ gen[s].pc = "idle"
    /\ gen' = [gen EXCEPT ![s] = [Idling(@.project) EXCEPT !.pc = "facts", !.type = type,
                                                         !.query = 1]]
    /\ UNCHANGED <<briefs, preview>>

\* "Generate Current Project Brief".
GenerateCurrent(s) == StartFacts(s, "current_project")

\* "Preview meeting & facts".
PreviewMeeting(s) == StartFacts(s, "meeting_preparation")

OpenItems(kind) ==
    {i \in DOMAIN items : items[i].kind = kind /\ items[i].status \in OpenStatuses(kind)}

\* Each item's last version before the cutoff: none for a current brief, any for a
\* meeting, whose cutoff is the previous meeting, the project's start or typed in.
compute_cutoff(type) ==
    [ItemId -> IF type = "current_project" THEN {0} ELSE 0..MaxVersionNo]

\* The possible answers to a query: the changes after the cutoff, the nearest milestone,
\* or every open item.
Answers(s) ==
    LET type == gen[s].type
        query == Queries[type][gen[s].query]
        found == {current_state_fact(type, i) : i \in OpenItems(query)}
    IN  CASE gen[s].project # Home -> {{}}
          [] gen[s].project = Home /\ query = "changes" ->
                {{transition_fact(ChangesSection[type], v) :
                     v \in {w \in DOMAIN versions : w[2] > cutoff[w[1]]}} :
                    cutoff \in compute_cutoff(type)}
          [] gen[s].project = Home /\ query = "milestone" /\ found # {} ->
                {{f} : f \in found}
          [] OTHER -> {found}

\* build_current_project_brief_facts, build_meeting_prep_facts: the next query.  The last
\* one of a meeting's makes the preview, in place of an earlier one.
ReadSection(s) ==
    LET more == gen[s].query < Len(Queries[gen[s].type]) IN
    /\ gen[s].pc = "facts"
    /\ \E answer \in Answers(s) :
          \/ /\ more
             /\ gen' = [gen EXCEPT ![s].facts = @ \cup answer, ![s].query = @ + 1]
             /\ UNCHANGED preview
          \/ /\ ~more /\ gen[s].type = "current_project"
             /\ gen' = [gen EXCEPT ![s].facts = @ \cup answer, ![s].query = 0,
                                   ![s].pc = "insert"]
             /\ UNCHANGED preview
          \/ /\ ~more /\ gen[s].type = "meeting_preparation"
             /\ preview' = [preview EXCEPT ![s] = gen[s].facts \cup answer]
             /\ gen' = [gen EXCEPT ![s] = Idling(@.project)]
    /\ UNCHANGED briefs

_filter_excluded_facts(facts, excluded) == {f \in facts : fact_id(f) \notin excluded}

\* "Generate Meeting Preparation Brief": the facts of the preview without the
\* unchecked ones, for the project selected now.
GenerateMeeting(s) ==
    /\ gen[s].pc = "idle" /\ preview[s] # NULL
    /\ \E excluded \in SUBSET {fact_id(f) : f \in preview[s]} :
          gen' = [gen EXCEPT ![s].pc = "insert", ![s].type = "meeting_preparation",
                             ![s].facts = _filter_excluded_facts(preview[s], excluded)]
    /\ UNCHANGED <<briefs, preview>>

-----------------------------------------------------------------------------
(* Generating. *)

\* The first transaction: the row, with its snapshot of the facts.
insert_brief(s) ==
    LET b == Cardinality(DOMAIN briefs) + 1 IN
    /\ gen[s].pc = "insert"
    /\ b <= MaxBriefs
    /\ briefs' = Put(briefs, b, [project |-> gen[s].project, type |-> gen[s].type,
                                 status |-> "generating", facts |-> gen[s].facts,
                                 claims |-> {}])
    /\ gen' = [gen EXCEPT ![s].pc = "compose", ![s].brief = b]
    /\ UNCHANGED preview

insert_claims(bs, b, claims) == [bs EXCEPT ![b].claims = claims]

finalize_brief(bs, b, status) == [bs EXCEPT ![b].status = status]

\* The page after a brief, finished or failed: a meeting's drops the preview.
BackToPage(s) ==
    /\ gen' = [gen EXCEPT ![s] = Idling(@.project)]
    /\ preview' = IF gen[s].type = "meeting_preparation" THEN [preview EXCEPT ![s] = NULL]
                  ELSE preview

\* The model's call failed.
FailBrief(s) ==
    /\ gen[s].pc = "compose"
    /\ AsksModel(gen[s].type, gen[s].facts)
    /\ briefs' = finalize_brief(briefs, gen[s].brief, "failed")
    /\ BackToPage(s)

\* Faulty: the new brief is not spared.
supersede_valid_briefs(bs, b) ==
    [c \in DOMAIN bs |->
        IF /\ bs[c].status = "valid"
           /\ bs[c].project = bs[b].project /\ bs[c].type = bs[b].type
        THEN [bs[c] EXCEPT !.status = "superseded"] ELSE bs[c]]

supersede_previous_valid_briefs(bs, b) ==
    [c \in DOMAIN bs |->
        IF /\ c # b /\ bs[c].status = "valid"
           /\ bs[c].project = bs[b].project /\ bs[c].type = bs[b].type
        THEN [bs[c] EXCEPT !.status = "superseded"] ELSE bs[c]]

\* Claims a model may return for a section it was sent (others are ignored): on facts
\* it was given, of that section or of another, on an id it made up, or a suggestion.
UnknownFact == <<"unknown", <<>>>>

Composable(type, facts) ==
    LET sent == {f.section : f \in facts} \cup
                (_MODEL_ELIGIBLE_SECTIONS[type] \cap {_SUGGESTION_ONLY_SECTION})
        ids  == {fact_id(f) : f \in facts} \cup {UnknownFact}
    IN  [section : sent, claim_type : {"fact"}, cited : {{id} : id \in ids}]
            \cup [section : sent, claim_type : {"suggestion"}, cited : {{}}]

\* What a model may return, up to MaxComposed claims; without facts it is not called.
Compositions(type, facts) ==
    IF ~AsksModel(type, facts) THEN {{}}
    ELSE UNION {kSubset(k, Composable(type, facts)) : k \in 0..MaxComposed}

\* The model's answer and the second transaction: claims, Markdown, status, and the
\* previous brief of the type superseded.
generate_brief(s) ==
    LET b == gen[s].brief IN
    /\ gen[s].pc = "compose"
    /\ \E composition \in Compositions(gen[s].type, gen[s].facts) :
          LET planned == _plan_model_eligible_sections(gen[s].type, gen[s].facts, composition)
          IN  briefs' = supersede_previous_valid_briefs(
                            finalize_brief(insert_claims(briefs, b, planned), b, "valid"), b)
    /\ BackToPage(s)

\* The browser tab is closed, or the process ends; the session opens again.
CloseTab(s) ==
    /\ gen[s].pc # "idle" \/ preview[s] # NULL
    /\ gen' = [gen EXCEPT ![s] = Idling(@.project)]
    /\ preview' = [preview EXCEPT ![s] = NULL]
    /\ UNCHANGED briefs

BriefsNext ==
    \E s \in Reader :
        \/ \E p \in AnyProject : SelectProject(s, p)
        \/ GenerateCurrent(s)
        \/ PreviewMeeting(s)
        \/ ReadSection(s)
        \/ GenerateMeeting(s)
        \/ insert_brief(s)
        \/ FailBrief(s)
        \/ generate_brief(s)
        \/ CloseTab(s)

ledgerBriefVars == <<items, versions, briefs, gen, preview>>

LedgerOrBriefsNext ==
    \/ LedgerNext /\ UNCHANGED briefVars
    \/ BriefsNext /\ UNCHANGED ledgerVars

BriefsSpec == LedgerInit /\ BriefsInit /\ [][LedgerOrBriefsNext]_ledgerBriefVars

-----------------------------------------------------------------------------
(* Properties. *)

Finished(b) == briefs[b].status \in {"valid", "superseded"}

\* Of each type a project has one current brief, once any was finished, however many
\* sessions generate at once.  (db/brief_repository.py:supersede_previous_valid_briefs.)
OneValidBrief ==
    \A p \in AnyProject, type \in BriefTypes :
        LET finished == {b \in DOMAIN briefs : /\ Finished(b) /\ briefs[b].project = p
                                               /\ briefs[b].type = type}
        IN  finished # {} =>
                Cardinality({b \in finished : briefs[b].status = "valid"}) = 1

\* A statement of fact is shown only with facts of its own section behind it, which the
\* brief's stored snapshot holds, unless it says that the section is empty, and then
\* the section has no facts.  (services/brief_shared.py:classify_claim.)
ClaimsRestOnTheirSection ==
    \A b \in DOMAIN briefs :
        \A c \in _render_markdown(briefs[b].claims) : c.claim_type = "fact" =>
            /\ \A id \in c.cited : \E f \in briefs[b].facts :
                  fact_id(f) = id /\ f.section = c.section
            /\ c.cited = {} => FactsOf(briefs[b].facts, c.section) = {}

\* A section with accepted facts always shows at least one of them, whatever the model
\* answered, unless it made a suggestion there.  (services/briefs.py:193, "never let that
\* silently drop real state".)
NoSectionSilenced ==
    \A b \in DOMAIN briefs : Finished(b) =>
        \A f \in briefs[b].facts :
            \E c \in _render_markdown(briefs[b].claims) :
                /\ c.section = f.section
                /\ c.cited # {} \/ c.claim_type = "suggestion"

\* The state a brief shows of an item is never older than the changes it lists of it:
\* the changes are read first, and the ledger may only advance in between.
StateNotOlderThanChanges ==
    \A b \in DOMAIN briefs :
        \A change, state \in briefs[b].facts :
            /\ change.section = ChangesSection[briefs[b].type]
            /\ state.section # ChangesSection[briefs[b].type]
            /\ change.version[1] = state.version[1]
            => change.version[2] <= state.version[2]

\* "Projects are hard boundaries" (docs/Project_Context_Product_Plan_v1.md:58): a brief
\* is built from its own project's facts.  The code does not keep this: a preview
\* outlives the selection of another project.
ProjectsAreHardBoundaries ==
    \A b \in DOMAIN briefs : \A f \in briefs[b].facts : f.project = briefs[b].project
=============================================================================
