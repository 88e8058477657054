----------------------------- MODULE ClaimRules -----------------------------
(***************************************************************************)
(* What becomes of a brief's facts and of the claims a model composed from *)
(* them: services/brief_shared.py and the planning halves of               *)
(* services/briefs.py and services/meeting_prep.py.  Constant definitions  *)
(* only.                                                                   *)
(*                                                                         *)
(* A fact is a record with the section it was built for and the version it *)
(* shows; that pair, unique within one snapshot, stands for its opaque     *)
(* fact_id.  A claim cites a set of such ids.  Wording is left out, and so *)
(* are the sections that only repeat the project or meeting record.  Every *)
(* item and version the review writes carries an evidence link             *)
(* (services/review.py:616-618), so the outcome "unsupported" does not     *)
(* arise from these facts, nor is it told apart from "invalid_reference":  *)
(* both are kept out of the rendered brief.  An inference is judged as a   *)
(* fact is.  An operator commented "faulty" is a bug some property must    *)
(* catch.                                                                  *)
(***************************************************************************)
EXTENDS Naturals, FiniteSets

BriefTypes == {"current_project", "meeting_preparation"}

\* The sections a model composes, by type of brief.
_MODEL_ELIGIBLE_SECTIONS ==
    [current_project |->
        {"recent_changes", "next_milestone", "open_commitments", "decisions",
         "risks_and_blockers", "unresolved_questions"},
     meeting_preparation |->
        {"changes_since_previous", "outstanding_commitments", "decisions_required",
         "risks_and_blockers", "unanswered_questions", "suggested_topics"}]

\* Never has facts of its own.
_SUGGESTION_ONLY_SECTION == "suggested_topics"

fact_id(f) == <<f.section, f.version>>

FactsOf(facts, section) == {f \in facts : f.section = section}

Claim(section, type, cited, status) ==
    [section |-> section, claim_type |-> type, cited |-> cited, status |-> status]

\* Faulty: any fact of the brief will do.
resolved_anywhere(section, requested, facts) ==
    {id \in requested : \E f \in facts : fact_id(f) = id}

\* The requested ids that are facts of the claim's own section.
resolved(section, requested, facts) ==
    {id \in requested : \E f \in FactsOf(facts, section) : fact_id(f) = id}

classify_claim(section, type, requested, facts) ==
    IF type = "suggestion" \/ resolved(section, requested, facts) # {}
    THEN "valid" ELSE "invalid_reference"

\* What is stored: the ids that resolved, or, of a claim with none, the request.
plan_model_claim(out, facts) ==
    LET status == classify_claim(out.section, out.claim_type, out.cited, facts)
        cites  == resolved(out.section, out.cited, facts)
    IN  Claim(out.section, out.claim_type,
              IF status = "valid" THEN cites ELSE out.cited, status)

\* "No accepted ...": a placeholder that cites nothing.
EmptySection(section) == Claim(section, "fact", {}, "valid")

\* Faulty: only a section the model said nothing of falls back on its facts.
fallback_if_silent(section, claims, facts) ==
    IF claims # {} THEN {}
    ELSE {Claim(section, "fact", {fact_id(f)}, "valid") : f \in FactsOf(facts, section)}

\* One sentence per fact where the model produced nothing valid.
fallback(section, claims, facts) ==
    IF \E c \in claims : c.status = "valid" THEN {}
    ELSE {Claim(section, "fact", {fact_id(f)}, "valid") : f \in FactsOf(facts, section)}

PlanSection(section, facts, composition) ==
    LET claims == {plan_model_claim(out, facts) :
                      out \in {c \in composition : c.section = section}}
        valid  == {c \in claims : c.status = "valid"}
    IN  CASE section = _SUGGESTION_ONLY_SECTION ->
                IF valid = {} THEN {EmptySection(section)} ELSE valid
          [] section # _SUGGESTION_ONLY_SECTION /\ FactsOf(facts, section) = {} ->
                {EmptySection(section)}
          [] OTHER -> claims \cup fallback(section, claims, facts)

\* Every claim of a brief; a composed claim of an unknown section is ignored.
_plan_model_eligible_sections(type, facts, composition) ==
    UNION {PlanSection(section, facts, composition) :
              section \in _MODEL_ELIGIBLE_SECTIONS[type]}

\* A model is called only when some section has facts.
AsksModel(type, facts) ==
    \E section \in _MODEL_ELIGIBLE_SECTIONS[type] : FactsOf(facts, section) # {}

\* What the rendered Markdown shows of the claims.
_render_markdown(claims) == {c \in claims : c.status = "valid"}
=============================================================================
