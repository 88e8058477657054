---------------------------- MODULE DecisionRules ----------------------------
(***************************************************************************)
(* What reconciliation makes of one observation: the match score, the tier,*)
(* the decision tree and the confidence bands of domain/reconciliation.py. *)
(*                                                                         *)
(* Features are in percent and scores in hundredths of a percent, so that  *)
(* sums and comparisons are exact; the code computes them in floating      *)
(* point.  A date is a number of days.  Wording (titles, reasons) is left  *)
(* out of patches and decisions; how alike an item and an observation are  *)
(* is part of the item's record:                                           *)
(*                                                                         *)
(*   kind, status, owner, due, corrected   the ledger_items row            *)
(*   aged        terminal for longer than completed_long_ago_days          *)
(*   tokens, entities   token_jaccard of the subjects and named entities   *)
(*   titled, hit, recent   it has the observation's subject for a title,   *)
(*               the full-text search finds it, it is among the latest of  *)
(*               its kind                                                  *)
(*   cites       it has evidence from the observation's content            *)
(***************************************************************************)
EXTENDS MatchRules, Language, Integers, FiniteSets, FiniteSetsExt, Sequences

CONSTANT Nothing    \* None

weights ==
    [subject_token_similarity |-> 35, owner_match |-> 20, date_proximity |-> 15,
     item_type_compatibility |-> 10, shared_named_entities |-> 10,
     source_local_reference |-> 10, mutually_exclusive_owner |-> -25,
     completed_long_ago |-> -20, corrected_field_disagreement |-> -20]

strong_candidate_score == 8200
strong_candidate_margin == 1500
review_candidate_score == 6500
same_proposition_token_floor == 75
owner_date_candidate_token_floor == 20
date_proximity_window_days == 14

-----------------------------------------------------------------------------
(* The match score. *)

Resolved(owner) == owner.outcome = "resolved"

_material_date_conflict(date, due) == date # Nothing /\ due # Nothing /\ date # due

_material_owner_conflict(owner, current) ==
    Resolved(owner) /\ current # Nothing /\ current # owner.person_id

owner_match(owner, current) ==
    CASE Resolved(owner) /\ current = owner.person_id -> 100
      [] _material_owner_conflict(owner, current)     -> 0
      [] Resolved(owner) # (current # Nothing)        -> 25
      [] OTHER                                        -> 50

date_proximity(date, due) ==
    IF date # Nothing /\ due # Nothing
    THEN Max({0, 100 - (100 * Max({date - due, due - date})) \div date_proximity_window_days})
    ELSE IF (date # Nothing) # (due # Nothing) THEN 25 ELSE 50

percent(condition) == IF condition THEN 100 ELSE 0

\* Faulty: only owners are compared with what a reviewer corrected.
owner_disagreement(owner, date, item) ==
    item.corrected /\ _material_owner_conflict(owner, item.owner)

corrected_field_disagreement(owner, date, item) ==
    /\ item.corrected
    /\ _material_owner_conflict(owner, item.owner) \/ _material_date_conflict(date, item.due)

compute_match_features(o, owner, item, tiers) ==
    [subject_token_similarity |-> item.tokens,
     owner_match |-> owner_match(owner, item.owner),
     date_proximity |-> date_proximity(o.date, item.due),
     item_type_compatibility |->
         IF item.kind \in PRIMARY_COMPATIBLE_KINDS[o.kind] THEN 100 ELSE 50,
     shared_named_entities |-> item.entities,
     source_local_reference |-> percent(tiers \cap {"exact", "recent_reference"} # {}),
     mutually_exclusive_owner |-> percent(_material_owner_conflict(owner, item.owner)),
     completed_long_ago |-> percent(item.status \in TERMINAL_STATUSES /\ item.aged),
     corrected_field_disagreement |->
         percent(corrected_field_disagreement(owner, o.date, item))]

score_match(features) ==
    LET weighted(term) == weights[term] * features[term] IN
    Max({0, Min({10000, weighted("subject_token_similarity") + weighted("owner_match")
                        + weighted("date_proximity") + weighted("item_type_compatibility")
                        + weighted("shared_named_entities")
                        + weighted("source_local_reference")
                        + weighted("mutually_exclusive_owner")
                        + weighted("completed_long_ago")
                        + weighted("corrected_field_disagreement")})})

-----------------------------------------------------------------------------
(* The match tier. *)

NoMatch == [tier |-> "none", top |-> Nothing, score |-> Nothing, margin |-> Nothing]

\* Every outcome a ranking of the scored candidates, a function from items to
\* scores, may have: sorted() leaves equal scores in the order they were found.
determine_match_outcome(scores) ==
    IF scores = <<>> THEN {NoMatch}
    ELSE {LET rest == DOMAIN scores \ {top}
              margin == IF rest = {} THEN Nothing
                        ELSE scores[top] - Max({scores[i] : i \in rest})
          IN  [tier |->
                  IF /\ scores[top] >= strong_candidate_score
                     /\ margin # Nothing => margin >= strong_candidate_margin
                  THEN "strong"
                  ELSE IF scores[top] >= review_candidate_score THEN "review" ELSE "uncertain",
               top |-> top, score |-> scores[top], margin |-> margin] :
          top \in {i \in DOMAIN scores : \A j \in DOMAIN scores : scores[i] >= scores[j]}}

\* Two candidates too close to call.
close_margin(outcome) ==
    /\ outcome.margin # Nothing
    /\ outcome.margin < strong_candidate_margin
    /\ outcome.score >= review_candidate_score

-----------------------------------------------------------------------------
(* The decision tree: the first rule, in this order, that applies. *)

Rules == <<"update without target", "new", "too close", "reversal", "other kind",
           "same proposition", "completed", "canceled", "superseded",
           "date moved", "date conflict", "reassigned", "owner conflict",
           "new after all", "unclear">>

\* The rules that look at the matched item.  A case holds the observation, its
\* owner's resolution, the outcome, the item and its features.
Applies(rule, c) ==
    LET says == c.o.statement
        date_changed == _material_date_conflict(c.o.date, c.item.due)
        owner_changed == _material_owner_conflict(c.owner, c.item.owner)
        kind_change == c.o.kind # "update" /\ c.item.kind # NATURAL_LEDGER_KIND[c.o.kind]
        ends == detect_completion(says) \/ detect_cancellation(says) \/ detect_supersession(says)
        changes == date_changed \/ owner_changed
    IN
    CASE rule = "too close" -> close_margin(c.outcome)
      [] rule = "reversal" ->
            /\ c.item.status \in TERMINAL_STATUSES
            /\ ends \/ changes \/ (kind_change /\ detect_blocking_language(says))
      [] rule = "other kind" ->
            kind_change /\ (detect_blocking_language(says) \/ detect_supersession(says))
      [] rule = "same proposition" ->
            /\ c.item.tokens >= same_proposition_token_floor
            /\ ~ends /\ ~changes
            /\ ~detect_date_change(says) /\ ~detect_owner_assignment(says)
      [] rule = "completed" -> detect_completion(says)
      [] rule = "canceled" -> detect_cancellation(says)
      [] rule = "superseded" ->
            detect_supersession(says) /\ c.item.kind \in SUPERSEDABLE_KINDS
      [] rule = "date moved" -> date_changed /\ ~owner_changed /\ detect_date_change(says)
      [] rule = "date conflict" -> date_changed /\ ~owner_changed
      [] rule = "reassigned" ->
            owner_changed /\ ~date_changed /\ detect_owner_assignment(says)
      [] rule = "owner conflict" -> owner_changed /\ ~date_changed
      [] rule = "new after all" -> c.outcome.tier = "uncertain" /\ c.o.kind # "update"
      [] rule = "unclear" -> TRUE
      [] OTHER -> FALSE

\* Faulty: an item that is over is treated like any other.
rule_whatever_status(c) ==
    IF c.outcome.tier = "none"
    THEN IF c.o.kind = "update" THEN "update without target" ELSE "new"
    ELSE Rules[Min({n \in DOMAIN Rules : Rules[n] # "reversal" /\ Applies(Rules[n], c)})]

rule_of(c) ==
    IF c.outcome.tier = "none"
    THEN IF c.o.kind = "update" THEN "update without target" ELSE "new"
    ELSE Rules[Min({n \in DOMAIN Rules : Applies(Rules[n], c)})]

\* _create_patch asserts that the observation is not an update.
asserts(rule, c) == rule \in {"other kind", "superseded"} /\ c.o.kind = "update"

_create_patch(c) ==
    [kind |-> NATURAL_LEDGER_KIND[c.o.kind], due |-> c.o.date,
     owner |-> IF Resolved(c.owner) THEN c.owner.person_id ELSE Nothing]

proposed_action(rule, c) ==
    CASE rule \in {"new", "new after all"}             -> "create"
      [] rule \in {"other kind", "superseded"}         -> "supersede"
      [] rule = "same proposition"                     ->
            IF c.item.cites THEN "no_op" ELSE "add_evidence"
      [] rule = "completed"                            -> "complete"
      [] rule = "canceled"                             -> "cancel"
      [] rule \in {"date moved", "reassigned"}         -> "update"
      [] OTHER                                         -> "conflict"

proposed_patch(rule, c) ==
    CASE rule \in {"new", "new after all", "other kind", "superseded"} -> _create_patch(c)
      [] rule = "completed"  -> [status |-> "completed"]
      [] rule = "canceled"   -> [status |-> "canceled"]
      [] rule = "date moved" -> [due |-> c.o.date]
      [] rule = "reassigned" -> [owner |-> c.owner.person_id]
      [] OTHER               -> <<>>

Targetless == {"update without target", "new", "too close", "new after all"}

\* _is_domain_valid_transition, for the rules that change the item.
transition_domain_valid(rule, c) ==
    LET valid(to, type) == validate_transition(c.item.kind, c.item.status, to, type) IN
    CASE rule \in {"other kind", "superseded"} -> valid("superseded", "supersede")
      [] rule = "completed"                    -> valid("completed", "complete")
      [] rule = "canceled"                     -> valid("canceled", "cancel")
      [] rule \in {"date moved", "reassigned"} -> valid(c.item.status, "update")
      [] OTHER -> rule \in Targetless \cup {"same proposition"}

\* Every rule but two gives a reason of its own.
escalation_reasons(rule, c) ==
    LET matched == rule \notin {"update without target", "new", "too close"} IN
    {reason \in {"ambiguous_owner", "candidate_below_strong_threshold",
                 "weak_candidate_match", "corrected_field_disagreement",
                 "inferred_not_explicit"} \cup {rule} :
        CASE reason = "ambiguous_owner" -> c.owner.outcome = "ambiguous"
          [] reason = "candidate_below_strong_threshold" ->
                matched /\ c.outcome.tier = "review"
          [] reason = "weak_candidate_match" -> matched /\ c.outcome.tier = "uncertain"
          [] reason = "corrected_field_disagreement" ->
                matched /\ corrected_field_disagreement(c.owner, c.o.date, c.item)
          [] reason = "inferred_not_explicit" -> rule = "completed" /\ ~c.o.explicit
          [] reason = rule -> rule \notin {"new", "same proposition"}}

-----------------------------------------------------------------------------
(* Confidence. *)

Bands == <<"low", "medium", "high">>

Rank(band) == CHOOSE n \in DOMAIN Bands : Bands[n] = band

weakest_band(bands) == Bands[Min({Rank(b) : b \in bands})]

extraction_confidence(o) ==
    LET stated == o.named # Nothing \/ o.date # Nothing \/ o.date_text IN
    IF o.explicit /\ stated THEN "high"
    ELSE IF o.explicit \/ stated THEN "medium" ELSE "low"

\* Faulty: a weak match counts like one to review.
match_confidence_of_tier(c) ==
    IF c.outcome.tier = "none" THEN "high"
    ELSE IF \/ c.owner.outcome = "ambiguous" \/ close_margin(c.outcome)
            \/ corrected_field_disagreement(c.owner, c.o.date, c.item)
         THEN "low"
    ELSE IF c.outcome.tier = "strong" THEN "high" ELSE "medium"

match_confidence(c) ==
    IF c.outcome.tier = "none" THEN "high"
    ELSE IF \/ c.owner.outcome = "ambiguous" \/ close_margin(c.outcome)
            \/ corrected_field_disagreement(c.owner, c.o.date, c.item)
         THEN "low"
    ELSE IF c.outcome.tier = "strong" THEN "high"
    ELSE IF c.outcome.tier = "review" THEN "medium" ELSE "low"

\* Faulty: whether the ledger allows the transition is not asked.
mutation_confidence_of_action(rule, c) ==
    IF proposed_action(rule, c) = "conflict" THEN "low" ELSE "high"

\* The rules that change an item all have explicit language to go by.
mutation_confidence(rule, c) ==
    IF proposed_action(rule, c) = "conflict" \/ ~transition_domain_valid(rule, c)
    THEN "low" ELSE "high"

\* classify_action and the bands reconcile_observation computes of it.
classify_action(c) ==
    LET rule == rule_of(c) IN
    [action |-> proposed_action(rule, c),
     target |-> IF rule \in Targetless THEN Nothing ELSE c.outcome.top,
     patch |-> proposed_patch(rule, c),
     escalation_reasons |-> escalation_reasons(rule, c),
     band |-> weakest_band({extraction_confidence(c.o), match_confidence(c),
                            mutation_confidence(rule, c)})]
=============================================================================
