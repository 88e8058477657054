------------------------------ MODULE Reconcile ------------------------------
(***************************************************************************)
(* Reconciliation of one observation with the items of its project         *)
(* (services/reconciliation.py): the candidates are looked up, scored and  *)
(* ranked, and a proposal is written (module Observations has the rows).   *)
(*                                                                         *)
(*   known        the items of the project, by id                          *)
(*   observation  the observation                                          *)
(*   decision     the proposal, once written                               *)
(*   failed       an assertion failed instead                              *)
(***************************************************************************)
EXTENDS DecisionRules

CONSTANTS
    Entry,      \* ids of items
    Person,     \* people known by name or email
    Day         \* days that dates may name

\* None is no item, no person, and neither a date nor a number.
ASSUME ReconcileAssumption ==
    /\ Day \subseteq Int
    /\ Nothing \notin Int
    /\ Nothing \notin Person
    /\ Nothing \notin Entry

VARIABLES known, observation, decision, failed

decisionVars == <<known, observation, decision, failed>>

Percent == 0 .. 100

KnownItem ==
    [kind: Kinds, status: Statuses, owner: Person \cup {Nothing}, due: Day \cup {Nothing},
     corrected: BOOLEAN, aged: BOOLEAN, tokens: Percent, entities: Percent,
     titled: BOOLEAN, hit: BOOLEAN, recent: BOOLEAN, cites: BOOLEAN]

\* named: the people an owner_text may mean, if there is one.
Observed ==
    [kind: ObservationKinds, statement: SUBSET Phrase, explicit: BOOLEAN,
     person: Person \cup {Nothing}, named: (SUBSET Person) \cup {Nothing},
     date: Day \cup {Nothing}, date_text: BOOLEAN]

\* A person that extraction resolved, or the only one the text may mean.
_resolve_observation_owner(o) ==
    LET Resolution(outcome, p) == [outcome |-> outcome, person_id |-> p] IN
    IF o.person # Nothing THEN Resolution("resolved", o.person)
    ELSE IF o.named \in {Nothing, {}} THEN Resolution("unknown", Nothing)
    ELSE IF Cardinality(o.named) = 1
         THEN Resolution("resolved", CHOOSE p \in o.named : TRUE)
         ELSE Resolution("ambiguous", Nothing)

\* How an item is found.  Updates find items by their title and by reference only.
retrieval_tiers(o, item) ==
    {tier \in {"exact", "owner_date_subject", "fts", "recent_reference"} :
        /\ item.kind \in compatible_kinds(o.kind)
        /\ CASE tier = "exact" -> item.titled
             [] tier = "owner_date_subject" ->
                   o.kind # "update" /\ item.tokens >= owner_date_candidate_token_floor
             [] tier = "fts" -> o.kind # "update" /\ item.hit
             [] tier = "recent_reference" ->
                   item.recent /\ detect_local_reference(o.statement)}

generate_candidates(o) == {i \in DOMAIN known : retrieval_tiers(o, known[i]) # {}}

score_candidates(o) ==
    [i \in generate_candidates(o) |->
        score_match(compute_match_features(o, _resolve_observation_owner(o), known[i],
                                           retrieval_tiers(o, known[i])))]

\* Each case the observation may present, by the order of equal candidates.
Cases(o) ==
    {[o |-> o, owner |-> _resolve_observation_owner(o), outcome |-> outcome,
      item |-> IF outcome.top = Nothing THEN Nothing ELSE known[outcome.top]] :
        outcome \in determine_match_outcome(score_candidates(o))}

reconcile_observation ==
    /\ decision = Nothing
    /\ ~failed
    /\ \E c \in Cases(observation) :
          IF asserts(rule_of(c), c)
          THEN failed' = TRUE /\ UNCHANGED decision
          ELSE decision' = classify_action(c) /\ UNCHANGED failed
    /\ UNCHANGED <<known, observation>>

ReconcileInit ==
    /\ known \in UNION {[es -> KnownItem] : es \in SUBSET Entry}
    /\ \A i \in DOMAIN known : known[i].status \in VALID_STATUSES_BY_KIND[known[i].kind]
    /\ observation \in Observed
    /\ decision = Nothing
    /\ failed = FALSE

ReconcileSpec == ReconcileInit /\ [][reconcile_observation]_decisionVars

-----------------------------------------------------------------------------
(* Properties. *)

Decided == decision # Nothing

Target == known[decision.target]

\* The values the proposal would put in place of others the item has.
Overwrites ==
    \E f \in {"owner", "due"} \cap DOMAIN decision.patch :
        Target[f] # Nothing /\ decision.patch[f] \notin {Nothing, Target[f]}

\* A proposal with more than a low band is one the ledger takes as it stands.
ConfidentMeansApplicable ==
    Decided /\ decision.band # "low" /\ decision.target # Nothing =>
        CASE decision.action = "complete" ->
                validate_transition(Target.kind, Target.status, "completed", "complete")
          [] decision.action = "cancel" ->
                validate_transition(Target.kind, Target.status, "canceled", "cancel")
          [] decision.action = "supersede" ->
                validate_transition(Target.kind, Target.status, "superseded", "supersede")
          [] decision.action = "update" ->
                validate_transition(Target.kind, Target.status, Target.status, "update")
          [] OTHER -> decision.action # "conflict"

\* Which of several equal candidates was found first may decide what is
\* proposed, but only of a proposal with a low band that says it is uncertain.
OrderMattersOnlyWhenUncertain ==
    Decided =>
        \/ \A c \in Cases(observation) :
              ~asserts(rule_of(c), c) /\ classify_action(c) = decision
        \/ decision.band = "low" /\ decision.escalation_reasons # {}

\* What a reviewer corrected is not overwritten on the strength of a match: such a
\* proposal has a low band and names the disagreement.
CorrectionsStand ==
    (/\ Decided /\ decision.action \in {"update", "supersede"}
     /\ Target.corrected /\ Overwrites) =>
            /\ decision.band = "low"
            /\ "corrected_field_disagreement" \in decision.escalation_reasons

\* Module Review proposes whatever a proposal may say (Classified there); no
\* observation leads to any other.
ProposalsFitReview ==
    Decided =>
        LET open == decision.target # Nothing /\ Target.status \in NON_TERMINAL_STATUSES
            k == observation.kind
        IN  /\ decision.target # Nothing => Target.kind \in compatible_kinds(k)
            /\ decision.action \in {"complete", "cancel"} => open
            /\ decision.action = "update" => open /\ Overwrites
            /\ decision.action \in {"create", "supersede"} => k # "update"
            /\ decision.action = "supersede" =>
                  open /\ (Target.kind # k \/ Target.kind \in SUPERSEDABLE_KINDS)

\* "an update observation never reaches _create_patch"
NoAssertionFails == ~failed
=============================================================================
