---------------------------- MODULE DecisionProofs ----------------------------
(* Proofs about module Reconcile: whatever the items of a project and whatever *)
(* an observation says, what reconciliation proposes is confident only of what *)
(* the ledger takes, does not hang on the order of its candidates, and is one  *)
(* of the proposals module Review starts from.                                 *)
EXTENDS Reconcile, WellFoundedInduction, TLAPS

-----------------------------------------------------------------------------
(* Least and greatest members. *)

LEMMA LeastIsThere ==
    ASSUME NEW T, T \subseteq Nat, T # {}
    PROVE  /\ Min(T) \in T
           /\ \A n \in T : Min(T) <= n
<1>1. PICK m \in T : \A n \in T : ~ (<<n, m>> \in OpToRel(<, Nat))
  BY WFMin, NatLessThanWellFounded
<1>2. \A n \in T : m <= n
  <2> SUFFICES ASSUME NEW n \in T PROVE m <= n
    OBVIOUS
  <2>1. <<n, m>> \in Nat \X Nat => ~ (n < m)
    BY <1>1 DEF OpToRel
  <2> QED
    BY <2>1
<1> QED
  BY <1>2 DEF Min

LEMMA ClampIsNumber ==
    ASSUME NEW x \in Int
    PROVE  Max({0, Min({10000, x})}) \in Int
<1>1. Min({10000, x}) \in Int
  <2>1. \E m \in {10000, x} : \A n \in {10000, x} : m <= n
    OBVIOUS
  <2>2. Min({10000, x}) \in {10000, x}
    BY <2>1 DEF Min
  <2> QED
    BY <2>2
<1> HIDE DEF Min
<1> DEFINE y == Min({10000, x})
<1> HIDE DEF y
<1>2. y \in Int
  BY <1>1 DEF y
<1>3. \E m \in {0, y} : \A n \in {0, y} : m >= n
  BY <1>2
<1>4. Max({0, y}) \in {0, y}
  BY <1>3 DEF Max
<1> QED
  BY <1>2, <1>4 DEF y

LEMMA GreaterOfTwo ==
    ASSUME NEW x \in Int, NEW z \in Int
    PROVE  Max({x, z}) \in Int
<1>1. \E m \in {x, z} : \A n \in {x, z} : m >= n
  OBVIOUS
<1>2. Max({x, z}) \in {x, z}
  BY <1>1 DEF Max
<1> QED
  BY <1>2

-----------------------------------------------------------------------------
(* Scores. *)

LEMMA ProximityIsNumber ==
    ASSUME NEW date \in Day \cup {Nothing}, NEW due \in Day \cup {Nothing}
    PROVE  date_proximity(date, due) \in Int
<1>1. CASE date # Nothing /\ due # Nothing
  <2>1. date \in Int /\ due \in Int
    BY <1>1, ReconcileAssumption
  <2> DEFINE apart == Max({date - due, due - date})
             lost == (100 * apart) \div date_proximity_window_days
  <2>2. apart \in Int
    BY <2>1, GreaterOfTwo
  <2> HIDE DEF apart
  <2>3. lost \in Int
    BY <2>2 DEF date_proximity_window_days
  <2> HIDE DEF lost
  <2>4. Max({0, 100 - lost}) \in Int
    BY <2>3, GreaterOfTwo
  <2> QED
    BY <1>1, <2>4 DEF date_proximity, lost, apart
<1>2. CASE ~(date # Nothing /\ due # Nothing)
  BY <1>2 DEF date_proximity
<1> QED
  BY <1>1, <1>2

LEMMA ScoreIsNumber ==
    ASSUME NEW o \in Observed, NEW owner, NEW item \in KnownItem, NEW tiers
    PROVE  score_match(compute_match_features(o, owner, item, tiers)) \in Int
<1> DEFINE f == compute_match_features(o, owner, item, tiers)
<1>1. /\ item.tokens \in Int /\ item.entities \in Int
      /\ item.due \in Day \cup {Nothing} /\ o.date \in Day \cup {Nothing}
  BY DEF KnownItem, Observed, Percent
<1>2. owner_match(owner, item.owner) \in Int
  BY DEF owner_match
<1>3. date_proximity(o.date, item.due) \in Int
  BY <1>1, ProximityIsNumber
<1>4. \A condition : percent(condition) \in Int
  BY DEF percent
<1>5. /\ f.subject_token_similarity \in Int /\ f.owner_match \in Int
      /\ f.date_proximity \in Int /\ f.item_type_compatibility \in Int
      /\ f.shared_named_entities \in Int /\ f.source_local_reference \in Int
      /\ f.mutually_exclusive_owner \in Int /\ f.completed_long_ago \in Int
      /\ f.corrected_field_disagreement \in Int
  BY <1>1, <1>2, <1>3 DEF compute_match_features, percent
<1> HIDE DEF f
<1>6. \A term \in DOMAIN weights : weights[term] \in Int
  BY DEF weights
<1> DEFINE sum == weights["subject_token_similarity"] * f["subject_token_similarity"]
                  + weights["owner_match"] * f["owner_match"]
                  + weights["date_proximity"] * f["date_proximity"]
                  + weights["item_type_compatibility"] * f["item_type_compatibility"]
                  + weights["shared_named_entities"] * f["shared_named_entities"]
                  + weights["source_local_reference"] * f["source_local_reference"]
                  + weights["mutually_exclusive_owner"] * f["mutually_exclusive_owner"]
                  + weights["completed_long_ago"] * f["completed_long_ago"]
                  + weights["corrected_field_disagreement"] * f["corrected_field_disagreement"]
<1>7. sum \in Int
  BY <1>5 DEF weights
<1>8. score_match(f) = Max({0, Min({10000, sum})})
  BY DEF score_match
<1> HIDE DEF sum
<1> QED
  BY <1>7, <1>8, ClampIsNumber DEF f

-----------------------------------------------------------------------------
(* The rules. *)

\* With a candidate, the rule is the first that applies.
LEMMA FirstRule ==
    ASSUME NEW c, c.outcome.tier # "none"
    PROVE  \E n \in 3 .. 15 :
              /\ rule_of(c) = Rules[n]
              /\ Applies(Rules[n], c)
              /\ \A m \in 1 .. n - 1 : ~Applies(Rules[m], c)
<1> DEFINE T == {n \in DOMAIN Rules : Applies(Rules[n], c)}
<1>1. DOMAIN Rules = 1 .. 15
  BY DEF Rules
<1>2. Applies("unclear", c) /\ ~Applies("update without target", c) /\ ~Applies("new", c)
  BY DEF Applies
<1>3. Rules[15] = "unclear" /\ Rules[1] = "update without target" /\ Rules[2] = "new"
  BY DEF Rules
<1>4. /\ 15 \in T /\ 1 \notin T /\ 2 \notin T /\ T \subseteq 1 .. 15
      /\ \A n \in 1 .. 15 : Applies(Rules[n], c) => n \in T
  <2>1. \A n : n \in T <=> n \in 1 .. 15 /\ Applies(Rules[n], c)
    BY <1>1
  <2>2. Applies(Rules[15], c) /\ ~Applies(Rules[1], c) /\ ~Applies(Rules[2], c)
    BY <1>2, <1>3
  <2> HIDE DEF T
  <2> QED
    BY <2>1, <2>2
<1>5. Min(T) \in T /\ \A n \in T : Min(T) <= n
  BY <1>4, LeastIsThere
<1> DEFINE first == Min(T)
<1>6. first \in 3 .. 15
  BY <1>4, <1>5
<1>7. Applies(Rules[first], c)
  BY <1>5
<1>8. \A m \in 1 .. first - 1 : ~Applies(Rules[m], c)
  <2> SUFFICES ASSUME NEW m \in 1 .. first - 1 PROVE ~Applies(Rules[m], c)
    OBVIOUS
  <2>1. m \in 1 .. 15 /\ ~(first <= m)
    BY <1>6
  <2> QED
    BY <2>1, <1>4, <1>5
<1>9. rule_of(c) = Rules[first]
  BY DEF rule_of
<1> HIDE DEF first
<1> QED
  BY <1>6, <1>7, <1>8, <1>9

\* The same, by the rules' names: a rule other than those before it in the list
\* is followed only when none of them applies.
MatchedRules == {Rules[n] : n \in 3 .. 15}

LEMMA RuleNames ==
    MatchedRules =
        {"too close", "reversal", "other kind", "same proposition", "completed",
         "canceled", "superseded", "date moved", "date conflict", "reassigned",
         "owner conflict", "new after all", "unclear"}
<1>1. 3 .. 15 = {3, 4, 5, 6, 7, 8, 9, 10, 11, 12, 13, 14, 15}
  OBVIOUS
<1>2. MatchedRules = {Rules[3], Rules[4], Rules[5], Rules[6], Rules[7], Rules[8], Rules[9],
                      Rules[10], Rules[11], Rules[12], Rules[13], Rules[14], Rules[15]}
  BY <1>1 DEF MatchedRules
<1> QED
  BY <1>2 DEF Rules

LEMMA RuleApplies ==
    ASSUME NEW c, c.outcome.tier # "none"
    PROVE  /\ rule_of(c) \in MatchedRules
           /\ Applies(rule_of(c), c)
           /\ rule_of(c) # "too close" => ~close_margin(c.outcome)
           /\ rule_of(c) \notin {"too close", "reversal"} => ~Applies("reversal", c)
<1>1. PICK n \in 3 .. 15 :
              /\ rule_of(c) = Rules[n]
              /\ Applies(Rules[n], c)
              /\ \A m \in 1 .. n - 1 : ~Applies(Rules[m], c)
  BY FirstRule
<1>2. Rules[3] = "too close" /\ Rules[4] = "reversal"
  BY DEF Rules
<1>3. rule_of(c) # "too close" => ~Applies("too close", c)
  <2>1. rule_of(c) # "too close" => n # 3
    BY <1>1, <1>2
  <2>2. n # 3 => 3 \in 1 .. n - 1
    OBVIOUS
  <2> QED
    BY <2>1, <2>2, <1>1, <1>2
<1>4. Applies("too close", c) <=> close_margin(c.outcome)
  BY DEF Applies
<1>5. rule_of(c) \notin {"too close", "reversal"} => ~Applies("reversal", c)
  <2>1. rule_of(c) \notin {"too close", "reversal"} => n # 3 /\ n # 4
    BY <1>1, <1>2
  <2>2. n # 3 /\ n # 4 => 4 \in 1 .. n - 1
    OBVIOUS
  <2> QED
    BY <2>1, <2>2, <1>1, <1>2
<1> QED
  BY <1>1, <1>3, <1>4, <1>5 DEF MatchedRules

LEMMA RuleWithoutMatch ==
    ASSUME NEW c, c.outcome.tier = "none"
    PROVE  rule_of(c) = IF c.o.kind = "update" THEN "update without target" ELSE "new"
BY DEF rule_of

-----------------------------------------------------------------------------
(* Bands. *)

LEMMA RankIs == Rank("low") = 1 /\ Rank("medium") = 2 /\ Rank("high") = 3
<1>1. DOMAIN Bands = {1, 2, 3}
  BY DEF Bands
<1>2. Bands[1] = "low" /\ Bands[2] = "medium" /\ Bands[3] = "high"
  BY DEF Bands
<1> QED
  BY <1>1, <1>2 DEF Rank

\* One low band makes a proposal's band low, and nothing else does.
LEMMA WeakestIsLow ==
    ASSUME NEW bands, bands \subseteq {"low", "medium", "high"}, bands # {}
    PROVE  weakest_band(bands) = "low" <=> "low" \in bands
<1> DEFINE T == {Rank(b) : b \in bands}
<1>1. T # {} /\ T \subseteq 1 .. 3 /\ (1 \in T <=> "low" \in bands)
  <2>1. \A b \in bands : Rank(b) \in 1 .. 3 /\ (Rank(b) = 1 <=> b = "low")
    BY RankIs
  <2> QED
    BY <2>1
<1>2. Min(T) \in T /\ \A n \in T : Min(T) <= n
  <2>1. T \subseteq Nat /\ T # {}
    BY <1>1
  <2> HIDE DEF T
  <2> QED
    BY <2>1, LeastIsThere
<1> DEFINE least == Min(T)
<1>3. least \in 1 .. 3 /\ (least = 1 <=> 1 \in T)
  BY <1>1, <1>2
<1>4. weakest_band(bands) = Bands[least]
  BY DEF weakest_band
<1> HIDE DEF least
<1>5. Bands[least] = "low" <=> least = 1
  BY <1>3 DEF Bands
<1> QED
  BY <1>1, <1>3, <1>4, <1>5

LEMMA BandIsLow ==
    ASSUME NEW c
    PROVE  classify_action(c).band = "low" <=>
              \/ extraction_confidence(c.o) = "low"
              \/ match_confidence(c) = "low"
              \/ mutation_confidence(rule_of(c), c) = "low"
<1> DEFINE bands == {extraction_confidence(c.o), match_confidence(c),
                     mutation_confidence(rule_of(c), c)}
<1>1. extraction_confidence(c.o) \in {"low", "medium", "high"}
  BY DEF extraction_confidence
<1>2. match_confidence(c) \in {"low", "medium", "high"}
  BY DEF match_confidence
<1>3. mutation_confidence(rule_of(c), c) \in {"low", "medium", "high"}
  BY DEF mutation_confidence
<1>4. classify_action(c).band = weakest_band(bands)
  BY DEF classify_action
<1> QED
  BY <1>1, <1>2, <1>3, <1>4, WeakestIsLow

-----------------------------------------------------------------------------
(* Cases. *)

\* What a case is: the outcome names a known item of a compatible kind, or none.
CaseOK(c) ==
    /\ c.o = observation
    /\ c.owner = _resolve_observation_owner(observation)
    /\ c.outcome.tier # "none" =>
          /\ c.outcome.top \in DOMAIN known /\ c.outcome.top # Nothing
          /\ c.item = known[c.outcome.top]
          /\ c.item.kind \in compatible_kinds(observation.kind)

Typed ==
    /\ DOMAIN known \subseteq Entry
    /\ known \in [DOMAIN known -> KnownItem]
    /\ observation \in Observed

LEMMA ScoresAre ==
    ASSUME Typed
    PROVE  /\ DOMAIN score_candidates(observation) = generate_candidates(observation)
           /\ generate_candidates(observation) \subseteq DOMAIN known
           /\ \A i \in generate_candidates(observation) :
                 /\ score_candidates(observation)[i] \in Int
                 /\ known[i].kind \in compatible_kinds(observation.kind)
<1> DEFINE o == observation
           S == score_candidates(o)
<1>1. DOMAIN S = generate_candidates(o)
  BY DEF score_candidates
<1>2. generate_candidates(o) \subseteq DOMAIN known
  BY DEF generate_candidates
<1>3. ASSUME NEW i \in generate_candidates(o)
      PROVE  S[i] \in Int /\ known[i].kind \in compatible_kinds(o.kind)
  <2>1. known[i] \in KnownItem /\ o \in Observed
    BY <1>2, <1>3 DEF Typed
  <2>2. S[i] = score_match(compute_match_features(o, _resolve_observation_owner(o),
                                                  known[i], retrieval_tiers(o, known[i])))
    BY <1>3 DEF score_candidates
  <2>3. S[i] \in Int
    BY <2>1, <2>2, ScoreIsNumber
  <2>4. retrieval_tiers(o, known[i]) # {}
    BY <1>3 DEF generate_candidates
  <2>5. known[i].kind \in compatible_kinds(o.kind)
    BY <2>4 DEF retrieval_tiers
  <2> QED
    BY <2>3, <2>5
<1> QED
  BY <1>1, <1>2, <1>3

\* The margin and the tier of a candidate ranked first.
Margin(scores, top) ==
    IF DOMAIN scores \ {top} = {} THEN Nothing
    ELSE scores[top] - Max({scores[i] : i \in DOMAIN scores \ {top}})

LEMMA OutcomeIs ==
    ASSUME NEW scores, NEW outcome \in determine_match_outcome(scores)
    PROVE  \/ outcome = NoMatch
           \/ \E top \in DOMAIN scores :
                 /\ \A j \in DOMAIN scores : scores[top] >= scores[j]
                 /\ outcome.top = top
                 /\ outcome.score = scores[top]
                 /\ outcome.margin = Margin(scores, top)
                 /\ outcome.tier =
                       IF /\ scores[top] >= strong_candidate_score
                          /\ outcome.margin # Nothing =>
                                outcome.margin >= strong_candidate_margin
                       THEN "strong"
                       ELSE IF scores[top] >= review_candidate_score
                            THEN "review" ELSE "uncertain"
<1>1. CASE scores = <<>>
  BY <1>1 DEF determine_match_outcome
<1>2. CASE scores # <<>>
  <2>1. PICK top \in {i \in DOMAIN scores : \A j \in DOMAIN scores : scores[i] >= scores[j]} :
          outcome =
            [tier |->
                IF /\ scores[top] >= strong_candidate_score
                   /\ Margin(scores, top) # Nothing =>
                         Margin(scores, top) >= strong_candidate_margin
                THEN "strong"
                ELSE IF scores[top] >= review_candidate_score THEN "review" ELSE "uncertain",
             top |-> top, score |-> scores[top], margin |-> Margin(scores, top)]
    BY <1>2, Zenon DEF determine_match_outcome, Margin
  <2> QED
    BY <2>1
<1> QED
  BY <1>1, <1>2

LEMMA CasesAreOK ==
    ASSUME Typed, NEW c \in Cases(observation)
    PROVE  /\ CaseOK(c)
           /\ c.outcome \in determine_match_outcome(score_candidates(observation))
<1> DEFINE o == observation
           S == score_candidates(o)
<1>1. PICK outcome \in determine_match_outcome(S) :
          c = [o |-> o, owner |-> _resolve_observation_owner(o), outcome |-> outcome,
               item |-> IF outcome.top = Nothing THEN Nothing ELSE known[outcome.top]]
  BY DEF Cases
<1>2. /\ c.o = o /\ c.owner = _resolve_observation_owner(o) /\ c.outcome = outcome
      /\ c.item = IF outcome.top = Nothing THEN Nothing ELSE known[outcome.top]
  BY <1>1
<1>3. outcome.tier # "none" => outcome.top \in DOMAIN S
  BY OutcomeIs DEF NoMatch
<1>4. outcome.tier # "none" =>
          /\ outcome.top \in DOMAIN known /\ outcome.top # Nothing
          /\ known[outcome.top].kind \in compatible_kinds(o.kind)
  BY <1>3, ScoresAre, ReconcileAssumption DEF Typed
<1> QED
  BY <1>2, <1>4 DEF CaseOK

-----------------------------------------------------------------------------
(* The invariant: a proposal is what the rules make of a case. *)

DecisionInv ==
    /\ Typed
    /\ Decided => \E c \in Cases(observation) : ~asserts(rule_of(c), c) /\ decision = classify_action(c)

LEMMA DecisionInitInv == ReconcileInit => DecisionInv
<1> SUFFICES ASSUME ReconcileInit PROVE DecisionInv
  OBVIOUS
<1>1. PICK es \in SUBSET Entry : known \in [es -> KnownItem]
  BY DEF ReconcileInit
<1>2. Typed
  BY <1>1 DEF Typed, ReconcileInit
<1> QED
  BY <1>2 DEF DecisionInv, Decided, ReconcileInit

LEMMA DecisionNextInv == DecisionInv /\ [reconcile_observation]_decisionVars => DecisionInv'
<1> SUFFICES ASSUME DecisionInv, [reconcile_observation]_decisionVars PROVE DecisionInv'
  OBVIOUS
<1>1. known' = known /\ observation' = observation
  BY DEF reconcile_observation, decisionVars
<1>2. Typed' /\ Cases(observation)' = Cases(observation)
  BY <1>1 DEF DecisionInv, Typed, Cases, score_candidates, generate_candidates
<1>3. CASE decision' = decision
  BY <1>1, <1>2, <1>3 DEF DecisionInv, Decided
<1>4. CASE decision' # decision
  <2>1. PICK c \in Cases(observation) : ~asserts(rule_of(c), c) /\ decision' = classify_action(c)
    BY <1>4 DEF reconcile_observation, decisionVars
  <2> QED
    BY <1>2, <2>1 DEF DecisionInv
<1> QED
  BY <1>3, <1>4

LEMMA DecisionInvariant == ReconcileSpec => []DecisionInv
BY DecisionInitInv, DecisionNextInv, PTL DEF ReconcileSpec

-----------------------------------------------------------------------------
(* The properties. *)

\* A proposal with more than a low band is one the ledger takes as it stands
\* (MCReconcile's ConfidentMeansApplicable), whatever the items and the wording.
THEOREM ConfidentProposals == ReconcileSpec => []ConfidentMeansApplicable
<1>1. DecisionInv => ConfidentMeansApplicable
  <2> SUFFICES ASSUME DecisionInv, Decided, decision.band # "low", decision.target # Nothing
               PROVE  ConfidentMeansApplicable
    BY DEF ConfidentMeansApplicable
  <2>1. PICK c \in Cases(observation) :
           ~asserts(rule_of(c), c) /\ decision = classify_action(c)
    BY DEF DecisionInv
  <2> DEFINE rule == rule_of(c)
  <2>2. CaseOK(c)
    BY <2>1, CasesAreOK DEF DecisionInv
  <2>3. /\ decision.action = proposed_action(rule, c)
        /\ decision.target = IF rule \in Targetless THEN Nothing ELSE c.outcome.top
    BY <2>1 DEF classify_action
  <2>4. rule \notin Targetless /\ decision.target = c.outcome.top
    BY <2>3
  <2>5. c.outcome.tier # "none"
    BY <2>4, RuleWithoutMatch DEF Targetless
  <2>6. Target = c.item
    BY <2>2, <2>4, <2>5 DEF Target, CaseOK
  <2>7. proposed_action(rule, c) # "conflict" /\ transition_domain_valid(rule, c)
    BY <2>1, BandIsLow DEF mutation_confidence
  <2>8. rule \in MatchedRules
    BY <2>5, RuleApplies
  <2> HIDE DEF rule
  <2>9. CASE rule \in {"other kind", "superseded"}
    BY <2>3, <2>6, <2>7, <2>9
       DEF ConfidentMeansApplicable, proposed_action, transition_domain_valid
  <2>10. CASE rule = "same proposition"
    BY <2>3, <2>7, <2>10 DEF ConfidentMeansApplicable, proposed_action
  <2>11. CASE rule \in {"completed", "canceled"}
    BY <2>3, <2>6, <2>7, <2>11
       DEF ConfidentMeansApplicable, proposed_action, transition_domain_valid
  <2>12. CASE rule \in {"date moved", "reassigned"}
    BY <2>3, <2>6, <2>7, <2>12
       DEF ConfidentMeansApplicable, proposed_action, transition_domain_valid
  <2> QED
    BY <2>4, <2>7, <2>8, <2>9, <2>10, <2>11, <2>12, RuleNames DEF Targetless, proposed_action
<1> QED
  BY <1>1, DecisionInvariant, PTL

\* A proposal with a target follows a rule that was chosen for a known item.
LEMMA TargetedCase ==
    ASSUME NEW c, CaseOK(c), decision = classify_action(c), rule_of(c) \notin Targetless
    PROVE  /\ c.outcome.tier # "none"
           /\ decision.target = c.outcome.top
           /\ decision.target # Nothing
           /\ Target = c.item
           /\ Applies(rule_of(c), c)
           /\ rule_of(c) # "reversal" => ~Applies("reversal", c)
           /\ rule_of(c) \in MatchedRules
<1>1. decision.target = c.outcome.top
  BY DEF classify_action
<1>2. c.outcome.tier # "none"
  BY RuleWithoutMatch DEF Targetless
<1>3. c.outcome.top # Nothing /\ c.item = known[c.outcome.top]
  BY <1>2 DEF CaseOK
<1> QED
  BY <1>1, <1>2, <1>3, RuleApplies DEF Target, Targetless

\* What a proposal says of the owner is the person the observation names.
LEMMA ResolvedIsSomeone ==
    ASSUME Typed, NEW c, CaseOK(c), Resolved(c.owner)
    PROVE  c.owner.person_id # Nothing
<1> DEFINE o == observation
<1>1. c.owner = _resolve_observation_owner(o)
  BY DEF CaseOK
<1>2. /\ o.person \in Person \cup {Nothing}
      /\ o.named \in (SUBSET Person) \cup {Nothing}
  BY DEF Typed, Observed
<1>3. CASE o.person # Nothing
  BY <1>1, <1>3 DEF _resolve_observation_owner
<1>4. CASE o.person = Nothing
  <2>1. o.named \notin {Nothing, {}} /\ c.owner.person_id = CHOOSE p \in o.named : TRUE
    BY <1>1, <1>4 DEF _resolve_observation_owner, Resolved
  <2>2. (CHOOSE p \in o.named : TRUE) \in o.named
    BY <2>1
  <2> QED
    BY <1>2, <2>1, <2>2, ReconcileAssumption
<1> QED
  BY <1>3, <1>4

\* What a reviewer corrected is overwritten by no proposal that has more than a low
\* band and hides the disagreement (CorrectionsStand), for any wording.
THEOREM CorrectionsNotOverruled == ReconcileSpec => []CorrectionsStand
<1>1. DecisionInv => CorrectionsStand
  <2> SUFFICES ASSUME DecisionInv, Decided, decision.action \in {"update", "supersede"},
                      Target.corrected, Overwrites
               PROVE  /\ decision.band = "low"
                      /\ "corrected_field_disagreement" \in decision.escalation_reasons
    BY DEF CorrectionsStand
  <2>1. PICK c \in Cases(observation) :
           ~asserts(rule_of(c), c) /\ decision = classify_action(c)
    BY DEF DecisionInv
  <2> DEFINE rule == rule_of(c)
  <2>2. CaseOK(c)
    BY <2>1, CasesAreOK DEF DecisionInv
  <2>3. /\ decision.action = proposed_action(rule, c)
        /\ decision.patch = proposed_patch(rule, c)
        /\ decision.escalation_reasons = escalation_reasons(rule, c)
    BY <2>1 DEF classify_action
  <2>4. rule \in {"other kind", "superseded", "date moved", "reassigned"}
    BY <2>3 DEF proposed_action
  <2>5. rule \notin Targetless
    BY <2>4 DEF Targetless
  <2>6. Target = c.item /\ c.outcome.tier # "none" /\ Applies(rule, c)
    BY <2>1, <2>2, <2>5, TargetedCase
  <2> HIDE DEF rule
  <2>7. \/ _material_owner_conflict(c.owner, c.item.owner)
        \/ _material_date_conflict(c.o.date, c.item.due)
    <3>1. CASE rule \in {"date moved", "reassigned"}
      BY <2>6, <3>1 DEF Applies
    <3>2. CASE rule \in {"other kind", "superseded"}
      <4>1. decision.patch = _create_patch(c)
        BY <2>3, <3>2 DEF proposed_patch
      <4>2. /\ decision.patch.due = c.o.date
            /\ decision.patch.owner =
                  IF Resolved(c.owner) THEN c.owner.person_id ELSE Nothing
        BY <4>1 DEF _create_patch
      <4>3. PICK f \in {"owner", "due"} :
               Target[f] # Nothing /\ decision.patch[f] \notin {Nothing, Target[f]}
        BY DEF Overwrites
      <4>4. CASE f = "owner"
        BY <2>6, <4>2, <4>3, <4>4 DEF _material_owner_conflict
      <4>5. CASE f = "due"
        BY <2>6, <4>2, <4>3, <4>5 DEF _material_date_conflict
      <4> QED
        BY <4>3, <4>4, <4>5
    <3> QED
      BY <2>4, <3>1, <3>2
  <2>8. corrected_field_disagreement(c.owner, c.o.date, c.item)
    BY <2>6, <2>7 DEF corrected_field_disagreement
  <2>9. "corrected_field_disagreement" \in escalation_reasons(rule, c)
    BY <2>4, <2>8 DEF escalation_reasons
  <2>10. match_confidence(c) = "low"
    BY <2>6, <2>8 DEF match_confidence
  <2> QED
    BY <2>1, <2>3, <2>9, <2>10, BandIsLow
<1> QED
  BY <1>1, DecisionInvariant, PTL

\* Every proposal is one of those module Review starts from (ProposalsFitReview): it
\* ends or updates only what is open, replaces only what may be replaced, and an
\* update observation creates nothing.
THEOREM ProposalsFit == ReconcileSpec => []ProposalsFitReview
<1>1. DecisionInv => ProposalsFitReview
  <2> SUFFICES ASSUME DecisionInv, Decided PROVE ProposalsFitReview
    BY DEF ProposalsFitReview
  <2>1. PICK c \in Cases(observation) :
           ~asserts(rule_of(c), c) /\ decision = classify_action(c)
    BY DEF DecisionInv
  <2> DEFINE rule == rule_of(c)
             k == observation.kind
             open == decision.target # Nothing /\ Target.status \in NON_TERMINAL_STATUSES
  <2>2. CaseOK(c) /\ c.o = observation
    BY <2>1, CasesAreOK DEF DecisionInv, CaseOK
  <2>3. /\ decision.action = proposed_action(rule, c)
        /\ decision.patch = proposed_patch(rule, c)
        /\ rule \in Targetless => decision.target = Nothing
    BY <2>1 DEF classify_action
  <2>4. rule \in Targetless \/ rule \notin Targetless
    OBVIOUS
  <2>5. rule \notin Targetless =>
           /\ decision.target # Nothing
           /\ Target = c.item
           /\ c.item \in KnownItem
           /\ c.item.kind \in compatible_kinds(k)
           /\ Applies(rule, c)
           /\ rule # "reversal" => ~Applies("reversal", c)
    <3> SUFFICES ASSUME rule \notin Targetless
                 PROVE  /\ decision.target # Nothing
                        /\ Target = c.item
                        /\ c.item \in KnownItem
                        /\ c.item.kind \in compatible_kinds(k)
                        /\ Applies(rule, c)
                        /\ rule # "reversal" => ~Applies("reversal", c)
      OBVIOUS
    <3>1. c.outcome.tier # "none"
      BY <2>1, <2>2, TargetedCase
    <3>2. c.outcome.top \in DOMAIN known /\ c.item = known[c.outcome.top]
      BY <2>2, <3>1 DEF CaseOK
    <3>3. c.item \in KnownItem
      BY <3>2 DEF DecisionInv, Typed
    <3>4. c.item.kind \in compatible_kinds(k)
      BY <2>2, <3>1 DEF CaseOK
    <3> QED
      BY <2>1, <2>2, <3>3, <3>4, TargetedCase
  <2>6. rule = "new" => k # "update"
    <3>1. CASE c.outcome.tier = "none"
      BY <2>2, <3>1, RuleWithoutMatch
    <3>2. CASE c.outcome.tier # "none"
      BY <3>2, RuleApplies, RuleNames
    <3> QED
      BY <3>1, <3>2
  <2>7. rule = "new after all" => k # "update"
    <3>1. CASE c.outcome.tier = "none"
      BY <3>1, RuleWithoutMatch
    <3>2. CASE c.outcome.tier # "none"
      <4>1. rule = "new after all" => Applies("new after all", c)
        BY <3>2, RuleApplies
      <4>2. Applies("new after all", c) => c.o.kind # "update"
        BY DEF Applies
      <4> QED
        BY <2>2, <4>1, <4>2
    <3> QED
      BY <3>1, <3>2
  <2>8. rule \in {"other kind", "superseded"} => k # "update"
    BY <2>1, <2>2 DEF asserts
  <2> HIDE DEF rule
  <2>9. rule \in {"completed", "canceled", "superseded", "date moved", "reassigned", "other kind"} =>
           /\ open
           /\ rule \notin Targetless
    <3> SUFFICES ASSUME rule \in {"completed", "canceled", "superseded", "date moved",
                                  "reassigned", "other kind"}
                 PROVE  open /\ rule \notin Targetless
      OBVIOUS
    <3>1. rule \notin Targetless
      BY DEF Targetless
    <3>2. Applies(rule, c) /\ ~Applies("reversal", c) /\ c.item.status \in Statuses
      BY <3>1, <2>5 DEF KnownItem
    <3> DEFINE ends == \/ detect_completion(c.o.statement) \/ detect_cancellation(c.o.statement)
                       \/ detect_supersession(c.o.statement)
               changes == \/ _material_date_conflict(c.o.date, c.item.due)
                          \/ _material_owner_conflict(c.owner, c.item.owner)
               kind_change == c.o.kind # "update" /\ c.item.kind # NATURAL_LEDGER_KIND[c.o.kind]
    <3>3. ends \/ changes \/ (kind_change /\ detect_blocking_language(c.o.statement))
      BY <3>2 DEF Applies
    <3>4. c.item.status \notin TERMINAL_STATUSES
      BY <3>2, <3>3 DEF Applies
    <3>5. Target.status \in NON_TERMINAL_STATUSES
      BY <3>1, <3>2, <3>4, <2>5 DEF TERMINAL_STATUSES
    <3> QED
      BY <3>1, <3>5, <2>5
  <2>10. decision.target # Nothing => Target.kind \in compatible_kinds(k)
    BY <2>3, <2>5
  <2>11. decision.action \in {"complete", "cancel"} => open
    BY <2>3, <2>9 DEF proposed_action
  <2>12. decision.action = "update" => open /\ Overwrites
    <3> SUFFICES ASSUME decision.action = "update" PROVE open /\ Overwrites
      OBVIOUS
    <3>1. rule \in {"date moved", "reassigned"}
      BY <2>3 DEF proposed_action
    <3>2. rule \notin Targetless /\ Applies(rule, c) /\ Target = c.item /\ open
      BY <3>1, <2>5, <2>9
    <3>3. CASE rule = "date moved"
      <4>1. _material_date_conflict(c.o.date, Target.due)
        BY <3>2, <3>3 DEF Applies
      <4>2. decision.patch = [due |-> c.o.date]
        BY <2>3, <3>3 DEF proposed_patch
      <4>3. "due" \in DOMAIN decision.patch /\ decision.patch["due"] = c.o.date
        BY <4>2
      <4> QED
        BY <3>2, <4>1, <4>3 DEF Overwrites, _material_date_conflict
    <3>4. CASE rule = "reassigned"
      <4>1. _material_owner_conflict(c.owner, Target.owner)
        BY <3>2, <3>4 DEF Applies
      <4>2. decision.patch = [owner |-> c.owner.person_id]
        BY <2>3, <3>4 DEF proposed_patch
      <4>3. "owner" \in DOMAIN decision.patch /\ decision.patch["owner"] = c.owner.person_id
        BY <4>2
      <4>4. c.owner.person_id # Nothing
        BY <2>2, <4>1, ResolvedIsSomeone DEF _material_owner_conflict, DecisionInv
      <4> QED
        BY <3>2, <4>1, <4>3, <4>4 DEF Overwrites, _material_owner_conflict
    <3> QED
      BY <3>1, <3>3, <3>4
  <2>13. decision.action \in {"create", "supersede"} => k # "update"
    BY <2>3, <2>6, <2>7, <2>8 DEF proposed_action
  <2>14. decision.action = "supersede" =>
            open /\ (Target.kind # k \/ Target.kind \in SUPERSEDABLE_KINDS)
    <3> SUFFICES ASSUME decision.action = "supersede"
                 PROVE  open /\ (Target.kind # k \/ Target.kind \in SUPERSEDABLE_KINDS)
      OBVIOUS
    <3>1. rule \in {"other kind", "superseded"}
      BY <2>3 DEF proposed_action
    <3>2. open /\ Applies(rule, c) /\ Target = c.item
      BY <3>1, <2>5, <2>9
    <3>3. CASE rule = "other kind"
      <4>1. c.o.kind # "update" /\ c.item.kind # NATURAL_LEDGER_KIND[c.o.kind]
        BY <3>2, <3>3 DEF Applies
      <4>2. c.o.kind \in Kinds
        BY <2>2, <4>1 DEF DecisionInv, Typed, Observed, ObservationKinds
      <4> QED
        BY <2>2, <3>2, <4>1, <4>2 DEF NATURAL_LEDGER_KIND
    <3>4. CASE rule = "superseded"
      BY <3>2, <3>4 DEF Applies
    <3> QED
      BY <3>1, <3>2, <3>3, <3>4
  <2> QED
    BY <2>10, <2>11, <2>12, <2>13, <2>14 DEF ProposalsFitReview
<1> QED
  BY <1>1, DecisionInvariant, PTL

\* Two outcomes of one ranking are two candidates with the same score.
LEMMA TiesHaveNoMargin ==
    ASSUME NEW scores, \A i \in DOMAIN scores : scores[i] \in Int,
           NEW first \in determine_match_outcome(scores),
           NEW second \in determine_match_outcome(scores), first # second
    PROVE  /\ first.tier # "none"
           /\ first.score \in Int
           /\ first.margin = 0
           /\ first.tier = IF first.score >= review_candidate_score
                           THEN "review" ELSE "uncertain"
<1> DEFINE Ranked(outcome, top) ==
               /\ top \in DOMAIN scores
               /\ \A j \in DOMAIN scores : scores[top] >= scores[j]
               /\ outcome =
                    [tier |->
                        IF /\ scores[top] >= strong_candidate_score
                           /\ Margin(scores, top) # Nothing =>
                                 Margin(scores, top) >= strong_candidate_margin
                        THEN "strong"
                        ELSE IF scores[top] >= review_candidate_score
                             THEN "review" ELSE "uncertain",
                     top |-> top, score |-> scores[top], margin |-> Margin(scores, top)]
<1>1. scores # <<>>
  BY DEF determine_match_outcome
<1>2. \A outcome \in determine_match_outcome(scores) : \E top : Ranked(outcome, top)
  BY <1>1, Zenon DEF determine_match_outcome, Margin
<1>3. PICK top : Ranked(first, top)
  BY <1>2
<1>4. PICK other : Ranked(second, other)
  BY <1>2
<1>5. top # other
  BY <1>3, <1>4
<1> DEFINE T == {scores[i] : i \in DOMAIN scores \ {top}}
<1>6. /\ scores[top] \in Int /\ scores[other] = scores[top]
      /\ other \in DOMAIN scores \ {top}
  BY <1>3, <1>4, <1>5
<1>7. scores[top] \in T /\ \A y \in T : y \in Int /\ scores[top] >= y
  BY <1>3, <1>6
<1>8. Max(T) \in T /\ \A y \in T : Max(T) >= y
  BY <1>7 DEF Max
<1>9. Max(T) = scores[top]
  BY <1>7, <1>8
<1>10. Margin(scores, top) = 0
  <2>1. Margin(scores, top) = scores[top] - Max(T)
    BY <1>6, Zenon DEF Margin
  <2> QED
    BY <2>1, <1>6, <1>9
<1>11. /\ first.score = scores[top] /\ first.margin = Margin(scores, top)
       /\ first.tier = IF /\ scores[top] >= strong_candidate_score
                          /\ Margin(scores, top) # Nothing =>
                                Margin(scores, top) >= strong_candidate_margin
                       THEN "strong"
                       ELSE IF scores[top] >= review_candidate_score
                            THEN "review" ELSE "uncertain"
  BY <1>3
<1>12. ~(Margin(scores, top) # Nothing => Margin(scores, top) >= strong_candidate_margin)
  BY <1>10, ReconcileAssumption DEF strong_candidate_margin
<1> QED
  BY <1>6, <1>10, <1>11, <1>12

\* Which of several equal candidates was found first decides only proposals that have
\* a low band and a reason to be looked at (OrderMattersOnlyWhenUncertain), for any
\* number of candidates.
THEOREM OrderRarelyMatters == ReconcileSpec => []OrderMattersOnlyWhenUncertain
<1>1. DecisionInv => OrderMattersOnlyWhenUncertain
  <2> SUFFICES ASSUME DecisionInv, Decided,
                      ~ \A c \in Cases(observation) :
                           ~asserts(rule_of(c), c) /\ classify_action(c) = decision
               PROVE  decision.band = "low" /\ decision.escalation_reasons # {}
    BY DEF OrderMattersOnlyWhenUncertain
  <2>1. PICK c \in Cases(observation) :
           ~asserts(rule_of(c), c) /\ decision = classify_action(c)
    BY DEF DecisionInv
  <2>2. PICK d \in Cases(observation) :
           ~ (~asserts(rule_of(d), d) /\ classify_action(d) = decision)
    OBVIOUS
  <2>3. c # d
    BY <2>1, <2>2
  <2> DEFINE scores == score_candidates(observation)
  <2>4. /\ c.outcome \in determine_match_outcome(scores)
        /\ d.outcome \in determine_match_outcome(scores)
    BY CasesAreOK DEF DecisionInv
  <2>5. c.outcome # d.outcome
    BY <2>3 DEF Cases
  <2>6. \A i \in DOMAIN scores : scores[i] \in Int
    BY ScoresAre DEF DecisionInv
  <2> HIDE DEF scores
  <2>7. /\ c.outcome.tier # "none"
        /\ c.outcome.score \in Int
        /\ c.outcome.margin = 0
        /\ c.outcome.tier = IF c.outcome.score >= review_candidate_score
                            THEN "review" ELSE "uncertain"
    BY <2>4, <2>5, <2>6, TiesHaveNoMargin
  <2> DEFINE rule == rule_of(c)
  <2>8. decision.escalation_reasons = escalation_reasons(rule, c)
    BY <2>1 DEF classify_action
  <2>9. rule \in MatchedRules /\ (rule # "too close" => ~close_margin(c.outcome))
    BY <2>7, RuleApplies
  <2>10. rule \notin {"update without target", "new"}
    BY <2>9, RuleNames
  <2> HIDE DEF rule
  <2>11. CASE c.outcome.score >= review_candidate_score
    <3>1. close_margin(c.outcome)
      BY <2>7, <2>11, ReconcileAssumption DEF close_margin, strong_candidate_margin
    <3>2. match_confidence(c) = "low"
      BY <2>7, <3>1 DEF match_confidence
    <3>3. "too close" \in escalation_reasons(rule, c)
      BY <2>9, <3>1 DEF escalation_reasons
    <3> QED
      BY <2>1, <2>8, <3>2, <3>3, BandIsLow
  <2>12. CASE ~(c.outcome.score >= review_candidate_score)
    <3>1. c.outcome.tier = "uncertain" /\ rule # "too close"
      <4>1. ~close_margin(c.outcome)
        BY <2>12 DEF close_margin
      <4>2. rule = "too close" => Applies("too close", c)
        BY <2>7, RuleApplies DEF rule
      <4>3. Applies("too close", c) => close_margin(c.outcome)
        BY DEF Applies
      <4> QED
        BY <2>7, <2>12, <4>1, <4>2, <4>3
    <3>2. match_confidence(c) = "low"
      BY <3>1 DEF match_confidence
    <3>3. "weak_candidate_match" \in escalation_reasons(rule, c)
      BY <2>10, <3>1 DEF escalation_reasons
    <3> QED
      BY <2>1, <2>8, <3>2, <3>3, BandIsLow
  <2> QED
    BY <2>11, <2>12
<1> QED
  BY <1>1, DecisionInvariant, PTL
=============================================================================
