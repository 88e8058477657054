----------------------------- MODULE MCReconcile -----------------------------
(* Small instances of module Reconcile, with days 0, 7 and 14. *)
EXTENDS Reconcile, TLC

CONSTANTS ana, bo, e1, e2

AnItem ==
    [kind |-> "commitment", status |-> "open", owner |-> ana, due |-> 0,
     corrected |-> FALSE, aged |-> FALSE, tokens |-> 100, entities |-> 100,
     titled |-> FALSE, hit |-> TRUE, recent |-> TRUE, cites |-> FALSE]

AnObservation ==
    [kind |-> "commitment", statement |-> {}, explicit |-> TRUE, person |-> Nothing,
     named |-> Nothing, date |-> Nothing, date_text |-> FALSE]

\* Any wording about one item, of any kind and status, with the item's owner and
\* date or others.
WordingInit ==
    /\ observation \in
         {[AnObservation EXCEPT !.kind = k, !.statement = says, !.explicit = x,
                                !.person = p, !.date = d] :
              k \in ObservationKinds, says \in {t \in SUBSET Phrase : Cardinality(t) <= 2},
              x \in BOOLEAN, p \in {ana, bo}, d \in {0, 14}}
    /\ \E k \in compatible_kinds(observation.kind) :
          known \in {e1 :> [AnItem EXCEPT !.kind = k, !.status = status, !.tokens = t,
                                          !.cites = observation.explicit,
                                          !.titled = observation.kind = "update"] :
                        status \in VALID_STATUSES_BY_KIND[k], t \in {50, 100}}

\* An observation of any owner and date beside two items that score anything.
ScoreInit ==
    /\ observation \in
         {[AnObservation EXCEPT !.kind = k, !.statement = says, !.named = names,
                                !.date = d, !.date_text = k = "update"] :
              k \in {"commitment", "update"},
              says \in {{"is complete", "that date"}, {"moved to"}, {"reassigned to"}},
              names \in {Nothing, {}, {ana}, {ana, bo}}, d \in {Nothing, 0, 7}}
    /\ \E row \in {[AnItem EXCEPT !.status = status, !.aged = TRUE, !.tokens = t,
                                  !.owner = p, !.due = d, !.corrected = x] :
                      status \in {"open", "completed"}, t \in {0, 50, 100},
                      p \in {Nothing, bo}, d \in {Nothing, 14}, x \in BOOLEAN} :
          known \in {e1 :> row @@ e2 :> [AnItem EXCEPT !.tokens = t, !.entities = n,
                                                       !.owner = p, !.titled = x] :
                        t \in {0, 50, 100}, n \in {0, 100}, p \in {ana, bo}, x \in BOOLEAN}
                    \cup {e1 :> row}

DecisionInit ==
    /\ WordingInit \/ ScoreInit
    /\ decision = Nothing
    /\ failed = FALSE

\* Nothing to reconcile.
NothingObserved == known = <<>> /\ observation = Nothing /\ decision = Nothing /\ failed = FALSE

DecisionSpec == DecisionInit /\ [][reconcile_observation]_decisionVars
=============================================================================
