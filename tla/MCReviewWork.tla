---------------------------- MODULE MCReviewWork ----------------------------
(* One reviewer's work through every action the page offers, two tabs of     *)
(* reviewers who race for the same proposals and items, and the decision of  *)
(* reconciliation that leads to a proposal.                                  *)
EXTENDS MCReview, MCReconcile

VARIABLE theme

MCInit ==
    /\ Init
    /\ theme \in {"history", "race", "decisions"}
    /\ IF theme = "decisions" THEN DecisionInit ELSE NothingObserved

\* The only owner named in ledger and proposals.
SingleOwner(its, props) ==
    \E o \in Owner :
        /\ \A i \in DOMAIN its : its[i].owner \in {o, NULL}
        /\ \A p \in DOMAIN props : props[p].proposed_patch.owner \in {o, NULL}

MCNext ==
    /\ UNCHANGED theme
    /\ IF theme = "decisions"
       THEN reconcile_observation /\ UNCHANGED vars
       ELSE Next /\ UNCHANGED decisionVars
    /\ theme = "history" =>
         \E s \in Session : \A t \in Session \ {s} : sessions'[t] = IdleSession
    /\ theme = "race" =>
         /\ SingleOwner(items', proposals')
         /\ \A s \in Session :
               sessions'[s].click # NULL =>
                   sessions'[s].click.action \in {"accept", "reject", "mark_complete"}

MCSpec == MCInit /\ [][MCNext]_<<vars, decisionVars, theme>>
=============================================================================
