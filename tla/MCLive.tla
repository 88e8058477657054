------------------------------- MODULE MCLive -------------------------------
(* What must come about, in two parts of the system that share nothing: a    *)
(* source's sync, and the press of a button on the review page.              *)
EXTENDS MCSync

CONSTANTS ItemId, Owner, ProposalId, MaxVersionNo, Reviewer, EvidenceLink,
          ObservedKinds, KindsInPlay, EditStatuses, Selections, Offered

\* The part a behaviour is about; the other stays as it was at first.
VARIABLES theme, items, versions, proposals, reviews, corrections, evidence_links, sessions

reviewVars ==
    <<items, versions, proposals, reviews, corrections, evidence_links, sessions>>

R == INSTANCE Review WITH Session <- Reviewer

LiveInit ==
    /\ MCInit
    /\ R!Init
    /\ theme \in {"sync", "review"}
    /\ theme = "review" => source.kind = "drive" /\ remote[i2].place = NULL

OfSync(action) == theme = "sync" /\ action /\ UNCHANGED <<reviewVars, theme>>

OfReview(action) == theme = "review" /\ action /\ UNCHANGED <<vars, theme>>

liveVars == <<vars, reviewVars, theme>>

\* A sync goes on by itself and is started again as long as it can be; the fairness of
\* the page is that of Review's FairSpec.
LiveSpec ==
    /\ LiveInit
    /\ [][OfSync(MCNext) \/ OfReview(R!Next)]_liveVars
    /\ \A s \in Session :
          /\ WF_liveVars(OfSync(MCNext /\ Work(s)))
          /\ WF_liveVars(OfSync(MCNext /\ StartSync(s)))
    /\ \A s \in Reviewer : WF_liveVars(OfReview(R!Load(s) \/ R!Commit(s)))

-----------------------------------------------------------------------------
\* A press of a button on the review page is answered: decided or refused.
EveryPressAnswered == R!EveryPressAnswered
=============================================================================
