---------------------------- MODULE ReviewProofs ----------------------------
(***************************************************************************)
(* Proofs about review, for any number of sessions, proposals, items and   *)
(* versions.  The tables of the ledger are changed here by transactions    *)
(* that compose the writes LedgerProofs is about, so its lemmas on tables  *)
(* carry the chain and the projection through them.  What they need is     *)
(* that a transaction's inputs make sense: the item a session read is      *)
(* still there when it commits, the kind and the status it resolved are a  *)
(* kind and a status.  That is the part References of the invariant.       *)
(***************************************************************************)
EXTENDS Review, LedgerProofs

-----------------------------------------------------------------------------
(* The invariant. *)

ProposalsTyped ==
    /\ DOMAIN proposals \subseteq ProposalId
    /\ proposals \in [DOMAIN proposals -> ProposalRow]

ReviewsTyped ==
    /\ DOMAIN reviews \subseteq ProposalId
    /\ reviews \in [DOMAIN reviews -> ReviewRow]

LinksTyped ==
    /\ corrections \subseteq ProposalId \X ItemId \X {"kind", "owner", "status"}
    /\ evidence_links \subseteq ProposalId \X (ItemId \cup VersionId) \X EvidenceLink

SessionsTyped == sessions \in [Session -> SessionRow]

\* What a proposal refers to exists.
ProposalRefs(p) ==
    /\ proposals[p].target_ledger_item_id \in DOMAIN items \cup {NULL}
    /\ proposals[p].candidates \subseteq DOMAIN items

\* What a session has read and is about to use exists.
SessionRefs(row) ==
    /\ row.phase # "idle" => row.proposal \in DOMAIN proposals
    /\ row.phase \in {"clicked", "loaded"} =>
          /\ row.click \in Click
          /\ row.click.target \in DOMAIN items \cup {NULL}
    /\ row.phase = "loaded" =>
          /\ row.target \in DOMAIN items \cup {NULL}
          /\ row.target # NULL => row.row \in ItemRow

References ==
    /\ \A p \in DOMAIN proposals : ProposalRefs(p)
    /\ \A s \in Session : SessionRefs(sessions[s])

ReviewInv ==
    /\ LedgerInv
    /\ ProposalsTyped
    /\ ReviewsTyped
    /\ LinksTyped
    /\ SessionsTyped
    /\ References
    /\ DecisionRecorded

LEMMA ReviewInitInv == Init => ReviewInv
<1> SUFFICES ASSUME Init PROVE ReviewInv
  OBVIOUS
<1>1. LedgerInv
  BY LedgerInitInv DEF Init
<1>2. DOMAIN proposals = {} /\ DOMAIN reviews = {}
  BY DEF Init
<1>3. IdleSession \in SessionRow
  BY DEF IdleSession, SessionRow
<1>4. SessionsTyped
  BY <1>3 DEF Init, SessionsTyped
<1>5. References
  BY <1>2 DEF Init, References, SessionRefs, IdleSession
<1>6. ProposalsTyped /\ ReviewsTyped /\ LinksTyped
  BY <1>2 DEF Init, ProposalsTyped, ReviewsTyped, LinksTyped
<1>7. DecisionRecorded
  BY <1>2 DEF DecisionRecorded
<1> QED
  BY <1>1, <1>4, <1>5, <1>6, <1>7 DEF ReviewInv

-----------------------------------------------------------------------------
(* Steps that change one session and nothing else. *)

LEMMA SessionStep ==
    ASSUME ReviewInv, NEW s \in Session, NEW row \in SessionRow, SessionRefs(row),
           sessions' = [sessions EXCEPT ![s] = row],
           UNCHANGED <<items, versions, reviewVars>>
    PROVE  ReviewInv'
<1>1. LedgerInv' /\ ProposalsTyped' /\ ReviewsTyped' /\ LinksTyped' /\ DecisionRecorded'
  BY DEF ReviewInv, LedgerInv, LedgerTypeOK, ChainOK, ProjectionOK, reviewVars,
         ProposalsTyped, ReviewsTyped, LinksTyped, DecisionRecorded
<1>2. SessionsTyped'
  BY DEF ReviewInv, SessionsTyped
<1>3. \A t \in Session : SessionRefs(sessions'[t])
  BY DEF ReviewInv, SessionsTyped, References
<1>4. References'
  BY <1>3 DEF ReviewInv, References, ProposalRefs, SessionRefs, reviewVars
<1> QED
  BY <1>1, <1>2, <1>4 DEF ReviewInv

LEMMA IdleAfter ==
    ASSUME NEW o \in Outcomes \cup {NULL}
    PROVE  /\ [IdleSession EXCEPT !.outcome = o] \in SessionRow
           /\ SessionRefs([IdleSession EXCEPT !.outcome = o])
  BY DEF IdleSession, SessionRow, SessionRefs

LEMMA AnsweredStep ==
    ASSUME ReviewInv, NEW s \in Session, NEW o \in Outcomes,
           sessions' = Answered(s, o), UNCHANGED <<items, versions, reviewVars>>
    PROVE  ReviewInv'
<1>1. sessions' = [sessions EXCEPT ![s] = [IdleSession EXCEPT !.outcome = o]]
  BY DEF Answered
<1> QED
  BY <1>1, IdleAfter, SessionStep

\* The version on a card is the one its target has.
LEMMA TargetVersionTyped ==
    ASSUME ReviewInv, NEW p \in DOMAIN proposals
    PROVE  TargetVersion(p) \in VersionId \cup {NULL}
<1>1. proposals[p].target_ledger_item_id \in DOMAIN items \cup {NULL}
  BY DEF ReviewInv, References, ProposalRefs
<1>2. \A i \in DOMAIN items : items[i].current_version_id \in VersionId
  BY DEF ReviewInv, LedgerInv, LedgerTypeOK, Typed, ItemRow
<1> QED
  BY <1>1, <1>2 DEF TargetVersion

LEMMA RenderCardInv ==
    ASSUME ReviewInv, NEW s \in Session, NEW p \in ProposalId, RenderCard(s, p)
    PROVE  ReviewInv'
<1> DEFINE card == [IdleSession EXCEPT !.phase = "card", !.proposal = p,
                                       !.seen = TargetVersion(p)]
<1>1. p \in DOMAIN proposals /\ sessions' = [sessions EXCEPT ![s] = card]
  BY DEF RenderCard, IsPending
<1>2. TargetVersion(p) \in VersionId \cup {NULL}
  BY <1>1, TargetVersionTyped
<1>3. card \in SessionRow /\ SessionRefs(card)
  BY <1>1, <1>2 DEF IdleSession, SessionRow, SessionRefs
<1> HIDE DEF card
<1> QED
  BY <1>1, <1>3, SessionStep DEF RenderCard

\* What the buttons and the form submit.
LEMMA ClicksTyped ==
    ASSUME ReviewInv, NEW p \in DOMAIN proposals, NEW c \in Buttons(p) \cup Submissions(p)
    PROVE  c \in Click /\ c.target \in DOMAIN items \cup {NULL}
<1>1. /\ \A a \in ReviewActions, st \in Statuses \cup {NULL} :
            ButtonClick(a, st) \in Click /\ ButtonClick(a, st).target = NULL
  BY DEF ButtonClick, Click
<1>2. CASE c \in Buttons(p)
  BY <1>1, <1>2 DEF Buttons, ReviewActions, Statuses
<1>3. CASE c \in Submissions(p)
  <2>1. proposals[p].candidates \subseteq DOMAIN items /\ DOMAIN items \subseteq ItemId
    BY DEF ReviewInv, References, ProposalRefs, LedgerInv, LedgerTypeOK, Typed
  <2> QED
    BY <1>3, <2>1, ReviewAssumption DEF Submissions, Click, ReviewActions
<1> QED
  BY <1>2, <1>3

LEMMA PressInv ==
    ASSUME ReviewInv, NEW s \in Session, Press(s)
    PROVE  ReviewInv'
<1> DEFINE p == sessions[s].proposal
<1>1. sessions[s] \in SessionRow /\ sessions[s].phase = "card" /\ p \in DOMAIN proposals
  BY DEF ReviewInv, SessionsTyped, References, SessionRefs, Press
<1>2. CASE IsPending(p)
  <2>1. PICK c \in Buttons(p) \cup Submissions(p) :
            sessions' = [sessions EXCEPT ![s].phase = "clicked", ![s].click = c,
                                         ![s].expected = TargetVersion(p)]
    BY <1>2 DEF Press
  <2> DEFINE row == [sessions[s] EXCEPT !.phase = "clicked", !.click = c,
                                        !.expected = TargetVersion(p)]
  <2>2. c \in Click /\ c.target \in DOMAIN items \cup {NULL}
    BY <1>1, ClicksTyped
  <2>3. TargetVersion(p) \in VersionId \cup {NULL}
    BY <1>1, TargetVersionTyped
  <2>4. row \in SessionRow
    BY <1>1, <2>2, <2>3 DEF SessionRow
  <2>5. row.phase = "clicked" /\ row.proposal = p /\ row.click = c
    BY <1>1 DEF SessionRow
  <2>6. sessions' = [sessions EXCEPT ![s] = row]
    BY <2>1 DEF ReviewInv, SessionsTyped
  <2> HIDE DEF row
  <2>7. SessionRefs(row)
    BY <1>1, <2>2, <2>5 DEF SessionRefs
  <2> QED
    BY <2>4, <2>6, <2>7, SessionStep DEF Press
<1>3. CASE ~IsPending(p)
  <2>1. sessions' = [sessions EXCEPT ![s] = IdleSession]
    BY <1>3 DEF Press
  <2>2. IdleSession \in SessionRow /\ SessionRefs(IdleSession)
    BY DEF IdleSession, SessionRow, SessionRefs
  <2> QED
    BY <2>1, <2>2, SessionStep DEF Press
<1> QED
  BY <1>2, <1>3

LEMMA LoadInv ==
    ASSUME ReviewInv, NEW s \in Session, Load(s)
    PROVE  ReviewInv'
<1> DEFINE p == sessions[s].proposal
           c == sessions[s].click
           target == IF c.action = "treat_as_new" THEN NULL
                     ELSE First(c.target, proposals[p].target_ledger_item_id)
           read == IF target = NULL THEN NULL ELSE items[target]
           row == [sessions[s] EXCEPT !.phase = "loaded", !.target = target, !.row = read]
           loaded == [sessions EXCEPT ![s].phase = "loaded", ![s].target = target,
                                      ![s].row = read]
<1>1. /\ sessions[s] \in SessionRow /\ sessions[s].phase = "clicked"
      /\ p \in DOMAIN proposals
      /\ c \in Click /\ c.target \in DOMAIN items \cup {NULL}
  BY DEF ReviewInv, SessionsTyped, References, SessionRefs, Load
<1>2. target \in DOMAIN items \cup {NULL}
  BY <1>1 DEF First, ReviewInv, References, ProposalRefs
<1>3. /\ DOMAIN items \subseteq ItemId
      /\ \A i \in DOMAIN items : items[i] \in ItemRow
  BY DEF ReviewInv, LedgerInv, LedgerTypeOK, Typed
<1>4. \/ \E o \in Outcomes : sessions' = Answered(s, o)
      \/ sessions' = loaded
  <2>1. {"already", "stale", "inapplicable"} \subseteq Outcomes
    BY DEF Outcomes
  <2> QED
    BY <2>1 DEF Load
<1> HIDE DEF target
<1>5. read \in ItemRow \cup {NULL} /\ (target # NULL => read \in ItemRow)
  BY <1>2, <1>3
<1> HIDE DEF read
<1>6. CASE sessions' = loaded
  <2>1. row \in SessionRow
    BY <1>1, <1>2, <1>3, <1>5 DEF SessionRow
  <2>2. /\ row.phase = "loaded" /\ row.proposal = p /\ row.click = c
        /\ row.target = target /\ row.row = read
    BY <1>1 DEF SessionRow
  <2>3. sessions' = [sessions EXCEPT ![s] = row]
    BY <1>6 DEF ReviewInv, SessionsTyped
  <2> HIDE DEF row
  <2>4. SessionRefs(row)
    BY <1>1, <1>2, <1>5, <2>2 DEF SessionRefs
  <2> QED
    BY <2>1, <2>3, <2>4, SessionStep DEF Load
<1>7. CASE \E o \in Outcomes : sessions' = Answered(s, o)
  BY <1>7, AnsweredStep DEF Load
<1> QED
  BY <1>4, <1>6, <1>7

LEMMA CommitFailsInv ==
    ASSUME ReviewInv, NEW s \in Session, CommitFails(s)
    PROVE  ReviewInv'
<1>1. \E o \in {"busy", "invalid", "integrity", "illegal"} : sessions' = Answered(s, o)
  BY DEF CommitFails
<1> QED
  BY <1>1, AnsweredStep DEF CommitFails, Outcomes

-----------------------------------------------------------------------------
(* New proposals. *)

\* Whatever is classified, refers to items there are.
LEMMA ClassifiedTyped ==
    ASSUME ReviewInv, NEW k \in ObservationKinds, NEW row \in Classified(k)
    PROVE  /\ row \in ProposalRow
           /\ row.status = "pending"
           /\ row.target_ledger_item_id \in DOMAIN items \cup {NULL}
           /\ row.candidates \subseteq DOMAIN items
<1>1. DOMAIN items \subseteq ItemId
  BY DEF ReviewInv, LedgerInv, LedgerTypeOK, Typed
<1>2. /\ Candidates(k) \subseteq DOMAIN items
      /\ OpenCandidates(k) \subseteq DOMAIN items
      /\ Supersedable(k) \subseteq DOMAIN items
      /\ \A o \in Owner : Changeable(k, o) \subseteq DOMAIN items
  BY DEF Candidates, OpenCandidates, Supersedable, Changeable
<1>3. /\ EmptyPatch \in Patch
      /\ [EmptyPatch EXCEPT !.status = "completed"] \in Patch
      /\ [EmptyPatch EXCEPT !.status = "canceled"] \in Patch
      /\ \A o \in Owner : [EmptyPatch EXCEPT !.owner = o] \in Patch
      /\ k # "update" => CreatePatches(k) \subseteq Patch
  BY DEF EmptyPatch, Patch, Statuses, CreatePatches, ObservationKinds
<1>4. \E a \in MutationActions, i \in DOMAIN items \cup {NULL}, patch \in Patch :
          row = Proposed(k, a, i, patch)
  <2> DEFINE Shape(r) ==
          \E a \in MutationActions, i \in DOMAIN items \cup {NULL}, patch \in Patch :
              r = Proposed(k, a, i, patch)
             conflicts == {Proposed(k, "conflict", i, EmptyPatch) : i \in Candidates(k) \cup {NULL}}
             same == {Proposed(k, a, i, EmptyPatch) :
                         a \in {"no_op", "add_evidence"}, i \in Candidates(k)}
             completions == {Proposed(k, "complete", i, [EmptyPatch EXCEPT !.status = "completed"]) :
                                i \in OpenCandidates(k)}
             cancellations == {Proposed(k, "cancel", i, [EmptyPatch EXCEPT !.status = "canceled"]) :
                                i \in OpenCandidates(k)}
             updates == UNION {{Proposed(k, "update", i, [EmptyPatch EXCEPT !.owner = o]) :
                                   i \in Changeable(k, o)} : o \in Owner}
             creations == {Proposed(k, "create", NULL, patch) : patch \in CreatePatches(k)}
             supersessions == {Proposed(k, "supersede", i, patch) :
                                   i \in Supersedable(k), patch \in CreatePatches(k)}
  <2>1. {"conflict", "no_op", "add_evidence", "complete", "cancel", "update", "create",
         "supersede"} \subseteq MutationActions
    BY DEF MutationActions
  <2>2. \A r \in conflicts \cup same \cup completions \cup cancellations : Shape(r)
    BY <1>2, <1>3, <2>1
  <2>3. \A r \in updates : Shape(r)
    BY <1>2, <1>3, <2>1
  <2>4. k # "update" => \A r \in creations \cup supersessions : Shape(r)
    BY <1>2, <1>3, <2>1
  <2>5. \/ row \in conflicts \cup same \cup completions \cup cancellations
        \/ row \in updates
        \/ k # "update" /\ row \in creations \cup supersessions
    <3>1. Classified(k) = conflicts \cup same \cup completions \cup cancellations \cup updates
              \cup (IF k = "update" THEN {} ELSE creations \cup supersessions)
      BY DEF Classified
    <3> HIDE DEF conflicts, same, completions, cancellations, updates, creations, supersessions
    <3> QED
      BY <3>1
  <2> HIDE DEF conflicts, same, completions, cancellations, updates, creations, supersessions
  <2> QED
    BY <2>2, <2>3, <2>4, <2>5
<1> QED
  BY <1>1, <1>2, <1>4 DEF Proposed, ProposalRow, ProposalStatuses

LEMMA ProposeInv ==
    ASSUME ReviewInv, NEW p \in ProposalId, Propose(p)
    PROVE  ReviewInv'
<1>1. PICK k \in ObservedKinds :
          \E row \in Classified(k) : proposals' = Put(proposals, p, row)
  BY DEF Propose
<1>0. PICK row \in Classified(k) : proposals' = Put(proposals, p, row)
  BY <1>1
<1>2. /\ row \in ProposalRow
      /\ row.status = "pending"
      /\ row.target_ledger_item_id \in DOMAIN items \cup {NULL}
      /\ row.candidates \subseteq DOMAIN items
  BY <1>0, <1>1, ClassifiedTyped, ReviewAssumption
<1>3. /\ DOMAIN proposals' = DOMAIN proposals \cup {p}
      /\ proposals'[p] = row
      /\ \A q \in DOMAIN proposals : proposals'[q] = proposals[q]
      /\ proposals' \in [DOMAIN proposals' -> ProposalRow]
  BY <1>0, <1>2 DEF Put, Propose, ReviewInv, ProposalsTyped
<1>4. LedgerInv' /\ ReviewsTyped' /\ LinksTyped' /\ SessionsTyped'
  BY DEF Propose, ReviewInv, LedgerInv, LedgerTypeOK, ChainOK, ProjectionOK,
         ReviewsTyped, LinksTyped, SessionsTyped
<1>5. ProposalsTyped'
  BY <1>3 DEF ReviewInv, ProposalsTyped
<1>6. References'
  BY <1>2, <1>3 DEF Propose, ReviewInv, References, ProposalRefs, SessionRefs
<1>7. DecisionRecorded'
  <2>1. p \notin DOMAIN reviews /\ reviews' = reviews
    BY DEF Propose, ReviewInv, DecisionRecorded
  <2> QED
    BY <1>2, <1>3, <2>1 DEF ReviewInv, DecisionRecorded
<1> QED
  BY <1>4, <1>5, <1>6, <1>7 DEF ReviewInv

-----------------------------------------------------------------------------
(* Decisions. *)

\* The part of a transaction that decides the proposal.
LEMMA DecideStep ==
    ASSUME ReviewInv, NEW s \in Session, sessions[s].phase = "loaded",
           NEW status \in ProposalStatuses \ {"pending"},
           NEW before \in Snapshot \cup {NULL}, NEW after \in Snapshot \cup {NULL},
           status = "rejected" <=> sessions[s].click.action = "reject",
           status = "edited_accepted" <=> sessions[s].click.action = "edit_accept",
           Decide(s, status, before, after), DOMAIN items \subseteq DOMAIN items'
    PROVE  ProposalsTyped' /\ ReviewsTyped' /\ SessionsTyped' /\ References' /\ DecisionRecorded'
<1>p. PICK p \in DOMAIN proposals : p = sessions[s].proposal
  BY DEF ReviewInv, References, SessionRefs
<1> DEFINE row == [action |-> sessions[s].click.action, before |-> before, after |-> after]
<1>1. p \in DOMAIN proposals /\ sessions[s].click \in Click
  BY DEF ReviewInv, References, SessionRefs
<1>2. row \in ReviewRow
  BY <1>1 DEF ReviewRow, Click
<1>3. reviews' = Put(reviews, p, row) /\ p \notin DOMAIN reviews
  BY <1>p DEF Decide
<1>4. proposals' = [proposals EXCEPT ![p].status = status]
  BY <1>p DEF Decide
<1>5. row.action = sessions[s].click.action
  OBVIOUS
<1> HIDE DEF row
<1>6. /\ DOMAIN reviews' = DOMAIN reviews \cup {p}
      /\ reviews'[p] = row
      /\ \A q \in DOMAIN reviews : reviews'[q] = reviews[q]
      /\ reviews' \in [DOMAIN reviews' -> ReviewRow]
  BY <1>2, <1>3 DEF Put, ReviewInv, ReviewsTyped
<1>7. /\ DOMAIN proposals' = DOMAIN proposals
      /\ proposals'[p] = [proposals[p] EXCEPT !.status = status]
      /\ \A q \in DOMAIN proposals \ {p} : proposals'[q] = proposals[q]
  BY <1>1, <1>4
<1>8. /\ proposals[p] \in ProposalRow
      /\ proposals' \in [DOMAIN proposals' -> ProposalRow]
      /\ proposals'[p].status = status
      /\ proposals'[p].target_ledger_item_id = proposals[p].target_ledger_item_id
      /\ proposals'[p].candidates = proposals[p].candidates
  <2>1. proposals[p] \in ProposalRow
    BY <1>1 DEF ReviewInv, ProposalsTyped
  <2>2. [proposals[p] EXCEPT !.status = status] \in ProposalRow
    BY <2>1 DEF ProposalRow
  <2> QED
    BY <1>1, <1>4, <1>7, <2>1, <2>2 DEF ReviewInv, ProposalsTyped, ProposalRow
<1>9. ProposalsTyped' /\ ReviewsTyped'
  BY <1>1, <1>6, <1>7, <1>8 DEF ReviewInv, ProposalsTyped, ReviewsTyped
<1>10. SessionsTyped' /\ \A t \in Session : SessionRefs(sessions'[t])
  <2>1. sessions' = [sessions EXCEPT ![s] = [IdleSession EXCEPT !.outcome = "applied"]]
    BY DEF Decide, Answered
  <2>2. "applied" \in Outcomes
    BY DEF Outcomes
  <2> QED
    BY <2>1, <2>2, IdleAfter DEF ReviewInv, SessionsTyped, References
<1>11. References'
  <2>1. \A t \in Session : SessionRefs(sessions[t])'
    BY <1>7, <1>10 DEF SessionRefs
  <2>2. \A q \in DOMAIN proposals' : ProposalRefs(q)'
    BY <1>7, <1>8 DEF ReviewInv, References, ProposalRefs
  <2> QED
    BY <2>1, <2>2 DEF References
<1>12. DecisionRecorded'
  <2> DEFINE Recorded(q) ==
          /\ q \in DOMAIN reviews <=> proposals[q].status # "pending"
          /\ q \in DOMAIN reviews =>
                /\ proposals[q].status = "rejected" <=> reviews[q].action = "reject"
                /\ proposals[q].status = "edited_accepted" <=> reviews[q].action = "edit_accept"
  <2>1. \A q \in DOMAIN proposals : Recorded(q)
    BY DEF ReviewInv, DecisionRecorded
  <2>2. Recorded(p)'
    BY <1>5, <1>6, <1>8
  <2>3. ASSUME NEW q \in DOMAIN proposals \ {p} PROVE Recorded(q)'
    <3>1. proposals'[q] = proposals[q]
      BY <1>7
    <3>2. (q \in DOMAIN reviews') = (q \in DOMAIN reviews)
      BY <1>6
    <3>3. q \in DOMAIN reviews => reviews'[q] = reviews[q]
      BY <1>6
    <3> QED
      BY <2>1, <3>1, <3>2, <3>3
  <2>4. DOMAIN reviews' \subseteq DOMAIN proposals'
    BY <1>1, <1>6, <1>7 DEF ReviewInv, DecisionRecorded
  <2> QED
    <3>1. \A q \in DOMAIN proposals' : Recorded(q)'
      BY <1>7, <2>2, <2>3
    <3> QED
      BY <2>4, <3>1 DEF DecisionRecorded
<1> QED
  BY <1>9, <1>10, <1>11, <1>12

LEMMA AcceptStep ==
    ASSUME ReviewInv, NEW s \in Session, Executing(s),
           NEW before \in Snapshot \cup {NULL}, NEW after \in Snapshot \cup {NULL},
           Accept(s, before, after), DOMAIN items \subseteq DOMAIN items'
    PROVE  ProposalsTyped' /\ ReviewsTyped' /\ SessionsTyped' /\ References' /\ DecisionRecorded'
<1>1. sessions[s].phase = "loaded" /\ sessions[s].click.action # "reject"
  BY DEF Executing
<1>2. {"accepted", "edited_accepted"} \subseteq ProposalStatuses \ {"pending"}
  BY DEF ProposalStatuses
<1> QED
  BY <1>1, <1>2, DecideStep DEF Accept

LEMMA CommitRejectInv ==
    ASSUME ReviewInv, NEW s \in Session, CommitReject(s)
    PROVE  ReviewInv'
<1>1. "rejected" \in ProposalStatuses \ {"pending"} /\ NULL \in Snapshot \cup {NULL}
  BY DEF ProposalStatuses
<1>2. ProposalsTyped' /\ ReviewsTyped' /\ SessionsTyped' /\ References' /\ DecisionRecorded'
  BY <1>1, DecideStep DEF CommitReject
<1>3. LedgerInv' /\ LinksTyped'
  BY DEF CommitReject, ReviewInv, LedgerInv, LedgerTypeOK, ChainOK, ProjectionOK, LinksTyped
<1> QED
  BY <1>2, <1>3 DEF ReviewInv

-----------------------------------------------------------------------------
(* The ledger's tables through a transaction. *)

Good(it, vs) == Typed(it, vs) /\ Chained(it, vs) /\ Projected(it, vs)

LEMMA CreatedGood ==
    ASSUME NEW it, NEW vs, Good(it, vs), NEW i \in ItemId \ DOMAIN it, NEW kind \in Kinds,
           NEW owner \in Owner \cup {NULL}, NEW review \in ProposalId \cup {NULL}
    PROVE  /\ Good(created_items(it, i, kind, owner), created_versions(vs, i, kind, owner, review))
           /\ DOMAIN created_items(it, i, kind, owner) = DOMAIN it \cup {i}
           /\ \A j \in DOMAIN it : created_items(it, i, kind, owner)[j] = it[j]
<1>1. /\ DOMAIN created_items(it, i, kind, owner) = DOMAIN it \cup {i}
      /\ \A j \in DOMAIN it : created_items(it, i, kind, owner)[j] = it[j]
  BY DEF created_items, Put
<1> QED
  BY <1>1, CreatedTyped, CreatedKeepsHistory DEF Good

LEMMA AppendedGood ==
    ASSUME NEW it, NEW vs, Good(it, vs), NEW i \in DOMAIN it, NEW type \in TransitionTypes,
           NEW status \in Statuses, NEW owner \in Owner \cup {NULL}, NEW corrected \in BOOLEAN,
           NEW review \in ProposalId \cup {NULL}
    PROVE  /\ Good(appended_items(it, vs, i, status, owner, corrected),
                   appended_versions(it, vs, i, type, status, owner, review))
           /\ DOMAIN appended_items(it, vs, i, status, owner, corrected) = DOMAIN it
<1>1. DOMAIN appended_items(it, vs, i, status, owner, corrected) = DOMAIN it
  BY DEF appended_items
<1> QED
  BY <1>1, AppendedTyped, AppendedKeepsHistory DEF Good

\* Tables that differ in nothing the chain or the projection looks at: a current
\* version may be given a successor, an item flags and links.
LEMMA SameOutlook ==
    ASSUME NEW it, NEW vs, Good(it, vs), NEW newi, NEW newv,
           newi \in [DOMAIN it -> ItemRow],
           \A i \in DOMAIN it : /\ newi[i].current_version_id = it[i].current_version_id
                                /\ newi[i].status = it[i].status
                                /\ newi[i].owner = it[i].owner,
           newv \in [DOMAIN vs -> VersionRow],
           \A v \in DOMAIN vs :
              /\ newv[v].open = vs[v].open
              /\ newv[v].status = vs[v].status
              /\ newv[v].owner = vs[v].owner
              /\ newv[v].from_version_id = vs[v].from_version_id
              /\ v # it[v[1]].current_version_id =>
                    newv[v].superseded_by_version_id = vs[v].superseded_by_version_id
    PROVE  Good(newi, newv)
<1>1. DOMAIN newi = DOMAIN it /\ DOMAIN newv = DOMAIN vs
  OBVIOUS
<1>2. Typed(newi, newv)
  BY <1>1 DEF Good, Typed
<1>3. \A i \in DOMAIN it : VersionsOf(newv, i) = VersionsOf(vs, i)
  BY <1>1 DEF VersionsOf
<1>4. \A i \in DOMAIN it : it[i].current_version_id \in DOMAIN vs
  BY DEF Good, Chained, VersionsOf
<1>5. Chained(newi, newv)
  <2>1. \A v \in DOMAIN newv : v[1] \in DOMAIN newi
    BY <1>1 DEF Good, Chained
  <2>2. ASSUME NEW i \in DOMAIN newi
        PROVE  /\ newi[i].current_version_id \in VersionsOf(newv, i)
               /\ newv[newi[i].current_version_id].open
               /\ \A v \in VersionsOf(newv, i) :
                     /\ v[2] <= newi[i].current_version_id[2]
                     /\ v # newi[i].current_version_id =>
                           /\ ~newv[v].open
                           /\ newv[v].superseded_by_version_id = <<i, v[2] + 1>>
                           /\ <<i, v[2] + 1>> \in DOMAIN newv
                           /\ newv[<<i, v[2] + 1>>].from_version_id = v
    <3>1. /\ it[i].current_version_id \in VersionsOf(vs, i)
          /\ vs[it[i].current_version_id].open
          /\ \A v \in VersionsOf(vs, i) :
                /\ v[2] <= it[i].current_version_id[2]
                /\ v # it[i].current_version_id =>
                      /\ ~vs[v].open
                      /\ vs[v].superseded_by_version_id = <<i, v[2] + 1>>
                      /\ <<i, v[2] + 1>> \in DOMAIN vs
                      /\ vs[<<i, v[2] + 1>>].from_version_id = v
      BY <1>1 DEF Good, Chained
    <3>2. \A v \in VersionsOf(vs, i) : v \in DOMAIN vs /\ v[1] = i
      BY DEF VersionsOf
    <3> QED
      BY <1>1, <1>3, <3>1, <3>2
  <2> QED
    BY <2>1, <2>2 DEF Chained
<1>6. Projected(newi, newv)
  BY <1>1, <1>4 DEF Good, Projected
<1> QED
  BY <1>2, <1>5, <1>6 DEF Good

LEMMA FlaggedGood ==
    ASSUME NEW it, NEW vs, Good(it, vs), NEW i \in DOMAIN it, NEW b \in BOOLEAN
    PROVE  /\ Good([it EXCEPT ![i].user_corrected = b], vs)
           /\ DOMAIN [it EXCEPT ![i].user_corrected = b] = DOMAIN it
<1> DEFINE row == [it[i] EXCEPT !.user_corrected = b]
           newi == [it EXCEPT ![i] = row]
<1>1. it \in [DOMAIN it -> ItemRow] /\ it[i] \in ItemRow
  BY DEF Good, Typed
<1>2. /\ row \in ItemRow
      /\ row.current_version_id = it[i].current_version_id
      /\ row.status = it[i].status
      /\ row.owner = it[i].owner
  BY <1>1 DEF ItemRow
<1>3. [it EXCEPT ![i].user_corrected = b] = newi
  BY <1>1
<1> HIDE DEF row
<1>4. /\ newi \in [DOMAIN it -> ItemRow]
      /\ \A j \in DOMAIN it : /\ newi[j].current_version_id = it[j].current_version_id
                              /\ newi[j].status = it[j].status
                              /\ newi[j].owner = it[j].owner
  BY <1>1, <1>2
<1>5. vs \in [DOMAIN vs -> VersionRow]
  BY DEF Good, Typed
<1> HIDE DEF newi
<1>6. Good(newi, vs)
  BY <1>4, <1>5, SameOutlook
<1> QED
  BY <1>3, <1>4, <1>6

LEMMA LinkedGood ==
    ASSUME NEW it, NEW vs, Good(it, vs), NEW old \in DOMAIN it, NEW new \in DOMAIN it, old # new
    PROVE  /\ Good(linked_items(it, old, new),
                   linked_versions(vs, it[old].current_version_id, <<new, 1>>))
           /\ DOMAIN linked_items(it, old, new) = DOMAIN it
<1> DEFINE oldrow == [it[old] EXCEPT !.superseded_by_item_id = new]
           newrow == [it[new] EXCEPT !.supersedes_item_id = old]
           newi == [it EXCEPT ![old] = oldrow, ![new] = newrow]
           final == it[old].current_version_id
           verrow == [vs[final] EXCEPT !.superseded_by_version_id = <<new, 1>>]
           newv == [vs EXCEPT ![final] = verrow]
<1>1. /\ it \in [DOMAIN it -> ItemRow] /\ it[old] \in ItemRow /\ it[new] \in ItemRow
      /\ old \in ItemId /\ new \in ItemId
      /\ vs \in [DOMAIN vs -> VersionRow]
  BY DEF Good, Typed
<1>2. final \in DOMAIN vs /\ final[1] = old /\ vs[final] \in VersionRow
  BY <1>1 DEF Good, Chained, VersionsOf
<1>3. /\ oldrow \in ItemRow
      /\ oldrow.current_version_id = it[old].current_version_id
      /\ oldrow.status = it[old].status
      /\ oldrow.owner = it[old].owner
  BY <1>1 DEF ItemRow
<1>4. /\ newrow \in ItemRow
      /\ newrow.current_version_id = it[new].current_version_id
      /\ newrow.status = it[new].status
      /\ newrow.owner = it[new].owner
  BY <1>1 DEF ItemRow
<1>5. <<new, 1>> \in VersionId
  BY <1>1 DEF VersionId
<1>6. /\ verrow \in VersionRow
      /\ verrow.open = vs[final].open
      /\ verrow.status = vs[final].status
      /\ verrow.owner = vs[final].owner
      /\ verrow.from_version_id = vs[final].from_version_id
  BY <1>2, <1>5 DEF VersionRow
<1>7. linked_items(it, old, new) = newi
  BY <1>1 DEF linked_items
<1>8. linked_versions(vs, final, <<new, 1>>) = newv
  BY <1>1, <1>2 DEF linked_versions
<1> HIDE DEF oldrow, newrow, verrow, final
<1>9. /\ newi \in [DOMAIN it -> ItemRow]
      /\ \A j \in DOMAIN it : /\ newi[j].current_version_id = it[j].current_version_id
                              /\ newi[j].status = it[j].status
                              /\ newi[j].owner = it[j].owner
  BY <1>1, <1>3, <1>4
<1>10. /\ newv \in [DOMAIN vs -> VersionRow]
       /\ \A v \in DOMAIN vs :
             /\ newv[v].open = vs[v].open
             /\ newv[v].status = vs[v].status
             /\ newv[v].owner = vs[v].owner
             /\ newv[v].from_version_id = vs[v].from_version_id
             /\ v # final => newv[v].superseded_by_version_id = vs[v].superseded_by_version_id
  BY <1>1, <1>2, <1>6
<1>11. \A v \in DOMAIN vs : v # it[v[1]].current_version_id => v # final
  BY <1>2 DEF final
<1> HIDE DEF newi, newv
<1>12. Good(newi, newv)
  BY <1>9, <1>10, <1>11, SameOutlook
<1> QED
  BY <1>7, <1>8, <1>9, <1>12 DEF final

-----------------------------------------------------------------------------
(* Accepting transactions. *)

\* What an executing session works with.
LEMMA ExecutingTyped ==
    ASSUME ReviewInv, NEW s \in Session, Executing(s),
           NEW p, p = sessions[s].proposal, NEW c, c = sessions[s].click
    PROVE  /\ p \in DOMAIN proposals /\ p \in ProposalId
           /\ proposals[p] \in ProposalRow
           /\ c \in Click
           /\ sessions[s].target \in DOMAIN items \cup {NULL}
           /\ sessions[s].target # NULL => sessions[s].row \in ItemRow
           /\ item_snapshot(sessions[s].row) \in Snapshot \cup {NULL}
           /\ resolve_owner(p, c) \in Owner \cup {NULL}
           /\ resolve_kind(p, c) \in Kinds \cup {NULL}
           /\ resolve_evidence_links(c) \subseteq EvidenceLink
<1>1. /\ p \in DOMAIN proposals /\ p \in ProposalId
      /\ proposals[p] \in ProposalRow
      /\ c \in Click
      /\ sessions[s].target \in DOMAIN items \cup {NULL}
      /\ sessions[s].target # NULL => sessions[s].row \in ItemRow
      /\ sessions[s] \in SessionRow
  BY DEF Executing, ReviewInv, References, SessionRefs, ProposalsTyped, SessionsTyped
<1>2. sessions[s].row \in ItemRow \cup {NULL}
  BY <1>1 DEF SessionRow
<1>3. item_snapshot(sessions[s].row) \in Snapshot \cup {NULL}
  BY <1>2 DEF item_snapshot, Snapshot, ItemRow
<1>4. /\ proposals[p].proposed_patch \in Patch
      /\ proposals[p].observation_kind \in ObservationKinds
  BY <1>1 DEF ProposalRow
<1>5. resolve_owner(p, c) \in Owner \cup {NULL}
  BY <1>1, <1>4 DEF resolve_owner, First, Click, Patch
<1>6. resolve_kind(p, c) \in Kinds \cup {NULL}
  BY <1>1, <1>4 DEF resolve_kind, First, Click, Patch, NATURAL_LEDGER_KIND
<1>7. resolve_evidence_links(c) \subseteq EvidenceLink
  BY <1>1 DEF resolve_evidence_links, Click
<1> QED
  BY <1>1, <1>3, <1>5, <1>6, <1>7

\* Corrections and evidence links of the review of p.
LEMMA LinksStep ==
    ASSUME ReviewInv, NEW p \in ProposalId, NEW c, resolve_evidence_links(c) \subseteq EvidenceLink,
           NEW i \in ItemId, NEW fields \in SUBSET {"kind", "owner", "status"},
           NEW targets \in SUBSET (ItemId \cup VersionId),
           corrections' = corrections \cup ({p} \X {i} \X fields),
           link_evidence(p, c, targets)
    PROVE  LinksTyped'
<1>1. {p} \X {i} \X fields \subseteq ProposalId \X ItemId \X {"kind", "owner", "status"}
  OBVIOUS
<1>2. {p} \X targets \X resolve_evidence_links(c)
          \subseteq ProposalId \X (ItemId \cup VersionId) \X EvidenceLink
  OBVIOUS
<1> QED
  BY <1>1, <1>2 DEF link_evidence, ReviewInv, LinksTyped

LEMMA CommitNoMutationInv ==
    ASSUME ReviewInv, NEW s \in Session, CommitNoMutation(s)
    PROVE  ReviewInv'
<1> DEFINE p == sessions[s].proposal
           c == sessions[s].click
           snapshot == item_snapshot(sessions[s].row)
<1>1. Executing(s) /\ Accept(s, snapshot, snapshot)
  BY DEF CommitNoMutation
<1>2. /\ p \in ProposalId
      /\ sessions[s].target \in DOMAIN items \cup {NULL}
      /\ snapshot \in Snapshot \cup {NULL}
      /\ resolve_evidence_links(c) \subseteq EvidenceLink
  BY <1>1, ExecutingTyped
<1>3. ProposalsTyped' /\ ReviewsTyped' /\ SessionsTyped' /\ References' /\ DecisionRecorded'
  BY <1>1, <1>2, AcceptStep DEF CommitNoMutation
<1>4. LedgerInv'
  BY DEF CommitNoMutation, ReviewInv, LedgerInv, LedgerTypeOK, ChainOK, ProjectionOK
<1>5. LinksTyped'
  <2>1. CASE effective_action(p, c) = "add_evidence"
    <3>1. sessions[s].target # NULL
      BY <1>1, <2>1 DEF CommitNoMutation, Executing, PlanOK
    <3>2. sessions[s].target \in ItemId
      BY <1>2, <3>1 DEF ReviewInv, LedgerInv, LedgerTypeOK, Typed
    <3>3. {p} \X {sessions[s].target} \X resolve_evidence_links(c)
              \subseteq ProposalId \X (ItemId \cup VersionId) \X EvidenceLink
      BY <1>2, <3>2
    <3>4. /\ corrections' = corrections
          /\ evidence_links' = evidence_links \cup
                ({p} \X {sessions[s].target} \X resolve_evidence_links(c))
      BY <2>1 DEF CommitNoMutation, link_evidence
    <3> QED
      BY <3>3, <3>4 DEF ReviewInv, LinksTyped
  <2>2. CASE effective_action(p, c) # "add_evidence"
    BY <2>2 DEF CommitNoMutation, ReviewInv, LinksTyped
  <2> QED
    BY <2>1, <2>2
<1> QED
  BY <1>3, <1>4, <1>5 DEF ReviewInv

\* An item of a kind begins with a snapshot.
LEMMA InitialSnapshot ==
    ASSUME NEW kind \in Kinds, NEW owner \in Owner \cup {NULL}
    PROVE  [kind |-> kind, status |-> INITIAL_STATUS_BY_KIND[kind], owner |-> owner] \in Snapshot
<1>1. INITIAL_STATUS_BY_KIND[kind] \in Statuses
  BY DEF INITIAL_STATUS_BY_KIND, Kinds, Statuses
<1> QED
  BY <1>1 DEF Snapshot

LEMMA CommitCreateInv ==
    ASSUME ReviewInv, NEW s \in Session, NEW i \in ItemId, CommitCreate(s, i)
    PROVE  ReviewInv'
<1> DEFINE p == sessions[s].proposal
           c == sessions[s].click
           kind == resolve_kind(p, c)
           owner == resolve_owner(p, c)
           result == [kind |-> kind, status |-> INITIAL_STATUS_BY_KIND[kind], owner |-> owner]
           corrected == Corrected(p, result, {"kind", "owner"})
           newi == created_items(items, i, kind, owner)
<1>1. /\ Executing(s) /\ i \notin DOMAIN items
      /\ resolve_transition_type(p, c, sessions[s].target) = "create" /\ ~NoMutation(p, c)
      /\ Accept(s, NULL, result)
      /\ items' = [newi EXCEPT ![i].user_corrected = corrected # {}]
      /\ versions' = created_versions(versions, i, kind, owner, p)
      /\ corrections' = corrections \cup ({p} \X {i} \X corrected)
      /\ link_evidence(p, c, {i, <<i, 1>>})
  BY DEF CommitCreate, Transition
<1>2. /\ p \in ProposalId
      /\ owner \in Owner \cup {NULL}
      /\ resolve_kind(p, c) \in Kinds \cup {NULL}
      /\ resolve_evidence_links(c) \subseteq EvidenceLink
  BY <1>1, ExecutingTyped
<1>3. kind \in Kinds
  BY <1>1, <1>2 DEF Executing, PlanOK
<1>4. result \in Snapshot
  BY <1>2, <1>3, InitialSnapshot
<1>5. corrected \subseteq {"kind", "owner", "status"}
  BY DEF Corrected
<1>6. (corrected # {}) \in BOOLEAN
  OBVIOUS
<1> HIDE DEF p, c, kind, owner, result, corrected
<1>7. Good(newi, versions') /\ DOMAIN newi = DOMAIN items \cup {i}
  BY <1>1, <1>2, <1>3, CreatedGood DEF ReviewInv, LedgerInv, LedgerTypeOK, ChainOK, ProjectionOK, Good
<1> HIDE DEF newi
<1>8. Good(items', versions') /\ DOMAIN items' = DOMAIN items \cup {i}
  BY <1>1, <1>6, <1>7, FlaggedGood
<1>9. LedgerInv'
  BY <1>8 DEF LedgerInv, LedgerTypeOK, ChainOK, ProjectionOK, Good
<1>10. ProposalsTyped' /\ ReviewsTyped' /\ SessionsTyped' /\ References' /\ DecisionRecorded'
  BY <1>1, <1>4, <1>8, AcceptStep
<1>11. LinksTyped'
  <2>1. {i, <<i, 1>>} \subseteq ItemId \cup VersionId
    BY DEF VersionId
  <2> QED
    BY <1>1, <1>2, <1>5, <2>1, LinksStep
<1> QED
  BY <1>9, <1>10, <1>11 DEF ReviewInv

LEMMA CommitSupersedeInv ==
    ASSUME ReviewInv, NEW s \in Session, NEW new \in ItemId, CommitSupersede(s, new)
    PROVE  ReviewInv'
<1> DEFINE p == sessions[s].proposal
           c == sessions[s].click
           old == sessions[s].target
           kind == resolve_kind(p, c)
           owner == resolve_owner(p, c)
           result == [kind |-> kind, status |-> INITIAL_STATUS_BY_KIND[kind], owner |-> owner]
           before == item_snapshot(sessions[s].row)
           fields == Corrected(p, result, {"kind", "owner"})
           items1 == appended_items(items, versions, old, "superseded", NULL, FALSE)
           versions1 == appended_versions(items, versions, old, "supersede", "superseded", NULL, p)
           items2 == created_items(items1, new, kind, owner)
           versions2 == created_versions(versions1, new, kind, owner, p)
           final == items1[old].current_version_id
<1>1. /\ Executing(s) /\ new \notin DOMAIN items
      /\ resolve_transition_type(p, c, sessions[s].target) = "supersede" /\ ~NoMutation(p, c)
      /\ Accept(s, before, result)
      /\ items' = linked_items(items2, old, new)
      /\ versions' = linked_versions(versions2, final, <<new, 1>>)
      /\ corrections' = corrections \cup ({p} \X {new} \X fields)
      /\ link_evidence(p, c, {new, <<new, 1>>, old, final})
  BY DEF CommitSupersede, Transition
<1>2. /\ p \in ProposalId
      /\ old \in DOMAIN items \cup {NULL}
      /\ owner \in Owner \cup {NULL}
      /\ resolve_kind(p, c) \in Kinds \cup {NULL}
      /\ before \in Snapshot \cup {NULL}
      /\ resolve_evidence_links(c) \subseteq EvidenceLink
  BY <1>1, ExecutingTyped
<1>3. kind \in Kinds /\ old \in DOMAIN items
  BY <1>1, <1>2 DEF Executing, PlanOK
<1>4. result \in Snapshot
  BY <1>2, <1>3, InitialSnapshot
<1>5. fields \subseteq {"kind", "owner", "status"}
  BY DEF Corrected
<1>6. Good(items, versions)
  BY DEF ReviewInv, LedgerInv, LedgerTypeOK, ChainOK, ProjectionOK, Good
<1> HIDE DEF p, c, old, kind, owner, result, before, fields
<1>7. Good(items1, versions1) /\ DOMAIN items1 = DOMAIN items
  <2>1. "superseded" \in Statuses /\ "supersede" \in TransitionTypes
    BY DEF Statuses, TransitionTypes
  <2>2. NULL \in Owner \cup {NULL}
    OBVIOUS
  <2>3. old \in DOMAIN items /\ p \in ProposalId \cup {NULL}
    BY <1>2, <1>3
  <2>4. /\ Good(appended_items(items, versions, old, "superseded", NULL, FALSE),
                appended_versions(items, versions, old, "supersede", "superseded", NULL, p))
        /\ DOMAIN appended_items(items, versions, old, "superseded", NULL, FALSE) = DOMAIN items
    <3> DEFINE flag == FALSE
               change == "supersede"
               status == "superseded"
    <3>1. flag \in BOOLEAN /\ change \in TransitionTypes /\ status \in Statuses
      BY <2>1
    <3> HIDE DEF items1, versions1, flag, change, status
    <3>2. /\ Good(appended_items(items, versions, old, status, NULL, flag),
                  appended_versions(items, versions, old, change, status, NULL, p))
          /\ DOMAIN appended_items(items, versions, old, status, NULL, flag) = DOMAIN items
      BY <1>6, <2>2, <2>3, <3>1, AppendedGood
    <3> QED
      BY <3>2 DEF flag, change, status
  <2> QED
    BY <2>4
<1> HIDE DEF items1, versions1
<1>8. /\ Good(items2, versions2)
      /\ DOMAIN items2 = DOMAIN items \cup {new}
      /\ items2[old] = items1[old]
  BY <1>1, <1>2, <1>3, <1>7, CreatedGood
<1> HIDE DEF items2, versions2
<1>9. Good(items', versions') /\ DOMAIN items' = DOMAIN items \cup {new}
  BY <1>1, <1>3, <1>8, LinkedGood
<1>10. LedgerInv'
  BY <1>9 DEF LedgerInv, LedgerTypeOK, ChainOK, ProjectionOK, Good
<1>11. ProposalsTyped' /\ ReviewsTyped' /\ SessionsTyped' /\ References' /\ DecisionRecorded'
  BY <1>1, <1>2, <1>4, <1>9, AcceptStep
<1>12. LinksTyped'
  <2>1. final \in VersionId
    BY <1>3, <1>7 DEF Good, Typed, ItemRow
  <2>2. old \in ItemId /\ <<new, 1>> \in VersionId
    BY <1>3, <1>6 DEF Good, Typed, VersionId
  <2>3. {new, <<new, 1>>, old, final} \subseteq ItemId \cup VersionId
    BY <2>1, <2>2
  <2> HIDE DEF final
  <2> QED
    BY <1>1, <1>2, <1>5, <2>3, LinksStep
<1> QED
  BY <1>10, <1>11, <1>12 DEF ReviewInv

LEMMA CommitChangeInv ==
    ASSUME ReviewInv, NEW s \in Session, CommitChange(s)
    PROVE  ReviewInv'
<1> DEFINE p == sessions[s].proposal
           c == sessions[s].click
           i == sessions[s].target
           row == sessions[s].row
           type == resolve_transition_type(p, c, i)
           status == resolve_status(p, c, row)
           owner == resolve_owner(p, c)
           result == [kind |-> row.kind, status |-> status, owner |-> First(owner, row.owner)]
           before == item_snapshot(row)
           corrected == Corrected(p, result, {"owner", "status"})
           flag == corrected # {}
           v == <<i, next_version_no(versions, i)>>
<1>1. /\ Executing(s) /\ ~NoMutation(p, c)
      /\ type \in {"update", "complete", "cancel", "resolve"}
      /\ Accept(s, before, result)
      /\ items' = appended_items(items, versions, i, status, owner, flag)
      /\ versions' = appended_versions(items, versions, i, type, status, owner, p)
      /\ corrections' = corrections \cup ({p} \X {i} \X corrected)
      /\ link_evidence(p, c, {i, v})
  BY DEF CommitChange, Transition
<1>2. /\ p \in ProposalId
      /\ c \in Click
      /\ i \in DOMAIN items \cup {NULL}
      /\ i # NULL => row \in ItemRow
      /\ owner \in Owner \cup {NULL}
      /\ before \in Snapshot \cup {NULL}
      /\ resolve_evidence_links(c) \subseteq EvidenceLink
  BY <1>1, ExecutingTyped
<1>3. i \in DOMAIN items /\ row \in ItemRow
  <2>1. i # NULL
    BY <1>1, <1>2 DEF Executing, PlanOK
  <2> QED
    BY <1>2, <2>1
<1>4. status \in Statuses
  BY <1>2, <1>3 DEF resolve_status, Click, ItemRow, FIXED_TARGET_STATUS, Statuses
<1>5. result \in Snapshot
  BY <1>2, <1>3, <1>4 DEF Snapshot, First, ItemRow
<1>6. corrected \subseteq {"kind", "owner", "status"} /\ flag \in BOOLEAN
  BY DEF Corrected
<1>7. type \in TransitionTypes
  BY <1>1 DEF TransitionTypes
<1>8. Good(items, versions)
  BY DEF ReviewInv, LedgerInv, LedgerTypeOK, ChainOK, ProjectionOK, Good
<1>9. v \in VersionId /\ i \in ItemId
  BY <1>3, <1>8, NextVersionIsNew DEF Good, Typed
<1> HIDE DEF p, c, i, row, type, status, owner, result, before, corrected, flag
<1>10. Good(items', versions') /\ DOMAIN items' = DOMAIN items
  BY <1>1, <1>2, <1>3, <1>4, <1>6, <1>7, <1>8, AppendedGood
<1>11. LedgerInv'
  BY <1>10 DEF LedgerInv, LedgerTypeOK, ChainOK, ProjectionOK, Good
<1>12. ProposalsTyped' /\ ReviewsTyped' /\ SessionsTyped' /\ References' /\ DecisionRecorded'
  BY <1>1, <1>2, <1>5, <1>10, AcceptStep
<1>13. LinksTyped'
  <2>1. {i, v} \subseteq ItemId \cup VersionId
    BY <1>9
  <2> HIDE DEF v
  <2> QED
    BY <1>1, <1>2, <1>6, <1>9, <2>1, LinksStep
<1> QED
  BY <1>11, <1>12, <1>13 DEF ReviewInv

-----------------------------------------------------------------------------
(* The theorems. *)

LEMMA ReviewNextInv == ReviewInv /\ [Next]_vars => ReviewInv'
<1> SUFFICES ASSUME ReviewInv, [Next]_vars PROVE ReviewInv'
  OBVIOUS
<1>1. ASSUME NEW p \in ProposalId, Propose(p) PROVE ReviewInv'
  BY <1>1, ProposeInv
<1>2. ASSUME NEW s \in Session, NEW p \in ProposalId, RenderCard(s, p) PROVE ReviewInv'
  BY <1>2, RenderCardInv
<1>3. ASSUME NEW s \in Session, Press(s) PROVE ReviewInv'
  BY <1>3, PressInv
<1>4. ASSUME NEW s \in Session, Load(s) PROVE ReviewInv'
  BY <1>4, LoadInv
<1>5. ASSUME NEW s \in Session, Commit(s) PROVE ReviewInv'
  BY <1>5, CommitRejectInv, CommitNoMutationInv, CommitCreateInv, CommitSupersedeInv,
     CommitChangeInv, CommitFailsInv DEF Commit
<1>6. CASE UNCHANGED vars
  BY <1>6 DEF vars, ReviewInv, LedgerInv, LedgerTypeOK, ChainOK, ProjectionOK, ProposalsTyped,
              ReviewsTyped, LinksTyped, SessionsTyped, References, ProposalRefs, SessionRefs,
              DecisionRecorded
<1> QED
  BY <1>1, <1>2, <1>3, <1>4, <1>5, <1>6 DEF Next

\* However many sessions interleave, and whatever they read before others commit, the
\* rows stay well typed, every item's history stays one chain and the projection its end.
THEOREM ReviewCorrect == Spec => [](TypeOK /\ ChainOK /\ ProjectionOK)
<1>1. ReviewInv => TypeOK /\ ChainOK /\ ProjectionOK
  BY DEF ReviewInv, LedgerInv, TypeOK, ProposalsTyped, ReviewsTyped, LinksTyped, SessionsTyped
<1> QED
  BY ReviewInitInv, ReviewNextInv, <1>1, PTL DEF Spec

\* A proposal is decided exactly when its one review exists, and as the review says.
THEOREM ReviewDecides == Spec => []DecisionRecorded
<1>1. ReviewInv => DecisionRecorded
  BY DEF ReviewInv
<1> QED
  BY ReviewInitInv, ReviewNextInv, <1>1, PTL DEF Spec
=============================================================================
