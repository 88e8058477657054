------------------------------- MODULE Review -------------------------------
(***************************************************************************)
(* Human review: the only path by which a proposal changes the ledger      *)
(* (services/review.py), driven by browser sessions that each run the      *)
(* Activity page (ui/pages/activity.py) on their own database connection.  *)
(*                                                                         *)
(* A session's button press is four steps, because the database is read    *)
(* and written in four places: the card it displays, the card the rerun    *)
(* rebuilds, the reads _apply makes before its transaction, and the        *)
(* transaction.  Other sessions may commit between any two of them.        *)
(*                                                                         *)
(*   proposals       proposed_mutations                                    *)
(*   reviews         reviews, by the proposal decided                      *)
(*   corrections     corrections, as <<review, item, field>>               *)
(*   evidence_links  evidence_links written by reviews, as <<review,       *)
(*                   item or version linked to, link of the observation>>  *)
(*   sessions        what each session is doing and has read               *)
(*                                                                         *)
(* One project; every observation has the links in EvidenceLink.  There    *)
(* are at least as many ids of items as of proposals: a review creates at  *)
(* most one item.  An operator commented "faulty" is not part of the model *)
(* of the code: it is a bug some property must catch.                      *)
(***************************************************************************)
EXTENDS Ledger, MatchRules

CONSTANTS
    Session,        \* open browser sessions
    EvidenceLink,   \* the evidence links of each observation
    ObservedKinds,  \* kinds of the observations reconciled
    KindsInPlay,    \* kinds chosen in the edit form
    EditStatuses,   \* "Resulting status" chosen in the edit form
    Selections,     \* evidence selected in the edit form
    Offered         \* review actions the sessions use

ReviewActions == {"accept", "edit_accept", "reject", "mark_complete",
                  "mark_superseded", "treat_as_new"}

ASSUME ReviewAssumption ==
    /\ ObservedKinds \subseteq ObservationKinds
    /\ KindsInPlay \subseteq Kinds
    /\ EditStatuses \subseteq Statuses \cup {NULL}
    /\ EvidenceLink # {}
    /\ Selections \subseteq SUBSET EvidenceLink
    /\ Offered \subseteq ReviewActions

VARIABLES proposals, reviews, corrections, evidence_links, sessions

reviewVars == <<proposals, reviews, corrections, evidence_links>>
vars == <<items, versions, proposals, reviews, corrections, evidence_links, sessions>>

ProposalStatuses == {"pending", "accepted", "edited_accepted", "rejected"}

MutationActions == {"create", "no_op", "add_evidence", "update", "complete",
                    "cancel", "supersede", "conflict"}

Patch == [kind: Kinds \cup {NULL}, owner: Owner \cup {NULL}, status: Statuses \cup {NULL}]

ProposalRow ==
    [observation_kind: ObservationKinds, action: MutationActions,
     target_ledger_item_id: ItemId \cup {NULL}, proposed_patch: Patch,
     candidates: SUBSET ItemId,        \* candidate_features.candidates
     status: ProposalStatuses]

\* A button press and the form values submitted with it (ProposalEdit).
Click ==
    [action: ReviewActions, status: Statuses \cup {NULL},
     target: ItemId \cup {NULL}, kind: Kinds \cup {NULL},
     owner: Owner \cup {NULL}, selection: SUBSET EvidenceLink]

Outcomes == {"applied", "already", "stale", "inapplicable", "invalid", "illegal",
             "integrity", "busy"}

SessionRow ==
    [phase: {"idle", "card", "clicked", "loaded"},
     proposal: ProposalId \cup {NULL},
     seen: VersionId \cup {NULL},       \* target's version on the displayed card
     click: Click \cup {NULL},
     expected: VersionId \cup {NULL},   \* expected_target_version_id
     target: ItemId \cup {NULL},        \* _apply's target_item: id and row as read
     row: ItemRow \cup {NULL},
     outcome: Outcomes \cup {NULL}]     \* of the session's last button press

Snapshot == [kind: Kinds, status: Statuses, owner: Owner \cup {NULL}]

ReviewRow ==
    [action: ReviewActions, before: Snapshot \cup {NULL}, after: Snapshot \cup {NULL}]

IdleSession ==
    [phase |-> "idle", proposal |-> NULL, seen |-> NULL, click |-> NULL,
     expected |-> NULL, target |-> NULL, row |-> NULL, outcome |-> NULL]

Init ==
    /\ LedgerInit
    /\ proposals = <<>>
    /\ reviews = <<>>
    /\ corrections = {}
    /\ evidence_links = {}
    /\ sessions = [s \in Session |-> IdleSession]

-----------------------------------------------------------------------------
(* Reconciliation, as far as review sees it: the proposals classify_action *)
(* can return for the ledger as it is.                                     *)

EmptyPatch == [kind |-> NULL, owner |-> NULL, status |-> NULL]

CreatePatches(k) == [kind: {k}, owner: Owner \cup {NULL}, status: {NULL}]

Candidates(k) == {i \in DOMAIN items : items[i].kind \in compatible_kinds(k)}

OpenCandidates(k) == {i \in Candidates(k) : items[i].status \in NON_TERMINAL_STATUSES}

Supersedable(k) ==
    {i \in OpenCandidates(k) : items[i].kind # k \/ items[i].kind \in SUPERSEDABLE_KINDS}

\* A changed owner or date is one that differs from a value the item has.
Changeable(k, owner) == {i \in OpenCandidates(k) : items[i].owner \notin {NULL, owner}}

Proposed(k, action, target, patch) ==
    [observation_kind |-> k, action |-> action, target_ledger_item_id |-> target,
     proposed_patch |-> patch, candidates |-> Candidates(k), status |-> "pending"]

Classified(k) ==
    {Proposed(k, "conflict", i, EmptyPatch) : i \in Candidates(k) \cup {NULL}}
    \cup {Proposed(k, a, i, EmptyPatch) : a \in {"no_op", "add_evidence"}, i \in Candidates(k)}
    \cup {Proposed(k, "complete", i, [EmptyPatch EXCEPT !.status = "completed"]) :
              i \in OpenCandidates(k)}
    \cup {Proposed(k, "cancel", i, [EmptyPatch EXCEPT !.status = "canceled"]) :
              i \in OpenCandidates(k)}
    \cup (UNION {{Proposed(k, "update", i, [EmptyPatch EXCEPT !.owner = o]) :
                     i \in Changeable(k, o)} : o \in Owner})
    \cup IF k = "update" THEN {}
         ELSE {Proposed(k, "create", NULL, patch) : patch \in CreatePatches(k)}
              \cup {Proposed(k, "supersede", i, patch) :
                        i \in Supersedable(k), patch \in CreatePatches(k)}

Propose(p) ==
    /\ p \notin DOMAIN proposals
    /\ \E k \in ObservedKinds :
          \E row \in Classified(k) : proposals' = Put(proposals, p, row)
    /\ UNCHANGED <<items, versions, reviews, corrections, evidence_links, sessions>>

-----------------------------------------------------------------------------
(* The review card. *)

IsPending(p) == p \in DOMAIN proposals /\ proposals[p].status = "pending"

\* Faulty: the id of the item where its version is meant.
TargetItself(p) == proposals[p].target_ledger_item_id

\* current_version_id of the proposal's own target, as build_review_card reads it.
TargetVersion(p) ==
    LET t == proposals[p].target_ledger_item_id
    IN  IF t = NULL THEN NULL ELSE items[t].current_version_id

\* A run of the page shows the card of a pending proposal.
RenderCard(s, p) ==
    /\ sessions[s].phase \in {"idle", "card"}
    /\ IsPending(p)
    /\ sessions' = [sessions EXCEPT ![s] =
          [IdleSession EXCEPT !.phase = "card", !.proposal = p, !.seen = TargetVersion(p)]]
    /\ UNCHANGED <<items, versions, reviewVars>>

ButtonClick(action, status) ==
    [action |-> action, status |-> status, target |-> NULL, kind |-> NULL,
     owner |-> NULL, selection |-> EvidenceLink]

\* The four quick actions.  mark_superseded has no button; it is offered as the
\* service takes it.
Buttons(p) ==
    {ButtonClick("reject", NULL), ButtonClick("treat_as_new", NULL),
     ButtonClick("mark_superseded", "superseded")}
    \cup {c \in {ButtonClick("accept", NULL)} : proposals[p].action # "conflict"}
    \cup {c \in {ButtonClick("mark_complete", "completed")} :
              proposals[p].target_ledger_item_id # NULL}

\* What the "Edit & accept" form can submit.
Submissions(p) ==
    [action: {"edit_accept"}, status: EditStatuses, kind: KindsInPlay,
     owner: Owner \cup {NULL}, selection: Selections,
     target: {NULL} \cup (proposals[p].candidates \ {proposals[p].target_ledger_item_id})]

\* Pressing a button reruns the page from the top: the queue is read again, and
\* the handler runs only if the card is still in it, with the version the new
\* card found.
Press(s) ==
    LET p == sessions[s].proposal IN
    /\ sessions[s].phase = "card"
    /\ IF IsPending(p)
       THEN \E c \in {b \in Buttons(p) \cup Submissions(p) : b.action \in Offered} :
               sessions' = [sessions EXCEPT ![s].phase = "clicked", ![s].click = c,
                                            ![s].expected = TargetVersion(p)]
       ELSE sessions' = [sessions EXCEPT ![s] = IdleSession]
    /\ UNCHANGED <<items, versions, reviewVars>>

-----------------------------------------------------------------------------
(* What a click means for the proposal it was made on. *)

First(a, b) == IF a # NULL THEN a ELSE b

effective_action(p, c) == IF c.action = "treat_as_new" THEN "create" ELSE proposals[p].action

NoMutation(p, c) == c.status = NULL /\ effective_action(p, c) \in {"no_op", "add_evidence"}

\* _STATUS_TO_TRANSITION, the inverse of the ledger's fixed target statuses.
TransitionTo(status) == CHOOSE t \in DOMAIN FIXED_TARGET_STATUS : FIXED_TARGET_STATUS[t] = status

resolve_transition_type(p, c, target) ==
    IF c.status = NULL THEN effective_action(p, c)
    ELSE IF c.status \in TERMINAL_STATUSES THEN TransitionTo(c.status)
    ELSE IF target # NULL THEN "update" ELSE "create"

resolve_kind(p, c) ==
    LET k == proposals[p].observation_kind
        natural == IF k \in DOMAIN NATURAL_LEDGER_KIND THEN NATURAL_LEDGER_KIND[k] ELSE NULL
    IN  First(c.kind, First(proposals[p].proposed_patch.kind, natural))

resolve_owner(p, c) == First(c.owner, proposals[p].proposed_patch.owner)

\* The form submits an empty selection as None, which stands for all links.
resolve_evidence_links(c) == IF c.selection = {} THEN EvidenceLink ELSE c.selection

\* The status an update, complete, cancel or resolve leaves, from the row as read.
resolve_status(p, c, row) ==
    LET type == resolve_transition_type(p, c, row)
    IN  IF c.status # NULL THEN c.status
        ELSE IF type \in DOMAIN FIXED_TARGET_STATUS THEN FIXED_TARGET_STATUS[type]
        ELSE row.status

item_snapshot(row) ==
    IF row = NULL THEN NULL
    ELSE [kind |-> row.kind, status |-> row.status, owner |-> row.owner]

\* The patch fields the reviewer changed: proposed at all, and not what resulted.
Corrected(p, result, fields) ==
    {f \in fields : proposals[p].proposed_patch[f] \notin {NULL, result[f]}}

-----------------------------------------------------------------------------
(* The handler: _apply and reject_proposal. *)

Answered(s, outcome) == [sessions EXCEPT ![s] = [IdleSession EXCEPT !.outcome = outcome]]

\* _apply before its transaction: the proposal, the target row, the checks on them.
Load(s) ==
    LET p == sessions[s].proposal
        c == sessions[s].click
        target == IF c.action = "treat_as_new" THEN NULL
                  ELSE First(c.target, proposals[p].target_ledger_item_id)
        row == IF target = NULL THEN NULL ELSE items[target]
        live == IF target = NULL THEN NULL ELSE row.current_version_id
        loaded == [sessions EXCEPT ![s].phase = "loaded", ![s].target = target, ![s].row = row]
    IN
    /\ sessions[s].phase = "clicked"
    /\ sessions' =
          IF ~IsPending(p) THEN Answered(s, "already")
          ELSE IF c.action = "reject" THEN loaded
          ELSE IF c.action # "treat_as_new" /\ live # sessions[s].expected
               THEN Answered(s, "stale")
          ELSE IF c.status = NULL /\ effective_action(p, c) = "conflict"
               THEN Answered(s, "inapplicable")
          ELSE loaded
    /\ UNCHANGED <<items, versions, reviewVars>>

\* _plan_transition and _execute_no_mutation raise for a plan with no target or no kind.
PlanOK(p, c, target) ==
    LET type == resolve_transition_type(p, c, target) IN
    IF NoMutation(p, c) THEN effective_action(p, c) = "add_evidence" => target # NULL
    ELSE /\ type # "create" => target # NULL
         /\ type \in {"create", "supersede"} => resolve_kind(p, c) # NULL

\* Faulty: the proposal's status is not set.
DecideUnmarked(s, status, before, after) ==
    LET p == sessions[s].proposal IN
    /\ p \notin DOMAIN reviews
    /\ reviews' = Put(reviews, p, [action |-> sessions[s].click.action,
                                   before |-> before, after |-> after])
    /\ sessions' = Answered(s, "applied")
    /\ UNCHANGED proposals

\* Faulty: without uq_reviews_proposal.
DecideAgain(s, status, before, after) ==
    LET p == sessions[s].proposal IN
    /\ reviews' = Put(reviews, p, [action |-> sessions[s].click.action,
                                   before |-> before, after |-> after])
    /\ proposals' = [proposals EXCEPT ![p].status = status]
    /\ sessions' = Answered(s, "applied")

\* insert_review and set_status, in the transaction of everything else; nothing
\* in it reads the proposal again.
Decide(s, status, before, after) ==
    LET p == sessions[s].proposal IN
    /\ p \notin DOMAIN reviews
    /\ reviews' = Put(reviews, p, [action |-> sessions[s].click.action,
                                   before |-> before, after |-> after])
    /\ proposals' = [proposals EXCEPT ![p].status = status]
    /\ sessions' = Answered(s, "applied")

CommitReject(s) ==
    /\ sessions[s].phase = "loaded"
    /\ sessions[s].click.action = "reject"
    /\ Decide(s, "rejected", NULL, NULL)
    /\ UNCHANGED <<items, versions, corrections, evidence_links>>

\* The transaction of _apply is open and past the planning.
Executing(s) ==
    /\ sessions[s].phase = "loaded"
    /\ sessions[s].click.action # "reject"
    /\ PlanOK(sessions[s].proposal, sessions[s].click, sessions[s].target)

Accept(s, before, after) ==
    Decide(s, IF sessions[s].click.action = "edit_accept" THEN "edited_accepted" ELSE "accepted",
           before, after)

\* Faulty: no link to the version.
link_evidence_to_items(p, c, targets) ==
    evidence_links' =
        evidence_links \cup ({p} \X (targets \cap ItemId) \X resolve_evidence_links(c))

link_evidence(p, c, targets) ==
    evidence_links' = evidence_links \cup ({p} \X targets \X resolve_evidence_links(c))

CommitNoMutation(s) ==
    LET p == sessions[s].proposal
        c == sessions[s].click
        snapshot == item_snapshot(sessions[s].row)
    IN
    /\ Executing(s)
    /\ NoMutation(p, c)
    /\ Accept(s, snapshot, snapshot)
    /\ IF effective_action(p, c) = "add_evidence"
       THEN link_evidence(p, c, {sessions[s].target})
       ELSE UNCHANGED evidence_links
    /\ UNCHANGED <<items, versions, corrections>>

\* A ledger transition of the given type is what the transaction performs.
Transition(s, type) ==
    LET p == sessions[s].proposal
        c == sessions[s].click
    IN
    /\ Executing(s)
    /\ ~NoMutation(p, c)
    /\ resolve_transition_type(p, c, sessions[s].target) = type

\* create_ledger_item, then user_corrected if a proposed field was changed.
CommitCreate(s, i) ==
    LET p == sessions[s].proposal
        c == sessions[s].click
        kind == resolve_kind(p, c)
        owner == resolve_owner(p, c)
        result == [kind |-> kind, status |-> INITIAL_STATUS_BY_KIND[kind], owner |-> owner]
        corrected == Corrected(p, result, {"kind", "owner"})
    IN
    /\ Transition(s, "create")
    /\ i \notin DOMAIN items
    /\ Accept(s, NULL, result)
    /\ items' = [created_items(items, i, kind, owner)
                    EXCEPT ![i].user_corrected = corrected # {}]
    /\ versions' = created_versions(versions, i, kind, owner, p)
    /\ corrections' = corrections \cup ({p} \X {i} \X corrected)
    /\ link_evidence(p, c, {i, <<i, 1>>})

\* The target gets its final version, the new item its first, and the four
\* pointers between them are set.
CommitSupersede(s, new) ==
    LET p == sessions[s].proposal
        c == sessions[s].click
        old == sessions[s].target
        kind == resolve_kind(p, c)
        owner == resolve_owner(p, c)
        result == [kind |-> kind, status |-> INITIAL_STATUS_BY_KIND[kind], owner |-> owner]
        appended == appended_items(items, versions, old, "superseded", NULL, FALSE)
        final == appended[old].current_version_id
    IN
    /\ Transition(s, "supersede")
    /\ new \notin DOMAIN items
    /\ validate_transition(items[old].kind, items[old].status, "superseded", "supersede")
    /\ Accept(s, item_snapshot(sessions[s].row), result)
    /\ items' = linked_items(created_items(appended, new, kind, owner), old, new)
    /\ versions' = linked_versions(
          created_versions(
              appended_versions(items, versions, old, "supersede", "superseded", NULL, p),
              new, kind, owner, p),
          final, <<new, 1>>)
    /\ corrections' = corrections \cup ({p} \X {new} \X Corrected(p, result, {"kind", "owner"}))
    /\ link_evidence(p, c, {new, <<new, 1>>, old, final})

\* update, complete, cancel and resolve: status and snapshots come from the row
\* as read, the carried-forward owner from the row as it is.
CommitChange(s) ==
    LET p == sessions[s].proposal
        c == sessions[s].click
        i == sessions[s].target
        row == sessions[s].row
        type == resolve_transition_type(p, c, i)
        status == resolve_status(p, c, row)
        owner == resolve_owner(p, c)
        result == [kind |-> row.kind, status |-> status, owner |-> First(owner, row.owner)]
        corrected == Corrected(p, result, {"owner", "status"})
    IN
    /\ \E t \in {"update", "complete", "cancel", "resolve"} : Transition(s, t)
    /\ validate_transition(items[i].kind, items[i].status, status, type)
    /\ Accept(s, item_snapshot(row), result)
    /\ items' = appended_items(items, versions, i, status, owner, corrected # {})
    /\ versions' = appended_versions(items, versions, i, type, status, owner, p)
    /\ corrections' = corrections \cup ({p} \X {i} \X corrected)
    /\ link_evidence(p, c, {i, <<i, next_version_no(versions, i)>>})

\* The transition the ledger refuses: validate_transition on the row as it is.
Illegal(s) ==
    LET p == sessions[s].proposal
        c == sessions[s].click
        i == sessions[s].target
        type == resolve_transition_type(p, c, i)
        status == IF type = "supersede" THEN "superseded"
                  ELSE resolve_status(p, c, sessions[s].row)
    IN  /\ ~NoMutation(p, c)
        /\ type # "create"
        /\ ~validate_transition(items[i].kind, items[i].status, status, type)

\* Faulty: the corrections written before the ledger refused the change stay.
CommitFailsHalfway(s) ==
    LET p == sessions[s].proposal
        c == sessions[s].click
    IN
    /\ sessions[s].phase = "loaded" /\ c.action # "reject"
    /\ PlanOK(p, c, sessions[s].target) /\ p \notin DOMAIN reviews /\ Illegal(s)
    /\ sessions' = Answered(s, "illegal")
    /\ corrections' = corrections \cup {<<p, sessions[s].target, "status">>}
    /\ UNCHANGED <<items, versions, proposals, reviews, evidence_links>>

\* Faulty: a submission that lost the race for the proposal waits for ever.
CommitFailsWaiting(s) ==
    LET p == sessions[s].proposal
        c == sessions[s].click
    IN
    /\ sessions[s].phase = "loaded" /\ p \notin DOMAIN reviews /\ c.action # "reject"
    /\ \/ ~PlanOK(p, c, sessions[s].target) /\ sessions' = Answered(s, "invalid")
       \/ PlanOK(p, c, sessions[s].target) /\ Illegal(s) /\ sessions' = Answered(s, "illegal")
    /\ UNCHANGED <<items, versions, reviewVars>>

\* An exception in the transaction rolls all of it back.  "busy": another
\* connection of the application held SQLite's write lock past the timeout.
CommitFails(s) ==
    LET p == sessions[s].proposal
        c == sessions[s].click
        planned == c.action = "reject" \/ PlanOK(p, c, sessions[s].target)
    IN
    /\ sessions[s].phase = "loaded"
    /\ \/ sessions' = Answered(s, "busy")
       \/ ~planned /\ sessions' = Answered(s, "invalid")
       \/ planned /\ p \in DOMAIN reviews /\ sessions' = Answered(s, "integrity")
       \/ /\ planned /\ p \notin DOMAIN reviews /\ c.action # "reject"
          /\ Illegal(s)
          /\ sessions' = Answered(s, "illegal")
    /\ UNCHANGED <<items, versions, reviewVars>>

Commit(s) ==
    \/ CommitReject(s)
    \/ CommitNoMutation(s)
    \/ \E i \in ItemId : CommitCreate(s, i) \/ CommitSupersede(s, i)
    \/ CommitChange(s)
    \/ CommitFails(s)

Next ==
    \/ \E p \in ProposalId : Propose(p)
    \/ \E s \in Session :
          \/ \E p \in ProposalId : RenderCard(s, p)
          \/ Press(s)
          \/ Load(s)
          \/ Commit(s)

Spec == Init /\ [][Next]_vars

\* Once the script of a rerun has started a handler, nothing but its own steps is
\* needed for it to finish; the reviewer need never press anything.
FairSpec == Spec /\ \A s \in Session : WF_vars(Load(s)) /\ WF_vars(Commit(s))

-----------------------------------------------------------------------------
(* Properties. *)

\* The rows have the columns' types.
TypeOK ==
    /\ LedgerTypeOK
    /\ DOMAIN proposals \subseteq ProposalId
    /\ \A p \in DOMAIN proposals : proposals[p] \in ProposalRow
    /\ DOMAIN reviews \subseteq ProposalId
    /\ \A p \in DOMAIN reviews : reviews[p] \in ReviewRow
    /\ corrections \subseteq ProposalId \X ItemId \X {"kind", "owner", "status"}
    /\ evidence_links \subseteq ProposalId \X (ItemId \cup VersionId) \X EvidenceLink
    /\ sessions \in [Session -> SessionRow]

\* A proposal and its review are written together: it is decided exactly when a
\* review of it exists, and as that review says.
DecisionRecorded ==
    /\ DOMAIN reviews \subseteq DOMAIN proposals
    /\ \A p \in DOMAIN proposals :
          /\ p \in DOMAIN reviews <=> proposals[p].status # "pending"
          /\ p \in DOMAIN reviews =>
                /\ proposals[p].status = "rejected" <=> reviews[p].action = "reject"
                /\ proposals[p].status = "edited_accepted" <=> reviews[p].action = "edit_accept"

\* However often and from however many tabs it is submitted, a decision is
\* applied once: two versions by one review are a superseded item's last and its
\* successor's first.
AppliedOnce ==
    \A v, w \in DOMAIN versions :
        v # w /\ versions[v].review_id = versions[w].review_id =>
            \E x \in {v, w} :
                LET y == CHOOSE y \in {v, w} : y # x IN
                /\ versions[x].transition_type = "supersede"
                /\ items[x[1]].current_version_id = x
                /\ items[x[1]].superseded_by_item_id = y[1]
                /\ y[2] = 1

\* Nothing reaches the ledger but through an accepting review, and never without
\* evidence cited for the item and for the version.
EveryVersionReviewed ==
    \A v \in DOMAIN versions :
        LET r == versions[v].review_id IN
        /\ r \in DOMAIN reviews
        /\ reviews[r].action # "reject"
        /\ \E l \in EvidenceLink : {<<r, v, l>>, <<r, v[1], l>>} \subseteq evidence_links

\* A rejected or failed review leaves no correction and no evidence behind, and neither
\* does one that wrote no version, unless it was of a proposal to add evidence, which
\* leaves evidence and no correction: an accepted no_op leaves nothing.
\* (services/review.py:_execute_no_mutation and the rollback of _apply.)
NothingFromRejected ==
    \A p \in DOMAIN proposals :
        LET refused == proposals[p].status \in {"pending", "rejected"}
            kept == \A v \in DOMAIN versions : versions[v].review_id # p
        IN
        /\ refused \/ kept => \A c \in corrections : c[1] # p
        /\ refused \/ (kept /\ proposals[p].action # "add_evidence") =>
              \A l \in evidence_links : l[1] # p

\* A superseded item and its successor name each other, item and version, and
\* only superseded items have a successor.
SupersessionPaired ==
    \A i \in DOMAIN items :
        LET succ == items[i].superseded_by_item_id
            pred == items[i].supersedes_item_id
        IN
        /\ items[i].status = "superseded" <=> succ # NULL
        /\ succ # NULL =>
              /\ succ \in DOMAIN items \ {i}
              /\ items[succ].supersedes_item_id = i
              /\ versions[items[i].current_version_id].superseded_by_version_id = <<succ, 1>>
        /\ pred # NULL => pred \in DOMAIN items /\ items[pred].superseded_by_item_id = i

\* user_corrected says that a reviewer changed a proposed field of the item, in a
\* review other than the one that made it a successor.
CorrectionFlagHonest ==
    \A i \in DOMAIN items :
        items[i].user_corrected =
            (\E c \in corrections :
                /\ c[2] = i
                /\ items[i].supersedes_item_id # NULL => c[1] # versions[<<i, 1>>].review_id)

\* Of the eight transitions review reaches six: no sequence of reviews leaves a
\* terminal status.
TerminalStaysTerminal ==
    [][\A i \in DOMAIN items :
          items[i].status \in TERMINAL_STATUSES => items'[i].status = items[i].status]_vars

\* The snapshots of a review show the item before and after its change.
SnapshotsHonest ==
    \A v \in DOMAIN versions :
        LET row == versions[v]
            review == reviews[row.review_id]
        IN
        /\ row.transition_type # "supersede" =>
              review.after.status = row.status /\ review.after.owner = row.owner
        /\ row.from_version_id # NULL =>
              /\ review.before.status = versions[row.from_version_id].status
              /\ review.before.owner = versions[row.from_version_id].owner

\* Every press of a button is answered.
EveryPressAnswered ==
    \A s \in Session : sessions[s].phase \in {"clicked", "loaded"} ~> sessions[s].phase = "idle"

\* The abstract promise: proposals and ledger rows without the tables around them.
Promise == INSTANCE ReviewPromise WITH
    decision <- [p \in ProposalId |->
                    IF p \notin DOMAIN proposals THEN "none"
                    ELSE CASE proposals[p].status = "pending"  -> "pending"
                           [] proposals[p].status = "rejected" -> "rejected"
                           [] OTHER                            -> "accepted"],
    ledger <- [i \in ItemId |->
                  IF i \in DOMAIN items
                  THEN [kind |-> items[i].kind, status |-> items[i].status]
                  ELSE [kind |-> Absent, status |-> Absent]]

\* Every run of the sessions, however they interleave, keeps the promise.
KeepsPromise == Promise!PromiseSpec

-----------------------------------------------------------------------------
(* What the documentation says and the code does not do.  Each is the      *)
(* property of a run in which TLC finds it violated.                       *)

\* services/review.py: a correction is recorded "with ledger_items.user_corrected
\* set".  The successor a supersession creates is left out.
CorrectionsFlagged == \A c \in corrections : items[c[2]].user_corrected

\* StaleReviewError: a card "rendered against state that has since changed" is
\* refused.  One that is let through shows its target as it now is.
StaleCardRefused ==
    [][\A s \in Session :
          sessions[s].phase = "clicked" /\ sessions'[s].phase = "loaded" =>
              \/ sessions[s].click.action \in {"reject", "treat_as_new"}
              \/ TargetVersion(sessions[s].proposal) = sessions[s].seen]_vars

\* The same exception says "the target ledger item changed since it was loaded": it
\* is not raised when nothing did.  With a single session nothing can have.
StaleOnlyIfChanged ==
    [][\A s \in Session :
          sessions[s].phase = "clicked" /\ sessions'[s].outcome = "stale" =>
              TargetVersion(sessions[s].proposal) # sessions[s].seen]_vars
=============================================================================
