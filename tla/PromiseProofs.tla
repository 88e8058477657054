---------------------------- MODULE PromiseProofs ----------------------------
(***************************************************************************)
(* What review leaves behind, for any number of sessions, proposals and    *)
(* items: every version comes of an accepting review and its evidence, a   *)
(* review is applied once, supersession pairs items, terminal statuses are *)
(* final, and review implements ReviewPromise.                             *)
(*                                                                         *)
(* The proofs look at a transaction by its effect: the rows it adds, the   *)
(* rows it leaves alone, and what of a row it changes.  Each property then *)
(* follows from the effects of the transactions and from the others: a     *)
(* version is new to its review because every version's review is stored,  *)
(* and a superseded item stays as it is because terminal statuses do.      *)
(***************************************************************************)
EXTENDS ReviewProofs

-----------------------------------------------------------------------------
(* Effects of a transaction. *)

\* The review of p is the only one added, and says a; p is decided as status.
Decides(p, a, status) ==
    /\ p \in DOMAIN proposals /\ p \in ProposalId
    /\ proposals[p].status = "pending"
    /\ p \notin DOMAIN reviews
    /\ DOMAIN reviews' = DOMAIN reviews \cup {p}
    /\ reviews'[p].action = a
    /\ \A q \in DOMAIN reviews : reviews'[q] = reviews[q]
    /\ DOMAIN proposals' = DOMAIN proposals
    /\ proposals'[p].status = status
    /\ proposals'[p].action = proposals[p].action
    /\ \A q \in DOMAIN proposals \ {p} : proposals'[q] = proposals[q]

\* The versions in new are added by the review of p; what the others recorded stays.
Grows(p, new) ==
    /\ DOMAIN versions' = DOMAIN versions \cup new
    /\ \A v \in new : v \notin DOMAIN versions /\ versions'[v].review_id = p
    /\ \A v \in DOMAIN versions :
          /\ versions'[v].review_id = versions[v].review_id
          /\ versions'[v].transition_type = versions[v].transition_type

\* The review of p cites something for each target.
Cites(p, targets) ==
    \E L \in SUBSET EvidenceLink :
        L # {} /\ evidence_links' = evidence_links \cup ({p} \X targets \X L)

\* Fields of item i are what the review of p corrects.
Corrects(p, i, fields) == corrections' = corrections \cup ({p} \X {i} \X fields)

LEMMA DecideEffect ==
    ASSUME ReviewInv, NEW s \in Session, sessions[s].phase = "loaded",
           NEW status, NEW before, NEW after, Decide(s, status, before, after)
    PROVE  Decides(sessions[s].proposal, sessions[s].click.action, status)
<1> DEFINE p == sessions[s].proposal
           row == [action |-> sessions[s].click.action, before |-> before, after |-> after]
<1>1. /\ p \in DOMAIN proposals /\ p \in ProposalId
      /\ proposals[p] \in ProposalRow
  BY DEF ReviewInv, References, SessionRefs, ProposalsTyped
<1>2. /\ p \notin DOMAIN reviews
      /\ reviews' = Put(reviews, p, row)
      /\ proposals' = [proposals EXCEPT ![p].status = status]
  BY DEF Decide
<1>3. proposals[p].status = "pending"
  BY <1>1, <1>2 DEF ReviewInv, DecisionRecorded
<1>4. row.action = sessions[s].click.action
  OBVIOUS
<1> HIDE DEF row
<1>5. /\ DOMAIN reviews' = DOMAIN reviews \cup {p}
      /\ reviews'[p] = row
      /\ \A q \in DOMAIN reviews : reviews'[q] = reviews[q]
  BY <1>2 DEF Put
<1>6. proposals'[p].status = status /\ proposals'[p].action = proposals[p].action
  BY <1>1, <1>2 DEF ProposalRow
<1> HIDE DEF p
<1>7. /\ DOMAIN proposals' = DOMAIN proposals
      /\ \A q \in DOMAIN proposals \ {p} : proposals'[q] = proposals[q]
  BY <1>1, <1>2
<1> QED
  BY <1>1, <1>2, <1>3, <1>4, <1>5, <1>6, <1>7 DEF Decides, p

LEMMA AcceptEffect ==
    ASSUME ReviewInv, NEW s \in Session, Executing(s), NEW before, NEW after,
           Accept(s, before, after)
    PROVE  \E status \in {"accepted", "edited_accepted"} :
              Decides(sessions[s].proposal, sessions[s].click.action, status)
  BY DecideEffect DEF Accept, Executing

LEMMA CitesEffect ==
    ASSUME NEW c \in Click, NEW p, NEW targets, link_evidence(p, c, targets)
    PROVE  Cites(p, targets)
<1>1. resolve_evidence_links(c) \in SUBSET EvidenceLink /\ resolve_evidence_links(c) # {}
  BY ReviewAssumption DEF resolve_evidence_links, Click
<1> QED
  BY <1>1 DEF link_evidence, Cites

CreateDone(p, i) ==
    /\ i \notin DOMAIN items
    /\ DOMAIN items' = DOMAIN items \cup {i}
    /\ \A j \in DOMAIN items : items'[j] = items[j]
    /\ items'[i].kind \in Kinds
    /\ items'[i].status = INITIAL_STATUS_BY_KIND[items'[i].kind]
    /\ items'[i].current_version_id = <<i, 1>>
    /\ items'[i].superseded_by_item_id = NULL
    /\ items'[i].supersedes_item_id = NULL
    /\ Grows(p, {<<i, 1>>})
    /\ \A v \in DOMAIN versions : versions'[v] = versions[v]
    /\ Cites(p, {i, <<i, 1>>})
    /\ \E fields : Corrects(p, i, fields) /\ items'[i].user_corrected = (fields # {})

LEMMA CreateEffect ==
    ASSUME ReviewInv, NEW s \in Session, NEW i \in ItemId, CommitCreate(s, i)
    PROVE  CreateDone(sessions[s].proposal, i)
<1> DEFINE p == sessions[s].proposal
           c == sessions[s].click
           kind == resolve_kind(p, c)
           owner == resolve_owner(p, c)
           result == [kind |-> kind, status |-> INITIAL_STATUS_BY_KIND[kind], owner |-> owner]
           corrected == Corrected(p, result, {"kind", "owner"})
           newi == created_items(items, i, kind, owner)
<1>1. /\ Executing(s) /\ i \notin DOMAIN items
      /\ resolve_transition_type(p, c, sessions[s].target) = "create" /\ ~NoMutation(p, c)
      /\ items' = [newi EXCEPT ![i].user_corrected = corrected # {}]
      /\ versions' = created_versions(versions, i, kind, owner, p)
      /\ corrections' = corrections \cup ({p} \X {i} \X corrected)
      /\ link_evidence(p, c, {i, <<i, 1>>})
  BY DEF CommitCreate, Transition
<1>2. c \in Click /\ kind \in Kinds \cup {NULL}
  BY <1>1, ExecutingTyped
<1>3. kind \in Kinds
  BY <1>1, <1>2 DEF Executing, PlanOK
<1> HIDE DEF p, c, kind, owner, result, corrected
<1>4. Corrects(p, i, corrected) /\ Cites(p, {i, <<i, 1>>})
  BY <1>1, <1>2, CitesEffect DEF Corrects
<1>5. <<i, 1>> \notin DOMAIN versions
  BY <1>1 DEF ReviewInv, LedgerInv, ChainOK, Chained
<1>6. /\ Grows(p, {<<i, 1>>})
      /\ \A v \in DOMAIN versions : versions'[v] = versions[v]
  BY <1>1, <1>5 DEF created_versions, insert_version, Put, Grows
<1>7. /\ DOMAIN newi = DOMAIN items \cup {i}
      /\ \A j \in DOMAIN items : newi[j] = items[j]
      /\ newi[i] = [kind |-> kind, status |-> INITIAL_STATUS_BY_KIND[kind],
                    owner |-> owner, current_version_id |-> <<i, 1>>,
                    user_corrected |-> FALSE,
                    superseded_by_item_id |-> NULL, supersedes_item_id |-> NULL]
  BY <1>1 DEF created_items, Put
<1> DEFINE flag == corrected # {}
<1>8. items' = [newi EXCEPT ![i].user_corrected = flag]
  BY <1>1
<1> HIDE DEF newi, flag
<1>9. /\ DOMAIN items' = DOMAIN items \cup {i}
      /\ \A j \in DOMAIN items : items'[j] = items[j]
      /\ items'[i] = [newi[i] EXCEPT !.user_corrected = flag]
  BY <1>1, <1>7, <1>8
<1>10. /\ items'[i].kind = kind
       /\ items'[i].status = INITIAL_STATUS_BY_KIND[kind]
       /\ items'[i].current_version_id = <<i, 1>>
       /\ items'[i].superseded_by_item_id = NULL
       /\ items'[i].supersedes_item_id = NULL
       /\ items'[i].user_corrected = flag
  BY <1>7, <1>9
<1>11. items'[i].user_corrected = (corrected # {})
  BY <1>10, Zenon DEF flag
<1>12. \E fields : Corrects(p, i, fields) /\ items'[i].user_corrected = (fields # {})
  BY <1>4, <1>11, Zenon
<1> QED
  BY <1>1, <1>3, <1>4, <1>6, <1>9, <1>10, <1>12 DEF CreateDone, p

\* Item i moves on by one version.
ChangeDone(p, i, type, status) ==
    /\ i \in DOMAIN items
    /\ type \in {"update", "complete", "cancel", "resolve"}
    /\ status \in Statuses
    /\ validate_transition(items[i].kind, items[i].status, status, type)
    /\ DOMAIN items' = DOMAIN items
    /\ \A j \in DOMAIN items \ {i} : items'[j] = items[j]
    /\ items'[i].kind = items[i].kind
    /\ items'[i].status = status
    /\ items'[i].superseded_by_item_id = items[i].superseded_by_item_id
    /\ items'[i].supersedes_item_id = items[i].supersedes_item_id
    /\ \E v \in VersionId : /\ v[1] = i /\ v[2] # 1
                            /\ Grows(p, {v})
                            /\ Cites(p, {i, v})
    /\ \A v \in DOMAIN versions : v[1] # i => versions'[v] = versions[v]
    /\ \E fields :
          /\ Corrects(p, i, fields)
          /\ items'[i].user_corrected = (items[i].user_corrected \/ fields # {})

\* Tables newi and newv are it and vs with one version v more of item i; the other
\* rows are left as they were.
OneVersionMore(it, vs, newi, newv, i, v, type, status, corrected, review) ==
    /\ v \in VersionId \ DOMAIN vs /\ v[1] = i /\ v[2] # 1
    /\ DOMAIN newi = DOMAIN it
    /\ \A j \in DOMAIN it \ {i} : newi[j] = it[j]
    /\ newi[i].kind = it[i].kind
    /\ newi[i].status = status
    /\ newi[i].current_version_id = v
    /\ newi[i].superseded_by_item_id = it[i].superseded_by_item_id
    /\ newi[i].supersedes_item_id = it[i].supersedes_item_id
    /\ newi[i].user_corrected = (it[i].user_corrected \/ corrected)
    /\ DOMAIN newv = DOMAIN vs \cup {v}
    /\ newv[v].review_id = review
    /\ newv[v].transition_type = type
    /\ \A w \in DOMAIN vs :
          /\ newv[w].review_id = vs[w].review_id
          /\ newv[w].transition_type = vs[w].transition_type
          /\ w[1] # i => newv[w] = vs[w]

LEMMA AppendRest ==
    ASSUME NEW it, NEW vs, Good(it, vs), NEW i \in DOMAIN it, NEW type \in TransitionTypes,
           NEW status \in Statuses, NEW owner \in Owner \cup {NULL}, NEW corrected \in BOOLEAN,
           NEW review \in ProposalId \cup {NULL}
    PROVE  OneVersionMore(it, vs, appended_items(it, vs, i, status, owner, corrected),
                          appended_versions(it, vs, i, type, status, owner, review),
                          i, <<i, next_version_no(vs, i)>>, type, status, corrected, review)
<1> DEFINE v == <<i, next_version_no(vs, i)>>
           newi == appended_items(it, vs, i, status, owner, corrected)
           newv == appended_versions(it, vs, i, type, status, owner, review)
           flag == it[i].user_corrected \/ corrected
           row == [it[i] EXCEPT !.status = status, !.owner = carried(it, i, owner),
                                !.current_version_id = v, !.user_corrected = flag]
<1>1. it \in [DOMAIN it -> ItemRow] /\ it[i] \in ItemRow /\ vs \in [DOMAIN vs -> VersionRow]
  BY DEF Good, Typed
<1>2. v \in VersionId /\ v \notin DOMAIN vs
  BY NextVersionIsNew DEF Good
<1>3. v[1] = i /\ v[2] # 1
  BY NextVersionNo DEF Good
<1>4. it[i].current_version_id \in DOMAIN vs /\ it[i].current_version_id[1] = i
  BY DEF Good, Chained, VersionsOf
<1>5. newi = [it EXCEPT ![i] = row]
  BY <1>1 DEF appended_items
<1> HIDE DEF v, newi
<1>6. /\ row.kind = it[i].kind
      /\ row.status = status
      /\ row.current_version_id = v
      /\ row.superseded_by_item_id = it[i].superseded_by_item_id
      /\ row.supersedes_item_id = it[i].supersedes_item_id
      /\ row.user_corrected = flag
  <2> HIDE DEF flag
  <2> QED
    BY <1>1 DEF ItemRow
<1> HIDE DEF row
<1>7. /\ DOMAIN newi = DOMAIN it
      /\ newi[i] = row
      /\ \A j \in DOMAIN it \ {i} : newi[j] = it[j]
  BY <1>5
<1>8. Continued(vs, newv, it[i].current_version_id, v,
                NewVersion(it, i, type, status, owner, review))
  BY <1>2, <1>4, AppendedVersions DEF Good, v
<1>9. /\ NewVersion(it, i, type, status, owner, review).review_id = review
      /\ NewVersion(it, i, type, status, owner, review).transition_type = type
  BY DEF NewVersion
<1> HIDE DEF newv
<1>10. /\ DOMAIN newv = DOMAIN vs \cup {v}
       /\ newv[v].review_id = review
       /\ newv[v].transition_type = type
       /\ \A w \in DOMAIN vs :
             /\ newv[w].review_id = vs[w].review_id
             /\ newv[w].transition_type = vs[w].transition_type
             /\ w[1] # i => newv[w] = vs[w]
  <2>1. /\ DOMAIN newv = DOMAIN vs \cup {v}
        /\ newv[v].review_id = review
        /\ newv[v].transition_type = type
    BY <1>8, <1>9 DEF Continued
  <2>2. ASSUME NEW w \in DOMAIN vs
        PROVE  /\ newv[w].review_id = vs[w].review_id
               /\ newv[w].transition_type = vs[w].transition_type
               /\ w[1] # i => newv[w] = vs[w]
    <3>1. CASE w = it[i].current_version_id
      <4>1. newv[w] = [vs[w] EXCEPT !.open = FALSE, !.superseded_by_version_id = v]
        BY <1>8, <3>1 DEF Continued
      <4>2. vs[w] \in VersionRow
        BY <1>1
      <4>3. /\ newv[w].review_id = vs[w].review_id
            /\ newv[w].transition_type = vs[w].transition_type
        BY <4>1, <4>2 DEF VersionRow
      <4>4. w[1] = i
        BY <1>4, <3>1
      <4> QED
        BY <4>3, <4>4
    <3>2. CASE w # it[i].current_version_id
      BY <1>2, <1>8, <3>2 DEF Continued
    <3> QED
      BY <3>1, <3>2
  <2> QED
    BY <2>1, <2>2
<1>11. newi[i].user_corrected = (it[i].user_corrected \/ corrected)
  BY <1>6, <1>7, Zenon DEF flag
<1>12. /\ newi[i].kind = it[i].kind
       /\ newi[i].status = status
       /\ newi[i].current_version_id = v
       /\ newi[i].superseded_by_item_id = it[i].superseded_by_item_id
       /\ newi[i].supersedes_item_id = it[i].supersedes_item_id
  BY <1>6, <1>7
<1>13. OneVersionMore(it, vs, newi, newv, i, v, type, status, corrected, review)
  BY <1>2, <1>3, <1>7, <1>10, <1>11, <1>12, Zenon DEF OneVersionMore
<1> QED
  BY <1>13 DEF v, newi, newv

LEMMA ChangeEffect ==
    ASSUME ReviewInv, NEW s \in Session, CommitChange(s)
    PROVE  \E type, status : ChangeDone(sessions[s].proposal, sessions[s].target, type, status)
<1> DEFINE p == sessions[s].proposal
           c == sessions[s].click
           i == sessions[s].target
           row == sessions[s].row
           type == resolve_transition_type(p, c, i)
           status == resolve_status(p, c, row)
           owner == resolve_owner(p, c)
           result == [kind |-> row.kind, status |-> status, owner |-> First(owner, row.owner)]
           corrected == Corrected(p, result, {"owner", "status"})
           flag == corrected # {}
           v == <<i, next_version_no(versions, i)>>
<1>1. /\ Executing(s) /\ ~NoMutation(p, c)
      /\ type \in {"update", "complete", "cancel", "resolve"}
      /\ validate_transition(items[i].kind, items[i].status, status, type)
      /\ items' = appended_items(items, versions, i, status, owner, flag)
      /\ versions' = appended_versions(items, versions, i, type, status, owner, p)
      /\ corrections' = corrections \cup ({p} \X {i} \X corrected)
      /\ link_evidence(p, c, {i, v})
  BY DEF CommitChange, Transition
<1>2. /\ p \in ProposalId
      /\ c \in Click
      /\ i \in DOMAIN items \cup {NULL}
      /\ i # NULL => row \in ItemRow
      /\ owner \in Owner \cup {NULL}
  BY <1>1, ExecutingTyped
<1>3. i \in DOMAIN items /\ row \in ItemRow
  <2>1. i # NULL
    BY <1>1, <1>2 DEF Executing, PlanOK
  <2> QED
    BY <1>2, <2>1
<1>4. status \in Statuses
  BY <1>2, <1>3 DEF resolve_status, Click, ItemRow, FIXED_TARGET_STATUS, Statuses
<1>5. type \in TransitionTypes
  BY <1>1 DEF TransitionTypes
<1>6. Good(items, versions)
  BY DEF ReviewInv, LedgerInv, LedgerTypeOK, ChainOK, ProjectionOK, Good
<1>7. flag \in BOOLEAN
  OBVIOUS
<1> HIDE DEF p, c, i, row, type, status, owner, result, corrected
<1>8. Corrects(p, i, corrected) /\ Cites(p, {i, v})
  BY <1>1, <1>2, CitesEffect DEF Corrects
<1> HIDE DEF flag
<1>9. OneVersionMore(items, versions, items', versions', i, v, type, status, flag, p)
  <2>1. p \in ProposalId \cup {NULL}
    BY <1>2
  <2>2. OneVersionMore(items, versions, appended_items(items, versions, i, status, owner, flag),
                       appended_versions(items, versions, i, type, status, owner, p),
                       i, <<i, next_version_no(versions, i)>>, type, status, flag, p)
    BY <1>2, <1>3, <1>4, <1>5, <1>6, <1>7, <2>1, AppendRest
  <2> QED
    BY <1>1, <2>2 DEF v
<1> HIDE DEF v
<1>10. Grows(p, {v})
  BY <1>9 DEF Grows, OneVersionMore
<1>11. items'[i].user_corrected = (items[i].user_corrected \/ corrected # {})
  BY <1>9, Zenon DEF flag, OneVersionMore
<1>12. \E fields :
          /\ Corrects(p, i, fields)
          /\ items'[i].user_corrected = (items[i].user_corrected \/ fields # {})
  BY <1>8, <1>11, Zenon
<1>13. /\ DOMAIN items' = DOMAIN items
       /\ \A j \in DOMAIN items \ {i} : items'[j] = items[j]
       /\ items'[i].kind = items[i].kind
       /\ items'[i].status = status
       /\ items'[i].superseded_by_item_id = items[i].superseded_by_item_id
       /\ items'[i].supersedes_item_id = items[i].supersedes_item_id
       /\ \A w \in DOMAIN versions : w[1] # i => versions'[w] = versions[w]
  BY <1>9 DEF OneVersionMore
<1>14. \E w \in VersionId : w[1] = i /\ w[2] # 1 /\ Grows(p, {w}) /\ Cites(p, {i, w})
  BY <1>8, <1>9, <1>10 DEF OneVersionMore
<1>15. ChangeDone(p, i, type, status)
  BY <1>1, <1>3, <1>4, <1>12, <1>13, <1>14 DEF ChangeDone
<1> QED
  BY <1>15 DEF p, i

\* Item old ends, item new begins.
SupersedeDone(p, old, new) ==
    /\ old \in DOMAIN items /\ new \notin DOMAIN items
    /\ validate_transition(items[old].kind, items[old].status, "superseded", "supersede")
    /\ DOMAIN items' = DOMAIN items \cup {new}
    /\ \A j \in DOMAIN items \ {old} : items'[j] = items[j]
    /\ items'[old].kind = items[old].kind
    /\ items'[old].status = "superseded"
    /\ items'[old].superseded_by_item_id = new
    /\ items'[old].supersedes_item_id = items[old].supersedes_item_id
    /\ items'[old].user_corrected = items[old].user_corrected
    /\ items'[new].kind \in Kinds
    /\ items'[new].status = INITIAL_STATUS_BY_KIND[items'[new].kind]
    /\ items'[new].superseded_by_item_id = NULL
    /\ items'[new].supersedes_item_id = old
    /\ items'[new].user_corrected = FALSE
    /\ \E final \in VersionId :
          /\ final[1] = old /\ final[2] # 1
          /\ items'[old].current_version_id = final
          /\ versions'[final].transition_type = "supersede"
          /\ versions'[final].superseded_by_version_id = <<new, 1>>
          /\ Grows(p, {final, <<new, 1>>})
          /\ Cites(p, {new, <<new, 1>>, old, final})
    /\ \A v \in DOMAIN versions : v[1] # old => versions'[v] = versions[v]
    /\ \E fields : Corrects(p, new, fields)

LEMMA SupersedeEffect ==
    ASSUME ReviewInv, NEW s \in Session, NEW new \in ItemId, CommitSupersede(s, new)
    PROVE  SupersedeDone(sessions[s].proposal, sessions[s].target, new)
<1> DEFINE p == sessions[s].proposal
           c == sessions[s].click
           old == sessions[s].target
           kind == resolve_kind(p, c)
           owner == resolve_owner(p, c)
           result == [kind |-> kind, status |-> INITIAL_STATUS_BY_KIND[kind], owner |-> owner]
           fields == Corrected(p, result, {"kind", "owner"})
           items1 == appended_items(items, versions, old, "superseded", NULL, FALSE)
           versions1 == appended_versions(items, versions, old, "supersede", "superseded", NULL, p)
           items2 == created_items(items1, new, kind, owner)
           versions2 == created_versions(versions1, new, kind, owner, p)
           final == items1[old].current_version_id
           v == <<old, next_version_no(versions, old)>>
<1>1. /\ Executing(s) /\ new \notin DOMAIN items
      /\ resolve_transition_type(p, c, sessions[s].target) = "supersede" /\ ~NoMutation(p, c)
      /\ validate_transition(items[old].kind, items[old].status, "superseded", "supersede")
      /\ items' = linked_items(items2, old, new)
      /\ versions' = linked_versions(versions2, final, <<new, 1>>)
      /\ corrections' = corrections \cup ({p} \X {new} \X fields)
      /\ link_evidence(p, c, {new, <<new, 1>>, old, final})
  BY DEF CommitSupersede, Transition
<1>2. /\ p \in ProposalId
      /\ c \in Click
      /\ old \in DOMAIN items \cup {NULL}
      /\ owner \in Owner \cup {NULL}
      /\ kind \in Kinds \cup {NULL}
  BY <1>1, ExecutingTyped
<1>3. kind \in Kinds /\ old \in DOMAIN items
  BY <1>1, <1>2 DEF Executing, PlanOK
<1>4. Good(items, versions)
  BY DEF ReviewInv, LedgerInv, LedgerTypeOK, ChainOK, ProjectionOK, Good
<1>5. Corrects(p, new, fields) /\ Cites(p, {new, <<new, 1>>, old, final})
  BY <1>1, <1>2, CitesEffect DEF Corrects
<1> HIDE DEF p, c, old, kind, owner, result, fields
<1>6. /\ v \in VersionId \ DOMAIN versions /\ v[1] = old /\ v[2] # 1
      /\ DOMAIN items1 = DOMAIN items
      /\ \A j \in DOMAIN items \ {old} : items1[j] = items[j]
      /\ items1[old].kind = items[old].kind
      /\ items1[old].status = "superseded"
      /\ items1[old].current_version_id = v
      /\ items1[old].supersedes_item_id = items[old].supersedes_item_id
      /\ items1[old].user_corrected = (items[old].user_corrected \/ FALSE)
      /\ DOMAIN versions1 = DOMAIN versions \cup {v}
      /\ versions1[v].review_id = p
      /\ versions1[v].transition_type = "supersede"
      /\ \A w \in DOMAIN versions :
            /\ versions1[w].review_id = versions[w].review_id
            /\ versions1[w].transition_type = versions[w].transition_type
            /\ w[1] # old => versions1[w] = versions[w]
  <2> DEFINE flag == FALSE
             change == "supersede"
             status == "superseded"
  <2>1. flag \in BOOLEAN /\ change \in TransitionTypes /\ status \in Statuses
    BY DEF TransitionTypes, Statuses
  <2>2. NULL \in Owner \cup {NULL} /\ p \in ProposalId \cup {NULL}
    BY <1>2
  <2> HIDE DEF flag, change, status, items1, versions1, v
  <2>3. OneVersionMore(items, versions, items1, versions1, old, v, change, status, flag, p)
    <3>1. OneVersionMore(items, versions,
                         appended_items(items, versions, old, status, NULL, flag),
                         appended_versions(items, versions, old, change, status, NULL, p),
                         old, <<old, next_version_no(versions, old)>>, change, status, flag, p)
      BY <1>3, <1>4, <2>1, <2>2, AppendRest
    <3> QED
      BY <3>1 DEF v, items1, versions1, flag, change, status
  <2> QED
    BY <2>3, Zenon DEF OneVersionMore, flag, change, status
<1>7. /\ items1 \in [DOMAIN items -> ItemRow] /\ versions1 \in [DOMAIN versions1 -> VersionRow]
      /\ \A w \in DOMAIN versions1 : w[1] \in DOMAIN items1
  <2> DEFINE flag == FALSE
             change == "supersede"
             status == "superseded"
  <2>1. flag \in BOOLEAN /\ change \in TransitionTypes /\ status \in Statuses
    BY DEF TransitionTypes, Statuses
  <2>2. NULL \in Owner \cup {NULL} /\ p \in ProposalId \cup {NULL}
    BY <1>2
  <2> HIDE DEF flag, change, status, items1, versions1
  <2>3. Good(appended_items(items, versions, old, status, NULL, flag),
             appended_versions(items, versions, old, change, status, NULL, p))
    BY <1>3, <1>4, <2>1, <2>2, AppendedGood
  <2>4. Good(items1, versions1)
    BY <2>3 DEF flag, change, status, items1, versions1
  <2> QED
    BY <1>6, <2>4 DEF Good, Typed, Chained
<1>8. items1[old].user_corrected = items[old].user_corrected
  <2>1. items1[old] \in ItemRow /\ items[old] \in ItemRow
    BY <1>3, <1>4, <1>7 DEF Good, Typed
  <2>2. items1[old].user_corrected \in BOOLEAN /\ items[old].user_corrected \in BOOLEAN
    BY <2>1 DEF ItemRow
  <2> QED
    BY <1>6, <2>2, Zenon
<1>9. final = v
  BY <1>6
<1> HIDE DEF items1, versions1, final
<1>10. /\ DOMAIN items2 = DOMAIN items \cup {new}
       /\ \A j \in DOMAIN items : items2[j] = items1[j]
       /\ items2[new] = [kind |-> kind, status |-> INITIAL_STATUS_BY_KIND[kind],
                         owner |-> owner, current_version_id |-> <<new, 1>>,
                         user_corrected |-> FALSE,
                         superseded_by_item_id |-> NULL, supersedes_item_id |-> NULL]
  BY <1>1, <1>6 DEF created_items, Put
<1>11. <<new, 1>> \notin DOMAIN versions1
  BY <1>1, <1>6, <1>7
<1>12. /\ DOMAIN versions2 = DOMAIN versions \cup {v, <<new, 1>>}
       /\ \A w \in DOMAIN versions1 : versions2[w] = versions1[w]
       /\ versions2[<<new, 1>>].review_id = p
  BY <1>6, <1>11 DEF created_versions, insert_version, Put
<1> HIDE DEF items2, versions2
<1>13. /\ DOMAIN items' = DOMAIN items \cup {new}
       /\ \A j \in DOMAIN items \ {old} : items'[j] = items[j]
       /\ items'[old] = [items1[old] EXCEPT !.superseded_by_item_id = new]
       /\ items'[new] = [items2[new] EXCEPT !.supersedes_item_id = old]
  BY <1>1, <1>3, <1>6, <1>10 DEF linked_items
<1>14. items1[old] \in ItemRow
  BY <1>3, <1>7
<1>15. /\ items'[old].kind = items1[old].kind
       /\ items'[old].status = items1[old].status
       /\ items'[old].superseded_by_item_id = new
       /\ items'[old].supersedes_item_id = items1[old].supersedes_item_id
       /\ items'[old].user_corrected = items1[old].user_corrected
       /\ items'[old].current_version_id = items1[old].current_version_id
  BY <1>13, <1>14 DEF ItemRow
<1>16. /\ items'[new].kind = kind
       /\ items'[new].status = INITIAL_STATUS_BY_KIND[kind]
       /\ items'[new].superseded_by_item_id = NULL
       /\ items'[new].supersedes_item_id = old
       /\ items'[new].user_corrected = FALSE
  BY <1>10, <1>13
<1>17. v \in DOMAIN versions1 /\ versions1[v] \in VersionRow /\ v # <<new, 1>>
  BY <1>6, <1>7, <1>11
<1>18. /\ DOMAIN versions' = DOMAIN versions \cup {v, <<new, 1>>}
       /\ versions'[v] = [versions1[v] EXCEPT !.superseded_by_version_id = <<new, 1>>]
       /\ \A w \in DOMAIN versions : versions'[w] = versions1[w]
       /\ versions'[<<new, 1>>] = versions2[<<new, 1>>]
  BY <1>1, <1>6, <1>9, <1>12, <1>17 DEF linked_versions
<1>19. /\ versions'[v].review_id = p
       /\ versions'[v].transition_type = "supersede"
       /\ versions'[v].superseded_by_version_id = <<new, 1>>
  BY <1>6, <1>17, <1>18 DEF VersionRow
<1>20. <<new, 1>> \notin DOMAIN versions
  BY <1>6, <1>11
<1> HIDE DEF v
<1>21. Grows(p, {v, <<new, 1>>})
  <2>1. v \notin DOMAIN versions
    BY <1>6
  <2>2. versions'[<<new, 1>>].review_id = p
    BY <1>12, <1>18
  <2>3. \A w \in {v, <<new, 1>>} : w \notin DOMAIN versions /\ versions'[w].review_id = p
    BY <1>19, <1>20, <2>1, <2>2
  <2>4. ASSUME NEW w \in DOMAIN versions
        PROVE  /\ versions'[w].review_id = versions[w].review_id
               /\ versions'[w].transition_type = versions[w].transition_type
    BY <1>6, <1>18
  <2>5. DOMAIN versions' = DOMAIN versions \cup {v, <<new, 1>>}
    BY <1>18
  <2> QED
    BY <2>3, <2>4, <2>5 DEF Grows
<1>22. \A w \in DOMAIN versions : w[1] # old => versions'[w] = versions[w]
  BY <1>6, <1>18
<1>23. \E f \in VersionId :
          /\ f[1] = old /\ f[2] # 1
          /\ items'[old].current_version_id = f
          /\ versions'[f].transition_type = "supersede"
          /\ versions'[f].superseded_by_version_id = <<new, 1>>
          /\ Grows(p, {f, <<new, 1>>})
          /\ Cites(p, {new, <<new, 1>>, old, f})
  <2>1. v \in VersionId /\ v[1] = old /\ v[2] # 1
    BY <1>6
  <2>2. items'[old].current_version_id = v
    BY <1>6, <1>15
  <2>3. Cites(p, {new, <<new, 1>>, old, v})
    BY <1>5, <1>9
  <2> QED
    BY <1>19, <1>21, <2>1, <2>2, <2>3
<1>24. /\ items'[new].kind \in Kinds
       /\ items'[new].status = INITIAL_STATUS_BY_KIND[items'[new].kind]
       /\ items'[new].superseded_by_item_id = NULL
       /\ items'[new].supersedes_item_id = old
       /\ items'[new].user_corrected = FALSE
  BY <1>3, <1>16
<1>25. /\ items'[old].kind = items[old].kind
       /\ items'[old].status = "superseded"
       /\ items'[old].superseded_by_item_id = new
       /\ items'[old].supersedes_item_id = items[old].supersedes_item_id
       /\ items'[old].user_corrected = items[old].user_corrected
  BY <1>6, <1>8, <1>15
<1>26. \E f : Corrects(p, new, f)
  BY <1>5
<1>27. /\ DOMAIN items' = DOMAIN items \cup {new}
       /\ \A j \in DOMAIN items \ {old} : items'[j] = items[j]
  BY <1>13
<1>28. SupersedeDone(p, old, new)
  BY <1>1, <1>3, <1>22, <1>23, <1>24, <1>25, <1>26, <1>27 DEF SupersedeDone
<1> QED
  BY <1>28 DEF p, old

\* A new proposal.
Raised(p) ==
    /\ p \in ProposalId /\ p \notin DOMAIN proposals
    /\ DOMAIN proposals' = DOMAIN proposals \cup {p}
    /\ proposals'[p].status = "pending"
    /\ \A q \in DOMAIN proposals : proposals'[q] = proposals[q]

\* What the decision of an accepted proposal comes with.
Settles(p) ==
    \/ /\ UNCHANGED <<items, versions, corrections>>
       /\ \/ UNCHANGED evidence_links
          \/ proposals[p].action = "add_evidence" /\ \E targets : Cites(p, targets)
    \/ \E i \in ItemId : CreateDone(p, i)
    \/ \E i, type, status : ChangeDone(p, i, type, status)
    \/ \E old, new \in ItemId : SupersedeDone(p, old, new)

Accepted == {"accepted", "edited_accepted"}

\* Every step reads, raises, rejects or accepts.
Effect ==
    \/ /\ UNCHANGED <<items, versions, reviews, corrections, evidence_links>>
       /\ UNCHANGED proposals \/ \E p : Raised(p)
    \/ /\ UNCHANGED <<items, versions, corrections, evidence_links>>
       /\ \E p : Decides(p, "reject", "rejected")
    \/ \E p, a, status : /\ a # "reject" /\ status \in Accepted
                         /\ Decides(p, a, status)
                         /\ Settles(p)

LEMMA ProposeEffect ==
    ASSUME ReviewInv, NEW p \in ProposalId, Propose(p)
    PROVE  Raised(p)
<1>1. PICK k \in ObservedKinds : \E row \in Classified(k) : proposals' = Put(proposals, p, row)
  BY DEF Propose
<1>2. PICK row \in Classified(k) : proposals' = Put(proposals, p, row)
  BY <1>1
<1>3. row.status = "pending"
  BY <1>1, <1>2, ClassifiedTyped, ReviewAssumption
<1> QED
  BY <1>2, <1>3 DEF Propose, Put, Raised

LEMMA CommitEffect ==
    ASSUME ReviewInv, NEW s \in Session, Commit(s)
    PROVE  Effect
<1> DEFINE p == sessions[s].proposal
           a == sessions[s].click.action
<1>1. CASE CommitReject(s)
  <2>1. Decides(p, a, "rejected") /\ a = "reject"
    BY <1>1, DecideEffect DEF CommitReject
  <2> QED
    BY <1>1, <2>1 DEF CommitReject, Effect
<1>2. ASSUME NEW before, NEW after, Executing(s), Accept(s, before, after)
      PROVE  /\ a # "reject"
             /\ \E status \in Accepted : Decides(p, a, status)
  BY <1>2, AcceptEffect DEF Executing, Accepted
<1>3. CASE CommitNoMutation(s)
  <2>1. /\ a # "reject"
        /\ \E status \in Accepted : Decides(p, a, status)
    BY <1>2, <1>3 DEF CommitNoMutation
  <2>2. sessions[s].click \in Click
    BY <1>3, ExecutingTyped DEF CommitNoMutation
  <2>3. \/ UNCHANGED evidence_links
        \/ proposals[p].action = "add_evidence" /\ \E targets : Cites(p, targets)
    BY <1>3, <2>2, CitesEffect DEF CommitNoMutation, effective_action
  <2>4. Settles(p)
    BY <1>3, <2>3 DEF CommitNoMutation, Settles
  <2> QED
    BY <2>1, <2>4 DEF Effect
<1>4. ASSUME NEW i \in ItemId, CommitCreate(s, i) PROVE Effect
  <2>1. /\ a # "reject"
        /\ \E status \in Accepted : Decides(p, a, status)
    BY <1>2, <1>4 DEF CommitCreate, Transition
  <2>2. Settles(p)
    BY <1>4, CreateEffect DEF Settles
  <2> QED
    BY <2>1, <2>2 DEF Effect
<1>5. ASSUME NEW i \in ItemId, CommitSupersede(s, i) PROVE Effect
  <2>1. /\ a # "reject"
        /\ \E status \in Accepted : Decides(p, a, status)
    BY <1>2, <1>5 DEF CommitSupersede, Transition
  <2>2. SupersedeDone(p, sessions[s].target, i)
    BY <1>5, SupersedeEffect
  <2>3. sessions[s].target \in ItemId
    BY <2>2 DEF SupersedeDone, ReviewInv, LedgerInv, LedgerTypeOK, Typed
  <2>4. Settles(p)
    BY <2>2, <2>3 DEF Settles
  <2> QED
    BY <2>1, <2>4 DEF Effect
<1>6. CASE CommitChange(s)
  <2>1. /\ a # "reject"
        /\ \E status \in Accepted : Decides(p, a, status)
    BY <1>2, <1>6 DEF CommitChange, Transition
  <2>2. Settles(p)
    BY <1>6, ChangeEffect DEF Settles
  <2> QED
    BY <2>1, <2>2 DEF Effect
<1>7. CASE CommitFails(s)
  BY <1>7 DEF CommitFails, reviewVars, Effect
<1> QED
  BY <1>1, <1>3, <1>4, <1>5, <1>6, <1>7 DEF Commit

LEMMA NextEffect == ReviewInv /\ [Next]_vars => Effect
<1> SUFFICES ASSUME ReviewInv, [Next]_vars PROVE Effect
  OBVIOUS
<1>1. ASSUME NEW p \in ProposalId, Propose(p) PROVE Effect
  BY <1>1, ProposeEffect DEF Propose, Effect
<1>2. ASSUME NEW s \in Session, NEW p \in ProposalId, RenderCard(s, p) \/ Press(s) \/ Load(s)
      PROVE  Effect
  BY <1>2 DEF RenderCard, Press, Load, reviewVars, Effect
<1>3. ASSUME NEW s \in Session, Commit(s) PROVE Effect
  BY <1>3, CommitEffect
<1>4. CASE UNCHANGED vars
  BY <1>4 DEF vars, Effect
<1>5. ASSUME NEW s \in Session, Press(s) \/ Load(s) PROVE Effect
  BY <1>5 DEF Press, Load, reviewVars, Effect
<1> QED
  BY <1>1, <1>2, <1>3, <1>4, <1>5 DEF Next

-----------------------------------------------------------------------------
(* Nothing from rejected proposals. *)

\* Evidence links and corrections are only added, and only for the proposal accepted.
OnlyFor(p) ==
    /\ \A l \in evidence_links' : l \in evidence_links \/ l[1] = p
    /\ \A c \in corrections' : c \in corrections \/ c[1] = p
    /\ evidence_links \subseteq evidence_links'

LEMMA SettlesOnlyFor ==
    ASSUME NEW p, Settles(p)
    PROVE  OnlyFor(p)
<1>1. \A targets : Cites(p, targets) =>
          /\ evidence_links \subseteq evidence_links'
          /\ \A l \in evidence_links' : l \in evidence_links \/ l[1] = p
  BY DEF Cites
<1>2. \A i, fields : Corrects(p, i, fields) =>
          \A c \in corrections' : c \in corrections \/ c[1] = p
  BY DEF Corrects
<1>3. ASSUME NEW i \in ItemId, CreateDone(p, i) PROVE OnlyFor(p)
  BY <1>1, <1>2, <1>3 DEF CreateDone, OnlyFor
<1>4. ASSUME NEW i, NEW type, NEW status, ChangeDone(p, i, type, status) PROVE OnlyFor(p)
  BY <1>1, <1>2, <1>4 DEF ChangeDone, OnlyFor
<1>5. ASSUME NEW old, NEW new, SupersedeDone(p, old, new) PROVE OnlyFor(p)
  BY <1>1, <1>2, <1>5 DEF SupersedeDone, OnlyFor
<1> QED
  BY <1>1, <1>3, <1>4, <1>5 DEF Settles, OnlyFor

\* Links and corrections belong to accepting reviews.
Belongs ==
    /\ \A l \in evidence_links : l[1] \in DOMAIN reviews /\ reviews[l[1]].action # "reject"
    /\ \A c \in corrections : c[1] \in DOMAIN reviews /\ reviews[c[1]].action # "reject"

\* A review wrote a version.
Wrote(p) == \E v \in DOMAIN versions : versions[v].review_id = p

\* Corrections come with a version, and links do unless evidence is all that was added.
Traced ==
    /\ \A c \in corrections : Wrote(c[1])
    /\ \A l \in evidence_links : Wrote(l[1]) \/ proposals[l[1]].action = "add_evidence"

LEMMA TracedInv ==
    ASSUME ReviewInv, Belongs, Traced, Effect
    PROVE  Traced'
<1>1. \A q \in DOMAIN reviews : q \in DOMAIN proposals
  BY DEF ReviewInv, DecisionRecorded
<1>2. /\ \A c \in corrections : c[1] \in DOMAIN reviews
      /\ \A l \in evidence_links : l[1] \in DOMAIN reviews
  BY DEF Belongs
<1>3. ASSUME NEW p, Raised(p)
      PROVE  \A q \in DOMAIN reviews : proposals'[q].action = proposals[q].action
  BY <1>1, <1>3 DEF Raised
<1>4. ASSUME NEW p, NEW a, NEW status, Decides(p, a, status)
      PROVE  \A q \in DOMAIN reviews \cup {p} : proposals'[q].action = proposals[q].action
  BY <1>1, <1>4 DEF Decides
<1>5. CASE /\ UNCHANGED <<items, versions, reviews, corrections, evidence_links>>
           /\ UNCHANGED proposals \/ \E p : Raised(p)
  BY <1>2, <1>3, <1>5 DEF Traced, Wrote
<1>6. ASSUME UNCHANGED <<items, versions, corrections, evidence_links>>,
             NEW p, Decides(p, "reject", "rejected")
      PROVE  Traced'
  BY <1>2, <1>4, <1>6 DEF Traced, Wrote
<1>7. ASSUME NEW p, NEW a, NEW status, Decides(p, a, status), Settles(p)
      PROVE  Traced'
  <2>1. OnlyFor(p)
    BY <1>7, SettlesOnlyFor
  <2>2. ASSUME NEW new, Grows(p, new), new # {} PROVE Traced'
    <3>1. PICK w \in new : TRUE
      BY <2>2
    <3>2. w \in DOMAIN versions' /\ versions'[w].review_id = p
      BY <2>2, <3>1 DEF Grows
    <3>3. Wrote(p)'
      BY <3>2 DEF Wrote
    <3>4. ASSUME NEW q, Wrote(q) PROVE Wrote(q)'
      BY <2>2, <3>4 DEF Wrote, Grows
    <3>5. ASSUME NEW c \in corrections' PROVE Wrote(c[1])'
      BY <2>1, <3>3, <3>4 DEF Traced, OnlyFor
    <3>6. ASSUME NEW l \in evidence_links'
          PROVE  Wrote(l[1])' \/ proposals'[l[1]].action = "add_evidence"
      <4>1. CASE l \in evidence_links
        BY <1>2, <1>4, <1>7, <3>4, <4>1 DEF Traced
      <4>2. CASE l[1] = p
        BY <3>3, <4>2
      <4> QED
        BY <2>1, <4>1, <4>2 DEF OnlyFor
    <3> QED
      BY <3>5, <3>6 DEF Traced
  <2>3. CASE /\ UNCHANGED <<items, versions, corrections>>
             /\ \/ UNCHANGED evidence_links
                \/ proposals[p].action = "add_evidence" /\ \E targets : Cites(p, targets)
    <3>1. \A q : Wrote(q) => Wrote(q)'
      BY <2>3 DEF Wrote
    <3>2. \A l \in evidence_links' :
              l \in evidence_links \/ (l[1] = p /\ proposals[p].action = "add_evidence")
      BY <2>1, <2>3 DEF OnlyFor
    <3>3. ASSUME NEW l \in evidence_links'
          PROVE  Wrote(l[1])' \/ proposals'[l[1]].action = "add_evidence"
      BY <1>2, <1>4, <1>7, <3>1, <3>2 DEF Traced
    <3>4. \A c \in corrections' : Wrote(c[1])'
      BY <2>3, <3>1 DEF Traced
    <3> QED
      BY <3>3, <3>4 DEF Traced
  <2>4. ASSUME NEW i \in ItemId, CreateDone(p, i) PROVE Traced'
    BY <2>2, <2>4 DEF CreateDone
  <2>5. ASSUME NEW i, NEW type, NEW st, ChangeDone(p, i, type, st) PROVE Traced'
    <3>1. PICK v : Grows(p, {v})
      BY <2>5 DEF ChangeDone
    <3> QED
      BY <2>2, <3>1
  <2>6. ASSUME NEW old, NEW new, SupersedeDone(p, old, new) PROVE Traced'
    <3>1. PICK v : Grows(p, {v, <<new, 1>>})
      BY <2>6 DEF SupersedeDone
    <3> QED
      BY <2>2, <3>1
  <2> QED
    BY <1>7, <2>3, <2>4, <2>5, <2>6 DEF Settles
<1> QED
  BY <1>5, <1>6, <1>7 DEF Effect

LEMMA BelongsInv ==
    ASSUME Belongs, Effect
    PROVE  Belongs'
<1>1. CASE UNCHANGED <<items, versions, reviews, corrections, evidence_links>>
  BY <1>1 DEF Belongs
<1>2. ASSUME NEW p, NEW a, NEW status, Decides(p, a, status)
      PROVE  /\ \A q \in DOMAIN reviews : q \in DOMAIN reviews' /\ reviews'[q] = reviews[q]
             /\ p \in DOMAIN reviews' /\ reviews'[p].action = a
  BY <1>2 DEF Decides
<1>3. ASSUME UNCHANGED <<corrections, evidence_links>>, NEW p, Decides(p, "reject", "rejected")
      PROVE  Belongs'
  BY <1>2, <1>3 DEF Belongs
<1>4. ASSUME NEW p, NEW a, NEW status, a # "reject", Decides(p, a, status), Settles(p)
      PROVE  Belongs'
  <2>1. OnlyFor(p)
    BY <1>4, SettlesOnlyFor
  <2> QED
    BY <1>2, <1>4, <2>1 DEF Belongs, OnlyFor
<1> QED
  BY <1>1, <1>3, <1>4 DEF Effect

-----------------------------------------------------------------------------
(* Versions, their reviews and their evidence. *)

\* Review r cites something for version v and for its item.
Cited(links, r, v) ==
    \E l \in EvidenceLink : {<<r, v, l>>, <<r, v[1], l>>} \subseteq links

LEMMA EvidenceInv ==
    ASSUME EveryVersionReviewed, Effect
    PROVE  EveryVersionReviewed'
<1>1. CASE UNCHANGED <<items, versions, reviews, corrections, evidence_links>>
  BY <1>1 DEF EveryVersionReviewed
<1>2. ASSUME NEW p, NEW a, NEW status, Decides(p, a, status)
      PROVE  /\ \A q \in DOMAIN reviews : q \in DOMAIN reviews' /\ reviews'[q] = reviews[q]
             /\ p \in DOMAIN reviews' /\ reviews'[p].action = a
  BY <1>2 DEF Decides
<1>3. ASSUME UNCHANGED <<versions, evidence_links>>, NEW p, Decides(p, "reject", "rejected")
      PROVE  EveryVersionReviewed'
  BY <1>2, <1>3 DEF EveryVersionReviewed
\* The versions added are cited, the others are as well cited as before.
<1>4. ASSUME NEW p, NEW a, NEW status, a # "reject", Decides(p, a, status), OnlyFor(p),
             NEW new, Grows(p, new), \A v \in new : Cited(evidence_links', p, v)
      PROVE  EveryVersionReviewed'
  <2> SUFFICES ASSUME NEW v \in DOMAIN versions'
               PROVE  LET r == versions'[v].review_id IN
                      /\ r \in DOMAIN reviews'
                      /\ reviews'[r].action # "reject"
                      /\ Cited(evidence_links', r, v)
    BY DEF EveryVersionReviewed, Cited
  <2>1. CASE v \in new
    <3>1. versions'[v].review_id = p
      BY <1>4, <2>1 DEF Grows
    <3> QED
      BY <1>2, <1>4, <2>1, <3>1
  <2>2. CASE v \in DOMAIN versions
    <3>1. versions'[v].review_id = versions[v].review_id
      BY <1>4, <2>2 DEF Grows
    <3>2. evidence_links \subseteq evidence_links'
      BY <1>4 DEF OnlyFor
    <3>3. LET r == versions[v].review_id IN
          r \in DOMAIN reviews /\ reviews[r].action # "reject" /\ Cited(evidence_links, r, v)
      BY <2>2 DEF EveryVersionReviewed, Cited
    <3>4. Cited(evidence_links', versions[v].review_id, v)
      BY <3>2, <3>3 DEF Cited
    <3> QED
      BY <1>2, <1>4, <3>1, <3>3, <3>4
  <2> QED
    BY <1>4, <2>1, <2>2 DEF Grows
\* What is cited, target by target.
<1>5. ASSUME NEW p, NEW targets, Cites(p, targets),
             NEW v \in targets, v[1] \in targets
      PROVE  Cited(evidence_links', p, v)
  <2>1. PICK L \in SUBSET EvidenceLink :
            L # {} /\ evidence_links' = evidence_links \cup ({p} \X targets \X L)
    BY <1>5 DEF Cites
  <2>2. PICK l \in L : TRUE
    BY <2>1
  <2>3. <<p, v, l>> \in evidence_links' /\ <<p, v[1], l>> \in evidence_links'
    BY <1>5, <2>1, <2>2
  <2> QED
    BY <2>1, <2>2, <2>3 DEF Cited
<1>6. ASSUME NEW p, NEW a, NEW status, a # "reject", Decides(p, a, status), Settles(p)
      PROVE  EveryVersionReviewed'
  <2>0. OnlyFor(p)
    BY <1>6, SettlesOnlyFor
  <2>1. ASSUME UNCHANGED versions PROVE EveryVersionReviewed'
    <3>1. Grows(p, {})
      BY <2>1 DEF Grows
    <3> QED
      BY <1>4, <1>6, <2>0, <3>1
  <2>2. ASSUME NEW i \in ItemId, CreateDone(p, i) PROVE EveryVersionReviewed'
    <3>1. Grows(p, {<<i, 1>>}) /\ Cites(p, {i, <<i, 1>>})
      BY <2>2 DEF CreateDone
    <3>2. Cited(evidence_links', p, <<i, 1>>)
      BY <1>5, <3>1
    <3> QED
      BY <1>4, <1>6, <2>0, <3>1, <3>2
  <2>3. ASSUME NEW i, NEW type, NEW st, ChangeDone(p, i, type, st)
        PROVE  EveryVersionReviewed'
    <3>1. PICK v \in VersionId : v[1] = i /\ Grows(p, {v}) /\ Cites(p, {i, v})
      BY <2>3 DEF ChangeDone
    <3>2. Cited(evidence_links', p, v)
      BY <1>5, <3>1
    <3> QED
      BY <1>4, <1>6, <2>0, <3>1, <3>2
  <2>4. ASSUME NEW old \in ItemId, NEW new \in ItemId, SupersedeDone(p, old, new)
        PROVE  EveryVersionReviewed'
    <3>1. PICK v \in VersionId : /\ v[1] = old /\ Grows(p, {v, <<new, 1>>})
                                 /\ Cites(p, {new, <<new, 1>>, old, v})
      BY <2>4 DEF SupersedeDone
    <3>2. Cited(evidence_links', p, v) /\ Cited(evidence_links', p, <<new, 1>>)
      BY <1>5, <3>1
    <3> QED
      BY <1>4, <1>6, <2>0, <3>1, <3>2
  <2> QED
    BY <1>6, <2>1, <2>2, <2>3, <2>4 DEF Settles
<1> QED
  BY <1>1, <1>3, <1>6 DEF Effect

-----------------------------------------------------------------------------
(* Terminal statuses and supersession. *)

\* What review does to a status is legal only from a status that is not terminal.
LEMMA LeavesOpen ==
    ASSUME NEW kind, NEW from, NEW to,
           NEW type \in {"update", "complete", "cancel", "resolve", "supersede"},
           validate_transition(kind, from, to, type)
    PROVE  /\ from \notin TERMINAL_STATUSES
           /\ type # "supersede" => to # "superseded"
  BY DEF validate_transition, ALLOWED_FROM_STATUSES, TransitionTypes, TERMINAL_STATUSES,
         NON_TERMINAL_STATUSES, FIXED_TARGET_STATUS, Statuses

\* No step touches the row of an item in a terminal status.
TerminalKept ==
    \A i \in DOMAIN items :
        items[i].status \in TERMINAL_STATUSES => items'[i] = items[i]

LEMMA TerminalStep ==
    ASSUME Effect
    PROVE  TerminalKept
<1>1. ASSUME NEW p, NEW i \in ItemId, CreateDone(p, i) PROVE TerminalKept
  BY <1>1 DEF CreateDone, TerminalKept
<1>2. ASSUME NEW p, NEW i, NEW type, NEW status, ChangeDone(p, i, type, status)
      PROVE  TerminalKept
  <2>1. items[i].status \notin TERMINAL_STATUSES
    BY <1>2, LeavesOpen DEF ChangeDone
  <2> QED
    BY <1>2, <2>1 DEF ChangeDone, TerminalKept
<1>3. ASSUME NEW p, NEW old, NEW new, SupersedeDone(p, old, new)
      PROVE  TerminalKept
  <2>1. items[old].status \notin TERMINAL_STATUSES
    BY <1>3, LeavesOpen DEF SupersedeDone
  <2> QED
    BY <1>3, <2>1 DEF SupersedeDone, TerminalKept
<1>4. UNCHANGED items => TerminalKept
  BY DEF TerminalKept
<1> QED
  BY <1>1, <1>2, <1>3, <1>4 DEF Effect, Settles

\* The item i of tables it and vs, and its successor and predecessor.
Paired(it, vs, i) ==
    /\ it[i].status = "superseded" <=> it[i].superseded_by_item_id # NULL
    /\ it[i].superseded_by_item_id # NULL =>
          /\ it[i].superseded_by_item_id \in DOMAIN it \ {i}
          /\ it[it[i].superseded_by_item_id].supersedes_item_id = i
          /\ vs[it[i].current_version_id].superseded_by_version_id
                = <<it[i].superseded_by_item_id, 1>>
    /\ it[i].supersedes_item_id # NULL =>
          /\ it[i].supersedes_item_id \in DOMAIN it
          /\ it[it[i].supersedes_item_id].superseded_by_item_id = i

LEMMA PairedIs == SupersessionPaired <=> \A i \in DOMAIN items : Paired(items, versions, i)
  BY DEF SupersessionPaired, Paired

LEMMA InitialStatus ==
    ASSUME NEW kind \in Kinds PROVE INITIAL_STATUS_BY_KIND[kind] # "superseded"
  BY DEF INITIAL_STATUS_BY_KIND, Kinds

\* The current version of an item is one of its own.
LEMMA CurrentIsOwn ==
    ASSUME ReviewInv, NEW i \in DOMAIN items
    PROVE  /\ items[i].current_version_id \in DOMAIN versions
           /\ items[i].current_version_id[1] = i
           /\ i \in ItemId /\ i # NULL
  BY NullAssumption DEF ReviewInv, LedgerInv, LedgerTypeOK, ChainOK, Typed, Chained, VersionsOf

LEMMA PairedInv ==
    ASSUME ReviewInv, SupersessionPaired, Effect
    PROVE  SupersessionPaired'
<1> DEFINE Now(i) == Paired(items, versions, i)
<1>1. \A i \in DOMAIN items : Now(i)
  BY PairedIs
<1>2. \A i \in DOMAIN items : /\ items[i].current_version_id \in DOMAIN versions
                              /\ items[i].current_version_id[1] = i
                              /\ i # NULL
  BY CurrentIsOwn
<1>3. UNCHANGED <<items, versions>> => SupersessionPaired'
  BY DEF SupersessionPaired
<1>4. ASSUME NEW p, NEW i \in ItemId, CreateDone(p, i) PROVE SupersessionPaired'
  <2>1. items'[i].status # "superseded"
    BY <1>4, InitialStatus DEF CreateDone
  <2>2. Paired(items', versions', i)
    BY <1>4, <2>1 DEF CreateDone, Paired
  <2>3. ASSUME NEW j \in DOMAIN items PROVE Paired(items', versions', j)
    BY <1>1, <1>2, <1>4, <2>3 DEF CreateDone, Paired
  <2> QED
    BY <1>4, <2>2, <2>3 DEF CreateDone, SupersessionPaired, Paired
<1>5. ASSUME NEW p, NEW i, NEW type, NEW status, ChangeDone(p, i, type, status)
      PROVE  SupersessionPaired'
  <2>1. items[i].status \notin TERMINAL_STATUSES /\ status # "superseded"
    BY <1>5, LeavesOpen DEF ChangeDone
  <2>2. items[i].superseded_by_item_id = NULL
    BY <1>1, <1>5, <2>1 DEF ChangeDone, Paired, TERMINAL_STATUSES, Statuses, NON_TERMINAL_STATUSES
  <2>3. Paired(items', versions', i)
    BY <1>1, <1>2, <1>5, <2>1, <2>2 DEF ChangeDone, Paired
  <2>4. ASSUME NEW j \in DOMAIN items \ {i} PROVE Paired(items', versions', j)
    <3>1. versions'[items[j].current_version_id] = versions[items[j].current_version_id]
      BY <1>2, <1>5 DEF ChangeDone
    <3>2. /\ items'[j] = items[j]
          /\ \A k \in DOMAIN items :
                /\ items'[k].superseded_by_item_id = items[k].superseded_by_item_id
                /\ items'[k].supersedes_item_id = items[k].supersedes_item_id
      BY <1>5 DEF ChangeDone
    <3>3. DOMAIN items' = DOMAIN items
      BY <1>5 DEF ChangeDone
    <3>4. Paired(items, versions, j)
      BY <1>1
    <3> QED
      BY <3>1, <3>2, <3>3, <3>4 DEF Paired
  <2>5. \A j \in DOMAIN items' : Paired(items', versions', j)
    BY <1>5, <2>3, <2>4 DEF ChangeDone
  <2> QED
    BY <2>5 DEF SupersessionPaired, Paired
<1>6. ASSUME NEW p, NEW old \in ItemId, NEW new \in ItemId, SupersedeDone(p, old, new)
      PROVE  SupersessionPaired'
  <2>1. /\ old \in DOMAIN items /\ new \notin DOMAIN items
        /\ DOMAIN items' = DOMAIN items \cup {new}
        /\ \A j \in DOMAIN items \ {old} : items'[j] = items[j]
        /\ items'[old].status = "superseded"
        /\ items'[old].superseded_by_item_id = new
        /\ items'[old].supersedes_item_id = items[old].supersedes_item_id
        /\ items'[new].superseded_by_item_id = NULL
        /\ items'[new].supersedes_item_id = old
        /\ versions'[items'[old].current_version_id].superseded_by_version_id = <<new, 1>>
        /\ \A v \in DOMAIN versions : v[1] # old => versions'[v] = versions[v]
    BY <1>6 DEF SupersedeDone
  <2>2. items[old].status \notin TERMINAL_STATUSES
    BY <1>6, LeavesOpen DEF SupersedeDone
  <2>3. items[old].superseded_by_item_id = NULL
    BY <1>1, <2>1, <2>2 DEF Paired, TERMINAL_STATUSES, Statuses, NON_TERMINAL_STATUSES
  <2>4. items'[new].status # "superseded"
    BY <1>6, InitialStatus DEF SupersedeDone
  <2>5. new # NULL
    BY NullAssumption
  <2>6. Paired(items', versions', new)
    BY <1>2, <2>1, <2>4 DEF Paired
  <2>7. Paired(items', versions', old)
    <3>1. items[old].supersedes_item_id # NULL =>
              /\ items[old].supersedes_item_id \in DOMAIN items \ {old}
              /\ items[items[old].supersedes_item_id].superseded_by_item_id = old
      BY <1>1, <1>2, <2>1, <2>3 DEF Paired
    <3> QED
      BY <2>1, <2>5, <3>1 DEF Paired
  <2>8. ASSUME NEW j \in DOMAIN items \ {old} PROVE Paired(items', versions', j)
    <3>1. versions'[items[j].current_version_id] = versions[items[j].current_version_id]
      BY <1>2, <2>1
    <3>2. /\ items'[j] = items[j]
          /\ \A k \in DOMAIN items :
                /\ items[k].superseded_by_item_id # NULL =>
                      items'[k].superseded_by_item_id = items[k].superseded_by_item_id
                /\ items'[k].supersedes_item_id = items[k].supersedes_item_id
      BY <2>1, <2>3
    <3>3. items[j].supersedes_item_id # NULL => items[j].supersedes_item_id # old
      BY <1>1, <1>2, <2>3 DEF Paired
    <3> QED
      BY <1>1, <1>2, <2>1, <3>1, <3>2, <3>3 DEF Paired
  <2>9. \A j \in DOMAIN items' : Paired(items', versions', j)
    BY <2>1, <2>6, <2>7, <2>8
  <2> QED
    BY <2>9 DEF SupersessionPaired, Paired
<1> QED
  BY <1>3, <1>4, <1>5, <1>6 DEF Effect, Settles

-----------------------------------------------------------------------------
(* Once only. *)

\* Version x ends an item, version y begins its successor.
Pair(it, vs, x, y) ==
    /\ vs[x].transition_type = "supersede"
    /\ it[x[1]].current_version_id = x
    /\ it[x[1]].superseded_by_item_id = y[1]
    /\ y[2] = 1

LEMMA TheOther == ASSUME NEW v, NEW w, v # w PROVE (CHOOSE y \in {v, w} : y # v) = w
<1>1. \E y \in {v, w} : y # v
  OBVIOUS
<1>2. (CHOOSE y \in {v, w} : y # v) \in {v, w} /\ (CHOOSE y \in {v, w} : y # v) # v
  BY <1>1
<1> QED
  BY <1>2

Once(it, vs) ==
    \A v, w \in DOMAIN vs :
        v # w /\ vs[v].review_id = vs[w].review_id => Pair(it, vs, v, w) \/ Pair(it, vs, w, v)

\* The versions x and y of tables it and vs, as AppliedOnce writes it.
Apart(it, vs, v, w) ==
    \E x \in {v, w} :
        LET y == CHOOSE y \in {v, w} : y # x IN
        /\ vs[x].transition_type = "supersede"
        /\ it[x[1]].current_version_id = x
        /\ it[x[1]].superseded_by_item_id = y[1]
        /\ y[2] = 1

LEMMA ApartIs ==
    ASSUME NEW it, NEW vs, NEW v, NEW w, v # w
    PROVE  Apart(it, vs, v, w) <=> Pair(it, vs, v, w) \/ Pair(it, vs, w, v)
<1>1. (CHOOSE y \in {v, w} : y # v) = w
  BY TheOther
<1>2. (CHOOSE y \in {v, w} : y # w) = v
  <2>1. {v, w} = {w, v}
    OBVIOUS
  <2>2. (CHOOSE y \in {w, v} : y # w) = v
    BY TheOther
  <2> QED
    BY <2>1, <2>2
<1> QED
  BY <1>1, <1>2 DEF Apart, Pair

LEMMA OnceIs == AppliedOnce <=> Once(items, versions)
<1>1. AppliedOnce <=>
        \A v, w \in DOMAIN versions :
            v # w /\ versions[v].review_id = versions[w].review_id =>
                Apart(items, versions, v, w)
  BY DEF AppliedOnce, Apart
<1> QED
  BY <1>1, ApartIs DEF Once

LEMMA OnceInv ==
    ASSUME ReviewInv, SupersessionPaired, EveryVersionReviewed, Once(items, versions), Effect
    PROVE  Once(items, versions)'
<1>1. \A i \in DOMAIN items :
          items[i].superseded_by_item_id # NULL => items'[i] = items[i]
  <2>1. TerminalKept
    BY TerminalStep
  <2> QED
    BY <2>1 DEF SupersessionPaired, TerminalKept, TERMINAL_STATUSES, Statuses,
                NON_TERMINAL_STATUSES
<1>2. \A v \in DOMAIN versions : v[1] \in DOMAIN items /\ v[1] # NULL
  BY NullAssumption DEF ReviewInv, LedgerInv, LedgerTypeOK, ChainOK, Typed, Chained
\* Pairs stay pairs.
<1>3. ASSUME NEW p, NEW new, Grows(p, new), NEW x \in DOMAIN versions, NEW y \in DOMAIN versions,
             Pair(items, versions, x, y)
      PROVE  Pair(items', versions', x, y)
  <2>1. items'[x[1]] = items[x[1]]
    BY <1>1, <1>2, <1>3 DEF Pair
  <2> QED
    BY <1>3, <2>1 DEF Pair, Grows
\* An added version shares its review with added versions only.
<1>4. ASSUME NEW p, p \notin DOMAIN reviews, NEW new, Grows(p, new),
             \A v, w \in new : v # w => Pair(items', versions', v, w) \/ Pair(items', versions', w, v)
      PROVE  Once(items, versions)'
  <2> SUFFICES ASSUME NEW v \in DOMAIN versions', NEW w \in DOMAIN versions', v # w,
                      versions'[v].review_id = versions'[w].review_id
               PROVE  Pair(items', versions', v, w) \/ Pair(items', versions', w, v)
    BY DEF Once
  <2>1. \A u \in DOMAIN versions : versions'[u].review_id # p
    BY <1>4 DEF Grows, EveryVersionReviewed
  <2>2. CASE v \in DOMAIN versions /\ w \in DOMAIN versions
    <3>1. versions[v].review_id = versions[w].review_id
      BY <1>4, <2>2 DEF Grows
    <3>2. Pair(items, versions, v, w) \/ Pair(items, versions, w, v)
      BY <2>2, <3>1 DEF Once
    <3> QED
      BY <1>3, <1>4, <2>2, <3>2
  <2>3. CASE v \in new /\ w \in new
    BY <1>4, <2>3
  <2>4. CASE (v \in new /\ w \in DOMAIN versions) \/ (v \in DOMAIN versions /\ w \in new)
    BY <1>4, <2>1, <2>4 DEF Grows
  <2> QED
    BY <1>4, <2>2, <2>3, <2>4 DEF Grows
<1>5. UNCHANGED <<items, versions>> => Once(items, versions)'
  BY DEF Once, Pair
<1>6. ASSUME NEW p, NEW a, NEW status, Decides(p, a, status), Settles(p)
      PROVE  Once(items, versions)'
  <2>0. p \notin DOMAIN reviews
    BY <1>6 DEF Decides
  <2>1. ASSUME NEW i \in ItemId, CreateDone(p, i) PROVE Once(items, versions)'
    <3>1. Grows(p, {<<i, 1>>})
      BY <2>1 DEF CreateDone
    <3> QED
      BY <1>4, <2>0, <3>1
  <2>2. ASSUME NEW i, NEW type, NEW st, ChangeDone(p, i, type, st) PROVE Once(items, versions)'
    <3>1. PICK v : Grows(p, {v})
      BY <2>2 DEF ChangeDone
    <3> QED
      BY <1>4, <2>0, <3>1
  <2>3. ASSUME NEW old \in ItemId, NEW new \in ItemId, SupersedeDone(p, old, new)
        PROVE  Once(items, versions)'
    <3>1. PICK v \in VersionId : /\ v[1] = old
                                 /\ items'[old].current_version_id = v
                                 /\ versions'[v].transition_type = "supersede"
                                 /\ Grows(p, {v, <<new, 1>>})
      BY <2>3 DEF SupersedeDone
    <3>2. items'[old].superseded_by_item_id = new
      BY <2>3 DEF SupersedeDone
    <3>3. Pair(items', versions', v, <<new, 1>>)
      BY <3>1, <3>2 DEF Pair
    <3> QED
      BY <1>4, <2>0, <3>1, <3>3
  <2> QED
    BY <1>5, <1>6, <2>1, <2>2, <2>3 DEF Settles
<1> QED
  BY <1>5, <1>6 DEF Effect

-----------------------------------------------------------------------------
(* Corrections and the flag. *)

\* A review other than the one that made item i a successor corrects a field of it.
Flagged(cs, it, vs, i) ==
    \E c \in cs : /\ c[2] = i
                  /\ it[i].supersedes_item_id # NULL => c[1] # vs[<<i, 1>>].review_id

\* Corrections are of items there are; every item has its first version.
Rooted ==
    /\ \A c \in corrections : c[2] \in DOMAIN items
    /\ \A i \in DOMAIN items : <<i, 1>> \in DOMAIN versions

LEMMA RootedInv ==
    ASSUME Rooted, Effect
    PROVE  Rooted'
<1>1. UNCHANGED <<items, versions, corrections>> => Rooted'
  BY DEF Rooted
<1>2. ASSUME NEW p, Settles(p) PROVE Rooted'
  <2>1. ASSUME NEW i \in ItemId, CreateDone(p, i) PROVE Rooted'
    BY <2>1 DEF CreateDone, Grows, Corrects, Rooted
  <2>2. ASSUME NEW i, NEW type, NEW status, ChangeDone(p, i, type, status) PROVE Rooted'
    <3>1. PICK v : Grows(p, {v})
      BY <2>2 DEF ChangeDone
    <3> QED
      BY <2>2, <3>1 DEF ChangeDone, Grows, Corrects, Rooted
  <2>3. ASSUME NEW old, NEW new, SupersedeDone(p, old, new) PROVE Rooted'
    <3>1. PICK v : Grows(p, {v, <<new, 1>>})
      BY <2>3 DEF SupersedeDone
    <3> QED
      BY <2>3, <3>1 DEF SupersedeDone, Grows, Corrects, Rooted
  <2> QED
    BY <1>1, <1>2, <2>1, <2>2, <2>3 DEF Settles
<1> QED
  BY <1>1, <1>2 DEF Effect

LEMMA FlagInv ==
    ASSUME ReviewInv, EveryVersionReviewed, CorrectionFlagHonest, Rooted, Effect
    PROVE  CorrectionFlagHonest'
<1> DEFINE Was(i) == Flagged(corrections, items, versions, i)
           Is(i) == Flagged(corrections', items', versions', i)
<1>1. \A i \in DOMAIN items : /\ items[i].user_corrected = Was(i)
                              /\ <<i, 1>> \in DOMAIN versions
                              /\ versions[<<i, 1>>].review_id \in DOMAIN reviews
  BY DEF CorrectionFlagHonest, Flagged, Rooted, EveryVersionReviewed
<1>2. SUFFICES \A i \in DOMAIN items' : items'[i].user_corrected = Is(i)
  BY DEF CorrectionFlagHonest, Flagged
\* A correction by a review that is not stored yet counts for the item it is of.
<1>3. ASSUME NEW p, p \notin DOMAIN reviews, NEW new, Grows(p, new),
             NEW i, NEW fields, Corrects(p, i, fields),
             NEW j \in DOMAIN items, items'[j].supersedes_item_id = items[j].supersedes_item_id
      PROVE  Is(j) <=> Was(j) \/ (j = i /\ fields # {})
  <2>1. versions'[<<j, 1>>].review_id = versions[<<j, 1>>].review_id
    BY <1>1, <1>3 DEF Grows
  <2>2. versions[<<j, 1>>].review_id # p
    BY <1>1, <1>3
  <2>3. corrections' = corrections \cup ({p} \X {i} \X fields)
    BY <1>3 DEF Corrects
  <2>4. ASSUME Was(j) PROVE Is(j)
    BY <1>3, <2>1, <2>3, <2>4 DEF Flagged
  <2>5. ASSUME j = i, fields # {} PROVE Is(j)
    <3>1. PICK f \in fields : TRUE
      BY <2>5
    <3>2. <<p, j, f>> \in corrections'
      BY <2>3, <2>5, <3>1
    <3> QED
      BY <2>1, <2>2, <3>2 DEF Flagged
  <2>6. ASSUME Is(j) PROVE Was(j) \/ (j = i /\ fields # {})
    BY <1>3, <2>1, <2>3, <2>6 DEF Flagged
  <2> QED
    BY <2>4, <2>5, <2>6
<1>4. CASE UNCHANGED <<items, versions, corrections>>
  BY <1>1, <1>4 DEF Flagged
<1>5. ASSUME NEW p, NEW a, NEW status, Decides(p, a, status), Settles(p)
      PROVE  \A j \in DOMAIN items' : items'[j].user_corrected = Is(j)
  <2>0. p \notin DOMAIN reviews
    BY <1>5 DEF Decides
  <2>1. ASSUME NEW i \in ItemId, CreateDone(p, i)
        PROVE  \A j \in DOMAIN items' : items'[j].user_corrected = Is(j)
    <3>1. PICK fields : Corrects(p, i, fields) /\ items'[i].user_corrected = (fields # {})
      BY <2>1 DEF CreateDone
    <3>2. /\ i \notin DOMAIN items
          /\ DOMAIN items' = DOMAIN items \cup {i}
          /\ \A j \in DOMAIN items : items'[j] = items[j]
          /\ items'[i].supersedes_item_id = NULL
          /\ Grows(p, {<<i, 1>>})
      BY <2>1 DEF CreateDone
    <3>3. Is(i) <=> fields # {}
      <4>1. corrections' = corrections \cup ({p} \X {i} \X fields)
        BY <3>1 DEF Corrects
      <4>2. ASSUME fields # {} PROVE Is(i)
        <5>1. PICK f \in fields : TRUE
          BY <4>2
        <5>2. <<p, i, f>> \in corrections'
          BY <4>1, <5>1
        <5> QED
          BY <3>2, <5>2 DEF Flagged
      <4>3. ASSUME Is(i) PROVE fields # {}
        BY <3>2, <4>1, <4>3 DEF Flagged, Rooted
      <4> QED
        BY <4>2, <4>3
    <3>4. ASSUME NEW j \in DOMAIN items PROVE items'[j].user_corrected = Is(j)
      <4>1. Is(j) <=> Was(j)
        BY <1>3, <2>0, <3>1, <3>2
      <4>2. Is(j) = Was(j)
        BY <4>1 DEF Flagged
      <4>3. items'[j].user_corrected = items[j].user_corrected
        BY <3>2
      <4>4. items[j].user_corrected = Was(j)
        BY <1>1
      <4> HIDE DEF Is, Was
      <4> QED
        BY <4>2, <4>3, <4>4, Zenon
    <3>5. items'[i].user_corrected = Is(i)
      <4> DEFINE flag == fields # {}
      <4>1. Is(i) = flag
        BY <3>3 DEF Flagged
      <4>2. items'[i].user_corrected = flag
        BY <3>1
      <4> HIDE DEF Is, flag
      <4> QED
        BY <4>1, <4>2, Zenon
    <3> QED
      BY <3>2, <3>4, <3>5
  <2>2. ASSUME NEW i, NEW type, NEW st, ChangeDone(p, i, type, st)
        PROVE  \A j \in DOMAIN items' : items'[j].user_corrected = Is(j)
    <3>1. PICK fields :
              /\ Corrects(p, i, fields)
              /\ items'[i].user_corrected = (items[i].user_corrected \/ fields # {})
      BY <2>2 DEF ChangeDone
    <3>2. PICK v : Grows(p, {v})
      BY <2>2 DEF ChangeDone
    <3>3. /\ i \in DOMAIN items /\ DOMAIN items' = DOMAIN items
          /\ \A j \in DOMAIN items \ {i} : items'[j] = items[j]
          /\ items'[i].supersedes_item_id = items[i].supersedes_item_id
      BY <2>2 DEF ChangeDone
    <3>4. ASSUME NEW j \in DOMAIN items PROVE items'[j].user_corrected = Is(j)
      <4>1. Is(j) <=> Was(j) \/ (j = i /\ fields # {})
        BY <1>3, <2>0, <3>1, <3>2, <3>3
      <4>2. items[j].user_corrected = Was(j)
        BY <1>1
      <4>3. CASE j = i
        <5>1. Is(j) = (Was(j) \/ fields # {})
          BY <4>1, <4>3 DEF Flagged
        <5>2. items'[j].user_corrected = (items[j].user_corrected \/ fields # {})
          BY <3>1, <4>3
        <5> HIDE DEF Is, Was
        <5> QED
          BY <4>2, <5>1, <5>2, Zenon
      <4>4. CASE j # i
        <5>1. Is(j) = Was(j)
          BY <4>1, <4>4 DEF Flagged
        <5>2. items'[j].user_corrected = items[j].user_corrected
          BY <3>3, <4>4
        <5> HIDE DEF Is, Was
        <5> QED
          BY <4>2, <5>1, <5>2, Zenon
      <4> QED
        BY <4>3, <4>4
    <3> QED
      BY <3>3, <3>4
  <2>3. ASSUME NEW old \in ItemId, NEW new \in ItemId, SupersedeDone(p, old, new)
        PROVE  \A j \in DOMAIN items' : items'[j].user_corrected = Is(j)
    <3>1. PICK fields : Corrects(p, new, fields)
      BY <2>3 DEF SupersedeDone
    <3>2. PICK v : Grows(p, {v, <<new, 1>>})
      BY <2>3 DEF SupersedeDone
    <3>3. /\ old \in DOMAIN items /\ new \notin DOMAIN items /\ old # NULL
          /\ DOMAIN items' = DOMAIN items \cup {new}
          /\ \A j \in DOMAIN items \ {old} : items'[j] = items[j]
          /\ items'[old].supersedes_item_id = items[old].supersedes_item_id
          /\ items'[old].user_corrected = items[old].user_corrected
          /\ items'[new].supersedes_item_id = old
          /\ items'[new].user_corrected = FALSE
      BY <2>3, NullAssumption DEF SupersedeDone
    \* Its corrections are those of the review that made it a successor.
    <3>4. ~Is(new)
      <4>1. corrections' = corrections \cup ({p} \X {new} \X fields)
        BY <3>1 DEF Corrects
      <4>2. versions'[<<new, 1>>].review_id = p
        BY <3>2 DEF Grows
      <4> QED
        BY <3>3, <4>1, <4>2 DEF Flagged, Rooted
    <3>5. ASSUME NEW j \in DOMAIN items PROVE items'[j].user_corrected = Is(j)
      <4>1. Is(j) <=> Was(j)
        BY <1>3, <2>0, <3>1, <3>2, <3>3
      <4>2. Is(j) = Was(j)
        BY <4>1 DEF Flagged
      <4>3. items'[j].user_corrected = items[j].user_corrected
        BY <3>3
      <4>4. items[j].user_corrected = Was(j)
        BY <1>1
      <4> HIDE DEF Is, Was
      <4> QED
        BY <4>2, <4>3, <4>4, Zenon
    <3>6. items'[new].user_corrected = Is(new)
      <4>1. Is(new) = FALSE
        BY <3>4 DEF Flagged
      <4> HIDE DEF Is
      <4> QED
        BY <3>3, <4>1, Zenon
    <3> QED
      BY <3>3, <3>5, <3>6
  <2> QED
    BY <1>4, <1>5, <2>1, <2>2, <2>3, <1>1 DEF Settles, Flagged
<1> QED
  BY <1>2, <1>4, <1>5 DEF Effect

-----------------------------------------------------------------------------
(* The invariants. *)

OutcomeInv ==
    /\ ReviewInv
    /\ Belongs
    /\ Traced
    /\ EveryVersionReviewed
    /\ SupersessionPaired
    /\ Once(items, versions)
    /\ Rooted
    /\ CorrectionFlagHonest

LEMMA OutcomeInit == Init => OutcomeInv
<1> SUFFICES ASSUME Init PROVE OutcomeInv
  OBVIOUS
<1>1. DOMAIN items = {} /\ DOMAIN versions = {} /\ corrections = {} /\ evidence_links = {}
  BY DEF Init, LedgerInit
<1>2. ReviewInv
  BY ReviewInitInv
<1> QED
  BY <1>1, <1>2 DEF OutcomeInv, Belongs, Traced, EveryVersionReviewed, SupersessionPaired, Once, Rooted,
                    CorrectionFlagHonest

LEMMA OutcomeStep == OutcomeInv /\ [Next]_vars => OutcomeInv' /\ Effect
<1> SUFFICES ASSUME OutcomeInv, [Next]_vars PROVE OutcomeInv' /\ Effect
  OBVIOUS
<1> USE DEF OutcomeInv
<1>1. Effect /\ ReviewInv'
  BY NextEffect, ReviewNextInv
<1>2. Belongs' /\ Traced' /\ EveryVersionReviewed' /\ Rooted'
  BY <1>1, BelongsInv, TracedInv, EvidenceInv, RootedInv
<1>3. SupersessionPaired' /\ Once(items, versions)'
  BY <1>1, PairedInv, OnceInv
<1>4. CorrectionFlagHonest'
  BY <1>1, FlagInv
<1> QED
  BY <1>1, <1>2, <1>3, <1>4

LEMMA OutcomeAlways == Spec => []OutcomeInv
<1>1. OutcomeInv /\ [Next]_vars => OutcomeInv'
  BY OutcomeStep
<1> QED
  BY OutcomeInit, <1>1, PTL DEF Spec

\* However many sessions decide at once and however their transactions fail, a pending
\* or rejected proposal leaves no correction and no evidence link behind, and an accepted
\* one only with a version or, its evidence, when adding it was all it proposed.
THEOREM ReviewRejects == Spec => []NothingFromRejected
<1>1. OutcomeInv => NothingFromRejected
  BY DEF OutcomeInv, ReviewInv, Belongs, Traced, Wrote, DecisionRecorded, NothingFromRejected
<1> QED
  BY <1>1, OutcomeAlways, PTL

\* Every version there ever is comes of a stored, accepting review that cites evidence
\* for the version and for its item.
THEOREM ReviewEvidence == Spec => []EveryVersionReviewed
<1>1. OutcomeInv => EveryVersionReviewed
  BY DEF OutcomeInv
<1> QED
  BY <1>1, OutcomeAlways, PTL

\* A superseded item and its successor name each other, whatever was decided since.
THEOREM ReviewSupersedes == Spec => []SupersessionPaired
<1>1. OutcomeInv => SupersessionPaired
  BY DEF OutcomeInv
<1> QED
  BY <1>1, OutcomeAlways, PTL

\* From however many sessions a decision is submitted, it is applied once.
THEOREM ReviewOnce == Spec => []AppliedOnce
<1>1. OutcomeInv => AppliedOnce
  BY OnceIs DEF OutcomeInv
<1> QED
  BY <1>1, OutcomeAlways, PTL

\* user_corrected is set exactly by corrections made otherwise than in the review that
\* made the item a successor.
THEOREM ReviewFlags == Spec => []CorrectionFlagHonest
<1>1. OutcomeInv => CorrectionFlagHonest
  BY DEF OutcomeInv
<1> QED
  BY <1>1, OutcomeAlways, PTL

\* No sequence of reviews leaves a terminal status.
THEOREM ReviewTerminal == Spec => TerminalStaysTerminal
<1>1. OutcomeInv /\ [Next]_vars => [TerminalKept]_vars
  BY OutcomeStep, TerminalStep
<1>2. Spec => [][TerminalKept]_vars
  BY <1>1, OutcomeAlways, PTL DEF Spec
<1>3. TerminalKept => \A i \in DOMAIN items :
          items[i].status \in TERMINAL_STATUSES => items'[i].status = items[i].status
  BY DEF TerminalKept
<1> QED
  BY <1>2, <1>3, PTL DEF TerminalStaysTerminal

-----------------------------------------------------------------------------
(* Snapshots, with one session. *)

\* What version v recorded stays.
Recorded(v) ==
    /\ v \in DOMAIN versions'
    /\ versions'[v].review_id = versions[v].review_id
    /\ versions'[v].transition_type = versions[v].transition_type
    /\ versions'[v].status = versions[v].status
    /\ versions'[v].owner = versions[v].owner
    /\ versions'[v].from_version_id = versions[v].from_version_id

\* Review p shows what its new version v changed, and from what.
Told(p, v) ==
    /\ versions'[v].review_id = p
    /\ versions'[v].transition_type # "supersede" =>
          /\ reviews'[p].after.status = versions'[v].status
          /\ reviews'[p].after.owner = versions'[v].owner
    /\ versions'[v].from_version_id # NULL =>
          LET from == versions'[v].from_version_id IN
          /\ from \in DOMAIN versions
          /\ reviews'[p].before.status = versions[from].status
          /\ reviews'[p].before.owner = versions[from].owner

\* The row a transaction is about to use is the one the ledger has.
ReadIsLast ==
    \A s \in Session : sessions[s].phase = "loaded" =>
        sessions[s].row = IF sessions[s].target = NULL THEN NULL ELSE items[sessions[s].target]

PredecessorsStored ==
    \A v \in DOMAIN versions :
        versions[v].from_version_id # NULL => versions[v].from_version_id \in DOMAIN versions

SnapshotInv == SnapshotsHonest /\ ReadIsLast /\ PredecessorsStored

\* Tables with honest snapshots keep them when each new version is told of.
LEMMA ToldStaysHonest ==
    ASSUME SnapshotsHonest, PredecessorsStored, EveryVersionReviewed,
           \A q \in DOMAIN reviews : q \in DOMAIN reviews' /\ reviews'[q] = reviews[q],
           \A v \in DOMAIN versions : Recorded(v),
           \A v \in DOMAIN versions' \ DOMAIN versions : \E p : Told(p, v)
    PROVE  SnapshotsHonest' /\ PredecessorsStored'
<1>1. ASSUME NEW v \in DOMAIN versions
      PROVE  /\ versions'[v].transition_type # "supersede" =>
                   /\ reviews'[versions'[v].review_id].after.status = versions'[v].status
                   /\ reviews'[versions'[v].review_id].after.owner = versions'[v].owner
             /\ versions'[v].from_version_id # NULL =>
                   LET from == versions'[v].from_version_id IN
                   /\ from \in DOMAIN versions'
                   /\ reviews'[versions'[v].review_id].before.status = versions'[from].status
                   /\ reviews'[versions'[v].review_id].before.owner = versions'[from].owner
  <2>1. versions[v].review_id \in DOMAIN reviews
    BY DEF EveryVersionReviewed
  <2>2. Recorded(v)
    OBVIOUS
  <2>3. reviews'[versions'[v].review_id] = reviews[versions[v].review_id]
    BY <2>1, <2>2 DEF Recorded
  <2>4. versions[v].from_version_id # NULL =>
           /\ versions[v].from_version_id \in DOMAIN versions
           /\ Recorded(versions[v].from_version_id)
    BY DEF PredecessorsStored
  <2> QED
    BY <2>2, <2>3, <2>4 DEF SnapshotsHonest, Recorded
<1>2. ASSUME NEW v \in DOMAIN versions' \ DOMAIN versions
      PROVE  /\ versions'[v].transition_type # "supersede" =>
                   /\ reviews'[versions'[v].review_id].after.status = versions'[v].status
                   /\ reviews'[versions'[v].review_id].after.owner = versions'[v].owner
             /\ versions'[v].from_version_id # NULL =>
                   LET from == versions'[v].from_version_id IN
                   /\ from \in DOMAIN versions'
                   /\ reviews'[versions'[v].review_id].before.status = versions'[from].status
                   /\ reviews'[versions'[v].review_id].before.owner = versions'[from].owner
  <2>1. PICK p : Told(p, v)
    OBVIOUS
  <2>2. versions'[v].from_version_id # NULL => Recorded(versions'[v].from_version_id)
    BY <2>1 DEF Told
  <2> QED
    BY <2>1, <2>2 DEF Told, Recorded
<1> QED
  BY <1>1, <1>2 DEF SnapshotsHonest, PredecessorsStored

\* What an accepting transaction writes into its review.
LEMMA AcceptTells ==
    ASSUME ReviewInv, NEW s \in Session, NEW before, NEW after, Accept(s, before, after)
    PROVE  LET p == sessions[s].proposal IN
           /\ reviews'[p].before = before
           /\ reviews'[p].after = after
           /\ \A q \in DOMAIN reviews : q \in DOMAIN reviews' /\ reviews'[q] = reviews[q]
  BY DEF Accept, Decide, Put

LEMMA SnapshotsOfCreate ==
    ASSUME OutcomeInv, SnapshotInv, NEW s \in Session, NEW i \in ItemId, CommitCreate(s, i)
    PROVE  SnapshotsHonest' /\ PredecessorsStored'
<1> DEFINE p == sessions[s].proposal
           c == sessions[s].click
           kind == resolve_kind(p, c)
           owner == resolve_owner(p, c)
           status == INITIAL_STATUS_BY_KIND[kind]
           v == <<i, 1>>
<1>1. /\ Accept(s, NULL, [kind |-> kind, status |-> status, owner |-> owner])
      /\ versions' = created_versions(versions, i, kind, owner, p)
  BY DEF CommitCreate
<1>2. /\ reviews'[p].after.status = status
      /\ reviews'[p].after.owner = owner
      /\ \A q \in DOMAIN reviews : q \in DOMAIN reviews' /\ reviews'[q] = reviews[q]
  BY <1>1, AcceptTells DEF OutcomeInv
<1>3. v \notin DOMAIN versions
  BY DEF OutcomeInv, ReviewInv, LedgerInv, ChainOK, Chained, CommitCreate
<1> HIDE DEF kind, owner, status, p
<1>4. /\ DOMAIN versions' = DOMAIN versions \cup {v}
      /\ \A w \in DOMAIN versions : versions'[w] = versions[w]
      /\ versions'[v].status = status
      /\ versions'[v].owner = owner
      /\ versions'[v].review_id = p
      /\ versions'[v].from_version_id = NULL
  BY <1>1, <1>3 DEF created_versions, insert_version, Put, status
<1>5. Told(p, v)
  BY <1>2, <1>4 DEF Told
<1>6. \A w \in DOMAIN versions : Recorded(w)
  BY <1>4 DEF Recorded
<1> QED
  BY <1>2, <1>4, <1>5, <1>6, ToldStaysHonest DEF OutcomeInv, SnapshotInv

\* Table newv is vs with version v of item i, after the current one; the others keep
\* what they recorded.
Appended(it, vs, newv, i, v, type, status, owner, review) ==
    LET old == it[i].current_version_id IN
    /\ v \notin DOMAIN vs
    /\ DOMAIN newv = DOMAIN vs \cup {v}
    /\ newv \in [DOMAIN newv -> VersionRow]
    /\ newv[v].status = status
    /\ newv[v].owner = carried(it, i, owner)
    /\ newv[v].transition_type = type
    /\ newv[v].from_version_id = old
    /\ newv[v].review_id = review
    /\ old \in DOMAIN vs
    /\ vs[old].status = it[i].status
    /\ vs[old].owner = it[i].owner
    /\ \A w \in DOMAIN vs :
          /\ newv[w].review_id = vs[w].review_id
          /\ newv[w].transition_type = vs[w].transition_type
          /\ newv[w].status = vs[w].status
          /\ newv[w].owner = vs[w].owner
          /\ newv[w].from_version_id = vs[w].from_version_id

LEMMA AppendRecords ==
    ASSUME NEW it, NEW vs, Good(it, vs), NEW i \in DOMAIN it, NEW type \in TransitionTypes,
           NEW status \in Statuses, NEW owner \in Owner \cup {NULL},
           NEW review \in ProposalId \cup {NULL}
    PROVE  Appended(it, vs, appended_versions(it, vs, i, type, status, owner, review), i,
                    <<i, next_version_no(vs, i)>>, type, status, owner, review)
<1> DEFINE v == <<i, next_version_no(vs, i)>>
           newv == appended_versions(it, vs, i, type, status, owner, review)
           old == it[i].current_version_id
           row == NewVersion(it, i, type, status, owner, review)
<1>1. v \in VersionId /\ v \notin DOMAIN vs
  BY NextVersionIsNew DEF Good
<1>2. /\ old \in DOMAIN vs
      /\ vs[old].status = it[i].status
      /\ vs[old].owner = it[i].owner
  BY DEF Good, Chained, VersionsOf, Projected
<1>3. Continued(vs, newv, old, v, row)
  BY <1>1, <1>2, AppendedVersions DEF Good
<1> HIDE DEF v, newv
<1>4. /\ row.status = status /\ row.owner = carried(it, i, owner)
      /\ row.transition_type = type /\ row.from_version_id = old /\ row.review_id = review
  BY DEF NewVersion
<1> HIDE DEF row, old
<1>5. /\ DOMAIN newv = DOMAIN vs \cup {v} /\ newv \in [DOMAIN newv -> VersionRow]
      /\ newv[v] = row
  BY <1>3 DEF Continued
<1>6. ASSUME NEW w \in DOMAIN vs
      PROVE  /\ newv[w].review_id = vs[w].review_id
             /\ newv[w].transition_type = vs[w].transition_type
             /\ newv[w].status = vs[w].status
             /\ newv[w].owner = vs[w].owner
             /\ newv[w].from_version_id = vs[w].from_version_id
  <2>1. CASE w = old
    <3>1. vs[w] \in VersionRow
      BY DEF Good, Typed
    <3>2. newv[w] = [vs[w] EXCEPT !.open = FALSE, !.superseded_by_version_id = v]
      BY <1>3, <2>1 DEF Continued
    <3> QED
      BY <3>1, <3>2 DEF VersionRow
  <2>2. CASE w # old
    BY <1>3, <2>2 DEF Continued
  <2> QED
    BY <2>1, <2>2
<1>7. Appended(it, vs, newv, i, v, type, status, owner, review)
  BY <1>1, <1>2, <1>4, <1>5, <1>6 DEF old, Appended
<1> QED
  BY <1>7 DEF v, newv

LEMMA SnapshotsOfChange ==
    ASSUME OutcomeInv, SnapshotInv, NEW s \in Session, CommitChange(s)
    PROVE  SnapshotsHonest' /\ PredecessorsStored'
<1> DEFINE p == sessions[s].proposal
           c == sessions[s].click
           i == sessions[s].target
           row == sessions[s].row
           type == resolve_transition_type(p, c, i)
           status == resolve_status(p, c, row)
           owner == resolve_owner(p, c)
           result == [kind |-> row.kind, status |-> status, owner |-> First(owner, row.owner)]
           v == <<i, next_version_no(versions, i)>>
<1>1. /\ Executing(s) /\ ~NoMutation(p, c)
      /\ type \in {"update", "complete", "cancel", "resolve"}
      /\ Accept(s, item_snapshot(row), result)
      /\ versions' = appended_versions(items, versions, i, type, status, owner, p)
  BY DEF CommitChange, Transition
<1>2. /\ p \in ProposalId
      /\ c \in Click
      /\ i \in DOMAIN items \cup {NULL}
      /\ i # NULL => row \in ItemRow
      /\ owner \in Owner \cup {NULL}
  BY <1>1, ExecutingTyped DEF OutcomeInv
<1>3. i \in DOMAIN items /\ i # NULL /\ row \in ItemRow
  <2>1. i # NULL
    BY <1>1, <1>2 DEF Executing, PlanOK
  <2> QED
    BY <1>2, <2>1
<1>4. row = items[i] /\ row # NULL
  BY <1>1, <1>3, RowAssumption DEF SnapshotInv, ReadIsLast, Executing
<1>5. status \in Statuses /\ type \in TransitionTypes
  BY <1>1, <1>2, <1>3
     DEF resolve_status, Click, ItemRow, FIXED_TARGET_STATUS, Statuses, TransitionTypes
<1>6. Good(items, versions)
  BY DEF OutcomeInv, ReviewInv, LedgerInv, LedgerTypeOK, ChainOK, ProjectionOK, Good
<1>7. /\ reviews'[p].before = item_snapshot(row)
      /\ reviews'[p].after = result
      /\ \A q \in DOMAIN reviews : q \in DOMAIN reviews' /\ reviews'[q] = reviews[q]
  BY <1>1, AcceptTells DEF OutcomeInv
<1>8. /\ item_snapshot(row).status = row.status /\ item_snapshot(row).owner = row.owner
      /\ result.status = status /\ result.owner = First(owner, row.owner)
  BY <1>4 DEF item_snapshot
<1> HIDE DEF p, c, i, row, type, status, owner, result, v
<1>9. Appended(items, versions, versions', i, v, type, status, owner, p)
  <2>1. p \in ProposalId \cup {NULL}
    BY <1>2
  <2>2. Appended(items, versions, appended_versions(items, versions, i, type, status, owner, p),
                 i, <<i, next_version_no(versions, i)>>, type, status, owner, p)
    BY <1>2, <1>3, <1>5, <1>6, <2>1, AppendRecords
  <2> QED
    BY <1>1, <2>2 DEF v
<1>10. carried(items, i, owner) = First(owner, row.owner)
  BY <1>4 DEF carried, First
<1>11. Told(p, v)
  BY <1>4, <1>7, <1>8, <1>9, <1>10 DEF Told, Appended
<1>12. /\ DOMAIN versions' = DOMAIN versions \cup {v}
       /\ \A w \in DOMAIN versions : Recorded(w)
  BY <1>9 DEF Recorded, Appended
<1> QED
  BY <1>7, <1>11, <1>12, ToldStaysHonest DEF OutcomeInv, SnapshotInv

LEMMA SnapshotsOfSupersede ==
    ASSUME OutcomeInv, SnapshotInv, NEW s \in Session, NEW new \in ItemId, CommitSupersede(s, new)
    PROVE  SnapshotsHonest' /\ PredecessorsStored'
<1> DEFINE p == sessions[s].proposal
           c == sessions[s].click
           old == sessions[s].target
           row == sessions[s].row
           kind == resolve_kind(p, c)
           owner == resolve_owner(p, c)
           result == [kind |-> kind, status |-> INITIAL_STATUS_BY_KIND[kind], owner |-> owner]
           items1 == appended_items(items, versions, old, "superseded", NULL, FALSE)
           versions1 == appended_versions(items, versions, old, "supersede", "superseded", NULL, p)
           versions2 == created_versions(versions1, new, kind, owner, p)
           final == items1[old].current_version_id
           v == <<old, next_version_no(versions, old)>>
           first == <<new, 1>>
<1>1. /\ Executing(s) /\ new \notin DOMAIN items /\ ~NoMutation(p, c)
      /\ resolve_transition_type(p, c, old) = "supersede"
      /\ Accept(s, item_snapshot(row), result)
      /\ versions' = linked_versions(versions2, final, first)
  BY DEF CommitSupersede, Transition
<1>2. /\ p \in ProposalId
      /\ old \in DOMAIN items \cup {NULL}
      /\ old # NULL => row \in ItemRow
      /\ owner \in Owner \cup {NULL}
  BY <1>1, ExecutingTyped DEF OutcomeInv
<1>3. old \in DOMAIN items /\ old # NULL /\ row \in ItemRow
  <2>1. old # NULL
    BY <1>1, <1>2 DEF Executing, PlanOK
  <2> QED
    BY <1>2, <2>1
<1>4. row = items[old] /\ row # NULL
  BY <1>1, <1>3, RowAssumption DEF SnapshotInv, ReadIsLast, Executing
<1>5. Good(items, versions)
  BY DEF OutcomeInv, ReviewInv, LedgerInv, LedgerTypeOK, ChainOK, ProjectionOK, Good
<1>6. /\ reviews'[p].before = item_snapshot(row)
      /\ reviews'[p].after = result
      /\ \A q \in DOMAIN reviews : q \in DOMAIN reviews' /\ reviews'[q] = reviews[q]
  BY <1>1, AcceptTells DEF OutcomeInv
<1>7. /\ item_snapshot(row).status = row.status /\ item_snapshot(row).owner = row.owner
      /\ result.status = INITIAL_STATUS_BY_KIND[kind] /\ result.owner = owner
  BY <1>4 DEF item_snapshot
<1>8. final = v
  <2>1. items[old] \in ItemRow
    BY <1>3, <1>5 DEF Good, Typed
  <2> QED
    BY <1>3, <2>1 DEF appended_items, ItemRow
<1>9. first \notin DOMAIN versions
  BY <1>1, <1>5 DEF Good, Chained
<1>10. v # first
  BY <1>1, <1>3
<1> HIDE DEF p, c, old, row, kind, owner, result, items1, versions1, v
<1>11. Appended(items, versions, versions1, old, v, "supersede", "superseded", NULL, p)
  <2>1. /\ p \in ProposalId \cup {NULL} /\ NULL \in Owner \cup {NULL}
        /\ "supersede" \in TransitionTypes /\ "superseded" \in Statuses
    BY <1>2 DEF TransitionTypes, Statuses
  <2>2. Appended(items, versions,
                 appended_versions(items, versions, old, "supersede", "superseded", NULL, p),
                 old, <<old, next_version_no(versions, old)>>, "supersede", "superseded", NULL, p)
    BY <1>3, <1>5, <2>1, AppendRecords
  <2> QED
    BY <2>2 DEF v, versions1
<1>12. /\ DOMAIN versions1 = DOMAIN versions \cup {v}
       /\ versions1[v] \in VersionRow
       /\ first \notin DOMAIN versions1
  BY <1>9, <1>10, <1>11 DEF Appended
<1> HIDE DEF final, first
<1>13. /\ DOMAIN versions2 = DOMAIN versions1 \cup {first}
       /\ \A w \in DOMAIN versions1 : versions2[w] = versions1[w]
       /\ versions2[first].status = INITIAL_STATUS_BY_KIND[kind]
       /\ versions2[first].owner = owner
       /\ versions2[first].review_id = p
       /\ versions2[first].from_version_id = NULL
  BY <1>12 DEF created_versions, insert_version, Put, first
<1> HIDE DEF versions2
<1>14. /\ DOMAIN versions' = DOMAIN versions2
       /\ versions'[v] = [versions2[v] EXCEPT !.superseded_by_version_id = first]
       /\ \A w \in DOMAIN versions2 \ {v} : versions'[w] = versions2[w]
  BY <1>1, <1>8, <1>12, <1>13 DEF linked_versions
<1>15. /\ versions'[v].status = versions1[v].status
       /\ versions'[v].owner = versions1[v].owner
       /\ versions'[v].transition_type = versions1[v].transition_type
       /\ versions'[v].from_version_id = versions1[v].from_version_id
       /\ versions'[v].review_id = versions1[v].review_id
  BY <1>12, <1>13, <1>14 DEF VersionRow
<1>16. v \notin DOMAIN versions
  BY <1>11 DEF Appended
<1>17. \A w \in DOMAIN versions : versions'[w] = versions1[w] /\ w \in DOMAIN versions'
  BY <1>12, <1>13, <1>14, <1>16
<1>18. \A w \in DOMAIN versions : Recorded(w)
  BY <1>11, <1>17 DEF Appended, Recorded
<1>19. Told(p, v)
  BY <1>4, <1>6, <1>7, <1>11, <1>15 DEF Told, Appended
<1>20. Told(p, first)
  <2>1. versions'[first] = versions2[first]
    BY <1>12, <1>13, <1>14
  <2> QED
    BY <1>6, <1>7, <1>13, <2>1 DEF Told
<1>21. \A w \in DOMAIN versions' \ DOMAIN versions : w = v \/ w = first
  BY <1>12, <1>13, <1>14
<1> QED
  BY <1>6, <1>18, <1>19, <1>20, <1>21, ToldStaysHonest DEF OutcomeInv, SnapshotInv

\* A transaction ends its session's work, and no other session is at work.
LEMMA CommitEndsReading ==
    ASSUME ReviewInv, \A s, t \in Session : s = t, NEW s \in Session, Commit(s)
    PROVE  ReadIsLast'
<1>1. \E o \in Outcomes : sessions' = Answered(s, o)
  BY DEF Commit, CommitReject, CommitNoMutation, CommitCreate, CommitSupersede, CommitChange,
         CommitFails, Accept, Decide, Outcomes
<1>2. sessions'[s].phase = "idle"
  BY <1>1 DEF ReviewInv, SessionsTyped, Answered, IdleSession
<1> QED
  BY <1>2 DEF ReadIsLast

LEMMA SnapshotsOfCommit ==
    ASSUME OutcomeInv, SnapshotInv, NEW s \in Session, Commit(s)
    PROVE  SnapshotsHonest' /\ PredecessorsStored'
<1>1. ASSUME UNCHANGED versions,
             \A q \in DOMAIN reviews : q \in DOMAIN reviews' /\ reviews'[q] = reviews[q]
      PROVE  SnapshotsHonest' /\ PredecessorsStored'
  BY <1>1, ToldStaysHonest DEF OutcomeInv, SnapshotInv, Recorded
<1>2. \A status, before, after : Decide(s, status, before, after) =>
          \A q \in DOMAIN reviews : q \in DOMAIN reviews' /\ reviews'[q] = reviews[q]
  BY DEF Decide, Put
<1>3. CASE CommitReject(s)
  BY <1>1, <1>2, <1>3 DEF CommitReject
<1>4. CASE CommitNoMutation(s)
  BY <1>1, <1>2, <1>4 DEF CommitNoMutation, Accept
<1>5. CASE CommitFails(s)
  BY <1>1, <1>5 DEF CommitFails, reviewVars
<1> QED
  BY <1>3, <1>4, <1>5, SnapshotsOfCreate, SnapshotsOfSupersede, SnapshotsOfChange DEF Commit

\* The one session reads the row it will use, and the ledger waits for it.
LEMMA LoadReads ==
    ASSUME ReviewInv, \A s, t \in Session : s = t, NEW s \in Session, Load(s)
    PROVE  ReadIsLast'
<1> DEFINE p == sessions[s].proposal
           c == sessions[s].click
           target == IF c.action = "treat_as_new" THEN NULL
                     ELSE First(c.target, proposals[p].target_ledger_item_id)
           read == IF target = NULL THEN NULL ELSE items[target]
           loaded == [sessions EXCEPT ![s].phase = "loaded", ![s].target = target,
                                      ![s].row = read]
<1>1. sessions[s] \in SessionRow /\ sessions \in [Session -> SessionRow]
  BY DEF ReviewInv, SessionsTyped
<1>2. items' = items
  BY DEF Load
<1>3. (\E o : sessions' = Answered(s, o)) \/ sessions' = loaded
  BY DEF Load
<1> HIDE DEF target
<1>4. CASE sessions' = loaded
  <2> HIDE DEF read
  <2>1. sessions'[s].target = target /\ sessions'[s].row = read
    BY <1>1, <1>4 DEF SessionRow
  <2> QED
    BY <1>2, <2>1 DEF ReadIsLast, read
<1>5. CASE \E o : sessions' = Answered(s, o)
  <2>1. sessions'[s].phase = "idle"
    BY <1>1, <1>5 DEF Answered, IdleSession
  <2> QED
    BY <2>1 DEF ReadIsLast
<1> QED
  BY <1>3, <1>4, <1>5

LEMMA SnapshotStep ==
    ASSUME \A s, t \in Session : s = t, OutcomeInv, SnapshotInv, [Next]_vars
    PROVE  SnapshotInv'
<1>1. ASSUME UNCHANGED <<items, versions, reviews>>
      PROVE  SnapshotsHonest' /\ PredecessorsStored'
  BY <1>1 DEF SnapshotInv, SnapshotsHonest, PredecessorsStored
<1>2. ASSUME NEW p \in ProposalId, Propose(p) PROVE SnapshotInv'
  BY <1>1, <1>2 DEF Propose, SnapshotInv, ReadIsLast
<1>3. ASSUME NEW s \in Session, NEW p \in ProposalId, RenderCard(s, p) PROVE SnapshotInv'
  <2>1. sessions'[s].phase = "card"
    BY <1>3 DEF RenderCard, IdleSession, OutcomeInv, ReviewInv, SessionsTyped
  <2> QED
    BY <1>1, <1>3, <2>1 DEF RenderCard, reviewVars, SnapshotInv, ReadIsLast
<1>4. ASSUME NEW s \in Session, Press(s) PROVE SnapshotInv'
  <2>1. sessions[s] \in SessionRow /\ sessions \in [Session -> SessionRow]
    BY DEF OutcomeInv, ReviewInv, SessionsTyped
  <2>2. sessions'[s].phase \in {"clicked", "idle"}
    <3>1. CASE IsPending(sessions[s].proposal)
      <4>1. PICK c : sessions' = [sessions EXCEPT ![s].phase = "clicked", ![s].click = c,
                                                  ![s].expected = TargetVersion(sessions[s].proposal)]
        BY <1>4, <3>1 DEF Press
      <4> QED
        BY <2>1, <4>1 DEF SessionRow
    <3>2. CASE ~IsPending(sessions[s].proposal)
      BY <1>4, <2>1, <3>2 DEF Press, IdleSession
    <3> QED
      BY <3>1, <3>2
  <2> QED
    BY <1>1, <1>4, <2>2 DEF Press, reviewVars, SnapshotInv, ReadIsLast
<1>5. ASSUME NEW s \in Session, Load(s) PROVE SnapshotInv'
  BY <1>1, <1>5, LoadReads DEF Load, reviewVars, SnapshotInv, OutcomeInv
<1>6. ASSUME NEW s \in Session, Commit(s) PROVE SnapshotInv'
  BY <1>6, SnapshotsOfCommit, CommitEndsReading DEF SnapshotInv, OutcomeInv
<1>7. CASE UNCHANGED vars
  BY <1>7 DEF vars, SnapshotInv, SnapshotsHonest, PredecessorsStored, ReadIsLast
<1> QED
  BY <1>2, <1>3, <1>4, <1>5, <1>6, <1>7 DEF Next

\* With a single browser session, whatever it decides and in whatever order, every
\* review shows the item as it was before its change and as it is after.  (With two it
\* does not: another session's transaction may fall between the row's read and its use.)
THEOREM ReviewSnapshots == (\A s, t \in Session : s = t) => (Spec => []SnapshotsHonest)
<1> SUFFICES ASSUME \A s, t \in Session : s = t PROVE Spec => []SnapshotsHonest
  OBVIOUS
<1>1. Init => SnapshotInv
  <2> SUFFICES ASSUME Init PROVE SnapshotInv
    OBVIOUS
  <2>1. DOMAIN versions = {} /\ \A s \in Session : sessions[s].phase = "idle"
    BY DEF Init, LedgerInit, IdleSession
  <2> QED
    BY <2>1 DEF SnapshotInv, SnapshotsHonest, PredecessorsStored, ReadIsLast
<1>2. OutcomeInv /\ SnapshotInv /\ [Next]_vars => SnapshotInv'
  BY SnapshotStep
<1>3. SnapshotInv => SnapshotsHonest
  BY DEF SnapshotInv
<1> QED
  BY <1>1, <1>2, <1>3, OutcomeAlways, PTL DEF Spec

-----------------------------------------------------------------------------
(* Review implements its promise. *)

\* The refinement mapping, proposal by proposal and item by item.
DecisionNow(p) ==
    IF p \notin DOMAIN proposals THEN "none"
    ELSE CASE proposals[p].status = "pending"  -> "pending"
           [] proposals[p].status = "rejected" -> "rejected"
           [] OTHER                            -> "accepted"

LedgerNow(i) ==
    IF i \in DOMAIN items
    THEN [kind |-> items[i].kind, status |-> items[i].status]
    ELSE [kind |-> Absent, status |-> Absent]

Decided == [p \in ProposalId |-> DecisionNow(p)]

Held == [i \in ItemId |-> LedgerNow(i)]

\* A step of the promise, in these terms.
Kept ==
    \/ \E p \in ProposalId :
          \/ /\ Decided[p] = "none" /\ Decided' = [Decided EXCEPT ![p] = "pending"]
             /\ Held' = Held
          \/ /\ Decided[p] = "pending" /\ Decided' = [Decided EXCEPT ![p] = "rejected"]
             /\ Held' = Held
          \/ /\ Decided[p] = "pending" /\ Decided' = [Decided EXCEPT ![p] = "accepted"]
             /\ \/ Held' = Held
                \/ \E i \in ItemId :
                      \/ \E kind \in Kinds : Promise!Created(i, kind)
                      \/ \E type \in {"update", "complete", "cancel", "resolve"},
                            status \in Statuses : Promise!Moved(i, type, status)
                      \/ \E new \in ItemId, kind \in Kinds : Promise!Replaced(i, new, kind)
    \/ Decided' = Decided /\ Held' = Held

LEMMA KeptIs == Kept => [Promise!PromiseNext]_(Promise!promiseVars)
  BY DEF Kept, Decided, Held, DecisionNow, LedgerNow, Promise!PromiseNext, Promise!promiseVars,
         Promise!Raise, Promise!Reject, Promise!AcceptProposal, Promise!Turn, Promise!Kinds,
         Kinds, Promise!Statuses, Statuses

LEMMA SameRules ==
    /\ \A kind, from, to, type :
          Promise!validate_transition(kind, from, to, type)
              <=> validate_transition(kind, from, to, type)
    /\ \A kind : Promise!New(kind) = [kind |-> kind, status |-> INITIAL_STATUS_BY_KIND[kind]]
    /\ Promise!NoItem = [kind |-> Absent, status |-> Absent]
  BY DEF Promise!validate_transition, validate_transition, Promise!VALID_STATUSES_BY_KIND,
         VALID_STATUSES_BY_KIND, Promise!ALLOWED_FROM_STATUSES, ALLOWED_FROM_STATUSES,
         Promise!TransitionTypes, TransitionTypes, Promise!TERMINAL_STATUSES, TERMINAL_STATUSES,
         Promise!NON_TERMINAL_STATUSES, NON_TERMINAL_STATUSES, Promise!Statuses, Statuses,
         Promise!Absent, Absent, Promise!FIXED_TARGET_STATUS, FIXED_TARGET_STATUS,
         Promise!INITIAL_STATUS_BY_KIND, INITIAL_STATUS_BY_KIND, Promise!Kinds, Kinds,
         Promise!New, Promise!NoItem

\* Where the decisions and the ledger of the promise stand after a step.
LEMMA DecidedStep ==
    ASSUME NEW p \in ProposalId, NEW d, DecisionNow(p)' = d,
           \A q \in ProposalId \ {p} : DecisionNow(q)' = DecisionNow(q)
    PROVE  Decided' = [Decided EXCEPT ![p] = d]
  BY DEF Decided

LEMMA HeldSame ==
    ASSUME UNCHANGED items
    PROVE  Held' = Held
  BY DEF Held, LedgerNow

LEMMA DecidesStep ==
    ASSUME NEW p, NEW a, NEW status, Decides(p, a, status)
    PROVE  /\ p \in ProposalId
           /\ Decided[p] = "pending"
           /\ status = "rejected" => Decided' = [Decided EXCEPT ![p] = "rejected"]
           /\ status \in Accepted => Decided' = [Decided EXCEPT ![p] = "accepted"]
<1>1. /\ p \in ProposalId
      /\ DecisionNow(p) = "pending"
      /\ status = "rejected" => DecisionNow(p)' = "rejected"
      /\ status \in Accepted => DecisionNow(p)' = "accepted"
  BY DEF Decides, DecisionNow, Accepted
<1>2. \A q \in ProposalId \ {p} : DecisionNow(q)' = DecisionNow(q)
  BY DEF Decides, DecisionNow
<1>3. Decided[p] = DecisionNow(p)
  BY <1>1 DEF Decided
<1> HIDE DEF DecisionNow
<1> QED
  BY <1>1, <1>2, <1>3, DecidedStep

LEMMA KeptStep ==
    ASSUME ReviewInv, Effect
    PROVE  Kept
<1>1. ASSUME UNCHANGED <<items, proposals>> PROVE Kept
  BY <1>1 DEF Kept, Decided, Held, DecisionNow, LedgerNow
<1>2. ASSUME UNCHANGED items, NEW p, Raised(p) PROVE Kept
  <2>1. p \in ProposalId /\ DecisionNow(p) = "none" /\ DecisionNow(p)' = "pending"
    BY <1>2 DEF Raised, DecisionNow
  <2>2. \A q \in ProposalId \ {p} : DecisionNow(q)' = DecisionNow(q)
    BY <1>2 DEF Raised, DecisionNow
  <2>3. Decided[p] = "none"
    BY <2>1 DEF Decided
  <2>4. Decided' = [Decided EXCEPT ![p] = "pending"]
    BY <2>1, <2>2, DecidedStep
  <2> QED
    BY <1>2, <2>1, <2>3, <2>4, HeldSame DEF Kept
<1>3. ASSUME UNCHANGED items, NEW p, Decides(p, "reject", "rejected") PROVE Kept
  BY <1>3, DecidesStep, HeldSame DEF Kept
<1>4. ASSUME NEW p, NEW a, NEW status \in Accepted, Decides(p, a, status), Settles(p)
      PROVE  Kept
  <2>1. /\ p \in ProposalId /\ Decided[p] = "pending"
        /\ Decided' = [Decided EXCEPT ![p] = "accepted"]
    BY <1>4, DecidesStep
  <2>2. CASE UNCHANGED items
    BY <2>1, <2>2, HeldSame DEF Kept
  <2>3. ASSUME NEW i \in ItemId, CreateDone(p, i) PROVE Kept
    <3>0. PICK kind \in Kinds : kind = items'[i].kind
      BY <2>3 DEF CreateDone
    <3>1. kind \in Kinds /\ i \notin DOMAIN items
      BY <2>3 DEF CreateDone
    <3>2. Held[i] = Promise!NoItem
      BY <3>1, SameRules DEF Held, LedgerNow
    <3>3. /\ LedgerNow(i)' = Promise!New(kind)
          /\ \A j \in ItemId \ {i} : LedgerNow(j)' = LedgerNow(j)
      BY <2>3, <3>0, SameRules DEF CreateDone, LedgerNow
    <3>4. Held' = [Held EXCEPT ![i] = Promise!New(kind)]
      BY <3>3 DEF Held
    <3>5. Promise!Created(i, kind)
      BY <3>2, <3>4 DEF Promise!Created, Held, LedgerNow
    <3> QED
      BY <2>1, <3>1, <3>5 DEF Kept
  <2>4. ASSUME NEW i, NEW type, NEW st, ChangeDone(p, i, type, st) PROVE Kept
    <3>1. /\ i \in DOMAIN items /\ i \in ItemId /\ items[i] \in ItemRow
          /\ st \in Statuses /\ type \in {"update", "complete", "cancel", "resolve"}
      BY <2>4 DEF ChangeDone, ReviewInv, LedgerInv, LedgerTypeOK, Typed
    <3>2. Held[i] = [kind |-> items[i].kind, status |-> items[i].status]
      BY <3>1 DEF Held, LedgerNow
    <3>3. Held[i] # Promise!NoItem
      <4>1. items[i].kind # Absent
        BY <3>1 DEF ItemRow, Kinds, Absent
      <4> QED
        BY <3>2, <4>1, SameRules
    <3>4. Promise!validate_transition(Held[i].kind, Held[i].status, st, type)
      BY <2>4, <3>2, SameRules DEF ChangeDone
    <3>5. /\ LedgerNow(i)' = [LedgerNow(i) EXCEPT !.status = st]
          /\ \A j \in ItemId \ {i} : LedgerNow(j)' = LedgerNow(j)
      BY <2>4, <3>1 DEF ChangeDone, LedgerNow
    <3>6. Held' = [Held EXCEPT ![i].status = st]
      BY <3>5 DEF Held
    <3>7. Promise!Moved(i, type, st)
      BY <3>3, <3>4, <3>6 DEF Promise!Moved, Held, LedgerNow
    <3> QED
      BY <2>1, <3>1, <3>7 DEF Kept
  <2>5. ASSUME NEW old \in ItemId, NEW new \in ItemId, SupersedeDone(p, old, new) PROVE Kept
    <3>0. PICK kind \in Kinds : kind = items'[new].kind
      BY <2>5 DEF SupersedeDone
    <3>1. /\ old \in DOMAIN items /\ new \notin DOMAIN items /\ kind \in Kinds
          /\ items[old] \in ItemRow
      BY <2>5 DEF SupersedeDone, ReviewInv, LedgerInv, LedgerTypeOK, Typed
    <3>2. /\ Held[old] = [kind |-> items[old].kind, status |-> items[old].status]
          /\ Held[new] = Promise!NoItem
      BY <3>1, SameRules DEF Held, LedgerNow
    <3>3. Held[old] # Promise!NoItem
      <4>1. items[old].kind # Absent
        BY <3>1 DEF ItemRow, Kinds, Absent
      <4> QED
        BY <3>2, <4>1, SameRules
    <3>4. Promise!validate_transition(Held[old].kind, Held[old].status, "superseded", "supersede")
      BY <2>5, <3>2, SameRules DEF SupersedeDone
    <3>5. /\ LedgerNow(old)' = [LedgerNow(old) EXCEPT !.status = "superseded"]
          /\ LedgerNow(new)' = Promise!New(kind)
          /\ \A j \in ItemId \ {old, new} : LedgerNow(j)' = LedgerNow(j)
      BY <2>5, <3>0, <3>1, SameRules DEF SupersedeDone, LedgerNow
    <3>6. Held' = [Held EXCEPT ![old].status = "superseded", ![new] = Promise!New(kind)]
      BY <3>1, <3>5 DEF Held
    <3>7. Promise!Replaced(old, new, kind)
      BY <3>2, <3>3, <3>4, <3>6 DEF Promise!Replaced, Held, LedgerNow
    <3> QED
      BY <2>1, <3>1, <3>7 DEF Kept
  <2> QED
    BY <1>4, <2>2, <2>3, <2>4, <2>5 DEF Settles
<1> QED
  BY <1>1, <1>2, <1>3, <1>4 DEF Effect

LEMMA PromiseBegins == Init => Promise!PromiseInit
<1> SUFFICES ASSUME Init PROVE Promise!PromiseInit
  OBVIOUS
<1>1. DOMAIN items = {} /\ DOMAIN proposals = {}
  BY DEF Init, LedgerInit
<1> QED
  BY <1>1, SameRules DEF Promise!PromiseInit

\* Every behaviour of review, whatever its sessions read and whenever they commit, is one
\* in which a proposal is decided once and the ledger moves only, and legally, in the step
\* that accepts one.
THEOREM ReviewKeepsPromise == Spec => KeepsPromise
<1>1. OutcomeInv /\ [Next]_vars => [Promise!PromiseNext]_(Promise!promiseVars)
  <2>1. OutcomeInv /\ [Next]_vars => Kept
    BY OutcomeStep, KeptStep DEF OutcomeInv
  <2> QED
    BY <2>1, KeptIs
<1> QED
  BY PromiseBegins, OutcomeAlways, <1>1, PTL DEF Spec, KeepsPromise, Promise!PromiseSpec
=============================================================================
