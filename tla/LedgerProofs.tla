---------------------------- MODULE LedgerProofs ----------------------------
(***************************************************************************)
(* Proofs about the ledger service, for any sets of items, owners and      *)
(* reviews and histories of any length.  The inductive invariant is the    *)
(* three invariants of MCLedger together: the next version number is the   *)
(* one after the current version's only because the current version is the *)
(* last of its chain, and that needs the tables' types.  The lemmas are    *)
(* about tables, not about the variables, so that they serve every         *)
(* transaction built from the same writes.                                 *)
(***************************************************************************)
EXTENDS Ledger, TLAPS

-----------------------------------------------------------------------------
(* Version numbers. *)

\* An element no other exceeds is the maximum.
LEMMA MaxIs ==
    ASSUME NEW S \in SUBSET Int, NEW m \in S, \A x \in S : x <= m
    PROVE  Max(S) = m
<1>1. \A y \in S : m >= y
  OBVIOUS
<1>2. \E x \in S : \A y \in S : x >= y
  BY <1>1
<1>3. /\ Max(S) \in S
      /\ \A y \in S : Max(S) >= y
  BY <1>2 DEF Max
<1>4. /\ Max(S) \in Int /\ m \in Int
      /\ Max(S) >= m /\ Max(S) <= m
  BY <1>3
<1> QED
  BY <1>4

\* The next version of a chain is numbered after its current one.
LEMMA NextVersionNo ==
    ASSUME NEW it, NEW vs, Typed(it, vs), Chained(it, vs), NEW i \in DOMAIN it
    PROVE  /\ it[i].current_version_id \in VersionId
           /\ it[i].current_version_id[1] = i
           /\ it[i].current_version_id[2] \in Nat \ {0}
           /\ next_version_no(vs, i) = it[i].current_version_id[2] + 1
<1> DEFINE current == it[i].current_version_id
           numbers == {v[2] : v \in VersionsOf(vs, i)} \cup {0}
<1>1. current \in VersionsOf(vs, i)
  BY DEF Chained
<1>2. \A v \in VersionsOf(vs, i) : v \in VersionId /\ v[1] = i /\ v[2] \in Nat \ {0}
  BY DEF VersionsOf, Typed, VersionId
<1>3. numbers \in SUBSET Int
  BY <1>2
<1>4. current[2] \in numbers
  BY <1>1
<1>5. \A n \in numbers : n <= current[2]
  <2>1. \A v \in VersionsOf(vs, i) : v[2] <= current[2]
    BY DEF Chained
  <2> QED
    BY <1>1, <1>2, <2>1
<1>6. Max(numbers) = current[2]
  BY <1>3, <1>4, <1>5, MaxIs
<1> QED
  BY <1>1, <1>2, <1>6 DEF next_version_no

\* A number not yet used by the item: the new version is a new row.
LEMMA NextVersionIsNew ==
    ASSUME NEW it, NEW vs, Typed(it, vs), Chained(it, vs), NEW i \in DOMAIN it
    PROVE  /\ <<i, next_version_no(vs, i)>> \in VersionId
           /\ <<i, next_version_no(vs, i)>> \notin DOMAIN vs
<1>1. i \in ItemId
  BY DEF Typed
<1>2. \A v \in VersionsOf(vs, i) : v[2] <= it[i].current_version_id[2]
  BY DEF Chained
<1>3. <<i, next_version_no(vs, i)>> \in VersionsOf(vs, i) =>
          next_version_no(vs, i) <= it[i].current_version_id[2]
  BY <1>2
<1> QED
  BY <1>1, <1>3, NextVersionNo DEF VersionsOf, VersionId

-----------------------------------------------------------------------------
(* The writes keep the tables well typed. *)

LEMMA CreatedTyped ==
    ASSUME NEW it, NEW vs, Typed(it, vs),
           NEW i \in ItemId, NEW kind \in Kinds, NEW owner \in Owner \cup {NULL},
           NEW review \in ProposalId \cup {NULL}
    PROVE  Typed(created_items(it, i, kind, owner),
                 created_versions(vs, i, kind, owner, review))
<1>1. INITIAL_STATUS_BY_KIND[kind] \in Statuses
  BY DEF INITIAL_STATUS_BY_KIND, Kinds, Statuses
<1>2. <<i, 1>> \in VersionId
  BY DEF VersionId
<1>3. created_items(it, i, kind, owner)
          \in [DOMAIN it \cup {i} -> ItemRow]
  BY <1>1, <1>2 DEF created_items, Put, Typed, ItemRow
<1>4. created_versions(vs, i, kind, owner, review)
          \in [DOMAIN vs \cup {<<i, 1>>} -> VersionRow]
  BY <1>1, <1>2 DEF created_versions, insert_version, Put, Typed, VersionRow,
                    TransitionTypes
<1> QED
  BY <1>2, <1>3, <1>4 DEF Typed

\* What append_ledger_version writes, column by column.
LEMMA AppendedItems ==
    ASSUME NEW it, NEW vs, Typed(it, vs), NEW i \in DOMAIN it,
           NEW status \in Statuses, NEW owner \in Owner \cup {NULL}, NEW corrected \in BOOLEAN,
           <<i, next_version_no(vs, i)>> \in VersionId
    PROVE  LET new == appended_items(it, vs, i, status, owner, corrected) IN
           /\ new \in [DOMAIN it -> ItemRow]
           /\ \A j \in DOMAIN it \ {i} : new[j] = it[j]
           /\ new[i].kind = it[i].kind
           /\ new[i].status = status
           /\ new[i].owner = carried(it, i, owner)
           /\ new[i].current_version_id = <<i, next_version_no(vs, i)>>
<1> DEFINE flag == it[i].user_corrected \/ corrected
           row == [it[i] EXCEPT !.status = status, !.owner = carried(it, i, owner),
                                !.current_version_id = <<i, next_version_no(vs, i)>>,
                                !.user_corrected = flag]
<1>1. flag \in BOOLEAN
  OBVIOUS
<1>2. it \in [DOMAIN it -> ItemRow] /\ it[i] \in ItemRow
  BY DEF Typed
<1>3. carried(it, i, owner) \in Owner \cup {NULL}
  BY <1>2 DEF carried, ItemRow
<1> HIDE DEF flag
<1>4. /\ row \in ItemRow
      /\ row.kind = it[i].kind
      /\ row.status = status
      /\ row.owner = carried(it, i, owner)
      /\ row.current_version_id = <<i, next_version_no(vs, i)>>
  BY <1>1, <1>2, <1>3 DEF ItemRow
<1>5. appended_items(it, vs, i, status, owner, corrected) = [it EXCEPT ![i] = row]
  BY <1>2 DEF appended_items, flag, ItemRow
<1> HIDE DEF row
<1> QED
  BY <1>2, <1>4, <1>5

\* newv is vs with one more version, and the one it continues closed in its favour.
Continued(vs, newv, old, v, row) ==
    /\ newv \in [DOMAIN vs \cup {v} -> VersionRow]
    /\ newv[v] = row
    /\ newv[old] = [vs[old] EXCEPT !.open = FALSE, !.superseded_by_version_id = v]
    /\ \A w \in DOMAIN vs \ {old} : newv[w] = vs[w]

\* The row append_ledger_version inserts.
NewVersion(it, i, type, status, owner, review) ==
    [status |-> status, owner |-> carried(it, i, owner), transition_type |-> type,
     from_version_id |-> it[i].current_version_id, review_id |-> review,
     open |-> TRUE, superseded_by_version_id |-> NULL]

LEMMA AppendedVersions ==
    ASSUME NEW it, NEW vs, Typed(it, vs), NEW i \in DOMAIN it,
           NEW type \in TransitionTypes, NEW status \in Statuses,
           NEW owner \in Owner \cup {NULL}, NEW review \in ProposalId \cup {NULL},
           it[i].current_version_id \in DOMAIN vs,
           <<i, next_version_no(vs, i)>> \in VersionId \ DOMAIN vs
    PROVE  Continued(vs, appended_versions(it, vs, i, type, status, owner, review),
                     it[i].current_version_id, <<i, next_version_no(vs, i)>>,
                     NewVersion(it, i, type, status, owner, review))
<1> DEFINE v == <<i, next_version_no(vs, i)>>
           old == it[i].current_version_id
           row == NewVersion(it, i, type, status, owner, review)
           closed == [vs[old] EXCEPT !.open = FALSE, !.superseded_by_version_id = v]
           inserted == Put(vs, v, row)
<1>1. vs \in [DOMAIN vs -> VersionRow] /\ vs[old] \in VersionRow /\ old \in VersionId
  BY DEF Typed, ItemRow
<1>2. row \in VersionRow
  <2>1. carried(it, i, owner) \in Owner \cup {NULL}
    BY DEF carried, Typed, ItemRow
  <2> QED
    BY <1>1, <2>1 DEF VersionRow, NewVersion
<1>3. closed \in VersionRow
  BY <1>1 DEF VersionRow
<1> HIDE DEF row
<1>4. /\ inserted \in [DOMAIN vs \cup {v} -> VersionRow]
      /\ inserted[v] = row
      /\ \A w \in DOMAIN vs : inserted[w] = vs[w]
  BY <1>1, <1>2 DEF Put
<1>5. appended_versions(it, vs, i, type, status, owner, review) = [inserted EXCEPT ![old] = closed]
  BY <1>4 DEF appended_versions, insert_version, close_version, row, NewVersion
<1> HIDE DEF inserted, closed
<1>6. [inserted EXCEPT ![old] = closed] \in [DOMAIN vs \cup {v} -> VersionRow]
  BY <1>3, <1>4
<1>7. [inserted EXCEPT ![old] = closed][v] = row
  BY <1>4
<1>8. [inserted EXCEPT ![old] = closed][old] = closed
  BY <1>4
<1>9. \A w \in DOMAIN vs \ {old} : [inserted EXCEPT ![old] = closed][w] = vs[w]
  BY <1>4
<1> QED
  BY <1>5, <1>6, <1>7, <1>8, <1>9 DEF row, closed, Continued

LEMMA AppendedTyped ==
    ASSUME NEW it, NEW vs, Typed(it, vs), Chained(it, vs), NEW i \in DOMAIN it,
           NEW type \in TransitionTypes, NEW status \in Statuses,
           NEW owner \in Owner \cup {NULL}, NEW corrected \in BOOLEAN,
           NEW review \in ProposalId \cup {NULL}
    PROVE  Typed(appended_items(it, vs, i, status, owner, corrected),
                 appended_versions(it, vs, i, type, status, owner, review))
<1>1. <<i, next_version_no(vs, i)>> \in VersionId \ DOMAIN vs
  BY NextVersionIsNew
<1>2. it[i].current_version_id \in DOMAIN vs
  BY DEF Chained, VersionsOf
<1>3. appended_items(it, vs, i, status, owner, corrected) \in [DOMAIN it -> ItemRow]
  BY <1>1, AppendedItems
<1>4. appended_versions(it, vs, i, type, status, owner, review)
          \in [DOMAIN vs \cup {<<i, next_version_no(vs, i)>>} -> VersionRow]
  BY <1>1, <1>2, AppendedVersions DEF Continued
<1> QED
  BY <1>1, <1>3, <1>4 DEF Typed

-----------------------------------------------------------------------------
(* The writes keep the chain and the projection. *)

LEMMA CreatedKeepsHistory ==
    ASSUME NEW it, NEW vs, Typed(it, vs), Chained(it, vs), Projected(it, vs),
           NEW i \in ItemId \ DOMAIN it, NEW kind \in Kinds, NEW owner \in Owner \cup {NULL},
           NEW review \in ProposalId \cup {NULL}
    PROVE  LET newi == created_items(it, i, kind, owner)
               newv == created_versions(vs, i, kind, owner, review)
           IN  Chained(newi, newv) /\ Projected(newi, newv)
<1> DEFINE newi == created_items(it, i, kind, owner)
           newv == created_versions(vs, i, kind, owner, review)
<1>1. <<i, 1>> \notin DOMAIN vs
  BY DEF Chained
<1>2. /\ DOMAIN newi = DOMAIN it \cup {i}
      /\ \A j \in DOMAIN it : newi[j] = it[j]
      /\ newi[i].current_version_id = <<i, 1>>
      /\ newi[i].status = INITIAL_STATUS_BY_KIND[kind]
      /\ newi[i].owner = owner
  BY DEF created_items, Put
<1>3. /\ DOMAIN newv = DOMAIN vs \cup {<<i, 1>>}
      /\ \A v \in DOMAIN vs : newv[v] = vs[v]
      /\ newv[<<i, 1>>].open
      /\ newv[<<i, 1>>].status = INITIAL_STATUS_BY_KIND[kind]
      /\ newv[<<i, 1>>].owner = owner
  BY <1>1 DEF created_versions, insert_version, Put
<1> HIDE DEF newi, newv
<1>4. VersionsOf(newv, i) = {<<i, 1>>}
  BY <1>3 DEF VersionsOf, Chained
<1>5. \A j \in DOMAIN it : VersionsOf(newv, j) = VersionsOf(vs, j)
  BY <1>3 DEF VersionsOf
<1>6. Chained(newi, newv)
  <2>1. \A v \in DOMAIN newv : v[1] \in DOMAIN newi
    BY <1>2, <1>3 DEF Chained
  <2>2. ASSUME NEW j \in DOMAIN newi
        PROVE  /\ newi[j].current_version_id \in VersionsOf(newv, j)
               /\ newv[newi[j].current_version_id].open
               /\ \A v \in VersionsOf(newv, j) :
                     /\ v[2] <= newi[j].current_version_id[2]
                     /\ v # newi[j].current_version_id =>
                           /\ ~newv[v].open
                           /\ newv[v].superseded_by_version_id = <<j, v[2] + 1>>
                           /\ <<j, v[2] + 1>> \in DOMAIN newv
                           /\ newv[<<j, v[2] + 1>>].from_version_id = v
    <3>1. CASE j = i
      BY <3>1, <1>2, <1>3, <1>4
    <3>2. CASE j # i
      BY <3>2, <1>2, <1>3, <1>5 DEF Chained, VersionsOf
    <3> QED
      BY <3>1, <3>2
  <2> QED
    BY <2>1, <2>2 DEF Chained
<1>7. Projected(newi, newv)
  <2>1. ASSUME NEW j \in DOMAIN it
        PROVE  newi[j] = it[j] /\ newv[it[j].current_version_id] = vs[it[j].current_version_id]
    BY <1>2, <1>3 DEF Chained, VersionsOf
  <2> QED
    BY <2>1, <1>2, <1>3 DEF Projected
<1> QED
  BY <1>6, <1>7 DEF newi, newv

LEMMA AppendedKeepsHistory ==
    ASSUME NEW it, NEW vs, Typed(it, vs), Chained(it, vs), Projected(it, vs),
           NEW i \in DOMAIN it, NEW type \in TransitionTypes, NEW status \in Statuses,
           NEW owner \in Owner \cup {NULL}, NEW corrected \in BOOLEAN,
           NEW review \in ProposalId \cup {NULL}
    PROVE  LET newi == appended_items(it, vs, i, status, owner, corrected)
               newv == appended_versions(it, vs, i, type, status, owner, review)
           IN  Chained(newi, newv) /\ Projected(newi, newv)
<1> DEFINE newi == appended_items(it, vs, i, status, owner, corrected)
           newv == appended_versions(it, vs, i, type, status, owner, review)
           new == <<i, next_version_no(vs, i)>>
           old == it[i].current_version_id
<1>1. /\ new \in VersionId \ DOMAIN vs
      /\ next_version_no(vs, i) = old[2] + 1
      /\ old \in VersionId /\ old = <<i, old[2]>> /\ old[2] \in Nat \ {0}
  BY NextVersionIsNew, NextVersionNo DEF VersionId
<1>2. old \in DOMAIN vs
  BY DEF Chained, VersionsOf
<1>3. /\ DOMAIN newi = DOMAIN it
      /\ \A j \in DOMAIN it \ {i} : newi[j] = it[j]
      /\ newi[i].status = status
      /\ newi[i].owner = carried(it, i, owner)
      /\ newi[i].current_version_id = new
  BY <1>1, AppendedItems
<1>4. Continued(vs, newv, old, new, NewVersion(it, i, type, status, owner, review))
  BY <1>1, <1>2, AppendedVersions
<1> HIDE DEF newi, newv
<1>5. /\ DOMAIN newv = DOMAIN vs \cup {new}
      /\ \A v \in DOMAIN vs \ {old} : newv[v] = vs[v]
      /\ ~newv[old].open
      /\ newv[old].superseded_by_version_id = new
      /\ newv[old].from_version_id = vs[old].from_version_id
  BY <1>2, <1>4 DEF Typed, VersionRow, Continued
<1>6. /\ newv[new].open
      /\ newv[new].status = status
      /\ newv[new].owner = carried(it, i, owner)
      /\ newv[new].from_version_id = old
  BY <1>4 DEF Continued, NewVersion
<1>7. VersionsOf(newv, i) = VersionsOf(vs, i) \cup {new}
  BY <1>5 DEF VersionsOf
<1>8. \A j \in DOMAIN it \ {i} : VersionsOf(newv, j) = VersionsOf(vs, j)
  BY <1>5 DEF VersionsOf
<1>9. Chained(newi, newv)
  <2>1. \A v \in DOMAIN newv : v[1] \in DOMAIN newi
    BY <1>3, <1>5 DEF Chained
  <2>2. ASSUME NEW j \in DOMAIN newi
        PROVE  /\ newi[j].current_version_id \in VersionsOf(newv, j)
               /\ newv[newi[j].current_version_id].open
               /\ \A v \in VersionsOf(newv, j) :
                     /\ v[2] <= newi[j].current_version_id[2]
                     /\ v # newi[j].current_version_id =>
                           /\ ~newv[v].open
                           /\ newv[v].superseded_by_version_id = <<j, v[2] + 1>>
                           /\ <<j, v[2] + 1>> \in DOMAIN newv
                           /\ newv[<<j, v[2] + 1>>].from_version_id = v
    <3>1. CASE j = i
      <4>1. new \in VersionsOf(newv, j) /\ newv[new].open
        BY <3>1, <1>6, <1>7
      <4>2. ASSUME NEW v \in VersionsOf(newv, j), v # new
            PROVE  /\ v[2] <= new[2]
                   /\ ~newv[v].open
                   /\ newv[v].superseded_by_version_id = <<j, v[2] + 1>>
                   /\ <<j, v[2] + 1>> \in DOMAIN newv
                   /\ newv[<<j, v[2] + 1>>].from_version_id = v
        <5>1. v \in VersionsOf(vs, i) /\ v \in DOMAIN vs /\ v[2] \in Nat /\ v[2] <= old[2]
          <6>1. v \in VersionsOf(vs, i) /\ v \in DOMAIN vs
            BY <3>1, <4>2, <1>7 DEF VersionsOf
          <6>2. v[2] \in Nat
            BY <6>1 DEF Typed, VersionId
          <6> QED
            BY <6>1, <6>2 DEF Chained
        <5>2. v[2] <= new[2]
          BY <5>1, <1>1
        <5>3. CASE v = old
          BY <5>2, <5>3, <3>1, <1>1, <1>5, <1>6
        <5>4. CASE v # old
          <6>1. /\ ~vs[v].open
                /\ vs[v].superseded_by_version_id = <<i, v[2] + 1>>
                /\ <<i, v[2] + 1>> \in DOMAIN vs
                /\ vs[<<i, v[2] + 1>>].from_version_id = v
            BY <5>1, <5>4 DEF Chained
          <6>2. newv[v] = vs[v]
            BY <5>1, <5>4, <1>5
          <6>3. newv[<<i, v[2] + 1>>].from_version_id = v
            BY <6>1, <1>5
          <6> QED
            BY <5>2, <6>1, <6>2, <6>3, <3>1, <1>5
        <5> QED
          BY <5>3, <5>4
      <4>3. new[2] <= new[2]
        BY <1>1
      <4> QED
        BY <3>1, <4>1, <4>2, <4>3, <1>3
    <3>2. CASE j # i
      <4>1. /\ j \in DOMAIN it
            /\ newi[j] = it[j]
            /\ VersionsOf(newv, j) = VersionsOf(vs, j)
            /\ \A v \in DOMAIN vs : v[1] = j => newv[v] = vs[v]
        BY <3>2, <1>1, <1>3, <1>5, <1>8
      <4>2. /\ it[j].current_version_id \in VersionsOf(vs, j)
            /\ vs[it[j].current_version_id].open
            /\ \A v \in VersionsOf(vs, j) :
                  /\ v[2] <= it[j].current_version_id[2]
                  /\ v # it[j].current_version_id =>
                        /\ ~vs[v].open
                        /\ vs[v].superseded_by_version_id = <<j, v[2] + 1>>
                        /\ <<j, v[2] + 1>> \in DOMAIN vs
                        /\ vs[<<j, v[2] + 1>>].from_version_id = v
        BY <4>1 DEF Chained
      <4> QED
        BY <4>1, <4>2, <1>5 DEF VersionsOf
    <3> QED
      BY <3>1, <3>2
  <2> QED
    BY <2>1, <2>2 DEF Chained
<1>10. Projected(newi, newv)
  <2>1. ASSUME NEW j \in DOMAIN it, j # i
        PROVE  newi[j] = it[j] /\ newv[it[j].current_version_id] = vs[it[j].current_version_id]
    BY <2>1, <1>1, <1>3, <1>5 DEF Chained, VersionsOf
  <2> QED
    BY <2>1, <1>3, <1>6 DEF Projected
<1> QED
  BY <1>9, <1>10 DEF newi, newv

-----------------------------------------------------------------------------
(* The invariant. *)

LedgerInv == LedgerTypeOK /\ ChainOK /\ ProjectionOK

LEMMA LedgerInitInv == LedgerInit => LedgerInv
<1> SUFFICES ASSUME LedgerInit PROVE LedgerInv
  OBVIOUS
<1>1. DOMAIN items = {} /\ DOMAIN versions = {}
  BY DEF LedgerInit
<1>2. items \in [DOMAIN items -> ItemRow] /\ versions \in [DOMAIN versions -> VersionRow]
  BY <1>1 DEF LedgerInit
<1> QED
  BY <1>1, <1>2 DEF LedgerInv, LedgerTypeOK, Typed, ChainOK, Chained, ProjectionOK, Projected

LEMMA LedgerNextInv == LedgerInv /\ [LedgerNext]_ledgerVars => LedgerInv'
<1> SUFFICES ASSUME LedgerInv, [LedgerNext]_ledgerVars PROVE LedgerInv'
  OBVIOUS
<1> USE DEF LedgerInv, LedgerTypeOK, ChainOK, ProjectionOK
<1>1. ASSUME NEW i \in ItemId, NEW owner \in Owner \cup {NULL},
             NEW review \in ProposalId \cup {NULL}, NEW kind \in Kinds,
             CreateItem(i, kind, owner, review)
      PROVE  LedgerInv'
  BY <1>1, CreatedTyped, CreatedKeepsHistory DEF CreateItem
<1>2. ASSUME NEW i \in ItemId, NEW owner \in Owner \cup {NULL},
             NEW review \in ProposalId \cup {NULL}, NEW type \in TransitionTypes,
             NEW status \in Statuses, NEW corrected \in BOOLEAN,
             AppendVersion(i, type, status, owner, corrected, review)
      PROVE  LedgerInv'
  BY <1>2, AppendedTyped, AppendedKeepsHistory DEF AppendVersion
<1>3. CASE UNCHANGED ledgerVars
  BY <1>3 DEF ledgerVars, Typed, Chained, Projected, VersionsOf
<1> QED
  BY <1>1, <1>2, <1>3 DEF LedgerNext

\* The invariants of MCLedger hold of every ledger, however many items and versions
\* it has: the tables are well typed, every history is one chain ending in the
\* current version, and the projection shows that version's values.
THEOREM LedgerCorrect == LedgerSpec => [](LedgerTypeOK /\ ChainOK /\ ProjectionOK)
<1>1. LedgerInv => LedgerTypeOK /\ ChainOK /\ ProjectionOK
  BY DEF LedgerInv
<1> QED
  BY LedgerInitInv, LedgerNextInv, <1>1, PTL DEF LedgerSpec

\* The rows of both tables keep the types of their columns, after any sequence of the
\* service's calls and for any number of items.
THEOREM LedgerTyped == LedgerSpec => []LedgerTypeOK
BY LedgerCorrect, PTL

\* What the items table shows of an item - status, owner - is what its current
\* version recorded, after any sequence of the service's calls.
THEOREM LedgerProjects == LedgerSpec => []ProjectionOK
BY LedgerCorrect, PTL

-----------------------------------------------------------------------------
(* The action properties. *)

\* What each kind of step does to the versions there already are.
LEMMA CreateAddsOnly ==
    ASSUME LedgerInv, NEW i \in ItemId, NEW kind \in Kinds, NEW owner \in Owner \cup {NULL},
           NEW review \in ProposalId \cup {NULL}, CreateItem(i, kind, owner, review)
    PROVE  /\ DOMAIN versions \subseteq DOMAIN versions'
           /\ \A v \in DOMAIN versions : versions'[v] = versions[v]
           /\ \A j \in DOMAIN items : items'[j] = items[j]
<1>1. i \notin DOMAIN items /\ <<i, 1>> \notin DOMAIN versions
  BY DEF LedgerInv, ChainOK, Chained, CreateItem
<1> QED
  BY <1>1 DEF CreateItem, created_items, created_versions, insert_version, Put

LEMMA AppendContinues ==
    ASSUME LedgerInv, NEW i \in ItemId, NEW type \in TransitionTypes, NEW status \in Statuses,
           NEW owner \in Owner \cup {NULL}, NEW corrected \in BOOLEAN,
           NEW review \in ProposalId \cup {NULL},
           AppendVersion(i, type, status, owner, corrected, review)
    PROVE  LET old == items[i].current_version_id
               new == <<i, next_version_no(versions, i)>>
           IN  /\ new \notin DOMAIN versions
               /\ old \in DOMAIN versions
               /\ versions[old].open
               /\ Continued(versions, versions', old, new,
                            NewVersion(items, i, type, status, owner, review))
<1>1. Typed(items, versions) /\ Chained(items, versions) /\ i \in DOMAIN items
  BY DEF LedgerInv, LedgerTypeOK, ChainOK, AppendVersion
<1>2. <<i, next_version_no(versions, i)>> \in VersionId \ DOMAIN versions
  BY <1>1, NextVersionIsNew
<1>3. items[i].current_version_id \in DOMAIN versions
  BY <1>1 DEF Chained, VersionsOf
<1>4. versions[items[i].current_version_id].open
  BY <1>1 DEF Chained
<1>5. Continued(versions,
                appended_versions(items, versions, i, type, status, owner, review),
                items[i].current_version_id, <<i, next_version_no(versions, i)>>,
                NewVersion(items, i, type, status, owner, review))
  BY <1>1, <1>2, <1>3, AppendedVersions
<1> QED
  BY <1>2, <1>3, <1>4, <1>5 DEF AppendVersion

\* An open version points nowhere yet: closing it moves no pointer.
OpenUnlinked ==
    \A v \in DOMAIN versions : versions[v].open => versions[v].superseded_by_version_id = NULL

VersionKept(v) ==
    /\ v \in DOMAIN versions'
    /\ \A f \in {"status", "owner", "transition_type", "from_version_id", "review_id"} :
          versions'[v][f] = versions[v][f]
    /\ versions'[v].open => versions[v].open
    /\ versions[v].superseded_by_version_id \in {NULL, versions'[v].superseded_by_version_id}

LEMMA StepKeepsVersions ==
    ASSUME LedgerInv, OpenUnlinked, [LedgerNext]_ledgerVars
    PROVE  OpenUnlinked' /\ \A v \in DOMAIN versions : VersionKept(v)
<1>1. ASSUME NEW i \in ItemId, NEW owner \in Owner \cup {NULL},
             NEW review \in ProposalId \cup {NULL}, NEW kind \in Kinds,
             CreateItem(i, kind, owner, review)
      PROVE  OpenUnlinked' /\ \A v \in DOMAIN versions : VersionKept(v)
  <2>1. \A v \in DOMAIN versions : v \in DOMAIN versions' /\ versions'[v] = versions[v]
    BY <1>1, CreateAddsOnly
  <2>2. \A v \in DOMAIN versions : VersionKept(v)
    BY <2>1 DEF VersionKept
  <2>3. \A v \in DOMAIN versions' \ DOMAIN versions :
            versions'[v].superseded_by_version_id = NULL
    BY <1>1 DEF CreateItem, created_versions, insert_version, Put
  <2> QED
    BY <2>1, <2>2, <2>3 DEF OpenUnlinked
<1>2. ASSUME NEW i \in ItemId, NEW owner \in Owner \cup {NULL},
             NEW review \in ProposalId \cup {NULL}, NEW type \in TransitionTypes,
             NEW status \in Statuses, NEW corrected \in BOOLEAN,
             AppendVersion(i, type, status, owner, corrected, review)
      PROVE  OpenUnlinked' /\ \A v \in DOMAIN versions : VersionKept(v)
  <2> DEFINE old == items[i].current_version_id
             new == <<i, next_version_no(versions, i)>>
             row == NewVersion(items, i, type, status, owner, review)
  <2>1. /\ new \notin DOMAIN versions
        /\ old \in DOMAIN versions
        /\ versions[old].open
        /\ Continued(versions, versions', old, new, row)
    BY <1>2, AppendContinues
  <2>2. versions \in [DOMAIN versions -> VersionRow]
    BY DEF LedgerInv, LedgerTypeOK, Typed
  <2>3. row.superseded_by_version_id = NULL
    BY DEF NewVersion
  <2> HIDE DEF old, new, row
  <2>4. /\ DOMAIN versions' = DOMAIN versions \cup {new}
        /\ versions'[new] = row
        /\ versions'[old] = [versions[old] EXCEPT !.open = FALSE,
                                                 !.superseded_by_version_id = new]
        /\ \A w \in DOMAIN versions \ {old} : versions'[w] = versions[w]
    BY <2>1 DEF Continued
  <2>5. VersionKept(old)
    <3>1. versions[old] \in VersionRow
      BY <2>1, <2>2
    <3>2. \A f \in {"status", "owner", "transition_type", "from_version_id", "review_id"} :
              versions'[old][f] = versions[old][f]
      BY <2>4, <3>1 DEF VersionRow
    <3>3. versions[old].superseded_by_version_id = NULL /\ ~versions'[old].open
      BY <2>1, <2>4, <3>1 DEF OpenUnlinked, VersionRow
    <3> QED
      BY <2>1, <2>4, <3>2, <3>3 DEF VersionKept
  <2>6. \A w \in DOMAIN versions \ {old} : VersionKept(w)
    BY <2>4 DEF VersionKept
  <2>7. OpenUnlinked'
    <3>1. ~versions'[old].open
      BY <2>1, <2>2, <2>4 DEF VersionRow
    <3> QED
      BY <2>3, <2>4, <3>1 DEF OpenUnlinked
  <2> QED
    BY <2>5, <2>6, <2>7
<1>3. CASE UNCHANGED ledgerVars
  BY <1>3 DEF ledgerVars, OpenUnlinked, VersionKept
<1> QED
  BY <1>1, <1>2, <1>3 DEF LedgerNext

\* History is append-only in every execution of the service: a version is never
\* removed, rewritten or reopened, and its pointer, once set, is not moved.
THEOREM LedgerHistory == LedgerSpec => AppendOnly
<1> DEFINE Kept == \A v \in DOMAIN versions : VersionKept(v)
           Inv == LedgerInv /\ OpenUnlinked
<1>1. LedgerInit => Inv
  BY LedgerInitInv DEF LedgerInit, OpenUnlinked
<1>2. Inv /\ [LedgerNext]_ledgerVars => Inv' /\ Kept
  BY LedgerNextInv, StepKeepsVersions
<1>3. Inv /\ [LedgerNext]_ledgerVars => [Kept]_ledgerVars
  BY <1>2
<1>4. LedgerSpec => [][Kept]_ledgerVars
  BY <1>1, <1>2, <1>3, PTL DEF LedgerSpec
<1> QED
  BY <1>4 DEF AppendOnly, VersionKept

\* A status changes only to one the item's kind allows, and leaves a terminal status
\* only by reopen or correct, in every execution of the service.
StatusMoved(i) ==
    items'[i].status # items[i].status =>
        /\ items'[i].kind = items[i].kind
        /\ items'[i].status \in VALID_STATUSES_BY_KIND[items[i].kind]
        /\ items[i].status \in TERMINAL_STATUSES =>
              versions'[items'[i].current_version_id].transition_type \in {"reopen", "correct"}

LEMMA StepMovesStatusLegally ==
    ASSUME LedgerInv, [LedgerNext]_ledgerVars
    PROVE  \A j \in DOMAIN items : StatusMoved(j)
<1>1. ASSUME NEW i \in ItemId, NEW owner \in Owner \cup {NULL},
             NEW review \in ProposalId \cup {NULL}, NEW kind \in Kinds,
             CreateItem(i, kind, owner, review)
      PROVE  \A j \in DOMAIN items : StatusMoved(j)
  BY <1>1, CreateAddsOnly DEF StatusMoved
<1>2. ASSUME NEW i \in ItemId, NEW owner \in Owner \cup {NULL},
             NEW review \in ProposalId \cup {NULL}, NEW type \in TransitionTypes,
             NEW status \in Statuses, NEW corrected \in BOOLEAN,
             AppendVersion(i, type, status, owner, corrected, review)
      PROVE  \A j \in DOMAIN items : StatusMoved(j)
  <2> DEFINE new == <<i, next_version_no(versions, i)>>
             row == NewVersion(items, i, type, status, owner, review)
  <2>1. Typed(items, versions) /\ Chained(items, versions) /\ i \in DOMAIN items
    BY <1>2 DEF LedgerInv, LedgerTypeOK, ChainOK, AppendVersion
  <2>2. new \in VersionId
    BY <2>1, NextVersionIsNew
  <2>3. /\ \A j \in DOMAIN items \ {i} : items'[j] = items[j]
        /\ items'[i].kind = items[i].kind
        /\ items'[i].status = status
        /\ items'[i].current_version_id = new
    BY <1>2, <2>1, <2>2, AppendedItems DEF AppendVersion
  <2>4. versions'[new].transition_type = type
    <3>1. Continued(versions, versions', items[i].current_version_id, new, row)
      BY <1>2, AppendContinues
    <3>2. versions'[new] = row
      BY <3>1 DEF Continued
    <3> QED
      BY <3>2 DEF NewVersion
  <2>5. /\ status \in VALID_STATUSES_BY_KIND[items[i].kind]
        /\ items[i].status \in ALLOWED_FROM_STATUSES[type]
    BY <1>2 DEF AppendVersion, validate_transition
  <2>6. items[i].status \in TERMINAL_STATUSES => type \in {"reopen", "correct"}
    <3>1. CASE type = "create"
      BY <3>1, <2>5 DEF ALLOWED_FROM_STATUSES, TERMINAL_STATUSES, TransitionTypes, Absent, Statuses
    <3>2. CASE type \notin {"create", "reopen", "correct"}
      <4>1. ALLOWED_FROM_STATUSES[type] = NON_TERMINAL_STATUSES
        BY <3>2 DEF ALLOWED_FROM_STATUSES
      <4> QED
        BY <4>1, <2>5 DEF TERMINAL_STATUSES
    <3> QED
      BY <3>1, <3>2
  <2>7. StatusMoved(i)
    BY <2>3, <2>4, <2>5, <2>6 DEF StatusMoved
  <2> QED
    BY <2>3, <2>7 DEF StatusMoved
<1>3. CASE UNCHANGED ledgerVars
  BY <1>3 DEF ledgerVars, StatusMoved
<1> QED
  BY <1>1, <1>2, <1>3 DEF LedgerNext

\* The same, as the action property MCLedger checks.
THEOREM LedgerLifecycle == LedgerSpec => LegalLifecycle
<1> DEFINE Moved == \A i \in DOMAIN items : StatusMoved(i)
<1>1. LedgerInv /\ [LedgerNext]_ledgerVars => [Moved]_ledgerVars
  BY StepMovesStatusLegally
<1>2. LedgerSpec => [][Moved]_ledgerVars
  BY <1>1, LedgerInitInv, LedgerNextInv, PTL DEF LedgerSpec
<1> QED
  BY <1>2 DEF LegalLifecycle, StatusMoved
=============================================================================
