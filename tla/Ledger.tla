------------------------------- MODULE Ledger -------------------------------
(***************************************************************************)
(* The two ledger tables and the writes services/ledger.py and             *)
(* db/ledger_repository.py make to them.                                   *)
(*                                                                         *)
(*   items     ledger_items, the current projection: one row per item      *)
(*   versions  ledger_versions, the append-only history                    *)
(*                                                                         *)
(* A table is a function from the keys of its rows.  A version is keyed by *)
(* <<ledger_item_id, version_no>>, unique by uq_ledger_versions_item_      *)
(* version_no; that pair stands for the row's ULID wherever another row    *)
(* refers to it.  owner stands for every field an update may carry forward *)
(* or overwrite (owner_person_id, due_date); wording, dates of effect and  *)
(* confidence are left out.  A review is named by the proposal it decides  *)
(* (uq_reviews_proposal).                                                  *)
(*                                                                         *)
(* The operators named *_items and *_versions return a table after a       *)
(* write, so that a transaction of several writes is their composition.    *)
(* LedgerSpec drives them as the service functions allow, with any of the  *)
(* eight transition types; module Review drives them as the application    *)
(* does.  An operator commented "faulty" is not part of the model of the   *)
(* code: it is a bug some property must catch.                             *)
(***************************************************************************)
EXTENDS LedgerRules, Integers, FiniteSetsExt

CONSTANTS
    ItemId,         \* ids of ledger items
    Owner,          \* values of an item's carried-forward field
    ProposalId,     \* ids of proposals, and so of the reviews deciding them
    NULL,           \* SQL NULL / Python None
    MaxVersionNo    \* bound of LedgerSpec: versions per item

ASSUME NullAssumption ==
    /\ NULL \notin ItemId
    /\ NULL \notin Owner
    /\ NULL \notin ProposalId
    /\ NULL \notin ItemId \X (Nat \ {0})

VARIABLES items, versions

ledgerVars == <<items, versions>>

VersionId == ItemId \X (Nat \ {0})

ItemRow ==
    [kind: Kinds, status: Statuses, owner: Owner \cup {NULL},
     current_version_id: VersionId, user_corrected: BOOLEAN,
     superseded_by_item_id: ItemId \cup {NULL},
     supersedes_item_id: ItemId \cup {NULL}]

ASSUME RowAssumption == NULL \notin ItemRow

VersionRow ==
    [status: Statuses, owner: Owner \cup {NULL},
     transition_type: TransitionTypes, from_version_id: VersionId \cup {NULL},
     review_id: ProposalId \cup {NULL}, open: BOOLEAN,   \* valid_to IS NULL
     superseded_by_version_id: VersionId \cup {NULL}]

-----------------------------------------------------------------------------
(* Writes. *)

\* The table with the row at key inserted or overwritten.
Put(table, key, row) ==
    [k \in DOMAIN table \cup {key} |-> IF k = key THEN row ELSE table[k]]

VersionsOf(vs, i) == {v \in DOMAIN vs : v[1] = i}

\* Faulty: the last number again, not the one after it.
last_version_no(vs, i) == Max({v[2] : v \in VersionsOf(vs, i)} \cup {1})

next_version_no(vs, i) == Max({v[2] : v \in VersionsOf(vs, i)} \cup {0}) + 1

insert_version(vs, v, type, status, owner, from, review) ==
    Put(vs, v, [status |-> status, owner |-> owner, transition_type |-> type,
                from_version_id |-> from, review_id |-> review, open |-> TRUE,
                superseded_by_version_id |-> NULL])

\* Faulty: valid_to is not set.
point_version(vs, v, by) == [vs EXCEPT ![v].superseded_by_version_id = by]

close_version(vs, v, by) ==
    [vs EXCEPT ![v].open = FALSE, ![v].superseded_by_version_id = by]

\* Faulty: the pointer to version 1 is not set.
created_items_unpointed(it, i, kind, owner) ==
    Put(it, i, [kind |-> kind, status |-> INITIAL_STATUS_BY_KIND[kind],
                owner |-> owner, current_version_id |-> NULL,
                user_corrected |-> FALSE,
                superseded_by_item_id |-> NULL, supersedes_item_id |-> NULL])

\* Faulty: every kind starts out active.
created_items_active(it, i, kind, owner) ==
    Put(it, i, [kind |-> kind, status |-> "active",
                owner |-> owner, current_version_id |-> <<i, 1>>,
                user_corrected |-> FALSE,
                superseded_by_item_id |-> NULL, supersedes_item_id |-> NULL])

\* create_ledger_item: item row, version 1, pointer, in one transaction.
created_items(it, i, kind, owner) ==
    Put(it, i, [kind |-> kind, status |-> INITIAL_STATUS_BY_KIND[kind],
                owner |-> owner, current_version_id |-> <<i, 1>>,
                user_corrected |-> FALSE,
                superseded_by_item_id |-> NULL, supersedes_item_id |-> NULL])

created_versions(vs, i, kind, owner, review) ==
    insert_version(vs, <<i, 1>>, "create", INITIAL_STATUS_BY_KIND[kind], owner,
                   NULL, review)

\* Faulty: a field left None becomes NULL.
not_carried(it, i, owner) == owner

\* A field left None carries the item's current value forward.
carried(it, i, owner) == IF owner = NULL THEN it[i].owner ELSE owner

\* Faulty: the projection takes None for a value.
appended_items_uncarried(it, vs, i, status, owner, corrected) ==
    [it EXCEPT ![i].status = status,
               ![i].owner = owner,
               ![i].current_version_id = <<i, next_version_no(vs, i)>>,
               ![i].user_corrected = @ \/ corrected]

\* Faulty: user_corrected is not passed on.
appended_items_unflagged(it, vs, i, status, owner, corrected) ==
    [it EXCEPT ![i].status = status,
               ![i].owner = carried(it, i, owner),
               ![i].current_version_id = <<i, next_version_no(vs, i)>>]

\* append_ledger_version: insert version N+1, close the one that was current,
\* repoint the projection.  corrected = FALSE leaves user_corrected alone.
appended_items(it, vs, i, status, owner, corrected) ==
    [it EXCEPT ![i].status = status,
               ![i].owner = carried(it, i, owner),
               ![i].current_version_id = <<i, next_version_no(vs, i)>>,
               ![i].user_corrected = @ \/ corrected]

appended_versions(it, vs, i, type, status, owner, review) ==
    LET new == <<i, next_version_no(vs, i)>>
    IN  close_version(
            insert_version(vs, new, type, status, carried(it, i, owner),
                           it[i].current_version_id, review),
            it[i].current_version_id, new)

\* Faulty: the successor does not name the item it replaces.
linked_items_one_way(it, old, new) == [it EXCEPT ![old].superseded_by_item_id = new]

\* set_supersession_links in both directions.
linked_items(it, old, new) ==
    [it EXCEPT ![old].superseded_by_item_id = new, ![new].supersedes_item_id = old]

\* link_superseding_version: valid_to of the old item's last version stays NULL.
linked_versions(vs, oldv, newv) ==
    [vs EXCEPT ![oldv].superseded_by_version_id = newv]

-----------------------------------------------------------------------------
(* The service on its own. *)

LedgerInit == items = <<>> /\ versions = <<>>

CreateItem(i, kind, owner, review) ==
    /\ i \notin DOMAIN items
    /\ validate_transition(kind, Absent, INITIAL_STATUS_BY_KIND[kind], "create")
    /\ items' = created_items(items, i, kind, owner)
    /\ versions' = created_versions(versions, i, kind, owner, review)

AppendVersion(i, type, status, owner, corrected, review) ==
    /\ i \in DOMAIN items
    /\ next_version_no(versions, i) <= MaxVersionNo
    /\ validate_transition(items[i].kind, items[i].status, status, type)
    /\ items' = appended_items(items, versions, i, status, owner, corrected)
    /\ versions' = appended_versions(items, versions, i, type, status, owner, review)

LedgerNext ==
    \E i \in ItemId, owner \in Owner \cup {NULL}, review \in ProposalId \cup {NULL} :
        \/ \E kind \in Kinds : CreateItem(i, kind, owner, review)
        \/ \E type \in TransitionTypes, status \in Statuses, corrected \in BOOLEAN :
              AppendVersion(i, type, status, owner, corrected, review)

LedgerSpec == LedgerInit /\ [][LedgerNext]_ledgerVars

-----------------------------------------------------------------------------
(* Properties. *)

\* The rows have the columns' types.
Typed(it, vs) ==
    /\ DOMAIN it \subseteq ItemId
    /\ it \in [DOMAIN it -> ItemRow]
    /\ DOMAIN vs \subseteq VersionId
    /\ vs \in [DOMAIN vs -> VersionRow]

LedgerTypeOK == Typed(items, versions)

\* Each item's versions form one chain ending in its current version, the only
\* open one; every earlier version is closed, and names the next one, which
\* names it back.  (services/ledger.py, "version-history/current-pointer
\* invariants".)
Chained(it, vs) ==
    /\ \A v \in DOMAIN vs : v[1] \in DOMAIN it
    /\ \A i \in DOMAIN it :
          /\ it[i].current_version_id \in VersionsOf(vs, i)
          /\ vs[it[i].current_version_id].open
          /\ \A v \in VersionsOf(vs, i) :
                /\ v[2] <= it[i].current_version_id[2]
                /\ v # it[i].current_version_id =>
                      /\ ~vs[v].open
                      /\ vs[v].superseded_by_version_id = <<i, v[2] + 1>>
                      /\ <<i, v[2] + 1>> \in DOMAIN vs
                      /\ vs[<<i, v[2] + 1>>].from_version_id = v

ChainOK == Chained(items, versions)

\* The projection never disagrees with the history: the row in ledger_items
\* shows the values its current version recorded.
Projected(it, vs) ==
    \A i \in DOMAIN it :
        LET current == vs[it[i].current_version_id] IN
        /\ it[i].status = current.status
        /\ it[i].owner = current.owner

ProjectionOK == Projected(items, versions)

\* History is append-only: no version disappears, none changes what it recorded,
\* a closed version is never reopened, a pointer once set is never moved.
AppendOnly ==
    [][\A v \in DOMAIN versions :
          /\ v \in DOMAIN versions'
          /\ \A f \in {"status", "owner", "transition_type", "from_version_id", "review_id"} :
                versions'[v][f] = versions[v][f]
          /\ versions'[v].open => versions[v].open
          /\ versions[v].superseded_by_version_id \in
                {NULL, versions'[v].superseded_by_version_id}]_ledgerVars

\* Only reopen and correct leave a terminal status, and an item always carries
\* a status its kind allows, whatever sequence of calls led to it.
LegalLifecycle ==
    [][\A i \in DOMAIN items :
          items'[i].status # items[i].status =>
             /\ items'[i].kind = items[i].kind
             /\ items'[i].status \in VALID_STATUSES_BY_KIND[items[i].kind]
             /\ items[i].status \in TERMINAL_STATUSES =>
                   versions'[items'[i].current_version_id].transition_type
                       \in {"reopen", "correct"}]_ledgerVars
=============================================================================
