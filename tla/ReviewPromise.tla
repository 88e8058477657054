---------------------------- MODULE ReviewPromise ----------------------------
(***************************************************************************)
(* What review promises a user of the ledger, with no sessions, tables or  *)
(* transactions in it.  A proposal is decided at most once.  The ledger    *)
(* moves only in the step that accepts a proposal, and then by at most one *)
(* legal transition of one item, or by a supersession: one item ends, its  *)
(* replacement begins.                                                     *)
(***************************************************************************)
EXTENDS LedgerRules

CONSTANTS ProposalId, ItemId

VARIABLES
    decision,   \* of each proposal: "none" before it is raised
    ledger      \* of each item: its kind and status, Absent before it exists

Decisions == {"none", "pending", "accepted", "rejected"}

promiseVars == <<decision, ledger>>

NoItem == [kind |-> Absent, status |-> Absent]

New(kind) == [kind |-> kind, status |-> INITIAL_STATUS_BY_KIND[kind]]

PromiseInit ==
    /\ decision = [p \in ProposalId |-> "none"]
    /\ ledger = [i \in ItemId |-> NoItem]

Turn(p, from, to) == decision[p] = from /\ decision' = [decision EXCEPT ![p] = to]

Raise(p) == Turn(p, "none", "pending") /\ UNCHANGED ledger

Reject(p) == Turn(p, "pending", "rejected") /\ UNCHANGED ledger

Created(i, kind) ==
    /\ ledger[i] = NoItem
    /\ ledger' = [ledger EXCEPT ![i] = New(kind)]

Moved(i, type, status) ==
    /\ ledger[i] # NoItem
    /\ validate_transition(ledger[i].kind, ledger[i].status, status, type)
    /\ ledger' = [ledger EXCEPT ![i].status = status]

Replaced(old, new, kind) ==
    /\ ledger[old] # NoItem
    /\ validate_transition(ledger[old].kind, ledger[old].status, "superseded", "supersede")
    /\ ledger[new] = NoItem
    /\ ledger' = [ledger EXCEPT ![old].status = "superseded", ![new] = New(kind)]

AcceptProposal(p) ==
    /\ Turn(p, "pending", "accepted")
    /\ \/ UNCHANGED ledger
       \/ \E i \in ItemId :
             \/ \E kind \in Kinds : Created(i, kind)
             \/ \E type \in {"update", "complete", "cancel", "resolve"}, status \in Statuses :
                   Moved(i, type, status)
             \/ \E new \in ItemId, kind \in Kinds : Replaced(i, new, kind)

PromiseNext == \E p \in ProposalId : Raise(p) \/ Reject(p) \/ AcceptProposal(p)

PromiseSpec == PromiseInit /\ [][PromiseNext]_promiseVars
=============================================================================
