----------------------------- MODULE MatchRules -----------------------------
(***************************************************************************)
(* The kind tables of domain/reconciliation.py: which ledger items an      *)
(* observation of each kind may be matched with, and which kind of item it *)
(* creates.  "update" observations are the eighth kind: they refer to an   *)
(* existing item of any kind and have no ledger kind of their own.         *)
(***************************************************************************)
EXTENDS LedgerRules

ObservationKinds == Kinds \cup {"update"}

PRIMARY_COMPATIBLE_KINDS ==
    [k \in ObservationKinds |-> IF k = "update" THEN Kinds ELSE {k}]

SECONDARY_COMPATIBLE_KINDS ==
    [k \in ObservationKinds |->
        CASE k = "decision" -> {"milestone"}
          [] k = "risk"     -> {"blocker"}
          [] k = "blocker"  -> {"risk"}
          [] OTHER          -> {}]

compatible_kinds(k) == PRIMARY_COMPATIBLE_KINDS[k] \cup SECONDARY_COMPATIBLE_KINDS[k]

\* None for "update", which creates nothing: it has no entry here.
NATURAL_LEDGER_KIND == [k \in Kinds |-> k]

SUPERSEDABLE_KINDS == {"decision", "milestone", "commitment", "open_question"}
=============================================================================
