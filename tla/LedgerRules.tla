----------------------------- MODULE LedgerRules -----------------------------
(***************************************************************************)
(* The status and transition vocabulary of the ledger, from                *)
(* domain/ledger.py: which statuses an item of each kind may carry, where  *)
(* it starts, and which (kind, from, to, transition type) combinations     *)
(* validate_transition lets through.  Constant definitions only; the       *)
(* modules that change the ledger extend this one.                         *)
(***************************************************************************)

Kinds == {"decision", "commitment", "milestone", "risk", "blocker",
          "open_question", "stakeholder"}

Statuses == {"open", "active", "completed", "resolved", "canceled", "superseded"}

\* from_status = None of the code: the item does not exist yet.
Absent == "absent"

TransitionTypes == {"create", "update", "complete", "resolve", "cancel",
                    "supersede", "reopen", "correct"}

NON_TERMINAL_STATUSES == {"open", "active"}

TERMINAL_STATUSES == Statuses \ NON_TERMINAL_STATUSES

\* Every kind can be canceled and superseded; the rest depends on the kind.
VALID_STATUSES_BY_KIND ==
    [k \in Kinds |->
        {"canceled", "superseded"} \cup
        CASE k \in {"commitment", "milestone"}   -> {"open", "active", "completed"}
          [] k \in {"risk", "blocker"}           -> {"open", "active", "resolved"}
          [] k = "open_question"                 -> {"open", "resolved"}
          [] k \in {"decision", "stakeholder"}   -> {"active"}]

INITIAL_STATUS_BY_KIND ==
    [k \in Kinds |-> IF k \in {"decision", "stakeholder"} THEN "active" ELSE "open"]

ALLOWED_FROM_STATUSES ==
    [t \in TransitionTypes |->
        CASE t = "create"  -> {Absent}
          [] t = "reopen"  -> TERMINAL_STATUSES
          [] t = "correct" -> Statuses \cup {Absent}
          [] OTHER         -> NON_TERMINAL_STATUSES]

FIXED_TARGET_STATUS ==
    [t \in {"complete", "resolve", "cancel", "supersede"} |->
        CASE t = "complete"  -> "completed"
          [] t = "resolve"   -> "resolved"
          [] t = "cancel"    -> "canceled"
          [] t = "supersede" -> "superseded"]

\* Faulty: the status the item is in is not looked at.  Not part of the model of the
\* code, but a bug some property must catch.
validate_target(kind, from, to, type) ==
    /\ to \in VALID_STATUSES_BY_KIND[kind]
    /\ type \in {"create", "reopen"} => to = INITIAL_STATUS_BY_KIND[kind]
    /\ type = "update" => to \in NON_TERMINAL_STATUSES
    /\ type \in DOMAIN FIXED_TARGET_STATUS => to = FIXED_TARGET_STATUS[type]

\* validate_transition: TRUE where the code returns, FALSE where it raises.
validate_transition(kind, from, to, type) ==
    /\ to \in VALID_STATUSES_BY_KIND[kind]
    /\ from \in ALLOWED_FROM_STATUSES[type]
    /\ type \in {"create", "reopen"} => to = INITIAL_STATUS_BY_KIND[kind]
    /\ type = "update" => to \in NON_TERMINAL_STATUSES
    /\ type \in DOMAIN FIXED_TARGET_STATUS => to = FIXED_TARGET_STATUS[type]
=============================================================================
