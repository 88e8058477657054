------------------------------ MODULE Language ------------------------------
(***************************************************************************)
(* The phrase detectors of domain/reconciliation_language.py.  A statement *)
(* is the set of listed phrases its text contains, as its author wrote     *)
(* them.  Each list is represented by one of its phrases, and by every     *)
(* phrase of it that normalize_form does not leave as it is.               *)
(***************************************************************************)

COMPLETION_PHRASES == {"is complete"}
FUTURE_INTENT_PHRASES == {"will finish"}
CANCELLATION_PHRASES == {"no longer needed", "won't proceed"}
DATE_CHANGE_PHRASES == {"moved to"}
OWNER_ASSIGNMENT_PHRASES == {"reassigned to"}
OWNER_ASSISTANCE_PHRASES == {"will help"}
SUPERSESSION_PHRASES == {"instead of"}
BLOCKING_PHRASES == {"cannot proceed", "can't proceed"}
LOCAL_REFERENCE_PHRASES == {"that date"}

Phrase ==
    UNION {COMPLETION_PHRASES, FUTURE_INTENT_PHRASES, CANCELLATION_PHRASES,
           DATE_CHANGE_PHRASES, OWNER_ASSIGNMENT_PHRASES, OWNER_ASSISTANCE_PHRASES,
           SUPERSESSION_PHRASES, BLOCKING_PHRASES, LOCAL_REFERENCE_PHRASES}

\* Case, spacing and punctuation go, the apostrophe among it.
normalize_form(statement) ==
    {CASE p = "won't proceed" -> "wont proceed"
       [] p = "can't proceed" -> "cant proceed"
       [] OTHER               -> p : p \in statement}

\* _search: the lists are compared with the normalized text as they stand.
_search(statement, phrases) == normalize_form(statement) \cap phrases # {}

detect_completion(statement) ==
    /\ ~_search(statement, FUTURE_INTENT_PHRASES)
    /\ _search(statement, COMPLETION_PHRASES)

detect_cancellation(statement) == _search(statement, CANCELLATION_PHRASES)

detect_date_change(statement) == _search(statement, DATE_CHANGE_PHRASES)

detect_owner_assignment(statement) ==
    /\ ~_search(statement, OWNER_ASSISTANCE_PHRASES)
    /\ _search(statement, OWNER_ASSIGNMENT_PHRASES)

detect_supersession(statement) == _search(statement, SUPERSESSION_PHRASES)

detect_blocking_language(statement) == _search(statement, BLOCKING_PHRASES)

detect_local_reference(statement) == _search(statement, LOCAL_REFERENCE_PHRASES)
=============================================================================
