------------------------------ MODULE Matching ------------------------------
(***************************************************************************)
(* Which calendar events and recordings belong to a project, by the rules  *)
(* of its boundary (domain/calendar_matching.py, domain/fathom_matching.py)*)
(* and what becomes of those that do (services/*_ingestion.py).            *)
(*                                                                         *)
(* A rule is an entry of the boundary; an item is the set of the entries   *)
(* it meets, whether configured or not.                                    *)
(*                                                                         *)
(*   item         the event or recording, as the provider lists it         *)
(*   boundary     the entries configured, which the user may change        *)
(*   assignment   the availability of its artifact                         *)
(*   first_hits   history: the configured entries the item met when its    *)
(*                artifact was stored                                      *)
(***************************************************************************)
EXTENDS Naturals

CONSTANTS Nothing

\* What may be known of an artifact; here it is the first four, or Nothing yet.
ArtifactAvailability ==
    {"available", "deleted_external", "inaccessible", "unassigned", "rejected"}

ASSUME MatchingAssumption == Nothing \notin ArtifactAvailability

VARIABLES item, boundary, assignment, first_hits

matchVars == <<item, boundary, assignment, first_hits>>

CalendarInclude ==
    {"event_id", "project_term", "client_domain", "participant", "include_rule"}

\* A term or a pattern, as include_rule is.
CalendarExclude == {"exclude_rule"}

\* The meeting's link or its time, which tell nothing of who took part.
FathomTiming == {"meeting_url", "scheduled_window"}

FathomInclude ==
    {"manual", "recorded_by", "client_domain", "participant"} \cup FathomTiming

Entries(kind) ==
    IF kind = "calendar" THEN CalendarInclude \cup CalendarExclude ELSE FathomInclude

calendar_tier(hits) ==
    CASE "event_id" \in hits -> "event_id"
      [] "event_id" \notin hits /\ "project_term" \in hits -> "project_name_term"
      [] {"event_id", "project_term"} \cap hits = {}
            /\ {"client_domain", "participant"} \cap hits # {} -> "domain_participant"
      [] {"event_id", "project_term", "client_domain", "participant"} \cap hits = {}
            /\ "include_rule" \in hits -> "include_rule"
      [] OTHER -> Nothing

\* Whatever an event meets, it is out if it meets a rule that excludes.
calendar_evaluate_match(hits) ==
    IF CalendarExclude \cap hits # {} THEN Nothing ELSE calendar_tier(hits)

FATHOM_TIERS ==
    <<[tier |-> "manual", entries |-> {"manual"}],
      [tier |-> "recorded_by", entries |-> {"recorded_by"}],
      [tier |-> "client_domain", entries |-> {"client_domain"}],
      [tier |-> "participant", entries |-> {"participant"}],
      [tier |-> "scheduled_event", entries |-> FathomTiming]>>

Met(hits) == {n \in DOMAIN FATHOM_TIERS : FATHOM_TIERS[n].entries \cap hits # {}}

\* Faulty: the last tier met instead of the first.
LastTier(hits) ==
    IF Met(hits) = {} THEN Nothing
    ELSE FATHOM_TIERS[CHOOSE n \in Met(hits) : \A k \in Met(hits) : k <= n].tier

fathom_evaluate_match(hits) ==
    IF Met(hits) = {} THEN Nothing
    ELSE FATHOM_TIERS[CHOOSE n \in Met(hits) : \A k \in Met(hits) : n <= k].tier

evaluate_match(kind, hits) ==
    IF kind = "calendar" THEN calendar_evaluate_match(hits) ELSE fathom_evaluate_match(hits)

Hits == item.meets \cap boundary

is_configured(kind, entries) == entries \cap (Entries(kind) \ CalendarExclude) # {}

get_or_create_artifact(tier) ==
    IF assignment # Nothing THEN assignment
    ELSE IF tier = "scheduled_event" THEN "unassigned" ELSE "available"

-----------------------------------------------------------------------------

\* An item met by none of a boundary that is still empty.
MatchInit ==
    /\ item \in UNION {[kind : {k}, meets : SUBSET Entries(k)] : k \in {"calendar", "fathom"}}
    /\ boundary = {}
    /\ assignment = Nothing
    /\ first_hits = {}

\* A sync lists the item.  An artifact there is already stays as it is.
discover ==
    /\ is_configured(item.kind, boundary)
    /\ LET tier == evaluate_match(item.kind, Hits)
       IN  /\ tier # Nothing
           /\ assignment' = get_or_create_artifact(tier)
    /\ first_hits' = IF assignment = Nothing THEN Hits ELSE first_hits
    /\ UNCHANGED <<item, boundary>>

\* A stored event that a sync did not list is asked for, and marked as gone if
\* it no longer matches.  Fathom's connector cannot be asked.
check_availability ==
    /\ is_configured(item.kind, boundary)
    /\ item.kind = "calendar"
    /\ assignment = "available"
    /\ evaluate_match("calendar", Hits) = Nothing
    /\ assignment' = "deleted_external"
    /\ UNCHANGED <<item, boundary, first_hits>>

\* A rule is entered or taken out of the boundary.
edit_boundary ==
    /\ \E entry \in Entries(item.kind) :
          boundary' = IF entry \in boundary THEN boundary \ {entry} ELSE boundary \cup {entry}
    /\ UNCHANGED <<item, assignment, first_hits>>

MatchNext == discover \/ check_availability \/ edit_boundary

MatchSpec == MatchInit /\ [][MatchNext]_matchVars

-----------------------------------------------------------------------------
(* Properties. *)

\* Only what a rule includes and none excludes is stored, and a recording is
\* taken to be the project's exactly if, when it was first seen, more than its
\* link or its time spoke for it; later edits of the boundary change nothing.
AssignedByMoreThanTiming ==
    assignment # Nothing =>
        /\ first_hits \ CalendarExclude # {}
        /\ first_hits \cap CalendarExclude = {}
        /\ assignment = "unassigned" <=> first_hits \subseteq FathomTiming
=============================================================================
