---------------------------- MODULE Observations ----------------------------
(***************************************************************************)
(* Observations that extraction finds in a content (services/extraction.py,*)
(* services/observations.py) and the proposals reconciliation makes of     *)
(* them (services/reconciliation.py), as far as the rows go: what a        *)
(* proposal says is module DecisionRules.                                  *)
(*                                                                         *)
(*   observations   the status of each observation, by its fingerprint     *)
(*   proposals      proposed_mutations: for each observation, the statuses *)
(*                  of its proposals, in the order of created_at           *)
(***************************************************************************)
EXTENDS EvidenceStore, Sequences

CONSTANTS
    Statement,      \* what the model may say a chunk states
    Cited           \* statements whose evidence passes validate_observation

ASSUME ObservationAssumption == Cited \subseteq Statement

VARIABLES observations, proposals

observationVars == <<observations, proposals>>

ObservationStatus == {"valid", "reconciled"}

\* compute_fingerprint: the content, the chunk cited and the statement.
Observation == [content: Content, chunk: Chunk, statement: Statement]

ObservationsTypeOK ==
    /\ DOMAIN observations \subseteq Observation
    /\ \A o \in DOMAIN observations :
          /\ observations[o] \in ObservationStatus
          /\ o.content \in DOMAIN contents
    /\ DOMAIN proposals = DOMAIN observations
    /\ \A o \in DOMAIN proposals : proposals[o] \in Seq({"pending", "decided"})

ObservationsInit == observations = <<>> /\ proposals = <<>>

\* The observations that survive of a model's answer about one chunk.
Accepted(content, chunk, batch) ==
    {[content |-> content, chunk |-> chunk, statement |-> x] : x \in batch \cap Cited}

persist_observation(o) ==
    IF o \in DOMAIN observations THEN UNCHANGED observationVars
    ELSE /\ observations' = Upsert(observations, o, "valid")
         /\ proposals' = Upsert(proposals, o, <<>>)

\* Valid observations of one project: list_observations_for_project.
Pending(p) ==
    {o \in DOMAIN observations : OwnerOf(o.content) = p /\ observations[o] = "valid"}

\* uq_proposed_mutations_one_pending_per_observation
HasPending(o) == \E n \in DOMAIN proposals[o] : proposals[o][n] = "pending"

\* Faulty: the observation keeps its status beside its proposal.
InsertOnly(o) ==
    /\ proposals' = [proposals EXCEPT ![o] = Append(@, "pending")]
    /\ UNCHANGED observations

insert_proposal(o) ==
    /\ proposals' = [proposals EXCEPT ![o] = Append(@, "pending")]
    /\ observations' = [observations EXCEPT ![o] = "reconciled"]

\* A review (module Review) decides the pending proposal of o.
Decide(o) ==
    /\ HasPending(o)
    /\ proposals' = [proposals EXCEPT ![o] = [n \in DOMAIN @ |-> "decided"]]
    /\ UNCHANGED observations

DeleteObservationRows(p) ==
    LET gone == {o \in DOMAIN observations : OwnerOf(o.content) = p}
    IN  /\ observations' = Without(observations, gone)
        /\ proposals' = Without(proposals, gone)
=============================================================================
