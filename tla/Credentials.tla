----------------------------- MODULE Credentials -----------------------------
(***************************************************************************)
(* A connector's row of the sources table, the credential store beside it, *)
(* and the operations of credentials/service.py over both.                 *)
(*                                                                         *)
(* secrets is the set of references the store holds a secret for; issued   *)
(* counts the references handed out, which are never reused.  The store is *)
(* the OS keyring: each of its calls is atomic.  (The encrypted-file       *)
(* fallback rewrites a whole file and is not.)  CredentialService has a    *)
(* lock, but the settings page builds a service for every rerun, so no two *)
(* sessions share one; an operation that makes two calls is two steps.     *)
(***************************************************************************)
EXTENDS Provider

CONSTANT MaxConnects    \* bound: credentials ever stored

ASSUME CredentialAssumption == MaxConnects \in Nat

VARIABLES
    source,         \* the sources row
    secrets,        \* references the credential store holds a secret for
    issued,         \* references handed out so far
    revoked         \* references whose token or key the provider refuses

credentialVars == <<source, secrets, issued, revoked>>

CredentialRef == 1 .. MaxConnects

SourceHealthStatus ==
    {"unconfigured", "ready", "healthy", "syncing", "degraded",
     "reauth_required", "disabled"}

Source ==
    [kind: SourceKind, enabled: BOOLEAN, boundary: Boundary \cup {NULL},
     credential_ref: CredentialRef \cup {NULL},
     health_status: SourceHealthStatus,
     last_cursor: Checkpoint \cup {NULL},
     last_success_at: (0 .. MaxTime) \cup {NULL}]

\* The row insert_source makes when Connect is pressed for the first time.
InsertedSource(kind) ==
    [kind |-> kind, enabled |-> TRUE, boundary |-> NULL,
     credential_ref |-> NULL, health_status |-> "unconfigured",
     last_cursor |-> NULL, last_success_at |-> NULL]

CredentialsInit(kinds) ==
    /\ source \in {InsertedSource(k) : k \in kinds}
    /\ secrets = {}
    /\ issued = 0
    /\ revoked = {}

-----------------------------------------------------------------------------
(* db/sources_repository.py: each update is a statement of its own. *)

update_health(src, h) == [src EXCEPT !.health_status = h]

update_boundary(src, b) == [src EXCEPT !.boundary = b]

set_enabled(src, e) == [src EXCEPT !.enabled = e]

update_last_cursor(src, c) == [src EXCEPT !.last_cursor = c]

update_last_success(src, t) == [src EXCEPT !.last_success_at = t]

-----------------------------------------------------------------------------
(* CredentialService. *)

HasSecret(ref) == ref # NULL /\ ref \in secrets

\* connect, first half: the secret goes under a fresh reference.
StoreSecret ==
    /\ issued < MaxConnects
    /\ issued' = issued + 1
    /\ secrets' = secrets \cup {issued + 1}
    /\ UNCHANGED <<source, revoked>>

\* Faulty: the row is pointed at the reference of the previous connection.
PointAtPrevious(ref) ==
    /\ source' = update_health([source EXCEPT !.credential_ref = ref - 1],
                               "ready")
    /\ UNCHANGED <<secrets, issued, revoked>>

\* connect, second half; what the row pointed at before is not deleted.
PointAtSecret(ref) ==
    /\ source' = update_health([source EXCEPT !.credential_ref = ref], "ready")
    /\ UNCHANGED <<secrets, issued, revoked>>

\* disconnect, first half.
DeleteSecret ==
    /\ secrets' = secrets \ {source.credential_ref}
    /\ UNCHANGED <<source, issued, revoked>>

\* Faulty: the row keeps its reference.
DisableSource ==
    /\ source' = update_health(set_enabled(source, FALSE), "disabled")
    /\ UNCHANGED <<secrets, issued, revoked>>

\* disconnect, second half.
ForgetSecret ==
    /\ source' = update_health(
                     set_enabled([source EXCEPT !.credential_ref = NULL], FALSE),
                     "disabled")
    /\ UNCHANGED <<secrets, issued, revoked>>

\* refresh, when the reference or the secret is missing or the provider
\* refuses the token.
RequireReauth ==
    /\ source' = update_health(source, "reauth_required")
    /\ UNCHANGED <<secrets, issued, revoked>>

\* refresh, when the provider accepts it: update_secret writes the token it
\* was given back under the reference read before the exchange, whether or
\* not that reference is still in use.
KeepToken(ref) ==
    /\ secrets' = secrets \cup {ref}
    /\ source' = update_health(source, "healthy")
    /\ UNCHANGED <<issued, revoked>>

\* The user withdraws the grant in the provider's own settings.
Revoke(ref) ==
    /\ changes < MaxChanges
    /\ ref \notin revoked
    /\ ref <= issued
    /\ revoked' = revoked \cup {ref}
    /\ changes' = changes + 1
    /\ UNCHANGED <<source, secrets, issued, remote, now>>
=============================================================================
