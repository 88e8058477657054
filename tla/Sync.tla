-------------------------------- MODULE Sync --------------------------------
(***************************************************************************)
(* services/sync.py and the Sources & Settings page that drives it: several*)
(* browser tabs (sessions) connect, preview, sync, edit and disconnect one *)
(* source while the account behind it changes.                             *)
(*                                                                         *)
(* A statement of the repositories commits by itself, so a sync is a long  *)
(* row of steps: between two of them another session may do anything.  A   *)
(* session's pc names the step it is to take next:                         *)
(*                                                                         *)
(*   credential -> exchange -> construct -> validate -> discover           *)
(*   -> ( artifact -> store )* -> discover ... -> vanished -> finish       *)
(*   -> close -> idle                                                      *)
(*                                                                         *)
(* Left out: sync_items rows and the counters a run only reports, the      *)
(* extraction a test may ask for (the page never does), and the            *)
(* reconciliation at the end, which reads observations that only           *)
(* extraction makes.                                                       *)
(***************************************************************************)
EXTENDS Credentials, FiniteSets

CONSTANTS
    Session,        \* browser tabs
    Kind,           \* kinds of source considered
    MaxPagesPerSync,  \* the code's _MAX_PAGES_PER_SYNC
    MaxFaults,      \* bound: failed calls and interrupted scripts
    MaxClicks       \* bound: Save, Enable, Disable and Preview presses

ASSUME SyncAssumption ==
    /\ Kind \subseteq SourceKind
    /\ {MaxFaults, MaxClicks, MaxPagesPerSync} \subseteq Nat
    /\ MaxPagesPerSync > 0
    /\ IsFiniteSet(Item)

VARIABLES
    artifacts,      \* source_artifacts and their source_contents
    runs,           \* Session -> status of the last sync_runs row it made
    session,        \* what each tab is doing
    faults, clicks, \* failures and clicks so far
    torn,           \* an interruption came between the halves of disconnect
    blind           \* a run went on without rules, or was cut at MaxPagesPerSync

syncVars == <<artifacts, runs, session, faults, clicks, torn, blind>>

vars == <<providerVars, credentialVars, syncVars>>

SyncRunStatus == {"running", "completed", "partial", "failed"}

ArtifactAvailability ==
    {"available", "unassigned", "deleted_external", "inaccessible"}

\* A version of an artifact: the marker it was listed under, and its bytes.
Content == [version_key: 1 .. MaxMarker, bytes: Bytes]

ArtifactRow ==
    [availability: ArtifactAvailability, contents: SUBSET Content,
     current: Content \cup {NULL}]

\* NULL is no row.
ASSUME NullAssumption ==
    /\ NULL \notin Checkpoint
    /\ NULL \notin Content
    /\ NULL \notin ArtifactRow

PC == {"idle", "authorize", "connecting", "disconnecting", "credential",
       "exchange", "construct", "validate", "discover", "artifact", "store",
       "vanished", "finish", "close"}

\* What a fetch returned, and what was current when the artifact was read.
Raw == [item: Item, version_key: 1 .. MaxMarker, bytes: Bytes,
        was: Content \cup {NULL}]

\* boundary and since are read when the button is pressed; checkpoint, root
\* (started_from_root), pages and next belong to the page loop.  quiet and complete
\* are auxiliary: nothing else has touched the account, the artifacts or the
\* cursor since the run began; some page came back.
SessionRow ==
    [pc: PC, syncing: BOOLEAN, boundary: Boundary \cup {NULL},
     since: (0 .. MaxTime) \cup {NULL}, ref: CredentialRef \cup {NULL},
     running: BOOLEAN, checkpoint: Checkpoint \cup {NULL}, root: BOOLEAN,
     pages: Nat, next: Checkpoint \cup {NULL}, todo: SUBSET ArtifactMetadata,
     raw: Raw \cup {NULL}, seen: SUBSET Item, known: SUBSET Item,
     discovered: 0 .. LastPage * Cardinality(Item), failed: Nat,
     quiet: BOOLEAN, complete: BOOLEAN]

Idle ==
    [pc |-> "idle", syncing |-> FALSE, boundary |-> NULL, since |-> NULL,
     ref |-> NULL, running |-> FALSE, checkpoint |-> NULL, root |-> FALSE,
     pages |-> 0, next |-> NULL, todo |-> {}, raw |-> NULL, seen |-> {}, known |-> {},
     discovered |-> 0, failed |-> 0, quiet |-> FALSE, complete |-> FALSE]

Init ==
    /\ ProviderInit
    /\ CredentialsInit(Kind)
    /\ artifacts = [i \in Item |-> NULL]
    /\ runs = [s \in Session |-> NULL]
    /\ session = [s \in Session |-> Idle]
    /\ faults = 0
    /\ clicks = 0
    /\ torn = FALSE
    /\ blind = FALSE

-----------------------------------------------------------------------------
(* Steps of a session. *)

At(s, pc) == session[s].pc = pc

\* Session s goes on as row r; with disturb, what it wrote is news to every
\* other session that is syncing.
Become(s, r, disturb) ==
    session' = [t \in Session |->
                  IF t = s THEN r
                  ELSE [session[t] EXCEPT !.quiet = @ /\ ~disturb]]

Goto(s, pc) == Become(s, [session[s] EXCEPT !.pc = pc], FALSE)

Stop(s) == Become(s, Idle, FALSE)

Fault ==
    /\ faults < MaxFaults
    /\ faults' = faults + 1

\* A run recorded as failed at once: only a sync records one.
FailedRun(s) ==
    runs' = [runs EXCEPT ![s] = IF session[s].syncing THEN "failed" ELSE @]

\* The page draws the buttons of a connected source, of a disconnected one,
\* and Sync only when it is enabled; each is taken on a rerun that reads the
\* row again.
Controls ==
    IF source.credential_ref = NULL THEN {"connect"}
    ELSE {"save", "preview", "disconnect", "toggle"}
         \cup (IF source.enabled THEN {"sync"} ELSE {})

Press(s, kind, button) ==
    /\ At(s, "idle")
    /\ source.kind = kind
    /\ button \in Controls

Click ==
    /\ clicks < MaxClicks
    /\ clicks' = clicks + 1

-----------------------------------------------------------------------------
(* Connecting and settings. *)

AskConsent(s, kind) ==
    /\ Press(s, kind, "connect")
    /\ issued + Cardinality({t \in Session : At(t, "authorize")}) < MaxConnects
    /\ Goto(s, "authorize")
    /\ UNCHANGED <<providerVars, credentialVars, artifacts, runs, faults, clicks, torn, blind>>

\* Three forms open the browser; the fourth takes an API key.
ConnectDrive(s) == AskConsent(s, "drive")
ConnectGmail(s) == AskConsent(s, "gmail")
ConnectCalendar(s) == AskConsent(s, "calendar")
ConnectFathom(s) == AskConsent(s, "fathom")

Authorized(s) ==
    /\ At(s, "authorize")
    /\ StoreSecret
    /\ Become(s, [session[s] EXCEPT !.pc = "connecting", !.ref = issued + 1],
              FALSE)
    /\ UNCHANGED <<providerVars, artifacts, runs, faults, clicks, torn, blind>>

\* GoogleConnectError: no refresh token came back.
NotAuthorized(s) ==
    /\ At(s, "authorize")
    /\ source.kind # "fathom"
    /\ Fault
    /\ Stop(s)
    /\ UNCHANGED <<providerVars, credentialVars, artifacts, runs, clicks, torn, blind>>

Connected(s) ==
    /\ At(s, "connecting")
    /\ PointAtSecret(session[s].ref)
    /\ Stop(s)
    /\ UNCHANGED <<providerVars, artifacts, runs, faults, clicks, torn, blind>>

PressDisconnect(s) ==
    /\ Press(s, source.kind, "disconnect")
    /\ DeleteSecret
    /\ Goto(s, "disconnecting")
    /\ UNCHANGED <<providerVars, artifacts, runs, faults, clicks, torn, blind>>

Disconnected(s) ==
    /\ At(s, "disconnecting")
    /\ ForgetSecret
    /\ Stop(s)
    /\ UNCHANGED <<providerVars, artifacts, runs, faults, clicks, torn, blind>>

\* The new boundary takes effect at the next sync; the cursor and the
\* watermark of the old one stay.
SaveBoundary(s, kind) ==
    /\ Press(s, kind, "save")
    /\ Click
    /\ \E b \in Boundary :
         /\ b # source.boundary
         /\ source' = update_boundary(source, b)
    /\ UNCHANGED <<providerVars, secrets, issued, revoked, artifacts, runs,
                   session, faults, torn, blind>>

\* Each form refuses an empty folder, query or rule set.
SaveFolder(s) == SaveBoundary(s, "drive")
SaveLabelQuery(s) == SaveBoundary(s, "gmail")
SaveCalendarRules(s) == SaveBoundary(s, "calendar")
SaveFathomRules(s) == SaveBoundary(s, "fathom")

ToggleEnabled(s) ==
    /\ Press(s, source.kind, "toggle")
    /\ Click
    /\ source' = set_enabled(source, ~source.enabled)
    /\ UNCHANGED <<providerVars, secrets, issued, revoked, artifacts, runs,
                   session, faults, torn, blind>>

-----------------------------------------------------------------------------
(* Minting a token: sync_drive_project and its three siblings. *)

\* The entry point of a kind reads the row before anything else and keeps
\* what it read.
BeginSync(s, kind, since) ==
    /\ Press(s, kind, "sync")
    /\ Become(s, [Idle EXCEPT !.pc = "credential", !.syncing = TRUE,
                              !.boundary = source.boundary, !.since = since], FALSE)
    /\ UNCHANGED <<providerVars, credentialVars, artifacts, runs, faults, clicks, torn, blind>>

\* Two of them take a watermark from it.
_gmail_since_date == source.last_success_at
_fathom_created_after == source.last_success_at

sync_drive_project(s) == BeginSync(s, "drive", NULL)
sync_gmail_project(s) == BeginSync(s, "gmail", _gmail_since_date)
sync_calendar_project(s) == BeginSync(s, "calendar", NULL)
sync_fathom_project(s) == BeginSync(s, "fathom", _fathom_created_after)

\* A preview mints a token as a sync does, and changes the health with it.
BeginPreview(s, kind) ==
    /\ Press(s, kind, "preview")
    /\ Click
    /\ Become(s, [Idle EXCEPT !.pc = "credential"], FALSE)
    /\ UNCHANGED <<providerVars, credentialVars, artifacts, runs, faults, torn, blind>>

PreviewDrive(s) == BeginPreview(s, "drive")
PreviewGmail(s) == BeginPreview(s, "gmail")
PreviewCalendar(s) == BeginPreview(s, "calendar")
PreviewFathom(s) == BeginPreview(s, "fathom")

\* What a preview lists is only shown.
AfterMint(s) == IF session[s].syncing THEN "construct" ELSE "idle"

\* No secret: Fathom leaves the health alone, the others ask for a new
\* connection; the run that could not begin is recorded.
NoCredential(s) ==
    /\ At(s, "credential")
    /\ ~HasSecret(source.credential_ref)
    /\ IF source.kind = "fathom" THEN UNCHANGED credentialVars
                                 ELSE RequireReauth
    /\ FailedRun(s)
    /\ Stop(s)
    /\ UNCHANGED <<providerVars, artifacts, faults, clicks, torn, blind>>

\* A Fathom key is used as it is; a refresh token is exchanged first.
ReadCredential(s) ==
    /\ At(s, "credential")
    /\ HasSecret(source.credential_ref)
    /\ Become(s, [session[s] EXCEPT
                    !.ref = source.credential_ref,
                    !.pc = IF source.kind = "fathom" THEN AfterMint(s)
                                                     ELSE "exchange"], FALSE)
    /\ UNCHANGED <<providerVars, credentialVars, artifacts, runs, faults, clicks, torn, blind>>

TokenRefused(s) ==
    /\ At(s, "exchange")
    /\ session[s].ref \in revoked
    /\ RequireReauth
    /\ FailedRun(s)
    /\ Stop(s)
    /\ UNCHANGED <<providerVars, artifacts, faults, clicks, torn, blind>>

TokenMinted(s) ==
    /\ At(s, "exchange")
    /\ session[s].ref \notin revoked
    /\ KeepToken(session[s].ref)
    /\ Goto(s, AfterMint(s))
    /\ UNCHANGED <<providerVars, artifacts, runs, faults, clicks, torn, blind>>

-----------------------------------------------------------------------------
(* sync_source *)

\* The row sync_source goes by is read here, not when the button was pressed;
\* of it only the cursor is used.
\* The Drive and Gmail connectors refuse an empty boundary; the other two run
\* with no rules.
Runnable(s) ==
    /\ source.kind \in {"drive", "gmail"} => session[s].boundary # NULL
    /\ source.enabled
    /\ source.boundary # NULL

\* SourceNotConfiguredError or ConnectorConfigError: no run is recorded.
NotRunnable(s) ==
    /\ At(s, "construct")
    /\ ~Runnable(s)
    /\ Stop(s)
    /\ UNCHANGED <<providerVars, credentialVars, artifacts, runs, faults, clicks, torn, blind>>

Construct(s) ==
    /\ At(s, "construct")
    /\ Runnable(s)
    /\ Become(s, [session[s] EXCEPT !.pc = "validate",
                                    !.checkpoint = source.last_cursor,
                                    !.root = source.last_cursor = NULL], FALSE)
    /\ UNCHANGED <<providerVars, credentialVars, artifacts, runs, faults, clicks, torn, blind>>

\* The provider refuses a Fathom key only now.
ValidateFailed(s) ==
    /\ At(s, "validate")
    /\ \/ /\ source.kind = "fathom" /\ session[s].ref \in revoked
          /\ source' = update_health(source, "reauth_required")
          /\ UNCHANGED faults
       \/ /\ Fault
          /\ source' = update_health(source, "degraded")
    /\ FailedRun(s)
    /\ Stop(s)
    /\ UNCHANGED <<providerVars, secrets, issued, revoked, artifacts, clicks, torn, blind>>

Validated(s) ==
    /\ At(s, "validate")
    /\ source.kind = "fathom" => session[s].ref \notin revoked
    /\ runs' = [runs EXCEPT ![s] = "running"]
    /\ source' = update_health(source, "syncing")
    /\ Become(s, [session[s] EXCEPT
                    !.pc = "discover", !.running = TRUE,
                    !.quiet = \A t \in Session \ {s} : ~session[t].running],
              TRUE)
    /\ blind' = (blind \/ session[s].boundary = NULL)
    /\ UNCHANGED <<providerVars, secrets, issued, revoked, artifacts, faults, clicks, torn>>

\* Faulty: a resumed pass looks for vanished items too.
AfterLoopResumed(r) ==
    IF r.checkpoint = NULL /\ HasCheckAvailability(source.kind)
    THEN [r EXCEPT !.pc = "vanished",
                   !.known = {i \in Item \ r.seen :
                                /\ artifacts[i] # NULL
                                /\ artifacts[i].availability = "available"}]
    ELSE [r EXCEPT !.pc = "finish"]

\* What the run does once the loop is left, after a failure, the last page or
\* the last page allowed: a pass that began at the root and has no checkpoint
\* is taken for a whole one.
AfterLoop(r) ==
    IF r.root /\ r.checkpoint = NULL /\ HasCheckAvailability(source.kind)
    THEN [r EXCEPT !.pc = "vanished",
                   !.known = {i \in Item \ r.seen :
                                /\ artifacts[i] # NULL
                                /\ artifacts[i].availability = "available"}]
    ELSE [r EXCEPT !.pc = "finish"]

DiscoverFailed(s) ==
    /\ At(s, "discover")
    /\ Fault
    /\ Become(s, AfterLoop([session[s] EXCEPT !.pages = @ + 1, !.failed = @ + 1]),
              FALSE)
    /\ UNCHANGED <<providerVars, credentialVars, artifacts, runs, clicks, torn, blind>>

Discover(s) ==
    /\ At(s, "discover")
    /\ LET r == session[s]
           page == DiscoveredArtifacts(source.kind, r.boundary, r.since, r.checkpoint)
       IN Become(s, [r EXCEPT
                       !.pc = "artifact", !.pages = @ + 1, !.todo = page,
                       !.next = next_checkpoint(source.kind, r.boundary, r.checkpoint),
                       !.seen = @ \cup {m.item : m \in page},
                       !.discovered = @ + Cardinality(page),
                       !.complete = TRUE], FALSE)
    /\ UNCHANGED <<providerVars, credentialVars, artifacts, runs, faults, clicks, torn, blind>>

\* get_or_create_*_artifact: created on first sight, never updated.
GetOrCreate(i) ==
    IF artifacts[i] # NULL THEN artifacts[i]
    ELSE [availability |-> IF source.kind = "fathom" /\ i \in WeakItem
                           THEN "unassigned" ELSE "available",
          contents |-> {}, current |-> NULL]

\* Faulty: an artifact that has any content is unchanged.
has_content(a, m) == a.current # NULL

is_unchanged(a, m) == a.current # NULL /\ a.current.version_key = m.marker

MarkDeleted(a) ==
    IF a.availability = "available"
    THEN [a EXCEPT !.availability = "deleted_external"] ELSE a

\* One artifact of the page, up to the fetch.
ProcessArtifact(s) ==
    /\ At(s, "artifact")
    /\ \E m \in session[s].todo :
         LET a == GetOrCreate(m.item)
             r == [session[s] EXCEPT !.todo = @ \ {m}]
         IN \/ /\ m.is_trashed \/ is_unchanged(a, m)
               /\ artifacts' = [artifacts EXCEPT
                                  ![m.item] = IF m.is_trashed THEN MarkDeleted(a) ELSE a]
               /\ Become(s, r, artifacts' # artifacts)
               /\ UNCHANGED faults
            \/ /\ ~m.is_trashed /\ ~is_unchanged(a, m)
               /\ artifacts' = [artifacts EXCEPT ![m.item] = a]
               /\ \/ /\ CanFetch(source.kind, m)
                     /\ Become(s, [r EXCEPT
                                     !.pc = "store",
                                     !.raw = [item |-> m.item,
                                              version_key |-> m.marker,
                                              bytes |-> fetch(source.kind, m),
                                              was |-> a.current]],
                               artifacts' # artifacts)
                     /\ UNCHANGED faults
                  \/ /\ IF CanFetch(source.kind, m) THEN Fault ELSE UNCHANGED faults
                     /\ Become(s, [r EXCEPT !.failed = @ + 1],
                               artifacts' # artifacts)
    /\ UNCHANGED <<providerVars, credentialVars, runs, clicks, torn, blind>>

\* get_content_by_sha256: at most one.
SameBytes(a, raw) == {c \in a.contents : c.bytes = raw.bytes}

\* uq_source_contents_artifact_version: the version key is taken.
KeyTaken(a, raw) ==
    \E c \in a.contents : c.version_key = raw.version_key /\ c.bytes # raw.bytes

\* Bytes it had before become current again, unless they were current when
\* the artifact was read.
Reused(a, raw) ==
    IF raw.was \in SameBytes(a, raw) THEN a
    ELSE [a EXCEPT !.current = CHOOSE c \in SameBytes(a, raw) : TRUE]

NewVersion(a, raw) ==
    LET c == [version_key |-> raw.version_key, bytes |-> raw.bytes]
    IN [a EXCEPT !.contents = @ \cup {c}, !.current = c]

Stored(a, raw) ==
    IF SameBytes(a, raw) # {} THEN Reused(a, raw) ELSE NewVersion(a, raw)

\* One transaction.  Bytes the artifact had before are not stored twice: the
\* old version keeps its old key.
StoreArtifact(s) ==
    /\ At(s, "store")
    /\ LET raw == session[s].raw
           a == artifacts[raw.item]
           r == [session[s] EXCEPT !.pc = "artifact", !.raw = NULL]
       IN \/ /\ SameBytes(a, raw) # {} \/ ~KeyTaken(a, raw)
             /\ artifacts' = [artifacts EXCEPT ![raw.item] = Stored(a, raw)]
             /\ Become(s, r, TRUE)
             /\ UNCHANGED faults
          \/ /\ IF SameBytes(a, raw) = {} /\ KeyTaken(a, raw)
                THEN UNCHANGED faults ELSE Fault
             /\ Become(s, [r EXCEPT !.failed = @ + 1], FALSE)
             /\ UNCHANGED artifacts
    /\ UNCHANGED <<providerVars, credentialVars, runs, clicks, torn, blind>>

\* The page is done: the cursor moves on, and the loop too unless that was the
\* last page of the listing or of the run.
AdvanceCursor(s) ==
    /\ At(s, "artifact")
    /\ session[s].todo = {}
    /\ LET r == [session[s] EXCEPT !.checkpoint = session[s].next, !.next = NULL]
           more == r.checkpoint # NULL
           cut == r.pages >= MaxPagesPerSync
       IN /\ source' = update_last_cursor(source, r.checkpoint)
          /\ Become(s, IF more /\ ~cut THEN [r EXCEPT !.pc = "discover"]
                       ELSE AfterLoop(r), FALSE)
          /\ blind' = (blind \/ (more /\ cut))
    /\ UNCHANGED <<providerVars, secrets, issued, revoked, artifacts, runs, faults,
                   clicks, torn>>

\* _detect_vanished_items: one artifact the pass did not see.
CheckVanished(s) ==
    /\ At(s, "vanished")
    /\ \E i \in session[s].known :
         LET r == [session[s] EXCEPT !.known = @ \ {i}]
             answer == check_availability(source.kind, session[s].boundary, i)
         IN \/ /\ answer # "available"
               /\ artifacts' = [artifacts EXCEPT ![i].availability = answer]
               /\ Become(s, r, TRUE)
               /\ UNCHANGED faults
            \/ /\ answer = "available"
               /\ Become(s, r, FALSE)
               /\ UNCHANGED <<artifacts, faults>>
            \/ /\ Fault
               /\ Become(s, [r EXCEPT !.failed = @ + 1], FALSE)
               /\ UNCHANGED artifacts
    /\ UNCHANGED <<providerVars, credentialVars, runs, clicks, torn, blind>>

\* Faulty: failures do not count once anything was discovered.
LenientStatus(r) ==
    IF r.failed = 0 \/ r.discovered > 0 THEN "completed" ELSE "failed"

_final_status(r) ==
    IF r.failed = 0 THEN "completed"
    ELSE IF r.failed >= r.discovered THEN "failed" ELSE "partial"

Finish(s) ==
    /\ \/ At(s, "vanished") /\ session[s].known = {}
       \/ At(s, "finish")
    /\ runs' = [runs EXCEPT ![s] = _final_status(session[s])]
    /\ Goto(s, "close")
    /\ UNCHANGED <<providerVars, credentialVars, artifacts, faults, clicks, torn, blind>>

\* The watermark and the health, whatever another session made of them.
Close(s) ==
    /\ At(s, "close")
    /\ LET status == runs[s]
           src == IF status = "failed" THEN source
                  ELSE update_last_success(source, now)
       IN source' = update_health(src, IF status = "completed" THEN "healthy"
                                       ELSE "degraded")
    /\ Stop(s)
    /\ UNCHANGED <<providerVars, secrets, issued, revoked, artifacts, runs, faults,
                   clicks, torn, blind>>

\* The script ends where it is: a network error no handler catches, or the
\* process being killed.  What it wrote stays.
Interrupt(s) ==
    /\ ~At(s, "idle")
    /\ Fault
    /\ torn' = (torn \/ At(s, "disconnecting"))
    /\ Stop(s)
    /\ UNCHANGED <<providerVars, credentialVars, artifacts, runs, clicks, blind>>

-----------------------------------------------------------------------------
(* The world. *)

\* A change of the account is news to every session that is syncing.
Account ==
    /\ \E i \in Item : \/ Edit(source.kind, i) \/ Move(source.kind, i)
                       \/ Arrive(source.kind, i) \/ Withdraw(i)
    /\ session' = [s \in Session |-> [session[s] EXCEPT !.quiet = FALSE]]
    /\ UNCHANGED <<credentialVars, artifacts, runs, faults, clicks, torn, blind>>

Withdrawn ==
    /\ \E ref \in CredentialRef : Revoke(ref)
    /\ UNCHANGED syncVars

\* A sync is over well within 48 hours.
Tick ==
    /\ now < MaxTime
    /\ \A s \in Session : At(s, "idle")
    /\ now' = now + 1
    /\ UNCHANGED <<remote, changes, credentialVars, syncVars>>

\* What a session does of its own accord once a button was pressed.
Work(s) ==
    \/ Authorized(s) \/ Connected(s) \/ Disconnected(s)
    \/ NoCredential(s) \/ ReadCredential(s) \/ TokenRefused(s) \/ TokenMinted(s)
    \/ NotRunnable(s) \/ Construct(s) \/ Validated(s)
    \/ Discover(s) \/ ProcessArtifact(s) \/ StoreArtifact(s)
    \/ AdvanceCursor(s) \/ CheckVanished(s) \/ Finish(s) \/ Close(s)

Failure(s) ==
    \/ NotAuthorized(s) \/ ValidateFailed(s) \/ DiscoverFailed(s) \/ Interrupt(s)

StartSync(s) ==
    \/ sync_drive_project(s) \/ sync_gmail_project(s)
    \/ sync_calendar_project(s) \/ sync_fathom_project(s)

User(s) ==
    \/ ConnectDrive(s) \/ ConnectGmail(s) \/ ConnectCalendar(s) \/ ConnectFathom(s)
    \/ SaveFolder(s) \/ SaveLabelQuery(s)
    \/ SaveCalendarRules(s) \/ SaveFathomRules(s)
    \/ PreviewDrive(s) \/ PreviewGmail(s) \/ PreviewCalendar(s) \/ PreviewFathom(s)
    \/ PressDisconnect(s) \/ ToggleEnabled(s) \/ StartSync(s)

Next ==
    \/ \E s \in Session : User(s) \/ Work(s) \/ Failure(s)
    \/ Account \/ Withdrawn \/ Tick

Spec == Init /\ [][Next]_vars

\* Python runs what was begun; the user presses Sync again and again.
FairSpec ==
    /\ Spec
    /\ \A s \in Session : WF_vars(Work(s)) /\ WF_vars(StartSync(s))

-----------------------------------------------------------------------------
(* What the module promises. *)

SyncTypeOK ==
    /\ remote \in [Item -> RemoteRow]
    /\ now \in 0 .. MaxTime
    /\ changes \in 0 .. MaxChanges
    /\ source \in Source
    /\ issued \in 0 .. MaxConnects
    /\ secrets \subseteq 1 .. issued
    /\ revoked \subseteq 1 .. issued
    /\ artifacts \in [Item -> ArtifactRow \cup {NULL}]
    /\ runs \in [Session -> SyncRunStatus \cup {NULL}]
    /\ session \in [Session -> SessionRow]
    /\ faults \in 0 .. MaxFaults
    /\ clicks \in 0 .. MaxClicks
    /\ torn \in BOOLEAN
    /\ blind \in BOOLEAN

\* A meeting whose transcript, summary and action items are those of the
\* current version counts, whatever became of its title.
Imported(i) ==
    /\ artifacts[i] # NULL
    /\ artifacts[i].current # NULL
    /\ \/ artifacts[i].current.bytes = remote[i].bytes
       \/ /\ source.kind = "fathom"
          /\ artifacts[i].current.version_key = remote[i].marker

\* Item i is there to be imported from boundary b.
Wanted(i, b) == Matches(b, i) /\ remote[i].state = "live"

\* A run that began at the root, reached the end of the listing, ended
\* completed and was alone with an account that did not change has imported
\* everything its boundary and its watermark let it see: no page, item or
\* failure was lost on the way.  (A run that was cut at MaxPagesPerSync ends
\* completed too, with pages unread and its cursor kept.)
CompletedRunImportedAll ==
    \A s \in Session :
        LET r == session[s]
        IN (/\ At(s, "close") /\ runs[s] = "completed"
            /\ r.root /\ r.checkpoint = NULL /\ r.quiet) =>
               \A i \in Item :
                   (Wanted(i, r.boundary) /\ InWindow(source.kind, r.since, i))
                       => Imported(i)

\* A sync step that marks an artifact unavailable is right about it when the
\* pass was undisturbed and any page came back.
VanishedAreGone ==
    [][\A s \in Session, i \in Item :
         (/\ session[s].quiet /\ session[s].complete
          /\ CheckVanished(s)
          /\ artifacts'[i] # artifacts[i]) => ~Wanted(i, session[s].boundary)]_vars

\* As long as nothing failed, the boundary stayed and no run was blind (cut at
\* MaxPagesPerSync, or without rules), the watermark never passes over
\* something that is not imported yet.  (Each of these can: an item that failed
\* in a partial run, a page left unread.  So can two changes: what is taken out
\* of the trash after the overlap is never listed again.)
WatermarkCovers ==
    (/\ source.kind \in {"gmail", "fathom"}
     /\ ~blind /\ faults = 0 /\ clicks <= 1 /\ changes <= 1) =>
        \A i \in Item :
            (/\ source.last_success_at # NULL
             /\ source.boundary # NULL
             /\ Wanted(i, source.boundary)
             /\ ~InWindow(source.kind, source.last_success_at, i)) =>
                artifacts[i] # NULL /\ artifacts[i].current # NULL

\* The row never points at a secret that is gone, except while a disconnect
\* is under way or was cut in two.
RefHasSecret ==
    \/ source.credential_ref = NULL
    \/ source.credential_ref \in secrets
    \/ torn
    \/ \E s \in Session : At(s, "disconnecting")

Ready ==
    /\ source.credential_ref \in secrets \ revoked
    /\ source.enabled
    /\ source.boundary # NULL

\* Sources that are listed whole each time: once the source is left ready and
\* syncing goes on, what stays in its boundary is imported as it is.
EventuallyImported ==
    <>[](Ready /\ source.kind \in {"drive", "calendar"})
        => <>[](\A i \in Item : Wanted(i, source.boundary) => Imported(i))
=============================================================================
