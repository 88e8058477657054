# TLA+ specifications of Project Context

Project Context is a local, single-user application: a Streamlit interface over one
SQLite file.  It collects evidence (Drive, Gmail, Calendar, Fathom, manual uploads),
has a language model extract observations from it, reconciles each observation with a
ledger of project state (decisions, commitments, risks, ...) into a *proposal*, and
changes the ledger only when a person accepts the proposal.  From the ledger it writes
briefs.  These modules model that program from its source under `src/`; paths below are
relative to `src/src/project_context/`, or to `src/` if they begin with `migrations/`,
`scripts/` or `docs/`.

## 1. Inventory

Concurrency.  Every run of a page opens its own connection (`ui/db.py`), every browser
tab is a session of its own, and a press of a button reruns the page's script from the
top.  `transaction()` (`db/connection.py:115-168`) is `BEGIN IMMEDIATE`, joins a
transaction already open on the connection, and rolls all of it back on any exception;
a lock not obtained in time is `DatabaseBusyError`.  Whatever a service reads *before*
its transaction may be out of date inside it.  Outside a transaction each statement
commits by itself: a sync is a long row of such statements.

| Part | State | Operations | Hard | What makes it correct |
|---|---|---|---|---|
| Ledger rules (`domain/ledger.py`) | none | `validate_transition` | eight transition types, seven kinds, six statuses | no illegal (kind, from, to, type) gets through |
| Ledger (`services/ledger.py`, `db/ledger_repository.py`) | `ledger_items`, `ledger_versions` | create, append, link a supersession | pointer, chain and projection change together | one unbroken chain per item; the projection is its end; history is never rewritten |
| Review (`services/review.py`) | `proposed_mutations`, `reviews`, `corrections`, `evidence_links` | accept, edit and accept, reject, mark complete, mark superseded, treat as new | reads before the transaction; several tabs; failures half-way | a proposal is decided once; nothing enters the ledger unreviewed or without evidence; snapshots and correction flags tell the truth |
| Activity page (`ui/pages/activity.py`) | the session's card and form | render, press, submit | the rerun reads everything again | a decision is about what the reviewer saw; each press is answered |
| Reconciliation (`domain/reconciliation.py`, `domain/reconciliation_language.py`, `services/reconciliation.py`) | proposals, status of observations | score, classify, propose; loop over pending observations | check outside the transaction; an assertion in `_create_patch`; a thousand-line decision procedure | one proposal per observation (not kept, section 6), at most one of them pending; a confident proposal is one its target allows; what a person corrected stands |
| Sync (`services/sync.py`, `db/sync_repository.py`, `db/sources_repository.py`, `connectors/`) | runs, cursor, watermark, boundary, health, availability | one run per source, page by page | connector failures, interrupted scripts, two runs at once, the limit of pages, disconnect or another boundary during a run | nothing is lost for good; what is marked gone is gone; a run ends |
| Credentials (`credentials/`, `services/google_connect.py`) | references, secrets | connect, refresh with rotation, disconnect | two stores, no shared lock, a failure between them | the row points at a stored secret; none outlives its project |
| Evidence (`services/evidence.py`, `evidence_store.py`) | artifacts, contents, chunks, files | submit, store, read | file written before its row; files shared by digest | each content has its bytes; no file is left over |
| Extraction (`services/extraction.py`, `services/observations.py`) | observations | extract, chunk by chunk | repeated and partial extraction | fingerprints keep observations unique |
| Deletion, archive (`services/project_deletion.py`, `services/projects.py`) | every table, files | create, edit, archive, restore, delete | files removed after the commit; bytes shared with another project | no other project loses anything; archived means frozen |
| Backup (`backup.py`, `scripts/backup.py`) | copies of the database and files | back up, restore | a process of its own, beside the running application | a copy has the files its rows name |
| Briefs, meeting preparation (`services/briefs.py`, `services/meeting_prep.py`, `services/brief_shared.py`, `retrieval/`) | briefs, claims, a preview in the session | preview, generate | several queries and no transaction; two sessions; a model that answers anything | claims rest on stored facts of their section; one current brief; one project |
| Calendar and Fathom matching (`domain/calendar_matching.py`, `domain/fathom_matching.py`) | boundary, availability | match, edit the rules | tiers, exclusion, weak links | weak links alone assign nothing |
| Texts (`chunking.py`, `services/*_ingestion.py`, `ui/pages/evidence.py`) | chunks | assemble, split, cite | offsets through several layers | extraction reads the author's own words, all and only |
| HTTP and LLM retry (`connectors/http.py`, `llm/retry.py`) | attempt counters | call | limits, retry-after | bounded attempts |
| Migrations, maintenance (`db/migrations.py`, `scripts/`) | schema version | migrate, compact | a crash between migrations | a prefix of the migrations is applied |

How they interact: the settings page starts a sync, which calls a connector and writes
evidence; extraction reads chunks and writes observations; reconciliation reads the ledger
and inserts proposals; review reads proposals and the ledger and writes both; briefs read
the ledger.  The only shared state is the database, the credential store and the files.

`PROJECT.json` lists every hazard found in the code with its line and the properties about
it; a hazard without one carries the reason.

## 2. Plan

1. **Ledger and review** (done): `LedgerRules`, `Ledger`, `MatchRules`, `Review`,
   `ReviewPromise`, `LedgerProofs`, `ReviewProofs`, and `PromiseProofs`: that `Review`
   implements `ReviewPromise`, for any constants.
2. **Reconciliation** (done): the decision procedure (`Language`, `DecisionRules`,
   `Reconcile`, `DecisionProofs`), proved to stay within what `Review` assumes of it, and
   the loop over pending observations (`Observations`, `Workspace`).
3. **Sync and credentials** (done, but for what section 7 names): `Provider`,
   `Credentials`, `Sync`, `SyncProofs`.
4. **Evidence, deletion, backup** (done): `Projects`, `EvidenceStore`, `Backup`,
   `Workspace`, `WorkspaceProofs`.
5. **Briefs** (`ClaimRules`, `Briefs`, `BriefsProofs`), **matching** (`Matching`) and
   **texts** (`Passages`), both with their proofs in `PassagesProofs` (done).
6. **Left**: the encrypted credential file, migrations, and the extraction and
   reconciliation at the end of a sync.

## 3. The modules

Which module extends which:

    LedgerRules <- Ledger <- Review (with MatchRules; INSTANCE ReviewPromise)
                   Ledger <- Briefs (with ClaimRules)
    MatchRules, Language <- DecisionRules <- Reconcile
    Provider <- Credentials <- Sync
    Projects <- EvidenceStore <- Observations <- Backup <- Workspace
    Matching <- Passages

An MC module bounds a module for TLC; where it takes several, a variable `theme`, chosen
in its initial state, says which of them a behaviour is about, and the others stay as they
are at first.

    MCReviewWork = MCReview (Review) + MCReconcile (Reconcile)
    MCWorkspace  = Workspace + MCPassages (Passages, Matching) + MCLedger (Ledger, Briefs)
    MCLive       = MCSync (Sync) + INSTANCE Review

The theme of a behaviour decides which next-state relation it follows, so what is checked
of one module is what it would be in a run of its own.  `Workspace` and its parts write
`None` where the other modules write `NULL`, and the sessions of `Briefs` are its `Reader`s,
since each is a constant of its own.

Definitions commented "faulty" are not part of the model.  Each is a plausible bug in the
definition it precedes, by which a property is shown to be able to fail.

### Ledger and review

**`LedgerRules`** is the vocabulary of `domain/ledger.py`: `VALID_STATUSES_BY_KIND`,
`INITIAL_STATUS_BY_KIND`, `ALLOWED_FROM_STATUSES`, `FIXED_TARGET_STATUS`, and
`validate_transition`, which is TRUE where the function returns and FALSE where it
raises.  **`MatchRules`** holds the tables of kinds of `domain/reconciliation.py`.

**`Ledger`** has the two tables as functions from keys to rows.  A version's key is
`<<item, version_no>>`, which `migrations/0005_ledger_and_review.sql:267` makes unique.
`owner` stands for all the fields an update carries forward or overwrites (owner and due
date); titles, descriptions, dates of effect and confidence are left out.  The operators
`created_*`, `appended_*`, `linked_*` return a table after one write, so that a
transaction is their composition; `CreateItem` and `AppendVersion` are the two functions
of `services/ledger.py`, driven by `LedgerSpec` with every transition type.

**`Review`** adds proposals, reviews, corrections, evidence links and the browser
sessions.  One press of a button is four steps, because the code reads and writes the
database in four places:

| Action | Code | Reads or writes |
|---|---|---|
| `RenderCard` | `_render_review_queue_tab`, `build_review_card` | the card the person sees |
| `Press` | rerun of the page, `_render_quick_actions`, `_render_edit_and_accept_form` | queue and card once more; fixes the expected version |
| `Load` | `_apply` up to its transaction, `reject_proposal` likewise | proposal, target row; idempotence, staleness and conflict checks |
| `CommitReject`, `CommitNoMutation`, `CommitCreate`, `CommitSupersede`, `CommitChange`, `CommitFails` | the transaction of `_apply` and `reject_proposal` | everything, atomically |

`Propose` is the environment: any proposal `classify_action` can return for the ledger as
it is (`Classified`), without the scores that select one.  `ProposalsFitReview` checks the
assumption: no observation makes `DecisionRules` propose anything else.  The session keeps
the row `Load` read, and `CommitChange` uses it where the code does (status, snapshots),
while `append_ledger_version` reads the row again for validation and for fields carried
forward.  `CommitFails` is every exception in the transaction: a plan without target or
kind, a transition the ledger refuses, the unique index on `reviews.proposal_id`, and the
lock timeout.  The last two are not caught by `_run_action`; the page shows an error all
the same.

**`ReviewPromise`** is what review promises with no sessions or tables in sight: a
proposal is decided once, and the ledger moves only in the step that accepts one, by at
most one legal transition or one supersession.  `Review` instantiates it with a
refinement mapping (`Promise`); `KeepsPromise` is checked as a property and proved.

### Reconciliation

**`Language`** has the phrase tables of `domain/reconciliation_language.py`, each by one
representative and by every phrase `normalize_form` changes; a statement is the set of
phrases in it, and `_search` compares the normalized text with the tables as they stand.

**`DecisionRules`** is `domain/reconciliation.py`: match features and their weights,
`score_match`, `determine_match_outcome` with its margin, the branches of `classify_action`
in the code's order (`Rules`, `Applies`), the patch and status a branch proposes, the
checks and escalation reasons, and the confidence bands.  Scores are integers, in
hundredths of a percent, where the code computes in floating point.  **`Reconcile`** looks
candidates up for one observation, ranks them and decides.  Candidates come out of a
`set`, so those with equal scores may be in any order: `Cases` has a case for each.

### Sync

**`Provider`** is the account and the four connectors: what each lists of it, page by
page, from a checkpoint and a watermark, what a download returns, and what can be asked
about one item.  An empty boundary (`NULL`) matches nothing (`Matches`).  The account
changes by `Edit`, `Move`, `Arrive` and `Withdraw` at any time. **`Credentials`** is the
row of `sources` with the credential store beside it. **`Sync`** is `services/sync.py`
and the settings page.  A session's `pc` names its next step: `credential`, `exchange`
(a token refresh is two calls), `construct`, `validate`, `discover` (one page),
`artifact` and `store` for each item of it, then `vanished`, one artifact at a time,
`finish` and `close`.  `Failure` is a failed call or an interrupted script (Streamlit
stops a script when the page is left), which leaves everything where it is.  The loop
over pages ends after a failure, after the last page of the listing or after
`MaxPagesPerSync` pages; at that limit a run ends as completed all the same, with its
cursor kept and its watermark moved.  The connectors of Drive and Gmail refuse an empty
boundary; those of Calendar and Fathom run with no rules, match nothing and complete
(`Runnable`). `quiet`, `root` and `complete` are history: whether the pass met a change
of the account, began at the root, and got a page; so is `blind`, which says that some
run so far was cut at the limit or went on without rules.

### Workspace

**`Projects`**, **`EvidenceStore`** and **`Observations`** have the rows and the
transactions over them, **`Backup`** the copying process, and **`Workspace`** the sessions
that use them all: `Submit` reads, `BeginStore` opens the transaction and writes the file,
`CommitStore` commits; extraction and reconciliation go observation by observation, each
checked in one step and written in another; a deletion disconnects, purges the rows and
sweeps the files one by one.  `writer` is SQLite's lock, `Busy` the timeout of whoever
waits for it.  `late` records what the code cannot see: digests submitted, and projects
connected, after a deletion had looked.  `Crash` rolls back what is open and keeps the
files; `Restore` puts a finished backup in place.

### Briefs

**`ClaimRules`** is `services/brief_shared.py`: which sections are sent to the model,
how a claim it returns is classified, and what is rendered.  **`Briefs`** reads the
facts of a brief query by query while the ledger moves (`ReadSection`), keeps a
meeting's facts in the session (`preview`, which stays until a meeting's brief has been
generated, whatever current briefs are in between), inserts the brief (first
transaction), takes any composition of the model (`Compositions`: claims of any section
sent, citing nothing, a fact of any section or an unknown id) and finishes the brief,
superseding the previous one (second transaction).

### Matching and texts

**`Matching`** has the two rule sets.  An item is the set of rules it meets, configured or
not, so that every text and address is covered; `edit_boundary` changes the configuration
at any time.  **`Passages`** puts a document of each kind together from header, own words
and rest, cuts chunks with overlap as `chunking.py` does, character by character offset,
and follows a citation back to the place the viewer opens.  `Document` is every document
the connectors and the upload form can put together, of any size; `MCPassages` takes some
small ones of them.  What the code does in a loop is a recursive function (`Total`,
`_split_oversized_block`, the packing in `chunk_blocks`) or `FlattenSeq`.

## 4. What is checked

| Run | Module, configuration | Shows |
|---|---|---|
| `review_work` | `MCReviewWork`: one reviewer with all six actions; two tabs racing; one decision of reconciliation | decided once, applied once, evidence for every version, nothing left by what was rejected, failed or changed nothing, supersession pairs, correction flags and snapshots agree, terminal statuses final, the abstract promise; confident proposals apply, ties decide only what is marked uncertain, corrections stand, `Review` assumes enough |
| `workspace` | `MCWorkspace`: two sessions and a backup over two projects; one document; one event or recording; the ledger service on one item; briefs of one session and of two | each row has its file and no file or secret is left over, an observation is neither lost nor proposed twice at a time, backups are complete, archived projects are frozen; extraction reads the author's own words, weak links assign nothing; chains, projection, append-only history and lifecycle; one current brief of a type, claims that rest on their section, no section silenced, no state older than the changes listed |
| `sync` | `MCSync`: all four kinds of source, two tabs on Drive | a completed pass over the whole listing imported everything, only what is gone is marked gone, the watermark passes over nothing unless a run failed, was cut or had no rules, the row points at a stored secret |
| `live` | `MCLive`, fairness: Drive and Calendar with a limit of one page a run; the review page in two tabs | what stays in the boundary is imported in the end, page by page; each press is answered |
| `review_corrected`, `review_stale`, `review_redirect`, `review_snapshots`, `briefs_project`, `decide_update`, `links`, `duplicates` | as small as the case allows | the eight disagreements of section 6 |

Bounds, and why they are enough.

*Review.*  Items do not interact except in a supersession, which needs two; the chain that
matters (an item that supersedes one and is then superseded) needs three.  Each proposal
is decided at most once, so the number of proposals bounds the number of changes: three
allow create, change, change of one item, which is what a stale read needs (a first change
to be overtaken by a second).  A race needs two sessions; a third would only repeat the
second.  The theme `history` has one session, two owners and every action with edits of
status; `race` has two sessions, one owner and three actions.  `SnapshotsHonest` is a
statement about `history`: in `race`, with one owner and no edits of status, whatever
overtakes a read also makes the ledger refuse the write, and `review_snapshots` shows what
happens otherwise.  `ItemId` has as many
members as `ProposalId`, because a review creates at most one item.  One kind is in play.

*Ledger and briefs* (themes of `MCLedger`).  `history` has one item of any kind and
three versions, since a chain is regular after its third element.  `claims` has one
brief with everything a model may answer in one claim (`MaxComposed`); `sessions` has
two sessions and two briefs (`MaxBriefs`), which is what it takes to supersede one.
Outside `history` a commitment has no owner, and there are two versions, and in
`sessions` one.  In `claims` no second preview is read over the first; in `sessions` the
facts of one session are read in one go, the ledger rests while briefs are written, and
a preview is followed by its own brief.  What these leave out (a preview kept over a
current brief, another project selected beside it) is in the run `briefs_project` and in
the proofs, which have no themes.

*Decisions.*  166,800 initial states: any wording of at most two phrases about one item of
any kind and status; and two items whose features take the values on either side of every
threshold (tokens 0, 50, 100; owner the same, another, none; days 0, 7, 14; corrected or
not), beside an observation of any owner and date.

*Sync.*  Two items of one boundary on two pages (the second may arrive later), two
versions of each, two boundaries, and at most three of failure, click and change
together (`Trouble`), one failure, two clicks, two changes.  Losing an item takes one
failure or one change between two pages, and its recovery a second pass, which nothing
bounds. `MaxPagesPerSync` is two in `sync`, the whole listing, so that a completed run
is one whose promise can be asked for; it is one in `live`, where every run over both
pages is cut and the next one has to make up for it.  The proofs hold for any limit.  A
run without rules comes about when the first boundary is saved in the other tab after
the run read an empty one and before it reads the row.  A second tab does more than that
on a Drive source only, and syncs beside the first only while the account stays as it
is.  Time is in ticks of 48 hours, the overlap, and one tick separates what a watermark
covers from what it does not.  In `live` there is one session, one change, one failure
and two clicks.

*Presses* (`live`).  Two tabs, two items, two proposals and three actions: one that changes
a row, one that changes nothing and one that writes two items.  The others end in the same
steps.

*Workspace.*  Two projects and two sessions are what sharing a file and racing for it
takes (`duplicates`: one project, and no ledger); two names that normalize alike, two
digests (one that parses into a chunk, one that does not and is too large to upload),
two statements, of which one has evidence.  Three edits, three submissions, one backup
and one crash or restore, of which the theme `files` spends four in all.

*Texts.*  Documents of up to three paragraphs of their own, with headers and rests, of
words that fit the chunk target and that do not (targets 4 and 7), with overlap and
without; `links` takes the same documents.  *Matching.*  Every set of rules met beside
every boundary that edits reach.

The symmetry sets are sound: no definition chooses among the members of one, and the run
that checks liveness uses none.

Fairness (`LiveSpec` of `MCLive`).  `Review`: weak fairness on `Load(s)` and `Commit(s)`
of each session: once the script of a rerun has entered a handler, nothing but its own
statements is needed for it to end, since locks are waited for with a timeout.  None is
assumed for `Propose`, `RenderCard` and `Press`, which are other programs' and people's
doings.  `Sync`: weak fairness on `Work(s)`, for the same reason, and on `StartSync(s)`:
nothing in the application syncs by itself, so `EventuallyImported` speaks of a user who
goes on pressing the button.  Its premise is that the source is ready from some time on;
failures before are unrestricted but for their number.  Each fairness condition is about
the behaviours of one theme, and says nothing of the other.  Gmail and Fathom are left
out of it, because what fails there and grows older than the overlap is never asked for
again.  Deadlock is not checked: the system stops when everything is decided, or when
nobody presses anything.

## 5. What is proved

Each proof module proves its theorems for any values of the constants: any numbers of
sessions, projects, items, proposals, versions and crashes.

**`LedgerProofs`** (assumption: `NullAssumption`, NULL is no id and no value):
`LedgerCorrect` (`LedgerTypeOK`, `ChainOK`, `ProjectionOK`; `LedgerTyped` and
`LedgerProjects` state the first and the last by themselves), `LedgerHistory`
(`AppendOnly`), `LedgerLifecycle` (`LegalLifecycle`).  The inductive invariant is the
conjunction of the three invariants.  None is inductive alone: the number of the next
version is one more than the current version's only because the current version is the
last of its chain (`NextVersionNo`), so that the new row is new (`NextVersionIsNew`) and
the pointer of the version it closes points at it; and both need typed rows.  The lemmas
are about tables and not about the variables, so that they serve for the transactions of
`Review` as well.  `AppendOnly` needs one more fact, `OpenUnlinked`: an open version has
no pointer yet, so closing it moves none.

**`ReviewProofs`** (and `ReviewAssumption`: what is offered and entered comes from the
code's enumerations): `ReviewCorrect` (`TypeOK`, `ChainOK`, `ProjectionOK`, whatever the
sessions read before others commit) and `ReviewDecides` (`DecisionRecorded`).  The
inductive invariant `ReviewInv` is the ledger's, the types of the other tables,
`DecisionRecorded` and `References`: a proposal, and whatever a session has pressed or
loaded, refers only to rows that exist.  `References` makes the rest inductive, because a
transaction writes with the proposal, target and row that `Load` read and not with the
current ones.  There is one lemma per action.

**`PromiseProofs`** goes on from there: `ReviewKeepsPromise` (the refinement of
`ReviewPromise`), `ReviewRejects` (`NothingFromRejected`: nothing is left by a
rejected or failed review, and no correction or link by an accepted one that wrote no
version, but for the evidence of `add_evidence`), `ReviewEvidence`
(`EveryVersionReviewed`), `ReviewSupersedes` (`SupersessionPaired`), `ReviewOnce`
(`AppliedOnce`), `ReviewFlags` (`CorrectionFlagHonest`) and `ReviewTerminal`
(`TerminalStaysTerminal`).  A transaction is seen by its effect: `NextEffect` says that
every step reads, raises a proposal, rejects one or accepts one, and what an accepting
step writes.  `OutcomeInv` adds to `ReviewInv` that links and corrections belong to stored
reviews that accept, that every item has its first version and corrections are of existing
items, and the five invariants to be proved.

`ReviewSnapshots` (`SnapshotsHonest`; `RowAssumption`, NULL is no row) has the hypothesis
that there is one browser session.  It is the most that can be said: the snapshot taken
before a change is of the row `Load` read, and with a second session
`review_snapshots` shows a transaction that falls in between.  The invariant `SnapshotInv`
adds that what the session has read is the item's last row until it commits, and that the
version another one continues is stored.

**`DecisionProofs`** (`ReconcileAssumption`: days are integers, and `Nothing` is no day, no
person and no item): `ConfidentProposals` (`ConfidentMeansApplicable`),
`CorrectionsNotOverruled` (`CorrectionsStand`), `ProposalsFit` (`ProposalsFitReview`) and
`OrderRarelyMatters` (`OrderMattersOnlyWhenUncertain`), for any number of candidates with
any kinds, statuses, owners and dates, and for any wording.  A decision is made once and
stays, so the invariant, `DecisionInv`, is that it is `classify_action` of one of the cases
of the observation; the work is in the lemmas about the procedure.  A score is a number,
by which the candidates of a case are ranked; the branch that applies is the first whose
condition holds, and determines action, patch and escalation reasons; a target chosen by
the order alone has a rival with no margin to it, which is what lowers the band and gives
the reason.  `ProposalsFit` is what connects the two halves of the project:
every proposal the procedure makes is one `Review` raises.

**`WorkspaceProofs`** (`WorkspaceAssumption`, `EvidenceAssumption`,
`ObservationAssumption`): `WorkspaceTyped`, `FilesStay` (`RowsHaveObjects`), `FilesGo`
(`NoFileLeftOver`), `SecretsGo` (`NoSecretLeft`), `ReconciledOnce`
(`ReconciledIffProposed`: an observation is reconciled exactly when it has proposals, of
which at most the last is pending), `BackupsComplete` (`BackupComplete`) and
`ArchivedFrozen` (`ArchivedIsFrozen`).  The invariant says of each session in the middle
of something what it holds on to: who is storing has the lock, and its project cannot go
meanwhile; a file to be swept is not one a row needs, except what is `late`; a file
without a row is one that somebody is storing or about to sweep; a backup's rows are as
consistent as the tables were, and each of its files is copied, still to be copied, or
lost to a deletion.

**`BriefsProofs`** (`NullAssumption`): `OneCurrentBrief`, `ClaimsRest`, `NoneSilenced` and
`StateIsLater`.  The last rests on the ledger's chain: what a query reads later is a later
version.  The facts of a preview are held to the same conditions as those of a brief being
written (`Held`, `Previews`), since they become its facts.

**`SyncProofs`** (`ProviderAssumption`, `CredentialAssumption`, `SyncAssumption`: the
numbers are numbers, an account holds finitely many items, NULL is no boundary;
`NullAssumption`: NULL is no row) has four invariants, each resting on the one before, for
any numbers of sessions, items, pages, boundaries, connections, failures and changes, and
any limit of pages.

- `ReferencesHold` (`RefHasSecret`), by `RefInv`: a reference is issued once, the one a
  connecting session is about to point the row at is its own, and nobody else can delete
  it before.
- `SyncTyped` (`SyncTypeOK`), by `TypeInv`.  That a counter keeps its range is a fact about
  the whole pass: a pass on page *n* has listed at most *n* pages of at most all items
  (`Paging`), and what it lists next is the page after.  `Working` says what a session in
  the middle of a step holds on to: its boundary, the row of the artifact in its hands.
- `CompletedImports` (`CompletedRunImportedAll`) and `OnlyTheVanished` (`VanishedAreGone`),
  by `PassInv`.  Of a quiet pass from the root it says: what is due on the pages behind it
  is imported, what is due on its own page is listed, in hand or imported (`Importing`),
  and what the boundary holds there was seen (`Seeing`).  Alone that is not inductive: an
  artifact is skipped when its current version has the listed marker, which means it is
  imported only because bytes stored under a marker are those the account had under it
  (`Contents`, `Honest`); bytes stored earlier become current again unless they were current
  when the artifact was read, which is right only while nobody else stores (`quiet`); and a
  checkpoint of another boundary would skip pages (`Rooted`).  `CompletedRunImportedAll` is
  about a run that reached the end of the listing: one cut at the limit of pages ends
  completed with pages unread, and its cursor says so.
- `WatermarkHolds` (`WatermarkCovers`), by `WaterInv`.  It supposes that no run was
  `blind`: one cut at the limit of pages, or without rules, moves the watermark past what it
  did not read.  The watermark is written by one run
  about items that another may have imported, since a run resumes from the cursor whichever
  run left it.  So the invariant speaks of marks and not of runs: what is older than the last
  tick lies behind the watermark, or on the pages behind the cursor, only if it is covered
  (`Marks`), and every pass under way has covered the pages behind its own checkpoint and
  holds what is left of its page (`Water`).  The cursor stands on a page only while some
  pass goes on, so no tick passes meanwhile.  Only a first boundary can be saved within the
  promise, before anything was imported, and only one change of the account, which cannot
  bring back what was there.

The lemmas named `...Is` say field by field what a step makes of a session's row; the three
sets of preservation lemmas (`...Typed`, `...Passes`, `...Water`), one for each action, are
built on them.

**`PassagesProofs`** (`MatchingAssumption`, `PassagesAssumption`: `Nothing` is no
availability and no number): `Assignments` (`AssignedByMoreThanTiming`), for every item and
every history of the boundary; `OwnWordsAlwaysRead` (`ExtractionReadsOwnWords`), for every
document in `Document`: any paragraphs of any words, any target and any overlap below it.
The state is simple, and `PassagesInv` says no more than that what is stored is
what `chunk_blocks` makes of the document; the work is in what the functions compute.

- *Recursion.*  That a recursive function has a value at all, and which, is proved and not
  assumed: `Counting` is induction over a set of numbers, by its least missing member
  (`LeastOf`, from the well-foundedness of `<`), and `Loop` says that a function counted up
  to a bound exists.  `SumsThere`, `FlattensThere`, `PackedThere` and `PartsThere` apply it,
  the last counting down from a block's end, and `TotalAppend`, `FlattenAppend`, `NextPacked`
  and `SplitIs` are the equations that follow.  No theorem with an operator as parameter is
  needed.
- *Which blocks are read.*  Offsets grow along a text (`OffsetsGrow`), so the tests of
  offsets the four ingestion services make are tests of position (`GmailVisible`,
  `CalendarVisible`, `FathomVisible`), and the visible blocks are a run of the paragraphs
  (`VisibleBlocks`, `VisibleSpans`).
- *No word lost.*  Cutting a long block loses at most blanks, and its pieces are in order,
  not empty and no longer than the target (`SplitIs`, `NormalizedIs`).  Packing keeps an
  invariant (`Packing`): each chunk is a run of the pieces no longer than the target and the
  overlap, has a piece the one before has not, and no piece is left out; the last chunk ends
  with the last piece so far, without which a new piece could not be seen to extend the run
  (`NextPacked`, `PackedUp`).  So the chunks hold all pieces and nothing else (`ChunksHold`,
  `OwnWordsRead`).

Only model-checked: liveness (`EveryPressAnswered`, `EventuallyImported`), which is out of
the prover's reach.  `SnapshotsHonest` is proved for one session and checked for one; with
several it is false (section 4).

## 6. Where code and documentation disagree

1. `review_corrected`.  `services/review.py:28-31` promises that a recorded correction
   sets `user_corrected`, "so reconciliation never silently reverses it again".  The
   supersession branch (741-808) records corrections for the successor and does not set it.
2. `review_stale`.  `StaleReviewError` is for a card "rendered against state that has since
   changed" (`services/review.py:125-128`).  The page computes the expected version in the
   rerun that handles the press (`ui/pages/activity.py:296`), so it compares the database
   with itself a moment later and never with what was displayed.
3. `review_redirect`.  "Redirect this proposal to a different close candidate."
   (`ui/pages/activity.py:455`) cannot work: the version of the proposal's own target is
   compared with the version of the other candidate.
4. `review_snapshots`.  The snapshots of a review (`services/review.py:20`) come from a row
   read before the transaction.
5. `briefs_project`.  "Projects are hard boundaries."
   (`docs/Project_Context_Product_Plan_v1.md:58`)  A meeting's preview is kept in the
   session under a key without the project (`ui/pages/briefs.py:333`) and generated in the
   project selected by then.
6. `decide_update`.  "an update observation never reaches _create_patch"
   (`domain/reconciliation.py:444`) is an assertion that one does reach, by saying that one
   thing replaces another; the loop over pending observations ends there on every later run.
7. `links`.  "Every factual citation opens the evidence viewer at its exact span"
   (`services/brief_shared.py:163`).  The link carries the offsets of the quote in its chunk
   (184), and the viewer takes them for offsets in the whole text of the current version
   (`ui/pages/evidence.py:375`): only a citation of a chunk that begins where the text does,
   and is cut out of it unchanged, opens where it should.
8. `duplicates`.  "a repeated reconciliation run must not duplicate proposals."
   (`services/reconciliation.py:277`)  The search for an existing proposal (280) is outside
   the transaction that inserts one, and the unique index is about pending rows: when the
   first proposal is decided in between, a second one is inserted.

Met while modelling and not given a run, because no document promises otherwise, the
property would only restate the line, or it is an exception a checked property names:

- Review and ledger: `domain/ledger.py:285-287` says at most one of the two supersession
  links of an item is ever set, and a chain of two supersessions sets both; deselecting all
  citations in the edit form selects all of them (`ui/pages/activity.py:487`); edits to a
  `no_op` or `add_evidence` proposal are dropped (`services/review.py:479`); a double
  submission that loses the race gets an IntegrityError instead of the decision
  (`services/review.py:431`).
- Sync: a failed first page leaves a pass that is taken for a whole one
  (`services/sync.py:766`); a partial run advances the watermark (797), and so do a run that
  stops at `_MAX_PAGES_PER_SYNC` (716), which is completed and keeps its cursor although "A
  completed sync always clears `last_cursor`" (646), and a Calendar or Fathom run that began
  before the first rules were saved; an interrupted run
  stays RUNNING and its source SYNCING (706); the end of a run overwrites the health set
  meanwhile (800); an artifact once marked gone stays so (1062); another boundary keeps the
  old one's cursor (`db/sources_repository.py:163`).
- Credentials: the settings page builds a service, and so a lock, for each rerun
  (`ui/pages/sources_settings.py:97-98`); a refresh that overlaps a disconnect stores the
  deleted secret again (`credentials/service.py:115`); the encrypted file is read, changed
  and written whole (`credentials/store.py:211-223`).
- Evidence and deletion: deleting a project that another project's claims cite fails on the
  foreign key; `restore --force` leaves the `-wal` and `-shm` files of the replaced
  database.
- Briefs: a brief whose session ends while the model answers stays `generating`
  (`services/briefs.py:266`); a suggestion is valid whatever it cites, so one that cites
  nothing keeps the safety net from a section with accepted facts, although it is there to
  "never let that silently drop real state" (`services/briefs.py:193`): what
  `NoSectionSilenced` leaves out.
- Reconciliation: "won't proceed" and "can't proceed" never match, since `normalize_form`
  takes the apostrophe away (`domain/reconciliation_language.py:124,229`); a margin of
  exactly 0.15 depends on floating-point rounding (`domain/reconciliation.py:402`); the
  literals of the close margin are repeated (939); a CREATE with an ambiguous owner can
  have a high band (933).
- Texts and matching: a Gmail paragraph that straddles the quote boundary is left out whole
  (`services/gmail_ingestion.py:65`); a recording stored unassigned stays so when a stronger
  rule is added (`services/fathom_ingestion.py:101`); `preview_detailed` stops when either
  of its two lists is full (`connectors/calendar.py:279`, `connectors/fathom.py:207`).

## 7. Not modelled

- The evaluation harness (`evaluation/`): offline scoring of the pipeline against a corpus,
  no part of the running application.
- Prompts and calls to the language model: what it answers is a choice over what the code
  accepts (`Compositions`, `Accepted`).
- Retry loops (`connectors/http.py`, `llm/retry.py`): they keep nothing between calls, so a
  call with its retries is one outcome, success or failure.
- Migrations and maintenance: migrations run before any page does, each in a transaction;
  maintenance changes no row.
- The encrypted credential file; `sync_items` rows and the counters of a run; the
  extraction and reconciliation a sync may end with (the page never asks for the first).
- The parsers of Word, PDF and subtitle files; full-text search; the layout of pages; the
  Ledger and Overview pages, which only show.
- Of texts: a calendar event whose metadata (its title, a place) has a blank line in it,
  after which the code takes the rest of the metadata for the description
  (`services/calendar_ingestion.py:151`); a link opened on a later version of the artifact.
- Of briefs: that the items of one brief share one cutoff in time.  `compute_cutoff` gives
  each item one of its own, which is more than the code does and leaves no mixture out.
- Of credentials: the step between storing a new secret and pointing the row at it, when a
  deletion of the project falls in between (`credentials/service.py:59-62`); in `Workspace`
  connecting is one step.  A project connected after its deletion had looked for secrets
  keeps one (`late`), which `NoSecretLeft` leaves out.
- What comes after a failed first page (`services/sync.py:766`) is modelled, but
  `VanishedAreGone` does not cover it: the code marks artifacts it did not look for.
- Of review: titles, descriptions and due dates (they follow the owner's path), notes and
  reason codes, confidence, and projects other than one.
