------------------------------ MODULE Provider ------------------------------
(***************************************************************************)
(* What a connected account holds, and what the four connectors report of  *)
(* it: connectors/drive.py, gmail.py, calendar.py and fathom.py.           *)
(*                                                                         *)
(* remote is the account: one record per thing a listing can return (a     *)
(* file, a message, an event, a meeting).  place is the boundary it lies   *)
(* in (NULL: none of them), page the page of that boundary's listing that  *)
(* shows it, marker what the connector takes for its version, bytes what a *)
(* download returns, dated when it arrived.  A page stands for one call of *)
(* discover: one folder of a Drive tree, or one page token's worth of the  *)
(* other three.  Time passes in ticks of 48 hours, the overlap that        *)
(* services/sync.py subtracts from a watermark.                            *)
(*                                                                         *)
(* The account changes on its own, at most MaxChanges times.               *)
(***************************************************************************)
EXTENDS Naturals

CONSTANTS
    Item,           \* things the account holds
    Boundary,       \* folders, queries or rule sets a user may save
    WeakItem,       \* meetings that only a URL or a time window matches
    NULL,
    LastPage,       \* pages of a listing
    MaxMarker,      \* bound: versions of one item
    MaxChanges,     \* bound: changes of the account
    MaxTime         \* bound: ticks of 48 hours

ASSUME ProviderAssumption ==
    /\ WeakItem \subseteq Item
    /\ NULL \notin Boundary
    /\ {LastPage, MaxMarker, MaxChanges, MaxTime} \subseteq Nat
    /\ LastPage > 0 /\ MaxMarker > 0

VARIABLES
    remote,         \* Item -> what the account holds of it
    now,            \* ticks since the start
    changes         \* changes so far

providerVars == <<remote, now, changes>>

SourceKind == {"drive", "gmail", "calendar", "fathom"}
Bytes == {"a", "b"}
Page == 1 .. LastPage
RemoteState == {"live", "trashed", "gone", "denied"}

RemoteRow ==
    [place: Boundary \cup {NULL}, page: Page, marker: 1 .. MaxMarker,
     bytes: Bytes, state: RemoteState, dated: 0 .. MaxTime]

\* What a listing says of one item; a calendar event or a meeting comes with
\* its whole content, a file or a message is downloaded later.
ArtifactMetadata ==
    [item: Item, marker: 1 .. MaxMarker, bytes: Bytes, is_trashed: BOOLEAN]

\* Where a listing is to be continued.
Checkpoint == [boundary: Boundary \cup {NULL}, page: Page]

ProviderInit ==
    /\ remote \in [Item -> {r \in RemoteRow :
                              /\ r.marker = 1 /\ r.bytes = "a"
                              /\ r.state = "live" /\ r.dated = 0}]
    /\ now = 0
    /\ changes = 0

-----------------------------------------------------------------------------
(* The connectors. *)

\* Faulty: the day of the watermark itself is left out.
InWindowExclusive(kind, since, i) ==
    kind \in {"gmail", "fathom"} /\ since # NULL => remote[i].dated > since

\* Gmail's after: and Fathom's created_after.
InWindow(kind, since, i) ==
    kind \in {"gmail", "fathom"} /\ since # NULL => remote[i].dated >= since

\* The folder queue in a Drive checkpoint holds folders of the boundary the
\* pass began with; a page token continues whatever is asked for now.
Scope(kind, boundary, checkpoint) ==
    IF kind = "drive" /\ checkpoint # NULL THEN checkpoint.boundary
                                           ELSE boundary

PageNumber(checkpoint) == IF checkpoint = NULL THEN 1 ELSE checkpoint.page

metadata(i) ==
    [item |-> i, marker |-> remote[i].marker, bytes |-> remote[i].bytes,
     is_trashed |-> remote[i].state = "trashed"]

\* An empty rule set (NULL) matches nothing.
Matches(boundary, i) == boundary # NULL /\ remote[i].place = boundary

OnPage(boundary, checkpoint) ==
    {i \in Item : /\ Matches(boundary, i)
                  /\ remote[i].page = PageNumber(checkpoint)}

Live == {i \in Item : remote[i].state = "live"}

\* discover, one page.  Drive: the next folder of the queue, without trash.
DriveListing(boundary, checkpoint) ==
    OnPage(Scope("drive", boundary, checkpoint), checkpoint) \cap Live

\* Gmail: a message that can be listed but not read is skipped.
GmailListing(boundary, since, checkpoint) ==
    {i \in OnPage(boundary, checkpoint) \cap Live : InWindow("gmail", since, i)}

\* Calendar: an event of the scan window that a rule matches; a cancelled one
\* is listed, and marked so.
CalendarListing(boundary, checkpoint) ==
    {i \in OnPage(boundary, checkpoint) : remote[i].state \in {"live", "trashed"}}

\* Fathom: a meeting created after the watermark that a rule matches.
FathomListing(boundary, since, checkpoint) ==
    {i \in OnPage(boundary, checkpoint) \cap Live : InWindow("fathom", since, i)}

DiscoveredArtifacts(kind, boundary, since, checkpoint) ==
    {metadata(i) : i \in
        CASE kind = "drive"    -> DriveListing(boundary, checkpoint)
          [] kind = "gmail"    -> GmailListing(boundary, since, checkpoint)
          [] kind = "calendar" -> CalendarListing(boundary, checkpoint)
          [] kind = "fathom"   -> FathomListing(boundary, since, checkpoint)}

\* Where to go on.
next_checkpoint(kind, boundary, checkpoint) ==
    IF PageNumber(checkpoint) = LastPage THEN NULL
    ELSE [boundary |-> Scope(kind, boundary, checkpoint),
          page |-> PageNumber(checkpoint) + 1]

\* fetch: a download sees the account as it is now, which may be newer than
\* the listing; an embedded event or meeting is what the listing returned.
Downloads(kind) == kind \in {"drive", "gmail"}

CanFetch(kind, m) ==
    Downloads(kind) => remote[m.item].state \in {"live", "trashed"}

fetch(kind, m) == IF Downloads(kind) THEN remote[m.item].bytes ELSE m.bytes

HasCheckAvailability(kind) == kind \in {"drive", "calendar"}

\* check_availability: Drive takes a file that exists for one that left the
\* folder; Calendar evaluates the rules again.
check_availability(kind, boundary, i) ==
    CASE remote[i].state = "denied" -> "inaccessible"
      [] kind = "calendar" /\ remote[i].state = "live"
         /\ Matches(boundary, i) -> "available"
      [] OTHER -> "deleted_external"

-----------------------------------------------------------------------------
(* Changes of the account. *)

Change(i, row) ==
    /\ changes < MaxChanges
    /\ row # remote[i]
    /\ remote' = [remote EXCEPT ![i] = row]
    /\ changes' = changes + 1
    /\ now' = now

\* A new version: a later modification time for a file or an event.  For a
\* meeting a hash of its transcript, summary and action items, which may be
\* one it had before, and stays when only its title changes.  A message never
\* changes.
Edit(kind, i) ==
    \E m \in 1 .. MaxMarker, b \in Bytes :
        /\ kind # "gmail"
        /\ kind # "fathom" => m > remote[i].marker
        /\ Change(i, [remote[i] EXCEPT !.marker = m, !.bytes = b])

\* Moved in or out of a folder, or retitled so that other rules match.
Move(kind, i) ==
    \E b \in Boundary \cup {NULL}, p \in Page :
        /\ kind \in {"drive", "calendar"}
        /\ Change(i, [remote[i] EXCEPT !.place = b, !.page = p])

\* A message or a meeting arrives and is listed from then on.
Arrive(kind, i) ==
    \E b \in Boundary, p \in Page :
        /\ kind \in {"gmail", "fathom"}
        /\ remote[i].place = NULL
        /\ Change(i, [remote[i] EXCEPT !.place = b, !.page = p, !.dated = now])

\* Trashed or cancelled, deleted, made inaccessible, or restored.
Withdraw(i) ==
    \E s \in RemoteState : Change(i, [remote[i] EXCEPT !.state = s])
=============================================================================
