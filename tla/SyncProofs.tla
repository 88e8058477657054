----------------------------- MODULE SyncProofs -----------------------------
(***************************************************************************)
(* Proofs about module Sync, for any number of sessions, items, pages,     *)
(* changes and connections.  However connecting, refreshing and            *)
(* disconnecting interleave, the row points at no secret that is gone; a   *)
(* completed run imported all it could see; an undisturbed one marks       *)
(* nothing as gone that is there; and the watermark passes over nothing.   *)
(***************************************************************************)
EXTENDS Sync, FiniteSetTheorems, TLAPS

-----------------------------------------------------------------------------
(* The invariant. *)

SourceFields ==
    {"kind", "enabled", "boundary", "credential_ref", "health_status", "last_cursor",
     "last_success_at"}

SessionFields ==
    {"pc", "syncing", "boundary", "since", "ref", "running", "checkpoint", "root", "pages",
     "next", "todo", "raw", "seen", "known", "discovered", "failed", "quiet", "complete"}

\* The pcs a reference in the session is used from, or waited for.
Holding == {"connecting", "disconnecting", "exchange"}

References ==
    /\ issued \in Nat
    /\ secrets \subseteq 1 .. issued
    /\ DOMAIN source = SourceFields
    /\ source.credential_ref # NULL => source.credential_ref \in 1 .. issued

Rows == DOMAIN session = Session /\ \A s \in Session : DOMAIN session[s] = SessionFields

\* A session about to point the row at a secret has that secret to itself.
Own(s) ==
    At(s, "connecting") =>
        /\ session[s].ref \in secrets
        /\ source.credential_ref # NULL => session[s].ref # source.credential_ref
        /\ \A t \in Session \ {s} : At(t, "connecting") => session[t].ref # session[s].ref

\* What is exchanged was handed out once.
Issued(s) == At(s, "exchange") => session[s].ref \in 1 .. issued

RefInv ==
    /\ References
    /\ Rows
    /\ \A s \in Session : Own(s) /\ Issued(s)
    /\ RefHasSecret

-----------------------------------------------------------------------------
(* Steps that touch no reference. *)

LEMMA IdleIs == DOMAIN Idle = SessionFields /\ Idle.pc = "idle"
BY DEF Idle, SessionFields

LEMMA BecomeIs ==
    ASSUME Rows, NEW s \in Session, NEW r, NEW disturb, Become(s, r, disturb)
    PROVE  /\ DOMAIN session' = Session
           /\ session'[s] = r
           /\ \A t \in Session \ {s} :
                 /\ DOMAIN session'[t] = SessionFields
                 /\ session'[t].pc = session[t].pc
                 /\ session'[t].ref = session[t].ref
<1>1. DOMAIN session' = Session /\ session'[s] = r
  BY DEF Become
<1>2. ASSUME NEW t \in Session \ {s}
      PROVE  /\ DOMAIN session'[t] = SessionFields
             /\ session'[t].pc = session[t].pc
             /\ session'[t].ref = session[t].ref
  <2>1. session'[t] = [session[t] EXCEPT !.quiet = @ /\ ~disturb]
    BY DEF Become
  <2> QED
    BY <2>1 DEF Rows, SessionFields
<1> QED
  BY <1>1, <1>2

LEMMA KeptStep ==
    ASSUME RefInv, Rows',
           DOMAIN source' = SourceFields,
           source'.credential_ref = source.credential_ref,
           UNCHANGED <<secrets, issued>>,
           \A t \in Session :
              /\ session'[t].pc \in Holding =>
                    session'[t].pc = session[t].pc /\ session'[t].ref = session[t].ref
              /\ At(t, "disconnecting") => session'[t].pc = "disconnecting" \/ torn',
           torn => torn'
    PROVE  RefInv'
<1>1. secrets' = secrets /\ issued' = issued
  OBVIOUS
<1>2. References'
  BY <1>1 DEF RefInv, References
<1>3. ASSUME NEW s \in Session PROVE Own(s)' /\ Issued(s)'
  BY <1>1 DEF RefInv, Own, Issued, At, Holding
<1>4. RefHasSecret'
  BY <1>1 DEF RefInv, RefHasSecret, At
<1> QED
  BY <1>2, <1>3, <1>4 DEF RefInv

LEMMA QuietStep ==
    ASSUME RefInv, NEW s \in Session, NEW r, NEW disturb, Become(s, r, disturb),
           DOMAIN r = SessionFields, r.pc \notin Holding,
           ~At(s, "disconnecting") \/ torn', torn => torn',
           DOMAIN source' = SourceFields,
           source'.credential_ref = source.credential_ref,
           UNCHANGED <<secrets, issued>>
    PROVE  RefInv'
<1>1. /\ DOMAIN session' = Session /\ session'[s] = r
      /\ \A t \in Session \ {s} :
            /\ DOMAIN session'[t] = SessionFields
            /\ session'[t].pc = session[t].pc
            /\ session'[t].ref = session[t].ref
  BY BecomeIs DEF RefInv
<1>2. Rows'
  BY <1>1 DEF Rows
<1>3. \A t \in Session :
         /\ session'[t].pc \in Holding =>
               session'[t].pc = session[t].pc /\ session'[t].ref = session[t].ref
         /\ At(t, "disconnecting") => session'[t].pc = "disconnecting" \/ torn'
  BY <1>1 DEF At
<1> QED
  BY <1>2, <1>3, KeptStep

\* The same for a script that ends.
LEMMA StopStep ==
    ASSUME RefInv, NEW s \in Session, Stop(s),
           ~At(s, "disconnecting") \/ torn', torn => torn',
           DOMAIN source' = SourceFields,
           source'.credential_ref = source.credential_ref,
           UNCHANGED <<secrets, issued>>
    PROVE  RefInv'
BY IdleIs, QuietStep DEF Stop, Holding

\* What the repositories write leaves the reference alone.
LEMMA Updates ==
    ASSUME References
    PROVE  /\ \A h : LET src == update_health(source, h) IN
                     DOMAIN src = SourceFields /\ src.credential_ref = source.credential_ref
           /\ \A b : LET src == update_boundary(source, b) IN
                     DOMAIN src = SourceFields /\ src.credential_ref = source.credential_ref
           /\ \A e : LET src == set_enabled(source, e) IN
                     DOMAIN src = SourceFields /\ src.credential_ref = source.credential_ref
           /\ \A c : LET src == update_last_cursor(source, c) IN
                     DOMAIN src = SourceFields /\ src.credential_ref = source.credential_ref
           /\ \A t, h : LET src == update_health(update_last_success(source, t), h) IN
                     DOMAIN src = SourceFields /\ src.credential_ref = source.credential_ref
BY DEF References, SourceFields, update_health, update_boundary, set_enabled,
       update_last_cursor, update_last_success

-----------------------------------------------------------------------------
(* Steps that store, use or drop a reference. *)

LEMMA AuthorizedStep ==
    ASSUME RefInv, NEW s \in Session, Authorized(s) PROVE RefInv'
<1> DEFINE r == [session[s] EXCEPT !.pc = "connecting", !.ref = issued + 1]
<1>1. /\ At(s, "authorize") /\ issued' = issued + 1 /\ secrets' = secrets \cup {issued + 1}
      /\ source' = source /\ torn' = torn /\ Become(s, r, FALSE)
  BY DEF Authorized, StoreSecret
<1>2. DOMAIN r = SessionFields /\ r.pc = "connecting" /\ r.ref = issued + 1
  BY DEF RefInv, Rows, SessionFields
<1> HIDE DEF r
<1>3. /\ DOMAIN session' = Session /\ session'[s] = r
      /\ \A t \in Session \ {s} :
            /\ DOMAIN session'[t] = SessionFields
            /\ session'[t].pc = session[t].pc
            /\ session'[t].ref = session[t].ref
  BY <1>1, BecomeIs DEF RefInv
<1>4. References' /\ Rows'
  BY <1>1, <1>2, <1>3 DEF RefInv, References, Rows
<1>5. ASSUME NEW t \in Session PROVE Own(t)' /\ Issued(t)'
  <2>1. \A u \in Session : At(u, "connecting") => session[u].ref \in 1 .. issued
    BY DEF RefInv, Own, References
  <2>2. issued + 1 \notin 1 .. issued /\ issued + 1 \in secrets'
    BY <1>1 DEF RefInv, References
  <2>3. source.credential_ref # NULL => issued + 1 # source.credential_ref
    BY <2>2 DEF RefInv, References
  <2>4. CASE t = s
    BY <1>1, <1>2, <1>3, <2>1, <2>2, <2>3, <2>4 DEF Own, Issued, At
  <2>5. CASE t # s
    <3>1. Own(t)'
      BY <1>1, <1>2, <1>3, <2>1, <2>2, <2>5 DEF RefInv, Own, At
    <3>2. Issued(t)'
      BY <1>1, <1>3, <2>5 DEF RefInv, References, Issued, At
    <3> QED
      BY <3>1, <3>2
  <2> QED
    BY <2>4, <2>5
<1>6. RefHasSecret'
  BY <1>1, <1>3 DEF RefInv, RefHasSecret, At
<1> QED
  BY <1>4, <1>5, <1>6 DEF RefInv

LEMMA ConnectedStep ==
    ASSUME RefInv, NEW s \in Session, Connected(s) PROVE RefInv'
<1> DEFINE ref == session[s].ref
<1>1. /\ At(s, "connecting") /\ Stop(s) /\ torn' = torn
      /\ source' = update_health([source EXCEPT !.credential_ref = ref], "ready")
      /\ secrets' = secrets /\ issued' = issued
  BY DEF Connected, PointAtSecret
<1>2. DOMAIN source' = SourceFields /\ source'.credential_ref = ref
  BY <1>1 DEF RefInv, References, SourceFields, update_health
<1>3. /\ DOMAIN session' = Session /\ session'[s] = Idle
      /\ \A t \in Session \ {s} :
            /\ DOMAIN session'[t] = SessionFields
            /\ session'[t].pc = session[t].pc
            /\ session'[t].ref = session[t].ref
  BY <1>1, BecomeIs DEF RefInv, Stop
<1>4. ref \in secrets /\ ref \in 1 .. issued
  BY <1>1 DEF RefInv, Own, References
<1>5. References' /\ Rows' /\ RefHasSecret'
  BY <1>1, <1>2, <1>3, <1>4, IdleIs DEF RefInv, References, Rows, RefHasSecret
<1>6. ASSUME NEW t \in Session PROVE Own(t)' /\ Issued(t)'
  <2>1. CASE t = s
    BY <1>3, <2>1, IdleIs DEF Own, Issued, At
  <2>2. CASE t # s
    BY <1>1, <1>2, <1>3, <2>2, IdleIs DEF RefInv, Own, Issued, At
  <2> QED
    BY <2>1, <2>2
<1> QED
  BY <1>5, <1>6 DEF RefInv

LEMMA PressDisconnectStep ==
    ASSUME RefInv, NEW s \in Session, PressDisconnect(s) PROVE RefInv'
<1> DEFINE r == [session[s] EXCEPT !.pc = "disconnecting"]
           gone == source.credential_ref
<1>1. /\ secrets' = secrets \ {gone} /\ issued' = issued /\ source' = source /\ torn' = torn
      /\ At(s, "idle") /\ Become(s, r, FALSE)
  BY DEF PressDisconnect, Press, DeleteSecret, Goto
<1>2. gone # NULL
  BY DEF PressDisconnect, Press, Controls
<1>3. DOMAIN r = SessionFields /\ r.pc = "disconnecting"
  BY DEF RefInv, Rows, SessionFields
<1> HIDE DEF r
<1>4. /\ DOMAIN session' = Session /\ session'[s] = r
      /\ \A t \in Session \ {s} :
            /\ DOMAIN session'[t] = SessionFields
            /\ session'[t].pc = session[t].pc
            /\ session'[t].ref = session[t].ref
  BY <1>1, BecomeIs DEF RefInv
<1>5. References' /\ Rows' /\ RefHasSecret'
  BY <1>1, <1>3, <1>4 DEF RefInv, References, Rows, RefHasSecret, At
<1>6. ASSUME NEW t \in Session PROVE Own(t)' /\ Issued(t)'
  <2>1. CASE t = s
    BY <1>3, <1>4, <2>1 DEF Own, Issued, At
  <2>2. CASE t # s
    BY <1>1, <1>2, <1>3, <1>4, <2>2 DEF RefInv, Own, Issued, At
  <2> QED
    BY <2>1, <2>2
<1> QED
  BY <1>5, <1>6 DEF RefInv

LEMMA DisconnectedStep ==
    ASSUME RefInv, NEW s \in Session, Disconnected(s) PROVE RefInv'
<1>1. /\ At(s, "disconnecting") /\ Stop(s) /\ torn' = torn
      /\ source' = update_health(
                       set_enabled([source EXCEPT !.credential_ref = NULL], FALSE),
                       "disabled")
      /\ secrets' = secrets /\ issued' = issued
  BY DEF Disconnected, ForgetSecret
<1>2. DOMAIN source' = SourceFields /\ source'.credential_ref = NULL
  BY <1>1 DEF RefInv, References, SourceFields, update_health, set_enabled
<1>3. /\ DOMAIN session' = Session /\ session'[s] = Idle
      /\ \A t \in Session \ {s} :
            /\ DOMAIN session'[t] = SessionFields
            /\ session'[t].pc = session[t].pc
            /\ session'[t].ref = session[t].ref
  BY <1>1, BecomeIs DEF RefInv, Stop
<1>4. References' /\ Rows' /\ RefHasSecret'
  BY <1>1, <1>2, <1>3, IdleIs DEF RefInv, References, Rows, RefHasSecret
<1>5. ASSUME NEW t \in Session PROVE Own(t)' /\ Issued(t)'
  <2>1. CASE t = s
    BY <1>3, <2>1, IdleIs DEF Own, Issued, At
  <2>2. CASE t # s
    <3>1. /\ session'[s].pc # "connecting"
          /\ \A u \in Session \ {s} : /\ session'[u].pc = session[u].pc
                                      /\ session'[u].ref = session[u].ref
      BY <1>3, IdleIs
    <3>2. Own(t) /\ Issued(t)
      BY DEF RefInv
    <3>3. Own(t)'
      BY <1>1, <1>2, <2>2, <3>1, <3>2 DEF Own, At
    <3>4. Issued(t)'
      BY <1>1, <2>2, <3>1, <3>2 DEF Issued, At
    <3> QED
      BY <3>3, <3>4
  <2> QED
    BY <2>1, <2>2
<1> QED
  BY <1>4, <1>5 DEF RefInv

\* The reference a session is to exchange was handed out when it is read.
LEMMA ReadCredentialStep ==
    ASSUME RefInv, NEW s \in Session, ReadCredential(s) PROVE RefInv'
<1> DEFINE pc == IF source.kind = "fathom" THEN AfterMint(s) ELSE "exchange"
           r == [session[s] EXCEPT !.ref = source.credential_ref, !.pc = pc]
<1>1. /\ At(s, "credential") /\ source.credential_ref \in secrets /\ Become(s, r, FALSE)
      /\ secrets' = secrets /\ issued' = issued /\ source' = source /\ torn' = torn
  BY Zenon DEF ReadCredential, HasSecret, credentialVars
<1>2. pc \notin {"connecting", "disconnecting"}
  BY DEF AfterMint
<1> HIDE DEF pc
<1>3. DOMAIN r = SessionFields /\ r.pc = pc /\ r.ref = source.credential_ref
  BY DEF RefInv, Rows, SessionFields
<1> HIDE DEF r
<1>4. /\ DOMAIN session' = Session /\ session'[s] = r
      /\ \A t \in Session \ {s} :
            /\ DOMAIN session'[t] = SessionFields
            /\ session'[t].pc = session[t].pc
            /\ session'[t].ref = session[t].ref
  BY <1>1, BecomeIs DEF RefInv
<1>5. References' /\ Rows'
  BY <1>1, <1>3, <1>4 DEF RefInv, References, Rows
<1>6. RefHasSecret'
  BY <1>1, <1>4 DEF RefInv, RefHasSecret, At
<1>7. ASSUME NEW t \in Session PROVE Own(t)' /\ Issued(t)'
  <2>1. CASE t = s
    BY <1>1, <1>2, <1>3, <1>4, <2>1 DEF RefInv, References, Own, Issued, At
  <2>2. CASE t # s
    BY <1>1, <1>2, <1>3, <1>4, <2>2 DEF RefInv, Own, Issued, At
  <2> QED
    BY <2>1, <2>2
<1> QED
  BY <1>5, <1>6, <1>7 DEF RefInv

\* Storing the token again may bring back a secret another session deleted, and harms
\* nobody else's.
LEMMA TokenMintedStep ==
    ASSUME RefInv, NEW s \in Session, TokenMinted(s) PROVE RefInv'
<1> DEFINE ref == session[s].ref
           pc == AfterMint(s)
           r == [session[s] EXCEPT !.pc = pc]
<1>1. /\ At(s, "exchange") /\ secrets' = secrets \cup {ref} /\ issued' = issued
      /\ source' = update_health(source, "healthy") /\ torn' = torn /\ Become(s, r, FALSE)
  BY DEF TokenMinted, KeepToken, Goto
<1>2. pc \notin Holding
  BY DEF AfterMint, Holding
<1> HIDE DEF pc
<1>3. DOMAIN r = SessionFields /\ r.pc = pc
  BY DEF RefInv, Rows, SessionFields
<1> HIDE DEF r
<1>4. /\ DOMAIN session' = Session /\ session'[s] = r
      /\ \A t \in Session \ {s} :
            /\ DOMAIN session'[t] = SessionFields
            /\ session'[t].pc = session[t].pc
            /\ session'[t].ref = session[t].ref
  BY <1>1, BecomeIs DEF RefInv
<1>5. DOMAIN source' = SourceFields /\ source'.credential_ref = source.credential_ref
  BY <1>1, Updates DEF RefInv
<1>6. ref \in 1 .. issued
  BY <1>1 DEF RefInv, Issued
<1>7. References' /\ Rows'
  BY <1>1, <1>3, <1>4, <1>5, <1>6 DEF RefInv, References, Rows
<1>8. RefHasSecret'
  BY <1>1, <1>4, <1>5 DEF RefInv, RefHasSecret, At
<1>9. ASSUME NEW t \in Session PROVE Own(t)' /\ Issued(t)'
  <2>1. CASE t = s
    BY <1>2, <1>3, <1>4, <2>1 DEF Own, Issued, At, Holding
  <2>2. CASE t # s
    BY <1>1, <1>2, <1>3, <1>4, <1>5, <2>2 DEF RefInv, Own, Issued, At, Holding
  <2> QED
    BY <2>1, <2>2
<1> QED
  BY <1>7, <1>8, <1>9 DEF RefInv

-----------------------------------------------------------------------------
(* Every other step. *)

LEMMA RowIs ==
    ASSUME RefInv, NEW s \in Session
    PROVE  /\ DOMAIN session[s] = SessionFields
           /\ DOMAIN source = SourceFields
           /\ References
BY DEF RefInv, Rows, References

LEMMA AfterLoopIs ==
    ASSUME NEW r, DOMAIN r = SessionFields
    PROVE  DOMAIN AfterLoop(r) = SessionFields /\ AfterLoop(r).pc \notin Holding
<1> DEFINE known == {i \in Item \ r.seen : /\ artifacts[i] # NULL
                                           /\ artifacts[i].availability = "available"}
           a == [r EXCEPT !.pc = "vanished", !.known = known]
           b == [r EXCEPT !.pc = "finish"]
<1>1. AfterLoop(r) \in {a, b}
  BY DEF AfterLoop
<1> HIDE DEF known
<1>2. /\ DOMAIN a = SessionFields /\ a.pc = "vanished"
      /\ DOMAIN b = SessionFields /\ b.pc = "finish"
  BY DEF SessionFields
<1> QED
  BY <1>1, <1>2 DEF Holding

\* A script begins: a sync, a preview, the consent screen.
LEMMA BeginStep ==
    ASSUME RefInv, NEW s \in Session, NEW kind, NEW since,
           AskConsent(s, kind) \/ BeginSync(s, kind, since) \/ BeginPreview(s, kind)
    PROVE  RefInv'
<1> DEFINE a == [session[s] EXCEPT !.pc = "authorize"]
           b == [Idle EXCEPT !.pc = "credential", !.syncing = TRUE,
                             !.boundary = source.boundary, !.since = since]
           c == [Idle EXCEPT !.pc = "credential"]
<1>1. \E r \in {a, b, c} : Become(s, r, FALSE)
  BY DEF AskConsent, BeginSync, BeginPreview, Goto
<1>2. UNCHANGED <<source, secrets, issued, torn>> /\ At(s, "idle")
  BY DEF AskConsent, BeginSync, BeginPreview, credentialVars, Press
<1>3. \A r \in {a, b, c} : DOMAIN r = SessionFields /\ r.pc \notin Holding
  BY RowIs, IdleIs DEF SessionFields, Holding
<1> HIDE DEF a, b, c
<1> QED
  BY <1>1, <1>2, <1>3, RowIs, QuietStep DEF At

\* A setting of the row changes, and no session.
LEMMA SettingStep ==
    ASSUME RefInv, NEW s \in Session,
           ToggleEnabled(s) \/ \E kind \in SourceKind : SaveBoundary(s, kind)
    PROVE  RefInv'
<1>1. UNCHANGED <<secrets, issued, session, torn>>
  BY DEF ToggleEnabled, SaveBoundary
<1>2. \/ \E e : source' = set_enabled(source, e)
      \/ \E b : source' = update_boundary(source, b)
  BY DEF ToggleEnabled, SaveBoundary
<1>3. DOMAIN source' = SourceFields /\ source'.credential_ref = source.credential_ref
  BY <1>2, Updates DEF RefInv
<1>4. Rows'
  BY <1>1 DEF RefInv, Rows
<1> QED
  BY <1>1, <1>3, <1>4, KeptStep DEF At

\* A script ends, whatever it makes of the health on the way.
LEMMA EndStep ==
    ASSUME RefInv, NEW s \in Session,
           \/ NoCredential(s) \/ TokenRefused(s) \/ NotRunnable(s) \/ Close(s)
           \/ NotAuthorized(s) \/ ValidateFailed(s) \/ Interrupt(s)
    PROVE  RefInv'
<1>1. Stop(s) /\ UNCHANGED <<secrets, issued>>
  BY DEF NoCredential, TokenRefused, NotRunnable, Close, NotAuthorized, ValidateFailed,
         Interrupt, RequireReauth, credentialVars
<1>2. ~At(s, "disconnecting") \/ torn'
  BY DEF NoCredential, TokenRefused, NotRunnable, Close, NotAuthorized, ValidateFailed,
         Interrupt, At
<1>3. torn => torn'
  BY DEF NoCredential, TokenRefused, NotRunnable, Close, NotAuthorized, ValidateFailed,
         Interrupt
<1>4. \/ source' = source
      \/ \E h : source' = update_health(source, h)
      \/ \E t, h : source' = update_health(update_last_success(source, t), h)
  <2>1. CASE NoCredential(s) \/ TokenRefused(s) \/ ValidateFailed(s)
    BY <2>1 DEF NoCredential, TokenRefused, ValidateFailed, RequireReauth, credentialVars
  <2>2. CASE NotRunnable(s) \/ NotAuthorized(s) \/ Interrupt(s)
    BY <2>2 DEF NotRunnable, NotAuthorized, Interrupt, credentialVars
  <2>3. CASE Close(s)
    BY <2>3 DEF Close
  <2> QED
    BY <2>1, <2>2, <2>3
<1>5. DOMAIN source' = SourceFields /\ source'.credential_ref = source.credential_ref
  BY <1>4, Updates, RowIs
<1> QED
  BY <1>1, <1>2, <1>3, <1>5, StopStep

\* A step of sync_source, from the read of the row to the last page.
LEMMA SyncStep ==
    ASSUME RefInv, NEW s \in Session,
           \/ Construct(s) \/ Validated(s) \/ Discover(s) \/ DiscoverFailed(s)
           \/ ProcessArtifact(s) \/ StoreArtifact(s) \/ AdvanceCursor(s)
           \/ CheckVanished(s) \/ Finish(s)
    PROVE  RefInv'
<1>1. UNCHANGED <<secrets, issued, torn>> /\ ~At(s, "disconnecting")
  BY DEF Construct, Validated, Discover, DiscoverFailed, ProcessArtifact, StoreArtifact,
         AdvanceCursor, CheckVanished, Finish, At, credentialVars
<1>2. \/ source' = source
      \/ \E h : source' = update_health(source, h)
      \/ \E c : source' = update_last_cursor(source, c)
  <2>1. CASE Validated(s)
    BY <2>1 DEF Validated
  <2>2. CASE AdvanceCursor(s)
    BY <2>2 DEF AdvanceCursor
  <2>3. CASE ~Validated(s) /\ ~AdvanceCursor(s)
    BY <2>3 DEF Construct, Discover, DiscoverFailed, ProcessArtifact, StoreArtifact,
                CheckVanished, Finish, credentialVars
  <2> QED
    BY <2>1, <2>2, <2>3
<1>3. DOMAIN source' = SourceFields /\ source'.credential_ref = source.credential_ref
  BY <1>2, Updates, RowIs
<1>4. DOMAIN session[s] = SessionFields
  BY RowIs
<1> DEFINE Goes(r) == DOMAIN r = SessionFields /\ r.pc \notin Holding
<1>5. \E r, d : Become(s, r, d) /\ Goes(r)
  <2>1. CASE Construct(s)
    <3> DEFINE r == [session[s] EXCEPT !.pc = "validate", !.checkpoint = source.last_cursor,
                                       !.root = source.last_cursor = NULL]
    <3>1. Become(s, r, FALSE)
      BY <2>1 DEF Construct
    <3>2. Goes(r)
      BY <1>4 DEF SessionFields, Holding
    <3> QED
      BY <3>1, <3>2
  <2>2. CASE Validated(s)
    <3> DEFINE quiet == \A t \in Session \ {s} : ~session[t].running
               r == [session[s] EXCEPT !.pc = "discover", !.running = TRUE, !.quiet = quiet]
    <3>1. Become(s, r, TRUE)
      BY <2>2, Zenon DEF Validated
    <3> HIDE DEF quiet
    <3>2. Goes(r)
      BY <1>4 DEF SessionFields, Holding
    <3> QED
      BY <3>1, <3>2
  <2>3. CASE Discover(s)
    <3> DEFINE old == session[s]
               page == DiscoveredArtifacts(source.kind, old.boundary, old.since,
                                           old.checkpoint)
               next == next_checkpoint(source.kind, old.boundary, old.checkpoint)
               items == {m.item : m \in page}
               found == Cardinality(page)
               r == [old EXCEPT !.pc = "artifact", !.pages = @ + 1, !.todo = page,
                                !.next = next, !.seen = @ \cup items, !.discovered = @ + found,
                                !.complete = TRUE]
    <3>1. Become(s, r, FALSE)
      BY <2>3, Zenon DEF Discover
    <3> HIDE DEF page, next, items, found
    <3>2. Goes(r)
      BY <1>4 DEF SessionFields, Holding
    <3> QED
      BY <3>1, <3>2
  <2>4. CASE DiscoverFailed(s)
    <3> DEFINE r == [session[s] EXCEPT !.pages = @ + 1, !.failed = @ + 1]
    <3>1. Become(s, AfterLoop(r), FALSE)
      BY <2>4 DEF DiscoverFailed
    <3>2. DOMAIN r = SessionFields
      BY <1>4 DEF SessionFields
    <3> HIDE DEF r
    <3> QED
      BY <3>1, <3>2, AfterLoopIs
  <2>5. CASE ProcessArtifact(s)
    <3>1. PICK m \in session[s].todo :
             LET a == GetOrCreate(m.item)
                 r == [session[s] EXCEPT !.todo = @ \ {m}]
                 raw == [item |-> m.item, version_key |-> m.marker,
                         bytes |-> fetch(source.kind, m), was |-> a.current]
             IN  \/ Become(s, r, artifacts' # artifacts)
                 \/ Become(s, [r EXCEPT !.pc = "store", !.raw = raw], artifacts' # artifacts)
                 \/ Become(s, [r EXCEPT !.failed = @ + 1], artifacts' # artifacts)
      BY <2>5, Zenon DEF ProcessArtifact
    <3> DEFINE a == GetOrCreate(m.item)
               raw == [item |-> m.item, version_key |-> m.marker,
                       bytes |-> fetch(source.kind, m), was |-> a.current]
               r == [session[s] EXCEPT !.todo = @ \ {m}]
    <3>2. session[s].pc = "artifact"
      BY <2>5 DEF ProcessArtifact, At
    <3> HIDE DEF raw
    <3>3. Goes(r) /\ Goes([r EXCEPT !.pc = "store", !.raw = raw])
            /\ Goes([r EXCEPT !.failed = @ + 1])
      BY <1>4, <3>2 DEF SessionFields, Holding
    <3> HIDE DEF r
    <3>4. \/ Become(s, r, artifacts' # artifacts)
          \/ Become(s, [r EXCEPT !.pc = "store", !.raw = raw], artifacts' # artifacts)
          \/ Become(s, [r EXCEPT !.failed = @ + 1], artifacts' # artifacts)
      BY <3>1, Zenon DEF r, raw
    <3> HIDE DEF Goes
    <3> QED
      BY <3>3, <3>4
  <2>6. CASE StoreArtifact(s)
    <3> DEFINE r == [session[s] EXCEPT !.pc = "artifact", !.raw = NULL]
    <3>1. Become(s, r, TRUE) \/ Become(s, [r EXCEPT !.failed = @ + 1], FALSE)
      BY <2>6, Zenon DEF StoreArtifact
    <3>2. Goes(r) /\ Goes([r EXCEPT !.failed = @ + 1])
      BY <1>4 DEF SessionFields, Holding
    <3> HIDE DEF r, Goes
    <3> QED
      BY <3>1, <3>2
  <2>7. CASE AdvanceCursor(s)
    <3> DEFINE r == [session[s] EXCEPT !.checkpoint = session[s].next, !.next = NULL]
    <3>1. \/ Become(s, AfterLoop(r), FALSE)
          \/ Become(s, [r EXCEPT !.pc = "discover"], FALSE)
      BY <2>7 DEF AdvanceCursor
    <3>2. DOMAIN r = SessionFields
      BY <1>4 DEF SessionFields
    <3> HIDE DEF r
    <3>3. Goes(AfterLoop(r)) /\ Goes([r EXCEPT !.pc = "discover"])
      BY <3>2, AfterLoopIs DEF SessionFields, Holding
    <3> HIDE DEF Goes
    <3> QED
      BY <3>1, <3>3
  <2>8. CASE CheckVanished(s)
    <3>1. PICK i : LET r == [session[s] EXCEPT !.known = @ \ {i}]
                   IN  \E d : Become(s, r, d) \/ Become(s, [r EXCEPT !.failed = @ + 1], d)
      BY <2>8, Zenon DEF CheckVanished
    <3> DEFINE r == [session[s] EXCEPT !.known = @ \ {i}]
    <3>2. session[s].pc = "vanished"
      BY <2>8 DEF CheckVanished, At
    <3>3. Goes(r) /\ Goes([r EXCEPT !.failed = @ + 1])
      BY <1>4, <3>2 DEF SessionFields, Holding
    <3> HIDE DEF r, Goes
    <3>4. \E d : Become(s, r, d) \/ Become(s, [r EXCEPT !.failed = @ + 1], d)
      BY <3>1, Zenon DEF r
    <3> QED
      BY <3>3, <3>4
  <2>9. CASE Finish(s)
    <3> DEFINE r == [session[s] EXCEPT !.pc = "close"]
    <3>1. Become(s, r, FALSE)
      BY <2>9 DEF Finish, Goto
    <3>2. Goes(r)
      BY <1>4 DEF SessionFields, Holding
    <3> QED
      BY <3>1, <3>2
  <2> QED
    BY <2>1, <2>2, <2>3, <2>4, <2>5, <2>6, <2>7, <2>8, <2>9
<1> QED
  BY <1>1, <1>3, <1>5, QuietStep

\* The account changes, the grant is withdrawn, or time passes.
LEMMA WorldStep ==
    ASSUME RefInv, Account \/ Withdrawn \/ Tick
    PROVE  RefInv'
<1>1. UNCHANGED <<source, secrets, issued, torn>>
  BY DEF Account, Withdrawn, Tick, Revoke, credentialVars, syncVars
<1>2. /\ DOMAIN session' = Session
      /\ \A t \in Session : /\ DOMAIN session'[t] = SessionFields
                            /\ session'[t].pc = session[t].pc
                            /\ session'[t].ref = session[t].ref
  <2>1. CASE Account
    <3>1. session' = [t \in Session |-> [session[t] EXCEPT !.quiet = FALSE]]
      BY <2>1 DEF Account
    <3> QED
      BY <3>1 DEF RefInv, Rows, SessionFields
  <2>2. CASE Withdrawn \/ Tick
    BY <2>2 DEF Withdrawn, Tick, syncVars, RefInv, Rows
  <2> QED
    BY <2>1, <2>2
<1>3. Rows'
  BY <1>2 DEF Rows
<1> QED
  BY <1>1, <1>2, <1>3, KeptStep DEF RefInv, References, At

-----------------------------------------------------------------------------
(* The theorem. *)

LEMMA RefInitInv == Init => RefInv
<1> SUFFICES ASSUME Init PROVE RefInv
  OBVIOUS
<1>1. DOMAIN session = Session /\ \A s \in Session : session[s] = Idle
  BY DEF Init
<1>2. PICK kind : source = InsertedSource(kind)
  BY DEF Init, CredentialsInit
<1>3. DOMAIN source = SourceFields /\ source.credential_ref = NULL
  BY <1>2 DEF InsertedSource, SourceFields
<1>4. secrets = {} /\ issued = 0
  BY DEF Init, CredentialsInit
<1> QED
  BY <1>1, <1>3, <1>4, IdleIs
  DEF RefInv, References, Rows, Own, Issued, At, RefHasSecret

LEMMA RefNextInv == RefInv /\ [Next]_vars => RefInv'
<1> SUFFICES ASSUME RefInv, [Next]_vars PROVE RefInv'
  OBVIOUS
<1>1. ASSUME NEW s \in Session, User(s) PROVE RefInv'
  <2>1. CASE ConnectDrive(s) \/ ConnectGmail(s) \/ ConnectCalendar(s) \/ ConnectFathom(s)
    BY <2>1, BeginStep DEF ConnectDrive, ConnectGmail, ConnectCalendar, ConnectFathom
  <2>2. CASE \/ SaveFolder(s) \/ SaveLabelQuery(s) \/ SaveCalendarRules(s)
             \/ SaveFathomRules(s) \/ ToggleEnabled(s)
    BY <2>2, SettingStep
    DEF SaveFolder, SaveLabelQuery, SaveCalendarRules, SaveFathomRules, SourceKind
  <2>3. CASE PreviewDrive(s) \/ PreviewGmail(s) \/ PreviewCalendar(s) \/ PreviewFathom(s)
    BY <2>3, BeginStep DEF PreviewDrive, PreviewGmail, PreviewCalendar, PreviewFathom
  <2>4. CASE PressDisconnect(s)
    BY <2>4, PressDisconnectStep
  <2>5. CASE StartSync(s)
    BY <2>5, BeginStep
    DEF StartSync, sync_drive_project, sync_gmail_project, sync_calendar_project,
        sync_fathom_project
  <2> QED
    BY <1>1, <2>1, <2>2, <2>3, <2>4, <2>5 DEF User
<1>2. ASSUME NEW s \in Session, Work(s) PROVE RefInv'
  <2>1. CASE \/ Authorized(s) \/ Connected(s) \/ Disconnected(s) \/ ReadCredential(s)
             \/ TokenMinted(s)
    BY <2>1, AuthorizedStep, ConnectedStep, DisconnectedStep, ReadCredentialStep,
       TokenMintedStep
  <2>2. CASE NoCredential(s) \/ TokenRefused(s) \/ NotRunnable(s) \/ Close(s)
    BY <2>2, EndStep
  <2>3. CASE \/ Construct(s) \/ Validated(s) \/ Discover(s) \/ ProcessArtifact(s)
             \/ StoreArtifact(s) \/ AdvanceCursor(s) \/ CheckVanished(s) \/ Finish(s)
    BY <2>3, SyncStep
  <2> QED
    BY <1>2, <2>1, <2>2, <2>3 DEF Work
<1>3. ASSUME NEW s \in Session, Failure(s) PROVE RefInv'
  BY <1>3, EndStep, SyncStep DEF Failure
<1>4. CASE Account \/ Withdrawn \/ Tick
  BY <1>4, WorldStep
<1>5. CASE UNCHANGED vars
  <2>1. UNCHANGED <<source, secrets, issued, session, torn>>
    BY <1>5 DEF vars, credentialVars, syncVars
  <2>2. Rows'
    BY <2>1 DEF RefInv, Rows
  <2> QED
    BY <2>1, <2>2, KeptStep DEF RefInv, References, At
<1> QED
  BY <1>1, <1>2, <1>3, <1>4, <1>5 DEF Next

\* However connecting, refreshing and disconnecting interleave, the row points at no
\* secret that is gone, but while a disconnect is under way or was cut in two.
THEOREM ReferencesHold == Spec => []RefHasSecret
<1>1. RefInv => RefHasSecret
  BY DEF RefInv
<1> QED
  BY <1>1, RefInitInv, RefNextInv, PTL DEF Spec

-----------------------------------------------------------------------------
(* Types. *)

Passing == {"discover", "artifact", "store", "vanished", "finish", "close"}

\* Nothing is listed or counted before the first page.
Fresh(r) == r.todo = {} /\ r.discovered = 0 /\ ~r.complete /\ ~r.quiet

\* A page shows no item twice, and the last one ends the pass.
Paging(r) ==
    LET page == PageNumber(r.checkpoint)
    IN  /\ r.pc = "discover" => r.discovered <= (page - 1) * Cardinality(Item)
        /\ r.pc \in {"artifact", "store"} =>
              /\ r.discovered <= page * Cardinality(Item)
              /\ IF page = LastPage THEN r.next = NULL
                 ELSE r.next # NULL /\ r.next.page = page + 1

\* What a pass holds on to, in a workspace with artifacts a.
Working(r, a) ==
    /\ r.pc \notin Passing => Fresh(r)
    /\ \A i \in r.known : a[i] # NULL
    /\ r.pc = "store" => r.raw \in Raw /\ a[r.raw.item] # NULL
    /\ Paging(r)

TypeInv ==
    /\ RefInv
    /\ SyncTypeOK
    /\ \A s \in Session : Working(session[s], artifacts)

LEMMA ItemCount == Cardinality(Item) \in Nat
BY FS_CardinalityType, SyncAssumption

LEMMA PageNumberIs ==
    ASSUME NEW c \in Checkpoint \cup {NULL} PROVE PageNumber(c) \in Page
BY ProviderAssumption DEF PageNumber, Checkpoint, Page

LEMMA IdleTyped == Idle \in SessionRow /\ \A a : Working(Idle, a)
<1>1. 0 \in 0 .. LastPage * Cardinality(Item)
  BY ItemCount, ProviderAssumption
<1>2. Idle \in SessionRow
  BY <1>1 DEF Idle, SessionRow, PC
<1>3. ASSUME NEW a PROVE Working(Idle, a)
  BY DEF Idle, Working, Fresh, Paging, Passing
<1> QED
  BY <1>2, <1>3

\* A step of session s that leaves the account alone.
LEMMA TypedStep ==
    ASSUME TypeInv, RefInv', NEW s \in Session, NEW r \in SessionRow,
           NEW disturb \in BOOLEAN, Become(s, r, disturb),
           UNCHANGED providerVars,
           source' \in Source, issued' \in 0 .. MaxConnects,
           secrets' \subseteq 1 .. issued', revoked' \subseteq 1 .. issued',
           artifacts' \in [Item -> ArtifactRow \cup {NULL}],
           \A i \in Item : artifacts[i] # NULL => artifacts'[i] # NULL,
           runs' \in [Session -> SyncRunStatus \cup {NULL}],
           faults' \in 0 .. MaxFaults, clicks' \in 0 .. MaxClicks,
           torn' \in BOOLEAN, blind' \in BOOLEAN,
           Working(r, artifacts')
    PROVE  TypeInv'
<1>1. ASSUME NEW t \in Session
      PROVE  session'[t] \in SessionRow /\ Working(session'[t], artifacts')
  <2>1. CASE t = s
    BY <2>1 DEF Become
  <2>2. CASE t # s
    <3> DEFINE old == session[t]
               quiet == old.quiet /\ ~disturb
               row == [old EXCEPT !.quiet = quiet]
    <3>1. session'[t] = row
      BY <2>2, Zenon DEF Become
    <3>2. old \in SessionRow /\ Working(old, artifacts)
      BY DEF TypeInv, SyncTypeOK
    <3>3. old.known \subseteq Item /\ (old.raw \in Raw => old.raw.item \in Item)
      BY <3>2 DEF SessionRow, Raw
    <3> HIDE DEF old
    <3>4. quiet \in BOOLEAN /\ (quiet => old.quiet)
      OBVIOUS
    <3> HIDE DEF quiet
    <3>5. row \in SessionRow
      BY <3>2, <3>4 DEF SessionRow
    <3>6. /\ row.quiet => old.quiet
          /\ row.pc = old.pc /\ row.todo = old.todo /\ row.discovered = old.discovered
          /\ row.complete = old.complete /\ row.boundary = old.boundary
          /\ row.known = old.known /\ row.raw = old.raw
          /\ row.checkpoint = old.checkpoint /\ row.next = old.next
      BY <3>2, <3>4 DEF SessionRow
    <3> HIDE DEF row
    <3>7. Working(row, artifacts')
      BY <3>2, <3>3, <3>6 DEF Working, Fresh, Paging
    <3> QED
      BY <3>1, <3>5, <3>7
  <2> QED
    BY <2>1, <2>2
<1>2. session' \in [Session -> SessionRow]
  BY <1>1 DEF Become
<1>3. SyncTypeOK'
  BY <1>2 DEF TypeInv, SyncTypeOK, providerVars
<1> QED
  BY <1>1, <1>3 DEF TypeInv

\* One that leaves the secrets and the artifacts alone too.
LEMMA RowStep ==
    ASSUME TypeInv, RefInv', NEW s \in Session, NEW r \in SessionRow,
           NEW disturb \in BOOLEAN, Become(s, r, disturb),
           UNCHANGED <<providerVars, secrets, issued, revoked, artifacts>>,
           source' \in Source,
           runs' \in [Session -> SyncRunStatus \cup {NULL}],
           faults' \in 0 .. MaxFaults, clicks' \in 0 .. MaxClicks,
           torn' \in BOOLEAN, blind' \in BOOLEAN,
           Working(r, artifacts)
    PROVE  TypeInv'
BY TypedStep DEF TypeInv, SyncTypeOK

LEMMA SourceTyped ==
    ASSUME source \in Source
    PROVE  /\ \A h \in SourceHealthStatus : update_health(source, h) \in Source
           /\ \A b \in Boundary : update_boundary(source, b) \in Source
           /\ \A e \in BOOLEAN : set_enabled(source, e) \in Source
           /\ \A c \in Checkpoint \cup {NULL} : update_last_cursor(source, c) \in Source
           /\ \A t \in 0 .. MaxTime, h \in SourceHealthStatus :
                 update_health(update_last_success(source, t), h) \in Source
<1>1. \A h \in SourceHealthStatus : update_health(source, h) \in Source
  BY DEF Source, update_health
<1>2. \A b \in Boundary : update_boundary(source, b) \in Source
  BY DEF Source, update_boundary
<1>3. \A e \in BOOLEAN : set_enabled(source, e) \in Source
  BY DEF Source, set_enabled
<1>4. \A c \in Checkpoint \cup {NULL} : update_last_cursor(source, c) \in Source
  BY DEF Source, update_last_cursor
<1>5. ASSUME NEW t \in 0 .. MaxTime, NEW h \in SourceHealthStatus
      PROVE  update_health(update_last_success(source, t), h) \in Source
  <2> DEFINE src == update_last_success(source, t)
  <2>1. src \in Source
    BY DEF Source, update_last_success
  <2> HIDE DEF src
  <2>2. update_health(src, h) \in Source
    BY <2>1 DEF Source, update_health
  <2> QED
    BY <2>2 DEF src
<1> QED
  BY <1>1, <1>2, <1>3, <1>4, <1>5

LEMMA RunsTyped ==
    ASSUME TypeInv, NEW s \in Session, NEW status \in SyncRunStatus
    PROVE  /\ [runs EXCEPT ![s] = status] \in [Session -> SyncRunStatus \cup {NULL}]
           /\ FailedRun(s) => runs' \in [Session -> SyncRunStatus \cup {NULL}]
<1>1. runs \in [Session -> SyncRunStatus \cup {NULL}]
  BY DEF TypeInv, SyncTypeOK
<1>2. "failed" \in SyncRunStatus
  BY DEF SyncRunStatus
<1> QED
  BY <1>1, <1>2 DEF FailedRun

\* What the other lemmas take from the invariant.
LEMMA Typed ==
    ASSUME TypeInv, NEW s \in Session
    PROVE  /\ session[s] \in SessionRow /\ Working(session[s], artifacts)
           /\ source \in Source
           /\ artifacts \in [Item -> ArtifactRow \cup {NULL}]
           /\ runs \in [Session -> SyncRunStatus \cup {NULL}]
           /\ remote \in [Item -> RemoteRow] /\ now \in 0 .. MaxTime
           /\ faults \in 0 .. MaxFaults /\ clicks \in 0 .. MaxClicks
           /\ torn \in BOOLEAN /\ blind \in BOOLEAN
BY DEF TypeInv, SyncTypeOK

LEMMA FaultTyped == TypeInv /\ Fault => faults' \in 0 .. MaxFaults
BY SyncAssumption DEF Fault, TypeInv, SyncTypeOK

LEMMA ClickTyped == TypeInv /\ Click => clicks' \in 0 .. MaxClicks
BY SyncAssumption DEF Click, TypeInv, SyncTypeOK

LEMMA BeginTyped ==
    ASSUME TypeInv, RefInv', NEW s \in Session, NEW kind,
           NEW since \in (0 .. MaxTime) \cup {NULL},
           AskConsent(s, kind) \/ BeginSync(s, kind, since) \/ BeginPreview(s, kind)
    PROVE  TypeInv'
<1> DEFINE a == [session[s] EXCEPT !.pc = "authorize"]
           b == [Idle EXCEPT !.pc = "credential", !.syncing = TRUE,
                             !.boundary = source.boundary, !.since = since]
           c == [Idle EXCEPT !.pc = "credential"]
<1>1. \E r \in {a, b, c} : Become(s, r, FALSE)
  BY DEF AskConsent, BeginSync, BeginPreview, Goto
<1>2. /\ UNCHANGED <<providerVars, credentialVars, artifacts, runs, faults, torn, blind>>
      /\ At(s, "idle")
  BY DEF AskConsent, BeginSync, BeginPreview, Press
<1>3. clicks' \in 0 .. MaxClicks
  BY ClickTyped, Typed DEF AskConsent, BeginSync, BeginPreview
<1>4. source.boundary \in Boundary \cup {NULL}
  BY Typed DEF Source
<1>5. \A r \in {a, b, c} : r \in SessionRow
  <2>1. a \in SessionRow
    BY Typed DEF SessionRow, PC
  <2>2. c \in SessionRow
    BY IdleTyped DEF SessionRow, PC
  <2>3. b \in SessionRow
    <3> DEFINE d == [Idle EXCEPT !.pc = "credential", !.syncing = TRUE]
    <3>1. d \in SessionRow
      BY IdleTyped DEF SessionRow, PC
    <3>2. b = [d EXCEPT !.boundary = source.boundary, !.since = since]
      BY DEF Idle
    <3> HIDE DEF b, d
    <3> QED
      BY <1>4, <3>1, <3>2 DEF SessionRow
  <2> QED
    BY <2>1, <2>2, <2>3
<1>6. \A r \in {a, b, c} : Working(r, artifacts)
  <2>1. Working(a, artifacts)
    BY <1>2, Typed DEF SessionRow, Working, Fresh, Paging, Passing, At
  <2>2. Working(b, artifacts) /\ Working(c, artifacts)
    BY DEF Idle, Working, Fresh, Paging, Passing
  <2> QED
    BY <2>1, <2>2
<1> HIDE DEF a, b, c
<1> QED
  BY <1>1, <1>2, <1>3, <1>5, <1>6, Typed, RowStep DEF credentialVars

LEMMA SettingTyped ==
    ASSUME TypeInv, RefInv', NEW s \in Session,
           ToggleEnabled(s) \/ \E kind \in SourceKind : SaveBoundary(s, kind)
    PROVE  TypeInv'
<1>1. UNCHANGED <<providerVars, secrets, issued, revoked, artifacts, runs, session, faults,
                  torn, blind>>
  BY DEF ToggleEnabled, SaveBoundary
<1>2. clicks' \in 0 .. MaxClicks
  BY ClickTyped DEF ToggleEnabled, SaveBoundary
<1>3. source' \in Source
  BY Typed, SourceTyped DEF ToggleEnabled, SaveBoundary, Source
<1>4. SyncTypeOK'
  BY <1>1, <1>2, <1>3 DEF TypeInv, SyncTypeOK, providerVars
<1> QED
  BY <1>1, <1>4 DEF TypeInv

\* A script that ends.
LEMMA StopTyped ==
    ASSUME TypeInv, RefInv', NEW s \in Session, Stop(s),
           UNCHANGED <<providerVars, secrets, issued, revoked, artifacts, clicks>>,
           source' \in Source,
           runs' \in [Session -> SyncRunStatus \cup {NULL}],
           faults' \in 0 .. MaxFaults, torn' \in BOOLEAN, blind' \in BOOLEAN
    PROVE  TypeInv'
BY IdleTyped, Typed, RowStep DEF Stop

LEMMA EndTyped ==
    ASSUME TypeInv, RefInv', NEW s \in Session,
           \/ NoCredential(s) \/ TokenRefused(s) \/ NotRunnable(s) \/ Close(s)
           \/ NotAuthorized(s) \/ ValidateFailed(s) \/ Interrupt(s)
    PROVE  TypeInv'
<1>1. /\ Stop(s)
      /\ UNCHANGED <<providerVars, secrets, issued, revoked, artifacts, clicks>>
  BY DEF NoCredential, TokenRefused, NotRunnable, Close, NotAuthorized, ValidateFailed,
         Interrupt, RequireReauth, credentialVars
<1>2. torn' \in BOOLEAN /\ blind' \in BOOLEAN
  BY Typed DEF NoCredential, TokenRefused, NotRunnable, Close, NotAuthorized,
               ValidateFailed, Interrupt
<1>3. faults' \in 0 .. MaxFaults
  BY Typed, FaultTyped
  DEF NoCredential, TokenRefused, NotRunnable, Close, NotAuthorized, ValidateFailed, Interrupt
<1>4. runs' \in [Session -> SyncRunStatus \cup {NULL}]
  <2>1. FailedRun(s) \/ UNCHANGED runs
    BY DEF NoCredential, TokenRefused, NotRunnable, Close, NotAuthorized, ValidateFailed,
           Interrupt
  <2> QED
    BY <2>1, Typed, RunsTyped DEF SyncRunStatus
<1>5. source' \in Source
  <2>1. CASE NoCredential(s) \/ TokenRefused(s) \/ ValidateFailed(s)
    <3>1. \/ source' = source
          \/ \E h \in SourceHealthStatus : source' = update_health(source, h)
      BY <2>1 DEF NoCredential, TokenRefused, ValidateFailed, RequireReauth, credentialVars,
                  SourceHealthStatus
    <3> QED
      BY <3>1, Typed, SourceTyped
  <2>2. CASE NotRunnable(s) \/ NotAuthorized(s) \/ Interrupt(s)
    BY <2>2, Typed DEF NotRunnable, NotAuthorized, Interrupt, credentialVars
  <2>3. CASE Close(s)
    <3>1. \E h \in SourceHealthStatus :
             \/ source' = update_health(source, h)
             \/ source' = update_health(update_last_success(source, now), h)
      BY <2>3 DEF Close, SourceHealthStatus
    <3> QED
      BY <3>1, Typed, SourceTyped
  <2> QED
    BY <2>1, <2>2, <2>3
<1> QED
  BY <1>1, <1>2, <1>3, <1>4, <1>5, StopTyped

\* Connecting, disconnecting, and the token.
LEMMA CredentialTyped ==
    ASSUME TypeInv, RefInv', NEW s \in Session,
           \/ Authorized(s) \/ Connected(s) \/ PressDisconnect(s) \/ Disconnected(s)
           \/ ReadCredential(s) \/ TokenMinted(s)
    PROVE  TypeInv'
<1>1. UNCHANGED <<providerVars, artifacts, runs, faults, clicks, torn, blind>>
  BY DEF Authorized, Connected, PressDisconnect, Disconnected, ReadCredential, TokenMinted
<1>2. issued' \in 0 .. MaxConnects /\ secrets' \subseteq 1 .. issued'
         /\ revoked' \subseteq 1 .. issued'
  <2>1. issued \in 0 .. MaxConnects /\ secrets \subseteq 1 .. issued
           /\ revoked \subseteq 1 .. issued
    BY DEF TypeInv, SyncTypeOK
  <2>2. CASE Authorized(s)
    BY <2>1, <2>2, CredentialAssumption DEF Authorized, StoreSecret
  <2>3. CASE TokenMinted(s)
    BY <2>1, <2>3 DEF TokenMinted, KeepToken, TypeInv, RefInv, Issued
  <2>4. CASE Connected(s) \/ PressDisconnect(s) \/ Disconnected(s) \/ ReadCredential(s)
    BY <2>1, <2>4
    DEF Connected, PressDisconnect, Disconnected, ReadCredential, PointAtSecret, DeleteSecret,
        ForgetSecret, credentialVars
  <2> QED
    BY <2>2, <2>3, <2>4
<1>3. source' \in Source
  <2>1. CASE Connected(s)
    <3> DEFINE src == [source EXCEPT !.credential_ref = session[s].ref]
    <3>1. session[s].ref \in CredentialRef
      <4>1. session[s].ref \in secrets
        BY <2>1 DEF Connected, TypeInv, RefInv, Own
      <4>2. issued \in 0 .. MaxConnects /\ secrets \subseteq 1 .. issued
        BY DEF TypeInv, SyncTypeOK
      <4>3. session[s].ref \in 1 .. issued
        BY <4>1, <4>2
      <4> QED
        BY <4>2, <4>3, CredentialAssumption DEF CredentialRef
    <3>2. src \in Source
      BY <3>1, Typed DEF Source
    <3>3. source' = update_health(src, "ready")
      BY <2>1 DEF Connected, PointAtSecret
    <3> HIDE DEF src
    <3> QED
      BY <3>2, <3>3 DEF Source, update_health, SourceHealthStatus
  <2>2. CASE Disconnected(s)
    <3> DEFINE src == [source EXCEPT !.credential_ref = NULL, !.enabled = FALSE]
    <3>1. src \in Source
      BY Typed DEF Source
    <3>2. source' = update_health(set_enabled([source EXCEPT !.credential_ref = NULL], FALSE),
                                  "disabled")
      BY <2>2 DEF Disconnected, ForgetSecret
    <3>3. source' = update_health(src, "disabled")
      BY <3>2, Typed DEF Source, set_enabled, update_health
    <3> HIDE DEF src
    <3> QED
      BY <3>1, <3>3 DEF Source, update_health, SourceHealthStatus
  <2>3. CASE Authorized(s) \/ PressDisconnect(s) \/ ReadCredential(s) \/ TokenMinted(s)
    <3>1. \/ source' = source
          \/ \E h \in SourceHealthStatus : source' = update_health(source, h)
      BY <2>3 DEF Authorized, PressDisconnect, ReadCredential, TokenMinted, StoreSecret,
                  DeleteSecret, KeepToken, SourceHealthStatus, credentialVars
    <3> QED
      BY <3>1, Typed, SourceTyped
  <2> QED
    BY <2>1, <2>2, <2>3
<1>4. \E r \in SessionRow : Become(s, r, FALSE) /\ Working(r, artifacts)
  <2> DEFINE old == session[s]
  <2>1. old \in SessionRow /\ Working(old, artifacts)
    BY Typed
  <2>2. CASE Connected(s) \/ Disconnected(s)
    BY <2>2, IdleTyped DEF Connected, Disconnected, Stop
  <2>3. CASE Authorized(s)
    <3> DEFINE r == [old EXCEPT !.pc = "connecting", !.ref = issued + 1]
    <3>1. Become(s, r, FALSE) /\ old.pc = "authorize"
      BY <2>3 DEF Authorized, At
    <3>2. issued + 1 \in CredentialRef
      BY <2>3, CredentialAssumption
      DEF Authorized, StoreSecret, TypeInv, SyncTypeOK, CredentialRef
    <3> HIDE DEF old
    <3>3. r \in SessionRow
      BY <2>1, <3>2 DEF SessionRow, PC
    <3>4. Working(r, artifacts)
      BY <2>1, <3>1 DEF SessionRow, Working, Fresh, Paging, Passing
    <3> QED
      BY <3>1, <3>3, <3>4
  <2>4. CASE PressDisconnect(s) \/ TokenMinted(s)
    <3>1. PICK pc \in {"disconnecting", "construct", "idle"} :
             Become(s, [old EXCEPT !.pc = pc], FALSE)
      BY <2>4 DEF PressDisconnect, TokenMinted, Goto, AfterMint
    <3>2. old.pc \in {"idle", "exchange"}
      BY <2>4 DEF PressDisconnect, TokenMinted, Press, At
    <3> DEFINE r == [old EXCEPT !.pc = pc]
    <3> HIDE DEF old
    <3>3. r \in SessionRow
      BY <2>1 DEF SessionRow, PC
    <3>4. Working(r, artifacts)
      BY <2>1, <3>2 DEF SessionRow, Working, Fresh, Paging, Passing
    <3> QED
      BY <3>1, <3>3, <3>4
  <2>5. CASE ReadCredential(s)
    <3>1. PICK pc \in {"exchange", "construct", "idle"} :
             Become(s, [old EXCEPT !.ref = source.credential_ref, !.pc = pc], FALSE)
      BY <2>5, Zenon DEF ReadCredential, AfterMint
    <3>2. old.pc = "credential"
      BY <2>5 DEF ReadCredential, At
    <3>3. source.credential_ref \in CredentialRef \cup {NULL}
      BY Typed DEF Source
    <3> DEFINE r == [old EXCEPT !.ref = source.credential_ref, !.pc = pc]
    <3> HIDE DEF old
    <3>4. r \in SessionRow
      BY <2>1, <3>3 DEF SessionRow, PC
    <3>5. Working(r, artifacts)
      BY <2>1, <3>2 DEF SessionRow, Working, Fresh, Paging, Passing
    <3> QED
      BY <3>1, <3>4, <3>5
  <2> QED
    BY <2>2, <2>3, <2>4, <2>5
<1> QED
  BY <1>1, <1>2, <1>3, <1>4, Typed, TypedStep

-----------------------------------------------------------------------------
(* The steps of a pass. *)

\* What a page can list.
LEMMA PageListing ==
    ASSUME TypeInv, NEW kind \in SourceKind, NEW b, NEW since, NEW c
    PROVE  LET page == DiscoveredArtifacts(kind, b, since, c)
           IN  /\ page \in SUBSET ArtifactMetadata
               /\ {m.item : m \in page} \subseteq Item
               /\ Cardinality(page) \in Nat
               /\ Cardinality(page) <= Cardinality(Item)
<1> DEFINE page == DiscoveredArtifacts(kind, b, since, c)
<1>1. PICK listed \in SUBSET Item : page = {metadata(i) : i \in listed}
  BY DEF DiscoveredArtifacts, DriveListing, GmailListing, CalendarListing, FathomListing,
         OnPage, Live, SourceKind
<1> HIDE DEF page
<1>2. \A i \in Item : metadata(i) \in ArtifactMetadata /\ metadata(i).item = i
  <2>1. remote \in [Item -> RemoteRow]
    BY DEF TypeInv, SyncTypeOK
  <2> QED
    BY <2>1 DEF RemoteRow, metadata, ArtifactMetadata
<1>3. IsFiniteSet(listed) /\ Cardinality(listed) <= Cardinality(Item)
  BY FS_Subset, SyncAssumption
<1>4. [i \in listed |-> metadata(i)] \in Surjection(listed, page)
  BY <1>1 DEF Surjection
<1>5. IsFiniteSet(page) /\ Cardinality(page) <= Cardinality(listed)
  BY <1>3, <1>4, FS_Surjection
<1>6. Cardinality(page) \in Nat /\ Cardinality(page) <= Cardinality(Item)
  BY <1>3, <1>5, ItemCount, FS_CardinalityType
<1> QED
  BY <1>1, <1>2, <1>6 DEF page

LEMMA NextCheckpoint ==
    ASSUME NEW kind, NEW b \in Boundary \cup {NULL}, NEW c \in Checkpoint \cup {NULL}
    PROVE  LET next == next_checkpoint(kind, b, c)
           IN  /\ next \in Checkpoint \cup {NULL}
               /\ IF PageNumber(c) = LastPage THEN next = NULL
                  ELSE next # NULL /\ next.page = PageNumber(c) + 1
<1>1. PageNumber(c) \in Page
  BY PageNumberIs
<1>2. Scope(kind, b, c) \in Boundary \cup {NULL}
  BY DEF Scope, Checkpoint
<1>3. CASE PageNumber(c) = LastPage
  BY <1>3 DEF next_checkpoint
<1>4. CASE PageNumber(c) # LastPage
  <2> DEFINE next == [boundary |-> Scope(kind, b, c), page |-> PageNumber(c) + 1]
  <2>1. next \in Checkpoint
    BY <1>1, <1>2, <1>4, ProviderAssumption DEF Checkpoint, Page
  <2> QED
    BY <1>4, <2>1, NullAssumption DEF next_checkpoint
<1> QED
  BY <1>3, <1>4

LEMMA Pages ==
    ASSUME NEW p \in Page
    PROVE  /\ (p - 1) * Cardinality(Item) + Cardinality(Item) = p * Cardinality(Item)
           /\ p * Cardinality(Item) <= LastPage * Cardinality(Item)
BY ItemCount, ProviderAssumption DEF Page

\* The loop is left.
LEMMA AfterLoopTyped ==
    ASSUME NEW r \in SessionRow,
           \A i \in r.known : artifacts[i] # NULL
    PROVE  AfterLoop(r) \in SessionRow /\ Working(AfterLoop(r), artifacts)
<1> DEFINE known == {i \in Item \ r.seen : /\ artifacts[i] # NULL
                                           /\ artifacts[i].availability = "available"}
           a == [r EXCEPT !.pc = "vanished", !.known = known]
           b == [r EXCEPT !.pc = "finish"]
<1>1. AfterLoop(r) \in {a, b}
  BY DEF AfterLoop
<1>2. known \subseteq Item /\ \A i \in known : artifacts[i] # NULL
  OBVIOUS
<1> HIDE DEF known
<1>3. a \in SessionRow /\ b \in SessionRow
  <2>1. a \in SessionRow
    BY <1>2 DEF SessionRow, PC
  <2>2. b \in SessionRow
    BY DEF SessionRow, PC
  <2> QED
    BY <2>1, <2>2
<1>4. Working(a, artifacts) /\ Working(b, artifacts)
  BY <1>2 DEF SessionRow, Working, Paging, Passing
<1> QED
  BY <1>1, <1>3, <1>4

\* Row r goes on from row old with other values in the fields of F only.
Keeps(old, r, F) == \A f \in SessionFields \ F : r[f] = old[f]

LEMMA ConstructIs ==
    ASSUME TypeInv, NEW s \in Session, Construct(s)
    PROVE  \E r \in SessionRow :
              /\ Become(s, r, FALSE)
              /\ Keeps(session[s], r, {"pc", "checkpoint", "root"})
              /\ session[s].pc = "construct" /\ r.pc = "validate"
              /\ source.boundary # NULL
              /\ r.checkpoint = source.last_cursor
              /\ r.root <=> source.last_cursor = NULL
<1> DEFINE old == session[s]
           root == source.last_cursor = NULL
           r == [old EXCEPT !.pc = "validate", !.checkpoint = source.last_cursor, !.root = root]
<1>1. Become(s, r, FALSE) /\ old.pc = "construct" /\ source.boundary # NULL
  BY DEF Construct, Runnable, At
<1>2. old \in SessionRow /\ source.last_cursor \in Checkpoint \cup {NULL}
  BY Typed DEF Source
<1>3. root \in BOOLEAN
  OBVIOUS
<1> HIDE DEF old, root
<1>4. r \in SessionRow
  BY <1>2, <1>3 DEF SessionRow, PC
<1>5. /\ Keeps(old, r, {"pc", "checkpoint", "root"})
      /\ r.pc = "validate"
      /\ r.checkpoint = source.last_cursor /\ r.root = root
  BY <1>2, <1>3 DEF SessionRow, Keeps, SessionFields
<1> QED
  BY <1>1, <1>4, <1>5 DEF old, root

LEMMA ValidatedIs ==
    ASSUME TypeInv, NEW s \in Session, Validated(s)
    PROVE  \E r \in SessionRow :
              /\ Become(s, r, TRUE)
              /\ Keeps(session[s], r, {"pc", "running", "quiet"})
              /\ session[s].pc = "validate" /\ r.pc = "discover" /\ r.running
              /\ r.boundary = NULL => blind'
              /\ r.quiet => \A t \in Session \ {s} : ~session[t].running
<1> DEFINE old == session[s]
           quiet == \A t \in Session \ {s} : ~session[t].running
           r == [old EXCEPT !.pc = "discover", !.running = TRUE, !.quiet = quiet]
<1>1. Become(s, r, TRUE) /\ old.pc = "validate"
  BY Zenon DEF Validated, At
<1>2. old \in SessionRow
  BY Typed
<1>3. quiet \in BOOLEAN
  OBVIOUS
<1> HIDE DEF old, quiet
<1>4. r \in SessionRow
  BY <1>2, <1>3 DEF SessionRow, PC
<1>5. /\ Keeps(old, r, {"pc", "running", "quiet"})
      /\ r.pc = "discover" /\ r.running = TRUE /\ r.quiet = quiet
      /\ r.boundary = old.boundary
  BY <1>2, <1>3 DEF SessionRow, Keeps, SessionFields
<1>6. old.boundary = NULL => blind'
  BY DEF Validated, old
<1> QED
  BY <1>1, <1>4, <1>5, <1>6 DEF old, quiet

LEMMA DiscoverIs ==
    ASSUME TypeInv, NEW s \in Session, Discover(s)
    PROVE  \E r \in SessionRow :
              LET old == session[s]
                  page == DiscoveredArtifacts(source.kind, old.boundary, old.since,
                                              old.checkpoint)
              IN  /\ Become(s, r, FALSE)
                  /\ Keeps(old, r, {"pc", "pages", "todo", "next", "seen", "discovered",
                                "complete"})
                  /\ old.pc = "discover" /\ r.pc = "artifact"
                  /\ r.todo = page
                  /\ r.next = next_checkpoint(source.kind, old.boundary, old.checkpoint)
                  /\ r.seen = old.seen \cup {m.item : m \in page}
                  /\ r.discovered = old.discovered + Cardinality(page)
<1> DEFINE old == session[s]
           page == DiscoveredArtifacts(source.kind, old.boundary, old.since, old.checkpoint)
           next == next_checkpoint(source.kind, old.boundary, old.checkpoint)
           items == {m.item : m \in page}
           found == Cardinality(page)
           r == [old EXCEPT !.pc = "artifact", !.pages = @ + 1, !.todo = page, !.next = next,
                            !.seen = @ \cup items, !.discovered = @ + found,
                            !.complete = TRUE]
<1>1. Become(s, r, FALSE) /\ old.pc = "discover"
  BY Zenon DEF Discover, At
<1>2. /\ old \in SessionRow /\ old.boundary \in Boundary \cup {NULL}
      /\ old.discovered <= (PageNumber(old.checkpoint) - 1) * Cardinality(Item)
  BY <1>1, Typed DEF Working, Paging, Passing, SessionRow
<1>3. /\ page \in SUBSET ArtifactMetadata /\ items \subseteq Item
      /\ found \in Nat /\ found <= Cardinality(Item)
  BY Typed, PageListing DEF Source
<1>4. old.checkpoint \in Checkpoint \cup {NULL} /\ PageNumber(old.checkpoint) \in Page
  BY <1>2, PageNumberIs DEF SessionRow
<1>5. next \in Checkpoint \cup {NULL}
  BY <1>2, <1>4, NextCheckpoint
<1>6. old.discovered + found \in 0 .. LastPage * Cardinality(Item)
  <2> DEFINE n == Cardinality(Item)
             p == PageNumber(old.checkpoint)
             before == (p - 1) * n
             all == LastPage * n
  <2>1. before + n <= all /\ n \in Nat
    BY <1>4, Pages, ItemCount DEF Page
  <2>2. before \in Int /\ all \in Int
    BY <1>4, ItemCount, ProviderAssumption DEF Page
  <2>3. old.discovered \in Nat /\ old.discovered <= before
    BY <1>2 DEF SessionRow
  <2> HIDE DEF before, all, n
  <2>4. old.discovered + found \in Nat /\ old.discovered + found <= all
    BY <1>3, <2>1, <2>2, <2>3 DEF n
  <2> QED
    BY <2>2, <2>4 DEF all, n
<1> HIDE DEF old, page, next, items, found
<1>7. r \in SessionRow
  <2>1. old.seen \cup items \subseteq Item /\ old.pages + 1 \in Nat
    BY <1>2, <1>3 DEF SessionRow
  <2> QED
    BY <1>2, <1>3, <1>5, <1>6, <2>1 DEF SessionRow, PC
<1>8. /\ Keeps(old, r, {"pc", "pages", "todo", "next", "seen", "discovered",
                                "complete"})
      /\ r.pc = "artifact" /\ r.todo = page /\ r.next = next
      /\ r.seen = old.seen \cup items /\ r.discovered = old.discovered + found
  BY <1>2 DEF SessionRow, Keeps, SessionFields
<1> HIDE DEF r
<1> QED
  BY <1>1, <1>7, <1>8, Zenon DEF old, page, next, items, found

\* AfterLoop, field by field.
LEMMA AfterLoopRow ==
    ASSUME NEW r \in SessionRow
    PROVE  LET after == AfterLoop(r)
               known == {i \in Item \ r.seen : /\ artifacts[i] # NULL
                                               /\ artifacts[i].availability = "available"}
           IN  /\ Keeps(r, after, {"pc", "known"})
               /\ \/ /\ r.root /\ r.checkpoint = NULL /\ HasCheckAvailability(source.kind)
                     /\ after.pc = "vanished" /\ after.known = known
                  \/ after.pc = "finish" /\ after.known = r.known
<1> DEFINE known == {i \in Item \ r.seen : /\ artifacts[i] # NULL
                                           /\ artifacts[i].availability = "available"}
           a == [r EXCEPT !.pc = "vanished", !.known = known]
           b == [r EXCEPT !.pc = "finish"]
<1>1. \/ /\ AfterLoop(r) = a
         /\ r.root /\ r.checkpoint = NULL /\ HasCheckAvailability(source.kind)
      \/ AfterLoop(r) = b
  BY Zenon DEF AfterLoop
<1> HIDE DEF known
<1>2. /\ Keeps(r, a, {"pc", "known"}) /\ a.pc = "vanished" /\ a.known = known
      /\ Keeps(r, b, {"pc", "known"}) /\ b.pc = "finish" /\ b.known = r.known
  BY DEF SessionRow, Keeps, SessionFields
<1> HIDE DEF a, b
<1> QED
  BY <1>1, <1>2 DEF known

LEMMA DiscoverFailedIs ==
    ASSUME TypeInv, NEW s \in Session, DiscoverFailed(s)
    PROVE  \E r \in SessionRow :
              /\ Become(s, AfterLoop(r), FALSE)
              /\ Keeps(session[s], r, {"pages", "failed"})
              /\ session[s].pc = "discover"
              /\ r.failed = session[s].failed + 1
<1> DEFINE old == session[s]
           r == [old EXCEPT !.pages = @ + 1, !.failed = @ + 1]
<1>1. Become(s, AfterLoop(r), FALSE) /\ old.pc = "discover"
  BY Zenon DEF DiscoverFailed, At
<1>2. old \in SessionRow
  BY Typed
<1> HIDE DEF old
<1>3. /\ r \in SessionRow /\ Keeps(old, r, {"pages", "failed"})
      /\ r.failed = old.failed + 1
  <2>1. old.pages + 1 \in Nat /\ old.failed + 1 \in Nat
    BY <1>2 DEF SessionRow
  <2>2. r \in SessionRow
    BY <1>2, <2>1 DEF SessionRow
  <2>3. Keeps(old, r, {"pages", "failed"}) /\ r.failed = old.failed + 1
    BY <1>2 DEF SessionRow, Keeps, SessionFields
  <2> QED
    BY <2>2, <2>3
<1> HIDE DEF r
<1> QED
  BY <1>1, <1>3 DEF old

LEMMA AdvanceCursorIs ==
    ASSUME TypeInv, NEW s \in Session, AdvanceCursor(s)
    PROVE  \E r \in SessionRow :
              /\ Keeps(session[s], r, {"checkpoint", "next", "pc"})
              /\ session[s].pc = "artifact" /\ session[s].todo = {}
              /\ r.checkpoint = session[s].next
              /\ source' = update_last_cursor(source, r.checkpoint)
              /\ \/ (r.checkpoint = NULL \/ blind') /\ Become(s, AfterLoop(r), FALSE)
                 \/ r.checkpoint # NULL /\ r.pc = "discover" /\ Become(s, r, FALSE)
              /\ blind => blind'
              /\ blind' \in BOOLEAN
<1> DEFINE old == session[s]
           q == [old EXCEPT !.checkpoint = old.next, !.next = NULL]
           r == [q EXCEPT !.pc = "discover"]
<1>1. old \in SessionRow
  BY Typed
<1>2. /\ old.pc = "artifact" /\ old.todo = {}
      /\ source' = update_last_cursor(source, q.checkpoint)
  BY DEF AdvanceCursor, At
<1>7. /\ \/ (q.checkpoint = NULL \/ blind') /\ Become(s, AfterLoop(q), FALSE)
         \/ q.checkpoint # NULL /\ Become(s, r, FALSE)
      /\ blind => blind'
      /\ blind' \in BOOLEAN
  <2>1. /\ Become(s, IF q.checkpoint # NULL /\ ~(q.pages >= MaxPagesPerSync) THEN r
                     ELSE AfterLoop(q), FALSE)
        /\ blind' = (blind \/ (q.checkpoint # NULL /\ q.pages >= MaxPagesPerSync))
    BY Zenon DEF AdvanceCursor
  <2>2. blind \in BOOLEAN
    BY Typed
  <2> HIDE DEF old, q, r
  <2>3. CASE q.checkpoint # NULL /\ ~(q.pages >= MaxPagesPerSync)
    BY <2>1, <2>2, <2>3
  <2>4. CASE ~(q.checkpoint # NULL /\ ~(q.pages >= MaxPagesPerSync))
    BY <2>1, <2>2, <2>4
  <2> QED
    BY <2>3, <2>4
<1> HIDE DEF old
<1>3. /\ q \in SessionRow /\ q.checkpoint = old.next
      /\ Keeps(old, q, {"checkpoint", "next", "pc"})
  BY <1>1 DEF SessionRow, Keeps, SessionFields
<1>4. /\ r \in SessionRow /\ r.checkpoint = old.next /\ r.pc = "discover"
      /\ Keeps(old, r, {"checkpoint", "next", "pc"})
  <2> HIDE DEF q
  <2>1. r \in SessionRow
    BY <1>3 DEF SessionRow, PC
  <2>2. Keeps(q, r, {"pc"}) /\ r.pc = "discover"
    BY <1>3 DEF SessionRow, Keeps, SessionFields
  <2> HIDE DEF r
  <2> QED
    BY <1>3, <2>1, <2>2 DEF Keeps, SessionFields
<1> HIDE DEF q, r
<1>5. CASE (q.checkpoint = NULL \/ blind') /\ Become(s, AfterLoop(q), FALSE)
  BY <1>2, <1>3, <1>5, <1>7 DEF old
<1>6. CASE q.checkpoint # NULL /\ Become(s, r, FALSE)
  BY <1>2, <1>3, <1>4, <1>6, <1>7 DEF old
<1> QED
  BY <1>5, <1>6, <1>7

LEMMA FinishIs ==
    ASSUME TypeInv, NEW s \in Session, Finish(s)
    PROVE  \E r \in SessionRow :
              /\ Become(s, r, FALSE)
              /\ Keeps(session[s], r, {"pc"})
              /\ session[s].pc \in {"vanished", "finish"} /\ r.pc = "close"
              /\ runs' = [runs EXCEPT ![s] = _final_status(r)]
<1> DEFINE old == session[s]
           r == [old EXCEPT !.pc = "close"]
<1>1. /\ Become(s, r, FALSE) /\ old.pc \in {"vanished", "finish"}
      /\ runs' = [runs EXCEPT ![s] = _final_status(old)]
  BY DEF Finish, Goto, At
<1>2. old \in SessionRow
  BY Typed
<1> HIDE DEF old
<1>3. r \in SessionRow
  BY <1>2 DEF SessionRow, PC
<1>4. Keeps(old, r, {"pc"}) /\ r.pc = "close" /\ _final_status(r) = _final_status(old)
  BY <1>2 DEF SessionRow, Keeps, SessionFields, _final_status
<1> HIDE DEF r
<1> QED
  BY <1>1, <1>3, <1>4 DEF old

LEMMA CheckVanishedIs ==
    ASSUME TypeInv, NEW s \in Session, CheckVanished(s)
    PROVE  \E r \in SessionRow, i \in session[s].known, d \in BOOLEAN :
              /\ Become(s, r, d)
              /\ Keeps(session[s], r, {"known", "failed"})
              /\ session[s].pc = "vanished"
              /\ r.known = session[s].known \ {i}
              /\ r.failed \in {session[s].failed, session[s].failed + 1}
              /\ \/ UNCHANGED artifacts
                 \/ \E answer \in ArtifactAvailability :
                       /\ d
                       /\ artifacts' = [artifacts EXCEPT ![i].availability = answer]
<1> DEFINE old == session[s]
<1>1. old.pc = "vanished" /\ old \in SessionRow
  BY Typed DEF CheckVanished, At
<1>2. PICK i \in old.known :
         LET r == [old EXCEPT !.known = @ \ {i}]
             answer == check_availability(source.kind, old.boundary, i)
         IN  \/ /\ artifacts' = [artifacts EXCEPT ![i].availability = answer]
                /\ Become(s, r, TRUE)
             \/ Become(s, r, FALSE) /\ UNCHANGED artifacts
             \/ Become(s, [r EXCEPT !.failed = @ + 1], FALSE) /\ UNCHANGED artifacts
  BY Zenon DEF CheckVanished
<1> DEFINE a == [old EXCEPT !.known = @ \ {i}]
           b == [a EXCEPT !.failed = @ + 1]
           answer == check_availability(source.kind, old.boundary, i)
<1>3. answer \in ArtifactAvailability
  BY DEF check_availability, ArtifactAvailability
<1> HIDE DEF old, answer
<1>4. /\ a \in SessionRow /\ Keeps(old, a, {"known", "failed"})
      /\ a.known = old.known \ {i} /\ a.failed = old.failed
  BY <1>1 DEF SessionRow, Keeps, SessionFields
<1>5. /\ b \in SessionRow /\ Keeps(old, b, {"known", "failed"})
      /\ b.known = old.known \ {i} /\ b.failed = old.failed + 1
  <2> HIDE DEF a
  <2>1. b \in SessionRow /\ Keeps(a, b, {"failed"}) /\ b.failed = a.failed + 1
    BY <1>4 DEF SessionRow, Keeps, SessionFields
  <2> HIDE DEF b
  <2> QED
    BY <1>4, <2>1 DEF Keeps, SessionFields
<1>6. \/ artifacts' = [artifacts EXCEPT ![i].availability = answer] /\ Become(s, a, TRUE)
      \/ Become(s, a, FALSE) /\ UNCHANGED artifacts
      \/ Become(s, b, FALSE) /\ UNCHANGED artifacts
  BY <1>2, Zenon DEF old, answer
<1> HIDE DEF a, b
<1> QED
  BY <1>1, <1>3, <1>4, <1>5, <1>6 DEF old

\* What a step makes of the artifact a of a listed item m, and where it goes.
Processed(old, r, m, a) ==
    /\ Keeps(old, r, {"pc", "todo", "raw", "failed"})
    /\ r.todo = old.todo \ {m}
    /\ \/ /\ m.is_trashed \/ is_unchanged(a, m)
          /\ r.pc = "artifact" /\ r.failed = old.failed
       \/ /\ r.pc = "store" /\ r.failed = old.failed /\ ~m.is_trashed
          /\ CanFetch(source.kind, m)
          /\ r.raw = [item |-> m.item, version_key |-> m.marker,
                      bytes |-> fetch(source.kind, m), was |-> a.current]
       \/ /\ CanFetch(source.kind, m) => Fault
          /\ r.pc = "artifact" /\ r.failed = old.failed + 1

\* Its row in the database then.
Recorded(m, a) ==
    \E b \in ArtifactRow :
       /\ artifacts' = [artifacts EXCEPT ![m.item] = b]
       /\ b.contents = a.contents /\ b.current = a.current

LEMMA GetOrCreateTyped ==
    ASSUME TypeInv, NEW i \in Item
    PROVE  /\ GetOrCreate(i) \in ArtifactRow
           /\ MarkDeleted(GetOrCreate(i)) \in ArtifactRow
           /\ MarkDeleted(GetOrCreate(i)).contents = GetOrCreate(i).contents
           /\ MarkDeleted(GetOrCreate(i)).current = GetOrCreate(i).current
<1> DEFINE a == GetOrCreate(i)
<1>1. artifacts[i] \in ArtifactRow \cup {NULL}
  BY DEF TypeInv, SyncTypeOK
<1>2. a \in ArtifactRow
  BY <1>1 DEF GetOrCreate, ArtifactRow, ArtifactAvailability
<1> HIDE DEF a
<1>3. MarkDeleted(a) \in ArtifactRow /\ MarkDeleted(a).contents = a.contents
         /\ MarkDeleted(a).current = a.current
  BY <1>2 DEF MarkDeleted, ArtifactRow, ArtifactAvailability
<1> QED
  BY <1>2, <1>3 DEF a

LEMMA ProcessArtifactIs ==
    ASSUME TypeInv, NEW s \in Session, ProcessArtifact(s)
    PROVE  \E m \in session[s].todo, r \in SessionRow :
              /\ Become(s, r, artifacts' # artifacts)
              /\ session[s].pc = "artifact"
              /\ Processed(session[s], r, m, GetOrCreate(m.item))
              /\ Recorded(m, GetOrCreate(m.item))
              /\ UNCHANGED faults \/ Fault
<1> DEFINE old == session[s]
           news == artifacts' # artifacts
<1>1. old.pc = "artifact" /\ old \in SessionRow
  BY Typed DEF ProcessArtifact, At
<1>2. PICK m \in old.todo :
         LET a == GetOrCreate(m.item)
             r == [old EXCEPT !.todo = @ \ {m}]
             raw == [item |-> m.item, version_key |-> m.marker,
                     bytes |-> fetch(source.kind, m), was |-> a.current]
         IN  /\ UNCHANGED faults \/ Fault
             /\ \/ /\ m.is_trashed \/ is_unchanged(a, m)
                   /\ artifacts' = [artifacts EXCEPT
                                      ![m.item] = IF m.is_trashed THEN MarkDeleted(a) ELSE a]
                   /\ Become(s, r, news)
                \/ /\ artifacts' = [artifacts EXCEPT ![m.item] = a]
                   /\ ~m.is_trashed /\ CanFetch(source.kind, m)
                   /\ Become(s, [r EXCEPT !.pc = "store", !.raw = raw], news)
                \/ /\ artifacts' = [artifacts EXCEPT ![m.item] = a]
                   /\ CanFetch(source.kind, m) => Fault
                   /\ Become(s, [r EXCEPT !.failed = @ + 1], news)
  BY Zenon DEF ProcessArtifact
<1> DEFINE a == GetOrCreate(m.item)
           raw == [item |-> m.item, version_key |-> m.marker,
                   bytes |-> fetch(source.kind, m), was |-> a.current]
           seen == [old EXCEPT !.todo = @ \ {m}]
           fetched == [seen EXCEPT !.pc = "store", !.raw = raw]
           failed == [seen EXCEPT !.failed = @ + 1]
<1>3. m \in ArtifactMetadata
  BY <1>1 DEF SessionRow
<1>4. /\ a \in ArtifactRow /\ MarkDeleted(a) \in ArtifactRow
      /\ MarkDeleted(a).contents = a.contents /\ MarkDeleted(a).current = a.current
  BY <1>3, GetOrCreateTyped DEF ArtifactMetadata
<1>5. raw \in Raw
  <2>1. fetch(source.kind, m) \in Bytes
    BY <1>3, Typed DEF fetch, ArtifactMetadata, RemoteRow
  <2> HIDE DEF a
  <2> QED
    BY <1>3, <1>4, <2>1 DEF Raw, ArtifactMetadata, ArtifactRow
<1>6. \/ /\ m.is_trashed \/ is_unchanged(a, m)
         /\ artifacts' = [artifacts EXCEPT
                            ![m.item] = IF m.is_trashed THEN MarkDeleted(a) ELSE a]
         /\ Become(s, seen, news)
      \/ /\ artifacts' = [artifacts EXCEPT ![m.item] = a]
         /\ ~m.is_trashed /\ CanFetch(source.kind, m)
         /\ Become(s, fetched, news)
      \/ /\ artifacts' = [artifacts EXCEPT ![m.item] = a]
         /\ CanFetch(source.kind, m) => Fault
         /\ Become(s, failed, news)
  BY <1>2, Zenon
<1>7. UNCHANGED faults \/ Fault
  BY <1>2, Zenon
<1> HIDE DEF old, a, news
<1>8. /\ seen \in SessionRow /\ Keeps(old, seen, {"pc", "todo", "raw", "failed"})
      /\ seen.pc = "artifact" /\ seen.todo = old.todo \ {m} /\ seen.failed = old.failed
  BY <1>1 DEF SessionRow, Keeps, SessionFields
<1> HIDE DEF seen, raw
<1>9. /\ fetched \in SessionRow /\ Keeps(old, fetched, {"pc", "todo", "raw", "failed"})
       /\ fetched.pc = "store" /\ fetched.todo = old.todo \ {m}
       /\ fetched.failed = old.failed /\ fetched.raw = raw
  <2>1. fetched \in SessionRow
    BY <1>5, <1>8 DEF SessionRow, PC
  <2>2. Keeps(seen, fetched, {"pc", "raw"}) /\ fetched.pc = "store" /\ fetched.raw = raw
    BY <1>8 DEF SessionRow, Keeps, SessionFields
  <2> HIDE DEF fetched
  <2> QED
    BY <1>8, <2>1, <2>2 DEF Keeps, SessionFields
<1>10. /\ failed \in SessionRow /\ Keeps(old, failed, {"pc", "todo", "raw", "failed"})
       /\ failed.pc = "artifact" /\ failed.todo = old.todo \ {m}
       /\ failed.failed = old.failed + 1
  <2>1. failed \in SessionRow /\ Keeps(seen, failed, {"failed"})
           /\ failed.failed = seen.failed + 1
    BY <1>8 DEF SessionRow, PC, Keeps, SessionFields
  <2> HIDE DEF failed
  <2> QED
    BY <1>8, <2>1 DEF Keeps, SessionFields
<1> HIDE DEF fetched, failed
<1>11. Recorded(m, a)
  BY <1>4, <1>6 DEF Recorded
<1>12. \E r \in {seen, fetched, failed} : Become(s, r, news) /\ Processed(old, r, m, a)
  BY <1>6, <1>8, <1>9, <1>10 DEF Processed, raw
<1> QED
  BY <1>1, <1>7, <1>8, <1>9, <1>10, <1>11, <1>12 DEF old, a, news

\* What storing makes of an artifact.
LEMMA StoredIs ==
    ASSUME NEW a \in ArtifactRow, NEW raw \in Raw
    PROVE  LET b == Stored(a, raw)
               new == [version_key |-> raw.version_key, bytes |-> raw.bytes]
           IN  /\ b \in ArtifactRow
               /\ b.contents \in {a.contents, a.contents \cup {new}}
               /\ \/ b = a /\ raw.was \in a.contents /\ raw.was.bytes = raw.bytes
                  \/ b.current \in b.contents /\ b.current.bytes = raw.bytes
<1> DEFINE same == SameBytes(a, raw)
           new == [version_key |-> raw.version_key, bytes |-> raw.bytes]
           c == CHOOSE c \in same : TRUE
           reused == [a EXCEPT !.current = c]
           added == [a EXCEPT !.contents = @ \cup {new}, !.current = new]
<1>1. same \subseteq Content /\ \A x \in same : x \in a.contents /\ x.bytes = raw.bytes
  BY DEF SameBytes, ArtifactRow
<1>2. new \in Content /\ new.bytes = raw.bytes
  BY DEF Raw, Content
<1>3. Stored(a, raw) = IF same # {} THEN IF raw.was \in same THEN a ELSE reused ELSE added
  BY Zenon DEF Stored, Reused, NewVersion
<1>4. same # {} => c \in same
  OBVIOUS
<1> HIDE DEF same, new, c
<1>5. c \in same =>
         /\ reused \in ArtifactRow /\ reused.contents = a.contents /\ reused.current = c
  BY <1>1 DEF ArtifactRow
<1>6. /\ added \in ArtifactRow /\ added.contents = a.contents \cup {new}
      /\ added.current = new
  BY <1>2 DEF ArtifactRow
<1> HIDE DEF reused, added
<1>7. CASE same = {}
  BY <1>2, <1>3, <1>6, <1>7 DEF new
<1>8. CASE same # {} /\ raw.was \in same
  BY <1>1, <1>3, <1>8
<1>9. CASE same # {} /\ raw.was \notin same
  BY <1>1, <1>3, <1>4, <1>5, <1>9
<1> QED
  BY <1>7, <1>8, <1>9

LEMMA StoreArtifactIs ==
    ASSUME TypeInv, NEW s \in Session, StoreArtifact(s)
    PROVE  \E r \in SessionRow, d \in BOOLEAN :
              LET old == session[s]
                  a == artifacts[old.raw.item]
              IN  /\ Become(s, r, d)
                  /\ Keeps(old, r, {"pc", "raw", "failed"})
                  /\ old.pc = "store" /\ r.pc = "artifact"
                  /\ old.raw \in Raw /\ a \in ArtifactRow
                  /\ \/ /\ artifacts' = [artifacts EXCEPT ![old.raw.item] = Stored(a, old.raw)]
                        /\ d /\ r.failed = old.failed
                     \/ /\ UNCHANGED artifacts /\ r.failed = old.failed + 1
                        /\ KeyTaken(a, old.raw) \/ Fault
                  /\ UNCHANGED faults \/ Fault
<1> DEFINE old == session[s]
           a == artifacts[old.raw.item]
           stored == [old EXCEPT !.pc = "artifact", !.raw = NULL]
           failed == [stored EXCEPT !.failed = @ + 1]
<1>1. /\ old.pc = "store" /\ old \in SessionRow
      /\ old.raw \in Raw /\ a # NULL
  BY Typed DEF StoreArtifact, At, Working
<1>2. a \in ArtifactRow
  BY <1>1, Typed DEF Raw
<1>3. \/ /\ artifacts' = [artifacts EXCEPT ![old.raw.item] = Stored(a, old.raw)]
         /\ Become(s, stored, TRUE)
      \/ /\ UNCHANGED artifacts /\ Become(s, failed, FALSE)
         /\ KeyTaken(a, old.raw) \/ Fault
  BY Zenon DEF StoreArtifact
<1>4. UNCHANGED faults \/ Fault
  BY Zenon DEF StoreArtifact
<1> HIDE DEF old, a
<1>5. /\ stored \in SessionRow /\ Keeps(old, stored, {"pc", "raw", "failed"})
      /\ stored.pc = "artifact" /\ stored.failed = old.failed
  <2>1. stored \in SessionRow
    BY <1>1 DEF SessionRow, PC
  <2>2. /\ Keeps(old, stored, {"pc", "raw", "failed"})
        /\ stored.pc = "artifact" /\ stored.failed = old.failed
    BY <1>1 DEF SessionRow, Keeps, SessionFields
  <2> QED
    BY <2>1, <2>2
<1> HIDE DEF stored
<1>6. /\ failed \in SessionRow /\ Keeps(old, failed, {"pc", "raw", "failed"})
      /\ failed.pc = "artifact" /\ failed.failed = old.failed + 1
  <2>1. failed \in SessionRow /\ Keeps(stored, failed, {"failed"})
           /\ failed.failed = stored.failed + 1
    BY <1>5 DEF SessionRow, Keeps, SessionFields
  <2> HIDE DEF failed
  <2> QED
    BY <1>5, <2>1 DEF Keeps, SessionFields
<1> HIDE DEF failed
<1>7. CASE /\ artifacts' = [artifacts EXCEPT ![old.raw.item] = Stored(a, old.raw)]
           /\ Become(s, stored, TRUE)
  BY <1>1, <1>2, <1>4, <1>5, <1>7 DEF old, a
<1>8. CASE /\ UNCHANGED artifacts /\ Become(s, failed, FALSE)
           /\ KeyTaken(a, old.raw) \/ Fault
  BY <1>1, <1>2, <1>4, <1>6, <1>8 DEF old, a
<1> QED
  BY <1>3, <1>7, <1>8

LEMMA ConstructTyped ==
    ASSUME TypeInv, RefInv', NEW s \in Session, Construct(s) PROVE TypeInv'
<1>1. PICK r \in SessionRow :
         /\ Become(s, r, FALSE)
         /\ Keeps(session[s], r, {"pc", "checkpoint", "root"})
         /\ session[s].pc = "construct" /\ r.pc = "validate"
  BY ConstructIs
<1>2. Working(r, artifacts)
  BY <1>1, Typed DEF Working, Fresh, Paging, Passing, Keeps, SessionFields
<1>3. UNCHANGED <<providerVars, credentialVars, artifacts, runs, faults, clicks, torn, blind>>
  BY DEF Construct
<1> QED
  BY <1>1, <1>2, <1>3, Typed, RowStep DEF credentialVars

LEMMA ValidatedTyped ==
    ASSUME TypeInv, RefInv', NEW s \in Session, Validated(s) PROVE TypeInv'
<1>1. PICK r \in SessionRow :
         /\ Become(s, r, TRUE)
         /\ Keeps(session[s], r, {"pc", "running", "quiet"})
         /\ session[s].pc = "validate" /\ r.pc = "discover"
  BY ValidatedIs
<1>2. Working(r, artifacts)
  <2>1. /\ r.discovered = 0
        /\ \A i \in r.known : artifacts[i] # NULL
    BY <1>1, Typed DEF Working, Fresh, Passing, Keeps, SessionFields
  <2>2. PageNumber(r.checkpoint) \in Page
    BY PageNumberIs DEF SessionRow
  <2>3. 0 <= (PageNumber(r.checkpoint) - 1) * Cardinality(Item)
    BY <2>2, ItemCount DEF Page
  <2> QED
    BY <1>1, <2>1, <2>3 DEF Working, Paging, Passing
<1>3. /\ UNCHANGED <<providerVars, secrets, issued, revoked, artifacts, faults, clicks, torn>>
      /\ blind' \in BOOLEAN
      /\ source' = update_health(source, "syncing")
      /\ runs' = [runs EXCEPT ![s] = "running"]
  BY Typed DEF Validated
<1>4. source' \in Source /\ runs' \in [Session -> SyncRunStatus \cup {NULL}]
  BY <1>3, Typed, SourceTyped, RunsTyped DEF SourceHealthStatus, SyncRunStatus
<1> QED
  BY <1>1, <1>2, <1>3, <1>4, Typed, RowStep

LEMMA DiscoverTyped ==
    ASSUME TypeInv, RefInv', NEW s \in Session, Discover(s) PROVE TypeInv'
<1> DEFINE old == session[s]
           kind == source.kind
           page == DiscoveredArtifacts(kind, old.boundary, old.since, old.checkpoint)
<1>1. PICK r \in SessionRow :
         /\ Become(s, r, FALSE)
         /\ Keeps(old, r, {"pc", "pages", "todo", "next", "seen", "discovered",
                                "complete"})
         /\ old.pc = "discover" /\ r.pc = "artifact"
         /\ r.next = next_checkpoint(kind, old.boundary, old.checkpoint)
         /\ r.discovered = old.discovered + Cardinality(page)
  BY DiscoverIs
<1>2. /\ old.boundary \in Boundary \cup {NULL} /\ old.checkpoint \in Checkpoint \cup {NULL}
      /\ old.discovered \in Nat
      /\ old.discovered <= (PageNumber(old.checkpoint) - 1) * Cardinality(Item)
      /\ \A i \in old.known : artifacts[i] # NULL
  BY <1>1, Typed DEF Working, Paging, Passing, SessionRow
<1>3. Cardinality(page) \in Nat /\ Cardinality(page) <= Cardinality(Item)
  BY Typed, PageListing DEF Source
<1>4. PageNumber(old.checkpoint) \in Page
  BY <1>2, PageNumberIs
<1>5. IF PageNumber(old.checkpoint) = LastPage THEN r.next = NULL
      ELSE r.next # NULL /\ r.next.page = PageNumber(old.checkpoint) + 1
  BY <1>1, <1>2, NextCheckpoint
<1>6. r.discovered <= PageNumber(old.checkpoint) * Cardinality(Item)
  <2> DEFINE n == Cardinality(Item)
             before == (PageNumber(old.checkpoint) - 1) * n
             through == PageNumber(old.checkpoint) * n
             found == Cardinality(page)
  <2>1. before + n = through /\ before \in Int /\ through \in Int /\ n \in Nat
    BY <1>4, Pages, ItemCount DEF Page
  <2> HIDE DEF before, through, n, found
  <2>2. old.discovered <= before /\ found <= n /\ found \in Nat
    BY <1>2, <1>3 DEF before, n, found
  <2>3. old.discovered + found <= through
    BY <1>2, <2>1, <2>2
  <2> QED
    BY <1>1, <2>3 DEF found, through, n
<1>7. Working(r, artifacts)
  BY <1>1, <1>2, <1>5, <1>6 DEF Working, Paging, Passing, Keeps, SessionFields
<1>8. UNCHANGED <<providerVars, credentialVars, artifacts, runs, faults, clicks, torn, blind>>
  BY DEF Discover
<1> QED
  BY <1>1, <1>7, <1>8, Typed, RowStep DEF credentialVars

LEMMA DiscoverFailedTyped ==
    ASSUME TypeInv, RefInv', NEW s \in Session, DiscoverFailed(s) PROVE TypeInv'
<1>1. PICK r \in SessionRow :
         /\ Become(s, AfterLoop(r), FALSE)
         /\ Keeps(session[s], r, {"pages", "failed"}) /\ session[s].pc = "discover"
  BY DiscoverFailedIs
<1>2. \A i \in r.known : artifacts[i] # NULL
  BY <1>1, Typed DEF Working, Passing, Keeps, SessionFields
<1>3. AfterLoop(r) \in SessionRow /\ Working(AfterLoop(r), artifacts)
  BY <1>2, AfterLoopTyped
<1>4. UNCHANGED <<providerVars, credentialVars, artifacts, runs, clicks, torn, blind>> /\ Fault
  BY DEF DiscoverFailed
<1> QED
  BY <1>1, <1>3, <1>4, Typed, FaultTyped, RowStep DEF credentialVars

LEMMA ProcessArtifactTyped ==
    ASSUME TypeInv, RefInv', NEW s \in Session, ProcessArtifact(s) PROVE TypeInv'
<1> DEFINE old == session[s]
<1>1. PICK m \in old.todo, r \in SessionRow :
         /\ Become(s, r, artifacts' # artifacts)
         /\ old.pc = "artifact"
         /\ Processed(old, r, m, GetOrCreate(m.item))
         /\ Recorded(m, GetOrCreate(m.item))
         /\ UNCHANGED faults \/ Fault
  BY ProcessArtifactIs
<1>2. m \in ArtifactMetadata /\ m.item \in Item
  BY Typed DEF SessionRow, ArtifactMetadata
<1>3. PICK b \in ArtifactRow : artifacts' = [artifacts EXCEPT ![m.item] = b]
  BY <1>1 DEF Recorded
<1>4. artifacts' \in [Item -> ArtifactRow \cup {NULL}]
         /\ \A i \in Item : artifacts[i] # NULL \/ i = m.item => artifacts'[i] # NULL
  BY <1>2, <1>3, Typed, NullAssumption
<1>5. r.pc = "store" => r.raw \in Raw /\ r.raw.item = m.item
  <2>1. CASE r.pc # "store"
    BY <2>1
  <2>2. CASE r.pc = "store"
    <3>1. r.raw = [item |-> m.item, version_key |-> m.marker,
                   bytes |-> fetch(source.kind, m), was |-> GetOrCreate(m.item).current]
      BY <1>1, <2>2 DEF Processed
    <3>2. r.raw # NULL => r.raw \in Raw
      BY DEF SessionRow
    <3>3. fetch(source.kind, m) \in Bytes
      BY <1>2, Typed DEF fetch, ArtifactMetadata, RemoteRow
    <3>4. GetOrCreate(m.item).current \in Content \cup {NULL}
      BY <1>2, GetOrCreateTyped DEF ArtifactRow
    <3> QED
      BY <1>2, <3>1, <3>3, <3>4 DEF Raw, ArtifactMetadata
  <2> QED
    BY <2>1, <2>2
<1>6. Working(r, artifacts')
  <2>1. /\ r.pc \in {"artifact", "store"}
        /\ r.known = old.known /\ r.boundary = old.boundary /\ r.next = old.next
        /\ r.checkpoint = old.checkpoint /\ r.discovered = old.discovered
    BY <1>1 DEF Processed, Keeps, SessionFields
  <2>2. old.known \subseteq Item
    BY Typed DEF SessionRow
  <2> QED
    BY <1>1, <1>2, <1>4, <1>5, <2>1, <2>2, Typed DEF Working, Paging, Passing
<1>7. UNCHANGED <<providerVars, credentialVars, runs, clicks, torn, blind>>
  BY DEF ProcessArtifact
<1>8. faults' \in 0 .. MaxFaults
  BY <1>1, Typed, FaultTyped
<1>9. /\ source' \in Source /\ issued' \in 0 .. MaxConnects
      /\ secrets' \subseteq 1 .. issued' /\ revoked' \subseteq 1 .. issued'
  BY <1>7 DEF credentialVars, TypeInv, SyncTypeOK
<1> QED
  BY <1>1, <1>4, <1>6, <1>7, <1>8, <1>9, Typed, TypedStep

LEMMA StoreArtifactTyped ==
    ASSUME TypeInv, RefInv', NEW s \in Session, StoreArtifact(s) PROVE TypeInv'
<1> DEFINE old == session[s]
           a == artifacts[old.raw.item]
<1>1. PICK r \in SessionRow, d \in BOOLEAN :
         /\ Become(s, r, d)
         /\ Keeps(old, r, {"pc", "raw", "failed"})
         /\ old.pc = "store" /\ r.pc = "artifact"
         /\ old.raw \in Raw /\ a \in ArtifactRow
         /\ \/ artifacts' = [artifacts EXCEPT ![old.raw.item] = Stored(a, old.raw)]
            \/ UNCHANGED artifacts
         /\ UNCHANGED faults \/ Fault
  BY StoreArtifactIs
<1>2. Stored(a, old.raw) \in ArtifactRow /\ old.raw.item \in Item
  BY <1>1, StoredIs DEF Raw
<1>3. artifacts' \in [Item -> ArtifactRow \cup {NULL}]
         /\ \A i \in Item : artifacts[i] # NULL => artifacts'[i] # NULL
  BY <1>1, <1>2, Typed, NullAssumption
<1>4. Working(r, artifacts')
  <2>1. old.known \subseteq Item
    BY Typed DEF SessionRow
  <2> QED
    BY <1>1, <1>3, <2>1, Typed DEF Working, Paging, Passing, Keeps, SessionFields
<1>5. UNCHANGED <<providerVars, credentialVars, runs, clicks, torn, blind>>
  BY DEF StoreArtifact
<1>6. faults' \in 0 .. MaxFaults
  BY <1>1, Typed, FaultTyped
<1>7. /\ source' \in Source /\ issued' \in 0 .. MaxConnects
      /\ secrets' \subseteq 1 .. issued' /\ revoked' \subseteq 1 .. issued'
  BY <1>5 DEF credentialVars, TypeInv, SyncTypeOK
<1> QED
  BY <1>1, <1>3, <1>4, <1>5, <1>6, <1>7, Typed, TypedStep

LEMMA AdvanceCursorTyped ==
    ASSUME TypeInv, RefInv', NEW s \in Session, AdvanceCursor(s) PROVE TypeInv'
<1> DEFINE old == session[s]
<1>1. PICK r \in SessionRow :
         /\ Keeps(old, r, {"checkpoint", "next", "pc"})
         /\ old.pc = "artifact" /\ r.checkpoint = old.next
         /\ source' = update_last_cursor(source, r.checkpoint)
         /\ \/ (r.checkpoint = NULL \/ blind') /\ Become(s, AfterLoop(r), FALSE)
            \/ r.checkpoint # NULL /\ r.pc = "discover" /\ Become(s, r, FALSE)
         /\ blind' \in BOOLEAN
  BY AdvanceCursorIs
<1>2. /\ \A i \in r.known : artifacts[i] # NULL
      /\ r.discovered = old.discovered /\ r.known = old.known
  BY <1>1, Typed DEF Working, Passing, Keeps, SessionFields
<1>3. r.checkpoint \in Checkpoint \cup {NULL} /\ source' \in Source
  BY <1>1, Typed, SourceTyped DEF SessionRow
<1>4. UNCHANGED <<providerVars, secrets, issued, revoked, artifacts, runs, faults, clicks,
                  torn>>
  BY DEF AdvanceCursor
<1>5. CASE Become(s, AfterLoop(r), FALSE)
  <2>1. AfterLoop(r) \in SessionRow /\ Working(AfterLoop(r), artifacts)
    BY <1>2, AfterLoopTyped
  <2> QED
    BY <1>1, <1>3, <1>4, <1>5, <2>1, Typed, RowStep
<1>6. CASE r.checkpoint # NULL /\ r.pc = "discover" /\ Become(s, r, FALSE)
  <2>1. PageNumber(r.checkpoint) - 1 = PageNumber(old.checkpoint)
           /\ r.discovered <= PageNumber(old.checkpoint) * Cardinality(Item)
    <3>1. PageNumber(old.checkpoint) \in Page
      BY Typed, PageNumberIs DEF SessionRow
    <3> QED
      BY <1>1, <1>2, <1>6, <3>1, Typed DEF Working, Paging, PageNumber, Page
  <2>2. Working(r, artifacts)
    BY <1>1, <1>2, <1>6, <2>1 DEF Working, Paging, Passing
  <2> QED
    BY <1>1, <1>3, <1>4, <1>6, <2>2, Typed, RowStep
<1> QED
  BY <1>1, <1>5, <1>6

LEMMA CheckVanishedTyped ==
    ASSUME TypeInv, RefInv', NEW s \in Session, CheckVanished(s) PROVE TypeInv'
<1> DEFINE old == session[s]
<1>1. PICK r \in SessionRow, i \in old.known, d \in BOOLEAN :
         /\ Become(s, r, d)
         /\ Keeps(old, r, {"known", "failed"})
         /\ old.pc = "vanished" /\ r.known = old.known \ {i}
         /\ \/ UNCHANGED artifacts
            \/ \E answer \in ArtifactAvailability :
                  artifacts' = [artifacts EXCEPT ![i].availability = answer]
  BY CheckVanishedIs
<1>2. old.known \subseteq Item /\ \A j \in old.known : artifacts[j] # NULL
  BY Typed DEF SessionRow, Working
<1> DEFINE Kept == /\ artifacts' \in [Item -> ArtifactRow \cup {NULL}]
                   /\ \A j \in Item : artifacts[j] # NULL => artifacts'[j] # NULL
<1>3. Kept
  <2>1. CASE UNCHANGED artifacts
    BY <2>1, Typed
  <2>2. ASSUME NEW answer \in ArtifactAvailability,
               artifacts' = [artifacts EXCEPT ![i].availability = answer]
        PROVE  Kept
    <3> DEFINE b == [artifacts[i] EXCEPT !.availability = answer]
    <3>1. artifacts' = [artifacts EXCEPT ![i] = b]
      BY <2>2
    <3>2. b \in ArtifactRow
      BY <1>1, <1>2, Typed DEF ArtifactRow
    <3> HIDE DEF b
    <3> QED
      BY <1>2, <3>1, <3>2, Typed, NullAssumption
  <2> QED
    BY <1>1, <2>1, <2>2
<1>4. Working(r, artifacts')
  BY <1>1, <1>2, <1>3, Typed DEF Working, Paging, Passing, Keeps, SessionFields
<1>5. UNCHANGED <<providerVars, credentialVars, runs, clicks, torn, blind>>
  BY DEF CheckVanished
<1>6. faults' \in 0 .. MaxFaults
  BY Typed, FaultTyped DEF CheckVanished
<1>7. /\ source' \in Source /\ issued' \in 0 .. MaxConnects
      /\ secrets' \subseteq 1 .. issued' /\ revoked' \subseteq 1 .. issued'
  BY <1>5 DEF credentialVars, TypeInv, SyncTypeOK
<1> QED
  BY <1>1, <1>3, <1>4, <1>5, <1>6, <1>7, Typed, TypedStep

LEMMA FinishTyped ==
    ASSUME TypeInv, RefInv', NEW s \in Session, Finish(s) PROVE TypeInv'
<1>1. PICK r \in SessionRow :
         /\ Become(s, r, FALSE)
         /\ Keeps(session[s], r, {"pc"})
         /\ session[s].pc \in {"vanished", "finish"} /\ r.pc = "close"
         /\ runs' = [runs EXCEPT ![s] = _final_status(r)]
  BY FinishIs
<1>2. Working(r, artifacts)
  BY <1>1, Typed DEF Working, Paging, Passing, Keeps, SessionFields
<1>3. _final_status(r) \in SyncRunStatus
  BY DEF _final_status, SyncRunStatus
<1>4. runs' \in [Session -> SyncRunStatus \cup {NULL}]
  BY <1>1, <1>3, RunsTyped
<1>5. UNCHANGED <<providerVars, credentialVars, artifacts, faults, clicks, torn, blind>>
  BY DEF Finish
<1> QED
  BY <1>1, <1>2, <1>4, <1>5, Typed, RowStep DEF credentialVars

-----------------------------------------------------------------------------
(* The world, and the theorem. *)

LEMMA ChangeTyped ==
    ASSUME TypeInv, NEW i \in Item, NEW row \in RemoteRow, Change(i, row)
    PROVE  /\ remote' \in [Item -> RemoteRow] /\ changes' \in 0 .. MaxChanges
           /\ now' \in 0 .. MaxTime
BY ProviderAssumption DEF Change, TypeInv, SyncTypeOK

LEMMA AccountTyped ==
    ASSUME TypeInv, RefInv', Account PROVE TypeInv'
<1>1. PICK i \in Item : \/ Edit(source.kind, i) \/ Move(source.kind, i)
                        \/ Arrive(source.kind, i) \/ Withdraw(i)
  BY DEF Account
<1>2. remote[i] \in RemoteRow /\ now \in 0 .. MaxTime
  BY DEF TypeInv, SyncTypeOK
<1>3. \E row \in RemoteRow : Change(i, row)
  <2>1. CASE Edit(source.kind, i)
    BY <1>2, <2>1 DEF Edit, RemoteRow
  <2>2. CASE Move(source.kind, i)
    BY <1>2, <2>2 DEF Move, RemoteRow
  <2>3. CASE Arrive(source.kind, i)
    BY <1>2, <2>3 DEF Arrive, RemoteRow
  <2>4. CASE Withdraw(i)
    BY <1>2, <2>4 DEF Withdraw, RemoteRow
  <2> QED
    BY <1>1, <2>1, <2>2, <2>3, <2>4
<1>4. /\ remote' \in [Item -> RemoteRow] /\ changes' \in 0 .. MaxChanges
      /\ now' \in 0 .. MaxTime
  BY <1>3, ChangeTyped
<1>5. /\ UNCHANGED <<credentialVars, artifacts, runs, faults, clicks, torn, blind>>
      /\ session' = [s \in Session |-> [session[s] EXCEPT !.quiet = FALSE]]
  BY DEF Account
<1>6. ASSUME NEW s \in Session
      PROVE  session'[s] \in SessionRow /\ Working(session'[s], artifacts')
  <2> DEFINE old == session[s]
             r == [old EXCEPT !.quiet = FALSE]
  <2>1. session'[s] = r /\ old \in SessionRow /\ Working(old, artifacts)
    BY <1>5, Typed
  <2> HIDE DEF old
  <2>2. r \in SessionRow /\ Keeps(old, r, {"quiet"}) /\ r.quiet = FALSE
    BY <2>1 DEF SessionRow, Keeps, SessionFields
  <2> HIDE DEF r
  <2>3. Working(r, artifacts)
    BY <2>1, <2>2 DEF Working, Fresh, Paging, Keeps, SessionFields
  <2> QED
    BY <1>5, <2>1, <2>2, <2>3
<1>7. session' \in [Session -> SessionRow]
  BY <1>5, <1>6
<1>8. SyncTypeOK'
  BY <1>4, <1>5, <1>7 DEF TypeInv, SyncTypeOK, credentialVars
<1> QED
  BY <1>6, <1>8 DEF TypeInv

LEMMA WorldTyped ==
    ASSUME TypeInv, RefInv', Withdrawn \/ Tick \/ UNCHANGED vars
    PROVE  TypeInv'
<1>1. UNCHANGED syncVars
  BY DEF Withdrawn, Tick, vars
<1>2. /\ artifacts' = artifacts /\ session' = session /\ faults' = faults
      /\ clicks' = clicks /\ torn' = torn /\ blind' = blind /\ runs' = runs
  BY <1>1 DEF syncVars
<1>3. SyncTypeOK'
  <2>1. CASE Withdrawn
    <3>1. PICK ref \in CredentialRef : Revoke(ref)
      BY <2>1 DEF Withdrawn
    <3>2. changes' \in 0 .. MaxChanges /\ revoked' \subseteq 1 .. issued
      BY <3>1, ProviderAssumption, CredentialAssumption
      DEF Revoke, CredentialRef, TypeInv, SyncTypeOK
    <3>3. UNCHANGED <<source, secrets, issued, remote, now>>
      BY <3>1 DEF Revoke
    <3> QED
      BY <1>2, <3>2, <3>3 DEF TypeInv, SyncTypeOK
  <2>2. CASE Tick
    BY <1>2, <2>2, ProviderAssumption DEF Tick, TypeInv, SyncTypeOK, credentialVars
  <2>3. CASE UNCHANGED vars
    BY <1>2, <2>3 DEF vars, providerVars, credentialVars, TypeInv, SyncTypeOK
  <2> QED
    BY <2>1, <2>2, <2>3
<1> QED
  BY <1>2, <1>3 DEF TypeInv

LEMMA TypeInitInv == Init => TypeInv
<1> SUFFICES ASSUME Init PROVE TypeInv
  OBVIOUS
<1>1. /\ artifacts = [i \in Item |-> NULL] /\ runs = [s \in Session |-> NULL]
      /\ session = [s \in Session |-> Idle] /\ faults = 0 /\ clicks = 0
      /\ torn = FALSE /\ blind = FALSE
  BY DEF Init
<1>2. remote \in [Item -> RemoteRow] /\ now = 0 /\ changes = 0
  BY DEF Init, ProviderInit
<1>3. source \in Source /\ secrets = {} /\ issued = 0 /\ revoked = {}
  <2>1. PICK kind \in SourceKind : source = InsertedSource(kind)
    BY SyncAssumption DEF Init, CredentialsInit
  <2> QED
    BY <2>1 DEF Init, CredentialsInit, InsertedSource, Source, SourceHealthStatus
<1>4. SyncTypeOK
  <2>1. /\ now \in 0 .. MaxTime /\ changes \in 0 .. MaxChanges /\ issued \in 0 .. MaxConnects
        /\ faults \in 0 .. MaxFaults /\ clicks \in 0 .. MaxClicks
    BY <1>1, <1>2, <1>3, ProviderAssumption, CredentialAssumption, SyncAssumption
  <2>2. secrets \subseteq 1 .. issued /\ revoked \subseteq 1 .. issued
    BY <1>3
  <2>3. session \in [Session -> SessionRow]
    BY <1>1, IdleTyped
  <2> QED
    BY <1>1, <1>2, <1>3, <2>1, <2>2, <2>3 DEF SyncTypeOK
<1> QED
  BY <1>1, <1>4, IdleTyped, RefInitInv DEF TypeInv

LEMMA TypeNextInv == TypeInv /\ [Next]_vars => TypeInv'
<1> SUFFICES ASSUME TypeInv, [Next]_vars PROVE TypeInv'
  OBVIOUS
<1>1. RefInv'
  BY RefNextInv DEF TypeInv
<1>2. ASSUME NEW s \in Session, User(s) PROVE TypeInv'
  <2>1. CASE ConnectDrive(s) \/ ConnectGmail(s) \/ ConnectCalendar(s) \/ ConnectFathom(s)
    BY <1>1, <2>1, BeginTyped DEF ConnectDrive, ConnectGmail, ConnectCalendar, ConnectFathom
  <2>2. CASE \/ SaveFolder(s) \/ SaveLabelQuery(s) \/ SaveCalendarRules(s)
             \/ SaveFathomRules(s) \/ ToggleEnabled(s)
    BY <1>1, <2>2, SettingTyped
    DEF SaveFolder, SaveLabelQuery, SaveCalendarRules, SaveFathomRules, SourceKind
  <2>3. CASE PreviewDrive(s) \/ PreviewGmail(s) \/ PreviewCalendar(s) \/ PreviewFathom(s)
    BY <1>1, <2>3, BeginTyped DEF PreviewDrive, PreviewGmail, PreviewCalendar, PreviewFathom
  <2>4. CASE PressDisconnect(s)
    BY <1>1, <2>4, CredentialTyped
  <2>5. CASE StartSync(s)
    <3>1. source.last_success_at \in (0 .. MaxTime) \cup {NULL}
      BY Typed DEF Source
    <3> QED
      BY <1>1, <2>5, <3>1, BeginTyped
      DEF StartSync, sync_drive_project, sync_gmail_project, sync_calendar_project,
          sync_fathom_project, _gmail_since_date, _fathom_created_after
  <2> QED
    BY <1>2, <2>1, <2>2, <2>3, <2>4, <2>5 DEF User
<1>3. ASSUME NEW s \in Session, Work(s) PROVE TypeInv'
  BY <1>1, <1>3, CredentialTyped, EndTyped, ConstructTyped, ValidatedTyped, DiscoverTyped,
     ProcessArtifactTyped, StoreArtifactTyped, AdvanceCursorTyped, CheckVanishedTyped,
     FinishTyped
  DEF Work
<1>4. ASSUME NEW s \in Session, Failure(s) PROVE TypeInv'
  BY <1>1, <1>4, EndTyped, DiscoverFailedTyped DEF Failure
<1> QED
  BY <1>1, <1>2, <1>3, <1>4, AccountTyped, WorldTyped DEF Next

\* Every variable keeps its type: what is discovered in a pass never exceeds the items of
\* its pages, an artifact stored is never lost, and a reference in the row was issued.
THEOREM SyncTyped == Spec => []SyncTypeOK
<1>1. TypeInv => SyncTypeOK
  BY DEF TypeInv
<1> QED
  BY <1>1, TypeInitInv, TypeNextInv, PTL DEF Spec

-----------------------------------------------------------------------------
(* Undisturbed passes. *)

\* But for a meeting, whose marker may come back, bytes known under marker key are of an
\* older version, or they are what the account holds.
Honest(i, key, bytes) ==
    source.kind # "fathom" =>
        /\ key <= remote[i].marker
        /\ key = remote[i].marker => bytes = remote[i].bytes

Contents ==
    \A i \in Item : artifacts[i] # NULL =>
        /\ \A c \in artifacts[i].contents : Honest(i, c.version_key, c.bytes)
        /\ artifacts[i].current # NULL => artifacts[i].current \in artifacts[i].contents

Due(r, i) == Wanted(i, r.boundary) /\ InWindow(source.kind, r.since, i)

InHand(r, i) ==
    /\ r.pc = "store" /\ r.raw.item = i
    /\ r.raw.version_key = remote[i].marker /\ r.raw.bytes = remote[i].bytes

\* What is due on the pages done is imported, on this one listed, in hand or imported.
Importing(r) ==
    LET page == PageNumber(r.checkpoint)
    IN  \A i \in Item : Due(r, i) =>
           /\ r.pc \in {"discover", "artifact", "store"} /\ remote[i].page < page
                  => Imported(i)
           /\ r.pc \in {"artifact", "store"} /\ remote[i].page = page
                  => metadata(i) \in r.todo \/ InHand(r, i) \/ Imported(i)
           /\ r.pc \in {"vanished", "finish", "close"} /\ r.checkpoint = NULL
                  => Imported(i)

\* What the boundary holds on the pages listed was seen.
Seeing(r) ==
    LET page == PageNumber(r.checkpoint)
    IN  \A i \in Item : Wanted(i, r.boundary) =>
           /\ r.pc \in {"discover", "artifact", "store"} /\ remote[i].page < page
                  => i \in r.seen
           /\ r.pc \in {"artifact", "store"} /\ remote[i].page = page => i \in r.seen
           /\ r.pc = "vanished" /\ r.complete => i \notin r.known

\* A pass from the root stays in the boundary it began with.
Rooted(r) ==
    /\ r.pc = "validate" => r.checkpoint = NULL
    /\ r.pc \in {"discover", "artifact", "store"} /\ r.checkpoint # NULL
          => r.checkpoint.boundary = r.boundary
    /\ r.pc \in {"artifact", "store"} /\ r.next # NULL => r.next.boundary = r.boundary

Pass(r) ==
    /\ r.pc = "vanished" => r.root /\ HasCheckAvailability(source.kind)
    /\ r.pc = "discover" /\ r.complete => r.checkpoint # NULL
    /\ r.root => Rooted(r)
    /\ \A m \in r.todo : Honest(m.item, m.marker, m.bytes)
    /\ r.pc = "store" => Honest(r.raw.item, r.raw.version_key, r.raw.bytes)
    /\ r.quiet =>
          /\ \A m \in r.todo : m = metadata(m.item)
          /\ r.pc = "store" => /\ InHand(r, r.raw.item)
                               /\ artifacts[r.raw.item].current = r.raw.was
          /\ r.root /\ r.failed = 0 => Importing(r)
          /\ r.root /\ HasCheckAvailability(source.kind) => Seeing(r)

Closing(s) == At(s, "close") /\ runs[s] = "completed" => session[s].failed = 0

PassInv ==
    /\ Contents
    /\ \A s \in Session : Pass(session[s]) /\ Closing(s)

LEMMA PassFresh ==
    ASSUME NEW r, r.pc \notin Passing, Fresh(r),
           r.pc = "validate" /\ r.root => r.checkpoint = NULL
    PROVE  Pass(r)'
BY DEF Pass, Rooted, Passing, Fresh

\* What a pass is judged by.
LEMMA SameView ==
    ASSUME UNCHANGED remote, source'.kind = source.kind
    PROVE  /\ \A i, k, b : Honest(i, k, b)' <=> Honest(i, k, b)
           /\ \A i, b : Wanted(i, b)' <=> Wanted(i, b)
           /\ \A i : metadata(i)' = metadata(i)
           /\ \A r, i : Due(r, i)' <=> Due(r, i)
           /\ \A r, i : InHand(r, i)' <=> InHand(r, i)
           /\ HasCheckAvailability(source.kind)' <=> HasCheckAvailability(source.kind)
           /\ \A i : artifacts'[i] = artifacts[i] => (Imported(i)' <=> Imported(i))
BY DEF Honest, Wanted, Matches, metadata, Due, InWindow, InHand, HasCheckAvailability, Imported

\* A row passes as one that has the same but for its quiet, when that is lost or what it
\* is judged by is the same.
LEMMA SamePass ==
    ASSUME UNCHANGED remote, source'.kind = source.kind,
           NEW old \in SessionRow, NEW r \in SessionRow, Pass(old), Keeps(old, r, {"quiet"}),
           r.quiet => old.quiet /\ UNCHANGED artifacts
    PROVE  Pass(r)'
<1>1. /\ r.pc = old.pc /\ r.complete = old.complete /\ r.checkpoint = old.checkpoint
      /\ r.root = old.root /\ r.todo = old.todo /\ r.raw = old.raw /\ r.next = old.next
      /\ r.failed = old.failed /\ r.seen = old.seen /\ r.known = old.known
      /\ r.boundary = old.boundary /\ r.since = old.since
  BY DEF Keeps, SessionFields
<1>2. \A i : (Due(r, i) <=> Due(old, i)) /\ (InHand(r, i) <=> InHand(old, i))
  BY <1>1 DEF Due, InHand
<1>3. Rooted(r)' <=> Rooted(old)
  BY <1>1 DEF Rooted
<1>4. UNCHANGED artifacts => (Importing(r)' <=> Importing(old))
  BY <1>1, <1>2, SameView DEF Importing
<1>5. Seeing(r)' <=> Seeing(old)
  BY <1>1, SameView DEF Seeing
<1>6. InHand(r, r.raw.item)' <=> InHand(old, old.raw.item)
  BY <1>1, <1>2, SameView
<1> QED
  BY <1>1, <1>3, <1>4, <1>5, <1>6, SameView DEF Pass

LEMMA PassStep ==
    ASSUME TypeInv, TypeInv', PassInv, NEW s \in Session, NEW r \in SessionRow,
           NEW d \in BOOLEAN, Become(s, r, d),
           UNCHANGED remote, source'.kind = source.kind,
           d \/ UNCHANGED artifacts,
           \A t \in Session \ {s} : runs'[t] = runs[t],
           Contents', Pass(r)', Closing(s)'
    PROVE  PassInv'
<1>1. ASSUME NEW t \in Session \ {s} PROVE Pass(session[t])' /\ Closing(t)'
  <2> DEFINE old == session[t]
             quiet == old.quiet /\ ~d
  <2>1. session'[t] = [old EXCEPT !.quiet = quiet]
    BY Zenon DEF Become
  <2>2. old \in SessionRow /\ Pass(old) /\ Closing(t)
    BY Typed DEF PassInv
  <2>3. quiet \in BOOLEAN /\ (quiet => old.quiet /\ UNCHANGED artifacts)
    OBVIOUS
  <2> HIDE DEF old, quiet
  <2> DEFINE row == [old EXCEPT !.quiet = quiet]
  <2>4. row \in SessionRow /\ Keeps(old, row, {"quiet"}) /\ row.quiet = quiet
    BY <2>2, <2>3 DEF SessionRow, Keeps, SessionFields
  <2> HIDE DEF row
  <2>5. PICK q \in SessionRow : q = row
    BY <2>4
  <2>6. Pass(q)'
    BY <2>2, <2>3, <2>4, <2>5, SamePass
  <2>7. session'[t].pc = old.pc /\ session'[t].failed = old.failed
    BY <2>1, <2>4 DEF row, Keeps, SessionFields
  <2>8. Closing(t)'
    BY <2>2, <2>7 DEF Closing, At, old
  <2>9. session'[t] = q
    BY <2>1, <2>5 DEF row
  <2>10. Pass(session[t])'
    BY <2>6, <2>9
  <2> QED
    BY <2>8, <2>10
<1>2. session'[s] = r
  BY DEF Become
<1> QED
  BY <1>1, <1>2 DEF PassInv

LEMMA SameContents ==
    ASSUME Contents, UNCHANGED <<remote, artifacts>>, source'.kind = source.kind
    PROVE  Contents'
BY SameView DEF Contents

\* A step outside a pass.
LEMMA FreshStep ==
    ASSUME TypeInv, TypeInv', PassInv, NEW s \in Session, NEW r, Become(s, r, FALSE),
           UNCHANGED <<remote, artifacts>>, source'.kind = source.kind,
           \A t \in Session \ {s} : runs'[t] = runs[t],
           r.pc \notin Passing, r.pc = "validate" /\ r.root => r.checkpoint = NULL
    PROVE  PassInv'
<1>1. session'[s] = r
  BY DEF Become
<1>2. session'[s] \in SessionRow /\ Working(session'[s], artifacts')
  BY DEF TypeInv, SyncTypeOK
<1>3. r \in SessionRow /\ Fresh(r)
  BY <1>1, <1>2 DEF Working
<1>4. Pass(r)'
  BY <1>3, PassFresh
<1>5. Closing(s)'
  BY <1>1 DEF Closing, At, Passing
<1>6. Contents'
  BY SameContents DEF PassInv
<1> QED
  BY <1>3, <1>4, <1>5, <1>6, PassStep

\* The repositories never write the kind.
LEMMA KindUpdates ==
    ASSUME source \in Source
    PROVE  /\ \A h : update_health(source, h).kind = source.kind
           /\ \A b : update_boundary(source, b).kind = source.kind
           /\ \A e : set_enabled(source, e).kind = source.kind
           /\ \A c : update_last_cursor(source, c).kind = source.kind
           /\ \A t, h : update_health(update_last_success(source, t), h).kind = source.kind
           /\ \A c, h : update_health([source EXCEPT !.credential_ref = c], h).kind
                           = source.kind
           /\ \A c, e, h : update_health(set_enabled([source EXCEPT !.credential_ref = c], e),
                                         h).kind = source.kind
BY DEF Source, update_health, update_boundary, set_enabled, update_last_cursor,
       update_last_success

LEMMA BeginPasses ==
    ASSUME TypeInv, TypeInv', PassInv, NEW s \in Session, NEW kind, NEW since,
           AskConsent(s, kind) \/ BeginSync(s, kind, since) \/ BeginPreview(s, kind)
    PROVE  PassInv'
<1> DEFINE a == [session[s] EXCEPT !.pc = "authorize"]
           b == [Idle EXCEPT !.pc = "credential", !.syncing = TRUE,
                             !.boundary = source.boundary, !.since = since]
           c == [Idle EXCEPT !.pc = "credential"]
<1>1. \E r \in {a, b, c} : Become(s, r, FALSE)
  BY DEF AskConsent, BeginSync, BeginPreview, Goto
<1>2. UNCHANGED <<providerVars, credentialVars, artifacts, runs>>
  BY DEF AskConsent, BeginSync, BeginPreview
<1>3. \A r \in {a, b, c} : r.pc \in {"authorize", "credential"}
  BY Typed DEF SessionRow, Idle
<1> HIDE DEF a, b, c
<1> QED
  BY <1>1, <1>2, <1>3, FreshStep DEF credentialVars, providerVars, Passing

LEMMA SettingPasses ==
    ASSUME TypeInv, PassInv, NEW s \in Session,
           ToggleEnabled(s) \/ \E kind \in SourceKind : SaveBoundary(s, kind)
    PROVE  PassInv'
<1>1. UNCHANGED <<remote, artifacts, runs, session>>
  BY DEF ToggleEnabled, SaveBoundary, providerVars
<1>2. source'.kind = source.kind
  BY Typed, KindUpdates DEF ToggleEnabled, SaveBoundary
<1>3. Contents'
  BY <1>1, <1>2, SameContents DEF PassInv
<1>4. ASSUME NEW t \in Session PROVE Pass(session[t])' /\ Closing(t)'
  <2>1. PICK q \in SessionRow : q = session[t]
    BY Typed
  <2>2. Pass(q)'
    BY <1>1, <1>2, <2>1, SamePass DEF PassInv, Keeps
  <2> QED
    BY <1>1, <2>1, <2>2 DEF PassInv, Closing, At
<1> QED
  BY <1>3, <1>4 DEF PassInv

LEMMA EndPasses ==
    ASSUME TypeInv, TypeInv', PassInv, NEW s \in Session,
           \/ NoCredential(s) \/ TokenRefused(s) \/ NotRunnable(s) \/ Close(s)
           \/ NotAuthorized(s) \/ ValidateFailed(s) \/ Interrupt(s)
    PROVE  PassInv'
<1>1. Become(s, Idle, FALSE) /\ UNCHANGED <<remote, artifacts>>
  BY DEF NoCredential, TokenRefused, NotRunnable, Close, NotAuthorized, ValidateFailed,
         Interrupt, providerVars, Stop
<1>2. \A t \in Session \ {s} : runs'[t] = runs[t]
  <2>1. FailedRun(s) \/ UNCHANGED runs
    BY DEF NoCredential, TokenRefused, NotRunnable, Close, NotAuthorized, ValidateFailed,
           Interrupt
  <2> QED
    BY <2>1, Typed DEF FailedRun
<1>3. source'.kind = source.kind
  <2>1. CASE NoCredential(s) \/ TokenRefused(s) \/ ValidateFailed(s)
    BY <2>1, Typed, KindUpdates
    DEF NoCredential, TokenRefused, ValidateFailed, RequireReauth, credentialVars
  <2>2. CASE NotRunnable(s) \/ NotAuthorized(s) \/ Interrupt(s)
    BY <2>2 DEF NotRunnable, NotAuthorized, Interrupt, credentialVars
  <2>3. CASE Close(s)
    BY <2>3, Typed, KindUpdates DEF Close
  <2> QED
    BY <2>1, <2>2, <2>3
<1> QED
  BY <1>1, <1>2, <1>3, IdleIs, FreshStep DEF Passing

LEMMA CredentialPasses ==
    ASSUME TypeInv, TypeInv', PassInv, NEW s \in Session,
           \/ Authorized(s) \/ Connected(s) \/ PressDisconnect(s) \/ Disconnected(s)
           \/ ReadCredential(s) \/ TokenMinted(s)
    PROVE  PassInv'
<1>1. UNCHANGED <<remote, artifacts, runs>>
  BY DEF Authorized, Connected, PressDisconnect, Disconnected, ReadCredential, TokenMinted,
         providerVars
<1>2. source'.kind = source.kind
  <2>1. CASE Connected(s)
    BY <2>1, Typed, KindUpdates DEF Connected, PointAtSecret
  <2>2. CASE Disconnected(s)
    BY <2>2, Typed DEF Disconnected, ForgetSecret, update_health, set_enabled, Source
  <2>3. CASE TokenMinted(s)
    BY <2>3, Typed, KindUpdates DEF TokenMinted, KeepToken
  <2>4. CASE Authorized(s) \/ PressDisconnect(s) \/ ReadCredential(s)
    BY <2>4
    DEF Authorized, PressDisconnect, ReadCredential, StoreSecret, DeleteSecret, credentialVars
  <2> QED
    BY <2>1, <2>2, <2>3, <2>4
<1>3. \E r : /\ Become(s, r, FALSE)
             /\ r.pc \in {"connecting", "disconnecting", "exchange", "construct", "idle"}
  <2>1. CASE Connected(s) \/ Disconnected(s)
    BY <2>1, IdleIs DEF Connected, Disconnected, Stop
  <2>2. CASE Authorized(s)
    <3> DEFINE r == [session[s] EXCEPT !.pc = "connecting", !.ref = issued + 1]
    <3>1. Become(s, r, FALSE) /\ r.pc = "connecting"
      BY <2>2, Typed DEF Authorized, SessionRow
    <3> QED
      BY <3>1
  <2>3. CASE PressDisconnect(s) \/ TokenMinted(s)
    <3>1. PICK pc \in {"disconnecting", "construct", "idle"} :
             Become(s, [session[s] EXCEPT !.pc = pc], FALSE)
      BY <2>3 DEF PressDisconnect, TokenMinted, Goto, AfterMint
    <3>2. [session[s] EXCEPT !.pc = pc].pc = pc
      BY Typed DEF SessionRow
    <3> QED
      BY <3>1, <3>2
  <2>4. CASE ReadCredential(s)
    <3>1. PICK pc \in {"exchange", "construct", "idle"} :
             Become(s, [session[s] EXCEPT !.ref = source.credential_ref, !.pc = pc], FALSE)
      BY <2>4, Zenon DEF ReadCredential, AfterMint
    <3>2. [session[s] EXCEPT !.ref = source.credential_ref, !.pc = pc].pc = pc
      BY Typed DEF SessionRow
    <3> QED
      BY <3>1, <3>2
  <2> QED
    BY <2>1, <2>2, <2>3, <2>4
<1> QED
  BY <1>1, <1>2, <1>3, FreshStep DEF Passing

LEMMA ConstructPasses ==
    ASSUME TypeInv, TypeInv', PassInv, NEW s \in Session, Construct(s) PROVE PassInv'
<1>1. PICK r \in SessionRow :
         /\ Become(s, r, FALSE) /\ r.pc = "validate"
         /\ r.checkpoint = source.last_cursor /\ (r.root <=> source.last_cursor = NULL)
  BY ConstructIs
<1>2. UNCHANGED <<remote, source, artifacts, runs>>
  BY DEF Construct, providerVars, credentialVars
<1> QED
  BY <1>1, <1>2, FreshStep DEF Passing

LEMMA ValidatedPasses ==
    ASSUME TypeInv, TypeInv', PassInv, NEW s \in Session, Validated(s) PROVE PassInv'
<1> DEFINE old == session[s]
<1>1. PICK r \in SessionRow :
         /\ Become(s, r, TRUE)
         /\ Keeps(old, r, {"pc", "running", "quiet"})
         /\ old.pc = "validate" /\ r.pc = "discover"
  BY ValidatedIs
<1>2. /\ UNCHANGED <<remote, artifacts>>
      /\ source'.kind = source.kind /\ \A t \in Session \ {s} : runs'[t] = runs[t]
  BY Typed, KindUpdates DEF Validated, providerVars
<1>3. /\ r.todo = {} /\ ~r.complete /\ r.root = old.root /\ r.checkpoint = old.checkpoint
      /\ r.root => r.checkpoint = NULL
  BY <1>1, Typed
  DEF PassInv, Pass, Rooted, Working, Passing, Fresh, Keeps, SessionFields
<1>4. r.checkpoint = NULL => \A i \in Item : ~(remote'[i].page < PageNumber(r.checkpoint))
  BY <1>2, Typed DEF PageNumber, RemoteRow, Page
<1>5. r.root => Rooted(r)' /\ Importing(r)' /\ Seeing(r)'
  BY <1>1, <1>3, <1>4 DEF Rooted, Importing, Seeing
<1>6. Pass(r)'
  BY <1>1, <1>3, <1>5 DEF Pass
<1>7. session'[s] = r
  BY <1>1 DEF Become
<1> QED
  BY <1>1, <1>2, <1>6, <1>7, SameContents, PassStep DEF PassInv, Closing, At

\* A page shows everything of it that is due, as it is.
LEMMA ListingIs ==
    ASSUME TypeInv, NEW kind \in SourceKind, NEW b, NEW since, NEW c
    PROVE  LET page == DiscoveredArtifacts(kind, b, since, c)
           IN  /\ \A m \in page : m.item \in Item /\ m = metadata(m.item)
               /\ \A i \in Item :
                     (/\ Wanted(i, b) /\ InWindow(kind, since, i)
                      /\ remote[i].page = PageNumber(c)
                      /\ kind = "drive" /\ c # NULL => c.boundary = b)
                         => metadata(i) \in page
<1> DEFINE listed == CASE kind = "drive"    -> DriveListing(b, c)
                       [] kind = "gmail"    -> GmailListing(b, since, c)
                       [] kind = "calendar" -> CalendarListing(b, c)
                       [] kind = "fathom"   -> FathomListing(b, since, c)
<1>1. DiscoveredArtifacts(kind, b, since, c) = {metadata(i) : i \in listed}
  BY Zenon DEF DiscoveredArtifacts
<1>2. listed \subseteq Item
  BY DEF DriveListing, GmailListing, CalendarListing, FathomListing, OnPage, Live, SourceKind
<1>3. ASSUME NEW i \in Item, Wanted(i, b), InWindow(kind, since, i),
             remote[i].page = PageNumber(c),
             kind = "drive" /\ c # NULL => c.boundary = b
      PROVE  i \in listed
  BY <1>3 DEF DriveListing, GmailListing, CalendarListing, FathomListing, OnPage, Live, Scope,
              Wanted, Matches, InWindow, SourceKind
<1>4. \A i : metadata(i).item = i
  BY DEF metadata
<1> HIDE DEF listed
<1> QED
  BY <1>1, <1>2, <1>3, <1>4

LEMMA DiscoverPasses ==
    ASSUME TypeInv, TypeInv', PassInv, NEW s \in Session, Discover(s) PROVE PassInv'
<1> DEFINE old == session[s]
           kind == source.kind
           page == DiscoveredArtifacts(kind, old.boundary, old.since, old.checkpoint)
<1>1. PICK r \in SessionRow :
         /\ Become(s, r, FALSE)
         /\ Keeps(old, r, {"pc", "pages", "todo", "next", "seen", "discovered",
                                "complete"})
         /\ old.pc = "discover" /\ r.pc = "artifact" /\ r.todo = page
         /\ r.next = next_checkpoint(kind, old.boundary, old.checkpoint)
         /\ r.seen = old.seen \cup {m.item : m \in page}
  BY DiscoverIs
<1>2. UNCHANGED <<remote, source, artifacts, runs>>
  BY DEF Discover, providerVars, credentialVars
<1>3. /\ r.root = old.root /\ r.checkpoint = old.checkpoint /\ r.boundary = old.boundary
      /\ r.since = old.since /\ r.quiet = old.quiet /\ r.failed = old.failed
  BY <1>1 DEF Keeps, SessionFields
<1>4. Pass(old) /\ kind \in SourceKind
  BY Typed DEF PassInv, Source
<1>5. \A m \in page : m.item \in Item /\ m = metadata(m.item)
  BY <1>4, ListingIs
<1>6. ASSUME NEW m \in r.todo PROVE m = metadata(m.item) /\ Honest(m.item, m.marker, m.bytes)
  <2>1. m.item \in Item /\ m = metadata(m.item)
    BY <1>1, <1>5
  <2>2. metadata(m.item).marker = remote[m.item].marker
           /\ metadata(m.item).bytes = remote[m.item].bytes
    BY DEF metadata
  <2>3. remote[m.item].marker \in Nat
    BY <2>1, Typed, ProviderAssumption DEF RemoteRow
  <2> QED
    BY <2>1, <2>2, <2>3 DEF Honest
<1>7. ASSUME old.root
      PROVE  /\ old.checkpoint # NULL => old.checkpoint.boundary = old.boundary
             /\ r.next # NULL => r.next.boundary = old.boundary
  BY <1>1, <1>4, <1>7 DEF Pass, Rooted, next_checkpoint, Scope
<1>8. old.root => Rooted(r)
  BY <1>1, <1>3, <1>7 DEF Rooted
<1>9. ASSUME old.quiet, old.root, old.failed = 0 PROVE Importing(r)
  <2>1. Importing(old)
    BY <1>4, <1>9 DEF Pass
  <2>2. ASSUME NEW i \in Item, Due(r, i)
        PROVE  /\ remote[i].page < PageNumber(r.checkpoint) => Imported(i)
               /\ remote[i].page = PageNumber(r.checkpoint) => metadata(i) \in r.todo
    <3>1. Due(old, i)
      BY <1>3, <2>2 DEF Due
    <3>2. remote[i].page = PageNumber(old.checkpoint) => metadata(i) \in page
      BY <1>4, <1>7, <1>9, <3>1, ListingIs DEF Due
    <3> QED
      BY <1>1, <1>3, <2>1, <3>1, <3>2 DEF Importing
  <2> QED
    BY <1>1, <2>2 DEF Importing
<1>10. ASSUME old.quiet, old.root, HasCheckAvailability(kind) PROVE Seeing(r)
  <2>1. Seeing(old)
    BY <1>4, <1>10 DEF Pass
  <2>2. ASSUME NEW i \in Item, Wanted(i, r.boundary)
        PROVE  /\ remote[i].page < PageNumber(r.checkpoint) => i \in r.seen
               /\ remote[i].page = PageNumber(r.checkpoint) => i \in r.seen
    <3>1. InWindow(kind, old.since, i)
      BY <1>10 DEF InWindow, HasCheckAvailability
    <3>2. remote[i].page = PageNumber(old.checkpoint) => metadata(i) \in page
      BY <1>3, <1>4, <1>7, <1>10, <2>2, <3>1, ListingIs
    <3>3. metadata(i).item = i
      BY DEF metadata
    <3> QED
      BY <1>1, <1>3, <2>1, <2>2, <3>2, <3>3 DEF Seeing
  <2> QED
    BY <1>1, <2>2 DEF Seeing
<1>11. Pass(r)
  BY <1>1, <1>3, <1>6, <1>8, <1>9, <1>10 DEF Pass
<1>12. Pass(r)'
  BY <1>2, <1>11, SamePass DEF Keeps
<1>13. session'[s] = r
  BY <1>1 DEF Become
<1> QED
  BY <1>1, <1>2, <1>12, <1>13, SameContents, PassStep DEF PassInv, Closing, At

LEMMA FinishPasses ==
    ASSUME TypeInv, TypeInv', PassInv, NEW s \in Session, Finish(s) PROVE PassInv'
<1> DEFINE old == session[s]
<1>1. PICK r \in SessionRow :
         /\ Become(s, r, FALSE)
         /\ Keeps(old, r, {"pc"})
         /\ old.pc \in {"vanished", "finish"} /\ r.pc = "close"
         /\ runs' = [runs EXCEPT ![s] = _final_status(r)]
  BY FinishIs
<1>2. UNCHANGED <<remote, source, artifacts>>
  BY DEF Finish, providerVars, credentialVars
<1>3. /\ r.root = old.root /\ r.checkpoint = old.checkpoint /\ r.boundary = old.boundary
      /\ r.since = old.since /\ r.quiet = old.quiet /\ r.failed = old.failed
      /\ r.todo = old.todo
  BY <1>1 DEF Keeps, SessionFields
<1>4. Pass(old)
  BY DEF PassInv
<1>5. Importing(old) => Importing(r)
  BY <1>1, <1>3 DEF Importing, Due
<1>6. Seeing(r) /\ Rooted(r)
  BY <1>1 DEF Seeing, Rooted
<1>7. Pass(r)
  BY <1>1, <1>3, <1>4, <1>5, <1>6 DEF Pass
<1>8. Pass(r)'
  BY <1>2, <1>7, SamePass DEF Keeps
<1>9. session'[s] = r /\ runs'[s] = _final_status(r)
  BY <1>1, Typed DEF Become
<1>10. Closing(s)'
  BY <1>9 DEF Closing, _final_status
<1>11. \A t \in Session \ {s} : runs'[t] = runs[t]
  BY <1>1, Typed
<1> QED
  BY <1>1, <1>2, <1>8, <1>10, <1>11, SameContents, PassStep DEF PassInv

\* A row that leaves the loop.
LEMMA AfterLoopPasses ==
    ASSUME TypeInv, NEW r \in SessionRow,
           \A m \in r.todo : Honest(m.item, m.marker, m.bytes),
           r.quiet => \A m \in r.todo : m = metadata(m.item),
           r.quiet /\ r.root /\ r.failed = 0 /\ r.checkpoint = NULL =>
              \A i \in Item : Due(r, i) => Imported(i),
           r.quiet /\ r.root /\ r.checkpoint = NULL /\ r.complete
              /\ HasCheckAvailability(source.kind) =>
              \A i \in Item : Wanted(i, r.boundary) => i \in r.seen
    PROVE  Pass(AfterLoop(r))
<1> DEFINE after == AfterLoop(r)
<1>1. /\ Keeps(r, after, {"pc", "known"})
      /\ \/ /\ r.root /\ r.checkpoint = NULL /\ HasCheckAvailability(source.kind)
            /\ after.pc = "vanished" /\ \A i \in after.known : i \notin r.seen
         \/ after.pc = "finish" /\ after.known = r.known
  BY AfterLoopRow
<1> HIDE DEF after
<1>2. /\ after.root = r.root /\ after.checkpoint = r.checkpoint /\ after.seen = r.seen
      /\ after.boundary = r.boundary /\ after.since = r.since /\ after.quiet = r.quiet
      /\ after.failed = r.failed /\ after.todo = r.todo /\ after.complete = r.complete
  BY <1>1 DEF Keeps, SessionFields
<1>3. r.quiet /\ r.root /\ r.failed = 0 => Importing(after)
  BY <1>1, <1>2 DEF Importing, Due
<1>4. r.quiet /\ r.root /\ HasCheckAvailability(source.kind) => Seeing(after)
  BY <1>1, <1>2 DEF Seeing
<1>5. Rooted(after)
  BY <1>1 DEF Rooted
<1>6. Pass(after)
  BY <1>1, <1>2, <1>3, <1>4, <1>5 DEF Pass
<1> QED
  BY <1>6 DEF after

LEMMA DiscoverFailedPasses ==
    ASSUME TypeInv, TypeInv', PassInv, NEW s \in Session, DiscoverFailed(s) PROVE PassInv'
<1> DEFINE old == session[s]
<1>1. PICK r \in SessionRow :
         /\ Become(s, AfterLoop(r), FALSE)
         /\ Keeps(old, r, {"pages", "failed"}) /\ old.pc = "discover"
         /\ r.failed = old.failed + 1
  BY DiscoverFailedIs
<1>2. UNCHANGED <<remote, source, artifacts, runs>>
  BY DEF DiscoverFailed, providerVars, credentialVars
<1>3. /\ r.todo = old.todo /\ r.quiet = old.quiet /\ r.complete = old.complete
      /\ r.checkpoint = old.checkpoint /\ r.failed # 0
  BY <1>1, Typed DEF Keeps, SessionFields, SessionRow
<1>4. Pass(old)
  BY DEF PassInv
<1>5. Pass(AfterLoop(r))
  BY <1>1, <1>3, <1>4, AfterLoopPasses DEF Pass
<1>6. \A i \in r.known : artifacts[i] # NULL
  BY <1>1, Typed DEF Working, Passing, Keeps, SessionFields
<1>7. PICK q \in SessionRow : q = AfterLoop(r)
  BY <1>6, AfterLoopTyped
<1>8. Pass(q)'
  BY <1>2, <1>5, <1>7, SamePass DEF Keeps
<1>9. session'[s] = q /\ q.pc \in {"vanished", "finish"}
  BY <1>1, <1>7, AfterLoopRow DEF Become
<1> QED
  BY <1>1, <1>2, <1>7, <1>8, <1>9, SameContents, PassStep DEF PassInv, Closing, At

LEMMA AdvanceCursorPasses ==
    ASSUME TypeInv, TypeInv', PassInv, NEW s \in Session, AdvanceCursor(s) PROVE PassInv'
<1> DEFINE old == session[s]
           page == PageNumber(old.checkpoint)
<1>1. PICK r \in SessionRow :
         /\ Keeps(old, r, {"checkpoint", "next", "pc"})
         /\ old.pc = "artifact" /\ old.todo = {} /\ r.checkpoint = old.next
         /\ source' = update_last_cursor(source, r.checkpoint)
         /\ \/ (r.checkpoint = NULL \/ blind') /\ Become(s, AfterLoop(r), FALSE)
            \/ r.checkpoint # NULL /\ r.pc = "discover" /\ Become(s, r, FALSE)
  BY AdvanceCursorIs
<1>2. /\ UNCHANGED <<remote, artifacts, runs>>
      /\ source'.kind = source.kind
  BY <1>1, Typed, KindUpdates DEF AdvanceCursor, providerVars
<1>3. /\ r.root = old.root /\ r.boundary = old.boundary /\ r.since = old.since
      /\ r.quiet = old.quiet /\ r.failed = old.failed /\ r.seen = old.seen
      /\ r.todo = {} /\ r.known = old.known
  BY <1>1 DEF Keeps, SessionFields
<1>4. Pass(old) /\ old \in SessionRow /\ page \in Page
  BY Typed, PageNumberIs DEF PassInv, SessionRow
<1>5. IF page = LastPage THEN r.checkpoint = NULL
      ELSE r.checkpoint # NULL /\ r.checkpoint.page = page + 1
  BY <1>1, Typed DEF Working, Paging
<1>6. \A i \in Item : remote[i].page \in Page
  BY Typed DEF RemoteRow
<1>7. ASSUME r.quiet, r.root, r.failed = 0, NEW i \in Item, Due(r, i), remote[i].page <= page
      PROVE  Imported(i)
  <2>1. Importing(old) /\ Due(old, i)
    BY <1>3, <1>4, <1>7 DEF Pass, Due
  <2>2. remote[i].page < page \/ remote[i].page = page
    BY <1>4, <1>6, <1>7 DEF Page
  <2> QED
    BY <1>1, <2>1, <2>2 DEF Importing, InHand
<1>8. ASSUME r.quiet, r.root, HasCheckAvailability(source.kind),
             NEW i \in Item, Wanted(i, r.boundary), remote[i].page <= page
      PROVE  i \in r.seen
  <2>1. Seeing(old) /\ Wanted(i, old.boundary)
    BY <1>3, <1>4, <1>8 DEF Pass
  <2>2. remote[i].page < page \/ remote[i].page = page
    BY <1>4, <1>6, <1>8 DEF Page
  <2> QED
    BY <1>1, <1>3, <2>1, <2>2 DEF Seeing
<1>9. Contents'
  BY <1>2, SameContents DEF PassInv
<1>10. CASE Become(s, AfterLoop(r), FALSE)
  <2>1. r.checkpoint = NULL => \A i \in Item : remote[i].page <= page
    BY <1>5, <1>6 DEF Page
  <2>2. Pass(AfterLoop(r))
    BY <1>3, <1>7, <1>8, <2>1, AfterLoopPasses
  <2>3. \A i \in r.known : artifacts[i] # NULL
    BY <1>1, <1>3, Typed DEF Working, Passing
  <2>4. PICK q \in SessionRow : q = AfterLoop(r)
    BY <2>3, AfterLoopTyped
  <2>5. Pass(q)'
    BY <1>2, <2>2, <2>4, SamePass DEF Keeps
  <2>6. session'[s] = q /\ q.pc \in {"vanished", "finish"}
    BY <1>1, <1>10, <2>4, AfterLoopRow DEF Become
  <2> QED
    BY <1>1, <1>2, <1>9, <1>10, <2>4, <2>5, <2>6, PassStep DEF Closing, At
<1>11. CASE r.checkpoint # NULL /\ r.pc = "discover" /\ Become(s, r, FALSE)
  <2>1. PageNumber(r.checkpoint) = page + 1
    BY <1>5, <1>11 DEF PageNumber
  <2>2. \A i \in Item : remote[i].page < PageNumber(r.checkpoint) => remote[i].page <= page
    BY <1>4, <1>6, <2>1 DEF Page
  <2>3. r.quiet /\ r.root /\ r.failed = 0 => Importing(r)
    BY <1>1, <1>7, <1>11, <2>2 DEF Importing
  <2>4. r.quiet /\ r.root /\ HasCheckAvailability(source.kind) => Seeing(r)
    BY <1>1, <1>8, <1>11, <2>2 DEF Seeing
  <2>5. r.root => Rooted(r)
    BY <1>1, <1>3, <1>4, <1>11 DEF Pass, Rooted
  <2>6. Pass(r)
    BY <1>1, <1>3, <1>11, <2>3, <2>4, <2>5 DEF Pass
  <2>7. Pass(r)'
    BY <1>2, <2>6, SamePass DEF Keeps
  <2>8. session'[s] = r
    BY <1>1, <1>11 DEF Become
  <2> QED
    BY <1>1, <1>2, <1>9, <1>11, <2>7, <2>8, PassStep DEF Closing, At
<1> QED
  BY <1>1, <1>10, <1>11

LEMMA MetadataIs ==
    ASSUME NEW i
    PROVE  /\ metadata(i).item = i
           /\ metadata(i).marker = remote[i].marker
           /\ metadata(i).bytes = remote[i].bytes
           /\ metadata(i).is_trashed => remote[i].state = "trashed"
BY DEF metadata

\* What is recorded of an artifact before the fetch takes nothing from it.
LEMMA RecordedIs ==
    ASSUME TypeInv, NEW m \in ArtifactMetadata, Recorded(m, GetOrCreate(m.item)),
           UNCHANGED remote, source'.kind = source.kind, Contents
    PROVE  /\ \A i \in Item : Imported(i) => Imported(i)'
           /\ artifacts'[m.item] # NULL
           /\ artifacts'[m.item].current = GetOrCreate(m.item).current
           /\ Contents'
<1> DEFINE a == GetOrCreate(m.item)
<1>1. PICK b \in ArtifactRow :
         /\ artifacts' = [artifacts EXCEPT ![m.item] = b]
         /\ b.contents = a.contents /\ b.current = a.current
  BY DEF Recorded
<1>2. m.item \in Item /\ artifacts \in [Item -> ArtifactRow \cup {NULL}]
  BY DEF ArtifactMetadata, TypeInv, SyncTypeOK
<1>3. /\ artifacts'[m.item] = b /\ b # NULL
      /\ \A i \in Item \ {m.item} : artifacts'[i] = artifacts[i]
  BY <1>1, <1>2, NullAssumption
<1>4. IF artifacts[m.item] # NULL THEN a = artifacts[m.item]
      ELSE a.contents = {} /\ a.current = NULL
  BY DEF GetOrCreate
<1> HIDE DEF a
<1>5. ASSUME NEW i \in Item, Imported(i) PROVE Imported(i)'
  <2>1. CASE i # m.item
    BY <1>3, <1>5, <2>1, SameView
  <2>2. CASE i = m.item
    BY <1>1, <1>3, <1>4, <1>5, <2>2 DEF Imported
  <2> QED
    BY <2>1, <2>2
<1>6. ASSUME NEW i \in Item, artifacts'[i] # NULL
      PROVE  /\ \A c \in artifacts'[i].contents : Honest(i, c.version_key, c.bytes)
             /\ artifacts'[i].current # NULL => artifacts'[i].current \in artifacts'[i].contents
  <2>1. CASE artifacts[i] # NULL
    <3>1. artifacts'[i].contents = artifacts[i].contents
             /\ artifacts'[i].current = artifacts[i].current
      BY <1>1, <1>3, <1>4, <2>1
    <3> QED
      BY <2>1, <3>1 DEF Contents
  <2>2. CASE artifacts[i] = NULL
    BY <1>1, <1>3, <1>4, <1>6, <2>2
  <2> QED
    BY <2>1, <2>2
<1>7. Contents'
  BY <1>6, SameView DEF Contents
<1> QED
  BY <1>1, <1>3, <1>5, <1>7 DEF a

LEMMA ProcessArtifactPasses ==
    ASSUME TypeInv, TypeInv', PassInv, NEW s \in Session, ProcessArtifact(s) PROVE PassInv'
<1> DEFINE old == session[s]
<1>1. PICK m \in old.todo, r \in SessionRow :
         /\ Become(s, r, artifacts' # artifacts)
         /\ old.pc = "artifact"
         /\ Processed(old, r, m, GetOrCreate(m.item))
         /\ Recorded(m, GetOrCreate(m.item))
  BY ProcessArtifactIs
<1> DEFINE a == GetOrCreate(m.item)
<1>2. m \in ArtifactMetadata /\ m.item \in Item
  BY Typed DEF SessionRow, ArtifactMetadata
<1>3. UNCHANGED <<remote, source, runs>>
  BY DEF ProcessArtifact, providerVars, credentialVars
<1>4. /\ \A i \in Item : Imported(i) => Imported(i)'
      /\ artifacts'[m.item] # NULL /\ artifacts'[m.item].current = a.current
      /\ Contents'
  BY <1>1, <1>2, <1>3, RecordedIs DEF PassInv
<1>5. /\ r.root = old.root /\ r.boundary = old.boundary /\ r.since = old.since
      /\ r.quiet = old.quiet /\ r.seen = old.seen /\ r.checkpoint = old.checkpoint
      /\ r.next = old.next /\ r.todo = old.todo \ {m} /\ r.pc \in {"artifact", "store"}
  BY <1>1 DEF Processed, Keeps, SessionFields
<1>6. r.pc = "store" => /\ r.raw.item = m.item /\ r.raw.version_key = m.marker
                        /\ r.raw.bytes = fetch(source.kind, m) /\ r.raw.was = a.current
  BY <1>1 DEF Processed
<1>7. Pass(old) /\ Contents
  BY DEF PassInv
<1>8. ASSUME r.pc = "store" PROVE Honest(r.raw.item, r.raw.version_key, r.raw.bytes)
  BY <1>6, <1>7, <1>8 DEF Pass, Honest, fetch
<1>9. r.root => Rooted(r)
  BY <1>1, <1>5, <1>7 DEF Pass, Rooted
<1>10. Seeing(old) => Seeing(r)
  BY <1>1, <1>5 DEF Seeing
<1>11. ASSUME r.quiet, r.pc = "store" PROVE InHand(r, m.item)
  <2>1. m = metadata(m.item)
    BY <1>5, <1>7, <1>11 DEF Pass
  <2>2. m.marker = remote[m.item].marker /\ m.bytes = remote[m.item].bytes
    BY <2>1, MetadataIs
  <2> QED
    BY <1>6, <1>11, <2>2 DEF InHand, fetch
<1>12. ASSUME r.quiet, r.root, r.failed = 0 PROVE Importing(r)'
  <2>1. old.failed = 0 /\ r.failed = old.failed
    BY <1>1, <1>12, Typed DEF Processed, SessionRow
  <2>2. Importing(old) /\ m = metadata(m.item)
    BY <1>5, <1>7, <1>12, <2>1 DEF Pass
  <2>3. ASSUME Wanted(m.item, old.boundary)
        PROVE  InHand(r, m.item) \/ Imported(m.item)'
    <3>1. ~m.is_trashed /\ m.marker = remote[m.item].marker /\ m.bytes = remote[m.item].bytes
      BY <2>2, <2>3, MetadataIs DEF Wanted, Matches
    <3>2. CASE r.pc = "store"
      BY <1>11, <1>12, <3>2
    <3>3. CASE r.pc # "store"
      <4>1. is_unchanged(a, m)
        BY <1>1, <2>1, <3>1, <3>3, Typed DEF Processed, SessionRow
      <4>2. a = artifacts[m.item] /\ artifacts[m.item] # NULL
               /\ a.current # NULL /\ a.current.version_key = m.marker
        BY <4>1 DEF is_unchanged, GetOrCreate
      <4>3. Imported(m.item)
        BY <1>2, <1>7, <3>1, <4>2 DEF Contents, Honest, Imported
      <4> QED
        BY <1>2, <1>4, <4>3
    <3> QED
      BY <3>2, <3>3
  <2>4. ASSUME NEW i \in Item, Due(r, i)
        PROVE  /\ remote[i].page < PageNumber(r.checkpoint) => Imported(i)'
               /\ remote[i].page = PageNumber(r.checkpoint)
                     => metadata(i) \in r.todo \/ InHand(r, i) \/ Imported(i)'
    <3>1. Due(old, i) /\ Wanted(i, old.boundary)
      BY <1>5, <2>4 DEF Due
    <3>2. CASE metadata(i) = m
      <4>1. i = m.item
        BY <3>2 DEF metadata
      <4> QED
        BY <1>1, <1>4, <1>5, <2>2, <2>3, <3>1, <4>1 DEF Importing
    <3>3. CASE metadata(i) # m
      BY <1>1, <1>4, <1>5, <2>2, <3>1, <3>3 DEF Importing, InHand
    <3> QED
      BY <3>2, <3>3
  <2> QED
    BY <1>3, <1>5, <2>4, SameView DEF Importing
<1>13. Pass(r)'
  <2>1. r.todo \subseteq old.todo
    BY <1>5
  <2>2. Rooted(r)' <=> Rooted(r)
    BY DEF Rooted
  <2>3. Seeing(r)' <=> Seeing(r)
    BY <1>3, SameView DEF Seeing
  <2> QED
    BY <1>3, <1>4, <1>5, <1>6, <1>7, <1>8, <1>9, <1>10, <1>11, <1>12, <2>1, <2>2, <2>3,
       SameView
    DEF Pass
<1>14. session'[s] = r
  BY <1>1 DEF Become
<1>15. Closing(s)'
  BY <1>5, <1>14 DEF Closing, At
<1>16. PICK d \in BOOLEAN : Become(s, r, d) /\ (d \/ UNCHANGED artifacts)
  BY <1>1
<1> QED
  BY <1>3, <1>4, <1>13, <1>15, <1>16, PassStep

LEMMA StoreArtifactPasses ==
    ASSUME TypeInv, TypeInv', PassInv, NEW s \in Session, StoreArtifact(s) PROVE PassInv'
<1> DEFINE old == session[s]
           raw == old.raw
           i == raw.item
           a == artifacts[i]
           b == Stored(a, raw)
           new == [version_key |-> raw.version_key, bytes |-> raw.bytes]
<1>1. PICK r \in SessionRow, d \in BOOLEAN :
         /\ Become(s, r, d)
         /\ Keeps(old, r, {"pc", "raw", "failed"})
         /\ old.pc = "store" /\ r.pc = "artifact" /\ raw \in Raw /\ a \in ArtifactRow
         /\ \/ artifacts' = [artifacts EXCEPT ![i] = b] /\ d /\ r.failed = old.failed
            \/ UNCHANGED artifacts /\ r.failed = old.failed + 1
  BY StoreArtifactIs
<1>2. UNCHANGED <<remote, source, runs>>
  BY DEF StoreArtifact, providerVars, credentialVars
<1>3. /\ b \in ArtifactRow /\ b.contents \in {a.contents, a.contents \cup {new}}
      /\ \/ b = a /\ raw.was \in a.contents /\ raw.was.bytes = raw.bytes
         \/ b.current \in b.contents /\ b.current.bytes = raw.bytes
  BY <1>1, StoredIs
<1>4. i \in Item /\ artifacts \in [Item -> ArtifactRow \cup {NULL}]
  BY <1>1, Typed DEF Raw
<1>5. /\ r.root = old.root /\ r.boundary = old.boundary /\ r.since = old.since
      /\ r.quiet = old.quiet /\ r.seen = old.seen /\ r.checkpoint = old.checkpoint
      /\ r.next = old.next /\ r.todo = old.todo
  BY <1>1 DEF Keeps, SessionFields
<1>6. Pass(old) /\ Contents /\ Honest(i, raw.version_key, raw.bytes)
  BY <1>1 DEF PassInv, Pass
<1>7. b.current # NULL => b.current \in b.contents
  BY <1>1, <1>3, <1>4, <1>6, NullAssumption DEF Contents
<1>8. ASSUME NEW c \in b.contents PROVE Honest(i, c.version_key, c.bytes)
  <2>1. c \in a.contents \/ c = new
    BY <1>3
  <2>2. c \in a.contents => Honest(i, c.version_key, c.bytes)
    BY <1>1, <1>4, <1>6, NullAssumption DEF Contents
  <2>3. new.version_key = raw.version_key /\ new.bytes = raw.bytes
    OBVIOUS
  <2> QED
    BY <1>6, <2>1, <2>2, <2>3
<1>9. Contents'
  <2>1. CASE UNCHANGED artifacts
    BY <1>2, <1>6, <2>1, SameContents
  <2>2. CASE artifacts' = [artifacts EXCEPT ![i] = b]
    <3>1. artifacts'[i] = b /\ \A j \in Item \ {i} : artifacts'[j] = artifacts[j]
      BY <1>4, <2>2
    <3>2. ASSUME NEW j \in Item, artifacts'[j] # NULL
          PROVE  /\ \A c \in artifacts'[j].contents : Honest(j, c.version_key, c.bytes)
                 /\ artifacts'[j].current # NULL
                       => artifacts'[j].current \in artifacts'[j].contents
      <4>1. CASE j = i
        BY <1>7, <1>8, <3>1, <4>1
      <4>2. CASE j # i
        BY <1>6, <3>1, <3>2, <4>2 DEF Contents
      <4> QED
        BY <4>1, <4>2
    <3> QED
      BY <1>2, <3>2, SameView DEF Contents
  <2> QED
    BY <1>1, <2>1, <2>2
<1> HIDE DEF b
<1>10. ASSUME r.quiet, r.root, r.failed = 0 PROVE Importing(r)'
  <2>1. artifacts' = [artifacts EXCEPT ![i] = b] /\ r.failed = old.failed
    BY <1>1, <1>10, Typed DEF SessionRow
  <2>2. Importing(old) /\ a.current = raw.was
    BY <1>1, <1>5, <1>6, <1>10, <2>1 DEF Pass
  <2>3. artifacts'[i] = b /\ b # NULL /\ \A j \in Item \ {i} : artifacts'[j] = artifacts[j]
    BY <1>3, <1>4, <2>1, NullAssumption
  <2>4. b.current # NULL /\ b.current.bytes = raw.bytes
    <3>1. b.current \in b.contents => b.current \in Content
      BY <1>3 DEF ArtifactRow
    <3>2. raw.was \in a.contents => raw.was \in Content
      BY <1>1 DEF ArtifactRow
    <3> QED
      BY <1>3, <2>2, <3>1, <3>2, NullAssumption
  <2>5. ASSUME NEW j \in Item, j = i PROVE Imported(j)'
    <3>1. raw.bytes = remote[i].bytes
      BY <1>1, <1>5, <1>6, <1>10 DEF Pass, InHand
    <3> QED
      BY <1>2, <2>3, <2>4, <2>5, <3>1 DEF Imported
  <2>6. ASSUME NEW j \in Item, Due(r, j)
        PROVE  /\ remote[j].page < PageNumber(r.checkpoint) => Imported(j)'
               /\ remote[j].page = PageNumber(r.checkpoint)
                     => metadata(j) \in r.todo \/ Imported(j)'
    <3>1. CASE j = i
      BY <2>5, <3>1
    <3>2. CASE j # i
      <4>1. Due(old, j) /\ ~InHand(old, j)
        BY <1>5, <2>6, <3>2 DEF Due, InHand
      <4>2. Imported(j) => Imported(j)'
        BY <1>2, <2>3, <3>2, SameView
      <4> QED
        BY <1>1, <1>5, <2>2, <4>1, <4>2 DEF Importing
    <3> QED
      BY <3>1, <3>2
  <2> QED
    BY <1>1, <1>2, <1>5, <2>6, SameView DEF Importing
<1>11. Seeing(old) => Seeing(r)
  BY <1>1, <1>5 DEF Seeing
<1>12. r.root => Rooted(r)
  BY <1>1, <1>5, <1>6 DEF Pass, Rooted
<1>13. Pass(r)'
  <2>1. Rooted(r)' <=> Rooted(r)
    BY DEF Rooted
  <2>2. Seeing(r)' <=> Seeing(r)
    BY <1>2, SameView DEF Seeing
  <2> QED
    BY <1>1, <1>2, <1>5, <1>6, <1>10, <1>11, <1>12, <2>1, <2>2, SameView DEF Pass
<1>14. session'[s] = r
  BY <1>1 DEF Become
<1>15. Closing(s)'
  BY <1>1, <1>14 DEF Closing, At
<1> QED
  BY <1>1, <1>2, <1>9, <1>13, <1>15, PassStep

LEMMA CheckVanishedPasses ==
    ASSUME TypeInv, TypeInv', PassInv, NEW s \in Session, CheckVanished(s) PROVE PassInv'
<1> DEFINE old == session[s]
<1>1. PICK r \in SessionRow, i \in old.known, d \in BOOLEAN :
         /\ Become(s, r, d)
         /\ Keeps(old, r, {"known", "failed"})
         /\ old.pc = "vanished" /\ r.known = old.known \ {i}
         /\ r.failed \in {old.failed, old.failed + 1}
         /\ \/ UNCHANGED artifacts
            \/ \E answer \in ArtifactAvailability :
                  /\ d
                  /\ artifacts' = [artifacts EXCEPT ![i].availability = answer]
  BY CheckVanishedIs
<1>2. UNCHANGED <<remote, source, runs>>
  BY DEF CheckVanished, providerVars, credentialVars
<1>3. /\ r.root = old.root /\ r.boundary = old.boundary /\ r.since = old.since
      /\ r.quiet = old.quiet /\ r.complete = old.complete /\ r.pc = old.pc
      /\ r.todo = old.todo /\ r.checkpoint = old.checkpoint
  BY <1>1 DEF Keeps, SessionFields
<1>4. Pass(old) /\ Contents
  BY DEF PassInv
<1>5. i \in Item /\ artifacts[i] \in ArtifactRow /\ artifacts \in [Item -> ArtifactRow \cup {NULL}]
  <2>1. i \in Item /\ artifacts[i] # NULL
    BY Typed DEF SessionRow, Working
  <2> QED
    BY <2>1, Typed
<1>6. ASSUME NEW j \in Item
      PROVE  /\ artifacts'[j] # NULL <=> artifacts[j] # NULL
             /\ artifacts[j] # NULL => /\ artifacts'[j].contents = artifacts[j].contents
                                       /\ artifacts'[j].current = artifacts[j].current
  <2>1. CASE UNCHANGED artifacts
    BY <2>1
  <2>2. ASSUME NEW answer \in ArtifactAvailability,
               artifacts' = [artifacts EXCEPT ![i].availability = answer]
        PROVE  /\ artifacts'[j] # NULL <=> artifacts[j] # NULL
               /\ artifacts[j] # NULL => /\ artifacts'[j].contents = artifacts[j].contents
                                         /\ artifacts'[j].current = artifacts[j].current
    <3> DEFINE b == [artifacts[i] EXCEPT !.availability = answer]
    <3>1. artifacts' = [artifacts EXCEPT ![i] = b]
      BY <2>2
    <3>2. /\ b \in ArtifactRow /\ b.contents = artifacts[i].contents
          /\ b.current = artifacts[i].current
      BY <1>5 DEF ArtifactRow
    <3> HIDE DEF b
    <3> QED
      BY <1>5, <3>1, <3>2, NullAssumption
  <2> QED
    BY <1>1, <2>1, <2>2
<1>7. Contents'
  BY <1>2, <1>4, <1>6, SameView DEF Contents
<1>8. \A j \in Item : Imported(j)' <=> Imported(j)
  BY <1>2, <1>6 DEF Imported
<1>9. Seeing(old) => Seeing(r)'
  BY <1>1, <1>2, <1>3, SameView DEF Seeing
<1>10. Importing(old) => Importing(r)'
  <2>1. \A j : Due(r, j)' => Due(old, j)
    BY <1>2, <1>3, SameView DEF Due
  <2> QED
    BY <1>1, <1>3, <1>8, <2>1 DEF Importing
<1>11. r.failed = 0 => old.failed = 0
  BY <1>1, Typed DEF SessionRow
<1>12. Rooted(r)'
  BY <1>1, <1>3 DEF Rooted
<1>13. Pass(r)'
  BY <1>1, <1>2, <1>3, <1>4, <1>9, <1>10, <1>11, <1>12, SameView DEF Pass
<1>14. session'[s] = r
  BY <1>1 DEF Become
<1>15. Closing(s)'
  BY <1>1, <1>3, <1>14 DEF Closing, At
<1> QED
  BY <1>1, <1>2, <1>7, <1>13, <1>15, PassStep

\* A change of the account disturbs every pass, and no marker but a meeting's comes back.
LEMMA AccountPasses ==
    ASSUME TypeInv, TypeInv', PassInv, Account PROVE PassInv'
<1>1. /\ UNCHANGED <<source, artifacts, runs>>
      /\ session' = [s \in Session |-> [session[s] EXCEPT !.quiet = FALSE]]
  BY DEF Account, credentialVars
<1>2. PICK i \in Item : \/ Edit(source.kind, i) \/ Move(source.kind, i)
                        \/ Arrive(source.kind, i) \/ Withdraw(i)
  BY DEF Account
<1>3. remote \in [Item -> RemoteRow]
  BY Typed DEF TypeInv, SyncTypeOK
<1>4. ASSUME source.kind # "fathom", NEW j \in Item
      PROVE  \/ remote'[j].marker > remote[j].marker
             \/ /\ remote'[j].marker = remote[j].marker
                /\ remote'[j].bytes = remote[j].bytes
  <2>1. CASE Edit(source.kind, i)
    BY <1>3, <1>4, <2>1 DEF Edit, Change, RemoteRow
  <2>2. CASE Move(source.kind, i)
    BY <1>3, <2>2 DEF Move, Change, RemoteRow
  <2>3. CASE Arrive(source.kind, i)
    BY <1>3, <2>3 DEF Arrive, Change, RemoteRow
  <2>4. CASE Withdraw(i)
    BY <1>3, <2>4 DEF Withdraw, Change, RemoteRow
  <2> QED
    BY <1>2, <2>1, <2>2, <2>3, <2>4
<1>5. ASSUME NEW j \in Item, NEW k \in Nat, NEW b, Honest(j, k, b) PROVE Honest(j, k, b)'
  <2>1. remote[j].marker \in Nat /\ remote'[j].marker \in Nat
    BY ProviderAssumption DEF TypeInv, SyncTypeOK, RemoteRow
  <2> QED
    BY <1>1, <1>4, <1>5, <2>1 DEF Honest
<1>6. Contents'
  <2>1. \A j \in Item : artifacts[j] # NULL =>
           \A c \in artifacts[j].contents : c.version_key \in Nat
    BY ProviderAssumption DEF TypeInv, SyncTypeOK, ArtifactRow, Content
  <2> QED
    BY <1>1, <1>5, <2>1 DEF PassInv, Contents
<1>7. ASSUME NEW s \in Session PROVE Pass(session[s])' /\ Closing(s)'
  <2> DEFINE old == session[s]
             row == [old EXCEPT !.quiet = FALSE]
  <2>1. session'[s] = row /\ old \in SessionRow /\ Pass(old) /\ Closing(s)
    BY <1>1, Typed DEF PassInv
  <2>2. old.pc = "store" => old.raw \in Raw
    BY Typed DEF Working
  <2> HIDE DEF old
  <2>3. row \in SessionRow /\ Keeps(old, row, {"quiet"}) /\ row.quiet = FALSE
    BY <2>1 DEF SessionRow, Keeps, SessionFields
  <2> HIDE DEF row
  <2>4. PICK r \in SessionRow : r = row
    BY <2>3
  <2>5. /\ ~r.quiet /\ r.pc = old.pc /\ r.complete = old.complete /\ r.root = old.root
        /\ r.checkpoint = old.checkpoint /\ r.boundary = old.boundary /\ r.next = old.next
        /\ r.todo = old.todo /\ r.raw = old.raw /\ r.failed = old.failed
    BY <2>3, <2>4 DEF Keeps, SessionFields
  <2>6. Rooted(r)' <=> Rooted(old)
    BY <2>5 DEF Rooted
  <2>7. \A m \in r.todo : Honest(m.item, m.marker, m.bytes)'
    <3>1. \A m \in r.todo : m.item \in Item /\ m.marker \in Nat
      BY ProviderAssumption DEF SessionRow, ArtifactMetadata
    <3> QED
      BY <1>5, <2>1, <2>5, <3>1 DEF Pass
  <2>8. r.pc = "store" => Honest(r.raw.item, r.raw.version_key, r.raw.bytes)'
    <3>1. r.pc = "store" => r.raw.item \in Item /\ r.raw.version_key \in Nat
      BY <2>2, <2>5, ProviderAssumption DEF Raw
    <3> QED
      BY <1>5, <2>1, <2>5, <3>1 DEF Pass
  <2>9. Pass(r)'
    BY <1>1, <2>1, <2>5, <2>6, <2>7, <2>8 DEF Pass
  <2>10. Closing(s)'
    BY <1>1, <2>1, <2>4, <2>5 DEF Closing, At, old
  <2> QED
    BY <2>1, <2>4, <2>9, <2>10
<1> QED
  BY <1>6, <1>7 DEF PassInv

LEMMA WorldPasses ==
    ASSUME TypeInv, PassInv, Withdrawn \/ Tick \/ UNCHANGED vars
    PROVE  PassInv'
<1>1. UNCHANGED <<remote, source, artifacts, runs, session>>
  <2>1. CASE Withdrawn
    BY <2>1 DEF Withdrawn, Revoke, syncVars
  <2>2. CASE Tick
    BY <2>2 DEF Tick, syncVars, credentialVars
  <2>3. CASE UNCHANGED vars
    BY <2>3 DEF vars, syncVars, credentialVars, providerVars
  <2> QED
    BY <2>1, <2>2, <2>3
<1>2. Contents'
  BY <1>1, SameContents DEF PassInv
<1>3. ASSUME NEW t \in Session PROVE Pass(session[t])' /\ Closing(t)'
  <2>1. PICK q \in SessionRow : q = session[t]
    BY Typed
  <2>2. Pass(q)'
    BY <1>1, <2>1, SamePass DEF PassInv, Keeps
  <2> QED
    BY <1>1, <2>1, <2>2 DEF PassInv, Closing, At
<1> QED
  BY <1>2, <1>3 DEF PassInv

LEMMA PassInitInv == Init => PassInv
<1> SUFFICES ASSUME Init PROVE PassInv
  OBVIOUS
<1>1. /\ artifacts = [i \in Item |-> NULL]
      /\ session = [s \in Session |-> Idle]
  BY DEF Init
<1>2. Contents
  BY <1>1 DEF Contents
<1>3. Pass(Idle)
  BY DEF Idle, Pass, Rooted
<1> QED
  BY <1>1, <1>2, <1>3, IdleIs DEF PassInv, Closing, At

LEMMA PassNextInv == TypeInv /\ PassInv /\ [Next]_vars => PassInv'
<1> SUFFICES ASSUME TypeInv, PassInv, [Next]_vars PROVE PassInv'
  OBVIOUS
<1>1. TypeInv'
  BY TypeNextInv
<1>2. ASSUME NEW s \in Session, User(s) PROVE PassInv'
  <2>1. CASE ConnectDrive(s) \/ ConnectGmail(s) \/ ConnectCalendar(s) \/ ConnectFathom(s)
    BY <1>1, <2>1, BeginPasses DEF ConnectDrive, ConnectGmail, ConnectCalendar, ConnectFathom
  <2>2. CASE \/ SaveFolder(s) \/ SaveLabelQuery(s) \/ SaveCalendarRules(s)
             \/ SaveFathomRules(s) \/ ToggleEnabled(s)
    BY <2>2, SettingPasses
    DEF SaveFolder, SaveLabelQuery, SaveCalendarRules, SaveFathomRules, SourceKind
  <2>3. CASE PreviewDrive(s) \/ PreviewGmail(s) \/ PreviewCalendar(s) \/ PreviewFathom(s)
    BY <1>1, <2>3, BeginPasses DEF PreviewDrive, PreviewGmail, PreviewCalendar, PreviewFathom
  <2>4. CASE PressDisconnect(s)
    BY <1>1, <2>4, CredentialPasses
  <2>5. CASE StartSync(s)
    BY <1>1, <2>5, BeginPasses
    DEF StartSync, sync_drive_project, sync_gmail_project, sync_calendar_project,
        sync_fathom_project
  <2> QED
    BY <1>2, <2>1, <2>2, <2>3, <2>4, <2>5 DEF User
<1>3. ASSUME NEW s \in Session, Work(s) PROVE PassInv'
  BY <1>1, <1>3, CredentialPasses, EndPasses, ConstructPasses, ValidatedPasses,
     DiscoverPasses, ProcessArtifactPasses, StoreArtifactPasses, AdvanceCursorPasses,
     CheckVanishedPasses, FinishPasses
  DEF Work
<1>4. ASSUME NEW s \in Session, Failure(s) PROVE PassInv'
  BY <1>1, <1>4, EndPasses, DiscoverFailedPasses DEF Failure
<1> QED
  BY <1>1, <1>2, <1>3, <1>4, AccountPasses, WorldPasses DEF Next

\* A run that began at the root, read the listing to its end, completed, and was alone
\* with an account that did not change has imported everything its boundary and its
\* watermark let it see.  (One that is cut at MaxPagesPerSync keeps a checkpoint.)
THEOREM CompletedImports == Spec => []CompletedRunImportedAll
<1>1. PassInv => CompletedRunImportedAll
  <2> SUFFICES ASSUME PassInv, NEW s \in Session, At(s, "close"), runs[s] = "completed",
                      session[s].root, session[s].checkpoint = NULL, session[s].quiet,
                      NEW i \in Item,
                      Wanted(i, session[s].boundary),
                      InWindow(source.kind, session[s].since, i)
               PROVE  Imported(i)
    BY DEF CompletedRunImportedAll
  <2>1. Pass(session[s]) /\ session[s].failed = 0
    BY DEF PassInv, Closing
  <2> QED
    BY <2>1 DEF Pass, Importing, Due, At
<1> QED
  BY <1>1, TypeInitInv, TypeNextInv, PassInitInv, PassNextInv, PTL DEF Spec

\* An undisturbed pass that saw a page marks as gone only what is not there.
THEOREM OnlyTheVanished == Spec => VanishedAreGone
<1> DEFINE Right == \A s \in Session, i \in Item :
                       (/\ session[s].quiet /\ session[s].complete
                        /\ CheckVanished(s)
                        /\ artifacts'[i] # artifacts[i]) => ~Wanted(i, session[s].boundary)
<1>1. TypeInv /\ PassInv => Right
  <2> SUFFICES ASSUME TypeInv, PassInv, NEW s \in Session, NEW i \in Item,
                      session[s].quiet, session[s].complete, CheckVanished(s),
                      artifacts'[i] # artifacts[i]
               PROVE  ~Wanted(i, session[s].boundary)
    OBVIOUS
  <2>1. PICK k \in session[s].known :
           \/ UNCHANGED artifacts
           \/ \E answer \in ArtifactAvailability :
                 artifacts' = [artifacts EXCEPT ![k].availability = answer]
    BY CheckVanishedIs
  <2>2. i = k
    BY <2>1, Typed
  <2>3. session[s].pc = "vanished"
    BY DEF CheckVanished, At
  <2>4. Pass(session[s])
    BY DEF PassInv
  <2> QED
    BY <2>2, <2>3, <2>4 DEF Pass, Seeing
<1>2. TypeInv /\ PassInv /\ [Next]_vars => [Right]_vars
  BY <1>1
<1> QED
  BY <1>2, TypeInitInv, TypeNextInv, PassInitInv, PassNextInv, PTL DEF Spec, VanishedAreGone

-----------------------------------------------------------------------------
(* The watermark. *)

Covered(i) == artifacts[i] # NULL /\ artifacts[i].current # NULL

Here(i) == source.boundary # NULL /\ Wanted(i, source.boundary)

\* There before the last tick, so before any pass that is under way began.
Old(i) == Here(i) /\ remote[i].dated < now

Looping == {"discover", "artifact", "store"}

\* The case the watermark is promised for.
Mild ==
    /\ source.kind \in {"gmail", "fathom"}
    /\ ~blind /\ faults = 0 /\ clicks <= 1 /\ changes <= 1

\* Before the watermark, and before the cursor, all is covered; the cursor stands on a
\* page only while some pass goes on.
Marks ==
    /\ changes = 0 => \A i \in Item : remote[i].state = "live"
    /\ clicks = 0 => source.boundary = NULL
    /\ source.boundary = NULL => source.last_success_at = NULL /\ source.last_cursor = NULL
    /\ source.last_success_at # NULL => source.last_success_at <= now
    /\ \A i \in Item :
          /\ Here(i) /\ source.last_success_at # NULL
                /\ remote[i].dated < source.last_success_at => Covered(i)
          /\ Old(i) /\ source.last_cursor # NULL
                /\ remote[i].page < source.last_cursor.page => Covered(i)
    /\ source.last_cursor # NULL => \E s \in Session : session[s].pc \in Looping

\* A pass covers the pages behind it, and has in hand what it is to cover of its own.
Water(r) ==
    LET page == PageNumber(r.checkpoint)
    IN  /\ r.boundary \in {NULL, source.boundary}
        /\ r.pc \in Passing => r.boundary # NULL
        /\ r.pc \in Passing \cup {"validate"} => source.boundary # NULL
        /\ r.since # NULL => source.boundary # NULL /\ r.since <= now
        /\ \A i \in Item :
              /\ Here(i) /\ r.since # NULL /\ remote[i].dated < r.since => Covered(i)
              /\ Old(i) =>
                    /\ r.pc \in Looping \cup {"validate"} /\ remote[i].page < page
                          => Covered(i)
                    /\ r.pc \in {"artifact", "store"} /\ remote[i].page = page
                          => \/ Covered(i)
                             \/ r.pc = "store" /\ r.raw.item = i
                             \/ \E m \in r.todo : m.item = i /\ ~m.is_trashed
                    /\ r.pc \in {"finish", "close"} => Covered(i)

\* What has a version has a current one.
Current ==
    \A i \in Item :
       artifacts[i] # NULL /\ artifacts[i].current = NULL => artifacts[i].contents = {}

WaterInv ==
    /\ Current
    /\ Mild => Marks /\ \A s \in Session : Water(session[s])

LEMMA SameWater ==
    ASSUME UNCHANGED <<remote, now>>, source'.boundary = source.boundary,
           \A i \in Item : Covered(i) => Covered(i)',
           NEW old \in SessionRow, NEW r \in SessionRow, Water(old), Keeps(old, r, {"quiet"})
    PROVE  Water(r)'
<1>1. /\ r.pc = old.pc /\ r.checkpoint = old.checkpoint /\ r.todo = old.todo
      /\ r.raw = old.raw /\ r.boundary = old.boundary /\ r.since = old.since
  BY DEF Keeps, SessionFields
<1>2. \A i : (Here(i)' <=> Here(i)) /\ (Old(i)' <=> Old(i))
  BY DEF Here, Old, Wanted, Matches
<1> QED
  BY <1>1, <1>2 DEF Water

LEMMA MarksStay ==
    ASSUME UNCHANGED <<remote, now, changes>>, source'.boundary = source.boundary,
           source'.last_success_at = source.last_success_at,
           source'.last_cursor = source.last_cursor,
           clicks \in Nat, clicks' \in Nat, clicks <= clicks',
           \A i \in Item : Covered(i) => Covered(i)',
           \A t \in Session : session[t].pc \in Looping => session'[t].pc \in Looping,
           Marks
    PROVE  Marks'
<1>1. \A i : (Here(i)' <=> Here(i)) /\ (Old(i)' <=> Old(i))
  BY DEF Here, Old, Wanted, Matches
<1>2. clicks' = 0 => clicks = 0
  OBVIOUS
<1> QED
  BY <1>1, <1>2 DEF Marks

LEMMA BecomePc ==
    ASSUME TypeInv, NEW s \in Session, NEW r, NEW d, Become(s, r, d)
    PROVE  session'[s] = r /\ \A t \in Session \ {s} : session'[t].pc = session[t].pc
<1>1. \A t \in Session \ {s} : session'[t] = [session[t] EXCEPT !.quiet = @ /\ ~d]
  BY DEF Become
<1>2. \A t \in Session \ {s} : session'[t].pc = session[t].pc
  BY <1>1, Typed DEF SessionRow
<1> QED
  BY <1>2 DEF Become

\* A step of session s that leaves the account alone.
LEMMA WaterStep ==
    ASSUME TypeInv, WaterInv, NEW s \in Session, NEW r \in SessionRow,
           NEW d \in BOOLEAN, Become(s, r, d),
           UNCHANGED <<remote, now, changes>>, source'.kind = source.kind,
           source'.boundary = source.boundary,
           faults' \in Nat, clicks' \in Nat, faults <= faults', clicks <= clicks',
           blind => blind', Current', \A i \in Item : Covered(i) => Covered(i)',
           Mild /\ Mild' => Marks' /\ Water(r)'
    PROVE  WaterInv'
<1>1. Mild' => Mild
  <2>1. faults \in Nat /\ clicks \in Nat
    BY Typed DEF TypeInv, SyncTypeOK
  <2> QED
    BY <2>1 DEF Mild
<1>2. ASSUME Mild', NEW t \in Session \ {s} PROVE Water(session[t])'
  <2> DEFINE old == session[t]
             quiet == old.quiet /\ ~d
  <2>1. session'[t] = [old EXCEPT !.quiet = quiet]
    BY Zenon DEF Become
  <2>2. old \in SessionRow /\ Water(old)
    BY <1>1, <1>2, Typed DEF WaterInv
  <2>3. quiet \in BOOLEAN
    OBVIOUS
  <2> HIDE DEF old, quiet
  <2> DEFINE row == [old EXCEPT !.quiet = quiet]
  <2>4. row \in SessionRow /\ Keeps(old, row, {"quiet"})
    BY <2>2, <2>3 DEF SessionRow, Keeps, SessionFields
  <2> HIDE DEF row
  <2>5. PICK q \in SessionRow : q = row
    BY <2>4
  <2>6. Water(q)'
    BY <2>2, <2>4, <2>5, SameWater
  <2>7. session'[t] = q
    BY <2>1, <2>5 DEF row
  <2> QED
    BY <2>6, <2>7
<1>3. session'[s] = r
  BY DEF Become
<1> QED
  BY <1>1, <1>2, <1>3 DEF WaterInv

\* What a source row src shares with the present one.
SameMarks(src) ==
    /\ src.kind = source.kind /\ src.boundary = source.boundary
    /\ src.last_cursor = source.last_cursor
    /\ src.last_success_at = source.last_success_at

LEMMA HealthMarks ==
    ASSUME source \in Source
    PROVE  /\ SameMarks(source)
           /\ \A h : SameMarks(update_health(source, h))
           /\ \A e : SameMarks(set_enabled(source, e))
           /\ \A c, h : SameMarks(update_health([source EXCEPT !.credential_ref = c], h))
           /\ \A h : SameMarks(update_health(set_enabled([source EXCEPT !.credential_ref = NULL],
                                                         FALSE), h))
BY DEF Source, SameMarks, update_health, set_enabled

LEMMA CountsTyped ==
    ASSUME TypeInv, TypeInv'
    PROVE  /\ {faults, faults', clicks, clicks', now, now', changes, changes'} \subseteq Nat
BY DEF TypeInv, SyncTypeOK

\* A step outside the loop of a pass.
LEMMA WaterOutside ==
    ASSUME TypeInv, TypeInv', WaterInv, NEW s \in Session, NEW r \in SessionRow,
           Become(s, r, FALSE),
           UNCHANGED <<remote, now, changes, artifacts>>, SameMarks(source'),
           faults <= faults', clicks <= clicks', blind => blind',
           session[s].pc \notin Looping,
           r.pc \notin Passing \cup {"validate"},
           r.boundary \in {NULL, source.boundary, session[s].boundary},
           r.since \in {NULL, session[s].since, source.last_success_at}
    PROVE  WaterInv'
<1>1. \A i \in Item : Covered(i)' <=> Covered(i)
  BY DEF Covered
<1>2. Current'
  BY DEF WaterInv, Current
<1>3. ASSUME Mild PROVE Marks' /\ Water(r)'
  <2>1. Marks /\ Water(session[s])
    BY <1>3 DEF WaterInv
  <2>2. \A t \in Session : session[t].pc \in Looping => session'[t].pc \in Looping
    BY BecomePc
  <2>3. Marks'
    BY <1>1, <2>1, <2>2, CountsTyped, MarksStay DEF SameMarks
  <2>4. r.since # NULL => source.boundary # NULL /\ r.since <= now
    BY <2>1 DEF Marks, Water
  <2>5. \A i \in Item : Here(i) /\ r.since # NULL /\ remote[i].dated < r.since => Covered(i)
    BY <2>1 DEF Marks, Water
  <2>6. Water(r)
    BY <2>1, <2>4, <2>5 DEF Water, Looping, Passing
  <2>7. Water(r)'
    BY <1>1, <2>6, SameWater DEF SameMarks, Keeps
  <2> QED
    BY <2>3, <2>7
<1> QED
  BY <1>1, <1>2, <1>3, CountsTyped, WaterStep DEF SameMarks

LEMMA FaultsGrow ==
    ASSUME TypeInv, UNCHANGED faults \/ Fault PROVE faults <= faults' /\ faults' \in Nat
BY SyncAssumption DEF Fault, TypeInv, SyncTypeOK

LEMMA ClicksGrow ==
    ASSUME TypeInv, UNCHANGED clicks \/ Click PROVE clicks <= clicks' /\ clicks' \in Nat
BY SyncAssumption DEF Click, TypeInv, SyncTypeOK

LEMMA BeginWater ==
    ASSUME TypeInv, TypeInv', WaterInv, NEW s \in Session, NEW kind,
           NEW since \in {NULL, source.last_success_at},
           AskConsent(s, kind) \/ BeginSync(s, kind, since) \/ BeginPreview(s, kind)
    PROVE  WaterInv'
<1> DEFINE old == session[s]
           a == [old EXCEPT !.pc = "authorize"]
           b == [Idle EXCEPT !.pc = "credential", !.syncing = TRUE,
                             !.boundary = source.boundary, !.since = since]
           c == [Idle EXCEPT !.pc = "credential"]
<1>1. \E r \in {a, b, c} : Become(s, r, FALSE)
  BY DEF AskConsent, BeginSync, BeginPreview, Goto
<1>2. /\ UNCHANGED <<providerVars, credentialVars, artifacts, faults, blind>>
      /\ UNCHANGED clicks \/ Click
      /\ At(s, "idle")
  BY DEF AskConsent, BeginSync, BeginPreview, Press
<1>3. \A r \in {a, b, c} :
         /\ r.pc \in {"authorize", "credential"}
         /\ r.boundary \in {NULL, source.boundary, old.boundary}
         /\ r.since \in {NULL, old.since, source.last_success_at}
  <2>1. a.pc = "authorize" /\ a.boundary = old.boundary /\ a.since = old.since
    BY Typed DEF SessionRow
  <2>2. /\ b.pc = "credential" /\ b.boundary = source.boundary /\ b.since = since
        /\ c.pc = "credential" /\ c.boundary = NULL /\ c.since = NULL
    BY DEF Idle
  <2> HIDE DEF a, b, c
  <2> QED
    BY <2>1, <2>2
<1> HIDE DEF a, b, c
<1>4. PICK r \in {a, b, c} : Become(s, r, FALSE)
  BY <1>1
<1>5. r \in SessionRow
  BY <1>4 DEF Become, TypeInv, SyncTypeOK
<1>6. SameMarks(source') /\ faults <= faults'
  BY <1>2, Typed, HealthMarks, FaultsGrow DEF credentialVars
<1> QED
  BY <1>2, <1>3, <1>4, <1>5, <1>6, ClicksGrow, WaterOutside
  DEF credentialVars, providerVars, Looping, Passing, At

LEMMA CredentialWater ==
    ASSUME TypeInv, TypeInv', WaterInv, NEW s \in Session,
           \/ Authorized(s) \/ Connected(s) \/ PressDisconnect(s) \/ Disconnected(s)
           \/ ReadCredential(s) \/ TokenMinted(s)
    PROVE  WaterInv'
<1> DEFINE old == session[s]
<1>1. UNCHANGED <<providerVars, artifacts, faults, clicks, blind>>
  BY DEF Authorized, Connected, PressDisconnect, Disconnected, ReadCredential, TokenMinted
<1>2. old.pc \in {"authorize", "connecting", "idle", "disconnecting", "credential", "exchange"}
  BY DEF Authorized, Connected, PressDisconnect, Disconnected, ReadCredential, TokenMinted,
         Press, At
<1>3. SameMarks(source')
  <2>1. CASE Connected(s)
    BY <2>1, Typed, HealthMarks DEF Connected, PointAtSecret
  <2>2. CASE Disconnected(s)
    BY <2>2, Typed, HealthMarks DEF Disconnected, ForgetSecret
  <2>3. CASE TokenMinted(s)
    BY <2>3, Typed, HealthMarks DEF TokenMinted, KeepToken
  <2>4. CASE Authorized(s) \/ PressDisconnect(s) \/ ReadCredential(s)
    BY <2>4, Typed, HealthMarks
    DEF Authorized, PressDisconnect, ReadCredential, StoreSecret, DeleteSecret, credentialVars
  <2> QED
    BY <2>1, <2>2, <2>3, <2>4
<1>4. \E r : /\ Become(s, r, FALSE)
             /\ r.pc \in {"connecting", "disconnecting", "exchange", "construct", "idle"}
             /\ r.boundary \in {NULL, old.boundary} /\ r.since \in {NULL, old.since}
  <2>1. CASE Connected(s) \/ Disconnected(s)
    <3>1. Become(s, Idle, FALSE)
      BY <2>1 DEF Connected, Disconnected, Stop
    <3>2. Idle.pc = "idle" /\ Idle.boundary = NULL /\ Idle.since = NULL
      BY DEF Idle
    <3> QED
      BY <3>1, <3>2
  <2>2. CASE Authorized(s)
    <3> DEFINE r == [old EXCEPT !.pc = "connecting", !.ref = issued + 1]
    <3>1. Become(s, r, FALSE)
      BY <2>2 DEF Authorized
    <3>2. r.pc = "connecting" /\ r.boundary = old.boundary /\ r.since = old.since
      BY Typed DEF SessionRow
    <3> QED
      BY <3>1, <3>2
  <2>3. CASE PressDisconnect(s) \/ TokenMinted(s)
    <3>1. PICK pc \in {"disconnecting", "construct", "idle"} :
             Become(s, [old EXCEPT !.pc = pc], FALSE)
      BY <2>3 DEF PressDisconnect, TokenMinted, Goto, AfterMint
    <3> DEFINE r == [old EXCEPT !.pc = pc]
    <3>2. r.pc = pc /\ r.boundary = old.boundary /\ r.since = old.since
      BY Typed DEF SessionRow
    <3> QED
      BY <3>1, <3>2
  <2>4. CASE ReadCredential(s)
    <3>1. PICK pc \in {"exchange", "construct", "idle"} :
             Become(s, [old EXCEPT !.ref = source.credential_ref, !.pc = pc], FALSE)
      BY <2>4, Zenon DEF ReadCredential, AfterMint
    <3> DEFINE r == [old EXCEPT !.ref = source.credential_ref, !.pc = pc]
    <3>2. r.pc = pc /\ r.boundary = old.boundary /\ r.since = old.since
      BY Typed DEF SessionRow
    <3> QED
      BY <3>1, <3>2
  <2> QED
    BY <2>1, <2>2, <2>3, <2>4
<1>5. PICK r : /\ Become(s, r, FALSE)
               /\ r.pc \in {"connecting", "disconnecting", "exchange", "construct", "idle"}
               /\ r.boundary \in {NULL, old.boundary} /\ r.since \in {NULL, old.since}
  BY <1>4
<1>6. r \in SessionRow
  BY <1>5 DEF Become, TypeInv, SyncTypeOK
<1> QED
  BY <1>1, <1>2, <1>3, <1>5, <1>6, FaultsGrow, ClicksGrow, WaterOutside
  DEF providerVars, Looping, Passing

\* Scripts that end before the loop, or on a fault.
LEMMA EndWater ==
    ASSUME TypeInv, TypeInv', WaterInv, NEW s \in Session,
           \/ NoCredential(s) \/ TokenRefused(s) \/ NotRunnable(s)
           \/ NotAuthorized(s) \/ ValidateFailed(s) \/ Interrupt(s)
    PROVE  WaterInv'
<1>1. /\ Become(s, Idle, FALSE)
      /\ UNCHANGED <<remote, now, changes, artifacts, clicks, blind>>
      /\ UNCHANGED faults \/ Fault
  BY DEF NoCredential, TokenRefused, NotRunnable, NotAuthorized, ValidateFailed, Interrupt,
         providerVars, Stop
<1>2. SameMarks(source')
  BY Typed, HealthMarks
  DEF NoCredential, TokenRefused, NotRunnable, NotAuthorized, ValidateFailed, Interrupt,
      RequireReauth, credentialVars
<1>3. Idle \in SessionRow /\ Idle.pc = "idle" /\ Idle.boundary = NULL /\ Idle.since = NULL
  BY IdleTyped DEF Idle
<1>4. CASE session[s].pc \notin Looping
  BY <1>1, <1>2, <1>3, <1>4, FaultsGrow, ClicksGrow, WaterOutside DEF Looping, Passing
<1>5. CASE session[s].pc \in Looping
  <2>1. Fault
    BY <1>5 DEF NoCredential, TokenRefused, NotRunnable, NotAuthorized, ValidateFailed,
                Interrupt, At, Looping
  <2>2. ~Mild'
    BY <2>1 DEF Fault, Mild, TypeInv, SyncTypeOK
  <2>3. Current' /\ \A i \in Item : Covered(i) => Covered(i)'
    BY <1>1 DEF WaterInv, Current, Covered
  <2> QED
    BY <2>2, <2>3 DEF WaterInv
<1> QED
  BY <1>4, <1>5

\* A boundary that is saved within the bounds of the promise is the first one: before it
\* nothing was imported and no pass began.
LEMMA SettingWater ==
    ASSUME TypeInv, TypeInv', WaterInv, NEW s \in Session, NEW kind,
           SaveBoundary(s, kind) \/ ToggleEnabled(s)
    PROVE  WaterInv'
<1>1. /\ UNCHANGED <<remote, now, changes, artifacts, session, faults, blind>>
      /\ Click
  BY DEF SaveBoundary, ToggleEnabled, providerVars
<1>2. \A i \in Item : Covered(i)' <=> Covered(i)
  BY <1>1 DEF Covered
<1>3. Current'
  BY <1>1 DEF WaterInv, Current
<1>4. clicks <= clicks' /\ clicks' = clicks + 1
  BY <1>1, ClicksGrow DEF Click
<1>5. CASE ToggleEnabled(s)
  <2>1. SameMarks(source')
    BY <1>5, Typed, HealthMarks DEF ToggleEnabled
  <2>2. ASSUME Mild' PROVE Marks' /\ \A t \in Session : Water(session[t])'
    <3>1. Mild
      BY <1>1, <1>4, <2>1, <2>2, CountsTyped DEF Mild, SameMarks
    <3>2. Marks /\ \A t \in Session : Water(session[t])
      BY <3>1 DEF WaterInv
    <3>3. Marks'
      BY <1>1, <1>2, <1>4, <2>1, <3>2, CountsTyped, MarksStay DEF SameMarks
    <3>4. ASSUME NEW t \in Session PROVE Water(session[t])'
      <4>1. PICK r \in SessionRow : r = session[t]
        BY Typed
      <4>2. Water(r)'
        BY <1>1, <1>2, <2>1, <3>2, <4>1, SameWater DEF SameMarks, Keeps
      <4> QED
        BY <1>1, <4>1, <4>2
    <3> QED
      BY <3>3, <3>4
  <2> QED
    BY <1>3, <2>2 DEF WaterInv
<1>6. CASE SaveBoundary(s, kind)
  <2>1. PICK b \in Boundary : source' = update_boundary(source, b)
    BY <1>6 DEF SaveBoundary
  <2>2. /\ source'.kind = source.kind /\ source'.boundary = b
        /\ source'.last_cursor = source.last_cursor
        /\ source'.last_success_at = source.last_success_at
    BY <2>1, Typed DEF update_boundary, Source
  <2>3. ASSUME Mild' PROVE Marks' /\ \A t \in Session : Water(session[t])'
    <3>1. Mild /\ clicks = 0
      BY <1>1, <1>4, <2>2, <2>3, CountsTyped DEF Mild
    <3>2. Marks /\ \A t \in Session : Water(session[t])
      BY <3>1 DEF WaterInv
    <3>3. /\ source.boundary = NULL /\ source.last_success_at = NULL
          /\ source.last_cursor = NULL
      BY <3>1, <3>2 DEF Marks
    <3>4. Marks'
      BY <1>1, <1>4, <2>2, <3>2, <3>3, CountsTyped, ProviderAssumption DEF Marks
    <3>5. ASSUME NEW t \in Session PROVE Water(session[t])'
      <4>1. PICK r \in SessionRow : r = session[t]
        BY Typed
      <4>2. r.boundary = NULL /\ r.since = NULL
        BY <3>2, <3>3, <4>1 DEF Water
      <4>3. r.pc \notin Passing \cup {"validate"}
        BY <3>2, <3>3, <4>1 DEF Water
      <4>4. Water(r)'
        BY <4>2, <4>3 DEF Water, Passing, Looping
      <4> QED
        BY <1>1, <4>1, <4>4
    <3> QED
      BY <3>4, <3>5
  <2> QED
    BY <1>3, <2>3 DEF WaterInv
<1> QED
  BY <1>5, <1>6

\* A step of a pass that writes neither artifacts nor the marks.
LEMMA WaterWithin ==
    ASSUME TypeInv, TypeInv', WaterInv, NEW s \in Session, NEW r \in SessionRow,
           NEW d \in BOOLEAN, Become(s, r, d),
           UNCHANGED <<remote, now, changes, artifacts, faults, clicks>>, SameMarks(source'),
           session[s].pc \in Looping => r.pc \in Looping,
           blind => blind', Mild /\ Mild' => Water(r)
    PROVE  WaterInv'
<1>1. \A i \in Item : Covered(i)' <=> Covered(i)
  BY DEF Covered
<1>2. Current'
  BY DEF WaterInv, Current
<1>3. ASSUME Mild, Mild' PROVE Marks' /\ Water(r)'
  <2>1. \A t \in Session : session[t].pc \in Looping => session'[t].pc \in Looping
    BY BecomePc
  <2>2. Marks'
    BY <1>1, <1>3, <2>1, CountsTyped, MarksStay DEF SameMarks, WaterInv
  <2>3. Water(r)'
    BY <1>1, <1>3, SameWater DEF SameMarks, Keeps
  <2> QED
    BY <2>2, <2>3
<1> QED
  BY <1>1, <1>2, <1>3, CountsTyped, WaterStep DEF SameMarks

LEMMA ConstructWater ==
    ASSUME TypeInv, TypeInv', WaterInv, NEW s \in Session, Construct(s) PROVE WaterInv'
<1> DEFINE old == session[s]
<1>1. PICK r \in SessionRow :
         /\ Become(s, r, FALSE)
         /\ Keeps(old, r, {"pc", "checkpoint", "root"})
         /\ old.pc = "construct" /\ r.pc = "validate"
         /\ source.boundary # NULL
         /\ r.checkpoint = source.last_cursor
  BY ConstructIs
<1>2. /\ UNCHANGED <<remote, now, changes, artifacts, faults, clicks, blind>>
      /\ SameMarks(source')
  BY Typed, HealthMarks DEF Construct, providerVars, credentialVars
<1>3. r.boundary = old.boundary /\ r.since = old.since
  BY <1>1 DEF Keeps, SessionFields
<1>4. ASSUME Mild PROVE Water(r)
  <2>1. Marks /\ Water(old)
    BY <1>4 DEF WaterInv
  <2>2. ASSUME NEW i \in Item, Old(i), remote[i].page < PageNumber(r.checkpoint)
        PROVE  Covered(i)
    <3>1. remote[i].page \in Nat \ {0}
      BY Typed DEF RemoteRow, Page
    <3>2. r.checkpoint # NULL /\ PageNumber(r.checkpoint) = r.checkpoint.page
      BY <2>2, <3>1 DEF PageNumber
    <3> QED
      BY <1>1, <2>1, <2>2, <3>2 DEF Marks
  <2> QED
    BY <1>1, <1>3, <2>1, <2>2 DEF Water, Looping, Passing
<1> QED
  BY <1>1, <1>2, <1>4, WaterWithin DEF Looping

LEMMA ValidatedWater ==
    ASSUME TypeInv, TypeInv', WaterInv, NEW s \in Session, Validated(s) PROVE WaterInv'
<1> DEFINE old == session[s]
<1>1. PICK r \in SessionRow :
         /\ Become(s, r, TRUE)
         /\ Keeps(old, r, {"pc", "running", "quiet"})
         /\ old.pc = "validate" /\ r.pc = "discover"
         /\ r.boundary = NULL => blind'
  BY ValidatedIs
<1>2. /\ UNCHANGED <<remote, now, changes, artifacts, faults, clicks>>
      /\ SameMarks(source')
      /\ blind => blind'
  BY Typed, HealthMarks DEF Validated, providerVars
<1>3. r.boundary = old.boundary /\ r.since = old.since /\ r.checkpoint = old.checkpoint
  BY <1>1 DEF Keeps, SessionFields
<1>4. ASSUME Mild, Mild' PROVE Water(r)
  <2>1. r.boundary # NULL
    BY <1>1, <1>4 DEF Mild
  <2> QED
    BY <1>1, <1>3, <1>4, <2>1 DEF WaterInv, Water, Looping, Passing
<1> QED
  BY <1>1, <1>2, <1>4, WaterWithin DEF Looping

LEMMA DiscoverWater ==
    ASSUME TypeInv, TypeInv', WaterInv, NEW s \in Session, Discover(s) PROVE WaterInv'
<1> DEFINE old == session[s]
           kind == source.kind
           page == DiscoveredArtifacts(kind, old.boundary, old.since, old.checkpoint)
<1>1. PICK r \in SessionRow :
         /\ Become(s, r, FALSE)
         /\ Keeps(old, r, {"pc", "pages", "todo", "next", "seen", "discovered",
                                "complete"})
         /\ old.pc = "discover" /\ r.pc = "artifact" /\ r.todo = page
  BY DiscoverIs
<1>2. /\ UNCHANGED <<remote, now, changes, artifacts, faults, clicks, blind>>
      /\ SameMarks(source')
  BY Typed, HealthMarks DEF Discover, providerVars, credentialVars
<1>3. r.boundary = old.boundary /\ r.since = old.since /\ r.checkpoint = old.checkpoint
  BY <1>1 DEF Keeps, SessionFields
<1>4. old \in SessionRow
  BY Typed
<1>5. ASSUME Mild PROVE Water(r)
  <2>1. Water(old) /\ old.boundary = source.boundary
    BY <1>1, <1>5 DEF WaterInv, Water, Passing
  <2>2. ASSUME NEW i \in Item, Old(i), remote[i].page = PageNumber(r.checkpoint)
        PROVE  Covered(i) \/ \E m \in r.todo : m.item = i /\ ~m.is_trashed
    <3>1. metadata(i).item = i /\ ~metadata(i).is_trashed
      BY <2>2 DEF Old, Here, Wanted, Matches, metadata
    <3>2. Wanted(i, old.boundary)
      BY <2>1, <2>2 DEF Old, Here
    <3>3. CASE InWindow(kind, old.since, i)
      <4>1. kind # "drive" /\ kind \in SourceKind
        BY <1>5, Typed DEF Mild, Source
      <4>2. metadata(i) \in page
        BY <1>3, <2>2, <3>2, <3>3, <4>1, ListingIs
      <4> QED
        BY <1>1, <3>1, <4>2
    <3>4. CASE ~InWindow(kind, old.since, i)
      <4>1. old.since # NULL /\ ~(remote[i].dated >= old.since)
        BY <3>4 DEF InWindow
      <4>2. old.since \in Nat /\ remote[i].dated \in Nat
        BY <1>4, <4>1, Typed, ProviderAssumption DEF SessionRow, RemoteRow
      <4>3. remote[i].dated < old.since
        BY <4>1, <4>2
      <4> QED
        BY <2>1, <2>2, <4>1, <4>3 DEF Water, Old
    <3> QED
      BY <3>3, <3>4
  <2> QED
    BY <1>1, <1>3, <2>1, <2>2 DEF Water, Looping, Passing
<1> QED
  BY <1>1, <1>2, <1>5, WaterWithin DEF Looping

\* A page that cannot be had is a fault.
LEMMA DiscoverFailedWater ==
    ASSUME TypeInv, TypeInv', WaterInv, NEW s \in Session, DiscoverFailed(s) PROVE WaterInv'
<1>1. Fault /\ UNCHANGED artifacts
  BY DEF DiscoverFailed
<1>2. ~Mild'
  BY <1>1, CountsTyped DEF Fault, Mild
<1> QED
  BY <1>1, <1>2 DEF WaterInv, Current

LEMMA FinishWater ==
    ASSUME TypeInv, TypeInv', PassInv, WaterInv, NEW s \in Session, Finish(s) PROVE WaterInv'
<1> DEFINE old == session[s]
<1>1. PICK r \in SessionRow :
         /\ Become(s, r, FALSE)
         /\ Keeps(old, r, {"pc"})
         /\ old.pc \in {"vanished", "finish"} /\ r.pc = "close"
  BY FinishIs
<1>2. /\ UNCHANGED <<remote, now, changes, artifacts, faults, clicks, blind>>
      /\ SameMarks(source')
  BY Typed, HealthMarks DEF Finish, providerVars, credentialVars
<1>3. r.boundary = old.boundary /\ r.since = old.since
  BY <1>1 DEF Keeps, SessionFields
<1>4. ASSUME Mild PROVE Water(r)
  <2>1. old.pc = "finish"
    BY <1>1, <1>4 DEF PassInv, Pass, Mild, HasCheckAvailability
  <2> QED
    BY <1>1, <1>3, <1>4, <2>1 DEF WaterInv, Water, Looping, Passing
<1> QED
  BY <1>1, <1>2, <1>4, WaterWithin DEF Looping

\* Neither kind of source has anything to check.
LEMMA CheckVanishedWater ==
    ASSUME TypeInv, TypeInv', PassInv, WaterInv, NEW s \in Session, CheckVanished(s)
    PROVE  WaterInv'
<1>1. PICK i \in session[s].known :
         \/ UNCHANGED artifacts
         \/ \E answer \in ArtifactAvailability :
               artifacts' = [artifacts EXCEPT ![i].availability = answer]
  BY CheckVanishedIs
<1>2. UNCHANGED source /\ At(s, "vanished")
  BY DEF CheckVanished, credentialVars
<1>3. ~Mild'
  BY <1>2 DEF PassInv, Pass, Mild, HasCheckAvailability, At
<1>4. /\ artifacts \in [Item -> ArtifactRow \cup {NULL}]
      /\ \A k \in session[s].known : artifacts[k] # NULL
  BY Typed DEF Working, TypeInv, SyncTypeOK
<1>5. Current'
  <2>1. CASE UNCHANGED artifacts
    BY <2>1 DEF WaterInv, Current
  <2>2. ASSUME NEW answer \in ArtifactAvailability,
               artifacts' = [artifacts EXCEPT ![i].availability = answer]
        PROVE  Current'
    <3> DEFINE row == [artifacts[i] EXCEPT !.availability = answer]
    <3>1. i \in Item
      BY Typed DEF SessionRow
    <3>2. artifacts[i] \in ArtifactRow
      BY <1>4, <3>1
    <3>3. row.contents = artifacts[i].contents /\ row.current = artifacts[i].current
      BY <3>2 DEF ArtifactRow
    <3>4. artifacts' = [artifacts EXCEPT ![i] = row]
      BY <2>2
    <3> HIDE DEF row
    <3> QED
      BY <1>4, <3>2, <3>3, <3>4, NullAssumption DEF WaterInv, Current
  <2> QED
    BY <1>1, <2>1, <2>2
<1> QED
  BY <1>3, <1>5 DEF WaterInv

LEMMA AdvanceCursorWater ==
    ASSUME TypeInv, TypeInv', WaterInv, NEW s \in Session, AdvanceCursor(s) PROVE WaterInv'
<1> DEFINE old == session[s]
           page == PageNumber(old.checkpoint)
<1>1. PICK r \in SessionRow :
         /\ Keeps(old, r, {"checkpoint", "next", "pc"})
         /\ old.pc = "artifact" /\ old.todo = {} /\ r.checkpoint = old.next
         /\ source' = update_last_cursor(source, r.checkpoint)
         /\ \/ (r.checkpoint = NULL \/ blind') /\ Become(s, AfterLoop(r), FALSE)
            \/ r.checkpoint # NULL /\ r.pc = "discover" /\ Become(s, r, FALSE)
         /\ blind => blind'
  BY AdvanceCursorIs
<1>2. UNCHANGED <<remote, now, changes, artifacts, faults, clicks>>
  BY DEF AdvanceCursor, providerVars
<1>3. /\ source'.kind = source.kind /\ source'.boundary = source.boundary
      /\ source'.last_success_at = source.last_success_at
      /\ source'.last_cursor = r.checkpoint
  BY <1>1, Typed DEF update_last_cursor, Source
<1>4. r.boundary = old.boundary /\ r.since = old.since
  BY <1>1 DEF Keeps, SessionFields
<1>5. page \in Page
  BY Typed, PageNumberIs DEF SessionRow
<1>6. IF page = LastPage THEN r.checkpoint = NULL
      ELSE r.checkpoint # NULL /\ r.checkpoint.page = page + 1
  BY <1>1, Typed DEF Working, Paging
<1>7. \A i \in Item : remote[i].page \in Page
  BY Typed DEF RemoteRow
<1>8. \A i \in Item : /\ (Covered(i)' <=> Covered(i))
                     /\ (Here(i)' <=> Here(i)) /\ (Old(i)' <=> Old(i))
  BY <1>2, <1>3 DEF Covered, Here, Old, Wanted, Matches
<1>9. Current'
  BY <1>2 DEF WaterInv, Current
<1>10. ASSUME Mild PROVE Marks /\ Water(old) /\ source.boundary # NULL /\ old.boundary # NULL
  BY <1>1, <1>10 DEF WaterInv, Water, Passing
<1>11. ASSUME Mild, NEW i \in Item, Old(i), remote[i].page <= page PROVE Covered(i)
  <2>1. remote[i].page < page \/ remote[i].page = page
    BY <1>5, <1>7, <1>11 DEF Page
  <2> QED
    BY <1>1, <1>10, <1>11, <2>1 DEF Water, Looping
<1>12. /\ \A i \in Item : Covered(i) => Covered(i)'
       /\ faults' \in Nat /\ clicks' \in Nat /\ faults <= faults' /\ clicks <= clicks'
  BY <1>2, <1>8, CountsTyped
<1>13. CASE (r.checkpoint = NULL \/ blind') /\ Become(s, AfterLoop(r), FALSE)
  <2>1. \A i \in r.known : artifacts[i] # NULL
    BY <1>1, <1>4, Typed DEF Working, Passing, Keeps, SessionFields
  <2>2. PICK q \in SessionRow : q = AfterLoop(r)
    BY <2>1, AfterLoopTyped
  <2>3. Become(s, q, FALSE)
    BY <1>1, <1>13, <2>2
  <2>4. ASSUME Mild, Mild' PROVE Marks' /\ Water(q)'
    <3>0. r.checkpoint = NULL
      BY <1>13, <2>4 DEF Mild
    <3>1. /\ q.boundary = r.boundary /\ q.since = r.since
          /\ q.pc = "finish"
      BY <2>2, <2>4, AfterLoopRow DEF Keeps, SessionFields, Mild, HasCheckAvailability
    <3>2. \A i \in Item : remote[i].page <= page
      BY <1>6, <1>7, <3>0 DEF Page
    <3>3. Marks'
      BY <1>2, <1>3, <1>8, <1>10, <2>4, <3>0 DEF Marks
    <3>4. Water(q)'
      BY <1>2, <1>3, <1>4, <1>8, <1>10, <1>11, <2>4, <3>1, <3>2 DEF Water, Looping, Passing
    <3> QED
      BY <3>3, <3>4
  <2> QED
    BY <1>1, <1>2, <1>3, <1>9, <1>12, <2>3, <2>4, WaterStep
<1>14. CASE r.checkpoint # NULL /\ r.pc = "discover" /\ Become(s, r, FALSE)
  <2>1. /\ PageNumber(r.checkpoint) = page + 1 /\ r.checkpoint.page = page + 1
        /\ r.pc = "discover"
    BY <1>1, <1>6, <1>14 DEF PageNumber
  <2>2. \A i \in Item : remote[i].page < page + 1 => remote[i].page <= page
    BY <1>5, <1>7 DEF Page
  <2>3. Become(s, r, FALSE) /\ session'[s] = r
    BY <1>1, <1>14 DEF Become
  <2>4. ASSUME Mild PROVE Marks' /\ Water(r)'
    <3>1. Marks'
      BY <1>2, <1>3, <1>8, <1>10, <1>11, <2>1, <2>2, <2>3, <2>4 DEF Marks, Looping
    <3>2. Water(r)'
      BY <1>2, <1>3, <1>4, <1>8, <1>10, <1>11, <2>1, <2>2, <2>4 DEF Water, Looping, Passing
    <3> QED
      BY <3>1, <3>2
  <2> QED
    BY <1>1, <1>2, <1>3, <1>9, <1>12, <2>3, <2>4, WaterStep
<1> QED
  BY <1>1, <1>13, <1>14

\* What ends well has covered what was there before the last tick.
LEMMA CloseWater ==
    ASSUME TypeInv, TypeInv', WaterInv, NEW s \in Session, Close(s) PROVE WaterInv'
<1> DEFINE old == session[s]
<1>1. /\ old.pc = "close" /\ Become(s, Idle, FALSE)
      /\ UNCHANGED <<remote, now, changes, artifacts, faults, clicks, blind>>
  BY DEF Close, At, Stop, providerVars
<1>2. /\ source'.kind = source.kind /\ source'.boundary = source.boundary
      /\ source'.last_cursor = source.last_cursor
      /\ source'.last_success_at \in {source.last_success_at, now}
  <2>1. PICK src \in {source, update_last_success(source, now)},
             h \in {"healthy", "degraded"} :
           source' = update_health(src, h)
    BY Zenon DEF Close
  <2>2. source \in Source
    BY Typed
  <2> QED
    BY <2>1, <2>2 DEF update_health, update_last_success, Source
<1>3. Idle \in SessionRow /\ Idle.pc = "idle" /\ Idle.boundary = NULL /\ Idle.since = NULL
  BY IdleTyped DEF Idle
<1>4. \A i \in Item : /\ (Covered(i)' <=> Covered(i))
                     /\ (Here(i)' <=> Here(i)) /\ (Old(i)' <=> Old(i))
  BY <1>1, <1>2 DEF Covered, Here, Old, Wanted, Matches
<1>5. Current'
  BY <1>1 DEF WaterInv, Current
<1>6. ASSUME Mild PROVE Marks' /\ Water(Idle)'
  <2>1. Marks /\ Water(old) /\ source.boundary # NULL
    BY <1>1, <1>6 DEF WaterInv, Water, Passing
  <2>2. \A i \in Item : Old(i) => Covered(i)
    BY <1>1, <2>1 DEF Water
  <2>3. \A t \in Session : session[t].pc \in Looping => session'[t].pc \in Looping
    BY <1>1, BecomePc DEF Looping
  <2>4. \A i \in Item : Here(i) /\ source'.last_success_at # NULL
                           /\ remote[i].dated < source'.last_success_at => Covered(i)
    BY <1>2, <2>1, <2>2 DEF Marks, Old
  <2>5. now <= now
    BY CountsTyped
  <2>6. Marks'
    BY <1>1, <1>2, <1>4, <2>1, <2>3, <2>4, <2>5 DEF Marks
  <2>7. Water(Idle)'
    BY <1>3 DEF Water, Looping, Passing
  <2> QED
    BY <2>6, <2>7
<1>7. /\ \A i \in Item : Covered(i) => Covered(i)'
      /\ faults' \in Nat /\ clicks' \in Nat /\ faults <= faults' /\ clicks <= clicks'
  BY <1>1, <1>4, CountsTyped
<1> QED
  BY <1>1, <1>2, <1>3, <1>5, <1>6, <1>7, WaterStep

\* What is recorded of an artifact before the fetch keeps its versions.
LEMMA RecordedCovers ==
    ASSUME TypeInv, NEW m \in ArtifactMetadata, Recorded(m, GetOrCreate(m.item)), Current
    PROVE  /\ Current'
           /\ \A i \in Item : Covered(i) => Covered(i)'
           /\ is_unchanged(GetOrCreate(m.item), m) => Covered(m.item)
<1> DEFINE a == GetOrCreate(m.item)
<1>1. PICK b \in ArtifactRow :
         /\ artifacts' = [artifacts EXCEPT ![m.item] = b]
         /\ b.contents = a.contents /\ b.current = a.current
  BY DEF Recorded
<1>2. m.item \in Item /\ artifacts \in [Item -> ArtifactRow \cup {NULL}]
  BY DEF ArtifactMetadata, TypeInv, SyncTypeOK
<1>3. /\ artifacts'[m.item] = b /\ b # NULL
      /\ \A i \in Item \ {m.item} : artifacts'[i] = artifacts[i]
  BY <1>1, <1>2, NullAssumption
<1>4. IF artifacts[m.item] # NULL THEN a = artifacts[m.item]
      ELSE a.contents = {} /\ a.current = NULL
  BY DEF GetOrCreate
<1>5. is_unchanged(a, m) => a.current # NULL
  BY DEF is_unchanged
<1> HIDE DEF a
<1>6. Current'
  BY <1>1, <1>2, <1>3, <1>4 DEF Current
<1>7. \A i \in Item : Covered(i) => Covered(i)'
  BY <1>1, <1>2, <1>3, <1>4 DEF Covered
<1>8. is_unchanged(a, m) => Covered(m.item)
  BY <1>4, <1>5 DEF Covered
<1> QED
  BY <1>6, <1>7, <1>8 DEF a

LEMMA ProcessArtifactWater ==
    ASSUME TypeInv, TypeInv', WaterInv, NEW s \in Session, ProcessArtifact(s) PROVE WaterInv'
<1> DEFINE old == session[s]
<1>1. PICK m \in old.todo, r \in SessionRow :
         /\ Become(s, r, artifacts' # artifacts)
         /\ old.pc = "artifact"
         /\ Processed(old, r, m, GetOrCreate(m.item))
         /\ Recorded(m, GetOrCreate(m.item))
         /\ UNCHANGED faults \/ Fault
  BY ProcessArtifactIs
<1> DEFINE a == GetOrCreate(m.item)
<1>2. m \in ArtifactMetadata /\ m.item \in Item
  BY Typed DEF SessionRow, ArtifactMetadata
<1>3. UNCHANGED <<remote, now, changes, source, clicks, blind>>
  BY DEF ProcessArtifact, providerVars, credentialVars
<1>4. /\ Current'
      /\ \A i \in Item : Covered(i) => Covered(i)'
      /\ is_unchanged(a, m) => Covered(m.item)
  BY <1>1, <1>2, RecordedCovers DEF WaterInv
<1>5. /\ r.boundary = old.boundary /\ r.since = old.since /\ r.checkpoint = old.checkpoint
      /\ r.todo = old.todo \ {m} /\ r.pc \in {"artifact", "store"}
      /\ r.pc = "store" => r.raw.item = m.item
  BY <1>1 DEF Processed, Keeps, SessionFields
<1>6. ASSUME Mild, Mild' PROVE Marks' /\ Water(r)'
  <2>1. Marks /\ Water(old) /\ ~Fault
    BY <1>6, CountsTyped DEF WaterInv, Mild, Fault
  <2>2. \A t \in Session : session[t].pc \in Looping => session'[t].pc \in Looping
    BY <1>1, <1>5, BecomePc DEF Looping
  <2>3. Marks'
    BY <1>3, <1>4, <2>1, <2>2, CountsTyped, MarksStay
  <2>4. ASSUME Old(m.item), ~m.is_trashed
        PROVE  Covered(m.item) \/ (r.pc = "store" /\ r.raw.item = m.item)
    <3>1. CanFetch(source.kind, m)
      BY <2>4 DEF Old, Here, Wanted, Matches, CanFetch
    <3>2. CASE is_unchanged(a, m)
      BY <1>4, <3>2
    <3>3. CASE ~is_unchanged(a, m)
      BY <1>1, <1>5, <2>1, <2>4, <3>1, <3>3 DEF Processed
    <3> QED
      BY <3>2, <3>3
  <2>5. ASSUME NEW i \in Item, Old(i), remote[i].page = PageNumber(r.checkpoint)
        PROVE  \/ Covered(i)
               \/ r.pc = "store" /\ r.raw.item = i
               \/ \E n \in r.todo : n.item = i /\ ~n.is_trashed
    <3>1. Covered(i) \/ \E n \in old.todo : n.item = i /\ ~n.is_trashed
      BY <1>1, <1>5, <2>1, <2>5 DEF Water
    <3>2. CASE i = m.item /\ ~m.is_trashed
      BY <2>4, <2>5, <3>2
    <3>3. CASE ~(i = m.item /\ ~m.is_trashed)
      BY <1>5, <3>1, <3>3
    <3> QED
      BY <3>2, <3>3
  <2>6. \A i : (Here(i)' <=> Here(i)) /\ (Old(i)' <=> Old(i))
    BY <1>3 DEF Here, Old, Wanted, Matches
  <2>7. Water(r)'
    BY <1>1, <1>3, <1>4, <1>5, <2>1, <2>5, <2>6 DEF Water, Looping, Passing
  <2> QED
    BY <2>3, <2>7
<1>7. faults <= faults' /\ faults' \in Nat
  BY <1>1, FaultsGrow
<1>8. PICK d \in BOOLEAN : Become(s, r, d)
  BY <1>1
<1> QED
  BY <1>3, <1>4, <1>6, <1>7, <1>8, CountsTyped, WaterStep

LEMMA StoreArtifactWater ==
    ASSUME TypeInv, TypeInv', PassInv, WaterInv, NEW s \in Session, StoreArtifact(s)
    PROVE  WaterInv'
<1> DEFINE old == session[s]
           raw == old.raw
           i == raw.item
           a == artifacts[i]
           b == Stored(a, raw)
<1>1. PICK r \in SessionRow, d \in BOOLEAN :
         /\ Become(s, r, d)
         /\ Keeps(old, r, {"pc", "raw", "failed"})
         /\ old.pc = "store" /\ r.pc = "artifact" /\ raw \in Raw /\ a \in ArtifactRow
         /\ \/ artifacts' = [artifacts EXCEPT ![i] = b]
            \/ UNCHANGED artifacts /\ (KeyTaken(a, raw) \/ Fault)
         /\ UNCHANGED faults \/ Fault
  BY StoreArtifactIs
<1>2. UNCHANGED <<remote, now, changes, source, clicks, blind>>
  BY DEF StoreArtifact, providerVars, credentialVars
<1>3. /\ b \in ArtifactRow
      /\ \/ b = a /\ raw.was \in a.contents
         \/ b.current \in b.contents
  BY <1>1, StoredIs
<1>4. i \in Item /\ artifacts \in [Item -> ArtifactRow \cup {NULL}]
  BY <1>1, Typed DEF Raw
<1>5. /\ r.boundary = old.boundary /\ r.since = old.since
      /\ r.checkpoint = old.checkpoint /\ r.todo = old.todo
  BY <1>1 DEF Keeps, SessionFields
<1>6. a # NULL /\ (a.current = NULL => a.contents = {})
  BY <1>1, <1>4, NullAssumption DEF WaterInv, Current
<1>7. b # NULL /\ b.current # NULL
  <2>1. b.current \in b.contents => b.current \in Content
    BY <1>3 DEF ArtifactRow
  <2> QED
    BY <1>3, <1>6, <2>1, NullAssumption
<1> HIDE DEF b
<1>8. Current' /\ \A j \in Item : Covered(j) => Covered(j)'
  <2>1. CASE UNCHANGED artifacts
    BY <2>1 DEF WaterInv, Current, Covered
  <2>2. CASE artifacts' = [artifacts EXCEPT ![i] = b]
    <3>1. artifacts'[i] = b /\ \A j \in Item \ {i} : artifacts'[j] = artifacts[j]
      BY <1>4, <2>2
    <3> QED
      BY <1>7, <3>1 DEF WaterInv, Current, Covered
  <2> QED
    BY <1>1, <2>1, <2>2
<1>9. ASSUME ~Fault, NEW j \in Item, j = i PROVE Covered(j)'
  <2>1. CASE artifacts' = [artifacts EXCEPT ![i] = b]
    <3>1. artifacts'[i] = b
      BY <1>4, <2>1
    <3> QED
      BY <1>7, <1>9, <3>1 DEF Covered
  <2>2. CASE UNCHANGED artifacts /\ KeyTaken(a, raw)
    <3>1. a.contents # {}
      BY <2>2 DEF KeyTaken
    <3> QED
      BY <1>6, <1>9, <2>2, <3>1 DEF Covered
  <2> QED
    BY <1>1, <1>9, <2>1, <2>2
<1>10. ASSUME Mild, Mild' PROVE Marks' /\ Water(r)'
  <2>1. Marks /\ Water(old) /\ ~Fault
    BY <1>10, CountsTyped DEF WaterInv, Mild, Fault
  <2>2. \A t \in Session : session[t].pc \in Looping => session'[t].pc \in Looping
    BY <1>1, BecomePc DEF Looping
  <2>3. Marks'
    BY <1>2, <1>8, <2>1, <2>2, CountsTyped, MarksStay
  <2>4. \A j : (Here(j)' <=> Here(j)) /\ (Old(j)' <=> Old(j))
    BY <1>2 DEF Here, Old, Wanted, Matches
  <2>5. Water(r)'
    BY <1>1, <1>2, <1>5, <1>8, <1>9, <2>1, <2>4 DEF Water, Looping, Passing
  <2> QED
    BY <2>3, <2>5
<1>11. faults <= faults' /\ faults' \in Nat
  BY <1>1, FaultsGrow
<1> QED
  BY <1>1, <1>2, <1>8, <1>10, <1>11, CountsTyped, WaterStep

\* With all of it alive before, a first change of the account puts nothing before the
\* watermark that was not there.
LEMMA ChangedView ==
    ASSUME TypeInv, NEW i \in Item, source.kind \in {"gmail", "fathom"},
           UNCHANGED source, \A j \in Item : remote[j].state = "live",
           \/ Edit(source.kind, i) \/ Move(source.kind, i)
           \/ Arrive(source.kind, i) \/ Withdraw(i)
    PROVE  \A j \in Item : Here(j)' =>
               \/ remote'[j].dated = now
               \/ /\ Here(j)
                  /\ remote'[j].page = remote[j].page /\ remote'[j].dated = remote[j].dated
<1>1. remote \in [Item -> RemoteRow]
  BY DEF TypeInv, SyncTypeOK
<1>2. PICK row : /\ row # remote[i]
                 /\ remote' = [remote EXCEPT ![i] = row]
                 /\ \/ row.dated = now
                    \/ row.state # "live"
                    \/ /\ row.place = remote[i].place /\ row.state = remote[i].state
                       /\ row.page = remote[i].page /\ row.dated = remote[i].dated
  <2> DEFINE old == remote[i]
  <2>1. CASE Edit(source.kind, i)
    <3>1. PICK m \in 1 .. MaxMarker, b \in Bytes :
             Change(i, [old EXCEPT !.marker = m, !.bytes = b])
      BY <2>1 DEF Edit
    <3> DEFINE row == [old EXCEPT !.marker = m, !.bytes = b]
    <3>2. /\ row.place = old.place /\ row.state = old.state
          /\ row.page = old.page /\ row.dated = old.dated
      BY <1>1 DEF RemoteRow
    <3> QED
      BY <3>1, <3>2 DEF Change
  <2>2. CASE Move(source.kind, i)
    BY <2>2 DEF Move
  <2>3. CASE Arrive(source.kind, i)
    <3>1. PICK b \in Boundary, p \in Page :
             Change(i, [old EXCEPT !.place = b, !.page = p, !.dated = now])
      BY <2>3 DEF Arrive
    <3> DEFINE row == [old EXCEPT !.place = b, !.page = p, !.dated = now]
    <3>2. row.dated = now
      BY <1>1 DEF RemoteRow
    <3> QED
      BY <3>1, <3>2 DEF Change
  <2>4. CASE Withdraw(i)
    <3>1. PICK state \in RemoteState : Change(i, [old EXCEPT !.state = state])
      BY <2>4 DEF Withdraw
    <3> DEFINE row == [old EXCEPT !.state = state]
    <3>2. row.state = state /\ row # old
      BY <1>1, <3>1 DEF RemoteRow, Change
    <3>3. state # "live"
      BY <1>1, <3>2 DEF RemoteRow
    <3> QED
      BY <3>1, <3>2, <3>3 DEF Change
  <2> QED
    BY <2>1, <2>2, <2>3, <2>4
<1>3. remote'[i] = row /\ \A j \in Item \ {i} : remote'[j] = remote[j]
  BY <1>1, <1>2
<1> QED
  BY <1>2, <1>3 DEF Here, Wanted, Matches

LEMMA WatermarkTyped ==
    ASSUME TypeInv
    PROVE  source.last_success_at # NULL => source.last_success_at \in 0 .. MaxTime
<1>1. source \in Source
  BY DEF TypeInv, SyncTypeOK
<1> QED
  BY <1>1 DEF Source

LEMMA AccountWater ==
    ASSUME TypeInv, TypeInv', WaterInv, Account PROVE WaterInv'
<1>1. /\ UNCHANGED <<source, artifacts, faults, clicks, blind>>
      /\ session' = [s \in Session |-> [session[s] EXCEPT !.quiet = FALSE]]
  BY DEF Account, credentialVars
<1>2. PICK i \in Item : \/ Edit(source.kind, i) \/ Move(source.kind, i)
                        \/ Arrive(source.kind, i) \/ Withdraw(i)
  BY DEF Account
<1>3. changes' = changes + 1 /\ now' = now
  BY <1>2 DEF Edit, Move, Arrive, Withdraw, Change
<1>4. Current'
  BY <1>1 DEF WaterInv, Current
<1>5. ASSUME Mild' PROVE Marks' /\ \A s \in Session : Water(session[s])'
  <2>1. Mild /\ changes = 0
    BY <1>1, <1>3, <1>5, CountsTyped DEF Mild
  <2>2. Marks /\ \A s \in Session : Water(session[s])
    BY <2>1 DEF WaterInv
  <2>3. \A j \in Item : Here(j)' =>
            \/ remote'[j].dated = now
            \/ /\ Here(j)
               /\ remote'[j].page = remote[j].page /\ remote'[j].dated = remote[j].dated
    BY <1>1, <1>2, <2>1, <2>2, ChangedView DEF Mild, Marks
  <2>4. now \in Nat /\ changes' # 0
    BY <1>3, <2>1, CountsTyped
  <2>5. \A j \in Item : Covered(j)' <=> Covered(j)
    BY <1>1 DEF Covered
  <2>6. \A j \in Item : Old(j)' => /\ Old(j) /\ remote'[j].page = remote[j].page
                                   /\ remote'[j].dated = remote[j].dated
    BY <1>3, <2>3, <2>4 DEF Old
  <2>7. ASSUME NEW t \in 0 .. MaxTime, t <= now, NEW j \in Item, Here(j)',
               remote'[j].dated < t
        PROVE  Here(j) /\ remote[j].dated < t
    BY <2>3, <2>4, <2>7, ProviderAssumption
  <2>8. ASSUME NEW s \in Session
        PROVE  session'[s].pc = session[s].pc /\ Water(session[s])'
    <3> DEFINE old == session[s]
               row == [old EXCEPT !.quiet = FALSE]
    <3>1. session'[s] = row /\ old \in SessionRow /\ Water(old)
      BY <1>1, <2>2, Typed
    <3> HIDE DEF old
    <3>2. row \in SessionRow /\ Keeps(old, row, {"quiet"})
      <4>1. row \in SessionRow
        BY <3>1 DEF SessionRow
      <4>2. Keeps(old, row, {"quiet"})
        BY <3>1 DEF SessionRow, Keeps, SessionFields
      <4> QED
        BY <4>1, <4>2
    <3> HIDE DEF row
    <3>3. PICK r \in SessionRow : r = row
      BY <3>2
    <3>4. /\ r.pc = old.pc /\ r.checkpoint = old.checkpoint /\ r.boundary = old.boundary
          /\ r.since = old.since /\ r.todo = old.todo /\ r.raw = old.raw
      BY <3>2, <3>3 DEF Keeps, SessionFields
    <3>5. r.since # NULL => r.since \in 0 .. MaxTime
      BY DEF SessionRow
    <3>6. r.since # NULL => source.boundary # NULL /\ r.since <= now
      BY <3>1, <3>4 DEF Water
    <3>7. ASSUME r.since # NULL, NEW j \in Item, Here(j)', remote'[j].dated < r.since
          PROVE  Covered(j)
      BY <2>7, <3>1, <3>4, <3>5, <3>6, <3>7 DEF Water
    <3>8. Water(r)'
      BY <1>1, <1>3, <2>5, <2>6, <3>1, <3>4, <3>6, <3>7 DEF Water
    <3> QED
      BY <3>1, <3>3, <3>4, <3>8 DEF old
  <2>9. Marks'
    <3>1. source.last_success_at # NULL =>
             source.last_success_at \in 0 .. MaxTime /\ source.last_success_at <= now
      BY <2>2, WatermarkTyped DEF Marks
    <3>2. ASSUME source.last_success_at # NULL, NEW j \in Item, Here(j)',
                 remote'[j].dated < source.last_success_at
          PROVE  Covered(j)
      BY <2>2, <2>7, <3>1, <3>2 DEF Marks
    <3> QED
      BY <1>1, <1>3, <2>2, <2>4, <2>5, <2>6, <2>8, <3>2 DEF Marks
  <2> QED
    BY <2>8, <2>9
<1> QED
  BY <1>4, <1>5 DEF WaterInv

LEMMA WorldWater ==
    ASSUME TypeInv, TypeInv', WaterInv, Withdrawn \/ Tick \/ UNCHANGED vars
    PROVE  WaterInv'
<1>1. /\ UNCHANGED <<remote, artifacts, session, faults, clicks, source, blind>>
      /\ now <= now' /\ changes <= changes'
  <2>1. CASE Withdrawn
    BY <2>1, CountsTyped DEF Withdrawn, Revoke, syncVars
  <2>2. CASE Tick
    BY <2>2, CountsTyped DEF Tick, syncVars, credentialVars
  <2>3. CASE UNCHANGED vars
    BY <2>3, CountsTyped DEF vars, syncVars, credentialVars, providerVars
  <2> QED
    BY <2>1, <2>2, <2>3
<1>2. Current'
  BY <1>1 DEF WaterInv, Current
<1>3. now' = now \/ \A s \in Session : session[s].pc = "idle"
  BY DEF Withdrawn, Revoke, Tick, vars, providerVars, At
<1>4. \A i \in Item : (Covered(i)' <=> Covered(i)) /\ (Here(i)' <=> Here(i))
  BY <1>1 DEF Covered, Here, Wanted, Matches
<1>5. now' = now => \A i \in Item : Old(i)' <=> Old(i)
  BY <1>1, <1>4 DEF Old
<1>6. ASSUME Mild' PROVE Marks' /\ \A s \in Session : Water(session[s])'
  <2>1. Mild
    BY <1>1, <1>6, CountsTyped DEF Mild
  <2>2. Marks /\ \A s \in Session : Water(session[s])
    BY <2>1 DEF WaterInv
  <2>3. now' # now => source.last_cursor = NULL
    BY <1>3, <2>2 DEF Marks, Looping
  <2>4. changes' = 0 => changes = 0
    BY <1>1, CountsTyped
  <2>5. \A t \in 0 .. MaxTime : t <= now => t <= now'
    BY <1>1, CountsTyped, ProviderAssumption
  <2>6. Marks'
    <3>1. source.last_success_at # NULL => source.last_success_at <= now'
      BY <2>2, <2>5, WatermarkTyped DEF Marks
    <3> QED
      BY <1>1, <1>4, <1>5, <2>2, <2>3, <2>4, <3>1 DEF Marks
  <2>7. ASSUME NEW s \in Session PROVE Water(session[s])'
    <3>1. PICK r \in SessionRow : r = session[s]
      BY Typed
    <3>2. r.since # NULL => r.since <= now'
      BY <2>2, <2>5, <3>1 DEF Water, SessionRow
    <3>3. ASSUME now' = now PROVE Water(r)'
      BY <1>1, <1>4, <1>5, <2>2, <3>1, <3>2, <3>3 DEF Water
    <3>4. ASSUME now' # now PROVE Water(r)'
      <4>1. r.pc \notin Looping \cup {"validate", "finish", "close"}
        BY <1>3, <3>1, <3>4 DEF Looping
      <4> QED
        BY <1>1, <1>4, <2>2, <3>1, <3>2, <4>1 DEF Water, Looping, Passing
    <3>5. Water(r)'
      BY <3>3, <3>4
    <3> QED
      BY <1>1, <3>1, <3>5
  <2> QED
    BY <2>6, <2>7
<1> QED
  BY <1>2, <1>6 DEF WaterInv

LEMMA WaterInitInv == Init => WaterInv
<1> SUFFICES ASSUME Init PROVE WaterInv
  OBVIOUS
<1>1. /\ artifacts = [i \in Item |-> NULL] /\ session = [s \in Session |-> Idle]
      /\ now = 0 /\ changes = 0 /\ clicks = 0
      /\ \A i \in Item : remote[i].state = "live"
  BY DEF Init, ProviderInit
<1>2. source.boundary = NULL /\ source.last_success_at = NULL /\ source.last_cursor = NULL
  BY DEF Init, CredentialsInit, InsertedSource
<1>3. Idle.pc = "idle" /\ Idle.boundary = NULL /\ Idle.since = NULL
  BY DEF Idle
<1>4. Current /\ Marks /\ Water(Idle)
  BY <1>1, <1>2, <1>3 DEF Current, Marks, Here, Old, Water, Looping, Passing
<1> QED
  BY <1>1, <1>4 DEF WaterInv

LEMMA WaterNextInv == TypeInv /\ PassInv /\ WaterInv /\ [Next]_vars => WaterInv'
<1> SUFFICES ASSUME TypeInv, PassInv, WaterInv, [Next]_vars PROVE WaterInv'
  OBVIOUS
<1>1. TypeInv'
  BY TypeNextInv
<1>2. ASSUME NEW s \in Session, User(s) PROVE WaterInv'
  <2>1. CASE ConnectDrive(s) \/ ConnectGmail(s) \/ ConnectCalendar(s) \/ ConnectFathom(s)
    BY <1>1, <2>1, BeginWater DEF ConnectDrive, ConnectGmail, ConnectCalendar, ConnectFathom
  <2>2. CASE \/ SaveFolder(s) \/ SaveLabelQuery(s) \/ SaveCalendarRules(s)
             \/ SaveFathomRules(s) \/ ToggleEnabled(s)
    BY <1>1, <2>2, SettingWater
    DEF SaveFolder, SaveLabelQuery, SaveCalendarRules, SaveFathomRules
  <2>3. CASE PreviewDrive(s) \/ PreviewGmail(s) \/ PreviewCalendar(s) \/ PreviewFathom(s)
    BY <1>1, <2>3, BeginWater DEF PreviewDrive, PreviewGmail, PreviewCalendar, PreviewFathom
  <2>4. CASE PressDisconnect(s)
    BY <1>1, <2>4, CredentialWater
  <2>5. CASE StartSync(s)
    BY <1>1, <2>5, BeginWater
    DEF StartSync, sync_drive_project, sync_gmail_project, sync_calendar_project,
        sync_fathom_project, _gmail_since_date, _fathom_created_after
  <2> QED
    BY <1>2, <2>1, <2>2, <2>3, <2>4, <2>5 DEF User
<1>3. ASSUME NEW s \in Session, Work(s) PROVE WaterInv'
  BY <1>1, <1>3, CredentialWater, EndWater, ConstructWater, ValidatedWater, DiscoverWater,
     ProcessArtifactWater, StoreArtifactWater, AdvanceCursorWater, CheckVanishedWater,
     FinishWater, CloseWater
  DEF Work
<1>4. ASSUME NEW s \in Session, Failure(s) PROVE WaterInv'
  BY <1>1, <1>4, EndWater, DiscoverFailedWater DEF Failure
<1> QED
  BY <1>1, <1>2, <1>3, <1>4, AccountWater, WorldWater DEF Next

\* As long as nothing failed, the boundary stayed, and no run was cut short or went on
\* without rules, the watermark never passes over something that is not imported yet.
THEOREM WatermarkHolds == Spec => []WatermarkCovers
<1>1. TypeInv /\ WaterInv => WatermarkCovers
  <2> SUFFICES ASSUME TypeInv, WaterInv, source.kind \in {"gmail", "fathom"},
                      ~blind, faults = 0, clicks <= 1, changes <= 1, NEW i \in Item,
                      source.last_success_at # NULL, source.boundary # NULL,
                      Wanted(i, source.boundary),
                      ~InWindow(source.kind, source.last_success_at, i)
               PROVE  Covered(i)
    BY DEF WatermarkCovers, Covered
  <2>1. Marks
    BY DEF WaterInv, Mild
  <2>2. remote[i].dated \in Nat /\ source.last_success_at \in Nat
    <3>1. remote[i] \in RemoteRow
      BY DEF TypeInv, SyncTypeOK
    <3> QED
      BY <3>1, WatermarkTyped, ProviderAssumption DEF RemoteRow
  <2>3. remote[i].dated < source.last_success_at
    BY <2>2 DEF InWindow
  <2> QED
    BY <2>1, <2>3 DEF Marks, Here
<1> QED
  BY <1>1, TypeInitInv, TypeNextInv, PassInitInv, PassNextInv, WaterInitInv, WaterNextInv, PTL
  DEF Spec
=============================================================================
