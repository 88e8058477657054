--------------------------- MODULE PassagesProofs ---------------------------
(***************************************************************************)
(* Proofs about modules Matching and Passages: a project is given only what *)
(* its rules include; and of what it is given, extraction reads every word  *)
(* of the author's own part and no other, whatever the paragraphs of the    *)
(* text, the words in them, the target and the overlap.                     *)
(*                                                                         *)
(* The argument follows the code.  A recursive function is unique and there *)
(* (Counting, Loop), so that Total and FlattenSeq can be reasoned about one *)
(* member at a time.  Offsets grow along a text (OffsetsGrow), hence the    *)
(* blocks that are visible are a run of it (VisibleBlocks).  Cutting what   *)
(* is too long loses blanks at most and keeps the order (NormalizedIs);     *)
(* each chunk packed is a run of the pieces that ends later than the one    *)
(* before (Packing), and no piece is left out (ChunksHold).                 *)
(***************************************************************************)
EXTENDS Passages, WellFoundedInduction, TLAPS

-----------------------------------------------------------------------------
(* Which project an event or a recording goes to. *)

MatchInv ==
    /\ item \in UNION {[kind : {k}, meets : SUBSET Entries(k)] : k \in {"calendar", "fathom"}}
    /\ AssignedByMoreThanTiming

\* An event of some tier meets a rule that includes and none that excludes.
LEMMA CalendarTier ==
    ASSUME NEW hits, hits \subseteq Entries("calendar"), calendar_evaluate_match(hits) # Nothing
    PROVE  /\ hits \ CalendarExclude # {}
           /\ hits \cap CalendarExclude = {}
           /\ ~ hits \subseteq FathomTiming
           /\ calendar_evaluate_match(hits) # "scheduled_event"
<1>1. CalendarExclude \cap hits = {} /\ calendar_tier(hits) # Nothing
  BY DEF calendar_evaluate_match
<1>2. hits \cap CalendarInclude # {}
  BY <1>1 DEF calendar_tier, CalendarInclude
<1>3. calendar_evaluate_match(hits)
          \in {"event_id", "project_name_term", "domain_participant", "include_rule"}
  BY <1>1 DEF calendar_evaluate_match, calendar_tier
<1> QED
  BY <1>1, <1>2, <1>3 DEF CalendarInclude, CalendarExclude, FathomTiming

\* The first tier met is the last one only if nothing but a time or a link was met.
LEMMA FathomTier ==
    ASSUME NEW hits, hits \subseteq Entries("fathom"), fathom_evaluate_match(hits) # Nothing
    PROVE  /\ hits \ CalendarExclude # {}
           /\ hits \cap CalendarExclude = {}
           /\ fathom_evaluate_match(hits) = "scheduled_event" <=> hits \subseteq FathomTiming
<1> DEFINE least == CHOOSE n \in Met(hits) : \A k \in Met(hits) : n <= k
<1>1. Met(hits) # {} /\ fathom_evaluate_match(hits) = FATHOM_TIERS[least].tier
  BY DEF fathom_evaluate_match
<1>2. \A n \in 1 .. 5 : n \in Met(hits) <=> FATHOM_TIERS[n].entries \cap hits # {}
  BY DEF Met, FATHOM_TIERS
<1>3. Met(hits) \subseteq 1 .. 5
  BY DEF Met, FATHOM_TIERS
<1>4. least \in Met(hits) /\ \A k \in Met(hits) : least <= k
  <2>1. \E n \in Met(hits) : \A k \in Met(hits) : n <= k
    BY <1>1, <1>3
  <2> QED
    BY <2>1
<1> HIDE DEF least
<1>5. least = 5 <=> Met(hits) = {5}
  BY <1>3, <1>4
<1>6. FATHOM_TIERS[least].tier = "scheduled_event" <=> least = 5
  BY <1>3, <1>4 DEF FATHOM_TIERS
<1>7. /\ 1 \in Met(hits) <=> "manual" \in hits
      /\ 2 \in Met(hits) <=> "recorded_by" \in hits
      /\ 3 \in Met(hits) <=> "client_domain" \in hits
      /\ 4 \in Met(hits) <=> "participant" \in hits
      /\ 5 \in Met(hits) <=> hits \cap FathomTiming # {}
  BY <1>2 DEF FATHOM_TIERS
<1>8. hits \subseteq {"manual", "recorded_by", "client_domain", "participant"} \cup FathomTiming
  BY DEF Entries, FathomInclude
<1>9. Met(hits) = {5} <=> hits \subseteq FathomTiming
  BY <1>1, <1>3, <1>7, <1>8 DEF FathomTiming
<1>10. hits # {} /\ hits \cap CalendarExclude = {}
  BY <1>1, <1>3, <1>7, <1>8 DEF FathomTiming, CalendarExclude
<1> QED
  BY <1>1, <1>5, <1>6, <1>9, <1>10

\* Every assignment rests on more than a time or a link, or is left to the user.
THEOREM Assignments == MatchSpec => []AssignedByMoreThanTiming
<1>1. MatchInit => MatchInv
  BY DEF MatchInit, MatchInv, AssignedByMoreThanTiming
<1>2. MatchInv /\ [MatchNext]_matchVars => MatchInv'
  <2> SUFFICES ASSUME MatchInv, [MatchNext]_matchVars PROVE MatchInv'
    OBVIOUS
  <2> USE DEF MatchInv
  <2>1. CASE discover
    <3>1. /\ evaluate_match(item.kind, Hits) # Nothing
          /\ assignment' = get_or_create_artifact(evaluate_match(item.kind, Hits))
          /\ first_hits' = IF assignment = Nothing THEN Hits ELSE first_hits
          /\ item' = item
      BY <2>1 DEF discover
    <3>2. CASE assignment # Nothing
      BY <3>1, <3>2 DEF get_or_create_artifact, AssignedByMoreThanTiming
    <3>3. CASE assignment = Nothing
      <4>1. item.kind \in {"calendar", "fathom"} /\ Hits \subseteq Entries(item.kind)
        BY DEF Hits
      <4>2. /\ Hits \ CalendarExclude # {}
            /\ Hits \cap CalendarExclude = {}
            /\ evaluate_match(item.kind, Hits) = "scheduled_event" <=> Hits \subseteq FathomTiming
        BY <3>1, <4>1, CalendarTier, FathomTier DEF evaluate_match
      <4> QED
        BY <3>1, <3>3, <4>2 DEF get_or_create_artifact, AssignedByMoreThanTiming
    <3> QED
      BY <3>2, <3>3
  <2>2. CASE check_availability
    BY <2>2, MatchingAssumption DEF check_availability, AssignedByMoreThanTiming, ArtifactAvailability
  <2>3. CASE edit_boundary
    BY <2>3 DEF edit_boundary, AssignedByMoreThanTiming
  <2>4. CASE UNCHANGED matchVars
    BY <2>4 DEF matchVars, AssignedByMoreThanTiming
  <2> QED
    BY <2>1, <2>2, <2>3, <2>4 DEF MatchNext
<1> QED
  BY <1>1, <1>2, PTL DEF MatchSpec, MatchInv

-----------------------------------------------------------------------------
(* Least members, and counting. *)

\* A set of numbers has a least member.
LEMMA LeastOf ==
    ASSUME NEW T, T \subseteq Nat, T # {}
    PROVE  \E m \in T : \A n \in T : m <= n
<1>1. PICK m \in T : \A n \in T : ~ (<<n, m>> \in OpToRel(<, Nat))
  BY WFMin, NatLessThanWellFounded
<1>2. \A n \in T : m <= n
  <2> SUFFICES ASSUME NEW n \in T PROVE m <= n
    OBVIOUS
  <2>1. <<n, m>> \in Nat \X Nat => ~ (n < m)
    BY <1>1 DEF OpToRel
  <2> QED
    BY <2>1
<1> QED
  BY <1>2

\* What holds of 0 and passes from a number to the next holds of every number.
LEMMA Counting ==
    ASSUME NEW S, S \subseteq Nat, 0 \in S, \A n \in S : n + 1 \in S
    PROVE  \A n \in Nat : n \in S
<1> SUFFICES ASSUME Nat \ S # {} PROVE FALSE
  OBVIOUS
<1>1. PICK m \in Nat \ S : \A n \in Nat \ S : m <= n
  BY LeastOf
<1>2. m - 1 \in Nat /\ ~ (m <= m - 1)
  BY <1>1
<1> QED
  BY <1>1, <1>2

\* f repeats D from a, N times.
Loops(f, S, a, N, D) ==
    /\ f \in [0 .. N -> S]
    /\ f[0] = a
    /\ \A n \in 1 .. N : f[n] = D[<<f[n - 1], n>>]

\* What a function says of n by what it says of n - 1 defines one.
LEMMA Loop ==
    ASSUME NEW S, NEW a \in S, NEW N \in Nat, NEW D \in [S \X (1 .. N) -> S]
    PROVE  \E f : Loops(f, S, a, N, D)
<1> DEFINE Upto(k) == \E f : Loops(f, S, a, k, D)
           T == {k \in Nat : k <= N => Upto(k)}
<1>1. 0 \in T
  <2> DEFINE f == [n \in 0 .. 0 |-> a]
  <2>1. Loops(f, S, a, 0, D)
    BY DEF Loops
  <2> HIDE DEF f
  <2>2. Upto(0)
    BY <2>1
  <2> QED
    BY <2>1, <2>2 DEF Loops
<1>2. \A k \in T : k + 1 \in T
  <2> SUFFICES ASSUME NEW k \in Nat, k + 1 <= N, Upto(k) PROVE Upto(k + 1)
    OBVIOUS
  <2>1. PICK f : Loops(f, S, a, k, D)
    OBVIOUS
  <2> DEFINE last == D[<<f[k], k + 1>>]
             g == [n \in 0 .. k + 1 |-> IF n = k + 1 THEN last ELSE f[n]]
  <2>2. last \in S
    BY <2>1 DEF Loops
  <2> HIDE DEF last
  <2>3. g \in [0 .. k + 1 -> S]
    BY <2>1, <2>2 DEF Loops
  <2>4. g[0] = a
    BY <2>1 DEF Loops
  <2>5. ASSUME NEW n \in 1 .. k + 1 PROVE g[n] = D[<<g[n - 1], n>>]
    <3>1. CASE n = k + 1
      <4>1. g[n] = last /\ g[n - 1] = f[k] /\ n = k + 1
        BY <3>1
      <4> QED
        BY <4>1 DEF last
    <3>2. CASE n # k + 1
      <4>1. n \in 1 .. k /\ g[n] = f[n] /\ g[n - 1] = f[n - 1]
        BY <3>2
      <4> QED
        BY <4>1, <2>1 DEF Loops
    <3> QED
      BY <3>1, <3>2
  <2> HIDE DEF g
  <2>6. Loops(g, S, a, k + 1, D)
    BY <2>3, <2>4, <2>5 DEF Loops
  <2> QED
    BY <2>6
<1> HIDE DEF T
<1>3. N \in T
  BY <1>1, <1>2, Counting DEF T
<1> QED
  BY <1>3 DEF T

\* p has the sums of the first members of s.
Sums(p, s) ==
    /\ p \in [0 .. Len(s) -> Nat]
    /\ p[0] = 0
    /\ \A n \in 1 .. Len(s) : p[n] = p[n - 1] + s[n]

\* There is such a function for every sequence.
LEMMA SumsThere ==
    ASSUME NEW s \in Seq(Nat)
    PROVE  \E p : Sums(p, s)
<1>1. PICK N \in Nat : N = Len(s)
  OBVIOUS
<1> DEFINE D == [x \in Nat \X (1 .. N) |-> x[1] + s[x[2]]]
<1>2. D \in [Nat \X (1 .. N) -> Nat]
  BY <1>1
<1>3. \A v \in Nat, n \in 1 .. N : D[<<v, n>>] = v + s[n]
  OBVIOUS
<1>4. 0 \in Nat
  OBVIOUS
<1> HIDE DEF D
<1>5. PICK f : Loops(f, Nat, 0, N, D)
  BY <1>2, <1>4, Loop
<1>6. ASSUME NEW n \in 1 .. N PROVE f[n] = f[n - 1] + s[n]
  <2>1. f[n - 1] \in Nat /\ f[n] = D[<<f[n - 1], n>>]
    BY <1>5 DEF Loops
  <2> QED
    BY <1>3, <2>1
<1>7. f \in [0 .. N -> Nat] /\ f[0] = 0
  BY <1>5 DEF Loops
<1> QED
  BY <1>1, <1>6, <1>7 DEF Sums

\* Total is the last of those sums, whichever function has them.
LEMMA TotalIs ==
    ASSUME NEW s \in Seq(Nat), NEW p, Sums(p, s)
    PROVE  Total(s) = p[Len(s)]
<1> DEFINE P(f) == f = [n \in 0 .. Len(s) |-> IF n = 0 THEN 0 ELSE f[n - 1] + s[n]]
           sum == CHOOSE f : P(f)
<1>1. P(p)
  BY DEF Sums
<1>2. P(sum)
  BY <1>1
<1>3. Total(s) = sum[Len(s)]
  BY DEF Total
<1> HIDE DEF sum
<1> DEFINE T == {n \in Nat : n <= Len(s) => sum[n] = p[n]}
<1>4. 0 \in T
  BY <1>2 DEF Sums
<1>5. \A n \in T : n + 1 \in T
  BY <1>2 DEF Sums
<1> HIDE DEF T
<1>6. Len(s) \in T
  <2>1. T \subseteq Nat /\ Len(s) \in Nat
    BY DEF T
  <2> QED
    BY <1>4, <1>5, <2>1, Counting
<1> QED
  BY <1>3, <1>6 DEF T

LEMMA TotalOfNone == Total(<<>>) = 0
<1> DEFINE p == [n \in 0 .. 0 |-> 0]
<1>1. <<>> \in Seq(Nat) /\ Len(<<>>) = 0
  OBVIOUS
<1>2. Sums(p, <<>>)
  BY <1>1 DEF Sums
<1>3. p[0] = 0
  OBVIOUS
<1> HIDE DEF p
<1> QED
  BY <1>1, <1>2, <1>3, TotalIs

\* A length more adds to the total what it is.
LEMMA TotalAppend ==
    ASSUME NEW s \in Seq(Nat), NEW x \in Nat
    PROVE  Total(s) \in Nat /\ Total(Append(s, x)) = Total(s) + x
<1>1. PICK N \in Nat : N = Len(s)
  OBVIOUS
<1> DEFINE t == Append(s, x)
<1>2. t \in Seq(Nat) /\ Len(t) = N + 1 /\ t[N + 1] = x /\ \A n \in 1 .. N : t[n] = s[n]
  BY <1>1
<1> HIDE DEF t
<1>3. PICK p : Sums(p, t)
  BY <1>2, SumsThere
<1> DEFINE q == [n \in 0 .. N |-> p[n]]
<1>4. p \in [0 .. N + 1 -> Nat] /\ p[0] = 0 /\ p[N + 1] = p[N] + x
  BY <1>2, <1>3 DEF Sums
<1>5. ASSUME NEW n \in 1 .. N PROVE p[n] = p[n - 1] + s[n]
  BY <1>2, <1>3 DEF Sums
<1>6. Sums(q, s)
  BY <1>1, <1>4, <1>5 DEF Sums
<1>7. q[N] = p[N] /\ p[N] \in Nat
  BY <1>4
<1> HIDE DEF q
<1>8. Total(s) = p[N]
  BY <1>1, <1>6, <1>7, TotalIs
<1>9. Total(t) = p[N + 1]
  BY <1>2, <1>3, TotalIs
<1> QED
  BY <1>4, <1>7, <1>8, <1>9 DEF t

\* A total of lengths is a length.
LEMMA TotalIsNat ==
    ASSUME NEW s \in Seq(Nat)
    PROVE  Total(s) \in Nat
BY TotalAppend

\* Words take at least a character.
LEMMA WidthIsPositive ==
    ASSUME NEW words \in Seq(Nat \ {0}) \ {<<>>}
    PROVE  Widths(words) \in Nat \ {0}
<1>1. PICK N \in Nat : N = Len(words) /\ N > 0
  OBVIOUS
<1> DEFINE front == SubSeq(words, 1, N - 1)
<1>2. front \in Seq(Nat) /\ words[N] \in Nat \ {0}
  BY <1>1
<1>3. words = Append(front, words[N])
  BY <1>1
<1> HIDE DEF front
<1>4. Total(front) \in Nat /\ Total(words) = Total(front) + words[N]
  BY <1>2, <1>3, TotalAppend
<1> QED
  BY <1>1, <1>2, <1>4 DEF Widths

-----------------------------------------------------------------------------
(* Where paragraphs begin. *)

Length(paragraph) == Widths(paragraph.words)

\* A paragraph has a word, and a blank line after it.
LEMMA ParagraphLength ==
    ASSUME NEW p \in Paragraph
    PROVE  Length(p) \in Nat \ {0} /\ p.gap \in Nat /\ p.gap >= 2
BY WidthIsPositive DEF Paragraph, Length, BLANK_LINE

\* A paragraph begins where the one before it and its gap end.
LEMMA OffsetStep ==
    ASSUME NEW text \in Seq(Paragraph), NEW i \in 1 .. Len(text)
    PROVE  /\ OffsetOf(text, i) \in Nat
           /\ OffsetOf(text, i + 1) = OffsetOf(text, i) + Length(text[i]) + text[i].gap
<1> DEFINE F(j) == Widths(text[j].words) + text[j].gap
           s == [j \in 1 .. i - 1 |-> F(j)]
           t == [j \in 1 .. i |-> F(j)]
<1>1. \A j \in 1 .. i : F(j) \in Nat
  <2> SUFFICES ASSUME NEW j \in 1 .. i PROVE F(j) \in Nat
    OBVIOUS
  <2>1. text[j] \in Paragraph
    OBVIOUS
  <2> QED
    BY <2>1, ParagraphLength DEF Length
<1>2. OffsetOf(text, i) = Total(s)
  BY DEF OffsetOf
<1>3. OffsetOf(text, i + 1) = Total(t)
  <2>1. (i + 1) - 1 = i
    OBVIOUS
  <2> QED
    BY <2>1 DEF OffsetOf
<1>4. F(i) = Length(text[i]) + text[i].gap
  BY DEF Length
<1> HIDE DEF F
<1>5. s \in Seq(Nat) /\ Len(s) = i - 1
  BY <1>1
<1>6. t = Append(s, F(i))
  BY <1>5
<1> HIDE DEF s, t
<1>7. Length(text[i]) \in Nat /\ text[i].gap \in Nat
  BY ParagraphLength
<1>8. F(i) \in Nat
  BY <1>1
<1>9. Total(s) \in Nat /\ Total(t) = Total(s) + F(i)
  BY <1>5, <1>6, <1>8, TotalAppend
<1> QED
  BY <1>2, <1>3, <1>4, <1>7, <1>9

\* A text begins at its first paragraph.
LEMMA FirstOffset ==
    ASSUME NEW text \in Seq(Paragraph)
    PROVE  OffsetOf(text, 1) = 0
<1>1. [j \in 1 .. 1 - 1 |-> Widths(text[j].words) + text[j].gap] = <<>>
  OBVIOUS
<1> QED
  BY <1>1, TotalOfNone DEF OffsetOf

\* Every paragraph has an offset, and so has the end.
LEMMA OffsetIsNat ==
    ASSUME NEW text \in Seq(Paragraph), NEW i \in 1 .. Len(text) + 1
    PROVE  OffsetOf(text, i) \in Nat
<1>1. CASE i \in 1 .. Len(text)
  BY <1>1, OffsetStep
<1>2. CASE i = 1
  BY <1>2, FirstOffset
<1>3. CASE i = Len(text) + 1 /\ i # 1
  <2>1. PICK k \in 1 .. Len(text) : k + 1 = i
    BY <1>3
  <2>2. text[k] \in Paragraph
    OBVIOUS
  <2> QED
    BY <2>1, <2>2, OffsetStep, ParagraphLength
<1> QED
  BY <1>1, <1>2, <1>3

\* The text ends where its last paragraph does.
LEMMA ExtentIs ==
    ASSUME NEW text \in Seq(Paragraph), text # <<>>
    PROVE  Extent(text) = OffsetOf(text, Len(text)) + Length(text[Len(text)])
<1>1. PICK N \in Nat : N = Len(text) /\ N > 0
  OBVIOUS
<1> DEFINE F(j) == Widths(text[j].words) + text[j].gap
           s == [j \in 1 .. N - 1 |-> F(j)]
           t == [j \in DOMAIN text |-> Widths(text[j].words) + IF j = Len(text) THEN 0 ELSE text[j].gap]
<1>2. \A j \in 1 .. N : Length(text[j]) \in Nat /\ text[j].gap \in Nat
  BY <1>1, ParagraphLength
<1>3. OffsetOf(text, N) = Total(s) /\ Extent(text) = Total(t)
  BY DEF OffsetOf, Extent
<1>4. s \in Seq(Nat) /\ Len(s) = N - 1
  BY <1>1, <1>2 DEF Length
<1>5. t = Append(s, Length(text[N]))
  <2>1. Widths(text[N].words) = Length(text[N])
    BY DEF Length
  <2>2. DOMAIN t = 1 .. N /\ t[N] = Length(text[N])
    BY <1>1, <1>2, <2>1
  <2>3. \A j \in 1 .. N - 1 : t[j] = s[j]
    BY <1>1
  <2>4. DOMAIN Append(s, Length(text[N])) = 1 .. N
    BY <1>1, <1>4
  <2>5. \A j \in 1 .. N - 1 : Append(s, Length(text[N]))[j] = s[j]
    BY <1>1, <1>4
  <2>6. Append(s, Length(text[N]))[N] = Length(text[N])
    BY <1>1, <1>4
  <2>7. t \in [DOMAIN t -> {t[j] : j \in DOMAIN t}]
    OBVIOUS
  <2> HIDE DEF s, t
  <2> QED
    BY <1>1, <1>4, <2>2, <2>3, <2>4, <2>5, <2>6, <2>7
<1> HIDE DEF s, t
<1>6. PICK x \in Nat : x = Length(text[N])
  BY <1>1, <1>2
<1>7. Total(Append(s, x)) = Total(s) + x
  BY <1>4, TotalAppend
<1> QED
  BY <1>1, <1>3, <1>5, <1>6, <1>7

LEMMA NoExtent == Extent(<<>>) = 0
<1>1. [i \in DOMAIN <<>> |-> Widths(<<>>[i].words) + IF i = Len(<<>>) THEN 0 ELSE <<>>[i].gap] = <<>>
  OBVIOUS
<1> QED
  BY <1>1, TotalOfNone DEF Extent

\* Only the text without paragraphs is empty.
LEMMA ExtentIsNat ==
    ASSUME NEW text \in Seq(Paragraph)
    PROVE  Extent(text) \in Nat /\ (text # <<>> => Extent(text) > 0)
<1>1. CASE text = <<>>
  BY <1>1, NoExtent
<1>2. CASE text # <<>>
  <2>1. PICK N \in 1 .. Len(text) : N = Len(text)
    BY <1>2
  <2>2. OffsetOf(text, N) \in Nat /\ Length(text[N]) \in Nat \ {0}
    BY <2>1, OffsetStep, ParagraphLength
  <2> QED
    BY <1>2, <2>1, <2>2, ExtentIs
<1> QED
  BY <1>1, <1>2

\* A paragraph ends at least a blank line before a later one begins.
LEMMA OffsetsGrow ==
    ASSUME NEW text \in Seq(Paragraph), NEW i \in 1 .. Len(text), NEW j \in 1 .. Len(text) + 1, i < j
    PROVE  OffsetOf(text, i) + Length(text[i]) + 2 <= OffsetOf(text, j)
<1>1. PICK N \in Nat : N = Len(text)
  OBVIOUS
<1> DEFINE end == OffsetOf(text, i) + Length(text[i]) + 2
           T == {k \in Nat : i < k /\ k <= N + 1 => end <= OffsetOf(text, k)}
<1>2. \A k \in 1 .. N : /\ OffsetOf(text, k) \in Nat
                        /\ OffsetOf(text, k + 1) = OffsetOf(text, k) + Length(text[k]) + text[k].gap
                        /\ Length(text[k]) \in Nat
                        /\ text[k].gap \in Nat /\ text[k].gap >= 2
  <2> SUFFICES ASSUME NEW k \in 1 .. N
               PROVE  /\ OffsetOf(text, k) \in Nat
                      /\ OffsetOf(text, k + 1) = OffsetOf(text, k) + Length(text[k]) + text[k].gap
                      /\ Length(text[k]) \in Nat
                      /\ text[k].gap \in Nat /\ text[k].gap >= 2
    OBVIOUS
  <2>1. k \in 1 .. Len(text) /\ text[k] \in Paragraph
    BY <1>1
  <2> QED
    BY <2>1, OffsetStep, ParagraphLength
<1>3. end \in Nat
  BY <1>1, <1>2
<1>4. 0 \in T
  OBVIOUS
<1>5. \A k \in T : k + 1 \in T
  <2> SUFFICES ASSUME NEW k \in T, i < k + 1, k + 1 <= N + 1 PROVE end <= OffsetOf(text, k + 1)
    OBVIOUS
  <2>1. k \in 1 .. N
    BY <1>1
  <2>a. /\ OffsetOf(text, k) \in Nat /\ Length(text[k]) \in Nat /\ text[k].gap \in Nat
        /\ OffsetOf(text, k + 1) = OffsetOf(text, k) + Length(text[k]) + text[k].gap
        /\ text[k].gap >= 2
    BY <1>2, <2>1
  <2>2. CASE i = k
    BY <2>a, <2>2
  <2>3. CASE i < k
    <3>1. end <= OffsetOf(text, k)
      BY <2>1, <2>3
    <3> HIDE DEF end
    <3> QED
      BY <1>3, <2>a, <3>1
  <2> QED
    BY <2>1, <2>2, <2>3
<1> HIDE DEF T
<1>6. T \subseteq Nat /\ j \in Nat
  BY <1>1 DEF T
<1>7. j \in T
  BY <1>4, <1>5, <1>6, Counting
<1> QED
  BY <1>1, <1>7 DEF T

\* What follows a paragraph has no part in where it is.
LEMMA OffsetOfPrefix ==
    ASSUME NEW text \in Seq(Paragraph), NEW more \in Seq(Paragraph), NEW i \in 1 .. Len(text) + 1
    PROVE  OffsetOf(text \o more, i) = OffsetOf(text, i)
<1>1. \A j \in 1 .. i - 1 : (text \o more)[j] = text[j]
  OBVIOUS
<1>2. [j \in 1 .. i - 1 |-> Widths((text \o more)[j].words) + (text \o more)[j].gap]
        = [j \in 1 .. i - 1 |-> Widths(text[j].words) + text[j].gap]
  BY <1>1
<1> QED
  BY <1>2 DEF OffsetOf

\* What comes before a text moves all of it alike.
LEMMA OffsetAfter ==
    ASSUME NEW text \in Seq(Paragraph), NEW more \in Seq(Paragraph), NEW j \in 1 .. Len(more) + 1
    PROVE  OffsetOf(text \o more, Len(text) + j)
              = OffsetOf(text \o more, Len(text) + 1) + OffsetOf(more, j)
<1>1. PICK N \in Nat, M \in Nat : N = Len(text) /\ M = Len(more)
  OBVIOUS
<1> DEFINE all == text \o more
<1>2. all \in Seq(Paragraph)
  OBVIOUS
<1>3. Len(all) = N + M /\ \A k \in 1 .. M : all[N + k] = more[k]
  BY <1>1
<1> HIDE DEF all
<1> DEFINE T == {k \in Nat : k < M + 1 =>
                    OffsetOf(all, N + (k + 1)) = OffsetOf(all, N + 1) + OffsetOf(more, k + 1)}
<1>4. 0 \in T
  <2>1. OffsetOf(all, N + 1) \in Nat /\ N + (0 + 1) = N + 1 /\ 0 + 1 = 1
    <3>1. N + 1 \in 1 .. Len(all) + 1
      BY <1>3
    <3> QED
      BY <1>2, <3>1, OffsetIsNat
  <2> QED
    BY <2>1, FirstOffset
<1>5. \A k \in T : k + 1 \in T
  <2> SUFFICES ASSUME NEW k \in T, k + 1 < M + 1 PROVE k + 1 \in T
    OBVIOUS
  <2>1. PICK n \in 1 .. M : n = k + 1
    OBVIOUS
  <2>2. OffsetOf(all, N + n) = OffsetOf(all, N + 1) + OffsetOf(more, n)
    BY <2>1
  <2>3. /\ OffsetOf(more, n) \in Nat
        /\ OffsetOf(more, n + 1) = OffsetOf(more, n) + Length(more[n]) + more[n].gap
    BY <1>1, OffsetStep
  <2>4. N + n \in 1 .. Len(all) /\ all[N + n] = more[n]
    BY <1>3
  <2>5. OffsetOf(all, (N + n) + 1) = OffsetOf(all, N + n) + Length(more[n]) + more[n].gap
    BY <1>2, <2>4, OffsetStep
  <2>6. OffsetOf(all, N + 1) \in Nat /\ Length(more[n]) \in Nat /\ more[n].gap \in Nat
    <3>1. N + 1 \in 1 .. Len(all) + 1 /\ more[n] \in Paragraph
      BY <1>1, <1>3
    <3> QED
      BY <1>2, <3>1, OffsetIsNat, ParagraphLength
  <2>7. OffsetOf(all, (N + n) + 1) = OffsetOf(all, N + 1) + OffsetOf(more, n + 1)
    <3> DEFINE a == OffsetOf(all, N + 1)
               b == OffsetOf(more, n)
               l == Length(more[n])
               g == more[n].gap
    <3>1. OffsetOf(all, (N + n) + 1) = (a + b) + l + g
      BY <2>2, <2>5
    <3>2. OffsetOf(more, n + 1) = b + l + g
      BY <2>3
    <3>3. a \in Nat /\ b \in Nat /\ l \in Nat /\ g \in Nat
      BY <2>3, <2>6
    <3> HIDE DEF a, b, l, g
    <3>4. (a + b) + l + g = a + (b + l + g)
      BY <3>3
    <3> QED
      BY <3>1, <3>2, <3>4 DEF a
  <2>8. (N + n) + 1 = N + ((k + 1) + 1) /\ n + 1 = (k + 1) + 1 /\ k + 1 \in Nat
    BY <2>1
  <2>9. OffsetOf(all, N + ((k + 1) + 1)) = OffsetOf(all, N + 1) + OffsetOf(more, (k + 1) + 1)
    BY <2>7, <2>8, Zenon
  <2> QED
    BY <2>8, <2>9
<1> HIDE DEF T
<1>6. T \subseteq Nat /\ j - 1 \in Nat
  BY <1>1 DEF T
<1>7. j - 1 \in T
  BY <1>4, <1>5, <1>6, Counting
<1>8. (j - 1) + 1 = j /\ j - 1 < M + 1
  BY <1>1
<1> QED
  BY <1>1, <1>7, <1>8 DEF T, all

-----------------------------------------------------------------------------
(* The paragraphs of a document that are to be read. *)

Block == [char_start : Nat, char_end : Nat]

\* A paragraph's block begins where it does and is as long.
LEMMA ParagraphBlock ==
    ASSUME NEW text \in Seq(Paragraph)
    PROVE  /\ _split_paragraphs(text) \in Seq(Block)
           /\ Len(_split_paragraphs(text)) = Len(text)
           /\ \A i \in 1 .. Len(text) :
                 /\ _split_paragraphs(text)[i].char_start = OffsetOf(text, i)
                 /\ _split_paragraphs(text)[i].char_end = OffsetOf(text, i) + Length(text[i])
<1>1. PICK N \in Nat : N = Len(text) /\ DOMAIN text = 1 .. N
  OBVIOUS
<1> DEFINE b(i) == [char_start |-> OffsetOf(text, i),
                    char_end |-> OffsetOf(text, i) + Widths(text[i].words)]
<1>2. ASSUME NEW i \in 1 .. N
      PROVE  b(i) \in Block
  <2>1. OffsetOf(text, i) \in Nat /\ Widths(text[i].words) \in Nat
    BY <1>1, OffsetStep, ParagraphLength DEF Length
  <2> QED
    BY <2>1 DEF Block
<1>3. _split_paragraphs(text) = [i \in 1 .. N |-> b(i)]
  BY <1>1 DEF _split_paragraphs
<1>4. \A i \in 1 .. N : /\ b(i).char_start = OffsetOf(text, i)
                       /\ b(i).char_end = OffsetOf(text, i) + Length(text[i])
  BY DEF Length
<1> HIDE DEF b
<1> QED
  BY <1>1, <1>2, <1>3, <1>4

\* Only one sequence has no member.
LEMMA NoLength ==
    ASSUME NEW S, NEW s \in Seq(S), Len(s) = 0
    PROVE  s = <<>>
<1>1. s = [i \in 1 .. 0 |-> s[i]] /\ [i \in 1 .. 0 |-> s[i]] = <<>>
  OBVIOUS
<1> QED
  BY <1>1

\* FlattenSeq of a longer sequence.
Flattens(p, ss) ==
    /\ DOMAIN p = 1 .. Len(ss)
    /\ Len(ss) > 0 => p[1] = ss[1]
    /\ \A n \in 2 .. Len(ss) : p[n] = p[n - 1] \o ss[n]

\* There is a function that has the joined beginnings of ss.
LEMMA FlattensThere ==
    ASSUME NEW S, NEW ss \in Seq(Seq(S))
    PROVE  \E p \in [1 .. Len(ss) -> Seq(S)] : Flattens(p, ss)
<1>1. PICK N \in Nat : N = Len(ss)
  OBVIOUS
<1> DEFINE Q == Seq(S)
           D == [x \in Q \X (1 .. N) |-> x[1] \o ss[x[2]]]
<1>2. ASSUME NEW v \in Q, NEW n \in 1 .. N PROVE v \o ss[n] \in Q
  BY <1>1
<1>3. D \in [Q \X (1 .. N) -> Q]
  <2> SUFFICES ASSUME NEW x \in Q \X (1 .. N) PROVE x[1] \o ss[x[2]] \in Q
    OBVIOUS
  <2>1. x[1] \in Q /\ x[2] \in 1 .. N
    BY Zenon
  <2> QED
    BY <1>2, <2>1
<1>4. \A v \in Q, n \in 1 .. N : D[<<v, n>>] = v \o ss[n]
  OBVIOUS
<1>5. <<>> \in Q
  OBVIOUS
<1> HIDE DEF D, Q
<1>6. PICK f : Loops(f, Q, <<>>, N, D)
  BY <1>3, <1>5, Loop
<1> DEFINE p == [n \in 1 .. N |-> f[n]]
<1>7. ASSUME NEW n \in 1 .. N
      PROVE  f[n] = f[n - 1] \o ss[n] /\ f[n - 1] \in Q /\ f[n] \in Q
  <2>1. f[n - 1] \in Q /\ f[n] \in Q /\ f[n] = D[<<f[n - 1], n>>]
    BY <1>6 DEF Loops
  <2> QED
    BY <1>4, <2>1
<1>8. p \in [1 .. N -> Q]
  BY <1>7
<1>9. N > 0 => p[1] = ss[1]
  <2> SUFFICES ASSUME N > 0 PROVE f[1] = ss[1]
    OBVIOUS
  <2>1. f[1] = <<>> \o ss[1]
    <3>1. 1 \in 1 .. N /\ 1 - 1 = 0
      OBVIOUS
    <3>2. f[0] = <<>>
      BY <1>6 DEF Loops
    <3> QED
      BY <1>7, <3>1, <3>2
  <2>2. ss[1] \in Seq(S)
    BY <1>1
  <2> QED
    BY <2>1, <2>2
<1>10. \A n \in 2 .. N : p[n] = p[n - 1] \o ss[n]
  <2> SUFFICES ASSUME NEW n \in 2 .. N PROVE p[n] = p[n - 1] \o ss[n]
    OBVIOUS
  <2>1. n \in 1 .. N /\ n - 1 \in 1 .. N
    OBVIOUS
  <2> QED
    BY <1>7, <2>1
<1> HIDE DEF p
<1>11. Flattens(p, ss)
  BY <1>1, <1>8, <1>9, <1>10 DEF Flattens
<1> QED
  BY <1>1, <1>8, <1>11 DEF Q

\* FlattenSeq is the last of those beginnings, whichever function has them.
LEMMA FlattenIs ==
    ASSUME NEW S, NEW ss \in Seq(Seq(S)), Len(ss) > 0, NEW p, Flattens(p, ss)
    PROVE  p \in [1 .. Len(ss) -> Seq(S)] => FlattenSeq(ss) = p[Len(ss)]
<1> SUFFICES ASSUME p \in [1 .. Len(ss) -> Seq(S)] PROVE FlattenSeq(ss) = p[Len(ss)]
  OBVIOUS
<1>1. PICK N \in Nat : N = Len(ss) /\ N > 0
  OBVIOUS
<1> DEFINE P(f) == f = [i \in 1 .. Len(ss) |-> IF i = 1 THEN ss[i] ELSE f[i - 1] \o ss[i]]
           flatten == CHOOSE f : P(f)
<1>2. P(p)
  <2>1. ASSUME NEW i \in 1 .. Len(ss) PROVE p[i] = IF i = 1 THEN ss[i] ELSE p[i - 1] \o ss[i]
    <3>1. i # 1 => i \in 2 .. Len(ss)
      OBVIOUS
    <3> QED
      BY <3>1 DEF Flattens
  <2> QED
    BY <2>1
<1>3. P(flatten)
  BY <1>2
<1>4. FlattenSeq(ss) = flatten[Len(ss)]
  BY <1>1 DEF FlattenSeq
<1> HIDE DEF flatten
<1>5. \A n \in 1 .. N : flatten[n] = IF n = 1 THEN ss[n] ELSE flatten[n - 1] \o ss[n]
  BY <1>1, <1>3
<1>6. \A n \in 1 .. N : p[n] = IF n = 1 THEN ss[n] ELSE p[n - 1] \o ss[n]
  BY <1>1, <1>2
<1> DEFINE T == {k \in Nat : k < N => flatten[k + 1] = p[k + 1]}
<1>7. 0 \in T
  <2>1. 1 \in 1 .. N /\ 0 + 1 = 1
    BY <1>1
  <2>2. flatten[1] = ss[1] /\ p[1] = ss[1]
    BY <1>5, <1>6, <2>1
  <2> QED
    BY <2>1, <2>2
<1>8. \A k \in T : k + 1 \in T
  <2> SUFFICES ASSUME NEW k \in T, k + 1 < N PROVE flatten[(k + 1) + 1] = p[(k + 1) + 1]
    OBVIOUS
  <2>1. PICK n \in 1 .. N : n = (k + 1) + 1 /\ n - 1 = k + 1 /\ n # 1
    OBVIOUS
  <2>2. flatten[n] = flatten[n - 1] \o ss[n] /\ p[n] = p[n - 1] \o ss[n]
    BY <1>5, <1>6, <2>1
  <2>3. flatten[n - 1] = p[n - 1]
    BY <2>1
  <2> QED
    BY <2>1, <2>2, <2>3
<1> HIDE DEF T
<1>9. T \subseteq Nat /\ N - 1 \in Nat
  BY <1>1 DEF T
<1>10. N - 1 \in T
  BY <1>7, <1>8, <1>9, Counting
<1> QED
  BY <1>1, <1>4, <1>10 DEF T

LEMMA FlattenOfNone == FlattenSeq(<<>>) = <<>>
BY DEF FlattenSeq

\* A member more is joined at the end.
LEMMA FlattenAppend ==
    ASSUME NEW S, NEW ss \in Seq(Seq(S)), NEW s \in Seq(S)
    PROVE  /\ FlattenSeq(ss) \in Seq(S)
           /\ FlattenSeq(Append(ss, s)) = FlattenSeq(ss) \o s
<1>1. PICK N \in Nat : N = Len(ss)
  OBVIOUS
<1> DEFINE t == Append(ss, s)
<1>2. t \in Seq(Seq(S)) /\ Len(t) = N + 1 /\ t[N + 1] = s /\ \A n \in 1 .. N : t[n] = ss[n]
  BY <1>1
<1> HIDE DEF t
<1>3. PICK p \in [1 .. Len(t) -> Seq(S)] : Flattens(p, t)
  BY <1>2, FlattensThere
<1>4. FlattenSeq(t) = p[N + 1]
  <2>1. Len(t) > 0
    BY <1>2
  <2> QED
    BY <1>2, <1>3, <2>1, FlattenIs
<1>5. CASE N = 0
  <2>1. ss = <<>>
    BY <1>1, <1>5, NoLength
  <2>2. p[1] = s
    BY <1>2, <1>3, <1>5 DEF Flattens
  <2>3. <<>> \o s = s /\ <<>> \in Seq(S)
    OBVIOUS
  <2>4. FlattenSeq(t) = s /\ FlattenSeq(ss) = <<>>
    BY <1>4, <1>5, <2>1, <2>2, FlattenOfNone
  <2> QED
    BY <2>3, <2>4 DEF t
<1>6. CASE N > 0
  <2> DEFINE q == [n \in 1 .. N |-> p[n]]
  <2>1. q \in [1 .. N -> Seq(S)]
    BY <1>2
  <2>2. q[1] = ss[1] /\ \A n \in 2 .. N : q[n] = q[n - 1] \o ss[n]
    <3>1. q[1] = ss[1]
      BY <1>2, <1>3, <1>6 DEF Flattens
    <3>2. ASSUME NEW n \in 2 .. N PROVE q[n] = q[n - 1] \o ss[n]
      <4>1. n \in 2 .. Len(t) /\ t[n] = ss[n] /\ n \in 1 .. N /\ n - 1 \in 1 .. N
        BY <1>2
      <4>2. p[n] = p[n - 1] \o ss[n]
        BY <1>3, <4>1 DEF Flattens
      <4> QED
        BY <4>1, <4>2
    <3> QED
      BY <3>1, <3>2
  <2>3. q[N] = p[N]
    BY <1>6
  <2> HIDE DEF q
  <2>4. Flattens(q, ss)
    BY <1>1, <2>1, <2>2 DEF Flattens
  <2>5. FlattenSeq(ss) = q[N]
    BY <1>1, <1>6, <2>1, <2>4, FlattenIs
  <2>6. p[N + 1] = p[N] \o s
    <3>1. N + 1 \in 2 .. Len(t) /\ (N + 1) - 1 = N
      BY <1>2, <1>6
    <3> QED
      BY <1>2, <1>3, <3>1 DEF Flattens
  <2>7. q[N] \in Seq(S)
    BY <1>6, <2>1
  <2> QED
    BY <1>4, <2>3, <2>5, <2>6, <2>7 DEF t
<1> QED
  BY <1>1, <1>5, <1>6

\* A run of a sequence.
Run(s, i, j) == [k \in 1 .. j - i + 1 |-> s[i + k - 1]]

\* From i to j within the sequence s, or none if j is i - 1.
Within(S, s, i, j) ==
    /\ s \in Seq(S) /\ i \in Nat \ {0} /\ j \in Nat
    /\ i <= j + 1 /\ j <= Len(s)

IsRun(r, S, s, i, j) ==
    /\ r \in Seq(S)
    /\ Len(r) = j - i + 1
    /\ \A k \in 1 .. j - i + 1 : r[k] = s[i + k - 1]

\* A run has the members from i to j, in order.
LEMMA RunIs ==
    ASSUME NEW S, NEW s, NEW i, NEW j, Within(S, s, i, j)
    PROVE  IsRun(Run(s, i, j), S, s, i, j)
<1>1. PICK m \in Nat : m = j - i + 1
  BY DEF Within
<1>2. ASSUME NEW k \in 1 .. m PROVE s[i + k - 1] \in S
  <2>1. i + k - 1 \in 1 .. Len(s)
    BY <1>1 DEF Within
  <2> QED
    BY <2>1 DEF Within
<1>3. [k \in 1 .. m |-> s[i + k - 1]] \in Seq(S) /\ Len([k \in 1 .. m |-> s[i + k - 1]]) = m
  BY <1>2
<1>4. Run(s, i, j) = [k \in 1 .. m |-> s[i + k - 1]]
  BY <1>1 DEF Run
<1> QED
  BY <1>1, <1>3, <1>4 DEF IsRun

\* The next member makes a run one longer.
LEMMA RunAppend ==
    ASSUME NEW S, NEW s \in Seq(S), NEW i \in Nat \ {0}, NEW j \in Nat, i <= j + 1, j + 1 <= Len(s)
    PROVE  Run(s, i, j + 1) = Append(Run(s, i, j), s[j + 1])
<1>1. PICK m \in Nat : m = j - i + 1
  OBVIOUS
<1>2. Run(s, i, j) \in Seq(S) /\ Len(Run(s, i, j)) = m /\ \A k \in 1 .. m : Run(s, i, j)[k] = s[i + k - 1]
  <2>1. Within(S, s, i, j)
    BY DEF Within
  <2>2. IsRun(Run(s, i, j), S, s, i, j)
    BY <2>1, RunIs
  <2> QED
    BY <1>1, <2>2 DEF IsRun
<1>3. (j + 1) - i + 1 = m + 1 /\ i + (m + 1) - 1 = j + 1
  BY <1>1
<1>4. Run(s, i, j + 1) = [k \in 1 .. m + 1 |-> s[i + k - 1]]
  BY <1>3 DEF Run
<1> DEFINE t == Append(Run(s, i, j), s[j + 1])
<1>5. s[j + 1] \in S
  OBVIOUS
<1>6. t \in Seq(S) /\ Len(t) = m + 1 /\ t[m + 1] = s[j + 1] /\ \A k \in 1 .. m : t[k] = Run(s, i, j)[k]
  BY <1>2, <1>5
<1> HIDE DEF t
<1>7. t = [k \in 1 .. m + 1 |-> t[k]]
  BY <1>6
<1>8. \A k \in 1 .. m + 1 : t[k] = s[i + k - 1]
  BY <1>2, <1>3, <1>6
<1> QED
  BY <1>4, <1>7, <1>8 DEF t

\* Each member of s between the two on its own, and nothing for the others.
Leaves(ss, s, first, last) ==
    /\ Len(ss) = Len(s)
    /\ \A i \in 1 .. Len(s) : ss[i] = IF first <= i /\ i <= last THEN <<s[i]>> ELSE <<>>

\* What is left of a sequence of which one run is taken.
LEMMA FlattenRun ==
    ASSUME NEW S, NEW s, NEW first, NEW last, Within(S, s, first, last),
           NEW ss \in Seq(Seq(S)), Leaves(ss, s, first, last)
    PROVE  FlattenSeq(ss) = Run(s, first, last)
<1> USE DEF Within, Leaves
<1>1. PICK N \in Nat : N = Len(s)
  OBVIOUS
<1> DEFINE upto(n) == IF n < first THEN first - 1 ELSE IF n > last THEN last ELSE n
           front(n) == SubSeq(ss, 1, n)
           T == {n \in Nat : n <= N => FlattenSeq(front(n)) = Run(s, first, upto(n))}
<1>2. \A n \in 0 .. N : front(n) \in Seq(Seq(S)) /\ Len(front(n)) = n
  BY <1>1
<1>3. 0 \in T
  <2>1. front(0) = <<>>
    BY <1>2, NoLength
  <2>2. upto(0) = first - 1 /\ Run(s, first, first - 1) = <<>>
    BY DEF Run
  <2> QED
    BY <2>1, <2>2, FlattenOfNone
<1>4. ASSUME NEW n \in T, n + 1 <= N
      PROVE  FlattenSeq(front(n + 1)) = Run(s, first, upto(n + 1))
  <2>n. n \in Nat
    OBVIOUS
  <2>1. n \in 0 .. N /\ n + 1 \in 1 .. N /\ front(n) \in Seq(Seq(S)) /\ ss[n + 1] \in Seq(S)
    BY <1>1, <1>2, <1>4, <2>n
  <2>2. front(n + 1) = Append(front(n), ss[n + 1])
    BY <1>1, <2>1
  <2>3. FlattenSeq(front(n)) = Run(s, first, upto(n))
    BY <2>1
  <2>a. upto(n) \in Int /\ upto(n) + 1 >= first
    OBVIOUS
  <2> HIDE DEF front
  <2>4. FlattenSeq(front(n + 1)) = Run(s, first, upto(n)) \o ss[n + 1]
    BY <2>1, <2>2, <2>3, FlattenAppend
  <2>b. Run(s, first, upto(n)) \in Seq(S)
    BY <2>1, <2>3, FlattenAppend
  <2>5. CASE first <= n + 1 /\ n + 1 <= last
    <3>1. upto(n) = n /\ upto(n + 1) = n + 1
      BY <2>5
    <3>2. ss[n + 1] = <<s[n + 1]>>
      BY <1>1, <2>1, <2>5
    <3>3. Run(s, first, n) \o <<s[n + 1]>> = Run(s, first, n + 1)
      <4>1. Run(s, first, n) \o <<s[n + 1]>> = Append(Run(s, first, n), s[n + 1])
        BY <1>1, <2>1, <2>b, <3>1
      <4>2. first <= n + 1 /\ n + 1 <= Len(s)
        BY <1>1, <2>1, <2>5
      <4>3. Run(s, first, n + 1) = Append(Run(s, first, n), s[n + 1])
        BY <2>n, <4>2, RunAppend
      <4> QED
        BY <4>1, <4>3
    <3> QED
      BY <2>4, <3>1, <3>2, <3>3
  <2>6. CASE ~ (first <= n + 1 /\ n + 1 <= last)
    <3>1. upto(n + 1) = upto(n)
      BY <2>6
    <3>2. ss[n + 1] = <<>>
      BY <1>1, <2>1, <2>6
    <3>3. Run(s, first, upto(n)) \o <<>> = Run(s, first, upto(n))
      BY <2>b
    <3> QED
      BY <2>4, <3>1, <3>2, <3>3
  <2> QED
    BY <2>5, <2>6
<1>n. ASSUME NEW n \in T
      PROVE  n + 1 \in T
  <2> HIDE DEF front, upto
  <2>1. n + 1 \in Nat
    OBVIOUS
  <2>2. n + 1 <= N => FlattenSeq(front(n + 1)) = Run(s, first, upto(n + 1))
    BY <1>4
  <2> QED
    BY <2>1, <2>2
<1> HIDE DEF T
<1>5. N \in T
  <2>1. T \subseteq Nat
    BY DEF T
  <2> QED
    BY <1>3, <1>n, <2>1, Counting
<1>6. front(N) = ss
  BY <1>1
<1>7. upto(N) = last
  BY <1>1
<1>8. FlattenSeq(front(N)) = Run(s, first, upto(N))
  BY <1>5 DEF T
<1> QED
  BY <1>6, <1>7, <1>8

\* The paragraphs that extraction is to read: from this one
FirstRead(doc) == IF doc.kind \in {"gmail", "manual"} THEN 1 ELSE Len(doc.header) + 1

\* to this one.
LastRead(doc) == Len(doc.header) + Len(doc.own)

\* What a document is made of.
LEMMA DocumentParts ==
    ASSUME NEW doc \in Document
    PROVE  /\ doc.kind \in DocumentKinds
           /\ doc.header \in Seq(Paragraph) /\ doc.own \in Seq(Paragraph) /\ doc.rest \in Seq(Paragraph)
           /\ doc.target \in Nat \ {0} /\ doc.overlap \in Nat /\ doc.unmarked \in Nat
           /\ full_text(doc) \in Seq(Paragraph)
           /\ Len(full_text(doc)) = Len(doc.header) + Len(doc.own) + Len(doc.rest)
           /\ full_text(doc) = doc.header \o (doc.own \o doc.rest)
           /\ doc.header \o doc.own \in Seq(Paragraph)
           /\ Len(doc.header \o doc.own) = LastRead(doc)
           /\ Len(doc.header) \in Nat /\ Len(doc.own) \in Nat /\ Len(doc.rest) \in Nat
           /\ LastRead(doc) \in Nat /\ Len(full_text(doc)) = LastRead(doc) + Len(doc.rest)
<1>1. doc \in [kind : DocumentKinds, header : Seq(Paragraph), own : Seq(Paragraph),
               rest : Seq(Paragraph), unmarked : Nat, target : Nat \ {0}, overlap : Nat]
  BY DEF Document
<1>2. PICK h \in Seq(Paragraph), o \in Seq(Paragraph), r \in Seq(Paragraph) :
              h = doc.header /\ o = doc.own /\ r = doc.rest
  BY <1>1
<1>3. h \o o \o r \in Seq(Paragraph) /\ Len(h \o o \o r) = Len(h) + Len(o) + Len(r)
  OBVIOUS
<1>4. h \o o \o r = h \o (o \o r)
  OBVIOUS
<1>5. h \o o \in Seq(Paragraph) /\ Len(h \o o) = Len(h) + Len(o)
  OBVIOUS
<1> QED
  BY <1>1, <1>2, <1>3, <1>4, <1>5 DEF full_text, LastRead

\* The paragraphs to be read are a range of the text's, perhaps an empty one.
LEMMA ReadRange ==
    ASSUME NEW doc \in Document
    PROVE  /\ FirstRead(doc) \in Nat \ {0} /\ LastRead(doc) \in Nat
           /\ FirstRead(doc) <= LastRead(doc) + 1
           /\ LastRead(doc) <= Len(full_text(doc))
<1>1. PICK H \in Nat, O \in Nat, R \in Nat :
            /\ H = Len(doc.header) /\ O = Len(doc.own) /\ R = Len(doc.rest)
            /\ LastRead(doc) = H + O /\ Len(full_text(doc)) = H + O + R
  BY DocumentParts DEF LastRead
<1>2. FirstRead(doc) = 1 \/ FirstRead(doc) = H + 1
  BY <1>1 DEF FirstRead
<1>3. PICK first \in {1, H + 1} : first = FirstRead(doc)
  BY <1>2
<1>4. first \in Nat \ {0} /\ H + O \in Nat /\ first <= (H + O) + 1 /\ H + O <= H + O + R
  OBVIOUS
<1> QED
  BY <1>1, <1>3, <1>4

\* The author's own words begin after a header and one blank line.
LEMMA AfterHeader ==
    ASSUME NEW doc \in Document, doc.header # <<>>
    PROVE  OffsetOf(full_text(doc), Len(doc.header) + 1) = Extent(doc.header) + 2
<1>1. PICK h \in Seq(Paragraph), more \in Seq(Paragraph) :
              h = doc.header /\ full_text(doc) = h \o more
  <2>1. doc.own \in Seq(Paragraph) /\ doc.rest \in Seq(Paragraph)
    BY DocumentParts
  <2>2. doc.own \o doc.rest \in Seq(Paragraph)
    BY <2>1
  <2> QED
    BY <2>2, DocumentParts
<1>2. h[Len(h)].gap = 2
  BY <1>1 DEF Document, PartEnds, BLANK_LINE
<1>3. PICK H \in Nat : H = Len(h) /\ H > 0
  BY <1>1
<1>4. Extent(h) = OffsetOf(h, H) + Length(h[H])
  BY <1>1, <1>3, ExtentIs
<1>5. OffsetOf(h, H) \in Nat /\ OffsetOf(h, H + 1) = OffsetOf(h, H) + Length(h[H]) + 2
  BY <1>2, <1>3, OffsetStep
<1>6. OffsetOf(h \o more, H + 1) = OffsetOf(h, H + 1)
  BY <1>3, OffsetOfPrefix
<1>7. Length(h[H]) \in Nat
  BY <1>3, ParagraphLength
<1> QED
  BY <1>1, <1>3, <1>4, <1>5, <1>6, <1>7

\* Blocks are not empty, and there are gaps between them.
LEMMA BlocksInOrder ==
    ASSUME NEW text \in Seq(Paragraph), NEW i \in 1 .. Len(text)
    PROVE  /\ _split_paragraphs(text)[i] \in Block
           /\ _split_paragraphs(text)[i].char_start < _split_paragraphs(text)[i].char_end
           /\ \A j \in 1 .. Len(text) :
                 i < j => _split_paragraphs(text)[i].char_end + 2 <= _split_paragraphs(text)[j].char_start
<1>1. text[i] \in Paragraph
  OBVIOUS
<1>2. Length(text[i]) \in Nat \ {0} /\ OffsetOf(text, i) \in Nat
  BY <1>1, ParagraphLength, OffsetStep
<1>3. /\ _split_paragraphs(text)[i].char_start = OffsetOf(text, i)
      /\ _split_paragraphs(text)[i].char_end = OffsetOf(text, i) + Length(text[i])
  BY ParagraphBlock
<1>4. ASSUME NEW j \in 1 .. Len(text), i < j
      PROVE  _split_paragraphs(text)[i].char_end + 2 <= _split_paragraphs(text)[j].char_start
  <2>1. _split_paragraphs(text)[j].char_start = OffsetOf(text, j)
    BY ParagraphBlock
  <2> QED
    BY <1>3, <1>4, <2>1, OffsetsGrow
<1>5. _split_paragraphs(text)[i] \in Block
  BY ParagraphBlock
<1> QED
  BY <1>2, <1>3, <1>4, <1>5

\* Of two paragraphs, offsets tell which is the earlier.
LEMMA OffsetsOrdered ==
    ASSUME NEW text \in Seq(Paragraph), NEW i \in 1 .. Len(text), NEW n \in 1 .. Len(text) + 1
    PROVE  /\ OffsetOf(text, n) <= OffsetOf(text, i) <=> n <= i
           /\ OffsetOf(text, i) + Length(text[i]) < OffsetOf(text, n) <=> i < n
<1>1. OffsetOf(text, i) \in Nat /\ OffsetOf(text, n) \in Nat /\ Length(text[i]) \in Nat
  BY OffsetIsNat, ParagraphLength
<1>2. i \in Nat /\ n \in Nat
  OBVIOUS
<1>3. CASE n = i
  BY <1>1, <1>2, <1>3
<1>4. CASE i < n
  BY <1>1, <1>2, <1>4, OffsetsGrow
<1>5. CASE n < i
  <2>1. n \in 1 .. Len(text) /\ i \in 1 .. Len(text) + 1
    BY <1>5
  <2>2. OffsetOf(text, n) + Length(text[n]) + 2 <= OffsetOf(text, i)
    BY <1>5, <2>1, OffsetsGrow
  <2>3. Length(text[n]) \in Nat
    BY <2>1, ParagraphLength
  <2> QED
    BY <1>1, <1>2, <1>5, <2>2, <2>3
<1> QED
  BY <1>2, <1>3, <1>4, <1>5

\* Quoted mail begins with the paragraph that has the marker, below the marker's
\* beginning at the latest.
LEMMA GmailVisible ==
    ASSUME NEW doc \in Document, doc.kind = "gmail", NEW i \in 1 .. Len(full_text(doc))
    PROVE  gmail_visible(doc, _split_paragraphs(full_text(doc))[i]) <=> i <= LastRead(doc)
<1> DEFINE text == full_text(doc)
           b == _split_paragraphs(text)
<1>1. PICK L \in Nat, R \in Nat : L = LastRead(doc) /\ R = Len(doc.rest) /\ Len(text) = L + R
  BY DocumentParts
<1>2. text \in Seq(Paragraph)
  BY DocumentParts
<1>3. CASE doc.rest = <<>>
  <2>1. R = 0
    BY <1>1, <1>3
  <2> QED
    BY <1>1, <1>3, <2>1 DEF gmail_visible
<1>4. CASE doc.rest # <<>>
  <2>1. R > 0 /\ L + 1 \in 1 .. Len(text) /\ doc.rest \in Seq(Paragraph)
    <3>1. doc.rest \in Seq(Paragraph)
      BY DocumentParts
    <3>2. R # 0
      BY <1>1, <1>4, <3>1, NoLength
    <3> QED
      BY <1>1, <3>1, <3>2
  <2>2. text[L + 1] = doc.rest[1]
    <3>1. doc.header \o doc.own \in Seq(Paragraph) /\ Len(doc.header \o doc.own) = L
      BY <1>1, DocumentParts
    <3>2. text = (doc.header \o doc.own) \o doc.rest
      BY DEF full_text
    <3>3. PICK p \in Seq(Paragraph) : p = doc.header \o doc.own /\ Len(p) = L
      BY <3>1
    <3>4. (p \o doc.rest)[L + 1] = doc.rest[1]
      <4>1. PICK r \in Seq(Paragraph) : r = doc.rest /\ Len(r) > 0
        BY <1>1, <2>1
      <4>2. (p \o r)[Len(p) + 1] = r[1]
        BY <4>1
      <4> QED
        BY <3>3, <4>1, <4>2
    <3> QED
      BY <3>2, <3>3, <3>4
  <2>3. doc.unmarked \in Nat /\ doc.unmarked < Length(text[L + 1])
    BY <1>4, <2>2, DocumentParts DEF Document, Length
  <2>4. find_quote_boundary(doc) = OffsetOf(text, L + 1) + doc.unmarked
    BY <1>1, DocumentParts DEF find_quote_boundary
  <2>5. gmail_visible(doc, b[i]) <=>
            OffsetOf(text, i) + Length(text[i]) <= OffsetOf(text, L + 1) + doc.unmarked
    BY <1>2, <1>4, <2>4, ParagraphBlock DEF gmail_visible
  <2>6. PICK s \in Nat, n \in Nat, u \in Nat, c \in Nat, m \in Nat :
            /\ s = OffsetOf(text, L + 1) /\ n = Length(text[L + 1]) /\ u = doc.unmarked
            /\ c = OffsetOf(text, i) /\ m = Length(text[i])
    <3>1. i \in 1 .. Len(text) + 1 /\ L + 1 \in 1 .. Len(text) + 1 /\ i \in 1 .. Len(text)
      BY <1>1, <2>1
    <3>2. OffsetOf(text, L + 1) \in Nat /\ OffsetOf(text, i) \in Nat
      BY <1>2, <3>1, OffsetIsNat
    <3>3. Length(text[L + 1]) \in Nat /\ Length(text[i]) \in Nat
      BY <1>2, <2>1, <3>1, ParagraphLength
    <3> QED
      BY <2>3, <3>2, <3>3
  <2>7. u < n
    BY <2>3, <2>6
  <2>8. gmail_visible(doc, b[i]) <=> c + m <= s + u
    BY <2>5, <2>6
  <2>9. c + m < s <=> i < L + 1
    <3>1. i \in 1 .. Len(text) /\ L + 1 \in 1 .. Len(text) + 1
      BY <1>1, <2>1
    <3>2. OffsetOf(text, i) + Length(text[i]) < OffsetOf(text, L + 1) <=> i < L + 1
      BY <1>2, <3>1, OffsetsOrdered
    <3> QED
      BY <2>6, <3>2
  <2>10. s + n < c <=> L + 1 < i
    <3>1. i \in 1 .. Len(text) + 1 /\ L + 1 \in 1 .. Len(text)
      BY <1>1, <2>1
    <3>2. OffsetOf(text, L + 1) + Length(text[L + 1]) < OffsetOf(text, i) <=> L + 1 < i
      BY <1>2, <3>1, OffsetsOrdered
    <3> QED
      BY <2>6, <3>2
  <2>11. CASE i < L + 1
    <3>1. c + m <= s + u
      BY <2>9, <2>11
    <3>2. i <= L
      BY <1>1, <2>11
    <3> QED
      BY <1>1, <2>8, <3>1, <3>2
  <2>12. CASE L + 1 < i
    <3>1. ~ (c + m <= s + u)
      BY <2>7, <2>10, <2>12
    <3>2. ~ (i <= L)
      BY <1>1, <2>12
    <3> QED
      BY <1>1, <2>8, <3>1, <3>2
  <2>13. CASE i = L + 1
    <3>1. c = s /\ m = n
      BY <2>6, <2>13
    <3>2. ~ (c + m <= s + u)
      BY <2>7, <3>1
    <3>3. ~ (i <= L)
      BY <1>1, <2>13
    <3> QED
      BY <1>1, <2>8, <3>2, <3>3
  <2> QED
    BY <1>1, <2>11, <2>12, <2>13
<1> QED
  BY <1>3, <1>4

\* Of an event, what is visible is what follows the header.
LEMMA CalendarVisible ==
    ASSUME NEW doc \in Document, doc.kind = "calendar", NEW i \in 1 .. Len(full_text(doc))
    PROVE  calendar_visible(doc, _split_paragraphs(full_text(doc))[i])
              <=> Len(doc.header) + 1 <= i
<1>1. doc.header # <<>>
  BY DEF Document
<1>2. PICK H \in Nat : H = Len(doc.header) /\ H + 1 \in 1 .. Len(full_text(doc)) + 1
  <2>1. PICK H \in Nat, O \in Nat, R \in Nat : H = Len(doc.header) /\ Len(full_text(doc)) = H + O + R
    BY DocumentParts
  <2> QED
    BY <2>1
<1>3. PICK text \in Seq(Paragraph) : text = full_text(doc)
  BY DocumentParts
<1>4. header_end(doc) = OffsetOf(text, H + 1)
  <2>1. PICK h \in Seq(Paragraph), more \in Seq(Paragraph) :
                h = doc.header /\ text = h \o more /\ Len(h) = 1
    <3>3. doc.own \in Seq(Paragraph) /\ doc.rest \in Seq(Paragraph)
      BY DocumentParts
    <3>1. doc.own \o doc.rest \in Seq(Paragraph)
      BY <3>3
    <3>2. Len(doc.header) = 1
      BY DEF Document
    <3> QED
      BY <1>3, <3>1, <3>2, DocumentParts
  <2>2. h # <<>> /\ 1 \in 1 .. Len(h) /\ text[1] = h[1]
    <3>1. (h \o more)[1] = h[1]
      BY <2>1
    <3> QED
      BY <2>1, <3>1
  <2>3. Extent(h) = OffsetOf(h, 1) + Length(h[1])
    BY <2>1, <2>2, ExtentIs
  <2>4. OffsetOf(h, 1) = 0 /\ Length(h[1]) \in Nat
    BY <2>2, FirstOffset, ParagraphLength
  <2>5. OffsetOf(text, H + 1) = Extent(h) + 2
    BY <1>1, <1>2, <1>3, <2>1, AfterHeader
  <2>6. Widths(text[1].words) = Length(h[1])
    BY <2>2 DEF Length
  <2> QED
    BY <1>3, <2>3, <2>4, <2>5, <2>6 DEF header_end, BLANK_LINE
<1>5. OffsetOf(text, H + 1) \in Nat /\ OffsetOf(text, i) \in Nat
  BY <1>2, <1>3, OffsetIsNat
<1>6. calendar_visible(doc, _split_paragraphs(text)[i]) <=> OffsetOf(text, H + 1) <= OffsetOf(text, i)
  BY <1>3, <1>4, <1>5, ParagraphBlock DEF calendar_visible
<1> QED
  BY <1>2, <1>3, <1>6, OffsetsOrdered

\* Of a recording, what is visible is the transcript.
LEMMA FathomVisible ==
    ASSUME NEW doc \in Document, doc.kind = "fathom", NEW i \in 1 .. Len(full_text(doc))
    PROVE  fathom_visible(doc, _split_paragraphs(full_text(doc))[i])
              <=> Len(doc.header) + 1 <= i /\ i <= LastRead(doc)
<1>1. doc.header # <<>>
  BY DEF Document
<1>2. PICK H \in Nat, O \in Nat, R \in Nat :
              /\ H = Len(doc.header) /\ O = Len(doc.own) /\ R = Len(doc.rest)
              /\ LastRead(doc) = H + O /\ Len(full_text(doc)) = H + O + R
  BY DocumentParts DEF LastRead
<1>3. PICK text \in Seq(Paragraph) : text = full_text(doc)
  BY DocumentParts
<1>a. PICK N \in Nat : N = Len(text) /\ N = H + O + R /\ i \in 1 .. N
  <2>1. Len(text) = H + O + R /\ i \in 1 .. Len(text)
    BY <1>2, <1>3
  <2>2. H + O + R \in Nat
    OBVIOUS
  <2> QED
    BY <2>1, <2>2
<1>b. H + 1 \in 1 .. N + 1 /\ i \in Nat
  BY <1>a
<1> DEFINE range == build_normalized_meeting_text(doc)
           b == _split_paragraphs(text)[i]
<1>4. CASE doc.own = <<>>
  <2>1. O = 0
    BY <1>2, <1>4
  <2>2. range[2] = range[1]
    <3>1. Extent(doc.header) \in Nat
      BY DocumentParts, ExtentIsNat
    <3> QED
      BY <1>4, <3>1 DEF build_normalized_meeting_text
  <2>3. ~ fathom_visible(doc, b)
    <3>1. Extent(doc.header) \in Nat
      BY DocumentParts, ExtentIsNat
    <3>2. range[1] \in Nat
      BY <1>4, <3>1 DEF build_normalized_meeting_text
    <3> HIDE DEF range, b
    <3> QED
      BY <2>2, <3>2 DEF fathom_visible, range
  <2> QED
    BY <1>2, <1>3, <2>1, <2>3
<1>5. CASE doc.own # <<>>
  <2>1. PICK h \in Seq(Paragraph), o \in Seq(Paragraph), more \in Seq(Paragraph) :
              /\ h = doc.header /\ o = doc.own /\ text = h \o more /\ more = o \o doc.rest
    <3>1. doc.own \in Seq(Paragraph) /\ doc.rest \in Seq(Paragraph) /\ doc.header \in Seq(Paragraph)
      BY DocumentParts
    <3>2. doc.own \o doc.rest \in Seq(Paragraph)
      BY <3>1
    <3> QED
      BY <1>3, <3>1, <3>2, DocumentParts
  <2>2. O \in 1 .. Len(o) /\ H + O \in 1 .. Len(text) /\ O \in 1 .. Len(more) + 1 /\ O \in 1 .. Len(o) + 1
    <3>1. O # 0
      BY <1>2, <1>5, <2>1, NoLength
    <3>2. O \in 1 .. O + 1 /\ O \in 1 .. O /\ H + O \in 1 .. N
      BY <1>a, <3>1
    <3>3. PICK M \in Nat : M = Len(more) /\ M = O + R
      <4>1. PICK r \in Seq(Paragraph) : r = doc.rest /\ Len(r) = R
        BY <1>2, DocumentParts
      <4>2. Len(o \o r) = Len(o) + Len(r)
        OBVIOUS
      <4>3. O + R \in Nat
        OBVIOUS
      <4> QED
        BY <1>2, <2>1, <4>1, <4>2, <4>3
    <3>4. O \in 1 .. M + 1
      BY <3>2, <3>3
    <3>5. Len(o) = O
      BY <1>2, <2>1
    <3> QED
      BY <1>a, <3>2, <3>3, <3>4, <3>5
  <2>3. OffsetOf(text, H + O) = OffsetOf(text, H + 1) + OffsetOf(o, O)
    <3>1. OffsetOf(h \o more, Len(h) + O) = OffsetOf(h \o more, Len(h) + 1) + OffsetOf(more, O)
      BY <2>2, OffsetAfter
    <3>2. OffsetOf(o \o doc.rest, O) = OffsetOf(o, O)
      BY <2>2, DocumentParts, OffsetOfPrefix
    <3> QED
      BY <1>2, <2>1, <3>1, <3>2
  <2>4. text[H + O] = o[O]
    <3>1. more[O] = o[O] /\ O \in 1 .. Len(more)
      <4>1. PICK r \in Seq(Paragraph) : r = doc.rest
        BY DocumentParts
      <4>2. (o \o r)[O] = o[O] /\ O \in 1 .. Len(o \o r)
        BY <2>2
      <4> QED
        BY <2>1, <4>1, <4>2
    <3>2. (h \o more)[Len(h) + O] = more[O]
      BY <3>1
    <3> QED
      BY <1>2, <2>1, <3>1, <3>2
  <2>5. PICK a \in Nat, e \in Nat, c \in Nat, m \in Nat, x \in Nat, y \in Nat :
            /\ a = OffsetOf(text, H + 1) /\ e = Extent(o)
            /\ c = OffsetOf(text, i) /\ m = Length(text[i])
            /\ x = OffsetOf(text, H + O) /\ y = Length(text[H + O])
    <3>1. H + 1 \in 1 .. Len(text) + 1 /\ i \in 1 .. Len(text)
      BY <1>a, <1>b
    <3>2. OffsetOf(text, H + 1) \in Nat /\ OffsetOf(text, i) \in Nat /\ OffsetOf(text, H + O) \in Nat
      BY <2>2, <3>1, OffsetStep, OffsetIsNat
    <3>3. Length(text[i]) \in Nat /\ Length(text[H + O]) \in Nat
      <4>1. text[i] \in Paragraph /\ text[H + O] \in Paragraph
        BY <2>2, <3>1
      <4> QED
        BY <4>1, ParagraphLength
    <3> QED
      BY <3>2, <3>3, ExtentIsNat
  <2>6. range = <<a, a + e>> /\ e > 0
    BY <1>1, <1>2, <1>3, <1>5, <2>1, <2>5, AfterHeader, ExtentIsNat
       DEF build_normalized_meeting_text, BLANK_LINE
  <2>7. a + e = x + y
    <3>1. e = OffsetOf(o, O) + y
      BY <1>2, <1>5, <2>1, <2>4, <2>5, ExtentIs
    <3>2. OffsetOf(o, O) \in Nat
      BY <2>2, OffsetIsNat
    <3>3. x = a + OffsetOf(o, O)
      BY <2>3, <2>5
    <3>4. PICK q \in Nat : e = q + y /\ x = a + q
      BY <3>1, <3>2, <3>3
    <3> QED
      BY <3>4
  <2>8. fathom_visible(doc, b) <=> a <= c /\ c + m <= x + y
    <3>1. b.char_start = c /\ b.char_end = c + m
      BY <1>3, <2>5, ParagraphBlock
    <3> HIDE DEF range, b
    <3>2. range[1] = a /\ range[2] = x + y /\ x + y > a
      BY <2>5, <2>6, <2>7
    <3>3. fathom_visible(doc, b) <=> b.char_start >= a /\ b.char_end <= x + y
      BY <3>2 DEF fathom_visible, range
    <3> QED
      BY <2>5, <3>1, <3>3
  <2>9. a <= c <=> H + 1 <= i
    <3>1. H + 1 \in 1 .. Len(text) + 1 /\ i \in 1 .. Len(text)
      BY <1>a, <1>b
    <3> QED
      BY <2>5, <3>1, OffsetsOrdered
  <2>10. c + m <= x + y <=> i <= H + O
    <3>1. i \in 1 .. Len(text) /\ H + O \in 1 .. Len(text) + 1 /\ i \in 1 .. Len(text) + 1
      BY <1>a, <2>2
    <3>2. PICK n \in Nat : n = H + O
      BY <1>a
    <3>3. i < n => c + m < x
      BY <2>5, <3>1, <3>2, OffsetsOrdered
    <3>4. n < i => x + y < c
      BY <2>2, <2>5, <3>1, <3>2, OffsetsOrdered
    <3>5. i = n => c = x /\ m = y
      BY <2>5, <3>2
    <3>6. c + m <= x + y <=> i <= n
      BY <1>b, <3>3, <3>4, <3>5
    <3> QED
      BY <3>2, <3>6
  <2> QED
    BY <1>2, <1>3, <2>8, <2>9, <2>10
<1> QED
  BY <1>4, <1>5

\* For every kind, the paragraphs to be read are the ones that are visible.
LEMMA VisibleIff ==
    ASSUME NEW doc \in Document, NEW i \in 1 .. Len(full_text(doc))
    PROVE  Visible(doc, _split_paragraphs(full_text(doc))[i])
              <=> FirstRead(doc) <= i /\ i <= LastRead(doc)
<1>1. doc.kind \in {"manual", "gmail", "calendar", "fathom"}
  BY DocumentParts DEF DocumentKinds
<1>2. doc.kind \in {"manual", "calendar"} => i <= LastRead(doc)
  <2> SUFFICES ASSUME doc.kind \in {"manual", "calendar"} PROVE i <= LastRead(doc)
    OBVIOUS
  <2>1. doc.rest = <<>>
    BY DEF Document
  <2>2. PICK L \in Nat, R \in Nat :
            L = LastRead(doc) /\ R = Len(doc.rest) /\ Len(full_text(doc)) = L + R
    BY DocumentParts
  <2>3. R = 0
    BY <2>1, <2>2
  <2>4. L + R = L
    BY <2>3
  <2> QED
    BY <2>2, <2>4
<1>3. i \in Nat /\ 1 <= i
  OBVIOUS
<1>4. CASE doc.kind = "gmail"
  BY <1>3, <1>4, GmailVisible DEF Visible, FirstRead
<1>5. CASE doc.kind = "manual"
  BY <1>2, <1>3, <1>5 DEF Visible, FirstRead
<1>6. CASE doc.kind = "calendar"
  BY <1>2, <1>6, CalendarVisible DEF Visible, FirstRead
<1>7. CASE doc.kind = "fathom"
  BY <1>7, FathomVisible DEF Visible, FirstRead
<1> QED
  BY <1>1, <1>4, <1>5, <1>6, <1>7

\* What is read of a document are the paragraphs from the first of the author's
\* own to the last.
LEMMA VisibleBlocks ==
    ASSUME NEW doc \in Document
    PROVE  visible_blocks(doc) = Run(_split_paragraphs(full_text(doc)), FirstRead(doc), LastRead(doc))
<1>1. PICK b \in Seq(Block) : b = _split_paragraphs(full_text(doc)) /\ Len(b) = Len(full_text(doc))
  BY DocumentParts, ParagraphBlock
<1>2. PICK first \in Nat \ {0}, last \in Nat :
              first = FirstRead(doc) /\ last = LastRead(doc) /\ first <= last + 1 /\ last <= Len(b)
  BY <1>1, ReadRange
<1> DEFINE ss == [i \in DOMAIN b |-> IF Visible(doc, b[i]) THEN <<b[i]>> ELSE <<>>]
<1>3. visible_blocks(doc) = FlattenSeq(ss)
  BY <1>1 DEF visible_blocks
<1>4. ss \in Seq(Seq(Block)) /\ Len(ss) = Len(b)
  <2>1. ASSUME NEW i \in 1 .. Len(b) PROVE (IF Visible(doc, b[i]) THEN <<b[i]>> ELSE <<>>) \in Seq(Block)
    <3>1. b[i] \in Block
      OBVIOUS
    <3> QED
      BY <3>1
  <2>2. ss = [i \in 1 .. Len(b) |-> IF Visible(doc, b[i]) THEN <<b[i]>> ELSE <<>>]
    OBVIOUS
  <2> QED
    BY <2>1, <2>2
<1>5. ASSUME NEW i \in 1 .. Len(b)
      PROVE  ss[i] = IF first <= i /\ i <= last THEN <<b[i]>> ELSE <<>>
  <2>1. Visible(doc, b[i]) <=> first <= i /\ i <= last
    BY <1>1, <1>2, VisibleIff
  <2>2. ss[i] = IF Visible(doc, b[i]) THEN <<b[i]>> ELSE <<>>
    OBVIOUS
  <2> QED
    BY <2>1, <2>2
<1> HIDE DEF ss
<1>6. \A i \in 1 .. Len(b) : ss[i] = IF first <= i /\ i <= last THEN <<b[i]>> ELSE <<>>
  BY <1>5
<1>7. FlattenSeq(ss) = Run(b, first, last)
  <2>1. Within(Block, b, first, last)
    BY <1>2 DEF Within
  <2>2. Leaves(ss, b, first, last)
    BY <1>4, <1>6 DEF Leaves
  <2> QED
    BY <1>4, <2>1, <2>2, FlattenRun
<1> QED
  BY <1>1, <1>2, <1>3, <1>7

-----------------------------------------------------------------------------
(* Blocks that are too long. *)

\* A bounded set of numbers has a greatest member.
LEMMA GreatestOf ==
    ASSUME NEW T, T \subseteq Nat, T # {}, NEW bound \in Nat, \A n \in T : n <= bound
    PROVE  Max(T) \in T /\ \A n \in T : n <= Max(T)
<1> DEFINE D == {n \in Nat : n <= bound /\ bound - n \in T}
<1>1. D \subseteq Nat /\ D # {}
  <2>1. PICK n \in T : TRUE
    OBVIOUS
  <2>2. PICK d \in Nat : d = bound - n /\ d <= bound /\ bound - d = n
    BY <2>1
  <2> QED
    BY <2>1, <2>2
<1>2. PICK d \in D : \A n \in D : d <= n
  BY <1>1, LeastOf
<1>3. bound - d \in T
  OBVIOUS
<1>4. ASSUME NEW n \in T PROVE bound - d >= n
  <2>1. bound - n \in D
    BY <1>4
  <2>2. d <= bound - n /\ n \in Nat /\ d \in Nat
    BY <1>2, <2>1
  <2> QED
    BY <2>2
<1>5. \E x \in T : \A y \in T : x >= y
  BY <1>3, <1>4
<1>6. Max(T) \in T /\ \A y \in T : Max(T) >= y
  BY <1>5 DEF Max
<1> QED
  BY <1>6

\* Of two numbers, the lesser.
LEMMA LesserOf ==
    ASSUME NEW a \in Nat, NEW b \in Nat
    PROVE  Min({a, b}) = IF a <= b THEN a ELSE b
<1>1. \E x \in {a, b} : \A y \in {a, b} : x <= y
  OBVIOUS
<1>2. Min({a, b}) \in {a, b} /\ \A y \in {a, b} : Min({a, b}) <= y
  BY <1>1 DEF Min
<1> QED
  BY <1>2

\* Where the next part of a block begins, past a blank.
After(pos, block, target, blanks) ==
    LET end == CutAfter(pos, block, target, blanks)
    IN  IF end \in blanks THEN end + 1 ELSE end

\* A part takes at least a character and at most the target, within the block.
LEMMA CutIs ==
    ASSUME NEW block \in Block, NEW target \in Nat \ {0}, NEW blanks \in SUBSET Nat,
           NEW pos \in Nat, pos < block.char_end
    PROVE  /\ CutAfter(pos, block, target, blanks) \in Nat
           /\ pos < CutAfter(pos, block, target, blanks)
           /\ CutAfter(pos, block, target, blanks) <= block.char_end
           /\ CutAfter(pos, block, target, blanks) - pos <= target
<1> DEFINE limit == Min({pos + target, block.char_end})
           cuts == {b \in blanks : pos < b /\ b < limit}
<1>1. block.char_end \in Nat /\ pos + target \in Nat
  BY DEF Block
<1>2. limit \in Nat /\ pos < limit /\ limit <= block.char_end /\ limit <= pos + target
  BY <1>1, LesserOf
<1>3. CutAfter(pos, block, target, blanks)
          = IF limit < block.char_end /\ cuts # {} THEN Max(cuts) ELSE limit
  BY DEF CutAfter
<1> HIDE DEF limit
<1>4. cuts \subseteq Nat /\ \A n \in cuts : n <= limit /\ pos < n
  <2>1. cuts \subseteq blanks /\ blanks \subseteq Nat /\ \A n \in cuts : n < limit /\ pos < n
    OBVIOUS
  <2> HIDE DEF cuts
  <2>2. ASSUME NEW n \in cuts PROVE n <= limit /\ pos < n
    <3>1. n \in Nat /\ n < limit /\ pos < n
      BY <2>1
    <3> QED
      BY <1>2, <3>1
  <2>3. cuts \subseteq Nat
    BY <2>1
  <2> QED
    BY <2>2, <2>3
<1>5. cuts # {} => Max(cuts) \in cuts
  BY <1>2, <1>4, GreatestOf
<1> QED
  BY <1>1, <1>2, <1>3, <1>4, <1>5

\* The offsets that blocks take.
Covered(s) == UNION {s[i].char_start .. s[i].char_end - 1 : i \in DOMAIN s}

\* Blocks in the order of the text, none longer than the target.
Pieces(s, from, to, target) ==
    /\ s \in Seq(Block)
    /\ \A i \in 1 .. Len(s) : /\ from <= s[i].char_start
                              /\ s[i].char_start < s[i].char_end
                              /\ s[i].char_end <= to
                              /\ s[i].char_end - s[i].char_start <= target
    /\ \A i, j \in 1 .. Len(s) : i < j => s[i].char_end <= s[j].char_start

\* No pieces cover nothing.
LEMMA NoPieces ==
    ASSUME NEW from, NEW to, NEW target
    PROVE  Pieces(<<>>, from, to, target) /\ Covered(<<>>) = {}
<1>1. <<>> \in Seq(Block) /\ Len(<<>>) = 0 /\ DOMAIN <<>> = {}
  OBVIOUS
<1> QED
  BY <1>1 DEF Pieces, Covered

\* A block that is no longer than the target is a piece by itself.
LEMMA OnePiece ==
    ASSUME NEW b \in Block, NEW target \in Nat, b.char_start < b.char_end,
           b.char_end - b.char_start <= target
    PROVE  /\ Pieces(<<b>>, b.char_start, b.char_end, target)
           /\ Covered(<<b>>) = b.char_start .. b.char_end - 1
<1>1. <<b>> \in Seq(Block) /\ Len(<<b>>) = 1 /\ <<b>>[1] = b /\ DOMAIN <<b>> = {1}
  OBVIOUS
<1>2. b.char_start \in Nat /\ b.char_end \in Nat
  BY DEF Block
<1> DEFINE s == <<b>>
<1>3. s \in Seq(Block) /\ Len(s) = 1 /\ s[1] = b /\ DOMAIN s = {1}
  BY <1>1
<1> HIDE DEF s
<1>4. Pieces(s, b.char_start, b.char_end, target)
  BY <1>2, <1>3 DEF Pieces
<1>5. Covered(s) = b.char_start .. b.char_end - 1
  BY <1>3 DEF Covered
<1> QED
  BY <1>4, <1>5 DEF s

\* The part from c to d is not before the part from a to b.
Follow(a, b, c, d) ==
    /\ a \in Int /\ b \in Int /\ c \in Int /\ d \in Int
    /\ a <= c /\ b <= c /\ b <= d

\* Pieces of a text and then later pieces of it are pieces of it.
LEMMA PiecesJoin ==
    ASSUME NEW a, NEW b, NEW c, NEW d, Follow(a, b, c, d), NEW target \in Nat,
           NEW s, Pieces(s, a, b, target), NEW t, Pieces(t, c, d, target)
    PROVE  /\ Pieces(s \o t, a, d, target)
           /\ Covered(s \o t) = Covered(s) \cup Covered(t)
<1> USE DEF Follow
<1>1. s \in Seq(Block) /\ t \in Seq(Block)
  BY DEF Pieces
<1>2. PICK m \in Nat, n \in Nat : m = Len(s) /\ n = Len(t)
  BY <1>1
<1> DEFINE u == s \o t
<1>3. /\ u \in Seq(Block) /\ Len(u) = m + n
      /\ \A i \in 1 .. m : u[i] = s[i]
      /\ \A i \in 1 .. n : u[m + i] = t[i]
  BY <1>1, <1>2
<1> HIDE DEF u
<1>4. ASSUME NEW i \in 1 .. m
      PROVE  /\ u[i] = s[i]
             /\ s[i].char_start \in Nat /\ s[i].char_end \in Nat
             /\ a <= s[i].char_start /\ s[i].char_start < s[i].char_end /\ s[i].char_end <= b
             /\ s[i].char_end - s[i].char_start <= target
  <2>1. s[i] \in Block /\ i \in 1 .. Len(s)
    BY <1>1, <1>2
  <2> QED
    BY <1>3, <2>1 DEF Pieces, Block
<1>5. ASSUME NEW i \in 1 .. n
      PROVE  /\ u[m + i] = t[i]
             /\ t[i].char_start \in Nat /\ t[i].char_end \in Nat
             /\ c <= t[i].char_start /\ t[i].char_start < t[i].char_end /\ t[i].char_end <= d
             /\ t[i].char_end - t[i].char_start <= target
  <2>1. t[i] \in Block /\ i \in 1 .. Len(t)
    BY <1>1, <1>2
  <2> QED
    BY <1>3, <2>1 DEF Pieces, Block
<1>6. ASSUME NEW i \in 1 .. m + n
      PROVE  i \in 1 .. m \/ \E k \in 1 .. n : i = m + k
  <2>1. CASE i <= m
    BY <2>1
  <2>2. CASE m < i
    <3>1. i - m \in 1 .. n /\ i = m + (i - m)
      BY <2>2
    <3> QED
      BY <3>1
  <2> QED
    BY <2>1, <2>2
<1>7. ASSUME NEW i \in 1 .. m + n
      PROVE  /\ a <= u[i].char_start
             /\ u[i].char_start < u[i].char_end
             /\ u[i].char_end <= d
             /\ u[i].char_end - u[i].char_start <= target
  <2>1. CASE i \in 1 .. m
    BY <1>4, <2>1
  <2>2. CASE \E k \in 1 .. n : i = m + k
    <3>1. PICK k \in 1 .. n : i = m + k
      BY <2>2
    <3> QED
      BY <1>5, <3>1
  <2> QED
    BY <1>6, <2>1, <2>2
<1>8. ASSUME NEW i \in 1 .. m + n, NEW j \in 1 .. m + n, i < j
      PROVE  u[i].char_end <= u[j].char_start
  <2>1. CASE j \in 1 .. m
    <3>1. i \in 1 .. m
      BY <1>8, <2>1
    <3> QED
      BY <1>2, <1>3, <1>8, <2>1, <3>1 DEF Pieces
  <2>2. CASE i \in 1 .. m /\ \E k \in 1 .. n : j = m + k
    <3>1. PICK k \in 1 .. n : j = m + k
      BY <2>2
    <3>2. u[i] = s[i] /\ s[i].char_end <= b /\ s[i].char_end \in Nat
      BY <1>4, <2>2
    <3>3. u[j] = t[k] /\ c <= t[k].char_start /\ t[k].char_start \in Nat
      BY <1>5, <3>1
    <3> QED
      BY <3>2, <3>3
  <2>3. CASE (\E k \in 1 .. n : i = m + k) /\ (\E l \in 1 .. n : j = m + l)
    <3>1. PICK k \in 1 .. n, l \in 1 .. n : i = m + k /\ j = m + l
      BY <2>3
    <3>2. u[i] = t[k] /\ u[j] = t[l] /\ k < l
      BY <1>5, <1>8, <3>1
    <3> QED
      BY <1>2, <3>2 DEF Pieces
  <2>4. i \in 1 .. m \/ j \notin 1 .. m
    BY <1>8
  <2> QED
    BY <1>6, <2>1, <2>2, <2>3
<1>9. Pieces(u, a, d, target)
  BY <1>3, <1>7, <1>8 DEF Pieces
<1>10. ASSUME NEW x PROVE x \in Covered(u) <=> x \in Covered(s) \/ x \in Covered(t)
  <2>1. DOMAIN u = 1 .. m + n /\ DOMAIN s = 1 .. m /\ DOMAIN t = 1 .. n
    BY <1>1, <1>2, <1>3
  <2>2. ASSUME x \in Covered(u) PROVE x \in Covered(s) \/ x \in Covered(t)
    <3>1. PICK i \in 1 .. m + n : x \in u[i].char_start .. u[i].char_end - 1
      BY <2>1, <2>2 DEF Covered
    <3>2. CASE i \in 1 .. m
      BY <1>3, <2>1, <3>1, <3>2 DEF Covered
    <3>3. CASE \E k \in 1 .. n : i = m + k
      BY <1>3, <2>1, <3>1, <3>3 DEF Covered
    <3> QED
      BY <1>6, <3>2, <3>3
  <2>3. ASSUME x \in Covered(s) PROVE x \in Covered(u)
    <3>1. PICK i \in 1 .. m : x \in s[i].char_start .. s[i].char_end - 1
      BY <2>1, <2>3 DEF Covered
    <3>2. i \in DOMAIN u /\ u[i] = s[i]
      BY <1>3, <2>1
    <3> QED
      BY <3>1, <3>2 DEF Covered
  <2>4. ASSUME x \in Covered(t) PROVE x \in Covered(u)
    <3>1. PICK i \in 1 .. n : x \in t[i].char_start .. t[i].char_end - 1
      BY <2>1, <2>4 DEF Covered
    <3>2. m + i \in DOMAIN u /\ u[m + i] = t[i]
      BY <1>3, <2>1
    <3> QED
      BY <3>1, <3>2 DEF Covered
  <2> QED
    BY <2>2, <2>3, <2>4
<1> QED
  BY <1>9, <1>10 DEF u

\* The recursion that cuts a block, and that it ends.
Parts(f, domain, block, target, blanks) ==
    f = [pos \in domain |->
           IF pos >= block.char_end THEN <<>>
           ELSE <<[char_start |-> pos, char_end |-> CutAfter(pos, block, target, blanks)]>>
                    \o f[After(pos, block, target, blanks)]]

\* Between two parts there is a blank at most.
LEMMA AfterIs ==
    ASSUME NEW block \in Block, NEW target \in Nat \ {0}, NEW blanks \in SUBSET Nat,
           NEW pos \in Nat, pos < block.char_end
    PROVE  /\ After(pos, block, target, blanks) \in Nat
           /\ pos < After(pos, block, target, blanks)
           /\ CutAfter(pos, block, target, blanks) <= After(pos, block, target, blanks)
           /\ CutAfter(pos, block, target, blanks) .. After(pos, block, target, blanks) - 1 \subseteq blanks
<1>1. PICK end \in Nat : end = CutAfter(pos, block, target, blanks) /\ pos < end
  BY CutIs
<1>2. After(pos, block, target, blanks) = IF end \in blanks THEN end + 1 ELSE end
  BY <1>1 DEF After
<1>3. CASE end \in blanks
  <2>1. end .. (end + 1) - 1 = {end}
    OBVIOUS
  <2> QED
    BY <1>1, <1>2, <1>3, <2>1
<1>4. CASE end \notin blanks
  <2>1. end .. end - 1 = {}
    OBVIOUS
  <2> QED
    BY <1>1, <1>2, <1>4, <2>1
<1> QED
  BY <1>3, <1>4

\* The parts of a block: as many steps as it has characters reach its end.
LEMMA PartsThere ==
    ASSUME NEW block \in Block, NEW target \in Nat \ {0}, NEW blanks \in SUBSET Nat
    PROVE  \E f : Parts(f, Nat, block, target, blanks)
<1>1. PICK E \in Nat : E = block.char_end
  BY DEF Block
<1> DEFINE dom(k) == {p \in Nat : p + k >= E}
           one(p) == <<[char_start |-> p, char_end |-> CutAfter(p, block, target, blanks)]>>
           next(p) == After(p, block, target, blanks)
           G(k, f) == f = [p \in dom(k) |-> IF p >= E THEN <<>> ELSE one(p) \o f[next(p)]]
           T == {k \in Nat : \E f : G(k, f)}
<1>2. \A p \in Nat : p < E => next(p) \in Nat /\ p < next(p)
  BY <1>1, AfterIs
<1> HIDE DEF one, next
<1>3. 0 \in T
  <2> DEFINE f == [p \in dom(0) |-> <<>>]
  <2>1. G(0, f)
    OBVIOUS
  <2> QED
    BY <2>1
<1>4. \A k \in T : k + 1 \in T
  <2> SUFFICES ASSUME NEW k \in Nat, NEW f, G(k, f) PROVE \E g : G(k + 1, g)
    <3> HIDE DEF G
    <3> QED
      OBVIOUS
  <2>1. G(k, f)
    OBVIOUS
  <2> DEFINE g == [p \in dom(k + 1) |-> IF p \in dom(k) THEN f[p]
                                        ELSE IF p >= E THEN <<>> ELSE one(p) \o f[next(p)]]
  <2>2. ASSUME NEW p \in dom(k + 1)
        PROVE  g[p] = IF p >= E THEN <<>> ELSE one(p) \o g[next(p)]
    <3>1. CASE p >= E
      <4>1. p \in dom(k)
        BY <3>1
      <4> QED
        BY <2>1, <3>1, <4>1
    <3>2. CASE p < E
      <4>1. next(p) \in dom(k) /\ next(p) \in dom(k + 1)
        BY <1>2, <3>2
      <4>2. g[next(p)] = f[next(p)]
        BY <4>1
      <4>3. g[p] = one(p) \o f[next(p)]
        <5>1. ~ (p >= E)
          BY <3>2
        <5>2. p \in dom(k) => f[p] = one(p) \o f[next(p)]
          BY <2>1, <5>1
        <5> QED
          BY <5>1, <5>2
      <4>4. ~ (p >= E)
        BY <3>2
      <4> QED
        BY <4>2, <4>3, <4>4
    <3> QED
      BY <3>1, <3>2
  <2>3. g = [p \in dom(k + 1) |-> g[p]]
    OBVIOUS
  <2> HIDE DEF g
  <2>4. G(k + 1, g)
    BY <2>2, <2>3
  <2> QED
    BY <2>4
<1> HIDE DEF T
<1>5. E \in T
  <2>1. T \subseteq Nat
    BY DEF T
  <2> QED
    BY <1>3, <1>4, <2>1, Counting
<1>6. PICK f : G(E, f)
  BY <1>5 DEF T
<1>7. dom(E) = Nat
  OBVIOUS
<1>8. f = [p \in Nat |-> IF p >= E THEN <<>> ELSE one(p) \o f[next(p)]]
  BY <1>6, <1>7
<1> QED
  BY <1>1, <1>8 DEF Parts, one, next

\* The parts of a block are in order, short enough, and leave out blanks only.
LEMMA SplitIs ==
    ASSUME NEW block \in Block, NEW target \in Nat \ {0}, NEW blanks \in SUBSET Nat
    PROVE  /\ Pieces(_split_oversized_block(block, target, blanks),
                     block.char_start, block.char_end, target)
           /\ Covered(_split_oversized_block(block, target, blanks)) \ blanks
                 = (block.char_start .. block.char_end - 1) \ blanks
<1>1. PICK E \in Nat : E = block.char_end
  BY DEF Block
<1> DEFINE parts == CHOOSE f : Parts(f, Nat, block, target, blanks)
           one(p) == <<[char_start |-> p, char_end |-> CutAfter(p, block, target, blanks)]>>
           next(p) == After(p, block, target, blanks)
           cut(p) == CutAfter(p, block, target, blanks)
<1>2. Parts(parts, Nat, block, target, blanks)
  BY PartsThere
<1>3. _split_oversized_block(block, target, blanks) = parts[block.char_start]
  BY Zenon DEF _split_oversized_block, Parts, After
<1> HIDE DEF parts
<1>4. \A p \in Nat : parts[p] = IF p >= E THEN <<>> ELSE one(p) \o parts[next(p)]
  BY <1>1, <1>2 DEF Parts
<1> HIDE DEF one, next, cut
<1> DEFINE Cut(p) == /\ Pieces(parts[p], p, E, target)
                     /\ Covered(parts[p]) \ blanks = (p .. E - 1) \ blanks
           T == {k \in Nat : \A p \in Nat : p + k >= E => Cut(p)}
<1>5. ASSUME NEW p \in Nat, p >= E PROVE Cut(p)
  <2>1. parts[p] = <<>>
    BY <1>4, <1>5
  <2>2. p .. E - 1 = {}
    BY <1>5
  <2> QED
    BY <2>1, <2>2, NoPieces
<1>6. 0 \in T
  BY <1>5
<1>7. \A k \in T : k + 1 \in T
  <2> SUFFICES ASSUME NEW k \in T, NEW p \in Nat, p + (k + 1) >= E, p < E PROVE Cut(p)
    BY <1>5
  <2>1. /\ cut(p) \in Nat /\ p < cut(p) /\ cut(p) <= E /\ cut(p) - p <= target
        /\ next(p) \in Nat /\ p < next(p) /\ cut(p) <= next(p)
        /\ cut(p) .. next(p) - 1 \subseteq blanks
    BY <1>1, CutIs, AfterIs DEF cut, next
  <2>2. Cut(next(p))
    BY <2>1
  <2>3. parts[p] = one(p) \o parts[next(p)]
    <3>1. ~ (p >= E)
      OBVIOUS
    <3> QED
      BY <1>4, <3>1
  <2> DEFINE b == [char_start |-> p, char_end |-> cut(p)]
  <2>4. b \in Block /\ b.char_start = p /\ b.char_end = cut(p)
    BY <2>1 DEF Block
  <2>5. Pieces(<<b>>, p, cut(p), target) /\ Covered(<<b>>) = p .. cut(p) - 1
    BY <2>1, <2>4, OnePiece
  <2>6. one(p) = <<b>>
    BY DEF one, cut
  <2> HIDE DEF b, Cut
  <2>7. Pieces(parts[p], p, E, target)
        /\ Covered(parts[p]) = (p .. cut(p) - 1) \cup Covered(parts[next(p)])
    <3>1. PICK t : t = parts[next(p)] /\ Pieces(t, next(p), E, target)
      BY <2>2 DEF Cut
    <3>2. /\ p \in Int /\ cut(p) \in Int /\ next(p) \in Int /\ E \in Int /\ target \in Nat
          /\ p <= next(p) /\ cut(p) <= next(p) /\ cut(p) <= E
      BY <2>1
    <3>3. PICK s : s = one(p) /\ Pieces(s, p, cut(p), target) /\ Covered(s) = p .. cut(p) - 1
      BY <2>5, <2>6
    <3>4. Pieces(s \o t, p, E, target) /\ Covered(s \o t) = Covered(s) \cup Covered(t)
      <4>1. PICK c \in Int, n \in Int, e \in Int, q \in Int : c = cut(p) /\ n = next(p) /\ e = E /\ q = p
        BY <3>2
      <4>2. Pieces(s, q, c, target) /\ Pieces(t, n, e, target) /\ Follow(q, c, n, e)
        BY <3>1, <3>2, <3>3, <4>1 DEF Follow
      <4>3. Pieces(s \o t, q, e, target) /\ Covered(s \o t) = Covered(s) \cup Covered(t)
        BY <3>2, <4>2, PiecesJoin
      <4> QED
        BY <4>1, <4>3
    <3> QED
      BY <2>3, <3>1, <3>3, <3>4
  <2>8. (p .. E - 1) \ blanks = ((p .. cut(p) - 1) \cup (next(p) .. E - 1)) \ blanks
    BY <2>1
  <2>9. Covered(parts[next(p)]) \ blanks = (next(p) .. E - 1) \ blanks
    BY <2>2 DEF Cut
  <2>10. Covered(parts[p]) \ blanks = (p .. E - 1) \ blanks
    BY <2>7, <2>8, <2>9
  <2> QED
    BY <2>7, <2>10 DEF Cut
<1> HIDE DEF T
<1>8. E \in T
  <2>1. T \subseteq Nat
    BY DEF T
  <2> QED
    BY <1>6, <1>7, <2>1, Counting
<1>9. block.char_start \in Nat /\ block.char_start + E >= E
  BY <1>1 DEF Block
<1>10. Cut(block.char_start)
  BY <1>8, <1>9 DEF T
<1> QED
  BY <1>1, <1>3, <1>10

\* Blocks that are not empty, in the order of the text.
InOrder(blocks) ==
    /\ blocks \in Seq(Block)
    /\ \A i \in 1 .. Len(blocks) : blocks[i].char_start < blocks[i].char_end
    /\ \A i, j \in 1 .. Len(blocks) : i < j => blocks[i].char_end <= blocks[j].char_start

\* Cutting what is too long loses blanks at most.
LEMMA NormalizedIs ==
    ASSUME NEW blocks, InOrder(blocks), NEW target \in Nat \ {0}, NEW blanks \in SUBSET Nat
    PROVE  /\ \E to \in Nat : Pieces(Normalized(blocks, target, blanks), 0, to, target)
           /\ Covered(Normalized(blocks, target, blanks)) \ blanks = Covered(blocks) \ blanks
<1>1. PICK N \in Nat : N = Len(blocks) /\ DOMAIN blocks = 1 .. N
  BY DEF InOrder
<1> DEFINE cut(i) == IF Size(blocks[i]) <= target THEN <<blocks[i]>>
                     ELSE _split_oversized_block(blocks[i], target, blanks)
           ss == [i \in 1 .. N |-> cut(i)]
           front(n) == SubSeq(ss, 1, n)
           range(i) == blocks[i].char_start .. blocks[i].char_end - 1
           end(n) == IF n = 0 THEN 0 ELSE blocks[n].char_end
<1>2. Normalized(blocks, target, blanks) = FlattenSeq(ss)
  BY <1>1 DEF Normalized
<1>3. ASSUME NEW i \in 1 .. N
      PROVE  /\ Pieces(cut(i), blocks[i].char_start, blocks[i].char_end, target)
             /\ Covered(cut(i)) \ blanks = range(i) \ blanks
             /\ blocks[i].char_start \in Nat /\ blocks[i].char_end \in Nat
             /\ blocks[i].char_start < blocks[i].char_end
  <2>1. PICK b \in Block : b = blocks[i] /\ b.char_start < b.char_end
    BY <1>1 DEF InOrder
  <2>2. b.char_start \in Nat /\ b.char_end \in Nat
    BY DEF Block
  <2>3. CASE Size(b) <= target
    BY <2>1, <2>2, <2>3, OnePiece DEF Size
  <2>4. CASE ~ (Size(b) <= target)
    BY <2>1, <2>2, <2>4, SplitIs
  <2> QED
    BY <2>1, <2>2, <2>3, <2>4
<1> HIDE DEF cut
<1>4. ss \in Seq(Seq(Block)) /\ Len(ss) = N
  <2>1. \A i \in 1 .. N : cut(i) \in Seq(Block)
    BY <1>3 DEF Pieces
  <2> QED
    BY <2>1
<1>5. \A n \in 0 .. N : front(n) \in Seq(Seq(Block)) /\ Len(front(n)) = n
  BY <1>4
<1> DEFINE ranges(n) == UNION {range(i) : i \in 1 .. n}
           Upto(n) == /\ Pieces(FlattenSeq(front(n)), 0, end(n), target)
                      /\ Covered(FlattenSeq(front(n))) \ blanks = ranges(n) \ blanks
           T == {n \in Nat : n <= N => Upto(n)}
<1>6. 0 \in T
  <2>1. FlattenSeq(front(0)) = <<>>
    <3>1. 0 \in 0 .. N
      OBVIOUS
    <3> HIDE DEF front
    <3>2. front(0) = <<>>
      BY <1>5, <3>1, NoLength
    <3> QED
      BY <3>2, FlattenOfNone
  <2>2. ranges(0) = {}
    OBVIOUS
  <2> HIDE DEF front, ranges
  <2>3. Upto(0)
    BY <2>1, <2>2, NoPieces
  <2> QED
    BY <2>3
<1>7. \A n \in T : n + 1 \in T
  <2> SUFFICES ASSUME NEW n \in Nat, n + 1 <= N, Upto(n) PROVE Upto(n + 1)
    <3> HIDE DEF Upto
    <3> QED
      OBVIOUS
  <2>1. n \in 0 .. N /\ n + 1 \in 1 .. N
    OBVIOUS
  <2>2. front(n + 1) = Append(front(n), cut(n + 1)) /\ cut(n + 1) \in Seq(Block)
    <3>1. ss[n + 1] = cut(n + 1) /\ ss[n + 1] \in Seq(Block)
      BY <1>4, <2>1
    <3> HIDE DEF ss
    <3> QED
      BY <1>4, <2>1, <3>1
  <2>3. PICK s : s = FlattenSeq(front(n)) /\ Pieces(s, 0, end(n), target)
    OBVIOUS
  <2>4. PICK t : t = cut(n + 1) /\ Pieces(t, blocks[n + 1].char_start, blocks[n + 1].char_end, target)
    BY <1>3, <2>1
  <2>5. FlattenSeq(front(n + 1)) = s \o t
    <3>1. front(n) \in Seq(Seq(Block))
      BY <1>5, <2>1
    <3> HIDE DEF front
    <3> QED
      BY <2>2, <2>3, <2>4, <3>1, FlattenAppend
  <2>6. PICK b \in Int, c \in Int, d \in Int :
            /\ b = end(n) /\ c = blocks[n + 1].char_start /\ d = blocks[n + 1].char_end
            /\ 0 <= c /\ b <= c /\ b <= d
    <3>1. PICK c \in Nat, d \in Nat : c = blocks[n + 1].char_start /\ d = blocks[n + 1].char_end /\ c < d
      BY <1>3, <2>1
    <3>2. CASE n = 0
      BY <3>1, <3>2
    <3>3. CASE n # 0
      <4>1. n \in 1 .. N /\ n < n + 1
        BY <2>1, <3>3
      <4>2. blocks[n].char_end <= blocks[n + 1].char_start /\ blocks[n].char_end \in Nat
        BY <1>1, <1>3, <2>1, <4>1 DEF InOrder
      <4>3. PICK q \in Nat : q = blocks[n].char_end /\ q <= c
        BY <3>1, <4>2
      <4>4. end(n) = q
        BY <3>3, <4>3
      <4>5. q \in Int /\ c \in Int /\ d \in Int /\ 0 <= c /\ q <= c /\ q <= d
        BY <3>1, <4>3
      <4> QED
        BY <3>1, <4>4, <4>5
    <3> QED
      BY <3>2, <3>3
  <2>7. Pieces(s \o t, 0, d, target) /\ Covered(s \o t) = Covered(s) \cup Covered(t)
    <3>1. PICK a \in Int : a = 0
      OBVIOUS
    <3>2. Pieces(s, a, b, target) /\ Pieces(t, c, d, target) /\ Follow(a, b, c, d) /\ target \in Nat
      BY <2>3, <2>4, <2>6, <3>1 DEF Follow
    <3>3. Pieces(s \o t, a, d, target) /\ Covered(s \o t) = Covered(s) \cup Covered(t)
      BY <3>2, PiecesJoin
    <3> QED
      BY <3>1, <3>3
  <2>8. Covered(t) \ blanks = range(n + 1) \ blanks
    BY <1>3, <2>1, <2>4
  <2>9. ranges(n + 1) = ranges(n) \cup range(n + 1)
    <3> HIDE DEF range
    <3>1. 1 .. n + 1 = (1 .. n) \cup {n + 1}
      OBVIOUS
    <3>2. ASSUME NEW x PROVE x \in ranges(n + 1) <=> x \in ranges(n) \/ x \in range(n + 1)
      <4>1. x \in ranges(n + 1) <=> \E i \in 1 .. n + 1 : x \in range(i)
        OBVIOUS
      <4>2. x \in ranges(n) <=> \E i \in 1 .. n : x \in range(i)
        OBVIOUS
      <4> HIDE DEF ranges
      <4> QED
        BY <3>1, <4>1, <4>2, Zenon
    <3> HIDE DEF ranges
    <3> QED
      BY <3>2
  <2> HIDE DEF front, range, ranges
  <2>10. end(n + 1) = d
    BY <2>6
  <2>11. Covered(s) \ blanks = ranges(n) \ blanks
    BY <2>3
  <2>12. Covered(s \o t) \ blanks = ranges(n + 1) \ blanks
    BY <2>7, <2>8, <2>9, <2>11, Zenon
  <2> QED
    BY <2>5, <2>7, <2>10, <2>12
<1> HIDE DEF T
<1>8. N \in T
  <2>1. T \subseteq Nat
    BY DEF T
  <2> QED
    BY <1>6, <1>7, <2>1, Counting
<1>9. Upto(N)
  BY <1>8 DEF T
<1>10. front(N) = ss
  BY <1>4
<1>11. end(N) \in Nat
  BY <1>3
<1>12. Covered(blocks) = ranges(N)
  BY <1>1 DEF Covered
<1> HIDE DEF ss, front, end, range, ranges
<1>13. /\ Pieces(FlattenSeq(ss), 0, end(N), target)
       /\ Covered(FlattenSeq(ss)) \ blanks = ranges(N) \ blanks
  BY <1>9, <1>10
<1> QED
  BY <1>2, <1>11, <1>12, <1>13

-----------------------------------------------------------------------------
(* What a chunk holds. *)

Piece == {b \in Block : b.char_start < b.char_end}

\* A piece has a character.
LEMMA PieceSize ==
    ASSUME NEW b \in Piece
    PROVE  /\ b.char_start \in Nat /\ b.char_end \in Nat /\ b.char_start < b.char_end
           /\ Size(b) \in Nat /\ Size(b) = b.char_end - b.char_start
<1>1. b \in Block /\ b.char_start < b.char_end
  BY DEF Piece
<1>2. b.char_start \in Nat /\ b.char_end \in Nat
  BY <1>1 DEF Block
<1> QED
  BY <1>1, <1>2 DEF Size

\* A block more adds its size.
LEMMA TextSizeIs ==
    ASSUME NEW blocks \in Seq(Piece), NEW b \in Piece
    PROVE  /\ TextSize(blocks) \in Nat
           /\ TextSize(Append(blocks, b)) = TextSize(blocks) + Size(b)
<1>1. PICK N \in Nat : N = Len(blocks) /\ DOMAIN blocks = 1 .. N
  OBVIOUS
<1> DEFINE more == Append(blocks, b)
           s == [i \in DOMAIN blocks |-> Size(blocks[i])]
           t == [i \in DOMAIN more |-> Size(more[i])]
<1>2. /\ DOMAIN more = 1 .. N + 1 /\ more[N + 1] = b
      /\ \A i \in 1 .. N : more[i] = blocks[i]
  BY <1>1
<1>3. s \in Seq(Nat) /\ Len(s) = N
  <2>1. \A i \in 1 .. N : Size(blocks[i]) \in Nat
    BY <1>1, PieceSize
  <2> QED
    BY <1>1, <2>1
<1>4. Size(b) \in Nat
  BY PieceSize
<1> HIDE DEF more
<1>5. t = Append(s, Size(b))
  <2> DEFINE u == Append(s, Size(b))
  <2>1. DOMAIN u = 1 .. N + 1 /\ u[N + 1] = Size(b) /\ \A i \in 1 .. N : u[i] = s[i]
    BY <1>3, <1>4
  <2>2. u = [i \in 1 .. N + 1 |-> u[i]]
    BY <1>3, <1>4, <2>1
  <2>3. \A i \in 1 .. N + 1 : u[i] = t[i]
    <3> SUFFICES ASSUME NEW i \in 1 .. N + 1 PROVE u[i] = t[i]
      OBVIOUS
    <3>1. t[i] = Size(more[i])
      BY <1>2
    <3> HIDE DEF t, u
    <3>2. CASE i = N + 1
      BY <1>2, <2>1, <3>1, <3>2
    <3>3. CASE i \in 1 .. N
      BY <1>1, <1>2, <2>1, <3>1, <3>3
    <3> QED
      BY <3>2, <3>3
  <2>4. t = [i \in 1 .. N + 1 |-> t[i]]
    BY <1>2
  <2> HIDE DEF t, u
  <2>5. u = t
    BY <2>2, <2>3, <2>4
  <2> QED
    BY <2>5 DEF u
<1>6. TextSize(blocks) = Total(s) /\ TextSize(more) = Total(t)
  BY DEF TextSize
<1> HIDE DEF s, t
<1> QED
  BY <1>3, <1>4, <1>5, <1>6, TotalAppend DEF more

LEMMA TextSizeOfNone == TextSize(<<>>) = 0
<1>1. [i \in DOMAIN <<>> |-> Size(<<>>[i])] = <<>>
  OBVIOUS
<1> QED
  BY <1>1, TotalOfNone DEF TextSize

\* The blocks repeated are the last ones of the chunk, and few.
LEMMA CarryIs ==
    ASSUME NEW blocks \in Seq(Piece), NEW overlap \in Nat
    PROVE  \E m \in 0 .. Len(blocks) :
              /\ Carry(blocks, overlap) = SubSeq(blocks, Len(blocks) - m + 1, Len(blocks))
              /\ TextSize(Carry(blocks, overlap)) <= overlap
<1>1. PICK N \in Nat : N = Len(blocks)
  OBVIOUS
<1> DEFINE last(n) == SubSeq(blocks, N - n + 1, N)
           sizes == {n \in 0 .. N : TextSize(last(n)) <= overlap}
<1>2. Carry(blocks, overlap) = last(Max(sizes))
  BY <1>1 DEF Carry
<1>3. 0 \in sizes
  <2>1. last(0) = <<>>
    BY <1>1
  <2> HIDE DEF last
  <2> QED
    BY <2>1, TextSizeOfNone
<1>4. sizes \subseteq Nat /\ \A n \in sizes : n <= N
  OBVIOUS
<1>5. Max(sizes) \in sizes
  <2> HIDE DEF sizes
  <2> QED
    BY <1>3, <1>4, GreatestOf
<1>6. Max(sizes) \in 0 .. N /\ TextSize(last(Max(sizes))) <= overlap
  <2> DEFINE m == Max(sizes)
  <2>1. m \in sizes
    BY <1>5
  <2> HIDE DEF m, last
  <2>2. m \in 0 .. N /\ TextSize(last(m)) <= overlap
    BY <2>1
  <2> QED
    BY <2>2 DEF m
<1> HIDE DEF sizes
<1> QED
  BY <1>1, <1>2, <1>6

\* Of a run, what is repeated is a run that ends where it does.
LEMMA CarryOfRun ==
    ASSUME NEW s \in Seq(Piece), NEW i \in Nat \ {0}, NEW j \in Nat, i <= j, j <= Len(s), NEW overlap \in Nat
    PROVE  \E k \in Nat \ {0} : /\ i <= k /\ k <= j + 1
                                /\ Carry(Run(s, i, j), overlap) = Run(s, k, j)
                                /\ TextSize(Run(s, k, j)) <= overlap
<1>1. PICK L \in Nat : L = j - i + 1
  OBVIOUS
<1>2. Run(s, i, j) \in Seq(Piece) /\ Len(Run(s, i, j)) = L /\ \A n \in 1 .. L : Run(s, i, j)[n] = s[i + n - 1]
  <2>1. Within(Piece, s, i, j)
    BY DEF Within
  <2>2. IsRun(Run(s, i, j), Piece, s, i, j)
    BY <2>1, RunIs
  <2> QED
    BY <1>1, <2>2 DEF IsRun
<1>3. PICK m \in 0 .. L :
            /\ Carry(Run(s, i, j), overlap) = SubSeq(Run(s, i, j), L - m + 1, L)
            /\ TextSize(Carry(Run(s, i, j), overlap)) <= overlap
  BY <1>2, CarryIs
<1>4. PICK k \in Nat \ {0} : k = j - m + 1 /\ i <= k /\ k <= j + 1
  BY <1>1
<1>5. SubSeq(Run(s, i, j), L - m + 1, L) = Run(s, k, j)
  <2> DEFINE r == Run(s, i, j)
             u == SubSeq(r, L - m + 1, L)
  <2>1. r \in Seq(Piece) /\ Len(r) = L /\ \A n \in 1 .. L : r[n] = s[i + n - 1]
    BY <1>2
  <2> HIDE DEF r
  <2>2. u = [n \in 1 .. m |-> r[L - m + n]]
    BY <2>1
  <2>3. ASSUME NEW n \in 1 .. m PROVE r[L - m + n] = s[k + n - 1]
    <3>1. L - m + n \in 1 .. L /\ i + (L - m + n) - 1 = k + n - 1
      BY <1>1, <1>4
    <3> QED
      BY <2>1, <3>1
  <2>4. j - k + 1 = m
    BY <1>4
  <2>5. Run(s, k, j) = [n \in 1 .. m |-> s[k + n - 1]]
    BY <2>4 DEF Run
  <2> QED
    BY <2>2, <2>3, <2>5 DEF r
<1> QED
  BY <1>3, <1>4, <1>5

-----------------------------------------------------------------------------
(* How pieces are packed into chunks. *)

Packs == Seq(Seq(Piece)) \ {<<>>}

\* Among packs there is always a last one.
LEMMA PackIs ==
    ASSUME NEW acc \in Packs
    PROVE  /\ acc \in Seq(Seq(Piece)) /\ Len(acc) \in Nat \ {0}
           /\ acc[Len(acc)] \in Seq(Piece) /\ \A k \in 1 .. Len(acc) : acc[k] \in Seq(Piece)
<1>1. acc \in Seq(Seq(Piece)) /\ acc # <<>>
  BY DEF Packs
<1>2. PICK M \in Nat : M = Len(acc)
  BY <1>1
<1>3. M # 0
  BY <1>1, <1>2, NoLength
<1>4. \A k \in 1 .. M : acc[k] \in Seq(Piece)
  BY <1>1, <1>2
<1>5. M \in 1 .. M
  BY <1>3
<1> QED
  BY <1>1, <1>2, <1>3, <1>4, <1>5

\* What becomes of the chunks when a block comes: it ends the last one, or a new one.
Grown(acc, last, M, new, b, target, overlap) ==
    LET fits == last = <<>> \/ TextSize(last) + Size(b) <= target
    IN  /\ new \in Packs
        /\ fits => Len(new) = M /\ new[M] = Append(last, b)
        /\ ~ fits => /\ Len(new) = M + 1
                     /\ new[M] = last
                     /\ new[M + 1] = Append(Carry(last, overlap), b)
        /\ \A k \in 1 .. M - 1 : new[k] = acc[k]

\* A piece goes into the last pack, or begins a new one after what it repeats.
LEMMA PackedIs ==
    ASSUME NEW acc \in Packs, NEW b \in Piece, NEW target \in Nat, NEW overlap \in Nat
    PROVE  Grown(acc, acc[Len(acc)], Len(acc), Packed(acc, b, target, overlap), b, target, overlap)
<1> DEFINE last == acc[Len(acc)]
           fits == last = <<>> \/ TextSize(last) + Size(b) <= target
           new == Packed(acc, b, target, overlap)
<1>1. PICK M \in Nat \ {0} : M = Len(acc)
  BY PackIs
<1>2. acc \in Seq(Seq(Piece)) /\ last \in Seq(Piece) /\ last = acc[M]
  BY <1>1, PackIs
<1>3. CASE fits
  <2> DEFINE more == Append(last, b)
  <2>1. more \in Seq(Piece)
    BY <1>2
  <2>2. new = [acc EXCEPT ![M] = more]
    BY <1>1, <1>3 DEF Packed
  <2> HIDE DEF more, new, last
  <2>3. new \in Seq(Seq(Piece)) /\ Len(new) = M /\ new[M] = more /\ \A k \in 1 .. M - 1 : new[k] = acc[k]
    BY <1>1, <1>2, <2>1, <2>2
  <2>4. new # <<>>
    BY <2>3
  <2>5. new \in Packs
    BY <2>3, <2>4 DEF Packs
  <2> QED
    BY <1>1, <1>3, <2>3, <2>5 DEF more, new, last, Grown
<1>4. CASE ~ fits
  <2> DEFINE carried == Carry(last, overlap)
             more == Append(carried, b)
  <2>1. PICK m \in 0 .. Len(last) : carried = SubSeq(last, Len(last) - m + 1, Len(last))
    BY <1>2, CarryIs
  <2>2. carried \in Seq(Piece)
    BY <1>2, <2>1
  <2> HIDE DEF carried
  <2>3. more \in Seq(Piece)
    BY <2>2
  <2>4. new = Append(acc, more)
    BY <1>1, <1>4 DEF Packed, carried
  <2> HIDE DEF more, new, last
  <2>5. new \in Seq(Seq(Piece)) /\ Len(new) = M + 1 /\ new[M + 1] = more /\ \A k \in 1 .. M : new[k] = acc[k]
    BY <1>1, <1>2, <2>3, <2>4
  <2>6. new # <<>>
    BY <2>5
  <2>7. new \in Packs
    BY <2>5, <2>6 DEF Packs
  <2>8. new[M] = last /\ \A k \in 1 .. M - 1 : new[k] = acc[k]
    BY <1>1, <1>2, <2>5
  <2> QED
    BY <1>1, <1>4, <2>5, <2>7, <2>8 DEF more, new, last, carried, Grown
<1> QED
  BY <1>3, <1>4

\* f has the chunks after each piece.
PackedBy(f, s, target, overlap) ==
    f = [n \in 0 .. Len(s) |->
           IF n = 0 THEN <<<<>>>> ELSE Packed(f[n - 1], s[n], target, overlap)]

\* There is such a function for all pieces.
LEMMA PackedThere ==
    ASSUME NEW s \in Seq(Piece), NEW target \in Nat, NEW overlap \in Nat
    PROVE  \E f : PackedBy(f, s, target, overlap)
<1>1. PICK N \in Nat : N = Len(s)
  OBVIOUS
<1>2. \A n \in 1 .. N : s[n] \in Piece
  BY <1>1
<1> DEFINE D == [x \in Packs \X (1 .. N) |-> Packed(x[1], s[x[2]], target, overlap)]
<1>3. \A acc \in Packs, n \in 1 .. N : D[<<acc, n>>] = Packed(acc, s[n], target, overlap)
  OBVIOUS
<1>4. ASSUME NEW acc \in Packs, NEW n \in 1 .. N PROVE Packed(acc, s[n], target, overlap) \in Packs
  BY <1>2, PackedIs DEF Grown
<1>5. D \in [Packs \X (1 .. N) -> Packs]
  BY <1>4
<1>6. <<<<>>>> \in Packs
  BY DEF Packs
<1> HIDE DEF D
<1>7. PICK f : Loops(f, Packs, <<<<>>>>, N, D)
  BY <1>5, <1>6, Loop
<1>8. f \in [0 .. N -> Packs] /\ f[0] = <<<<>>>>
  BY <1>7 DEF Loops
<1>9. ASSUME NEW n \in 1 .. N PROVE f[n] = Packed(f[n - 1], s[n], target, overlap)
  <2>1. f[n - 1] \in Packs /\ f[n] = D[<<f[n - 1], n>>]
    BY <1>7 DEF Loops
  <2> QED
    BY <1>3, <2>1
<1> DEFINE g(n) == IF n = 0 THEN <<<<>>>> ELSE Packed(f[n - 1], s[n], target, overlap)
<1>10. \A n \in 0 .. N : f[n] = g(n)
  <2> SUFFICES ASSUME NEW n \in 0 .. N PROVE f[n] = g(n)
    OBVIOUS
  <2>1. CASE n = 0
    BY <1>8, <2>1
  <2>2. CASE n # 0
    <3>1. n \in 1 .. N
      BY <2>2
    <3> QED
      BY <1>9, <2>2, <3>1
  <2> QED
    BY <2>1, <2>2
<1>11. f = [n \in 0 .. N |-> f[n]]
  BY <1>8
<1> HIDE DEF g
<1>12. f = [n \in 0 .. N |-> g(n)]
  BY <1>10, <1>11
<1> QED
  BY <1>1, <1>12 DEF PackedBy, g

\* A run holds the members between its ends.
LEMMA RunHolds ==
    ASSUME NEW S, NEW s \in Seq(S), NEW i \in Nat \ {0}, NEW j \in Nat, i <= j + 1, j <= Len(s)
    PROVE  ToSet(Run(s, i, j)) = {s[m] : m \in i .. j}
<1>1. ToSet(Run(s, i, j)) = {Run(s, i, j)[n] : n \in 1 .. j - i + 1}
  BY DEF ToSet, Run
<1>2. \A n \in 1 .. j - i + 1 : Run(s, i, j)[n] = s[i + n - 1]
  BY DEF Run
<1>3. ASSUME NEW x, NEW n \in 1 .. j - i + 1, x = Run(s, i, j)[n] PROVE \E m \in i .. j : x = s[m]
  <2>1. i + n - 1 \in i .. j
    OBVIOUS
  <2> QED
    BY <1>2, <1>3, <2>1
<1>4. ASSUME NEW x, NEW m \in i .. j, x = s[m] PROVE \E n \in 1 .. j - i + 1 : x = Run(s, i, j)[n]
  <2>1. m - i + 1 \in 1 .. j - i + 1 /\ i + (m - i + 1) - 1 = m
    OBVIOUS
  <2>2. Run(s, i, j)[m - i + 1] = s[i + (m - i + 1) - 1]
    BY <1>2, <2>1
  <2> QED
    BY <1>4, <2>1, <2>2
<1> QED
  BY <1>1, <1>3, <1>4

\* A chunk has something the one before has not.
Fresh(chunk, before) == \E x \in ToSet(chunk) : x \notin ToSet(before)

\* What `acc` is after the first n pieces: runs of them, the last of which ends
\* with the nth; none is lost; and each chunk has a piece the one before it has not.
Packing(acc, s, n, size) ==
    /\ acc \in Packs
    /\ \A k \in 1 .. Len(acc) : /\ \E i, j \in 1 .. n : i <= j /\ acc[k] = Run(s, i, j)
                                /\ TextSize(acc[k]) <= size
    /\ \E i \in 1 .. n : acc[Len(acc)] = Run(s, i, n)
    /\ \A k \in 2 .. Len(acc) : Fresh(acc[k], acc[k - 1])
    /\ \A i \in 1 .. n : \E k \in 1 .. Len(acc) : s[i] \in ToSet(acc[k])

\* The first piece makes a chunk.
LEMMA FirstPacked ==
    ASSUME NEW s \in Seq(Piece), Len(s) > 0, NEW target \in Nat, NEW overlap \in Nat,
           Size(s[1]) <= target
    PROVE  Packing(Packed(<<<<>>>>, s[1], target, overlap), s, 1, target + overlap)
<1>1. PICK b \in Piece : b = s[1]
  OBVIOUS
<1>2. <<<<>>>> \in Packs /\ Len(<<<<>>>>) = 1 /\ <<<<>>>>[1] = <<>>
  BY DEF Packs
<1>3. PICK acc : acc = Packed(<<<<>>>>, b, target, overlap)
  OBVIOUS
<1>4. acc \in Packs /\ Len(acc) = 1 /\ acc[1] = Append(<<>>, b)
  <2>1. Grown(<<<<>>>>, <<>>, 1, acc, b, target, overlap)
    BY <1>2, <1>3, PackedIs
  <2> QED
    BY <2>1 DEF Grown
<1>5. Append(<<>>, b) = Run(s, 1, 1)
  <2>1. Run(s, 1, 1) = <<s[1]>>
    BY DEF Run
  <2> QED
    BY <1>1, <2>1
<1>6. TextSize(acc[1]) <= target + overlap
  <2>1. <<>> \in Seq(Piece)
    OBVIOUS
  <2>2. TextSize(Append(<<>>, b)) = TextSize(<<>>) + Size(b)
    BY <2>1, TextSizeIs
  <2>3. Size(b) \in Nat /\ Size(b) <= target
    BY <1>1, PieceSize
  <2> QED
    BY <1>4, <2>2, <2>3, TextSizeOfNone
<1>7. s[1] \in ToSet(acc[1])
  <2>1. ToSet(<<b>>) = {b}
    BY DEF ToSet
  <2>2. Append(<<>>, b) = <<b>>
    OBVIOUS
  <2> QED
    BY <1>1, <1>4, <2>1, <2>2
<1>8. acc[1] = Run(s, 1, 1)
  BY <1>4, <1>5
<1>9. Packing(acc, s, 1, target + overlap)
  BY <1>4, <1>6, <1>7, <1>8 DEF Packing
<1> QED
  BY <1>1, <1>3, <1>9

\* A piece that fits ends the last chunk; one that does not ends a new one, after
\* what is repeated.
LEMMA NextPacked ==
    ASSUME NEW s \in Seq(Piece), NEW target \in Nat, NEW overlap \in Nat,
           \A i \in 1 .. Len(s) : Size(s[i]) <= target,
           \A i, j \in 1 .. Len(s) : i < j => s[i] # s[j],
           NEW n \in Nat \ {0}, n + 1 <= Len(s),
           NEW acc, Packing(acc, s, n, target + overlap)
    PROVE  Packing(Packed(acc, s[n + 1], target, overlap), s, n + 1, target + overlap)
<1>1. PICK N \in Nat : N = Len(s) /\ n + 1 <= N
  OBVIOUS
<1>2. PICK b \in Piece : b = s[n + 1] /\ Size(b) <= target /\ Size(b) \in Nat
  <2>1. n + 1 \in 1 .. N
    BY <1>1
  <2> QED
    BY <1>1, <2>1, PieceSize
<1>3. acc \in Packs
  BY DEF Packing
<1>4. PICK M \in Nat \ {0} : M = Len(acc)
  BY <1>3, PackIs
<1>5. PICK i0 \in 1 .. n : acc[M] = Run(s, i0, n)
  BY <1>4 DEF Packing
<1>6. PICK last \in Seq(Piece) : last = acc[M] /\ last = Run(s, i0, n) /\ last # <<>>
  <2>1. acc[M] \in Seq(Piece)
    BY <1>3, <1>4, PackIs
  <2>2. Within(Piece, s, i0, n)
    BY <1>1 DEF Within
  <2>3. IsRun(Run(s, i0, n), Piece, s, i0, n)
    BY <2>2, RunIs
  <2>4. Run(s, i0, n) # <<>>
    BY <2>3 DEF IsRun
  <2> QED
    BY <1>5, <2>1, <2>4
<1>7. PICK new : new = Packed(acc, b, target, overlap)
  OBVIOUS
<1> DEFINE fits == TextSize(last) + Size(b) <= target
<1>8. /\ new \in Packs
      /\ fits => Len(new) = M /\ new[M] = Append(last, b)
      /\ ~ fits => Len(new) = M + 1 /\ new[M] = last /\ new[M + 1] = Append(Carry(last, overlap), b)
      /\ \A k \in 1 .. M - 1 : new[k] = acc[k]
  <2>1. Grown(acc, last, M, new, b, target, overlap)
    BY <1>3, <1>4, <1>6, <1>7, PackedIs
  <2> QED
    BY <1>6, <2>1 DEF Grown
<1>9. TextSize(last) \in Nat /\ TextSize(Append(last, b)) = TextSize(last) + Size(b)
  BY <1>6, TextSizeIs
<1>10. \A k \in 1 .. M : /\ \E i, j \in 1 .. n : i <= j /\ acc[k] = Run(s, i, j)
                         /\ TextSize(acc[k]) <= target + overlap
  BY <1>4 DEF Packing
<1>11. \A k \in 2 .. M : Fresh(acc[k], acc[k - 1])
  BY <1>4 DEF Packing
<1>12. \A i \in 1 .. n : \E k \in 1 .. M : s[i] \in ToSet(acc[k])
  BY <1>4 DEF Packing
<1>13. ASSUME NEW k \in 1 .. M PROVE b \notin ToSet(acc[k])
  <2>1. PICK i \in 1 .. n, j \in 1 .. n : i <= j /\ acc[k] = Run(s, i, j)
    BY <1>10
  <2>2. i \in Nat \ {0} /\ j \in Nat /\ i <= j + 1 /\ j <= Len(s)
    BY <1>1, <2>1
  <2>3. ToSet(acc[k]) = {s[m] : m \in i .. j}
    BY <2>1, <2>2, RunHolds
  <2>4. \A m \in i .. j : s[m] # s[n + 1]
    <3>1. \A m \in i .. j : m \in 1 .. Len(s) /\ n + 1 \in 1 .. Len(s) /\ m < n + 1
      BY <1>1
    <3> QED
      BY <3>1
  <2> QED
    BY <1>2, <2>3, <2>4
<1>14. \A i \in 1 .. n + 1 : i \in 1 .. n \/ i = n + 1
  OBVIOUS
<1>15. \A i \in 1 .. n : i \in 1 .. n + 1
  OBVIOUS
<1>16. n + 1 \in 1 .. n + 1
  OBVIOUS
<1>17. ASSUME NEW i \in Nat \ {0}, i <= n + 1
       PROVE  /\ Append(Run(s, i, n), b) = Run(s, i, n + 1)
              /\ ToSet(Run(s, i, n + 1)) = {s[m] : m \in i .. n + 1}
  <2>1. Append(Run(s, i, n), b) = Run(s, i, n + 1)
    BY <1>1, <1>2, <1>17, RunAppend
  <2>2. PICK j \in Nat : j = n + 1 /\ i <= j + 1 /\ j <= Len(s)
    BY <1>1, <1>17
  <2>3. ToSet(Run(s, i, j)) = {s[m] : m \in i .. j}
    BY <2>2, RunHolds
  <2> QED
    BY <2>1, <2>2, <2>3
<1> HIDE DEF fits
<1>18. CASE fits
  <2>1. Len(new) = M /\ new[M] = Run(s, i0, n + 1) /\ new[M] = Append(last, b)
    <3>1. Len(new) = M /\ new[M] = Append(last, b)
      BY <1>8, <1>18
    <3>2. i0 \in Nat \ {0} /\ i0 <= n + 1
      OBVIOUS
    <3>3. Append(Run(s, i0, n), b) = Run(s, i0, n + 1)
      BY <1>17, <3>2
    <3> QED
      BY <1>6, <3>1, <3>3
  <2>2. i0 \in Nat \ {0} /\ i0 <= n + 1
    OBVIOUS
  <2>3. ToSet(new[M]) = {s[m] : m \in i0 .. n + 1}
    BY <1>17, <2>1, <2>2
  <2>4. b \in ToSet(new[M])
    <3>1. n + 1 \in i0 .. n + 1
      OBVIOUS
    <3> QED
      BY <1>2, <2>3, <3>1
  <2>5. TextSize(new[M]) <= target + overlap
    <3>1. TextSize(new[M]) = TextSize(last) + Size(b)
      BY <1>9, <2>1
    <3>2. TextSize(last) + Size(b) <= target
      BY <1>18 DEF fits
    <3> QED
      BY <3>1, <3>2, <1>2, <1>9
  <2>6. ASSUME NEW k \in 1 .. M
        PROVE  /\ \E i, j \in 1 .. n + 1 : i <= j /\ new[k] = Run(s, i, j)
               /\ TextSize(new[k]) <= target + overlap
    <3>1. CASE k = M
      BY <1>15, <1>16, <2>1, <2>2, <2>5, <3>1
    <3>2. CASE k # M
      <4>1. new[k] = acc[k]
        BY <1>8, <3>2
      <4> QED
        BY <1>10, <1>15, <4>1
    <3> QED
      BY <3>1, <3>2
  <2>7. ASSUME NEW k \in 2 .. M PROVE Fresh(new[k], new[k - 1])
    <3>1. k - 1 \in 1 .. M /\ new[k - 1] = acc[k - 1]
      BY <1>8
    <3>2. CASE k = M
      BY <1>13, <2>4, <3>1, <3>2 DEF Fresh
    <3>3. CASE k # M
      <4>1. new[k] = acc[k]
        BY <1>8, <3>3
      <4> QED
        BY <1>11, <3>1, <4>1
    <3> QED
      BY <3>2, <3>3
  <2>8. ASSUME NEW i \in 1 .. n + 1 PROVE \E k \in 1 .. M : s[i] \in ToSet(new[k])
    <3>0. M \in 1 .. M
      OBVIOUS
    <3>1. CASE i = n + 1
      BY <1>2, <2>4, <3>0, <3>1
    <3>2. CASE i \in 1 .. n
      <4>1. PICK k \in 1 .. M : s[i] \in ToSet(acc[k])
        BY <1>12, <3>2
      <4>2. CASE k # M
        <5>1. new[k] = acc[k]
          BY <1>8, <4>2
        <5> QED
          BY <4>1, <5>1
      <4>3. CASE k = M
        <5>1. i0 \in Nat \ {0} /\ i0 <= n + 1 /\ n <= Len(s)
          BY <1>1
        <5>2. ToSet(Run(s, i0, n)) = {s[m] : m \in i0 .. n}
          BY <5>1, RunHolds
        <5>3. i0 .. n \subseteq i0 .. n + 1
          OBVIOUS
        <5>4. s[i] \in ToSet(new[M])
          BY <1>5, <2>3, <4>1, <4>3, <5>2, <5>3
        <5> QED
          BY <3>0, <5>4
      <4> QED
        BY <4>2, <4>3
    <3> QED
      BY <1>14, <3>1, <3>2
  <2>9. \E i \in 1 .. n + 1 : new[M] = Run(s, i, n + 1)
    BY <1>15, <2>1
  <2>10. Packing(new, s, n + 1, target + overlap)
    BY <1>8, <2>1, <2>6, <2>7, <2>8, <2>9 DEF Packing
  <2> QED
    BY <1>2, <1>7, <2>10
<1>19. CASE ~ fits
  <2>1. PICK c \in Nat \ {0} : /\ i0 <= c /\ c <= n + 1
                               /\ Carry(Run(s, i0, n), overlap) = Run(s, c, n)
                               /\ TextSize(Run(s, c, n)) <= overlap
    <3>1. i0 \in Nat \ {0} /\ n \in Nat /\ i0 <= n /\ n <= Len(s)
      BY <1>1
    <3> QED
      BY <3>1, CarryOfRun
  <2>2. Len(new) = M + 1 /\ new[M] = acc[M] /\ new[M + 1] = Append(Run(s, c, n), b)
    BY <1>6, <1>8, <1>19, <2>1
  <2>3. new[M + 1] = Run(s, c, n + 1) /\ ToSet(new[M + 1]) = {s[m] : m \in c .. n + 1}
    BY <1>17, <2>1, <2>2
  <2>4. b \in ToSet(new[M + 1])
    <3>1. n + 1 \in c .. n + 1
      BY <2>1
    <3> QED
      BY <1>2, <2>3, <3>1
  <2>5. TextSize(new[M + 1]) <= target + overlap
    <3>1. Run(s, c, n) \in Seq(Piece)
      <4>1. Within(Piece, s, c, n)
        BY <1>1, <2>1 DEF Within
      <4>2. IsRun(Run(s, c, n), Piece, s, c, n)
        BY <4>1, RunIs
      <4> QED
        BY <4>2 DEF IsRun
    <3>2. /\ TextSize(Run(s, c, n)) \in Nat
          /\ TextSize(Append(Run(s, c, n), b)) = TextSize(Run(s, c, n)) + Size(b)
      BY <3>1, TextSizeIs
    <3> QED
      BY <1>2, <2>1, <2>2, <3>2
  <2>6. \A k \in 1 .. M : new[k] = acc[k]
    BY <1>8, <2>2
  <2>7. \A k \in 1 .. M + 1 : k \in 1 .. M \/ k = M + 1
    OBVIOUS
  <2>8. c \in 1 .. n + 1 /\ c <= n + 1
    BY <2>1
  <2>9. ASSUME NEW k \in 1 .. M + 1
        PROVE  /\ \E i, j \in 1 .. n + 1 : i <= j /\ new[k] = Run(s, i, j)
               /\ TextSize(new[k]) <= target + overlap
    <3>1. CASE k = M + 1
      BY <1>16, <2>3, <2>5, <2>8, <3>1
    <3>2. CASE k \in 1 .. M
      BY <1>10, <1>15, <2>6, <3>2
    <3> QED
      BY <2>7, <3>1, <3>2
  <2>10. ASSUME NEW k \in 2 .. M + 1 PROVE Fresh(new[k], new[k - 1])
    <3>1. k - 1 \in 1 .. M /\ new[k - 1] = acc[k - 1]
      BY <2>6
    <3>2. CASE k = M + 1
      BY <1>13, <2>4, <3>1, <3>2 DEF Fresh
    <3>3. CASE k # M + 1
      <4>1. k \in 2 .. M /\ new[k] = acc[k]
        BY <2>6, <3>3
      <4> QED
        BY <1>11, <3>1, <4>1
    <3> QED
      BY <3>2, <3>3
  <2>11. ASSUME NEW i \in 1 .. n + 1 PROVE \E k \in 1 .. M + 1 : s[i] \in ToSet(new[k])
    <3>0. M + 1 \in 1 .. M + 1 /\ \A k \in 1 .. M : k \in 1 .. M + 1
      OBVIOUS
    <3>1. CASE i = n + 1
      BY <1>2, <2>4, <3>0, <3>1
    <3>2. CASE i \in 1 .. n
      BY <1>12, <2>6, <3>0, <3>2
    <3> QED
      BY <1>14, <3>1, <3>2
  <2>12. \E i \in 1 .. n + 1 : new[M + 1] = Run(s, i, n + 1)
    BY <2>3, <2>8
  <2>13. Packing(new, s, n + 1, target + overlap)
    BY <1>8, <2>2, <2>9, <2>10, <2>11, <2>12 DEF Packing
  <2> QED
    BY <1>2, <1>7, <2>13
<1> QED
  BY <1>18, <1>19

\* Pieces of a text differ, and none is longer than the target.
LEMMA PiecesAre ==
    ASSUME NEW s, NEW to \in Nat, NEW target \in Nat, Pieces(s, 0, to, target)
    PROVE  /\ s \in Seq(Piece)
           /\ \A i \in 1 .. Len(s) : Size(s[i]) <= target
           /\ \A i, j \in 1 .. Len(s) : i < j => s[i] # s[j]
<1>1. s \in Seq(Block)
  BY DEF Pieces
<1>2. PICK N \in Nat : N = Len(s) /\ DOMAIN s = 1 .. N
  BY <1>1
<1>3. ASSUME NEW i \in 1 .. N PROVE s[i] \in Piece /\ Size(s[i]) <= target
  <2>1. s[i] \in Block
    BY <1>1, <1>2
  <2>2. s[i].char_start < s[i].char_end /\ s[i].char_end - s[i].char_start <= target
    BY <1>2 DEF Pieces
  <2> QED
    BY <2>1, <2>2 DEF Piece, Size
<1>4. s \in Seq(Piece)
  BY <1>1, <1>2, <1>3
<1>5. ASSUME NEW i \in 1 .. N, NEW j \in 1 .. N, i < j PROVE s[i] # s[j]
  <2>1. PICK a \in Nat, b \in Nat, c \in Nat : /\ a = s[i].char_start /\ b = s[i].char_end
                                               /\ c = s[j].char_start /\ a < b
    <3>1. s[i] \in Piece /\ s[j] \in Piece
      BY <1>3
    <3> QED
      BY <3>1, PieceSize
  <2>2. b <= c
    BY <1>2, <1>5, <2>1 DEF Pieces
  <2>3. a # c
    BY <2>1, <2>2
  <2> QED
    BY <2>1, <2>3
<1> QED
  BY <1>2, <1>3, <1>4, <1>5

\* The chunks that are made of the pieces s.
Chunked(cs, s, size) ==
    IF s = <<>> THEN cs = <<<<>>>> ELSE Packing(cs, s, Len(s), size)

\* After the last piece, the chunks have all of them.
LEMMA PackedUp ==
    ASSUME NEW s \in Seq(Piece), NEW target \in Nat, NEW overlap \in Nat,
           \A i \in 1 .. Len(s) : Size(s[i]) <= target,
           \A i, j \in 1 .. Len(s) : i < j => s[i] # s[j],
           NEW packed, PackedBy(packed, s, target, overlap)
    PROVE  Chunked(packed[Len(s)], s, target + overlap)
<1>1. PICK N \in Nat : N = Len(s)
  OBVIOUS
<1>2. packed[0] = <<<<>>>>
  BY <1>1 DEF PackedBy
<1>3. ASSUME NEW n \in 1 .. N PROVE packed[n] = Packed(packed[n - 1], s[n], target, overlap)
  <2>1. n \in 0 .. Len(s) /\ n # 0
    BY <1>1
  <2>2. packed = [m \in 0 .. Len(s) |->
                    IF m = 0 THEN <<<<>>>> ELSE Packed(packed[m - 1], s[m], target, overlap)]
    BY DEF PackedBy
  <2>3. packed[n] = IF n = 0 THEN <<<<>>>> ELSE Packed(packed[n - 1], s[n], target, overlap)
    BY <2>1, <2>2, Zenon
  <2> QED
    BY <2>1, <2>3
<1>4. CASE N = 0
  <2>1. s = <<>>
    BY <1>1, <1>4, NoLength
  <2> QED
    BY <1>1, <1>2, <1>4, <2>1 DEF Chunked
<1>5. CASE N # 0
  <2> DEFINE T == {n \in Nat : n + 1 <= N => Packing(packed[n + 1], s, n + 1, target + overlap)}
  <2>1. 0 \in T
    <3>1. 1 \in 1 .. N /\ Len(s) > 0
      BY <1>1, <1>5
    <3>2. Size(s[1]) <= target
      BY <1>1, <3>1
    <3>3. Packing(Packed(<<<<>>>>, s[1], target, overlap), s, 1, target + overlap)
      BY <3>1, <3>2, FirstPacked
    <3>4. packed[1] = Packed(<<<<>>>>, s[1], target, overlap)
      BY <1>2, <1>3, <3>1
    <3> QED
      BY <3>3, <3>4
  <2>2. \A n \in T : n + 1 \in T
    <3> SUFFICES ASSUME NEW n \in Nat, n + 2 <= N, Packing(packed[n + 1], s, n + 1, target + overlap)
                 PROVE  Packing(packed[n + 2], s, n + 2, target + overlap)
      OBVIOUS
    <3>1. PICK m \in Nat \ {0} : m = n + 1 /\ m + 1 <= Len(s) /\ m + 1 = n + 2
      BY <1>1
    <3>2. Packing(packed[m], s, m, target + overlap)
      BY <3>1
    <3>3. packed[m + 1] = Packed(packed[m], s[m + 1], target, overlap)
      <4>1. m + 1 \in 1 .. N /\ (m + 1) - 1 = m
        BY <1>1, <3>1
      <4> QED
        BY <1>3, <4>1
    <3>4. Packing(Packed(packed[m], s[m + 1], target, overlap), s, m + 1, target + overlap)
      BY <3>1, <3>2, NextPacked
    <3> QED
      BY <3>1, <3>3, <3>4
  <2>3. T \subseteq Nat
    OBVIOUS
  <2>4. PICK n \in Nat : n + 1 = N
    BY <1>5
  <2> HIDE DEF T
  <2>5. n \in T
    BY <2>1, <2>2, <2>3, Counting
  <2>6. Packing(packed[N], s, N, target + overlap)
    BY <2>4, <2>5 DEF T
  <2>7. s # <<>>
    BY <1>1, <1>5
  <2> QED
    BY <1>1, <2>6, <2>7 DEF Chunked
<1> QED
  BY <1>4, <1>5

\* The chunks of blocks in order are packed of their pieces.
LEMMA ChunksAre ==
    ASSUME NEW blocks, InOrder(blocks), blocks # <<>>, NEW target \in Nat \ {0}, NEW overlap \in Nat,
           NEW blanks \in SUBSET Nat
    PROVE  /\ Normalized(blocks, target, blanks) \in Seq(Piece)
           /\ Chunked(chunk_blocks(blocks, target, overlap, blanks),
                      Normalized(blocks, target, blanks), target + overlap)
<1>1. PICK s : s = Normalized(blocks, target, blanks) /\ \E to \in Nat : Pieces(s, 0, to, target)
  BY NormalizedIs
<1>2. target \in Nat
  OBVIOUS
<1>3. /\ s \in Seq(Piece)
      /\ \A i \in 1 .. Len(s) : Size(s[i]) <= target
      /\ \A i, j \in 1 .. Len(s) : i < j => s[i] # s[j]
  <2>1. PICK to \in Nat : Pieces(s, 0, to, target)
    BY <1>1
  <2> QED
    BY <1>2, <2>1, PiecesAre
<1> DEFINE packed == CHOOSE f : PackedBy(f, s, target, overlap)
<1>4. PackedBy(packed, s, target, overlap)
  BY <1>2, <1>3, PackedThere
<1>5. chunk_blocks(blocks, target, overlap, blanks) = packed[Len(s)]
  BY <1>1, Zenon DEF chunk_blocks, PackedBy
<1> HIDE DEF packed
<1>6. Chunked(packed[Len(s)], s, target + overlap)
  BY <1>2, <1>3, <1>4, PackedUp
<1> QED
  BY <1>1, <1>3, <1>5, <1>6

-----------------------------------------------------------------------------
(* What extraction reads of the chunks. *)

\* Two sequences together have the members of both.
LEMMA JoinHolds ==
    ASSUME NEW S, NEW s \in Seq(S), NEW t \in Seq(S)
    PROVE  ToSet(s \o t) = ToSet(s) \cup ToSet(t)
<1>1. PICK m \in Nat, n \in Nat : m = Len(s) /\ n = Len(t)
  OBVIOUS
<1> DEFINE u == s \o t
<1>2. /\ DOMAIN u = 1 .. m + n /\ DOMAIN s = 1 .. m /\ DOMAIN t = 1 .. n
      /\ \A i \in 1 .. m : u[i] = s[i]
      /\ \A i \in 1 .. n : u[m + i] = t[i]
  BY <1>1
<1> HIDE DEF u
<1>3. ASSUME NEW i \in 1 .. m PROVE i \in 1 .. m + n /\ u[i] = s[i]
  BY <1>2
<1>4. ASSUME NEW i \in 1 .. n PROVE m + i \in 1 .. m + n /\ u[m + i] = t[i]
  BY <1>2
<1>5. ASSUME NEW i \in 1 .. m + n
      PROVE  (\E k \in 1 .. m : u[i] = s[k]) \/ (\E k \in 1 .. n : u[i] = t[k])
  <2>1. CASE i \in 1 .. m
    BY <1>3, <2>1
  <2>2. CASE i \notin 1 .. m
    <3>1. i - m \in 1 .. n /\ m + (i - m) = i
      BY <2>2
    <3> QED
      BY <1>4, <3>1
  <2> QED
    BY <2>1, <2>2
<1>6. /\ ToSet(u) = {u[i] : i \in 1 .. m + n}
      /\ ToSet(s) = {s[i] : i \in 1 .. m}
      /\ ToSet(t) = {t[i] : i \in 1 .. n}
  BY <1>2 DEF ToSet
<1>7. ToSet(u) \subseteq ToSet(s) \cup ToSet(t)
  BY <1>5, <1>6, Zenon
<1>8. ToSet(s) \subseteq ToSet(u)
  BY <1>3, <1>6, Zenon
<1>9. ToSet(t) \subseteq ToSet(u)
  <2>1. ASSUME NEW i \in 1 .. n PROVE t[i] \in ToSet(u)
    <3>1. m + i \in 1 .. m + n /\ u[m + i] = t[i]
      BY <1>4
    <3> QED
      BY <1>6, <3>1
  <2> QED
    BY <1>6, <2>1, Zenon
<1> QED
  BY <1>7, <1>8, <1>9 DEF u

\* Joined sequences hold what each holds.
LEMMA FlattenHolds ==
    ASSUME NEW S, NEW ss \in Seq(Seq(S))
    PROVE  ToSet(FlattenSeq(ss)) = UNION {ToSet(ss[i]) : i \in 1 .. Len(ss)}
<1>1. PICK N \in Nat : N = Len(ss)
  OBVIOUS
<1> DEFINE front(n) == SubSeq(ss, 1, n)
           union(n) == UNION {ToSet(ss[i]) : i \in 1 .. n}
           T == {n \in Nat : n <= N => ToSet(FlattenSeq(front(n))) = union(n)}
<1>2. \A n \in 0 .. N : front(n) \in Seq(Seq(S)) /\ Len(front(n)) = n
  BY <1>1
<1>3. 0 \in T
  <2>1. 0 \in 0 .. N
    OBVIOUS
  <2>2. front(0) = <<>>
    <3> HIDE DEF front
    <3> QED
      BY <1>2, <2>1, NoLength
  <2>3. union(0) = {} /\ ToSet(<<>>) = {}
    BY DEF ToSet
  <2> HIDE DEF front, union
  <2> QED
    BY <2>2, <2>3, FlattenOfNone
<1>4. \A n \in T : n + 1 \in T
  <2> SUFFICES ASSUME NEW n \in Nat, n + 1 <= N, ToSet(FlattenSeq(front(n))) = union(n)
               PROVE  ToSet(FlattenSeq(front(n + 1))) = union(n + 1)
    <3> HIDE DEF front, union
    <3> QED
      OBVIOUS
  <2>1. ss[n + 1] \in Seq(S) /\ front(n + 1) = Append(front(n), ss[n + 1])
    BY <1>1
  <2>2. n \in 0 .. N
    OBVIOUS
  <2>3. front(n) \in Seq(Seq(S))
    BY <1>2, <2>2
  <2>4. union(n + 1) = union(n) \cup ToSet(ss[n + 1])
    <3>1. 1 .. n + 1 = (1 .. n) \cup {n + 1}
      OBVIOUS
    <3> QED
      BY <3>1, Zenon
  <2> HIDE DEF front, union
  <2>5. /\ FlattenSeq(front(n)) \in Seq(S)
        /\ FlattenSeq(front(n + 1)) = FlattenSeq(front(n)) \o ss[n + 1]
    BY <2>1, <2>3, FlattenAppend
  <2>6. ToSet(FlattenSeq(front(n + 1))) = ToSet(FlattenSeq(front(n))) \cup ToSet(ss[n + 1])
    <3>1. PICK s, u : s = FlattenSeq(front(n)) /\ u = ss[n + 1] /\ s \in Seq(S) /\ u \in Seq(S)
      BY <2>1, <2>5
    <3>2. ToSet(s \o u) = ToSet(s) \cup ToSet(u)
      BY <3>1, JoinHolds
    <3> QED
      BY <2>5, <3>1, <3>2
  <2> QED
    BY <2>4, <2>6
<1>5. T \subseteq Nat
  OBVIOUS
<1> HIDE DEF T
<1>6. N \in T
  BY <1>3, <1>4, <1>5, Counting
<1>7. front(N) = ss
  BY <1>1
<1> HIDE DEF front, union
<1>8. ToSet(FlattenSeq(ss)) = union(N)
  BY <1>6, <1>7 DEF T
<1> QED
  BY <1>1, <1>8 DEF union

\* The offsets that a block takes.
Span(block) == block.char_start .. block.char_end - 1

\* The characters of a block have its offsets, one after the other.
LEMMA CharactersAre ==
    ASSUME NEW b \in Piece
    PROVE  /\ Characters(b) \in Seq(Nat)
           /\ Len(Characters(b)) = b.char_end - b.char_start
           /\ \A n \in 1 .. b.char_end - b.char_start : Characters(b)[n] = b.char_start + n - 1
           /\ ToSet(Characters(b)) = Span(b)
<1>1. PICK a \in Nat, e \in Nat : a = b.char_start /\ e = b.char_end /\ a < e /\ Size(b) = e - a
  BY PieceSize
<1>2. Characters(b) = [n \in 1 .. e - a |-> a + n - 1]
  BY <1>1 DEF Characters
<1>3. e - a \in Nat
  BY <1>1
<1>4. \A n \in 1 .. e - a : a + n - 1 \in Nat
  BY <1>1
<1>5. Characters(b) \in Seq(Nat) /\ Len(Characters(b)) = e - a
  BY <1>2, <1>3, <1>4
<1>6. ToSet(Characters(b)) = a .. e - 1
  <2>1. ToSet(Characters(b)) = {a + n - 1 : n \in 1 .. e - a}
    BY <1>2 DEF ToSet
  <2>2. ASSUME NEW x \in a .. e - 1 PROVE \E n \in 1 .. e - a : x = a + n - 1
    <3>1. x - a + 1 \in 1 .. e - a /\ x = a + (x - a + 1) - 1
      BY <1>1
    <3> QED
      BY <3>1
  <2>3. ASSUME NEW n \in 1 .. e - a PROVE a + n - 1 \in a .. e - 1
    BY <1>1
  <2>4. ASSUME NEW x PROVE x \in ToSet(Characters(b)) <=> x \in a .. e - 1
    BY <2>1, <2>2, <2>3, Zenon
  <2> QED
    BY <2>4
<1> QED
  BY <1>1, <1>2, <1>5, <1>6 DEF Span

\* What a sequence of blocks covers is what its members cover.
LEMMA CoveredIs ==
    ASSUME NEW s
    PROVE  Covered(s) = UNION {Span(b) : b \in ToSet(s)}
BY DEF Covered, ToSet, Span

\* A chunk's text has the offsets of its blocks, and blank lines.
LEMMA SpecHolds ==
    ASSUME NEW blocks \in Seq(Piece)
    PROVE  ToSet(_build_chunk_spec(blocks)) \ {Nothing} = Covered(blocks)
<1>1. PICK N \in Nat : N = Len(blocks) /\ DOMAIN blocks = 1 .. N
  OBVIOUS
<1> DEFINE S == Nat \cup {Nothing}
           part(i) == IF i = 1 THEN Characters(blocks[i])
                      ELSE <<Nothing, Nothing>> \o Characters(blocks[i])
           ss == [i \in 1 .. N |-> part(i)]
<1>2. _build_chunk_spec(blocks) = FlattenSeq(ss)
  BY <1>1 DEF _build_chunk_spec
<1>3. ASSUME NEW i \in 1 .. N
      PROVE  part(i) \in Seq(S) /\ ToSet(part(i)) \ {Nothing} = Span(blocks[i])
  <2>1. PICK b \in Piece : b = blocks[i]
    BY <1>1
  <2>2. Characters(b) \in Seq(Nat) /\ ToSet(Characters(b)) = Span(b)
    BY CharactersAre
  <2>3. Characters(b) \in Seq(S)
    BY <2>2
  <2>4. Nothing \notin Span(b)
    <3>1. Span(b) \subseteq Nat
      BY PieceSize DEF Span
    <3> QED
      BY <3>1, PassagesAssumption
  <2>5. CASE i = 1
    BY <2>1, <2>2, <2>3, <2>4, <2>5
  <2>6. CASE i # 1
    <3> DEFINE gap == <<Nothing, Nothing>>
    <3>1. gap \in Seq(S) /\ ToSet(gap) = {Nothing}
      BY DEF ToSet
    <3> HIDE DEF gap
    <3>2. ToSet(gap \o Characters(b)) = {Nothing} \cup Span(b)
      BY <2>2, <2>3, <3>1, JoinHolds
    <3>3. gap \o Characters(b) \in Seq(S)
      BY <2>3, <3>1
    <3>4. part(i) = gap \o Characters(b)
      BY <2>1, <2>6 DEF gap
    <3> HIDE DEF part
    <3> QED
      BY <2>1, <2>4, <3>2, <3>3, <3>4
  <2> QED
    BY <2>5, <2>6
<1> HIDE DEF part, S
<1>4. ss \in Seq(Seq(S)) /\ Len(ss) = N /\ \A i \in 1 .. N : ss[i] = part(i)
  BY <1>3
<1> HIDE DEF ss
<1>5. ToSet(FlattenSeq(ss)) = UNION {ToSet(ss[i]) : i \in 1 .. N}
  BY <1>4, FlattenHolds
<1>6. ToSet(FlattenSeq(ss)) \ {Nothing} = UNION {Span(blocks[i]) : i \in 1 .. N}
  <2>1. ASSUME NEW i \in 1 .. N, NEW x
        PROVE  x \in ToSet(ss[i]) /\ x # Nothing <=> x \in Span(blocks[i])
    BY <1>3, <1>4
  <2>2. ASSUME NEW x
        PROVE  x \in ToSet(FlattenSeq(ss)) /\ x # Nothing <=> \E i \in 1 .. N : x \in Span(blocks[i])
    BY <1>5, <2>1, Zenon
  <2> QED
    BY <2>2, Zenon
<1>7. Covered(blocks) = UNION {Span(blocks[i]) : i \in 1 .. N}
  BY <1>1 DEF Covered, Span
<1> QED
  BY <1>2, <1>6, <1>7

\* No piece is lost on the way into the chunks.
LEMMA ChunksHold ==
    ASSUME NEW s \in Seq(Piece), NEW cs, NEW size, Chunked(cs, s, size)
    PROVE  (UNION {ToSet(_build_chunk_spec(cs[k])) : k \in DOMAIN cs}) \ {Nothing} = Covered(s)
<1>1. PICK N \in Nat : N = Len(s) /\ DOMAIN s = 1 .. N
  OBVIOUS
<1>2. CASE s = <<>>
  <2>1. cs = <<<<>>>> /\ DOMAIN cs = {1} /\ cs[1] = <<>> /\ cs[1] \in Seq(Piece)
    <3>1. cs = <<<<>>>>
      BY <1>2 DEF Chunked
    <3>2. <<>> \in Seq(Piece)
      OBVIOUS
    <3>3. DOMAIN <<<<>>>> = {1} /\ <<<<>>>>[1] = <<>>
      OBVIOUS
    <3> QED
      BY <3>1, <3>2, <3>3
  <2>2. ToSet(_build_chunk_spec(<<>>)) \ {Nothing} = Covered(<<>>)
    <3>1. <<>> \in Seq(Piece)
      OBVIOUS
    <3> QED
      BY <3>1, SpecHolds
  <2> DEFINE read(k) == ToSet(_build_chunk_spec(cs[k]))
  <2>3. read(1) \ {Nothing} = Covered(s)
    BY <1>2, <2>1, <2>2
  <2> HIDE DEF read
  <2> DEFINE all == UNION {read(k) : k \in DOMAIN cs}
  <2>4. all = read(1)
    BY <2>1, Zenon
  <2> HIDE DEF all
  <2>5. all \ {Nothing} = Covered(s)
    BY <2>3, <2>4
  <2> QED
    BY <2>5 DEF all, read
<1>3. CASE s # <<>>
  <2>1. Packing(cs, s, N, size)
    BY <1>1, <1>3 DEF Chunked
  <2>2. PICK M \in Nat \ {0} : M = Len(cs) /\ \A k \in 1 .. M : cs[k] \in Seq(Piece)
    BY <2>1, PackIs DEF Packing
  <2>3. DOMAIN cs = 1 .. M
    BY <2>1, <2>2 DEF Packing, Packs
  <2>4. \A k \in 1 .. M : ToSet(_build_chunk_spec(cs[k])) \ {Nothing} = UNION {Span(b) : b \in ToSet(cs[k])}
    BY <2>2, SpecHolds, CoveredIs
  <2>5. ASSUME NEW k \in 1 .. M PROVE ToSet(cs[k]) \subseteq ToSet(s)
    <3>1. PICK i \in 1 .. N, j \in 1 .. N : i <= j /\ cs[k] = Run(s, i, j)
      BY <2>1, <2>2 DEF Packing
    <3>2. i \in Nat \ {0} /\ j \in Nat /\ i <= j + 1 /\ j <= Len(s)
      BY <1>1, <3>1
    <3>3. ToSet(cs[k]) = {s[m] : m \in i .. j}
      BY <3>1, <3>2, RunHolds
    <3>4. i .. j \subseteq 1 .. N
      OBVIOUS
    <3> QED
      BY <1>1, <3>3, <3>4 DEF ToSet
  <2>6. ASSUME NEW b \in ToSet(s) PROVE \E k \in 1 .. M : b \in ToSet(cs[k])
    <3>1. PICK i \in 1 .. N : b = s[i]
      BY <1>1 DEF ToSet
    <3> QED
      BY <2>1, <2>2, <3>1 DEF Packing
  <2>7. Covered(s) = UNION {Span(b) : b \in ToSet(s)}
    BY CoveredIs
  <2>8. ASSUME NEW x, NEW k \in 1 .. M
        PROVE  x \in ToSet(_build_chunk_spec(cs[k])) /\ x # Nothing
                  <=> \E b \in ToSet(cs[k]) : x \in Span(b)
    <3>1. x \in ToSet(_build_chunk_spec(cs[k])) \ {Nothing} <=> x \in UNION {Span(b) : b \in ToSet(cs[k])}
      BY <2>4
    <3> QED
      BY <3>1, Zenon
  <2>9. ASSUME NEW x
        PROVE  (\E k \in 1 .. M : x \in ToSet(_build_chunk_spec(cs[k]))) /\ x # Nothing
                  <=> \E b \in ToSet(s) : x \in Span(b)
    BY <2>5, <2>6, <2>8, Zenon
  <2> DEFINE read(k) == ToSet(_build_chunk_spec(cs[k]))
  <2>10. ASSUME NEW x
         PROVE  (\E k \in DOMAIN cs : x \in read(k)) /\ x # Nothing <=> \E b \in ToSet(s) : x \in Span(b)
    BY <2>3, <2>9
  <2> HIDE DEF read
  <2> DEFINE all == UNION {read(k) : k \in DOMAIN cs}
  <2>11. ASSUME NEW x
         PROVE  x \in all /\ x # Nothing <=> x \in Covered(s)
    <3>1. x \in all <=> \E k \in DOMAIN cs : x \in read(k)
      OBVIOUS
    <3>2. x \in Covered(s) <=> \E b \in ToSet(s) : x \in Span(b)
      BY <2>7
    <3> HIDE DEF all
    <3> QED
      BY <2>10, <3>1, <3>2, Zenon
  <2> HIDE DEF all
  <2>12. all \ {Nothing} = Covered(s)
    BY <2>11
  <2> QED
    BY <2>12 DEF all, read
<1> QED
  BY <1>2, <1>3

-----------------------------------------------------------------------------
(* What is the author's own. *)

\* Blanks are offsets.
LEMMA BlanksAre ==
    ASSUME NEW text \in Seq(Paragraph)
    PROVE  Blanks(text) \in SUBSET Nat
<1>1. ASSUME NEW i \in 1 .. Len(text), NEW n \in 1 .. Len(text[i].words) - 1
      PROVE  OffsetOf(text, i) + Total(SubSeq(text[i].words, 1, n)) + n - 1 \in Nat
  <2>1. i \in 1 .. Len(text) + 1
    OBVIOUS
  <2>2. OffsetOf(text, i) \in Nat
    BY <2>1, OffsetIsNat
  <2>3. PICK words \in Seq(Nat \ {0}) : words = text[i].words
    <3>1. text[i] \in Paragraph
      OBVIOUS
    <3> QED
      BY <3>1 DEF Paragraph
  <2>4. n \in 1 .. Len(words)
    BY <2>3
  <2>5. SubSeq(words, 1, n) \in Seq(Nat)
    BY <2>4
  <2>6. Total(SubSeq(words, 1, n)) \in Nat
    BY <2>5, TotalIsNat
  <2>7. n \in Nat \ {0}
    BY <2>3, <2>4
  <2> QED
    BY <2>2, <2>3, <2>6, <2>7
<1>2. DOMAIN text = 1 .. Len(text)
  OBVIOUS
<1> DEFINE offset(i, n) == OffsetOf(text, i) + Total(SubSeq(text[i].words, 1, n)) + n - 1
<1>3. Blanks(text) = UNION {{offset(i, n) : n \in 1 .. Len(text[i].words) - 1} : i \in 1 .. Len(text)}
  BY <1>2 DEF Blanks
<1>4. \A i \in 1 .. Len(text) : \A n \in 1 .. Len(text[i].words) - 1 : offset(i, n) \in Nat
  BY <1>1
<1> HIDE DEF offset
<1>5. ASSUME NEW x \in Blanks(text) PROVE x \in Nat
  <2>1. PICK i \in 1 .. Len(text) : x \in {offset(i, n) : n \in 1 .. Len(text[i].words) - 1}
    BY <1>3
  <2>2. PICK n \in 1 .. Len(text[i].words) - 1 : x = offset(i, n)
    BY <2>1
  <2> QED
    BY <1>4, <2>2
<1> QED
  BY <1>5

\* The offsets of the words of a text's paragraphs from the ith to the jth.
Spans(text, i, j) == UNION {Span(_split_paragraphs(text)[k]) : k \in i .. j}

\* A part of a text takes the offsets its paragraphs have in the whole.
LEMMA PartSpans ==
    ASSUME NEW before \in Seq(Paragraph), NEW part \in Seq(Paragraph), NEW more \in Seq(Paragraph),
           NEW text, text = (before \o part) \o more
    PROVE  OffsetsOf(part, before)
              = Spans(text, Len(before) + 1, Len(before) + Len(part))
<1>1. PICK m \in Nat, n \in Nat : m = Len(before) /\ n = Len(part)
  OBVIOUS
<1>2. PICK front \in Seq(Paragraph) : front = before \o part /\ Len(front) = m + n
  <2>1. before \o part \in Seq(Paragraph) /\ Len(before \o part) = m + n
    BY <1>1
  <2> QED
    BY <2>1
<1>3. /\ text \in Seq(Paragraph) /\ Len(text) >= m + n
      /\ text = front \o more
      /\ \A i \in 1 .. m + n : text[i] = front[i] /\ i \in 1 .. Len(text)
  BY <1>1, <1>2
<1>4. ASSUME NEW i \in m + 1 .. m + n
      PROVE  Span(_split_paragraphs(text)[i]) = Span(_split_paragraphs(front)[i])
  <2>1. i \in 1 .. Len(front) /\ i \in 1 .. Len(front) + 1 /\ i \in 1 .. Len(text) /\ text[i] = front[i]
    BY <1>2, <1>3
  <2>2. OffsetOf(text, i) = OffsetOf(front, i)
    BY <1>3, <2>1, OffsetOfPrefix
  <2>3. /\ _split_paragraphs(text)[i].char_start = OffsetOf(text, i)
        /\ _split_paragraphs(text)[i].char_end = OffsetOf(text, i) + Length(text[i])
    BY <1>3, <2>1, ParagraphBlock
  <2>4. /\ _split_paragraphs(front)[i].char_start = OffsetOf(front, i)
        /\ _split_paragraphs(front)[i].char_end = OffsetOf(front, i) + Length(front[i])
    BY <2>1, ParagraphBlock
  <2> QED
    BY <2>1, <2>2, <2>3, <2>4 DEF Span
<1>5. OffsetsOf(part, before) = UNION {Span(_split_paragraphs(front)[i]) : i \in m + 1 .. m + n}
  BY <1>1, <1>2 DEF OffsetsOf, Span
<1> DEFINE there(i) == Span(_split_paragraphs(text)[i])
           here(i) == Span(_split_paragraphs(front)[i])
<1>6. \A i \in m + 1 .. m + n : there(i) = here(i)
  BY <1>4
<1> HIDE DEF there, here
<1>7. {there(i) : i \in m + 1 .. m + n} = {here(i) : i \in m + 1 .. m + n}
  BY <1>6, Zenon
<1> QED
  BY <1>1, <1>5, <1>7 DEF there, here, Spans

\* The visible blocks, one by one.
LEMMA VisibleRun ==
    ASSUME NEW doc \in Document
    PROVE  IsRun(visible_blocks(doc), Block, _split_paragraphs(full_text(doc)), FirstRead(doc), LastRead(doc))
<1> DEFINE s == _split_paragraphs(full_text(doc))
<1>1. full_text(doc) \in Seq(Paragraph)
  BY DocumentParts
<1>2. s \in Seq(Block) /\ Len(s) = Len(full_text(doc))
  BY <1>1, ParagraphBlock
<1>3. visible_blocks(doc) = Run(s, FirstRead(doc), LastRead(doc))
  BY VisibleBlocks
<1> HIDE DEF s
<1>4. Within(Block, s, FirstRead(doc), LastRead(doc))
  BY <1>2, ReadRange DEF Within
<1>5. IsRun(Run(s, FirstRead(doc), LastRead(doc)), Block, s, FirstRead(doc), LastRead(doc))
  BY <1>4, RunIs
<1> QED
  BY <1>3, <1>5 DEF s

\* The blocks of a run have their places in the text.
LEMMA PlaceInText ==
    ASSUME NEW a \in Nat \ {0}, NEW z \in Nat, NEW N \in Nat, z <= N, NEW L, L = z - a + 1, NEW k \in 1 .. L
    PROVE  a + k - 1 \in 1 .. N
OBVIOUS

\* The visible blocks take the offsets of the paragraphs to be read.
LEMMA VisibleSpans ==
    ASSUME NEW doc \in Document
    PROVE  /\ InOrder(visible_blocks(doc))
           /\ Covered(visible_blocks(doc)) = Spans(full_text(doc), FirstRead(doc), LastRead(doc))
<1>1. PICK text \in Seq(Paragraph) : text = full_text(doc)
  BY DocumentParts
<1>2. PICK s \in Seq(Block) : s = _split_paragraphs(text) /\ Len(s) = Len(text)
  BY ParagraphBlock
<1>3. PICK a \in Nat \ {0}, z \in Nat :
            a = FirstRead(doc) /\ z = LastRead(doc) /\ a <= z + 1 /\ z <= Len(s) /\ z <= Len(text)
  BY <1>1, <1>2, ReadRange
<1>4. visible_blocks(doc) = Run(s, a, z)
  BY <1>1, <1>2, <1>3, VisibleBlocks
<1>5. PICK L \in Nat : L = z - a + 1
  BY <1>3
<1>6. IsRun(Run(s, a, z), Block, s, a, z)
  BY <1>1, <1>2, <1>3, <1>4, VisibleRun
<1>7. PICK r : /\ r = Run(s, a, z) /\ r \in Seq(Block) /\ Len(r) = L
               /\ \A k \in 1 .. L : r[k] = s[a + k - 1]
  BY <1>5, <1>6 DEF IsRun
<1>8. ASSUME NEW k \in 1 .. L
      PROVE  a + k - 1 \in 1 .. Len(text)
  <2>1. PICK N \in Nat : N = Len(text) /\ z <= N
    BY <1>3
  <2>2. a + k - 1 \in 1 .. N
    BY <1>5, <2>1, PlaceInText
  <2> QED
    BY <2>1, <2>2
<1>9. ASSUME NEW k \in 1 .. L PROVE r[k].char_start < r[k].char_end
  BY <1>2, <1>7, <1>8, BlocksInOrder
<1>10. ASSUME NEW k \in 1 .. L, NEW l \in 1 .. L, k < l PROVE r[k].char_end <= r[l].char_start
  <2>1. PICK p \in 1 .. Len(text), q \in 1 .. Len(text) : p = a + k - 1 /\ q = a + l - 1 /\ p < q
    <3>1. a + k - 1 < a + l - 1
      BY <1>10
    <3>2. a + k - 1 \in 1 .. Len(text) /\ a + l - 1 \in 1 .. Len(text)
      BY <1>8
    <3> QED
      BY <3>1, <3>2
  <2>2. s[p].char_end + 2 <= s[q].char_start
    BY <1>2, <2>1, BlocksInOrder
  <2>3. s[p] \in Block /\ s[q] \in Block
    BY <1>2, <2>1
  <2>4. s[p].char_end \in Nat /\ s[q].char_start \in Nat
    BY <2>3 DEF Block
  <2>5. r[k] = s[p] /\ r[l] = s[q]
    BY <1>7, <2>1
  <2>6. PICK e \in Nat, f \in Nat : e = s[p].char_end /\ f = s[q].char_start /\ e + 2 <= f
    BY <2>2, <2>4
  <2>7. e <= f
    BY <2>6
  <2> QED
    BY <2>5, <2>6, <2>7
<1>11. InOrder(r)
  BY <1>7, <1>9, <1>10 DEF InOrder
<1>12. ToSet(r) = {s[m] : m \in a .. z}
  <2>1. a <= z + 1 /\ z <= Len(s) /\ s \in Seq(Block)
    BY <1>2, <1>3
  <2>2. ToSet(Run(s, a, z)) = {s[m] : m \in a .. z}
    BY <2>1, RunHolds
  <2> QED
    BY <1>7, <2>2
<1>13. Covered(r) = Spans(text, a, z)
  <2>1. Covered(r) = UNION {Span(b) : b \in ToSet(r)}
    BY CoveredIs
  <2> QED
    BY <1>2, <1>12, <2>1 DEF Spans
<1> QED
  BY <1>1, <1>2, <1>3, <1>4, <1>7, <1>11, <1>13

\* The author's own words, by the way the document was put together, are the words
\* of the visible blocks.
LEMMA OwnWordsAre ==
    ASSUME NEW doc \in Document
    PROVE  OwnWords(doc) = Covered(visible_blocks(doc)) \ Blanks(full_text(doc))
<1>1. PICK text \in Seq(Paragraph) : text = full_text(doc)
  BY DocumentParts
<1>2. PICK h \in Seq(Paragraph), o \in Seq(Paragraph), r \in Seq(Paragraph) :
            h = doc.header /\ o = doc.own /\ r = doc.rest
  BY DocumentParts
<1>3. text = (h \o o) \o r
  BY <1>1, <1>2 DEF full_text
<1>4. text = (<<>> \o h) \o (o \o r)
  <2>1. text = h \o (o \o r)
    BY <1>1, <1>2, DocumentParts
  <2>2. <<>> \o h = h
    OBVIOUS
  <2> QED
    BY <2>1, <2>2
<1>5. PICK m \in Nat, n \in Nat : m = Len(h) /\ n = Len(o)
  OBVIOUS
<1>6. OffsetsOf(o, h) = Spans(text, m + 1, m + n)
  <2>1. OffsetsOf(o, h) = Spans(text, Len(h) + 1, Len(h) + Len(o))
    BY <1>3, PartSpans
  <2> QED
    BY <1>5, <2>1
<1>7. OffsetsOf(h, <<>>) = Spans(text, 1, m)
  <2>1. <<>> \in Seq(Paragraph) /\ o \o r \in Seq(Paragraph) /\ Len(<<>>) = 0
    OBVIOUS
  <2>2. PICK none \in Seq(Paragraph), more \in Seq(Paragraph) :
              none = <<>> /\ Len(none) = 0 /\ more = o \o r /\ text = (none \o h) \o more
    BY <1>4, <2>1
  <2>3. OffsetsOf(h, none) = Spans(text, Len(none) + 1, Len(none) + Len(h))
    <3>1. none \in Seq(Paragraph) /\ more \in Seq(Paragraph) /\ text = (none \o h) \o more
      BY <2>2
    <3> QED
      BY <3>1, PartSpans
  <2>4. Len(none) + 1 = 1 /\ Len(none) + Len(h) = m
    BY <1>5, <2>2
  <2> QED
    BY <2>2, <2>3, <2>4
<1>8. Covered(visible_blocks(doc)) = Spans(text, FirstRead(doc), m + n)
  BY <1>1, <1>2, <1>5, VisibleSpans DEF LastRead
<1> DEFINE own == Spans(text, m + 1, m + n)
           before == Spans(text, 1, m)
<1>9. OwnWords(doc) = (own \cup IF doc.kind = "gmail" THEN before ELSE {}) \ Blanks(text)
  BY <1>1, <1>2, <1>6, <1>7 DEF OwnWords
<1>10. CASE doc.kind = "gmail"
  <2>1. 1 .. m + n = (1 .. m) \cup (m + 1 .. m + n)
    OBVIOUS
  <2>2. FirstRead(doc) = 1
    BY <1>10 DEF FirstRead
  <2>3. Covered(visible_blocks(doc)) = own \cup before
    BY <1>8, <2>1, <2>2, Zenon DEF Spans
  <2> HIDE DEF own, before
  <2> QED
    BY <1>1, <1>9, <1>10, <2>3
<1>11. CASE doc.kind # "gmail"
  <2>1. FirstRead(doc) = m + 1
    <3>1. CASE doc.kind = "manual"
      <4>1. h = <<>>
        BY <1>2, <3>1 DEF Document
      <4>2. m = 0
        BY <1>5, <4>1
      <4> QED
        BY <3>1, <4>2 DEF FirstRead
    <3>2. CASE doc.kind # "manual"
      BY <1>2, <1>5, <1>11, <3>2 DEF FirstRead
    <3> QED
      BY <3>1, <3>2
  <2>2. Covered(visible_blocks(doc)) = own
    BY <1>8, <2>1
  <2> HIDE DEF own, before
  <2> QED
    BY <1>1, <1>9, <1>11, <2>2
<1> QED
  BY <1>10, <1>11

-----------------------------------------------------------------------------
(* Extraction. *)

\* What there is of a document that is stored: its chunks.
PassagesInv ==
    /\ document \in Document
    /\ chunks # Nothing =>
          chunks = chunk_blocks(visible_blocks(document), document.target, document.overlap,
                                Blanks(full_text(document)))

\* The invariant holds at first and is kept by every step.
LEMMA PassagesKept == PassagesSpec => []PassagesInv
<1>1. PassagesInit => PassagesInv
  BY DEF PassagesInit, PassagesInv
<1>2. PassagesInv /\ [store_artifact]_passageVars => PassagesInv'
  BY DEF PassagesInv, store_artifact, passageVars
<1> QED
  BY <1>1, <1>2, PTL DEF PassagesSpec

\* The chunks stored are packed of pieces that have the author's own words.
LEMMA ChunksOf ==
    ASSUME PassagesInv, chunks # Nothing, visible_blocks(document) # <<>>
    PROVE  LET s == Normalized(visible_blocks(document), document.target, Blanks(full_text(document)))
           IN  /\ s \in Seq(Piece)
               /\ Chunked(chunks, s, document.target + document.overlap)
               /\ Covered(s) \ Blanks(full_text(document)) = OwnWords(document)
<1>1. PICK doc \in Document : doc = document
  BY DEF PassagesInv
<1>2. PICK target \in Nat \ {0}, overlap \in Nat : target = doc.target /\ overlap = doc.overlap
  BY DocumentParts
<1>3. PICK blanks \in SUBSET Nat : blanks = Blanks(full_text(doc))
  BY DocumentParts, BlanksAre
<1>4. PICK blocks : blocks = visible_blocks(doc) /\ InOrder(blocks) /\ blocks # <<>>
  BY <1>1, VisibleSpans
<1>5. chunks = chunk_blocks(blocks, target, overlap, blanks)
  BY <1>1, <1>2, <1>3, <1>4 DEF PassagesInv
<1>6. PICK s : s = Normalized(blocks, target, blanks)
  OBVIOUS
<1>7. s \in Seq(Piece) /\ Chunked(chunks, s, target + overlap)
  BY <1>4, <1>5, <1>6, ChunksAre
<1>8. Covered(s) \ blanks = Covered(blocks) \ blanks
  BY <1>4, <1>6, NormalizedIs
<1>9. OwnWords(doc) = Covered(blocks) \ blanks
  BY <1>3, <1>4, OwnWordsAre
<1> QED
  BY <1>1, <1>2, <1>3, <1>4, <1>6, <1>7, <1>8, <1>9

\* Where nothing is to be read, there is no chunk and no own word.
LEMMA NothingVisible ==
    ASSUME PassagesInv, chunks # Nothing, visible_blocks(document) = <<>>
    PROVE  chunks = <<>> /\ OwnWords(document) = {}
<1>1. chunks = <<>>
  BY DEF PassagesInv, chunk_blocks
<1>2. Covered(<<>>) = {}
  BY DEF Covered
<1>3. document \in Document
  BY DEF PassagesInv
<1>4. OwnWords(document) = Covered(visible_blocks(document)) \ Blanks(full_text(document))
  BY <1>3, OwnWordsAre
<1> QED
  BY <1>1, <1>2, <1>4

\* The chunks of a document say what the author wrote in it.
LEMMA OwnWordsRead == PassagesInv => ExtractionReadsOwnWords
<1> SUFFICES ASSUME PassagesInv, chunks # Nothing
             PROVE  /\ Read \ Blanks(full_text(document)) = OwnWords(document)
                    /\ \A k \in DOMAIN chunks :
                          /\ TextSize(chunks[k]) <= document.target + document.overlap
                          /\ k > 1 => ~ ToSet(chunks[k]) \subseteq ToSet(chunks[k - 1])
  BY DEF ExtractionReadsOwnWords
<1>1. CASE visible_blocks(document) = <<>>
  <2>1. chunks = <<>> /\ OwnWords(document) = {}
    BY <1>1, NothingVisible
  <2>2. DOMAIN chunks = {}
    BY <2>1
  <2>3. Read = {}
    BY <2>2 DEF Read
  <2> QED
    BY <2>1, <2>2, <2>3
<1>2. CASE visible_blocks(document) # <<>>
  <2>1. PICK s \in Seq(Piece) :
              /\ Chunked(chunks, s, document.target + document.overlap)
              /\ Covered(s) \ Blanks(full_text(document)) = OwnWords(document)
    BY <1>2, ChunksOf
  <2>2. Read = Covered(s)
    BY <2>1, ChunksHold DEF Read
  <2>3. ASSUME NEW k \in DOMAIN chunks
        PROVE  /\ TextSize(chunks[k]) <= document.target + document.overlap
               /\ k > 1 => ~ ToSet(chunks[k]) \subseteq ToSet(chunks[k - 1])
    <3>1. CASE s = <<>>
      <4>1. chunks = <<<<>>>>
        BY <2>1, <3>1 DEF Chunked
      <4>2. k = 1 /\ chunks[k] = <<>>
        BY <2>3, <4>1
      <4>3. document.target \in Nat /\ document.overlap \in Nat
        BY DocumentParts DEF PassagesInv
      <4> QED
        BY <4>2, <4>3, TextSizeOfNone
    <3>2. CASE s # <<>>
      <4>1. Packing(chunks, s, Len(s), document.target + document.overlap)
        BY <2>1, <3>2 DEF Chunked
      <4>2. PICK M \in Nat \ {0} : M = Len(chunks) /\ DOMAIN chunks = 1 .. M
        BY <4>1, PackIs DEF Packing, Packs
      <4>3. k \in 1 .. M
        BY <2>3, <4>2
      <4>4. TextSize(chunks[k]) <= document.target + document.overlap
        BY <4>1, <4>2, <4>3 DEF Packing
      <4>5. ASSUME k > 1 PROVE ~ ToSet(chunks[k]) \subseteq ToSet(chunks[k - 1])
        <5>1. k \in 2 .. M
          BY <4>3, <4>5
        <5>2. Fresh(chunks[k], chunks[k - 1])
          BY <4>1, <4>2, <5>1 DEF Packing
        <5> QED
          BY <5>2 DEF Fresh
      <4> QED
        BY <4>4, <4>5
    <3> QED
      BY <3>1, <3>2
  <2> QED
    BY <2>1, <2>2, <2>3
<1> QED
  BY <1>1, <1>2

\* Extraction reads every word of the part of a document it is to read and no
\* other, in chunks that hold no more than the target beside what they repeat, each
\* with something that was not in the one before: whatever the paragraphs, their
\* number and their words are, for every target and every overlap.
THEOREM OwnWordsAlwaysRead == PassagesSpec => []ExtractionReadsOwnWords
BY PassagesKept, OwnWordsRead, PTL

=============================================================================
