------------------------------ MODULE Passages ------------------------------
(***************************************************************************)
(* The text of evidence: how connectors put it together, what of it is cut *)
(* into the chunks extraction reads (chunking.py, services/*_ingestion.py),*)
(* and where a citation of a chunk is shown (ui/pages/evidence.py).        *)
(*                                                                         *)
(* A character is its offset in the text.  A paragraph is the lengths of   *)
(* its words, which single blanks separate, and the gap (a blank line or   *)
(* more) after it.  A document has up to three parts: header lines, its    *)
(* own words, and what follows them: quoted mail, or the summary a         *)
(* provider made of a recording.                                           *)
(*                                                                         *)
(*   document   what is to be stored                                       *)
(*   chunks     source_chunks: the blocks each is made of                  *)
(***************************************************************************)
EXTENDS Matching, Integers, SequencesExt

ASSUME PassagesAssumption == Nothing \notin Nat

VARIABLES document, chunks

passageVars == <<document, chunks>>

DocumentKinds == {"manual", "gmail", "calendar", "fathom"}

Total(lengths) ==
    LET sum[n \in 0 .. Len(lengths)] == IF n = 0 THEN 0 ELSE sum[n - 1] + lengths[n]
    IN  sum[Len(lengths)]

BLANK_LINE == 2

-----------------------------------------------------------------------------
(* Paragraphs. *)

Size(block) == block.char_end - block.char_start

Widths(words) == Total(words) + Len(words) - 1

\* Paragraphs with the gaps between them.
Extent(text) ==
    Total([i \in DOMAIN text |->
             Widths(text[i].words) + IF i = Len(text) THEN 0 ELSE text[i].gap])

full_text(doc) == doc.header \o doc.own \o doc.rest

OffsetOf(text, i) ==
    Total([j \in 1 .. i - 1 |-> Widths(text[j].words) + text[j].gap])

_split_paragraphs(text) ==
    [i \in DOMAIN text |->
       [char_start |-> OffsetOf(text, i), char_end |-> OffsetOf(text, i) + Widths(text[i].words)]]

\* The single blanks between words.
Blanks(text) ==
    UNION {{OffsetOf(text, i) + Total(SubSeq(text[i].words, 1, n)) + n - 1 :
               n \in 1 .. Len(text[i].words) - 1} : i \in DOMAIN text}

-----------------------------------------------------------------------------
(* The part of a document that extraction is to read. *)

\* Faulty: the blank line before the transcript is not counted.
RangeFromHeader(doc) ==
    <<Extent(doc.header), Extent(doc.header) + Extent(doc.own)>>

build_normalized_meeting_text(doc) ==
    LET start == Extent(doc.header) + IF doc.own = <<>> THEN 0 ELSE BLANK_LINE
    IN  <<start, start + IF doc.own = <<>> THEN 0 ELSE Extent(doc.own)>>

\* Where the first marker of quoted mail or of a signature is: at the beginning
\* of the rest, or below a few lines that it follows without a blank line.
find_quote_boundary(doc) ==
    OffsetOf(full_text(doc), Len(doc.header \o doc.own) + 1) + doc.unmarked

\* Below the first blank line of the text.
header_end(doc) == Widths(full_text(doc)[1].words) + BLANK_LINE

gmail_visible(doc, block) == doc.rest = <<>> \/ block.char_end <= find_quote_boundary(doc)

calendar_visible(doc, block) == block.char_start >= header_end(doc)

fathom_visible(doc, block) ==
    LET range == build_normalized_meeting_text(doc)
    IN  /\ range[2] > range[1]
        /\ block.char_start >= range[1]
        /\ block.char_end <= range[2]

Visible(doc, block) ==
    CASE doc.kind = "gmail" -> gmail_visible(doc, block)
      [] doc.kind = "calendar" -> calendar_visible(doc, block)
      [] doc.kind = "fathom" -> fathom_visible(doc, block)
      [] doc.kind = "manual" -> TRUE

visible_blocks(doc) ==
    LET blocks == _split_paragraphs(full_text(doc))
    IN  FlattenSeq([i \in DOMAIN blocks |->
                      IF Visible(doc, blocks[i]) THEN <<blocks[i]>> ELSE <<>>])

-----------------------------------------------------------------------------
(* Chunks. *)

\* Before the last blank that leaves no more than `target` characters, or within
\* a word that is longer.
CutAfter(pos, block, target, blanks) ==
    LET limit == Min({pos + target, block.char_end})
        cuts == {b \in blanks : pos < b /\ b < limit}
    IN  IF limit < block.char_end /\ cuts # {} THEN Max(cuts) ELSE limit

_split_oversized_block(block, target, blanks) ==
    LET parts[pos \in Nat] ==
            IF pos >= block.char_end THEN <<>>
            ELSE LET end == CutAfter(pos, block, target, blanks)
                 IN  <<[char_start |-> pos, char_end |-> end]>>
                         \o parts[IF end \in blanks THEN end + 1 ELSE end]
    IN  parts[block.char_start]

Normalized(blocks, target, blanks) ==
    FlattenSeq([i \in DOMAIN blocks |->
                  IF Size(blocks[i]) <= target THEN <<blocks[i]>>
                  ELSE _split_oversized_block(blocks[i], target, blanks)])

TextSize(blocks) == Total([i \in DOMAIN blocks |-> Size(blocks[i])])

\* The blocks at the end of a chunk that the next one repeats.
Carry(blocks, overlap) ==
    LET sizes == {n \in 0 .. Len(blocks) :
                    TextSize(SubSeq(blocks, Len(blocks) - n + 1, Len(blocks))) <= overlap}
    IN  SubSeq(blocks, Len(blocks) - Max(sizes) + 1, Len(blocks))

\* A block that does not fit opens a chunk, and goes into it even if it does not
\* fit beside the blocks carried over.
Packed(acc, block, target, overlap) ==
    LET current == acc[Len(acc)]
    IN  IF current = <<>> \/ TextSize(current) + Size(block) <= target
        THEN [acc EXCEPT ![Len(acc)] = Append(@, block)]
        ELSE Append(acc, Append(Carry(current, overlap), block))

chunk_blocks(blocks, target, overlap, blanks) ==
    LET pieces == Normalized(blocks, target, blanks)
        packed[n \in 0 .. Len(pieces)] ==
            IF n = 0 THEN <<<<>>>> ELSE Packed(packed[n - 1], pieces[n], target, overlap)
    IN  IF blocks = <<>> THEN <<>> ELSE packed[Len(pieces)]

Characters(block) == [n \in 1 .. Size(block) |-> block.char_start + n - 1]

\* The offset of each of a chunk's characters; its blocks are joined by blank lines.
_build_chunk_spec(blocks) ==
    FlattenSeq([i \in DOMAIN blocks |->
                  IF i = 1 THEN Characters(blocks[i])
                  ELSE <<Nothing, Nothing>> \o Characters(blocks[i])])

-----------------------------------------------------------------------------
(* Storing a document, and the citations of its chunks. *)

Paragraph == [words : Seq(Nat \ {0}) \ {<<>>}, gap : {g \in Nat : g >= BLANK_LINE}]

\* Between the parts of a document there is one blank line.
PartEnds(part) == part # <<>> => part[Len(part)].gap = BLANK_LINE

\* A connector writes a header, that of an event line by line, and the turns of a
\* transcript with blank lines between them; the rest begins with the paragraph
\* that has the marker.
Document ==
    {doc \in [kind : DocumentKinds, header : Seq(Paragraph), own : Seq(Paragraph),
              rest : Seq(Paragraph), unmarked : Nat, target : Nat \ {0}, overlap : Nat] :
        /\ doc.overlap < doc.target
        /\ doc.header = <<>> <=> doc.kind = "manual"
        /\ doc.kind = "calendar" => Len(doc.header) = 1
        /\ PartEnds(doc.header) /\ PartEnds(doc.own)
        /\ doc.rest # <<>> => doc.kind \in {"gmail", "fathom"}
        /\ doc.unmarked # 0 => doc.kind = "gmail" /\ doc.rest # <<>>
        /\ doc.rest # <<>> => doc.unmarked < Widths(doc.rest[1].words)
        /\ doc.kind = "fathom" => \A i \in DOMAIN doc.own : doc.own[i].gap = BLANK_LINE}

PassagesInit ==
    /\ document \in Document
    /\ chunks = Nothing

store_artifact ==
    /\ chunks = Nothing
    /\ chunks' = chunk_blocks(visible_blocks(document), document.target, document.overlap,
                              Blanks(full_text(document)))
    /\ UNCHANGED document

PassagesSpec == PassagesInit /\ [][store_artifact]_passageVars

\* What the Activity page highlights for offset n of a chunk's text.
_render_citation(chunk, n) == _build_chunk_spec(chunk)[n + 1]

\* A brief's link carries the offset it has in the chunk.
citation_markdown(chunk, n) == n

\* The evidence viewer takes a link's offset for one of the whole text.
_deep_link_span(offset) == Min({offset, Extent(full_text(document))})

-----------------------------------------------------------------------------
(* Properties. *)

OffsetsOf(part, before) ==
    LET blocks == _split_paragraphs(before \o part)
    IN  UNION {blocks[i].char_start .. blocks[i].char_end - 1 :
                  i \in Len(before) + 1 .. Len(before \o part)}

\* What is the author's own, by the way the document was put together.
OwnWords(doc) ==
    (OffsetsOf(doc.own, doc.header) \cup
        IF doc.kind = "gmail" THEN OffsetsOf(doc.header, <<>>) ELSE {})
    \ Blanks(full_text(doc))

Read == (UNION {ToSet(_build_chunk_spec(chunks[k])) : k \in DOMAIN chunks}) \ {Nothing}

\* Extraction reads every word of the part it is to read and no other (no
\* metadata of an event, no quoted mail, no summary a provider made), in chunks
\* that hold no more than the target beside what they repeat, each with
\* something that was not in the one before.
ExtractionReadsOwnWords ==
    chunks # Nothing =>
        /\ Read \ Blanks(full_text(document)) = OwnWords(document)
        /\ \A k \in DOMAIN chunks :
              /\ TextSize(chunks[k]) <= document.target + document.overlap
              /\ k > 1 => ~ ToSet(chunks[k]) \subseteq ToSet(chunks[k - 1])

\* "Every factual citation opens the evidence viewer at its exact span"
\* (services/brief_shared.py:163).  The code does not keep this: a link carries the
\* offsets in the chunk, and the viewer takes them for offsets in the text.
CitationsOpenExactly ==
    chunks # Nothing =>
        \A k \in DOMAIN chunks :
            \A n \in 0 .. Len(_build_chunk_spec(chunks[k])) - 1 :
                _render_citation(chunks[k], n)
                    \in {Nothing, _deep_link_span(citation_markdown(chunks[k], n))}
=============================================================================
