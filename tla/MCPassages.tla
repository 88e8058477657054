----------------------------- MODULE MCPassages -----------------------------
(* Small documents and boundaries for modules Passages and Matching. *)
EXTENDS Passages, TLC

Paragraphs == {[words |-> w, gap |-> g] : w \in {<<3>>, <<1, 2>>, <<2, 1, 6>>}, g \in {2, 3}}

Headers == {<<>>, <<[words |-> <<2>>, gap |-> 2]>>}

Parts == UNION {[1 .. n -> Paragraphs] : n \in 0 .. 3}

Rests == {<<>>, <<[words |-> <<4>>, gap |-> 2]>>}

Documents ==
    {doc \in [kind : DocumentKinds, header : Headers, own : Parts, rest : Rests,
              unmarked : {0, 2}, target : {4, 7}, overlap : {0, 3}] : doc \in Document}

NoDocument == document = Nothing /\ chunks = Nothing

NoItem == item = Nothing /\ boundary = {} /\ assignment = Nothing /\ first_hits = {}

TextInit ==
    \/ document \in Documents /\ PassagesInit /\ NoItem
    \/ MatchInit /\ NoDocument

TextNext ==
    \/ document # Nothing /\ store_artifact /\ UNCHANGED matchVars
    \/ item # Nothing /\ MatchNext /\ UNCHANGED passageVars

\* A document alone.
DocumentSpec ==
    /\ document \in Documents /\ PassagesInit /\ NoItem
    /\ [][store_artifact /\ UNCHANGED matchVars]_<<passageVars, matchVars>>
=============================================================================
