---------------------------- MODULE BriefsProofs ----------------------------
(***************************************************************************)
(* Proofs about briefs, for any projects, sessions, ledgers and answers of *)
(* a model.  That the state a brief shows is no older than the changes it  *)
(* lists rests on the ledger's chains (LedgerProofs): the current version  *)
(* of an item is the last one, also when the ledger advances while the     *)
(* facts are read.                                                         *)
(***************************************************************************)
EXTENDS Briefs, LedgerProofs, FiniteSetTheorems

-----------------------------------------------------------------------------
(* The plan of a brief. *)

Sections(type) == _MODEL_ELIGIBLE_SECTIONS[type] \ {_SUGGESTION_ONLY_SECTION}

InSections(type, facts) == \A f \in facts : f.section \in Sections(type)

RestsOn(facts, c) ==
    c.claim_type = "fact" =>
        /\ \A id \in c.cited : \E f \in facts : fact_id(f) = id /\ f.section = c.section
        /\ c.cited = {} => FactsOf(facts, c.section) = {}

Shown(f, claims) ==
    \E c \in _render_markdown(claims) :
        /\ c.section = f.section
        /\ c.cited # {} \/ c.claim_type = "suggestion"

LEMMA ClaimIs ==
    ASSUME NEW section, NEW type, NEW cited, NEW status
    PROVE  LET c == Claim(section, type, cited, status)
           IN  c.section = section /\ c.claim_type = type /\ c.cited = cited /\ c.status = status
BY DEF Claim

\* A model's claim that is kept cites facts of its section, or suggests.
LEMMA ModelClaim ==
    ASSUME NEW facts, NEW out, plan_model_claim(out, facts).status = "valid"
    PROVE  LET c == plan_model_claim(out, facts)
           IN  /\ c.section = out.section
               /\ c.cited # {} \/ c.claim_type = "suggestion"
               /\ \A id \in c.cited : \E f \in facts : fact_id(f) = id /\ f.section = c.section
<1> DEFINE status == classify_claim(out.section, out.claim_type, out.cited, facts)
           cites == resolved(out.section, out.cited, facts)
           c == plan_model_claim(out, facts)
<1>1. c = Claim(out.section, out.claim_type, IF status = "valid" THEN cites ELSE out.cited,
                status)
  BY DEF plan_model_claim
<1>2. status = "valid"
  BY <1>1, ClaimIs
<1>3. c.section = out.section /\ c.claim_type = out.claim_type /\ c.cited = cites
  BY <1>1, <1>2, ClaimIs
<1>4. out.claim_type = "suggestion" \/ cites # {}
  BY <1>2 DEF classify_claim
<1>5. \A id \in cites : \E f \in facts : fact_id(f) = id /\ f.section = out.section
  BY DEF resolved, FactsOf
<1> HIDE DEF c, cites
<1>6. /\ c.section = out.section
      /\ c.cited # {} \/ c.claim_type = "suggestion"
      /\ \A id \in c.cited : \E f \in facts : fact_id(f) = id /\ f.section = c.section
  BY <1>3, <1>4, <1>5
<1> QED
  BY <1>6 DEF c

LEMMA PlannedSection ==
    ASSUME NEW section, NEW facts, NEW composition,
           section = _SUGGESTION_ONLY_SECTION => FactsOf(facts, section) = {},
           NEW c \in PlanSection(section, facts, composition), c.status = "valid"
    PROVE  c.section = section /\ RestsOn(facts, c)
<1> DEFINE claims == {plan_model_claim(out, facts) :
                         out \in {x \in composition : x.section = section}}
<1>1. \/ c \in claims
      \/ c = EmptySection(section) /\ FactsOf(facts, section) = {}
      \/ \E f \in FactsOf(facts, section) : c = Claim(section, "fact", {fact_id(f)}, "valid")
  BY DEF PlanSection, fallback
<1>2. CASE c \in claims
  BY <1>2, ModelClaim DEF RestsOn
<1>3. CASE c = EmptySection(section) /\ FactsOf(facts, section) = {}
  BY <1>3, ClaimIs DEF EmptySection, RestsOn
<1>4. ASSUME NEW f \in FactsOf(facts, section),
             c = Claim(section, "fact", {fact_id(f)}, "valid")
      PROVE  c.section = section /\ RestsOn(facts, c)
  BY <1>4, ClaimIs DEF RestsOn, FactsOf
<1> QED
  BY <1>1, <1>2, <1>3, <1>4

\* Every claim shown rests on facts of its section.
LEMMA PlanRests ==
    ASSUME NEW type \in BriefTypes, NEW facts, InSections(type, facts), NEW composition
    PROVE  \A c \in _render_markdown(_plan_model_eligible_sections(type, facts, composition)) :
              RestsOn(facts, c)
<1>1. FactsOf(facts, _SUGGESTION_ONLY_SECTION) = {}
  BY DEF FactsOf, InSections, Sections
<1> SUFFICES ASSUME NEW section \in _MODEL_ELIGIBLE_SECTIONS[type],
                    NEW c \in PlanSection(section, facts, composition), c.status = "valid"
             PROVE  RestsOn(facts, c)
  BY DEF _render_markdown, _plan_model_eligible_sections
<1> QED
  BY <1>1, PlannedSection

\* Every fact's section is shown with some fact, or a suggestion.
LEMMA PlanShows ==
    ASSUME NEW type \in BriefTypes, NEW facts, InSections(type, facts), NEW composition,
           NEW f \in facts
    PROVE  Shown(f, _plan_model_eligible_sections(type, facts, composition))
<1> DEFINE section == f.section
           claims == {plan_model_claim(out, facts) :
                         out \in {x \in composition : x.section = section}}
           plan == PlanSection(section, facts, composition)
           back == Claim(section, "fact", {fact_id(f)}, "valid")
<1>1. section \in _MODEL_ELIGIBLE_SECTIONS[type] /\ section # _SUGGESTION_ONLY_SECTION
  BY DEF InSections, Sections
<1>2. f \in FactsOf(facts, section)
  BY DEF FactsOf
<1>3. plan = claims \cup fallback(section, claims, facts)
  BY <1>1, <1>2 DEF PlanSection
<1>4. plan \subseteq _plan_model_eligible_sections(type, facts, composition)
  BY <1>1 DEF _plan_model_eligible_sections
<1> HIDE DEF plan
<1> SUFFICES \E c \in plan : /\ c.status = "valid" /\ c.section = section
                             /\ c.cited # {} \/ c.claim_type = "suggestion"
  BY <1>4 DEF Shown, _render_markdown
<1>5. CASE \E c \in claims : c.status = "valid"
  <2>1. PICK out \in composition :
           /\ out.section = section
           /\ plan_model_claim(out, facts) \in claims
           /\ plan_model_claim(out, facts).status = "valid"
    BY <1>5
  <2> QED
    BY <1>3, <2>1, ModelClaim
<1>6. CASE ~ \E c \in claims : c.status = "valid"
  <2>1. back \in fallback(section, claims, facts)
    BY <1>2, <1>6 DEF fallback
  <2>2. back.section = section /\ back.cited = {fact_id(f)} /\ back.status = "valid"
    BY ClaimIs
  <2> HIDE DEF back
  <2> QED
    BY <1>3, <2>1, <2>2
<1> QED
  BY <1>5, <1>6

-----------------------------------------------------------------------------
(* The invariant. *)

GenFields == {"pc", "project", "type", "query", "facts", "brief"}

BriefFields == {"project", "type", "status", "facts", "claims"}

\* The state shown of an item is not older than its changes.
NotOlder(type, facts) ==
    \A change, state \in facts :
        /\ change.section = ChangesSection[type]
        /\ state.section # ChangesSection[type]
        /\ change.version[1] = state.version[1]
        => change.version[2] <= state.version[2]

\* The changes are versions the ledger holds.
Recorded(type, facts, vs) ==
    \A f \in facts : f.section = ChangesSection[type] => f.version \in DOMAIN vs

Gathered(g) == g.type \in BriefTypes /\ InSections(g.type, g.facts) /\ NotOlder(g.type, g.facts)

Gen(g) ==
    /\ DOMAIN g = GenFields
    /\ g.project \in AnyProject
    /\ Gathered(g)
    /\ g.pc = "facts" => /\ g.query \in 1..Len(Queries[g.type])
                         /\ g.query = 1 => g.facts = {}

Reading(g, vs) == g.pc = "facts" => Recorded(g.type, g.facts, vs)

Brief(b) ==
    /\ DOMAIN b = BriefFields
    /\ b.project \in AnyProject
    /\ Gathered(b)
    /\ b.status \in {"generating", "failed"} => b.claims = {}
    /\ b.status \in {"generating", "failed", "valid", "superseded"}
    /\ \A c \in _render_markdown(b.claims) : RestsOn(b.facts, c)
    /\ b.status \in {"valid", "superseded"} => \A f \in b.facts : Shown(f, b.claims)

\* A session that is composing holds the facts of the brief it inserted.
Composing(g, bs) ==
    g.pc = "compose" =>
        /\ g.brief \in DOMAIN bs
        /\ bs[g.brief].status = "generating"
        /\ bs[g.brief].type = g.type
        /\ bs[g.brief].facts = g.facts

Apart(gs) ==
    \A s, t \in Reader :
        gs[s].pc = "compose" /\ gs[t].pc = "compose" /\ s # t => gs[s].brief # gs[t].brief

Numbered(bs) == \E n \in Nat : DOMAIN bs = 1..n

Alike(b, c) == b.project = c.project /\ b.type = c.type

Current(bs) ==
    /\ \A b \in DOMAIN bs : bs[b].status \in {"valid", "superseded"} =>
          \E c \in DOMAIN bs : bs[c].status = "valid" /\ Alike(bs[b], bs[c])
    /\ \A b, c \in DOMAIN bs :
          bs[b].status = "valid" /\ bs[c].status = "valid" /\ Alike(bs[b], bs[c]) => b = c

Generations ==
    /\ DOMAIN gen = Reader
    /\ \A s \in Reader : Gen(gen[s])
    /\ \A s \in Reader : Reading(gen[s], versions)
    /\ \A s \in Reader : Composing(gen[s], briefs)
    /\ Apart(gen)

\* A preview is kept as it was gathered.
Held(facts) ==
    facts # NULL =>
        InSections("meeting_preparation", facts) /\ NotOlder("meeting_preparation", facts)

Previews == DOMAIN preview = Reader /\ \A s \in Reader : Held(preview[s])

Stored ==
    /\ Numbered(briefs)
    /\ \A b \in DOMAIN briefs : Brief(briefs[b])
    /\ Current(briefs)

IInv == LedgerInv /\ Generations /\ Previews /\ Stored

-----------------------------------------------------------------------------
(* What a query adds. *)

LEMMA IdleIs ==
    ASSUME NEW p \in AnyProject
    PROVE  /\ DOMAIN Idling(p) = GenFields
           /\ Idling(p).pc = "idle" /\ Idling(p).project = p
           /\ Idling(p).type = "current_project" /\ Idling(p).facts = {}
BY DEF Idling, GenFields

LEMMA IdleGen ==
    ASSUME NEW p \in AnyProject
    PROVE  Gen(Idling(p)) /\ Reading(Idling(p), versions) /\ Composing(Idling(p), briefs)
<1> DEFINE g == Idling(p)
<1>1. /\ DOMAIN g = GenFields /\ g.pc = "idle" /\ g.project = p
      /\ g.type = "current_project" /\ g.facts = {}
  BY IdleIs
<1> HIDE DEF g
<1>2. Gen(g) /\ Reading(g, versions) /\ Composing(g, briefs)
  BY <1>1 DEF Gen, Gathered, InSections, NotOlder, BriefTypes, Reading, Composing
<1> QED
  BY <1>2 DEF g

\* The first query is for the changes, and only the first.
LEMMA QueryIs ==
    ASSUME NEW type \in BriefTypes, NEW q \in 1..Len(Queries[type])
    PROVE  /\ q = 1 <=> Queries[type][q] = "changes"
           /\ q # 1 => Queries[type][q] \in
                 {"milestone", "commitment", "decision", "risk", "blocker", "open_question"}
           /\ type = "meeting_preparation" =>
                 Queries[type][q] \notin {"milestone", "decision"}
<1>1. CASE type = "current_project"
  BY <1>1 DEF Queries
<1>2. CASE type = "meeting_preparation"
  BY <1>2 DEF Queries
<1> QED
  BY <1>1, <1>2 DEF BriefTypes

LEMMA ChangesIs ==
    ASSUME NEW type \in BriefTypes
    PROVE  ChangesSection[type] \in Sections(type)
BY DEF BriefTypes, ChangesSection, Sections, _MODEL_ELIGIBLE_SECTIONS, _SUGGESTION_ONLY_SECTION

LEMMA StateSection ==
    ASSUME NEW type \in BriefTypes, NEW row,
           row.kind \in
              {"milestone", "commitment", "decision", "risk", "blocker", "open_question"},
           type = "meeting_preparation" => row.kind \notin {"milestone", "decision"}
    PROVE  SectionOf(type, row) \in Sections(type) \ {ChangesSection[type]}
<1>1. CASE type = "current_project"
  BY <1>1 DEF SectionOf, ChangesSection, Sections, _MODEL_ELIGIBLE_SECTIONS,
              _SUGGESTION_ONLY_SECTION
<1>2. CASE type = "meeting_preparation"
  BY <1>2 DEF SectionOf, ChangesSection, Sections, _MODEL_ELIGIBLE_SECTIONS,
              _SUGGESTION_ONLY_SECTION
<1> QED
  BY <1>1, <1>2 DEF BriefTypes

LEMMA ChangeIs ==
    ASSUME NEW section, NEW v
    PROVE  LET f == transition_fact(section, v) IN f.section = section /\ f.version = v
BY DEF transition_fact

LEMMA StateIs ==
    ASSUME NEW type, NEW i
    PROVE  LET f == current_state_fact(type, i)
           IN  f.section = SectionOf(type, items[i]) /\ f.version = items[i].current_version_id
BY DEF current_state_fact

\* What a query adds: changes that are recorded, or the current state of items.
LEMMA AnswerIs ==
    ASSUME NEW s \in Reader, Gen(gen[s]), gen[s].pc = "facts", NEW answer \in Answers(s)
    PROVE  LET g == gen[s]
               changes == ChangesSection[g.type]
           IN  \/ /\ g.query = 1
                  /\ \A f \in answer : f.section = changes /\ f.version \in DOMAIN versions
               \/ /\ g.query # 1
                  /\ \A f \in answer : \E i \in DOMAIN items :
                        /\ f.section \in Sections(g.type) \ {changes}
                        /\ f.version = items[i].current_version_id
<1> DEFINE g == gen[s]
           type == g.type
           query == Queries[type][g.query]
           changes == ChangesSection[type]
           found == {current_state_fact(type, i) : i \in OpenItems(query)}
           States(a) == \A f \in a : \E i \in DOMAIN items :
                           /\ f.section \in Sections(type) \ {changes}
                           /\ f.version = items[i].current_version_id
           Changes(a) == \A f \in a : f.section = changes /\ f.version \in DOMAIN versions
<1>1. type \in BriefTypes /\ g.query \in 1..Len(Queries[type])
  BY DEF Gen, Gathered
<1>2. /\ g.query = 1 <=> query = "changes"
      /\ g.query # 1 => query \in
            {"milestone", "commitment", "decision", "risk", "blocker", "open_question"}
      /\ type = "meeting_preparation" => query \notin {"milestone", "decision"}
  BY <1>1, QueryIs
<1>3. \/ answer = {}
      \/ /\ query = "changes"
         /\ \E cutoff \in compute_cutoff(type) :
               answer = {transition_fact(changes, v) :
                            v \in {w \in DOMAIN versions : w[2] > cutoff[w[1]]}}
      \/ query # "changes" /\ \E f \in found : answer = {f}
      \/ query # "changes" /\ answer = found
  BY Zenon DEF Answers
<1> HIDE DEF query
<1>4. ASSUME query # "changes" PROVE States(found)
  <2> SUFFICES ASSUME NEW i \in OpenItems(query)
               PROVE  LET f == current_state_fact(type, i) IN
                      /\ i \in DOMAIN items
                      /\ f.section \in Sections(type) \ {changes}
                      /\ f.version = items[i].current_version_id
    BY Zenon
  <2>1. i \in DOMAIN items /\ items[i].kind = query
    BY DEF OpenItems
  <2>2. SectionOf(type, items[i]) \in Sections(type) \ {changes}
    BY <1>1, <1>2, <1>4, <2>1, StateSection
  <2> QED
    BY <2>1, <2>2, StateIs
<1>5. CASE answer = {}
  BY <1>5
<1>6. ASSUME query = "changes", NEW cutoff \in compute_cutoff(type),
             answer = {transition_fact(changes, v) :
                          v \in {w \in DOMAIN versions : w[2] > cutoff[w[1]]}}
      PROVE  g.query = 1 /\ Changes(answer)
  <2>1. \A v \in DOMAIN versions : LET f == transition_fact(changes, v)
                                   IN  f.section = changes /\ f.version = v
    BY ChangeIs
  <2> QED
    BY <1>2, <1>6, <2>1
<1>7. ASSUME query # "changes", NEW f \in found, answer = {f}
      PROVE  g.query # 1 /\ States(answer)
  BY <1>2, <1>4, <1>7
<1>8. CASE query # "changes" /\ answer = found
  BY <1>2, <1>4, <1>8
<1> QED
  BY <1>3, <1>5, <1>6, <1>7, <1>8

\* Adding an answer keeps what was gathered in order.
LEMMA AnswerFits ==
    ASSUME LedgerInv, NEW s \in Reader, Gen(gen[s]), gen[s].pc = "facts",
           Reading(gen[s], versions), NEW answer \in Answers(s)
    PROVE  LET g == gen[s]
               facts == g.facts \cup answer
           IN  InSections(g.type, facts) /\ NotOlder(g.type, facts)
                  /\ Recorded(g.type, facts, versions)
<1> DEFINE g == gen[s]
           type == g.type
           changes == ChangesSection[type]
           facts == g.facts \cup answer
<1>1. /\ type \in BriefTypes
      /\ \A f \in g.facts : f.section \in Sections(type)
      /\ NotOlder(type, g.facts)
      /\ Recorded(type, g.facts, versions)
      /\ g.query = 1 => g.facts = {}
  BY DEF Gen, Gathered, InSections, Reading
<1>2. changes \in Sections(type)
  BY <1>1, ChangesIs
<1>3. \/ /\ g.query = 1
         /\ \A f \in answer : f.section = changes /\ f.version \in DOMAIN versions
      \/ /\ g.query # 1
         /\ \A f \in answer : \E i \in DOMAIN items :
               /\ f.section \in Sections(type) \ {changes}
               /\ f.version = items[i].current_version_id
  BY AnswerIs
<1> HIDE DEF g
<1>4. CASE /\ g.query = 1
           /\ \A f \in answer : f.section = changes /\ f.version \in DOMAIN versions
  <2>1. facts = answer
    BY <1>1, <1>4
  <2> QED
    BY <1>2, <1>4, <2>1 DEF InSections, NotOlder, Recorded, g
<1>5. CASE \A f \in answer : \E i \in DOMAIN items :
              /\ f.section \in Sections(type) \ {changes}
              /\ f.version = items[i].current_version_id
  <2>1. InSections(type, facts) /\ Recorded(type, facts, versions)
    BY <1>1, <1>5 DEF InSections, Recorded
  <2>2. NotOlder(type, facts)
    <3> SUFFICES ASSUME NEW change \in facts, NEW state \in facts,
                        change.section = changes, state.section # changes,
                        change.version[1] = state.version[1]
                 PROVE  change.version[2] <= state.version[2]
      BY DEF NotOlder
    <3>1. change \in g.facts /\ change.version \in DOMAIN versions
      BY <1>1, <1>5 DEF Recorded
    <3>2. CASE state \in g.facts
      BY <1>1, <3>1, <3>2 DEF NotOlder
    <3>3. CASE state \in answer
      <4>1. PICK i \in DOMAIN items : state.version = items[i].current_version_id
        BY <1>5, <3>3
      <4>2. state.version[1] = i
        BY <4>1 DEF LedgerInv, ChainOK, Chained, VersionsOf
      <4>3. change.version \in VersionsOf(versions, i)
        BY <3>1, <4>2 DEF VersionsOf
      <4> QED
        BY <4>1, <4>3 DEF LedgerInv, ChainOK, Chained
    <3> QED
      BY <3>2, <3>3
  <2> QED
    BY <2>1, <2>2 DEF g
<1> QED
  BY <1>3, <1>4, <1>5 DEF g

-----------------------------------------------------------------------------
(* Steps of one session. *)

\* A session's step that leaves the briefs, and is not composing after it.
LEMMA SessionStep ==
    ASSUME IInv, NEW s \in Reader, NEW g, gen' = [gen EXCEPT ![s] = g],
           Gen(g), Reading(g, versions), g.pc # "compose", UNCHANGED <<briefs, ledgerVars>>,
           Previews'
    PROVE  IInv'
<1>1. DOMAIN gen' = Reader /\ gen'[s] = g /\ \A t \in Reader \ {s} : gen'[t] = gen[t]
  BY DEF IInv, Generations
<1>2. LedgerInv'
  BY DEF IInv, LedgerInv, LedgerTypeOK, Typed, ChainOK, Chained, ProjectionOK, Projected,
         VersionsOf, ledgerVars
<1>3. Stored'
  BY DEF IInv, Stored
<1>4. versions' = versions /\ briefs' = briefs
  BY DEF ledgerVars
<1>5. /\ \A t \in Reader : Gen(gen'[t])
      /\ \A t \in Reader : Reading(gen'[t], versions)
      /\ \A t \in Reader : Composing(gen'[t], briefs)
  <2> SUFFICES ASSUME NEW t \in Reader
               PROVE  /\ Gen(gen'[t]) /\ Reading(gen'[t], versions)
                      /\ Composing(gen'[t], briefs)
    OBVIOUS
  <2>1. CASE t = s
    BY <1>1, <2>1 DEF Composing
  <2>2. CASE t # s
    BY <1>1, <2>2 DEF IInv, Generations
  <2> QED
    BY <2>1, <2>2
<1>6. Apart(gen')
  BY <1>1 DEF IInv, Generations, Apart
<1>7. Generations'
  BY <1>1, <1>4, <1>5, <1>6 DEF Generations
<1> QED
  BY <1>2, <1>3, <1>7 DEF IInv

\* A session's preview is replaced, or dropped.
LEMMA PreviewStep ==
    ASSUME Previews, NEW s \in Reader, NEW facts, Held(facts),
           \/ UNCHANGED preview
           \/ preview' = [preview EXCEPT ![s] = facts]
           \/ preview' = [preview EXCEPT ![s] = NULL]
    PROVE  Previews'
<1>1. CASE UNCHANGED preview
  BY <1>1 DEF Previews
<1>2. ASSUME NEW f, Held(f), preview' = [preview EXCEPT ![s] = f] PROVE Previews'
  <2>1. /\ DOMAIN preview' = Reader /\ preview'[s] = f
        /\ \A t \in Reader \ {s} : preview'[t] = preview[t]
    BY <1>2 DEF Previews
  <2>2. \A t \in Reader : Held(preview'[t])
    BY <1>2, <2>1 DEF Previews
  <2> QED
    BY <2>1, <2>2 DEF Previews
<1>3. Held(NULL)
  BY DEF Held
<1> QED
  BY <1>1, <1>2, <1>3

LEMMA StartStep ==
    ASSUME IInv, NEW s \in Reader, NEW type \in BriefTypes, StartFacts(s, type),
           UNCHANGED ledgerVars
    PROVE  IInv'
<1> DEFINE p == gen[s].project
           g == [Idling(p) EXCEPT !.pc = "facts", !.type = type, !.query = 1]
<1>1. p \in AnyProject
  BY DEF IInv, Generations, Gen
<1>2. gen' = [gen EXCEPT ![s] = g] /\ UNCHANGED <<briefs, preview>>
  BY Zenon DEF StartFacts
<1>3. /\ DOMAIN g = GenFields /\ g.pc = "facts" /\ g.project = p /\ g.type = type
      /\ g.facts = {} /\ g.query = 1
  BY DEF Idling, GenFields
<1>4. 1 \in 1..Len(Queries[type])
  BY DEF BriefTypes, Queries
<1> HIDE DEF g
<1>5. Gen(g) /\ Reading(g, versions)
  BY <1>1, <1>3, <1>4 DEF Gen, Gathered, InSections, NotOlder, Reading, Recorded
<1>6. Previews'
  BY <1>2 DEF IInv, Previews
<1> QED
  BY <1>2, <1>3, <1>5, <1>6, SessionStep

LEMMA SelectStep ==
    ASSUME IInv, NEW s \in Reader, NEW p \in AnyProject, SelectProject(s, p),
           UNCHANGED ledgerVars
    PROVE  IInv'
<1> DEFINE g == [gen[s] EXCEPT !.project = p]
<1>1. /\ gen[s].pc = "idle" /\ gen' = [gen EXCEPT ![s] = g]
      /\ UNCHANGED <<briefs, preview>>
  BY DEF SelectProject
<1>2. Gen(gen[s])
  BY DEF IInv, Generations
<1>3. /\ DOMAIN g = GenFields /\ g.pc = gen[s].pc /\ g.project = p /\ g.type = gen[s].type
      /\ g.facts = gen[s].facts /\ g.query = gen[s].query
  BY <1>2 DEF Gen, GenFields
<1> HIDE DEF g
<1>4. Gen(g) /\ Reading(g, versions)
  BY <1>1, <1>2, <1>3 DEF Gen, Gathered, Reading
<1>5. Previews'
  BY <1>1 DEF IInv, Previews
<1> QED
  BY <1>1, <1>3, <1>4, <1>5, SessionStep

LEMMA CloseStep ==
    ASSUME IInv, NEW s \in Reader, CloseTab(s), UNCHANGED ledgerVars
    PROVE  IInv'
<1>1. gen[s].project \in AnyProject
  BY DEF IInv, Generations, Gen
<1>2. gen' = [gen EXCEPT ![s] = Idling(gen[s].project)] /\ UNCHANGED briefs
  BY DEF CloseTab
<1>3. Previews'
  BY PreviewStep DEF CloseTab, IInv, Held
<1> QED
  BY <1>1, <1>2, <1>3, IdleGen, IdleIs, SessionStep

LEMMA ReadStep ==
    ASSUME IInv, NEW s \in Reader, ReadSection(s), UNCHANGED ledgerVars
    PROVE  IInv'
<1> DEFINE n == Len(Queries[gen[s].type])
           Gathers(answer, pc) ==
              /\ gen' = [gen EXCEPT ![s].facts = @ \cup answer,
                                    ![s].query = IF pc = "facts" THEN @ + 1 ELSE 0,
                                    ![s].pc = pc]
              /\ UNCHANGED preview
           Previewed(answer) ==
              /\ preview' = [preview EXCEPT ![s] = gen[s].facts \cup answer]
              /\ gen' = [gen EXCEPT ![s] = Idling(@.project)]
              /\ gen[s].type = "meeting_preparation"
<1>1. /\ LedgerInv /\ Gen(gen[s]) /\ Reading(gen[s], versions) /\ DOMAIN gen = Reader
      /\ gen[s].project \in AnyProject /\ Previews
  BY DEF IInv, Generations, Gen
<1>2. gen[s].pc = "facts" /\ UNCHANGED briefs
  BY DEF ReadSection
<1>3. PICK answer \in Answers(s) :
         \/ gen[s].query < n /\ Gathers(answer, "facts")
         \/ Gathers(answer, "insert")
         \/ Previewed(answer)
  <2>1. PICK answer \in Answers(s) :
           \/ /\ gen[s].query < n
              /\ gen' = [gen EXCEPT ![s].facts = @ \cup answer, ![s].query = @ + 1]
              /\ UNCHANGED preview
           \/ Gathers(answer, "insert")
           \/ Previewed(answer)
    BY DEF ReadSection
  <2>2. ASSUME gen[s].query < n,
               gen' = [gen EXCEPT ![s].facts = @ \cup answer, ![s].query = @ + 1],
               UNCHANGED preview
        PROVE  Gathers(answer, "facts")
    BY <1>1, <1>2, <2>2 DEF Gen, GenFields
  <2> QED
    BY <2>1, <2>2
<1> DEFINE facts == gen[s].facts \cup answer
<1>4. /\ InSections(gen[s].type, facts) /\ NotOlder(gen[s].type, facts)
      /\ Recorded(gen[s].type, facts, versions)
  BY <1>1, <1>2, AnswerFits
<1>5. gen[s].query \in 1..n /\ n \in Nat
  BY <1>1, <1>2 DEF Gen, Gathered, BriefTypes, Queries
<1>6. ASSUME NEW pc \in {"facts", "insert"}, pc = "facts" => gen[s].query < n,
             Gathers(answer, pc)
      PROVE  IInv'
  <2> DEFINE next == IF pc = "facts" THEN gen[s].query + 1 ELSE 0
             g == [gen[s] EXCEPT !.facts = facts, !.query = next, !.pc = pc]
  <2>1. gen' = [gen EXCEPT ![s] = g] /\ UNCHANGED preview
    BY <1>1, <1>6
  <2>2. pc = "facts" => next \in 1..n /\ next # 1
    <3> HIDE DEF n
    <3> QED
      BY <1>5, <1>6
  <2> HIDE DEF facts, next
  <2>3. /\ DOMAIN g = GenFields /\ g.pc = pc /\ g.project = gen[s].project
        /\ g.type = gen[s].type /\ g.facts = facts /\ g.query = next
    BY <1>1 DEF Gen, GenFields
  <2> HIDE DEF g
  <2>4. Gen(g) /\ Reading(g, versions)
    BY <1>1, <1>4, <2>2, <2>3 DEF Gen, Gathered, Reading
  <2>5. Previews'
    BY <1>1, <2>1 DEF Previews
  <2> QED
    BY <1>2, <1>6, <2>1, <2>3, <2>4, <2>5, SessionStep
<1>7. CASE Previewed(answer)
  <2>1. Held(facts)
    BY <1>4, <1>7 DEF Held
  <2>2. Previews'
    BY <1>1, <1>7, <2>1, PreviewStep
  <2>3. gen' = [gen EXCEPT ![s] = Idling(gen[s].project)]
    BY <1>1, <1>7
  <2> QED
    BY <1>1, <1>2, <2>2, <2>3, IdleGen, IdleIs, SessionStep
<1> HIDE DEF n, Gathers, Previewed
<1> QED
  BY <1>3, <1>6, <1>7

\* Leaving facts out keeps the rest in order.
LEMMA GenerateMeetingStep ==
    ASSUME IInv, NEW s \in Reader, GenerateMeeting(s), UNCHANGED ledgerVars
    PROVE  IInv'
<1> DEFINE type == "meeting_preparation"
<1>1. PICK excluded :
         gen' = [gen EXCEPT ![s].pc = "insert", ![s].type = type,
                            ![s].facts = _filter_excluded_facts(preview[s], excluded)]
  BY DEF GenerateMeeting
<1> DEFINE facts == _filter_excluded_facts(preview[s], excluded)
           g == [gen[s] EXCEPT !.pc = "insert", !.type = type, !.facts = facts]
<1>2. /\ Gen(gen[s]) /\ DOMAIN gen = Reader /\ UNCHANGED <<briefs, preview>>
      /\ InSections(type, preview[s]) /\ NotOlder(type, preview[s]) /\ Previews
  BY DEF IInv, Generations, GenerateMeeting, Previews, Held
<1>3. gen' = [gen EXCEPT ![s] = g]
  BY <1>1, <1>2
<1>4. facts \subseteq preview[s]
  BY DEF _filter_excluded_facts
<1> HIDE DEF facts
<1>5. /\ DOMAIN g = GenFields /\ g.pc = "insert" /\ g.project = gen[s].project
      /\ g.type = type /\ g.facts = facts
  BY <1>2 DEF Gen, GenFields
<1> HIDE DEF g
<1>6. Gen(g) /\ Reading(g, versions)
  BY <1>2, <1>4, <1>5 DEF Gen, Gathered, InSections, NotOlder, Reading, BriefTypes
<1>7. Previews'
  BY <1>2 DEF Previews
<1> QED
  BY <1>2, <1>3, <1>5, <1>6, <1>7, SessionStep

LEMMA NextNumber ==
    ASSUME NEW bs, Numbered(bs)
    PROVE  LET b == Cardinality(DOMAIN bs) + 1 IN
           /\ b \notin DOMAIN bs
           /\ \A row : Numbered(Put(bs, b, row))
<1>1. PICK n \in Nat : DOMAIN bs = 1..n
  BY DEF Numbered
<1>2. Cardinality(1..n) = n
  <2>1. IF 1 > n THEN Cardinality(1..n) = 0 ELSE Cardinality(1..n) = n - 1 + 1
    BY FS_Interval
  <2> QED
    BY <2>1
<1>3. \A row : DOMAIN Put(bs, n + 1, row) = 1..(n + 1)
  BY <1>1 DEF Put
<1> QED
  BY <1>1, <1>2, <1>3 DEF Numbered

LEMMA InsertStep ==
    ASSUME IInv, NEW s \in Reader, insert_brief(s), UNCHANGED ledgerVars
    PROVE  IInv'
<1> DEFINE b == Cardinality(DOMAIN briefs) + 1
           row == [project |-> gen[s].project, type |-> gen[s].type,
                   status |-> "generating", facts |-> gen[s].facts, claims |-> {}]
           g == [gen[s] EXCEPT !.pc = "compose", !.brief = b]
<1>1. gen[s].pc = "insert" /\ briefs' = Put(briefs, b, row)
  BY Zenon DEF insert_brief
<1>2. /\ LedgerInv /\ DOMAIN gen = Reader /\ Gen(gen[s]) /\ Apart(gen)
      /\ Stored /\ \A t \in Reader : /\ Gen(gen[t]) /\ Reading(gen[t], versions)
                                      /\ Composing(gen[t], briefs)
  BY DEF IInv, Generations
<1>3. gen' = [gen EXCEPT ![s] = g]
  BY <1>2 DEF insert_brief
<1>4. b \notin DOMAIN briefs /\ Numbered(briefs')
  BY <1>1, <1>2, NextNumber DEF Stored
<1> HIDE DEF b
<1>5. /\ DOMAIN row = BriefFields /\ row.project = gen[s].project /\ row.type = gen[s].type
      /\ row.status = "generating" /\ row.facts = gen[s].facts /\ row.claims = {}
  BY DEF BriefFields
<1>6. /\ DOMAIN g = GenFields /\ g.pc = "compose" /\ g.project = gen[s].project
      /\ g.type = gen[s].type /\ g.facts = gen[s].facts /\ g.brief = b
  BY <1>2 DEF Gen, GenFields
<1> HIDE DEF row, g
<1>7. /\ DOMAIN briefs' = DOMAIN briefs \cup {b} /\ briefs'[b] = row
      /\ \A c \in DOMAIN briefs : briefs'[c] = briefs[c]
  BY <1>1, <1>4 DEF Put
<1>8. Brief(row)
  BY <1>2, <1>5 DEF Brief, Gen, Gathered, _render_markdown
<1>9. Stored'
  <2>1. \A c \in DOMAIN briefs' : Brief(briefs'[c])
    BY <1>2, <1>7, <1>8 DEF Stored
  <2>2. Current(briefs')
    <3>1. \A c \in DOMAIN briefs' : briefs'[c].status \in {"valid", "superseded"} =>
             c \in DOMAIN briefs
      BY <1>5, <1>7
    <3> QED
      BY <1>2, <1>7, <3>1 DEF Stored, Current
  <2> QED
    BY <1>4, <2>1, <2>2 DEF Stored
<1>10. /\ DOMAIN gen' = Reader /\ gen'[s] = g
       /\ \A t \in Reader \ {s} : gen'[t] = gen[t]
  BY <1>2, <1>3
<1>11. Gen(g) /\ Reading(g, versions) /\ Composing(g, briefs')
  BY <1>2, <1>5, <1>6, <1>7 DEF Gen, Gathered, Reading, Composing
<1>12. versions' = versions
  BY DEF ledgerVars
<1>13. \A t \in Reader : /\ Gen(gen'[t]) /\ Reading(gen'[t], versions)
                          /\ Composing(gen'[t], briefs')
  <2> SUFFICES ASSUME NEW t \in Reader, t # s
               PROVE  /\ Gen(gen'[t]) /\ Reading(gen'[t], versions)
                      /\ Composing(gen'[t], briefs')
    BY <1>10, <1>11
  <2>1. gen'[t] = gen[t]
    BY <1>10
  <2> QED
    BY <1>2, <1>7, <2>1 DEF Composing
<1>14. Apart(gen')
  <2>1. \A t \in Reader : gen[t].pc = "compose" => gen[t].brief # b
    BY <1>2, <1>4 DEF Composing
  <2> QED
    BY <1>2, <1>6, <1>10, <2>1 DEF Apart
<1>15. Generations'
  BY <1>10, <1>12, <1>13, <1>14 DEF Generations
<1>16. LedgerInv'
  BY <1>2 DEF LedgerInv, LedgerTypeOK, Typed, ChainOK, Chained, ProjectionOK, Projected,
              VersionsOf, ledgerVars
<1>17. Previews'
  BY DEF insert_brief, IInv, Previews
<1> QED
  BY <1>9, <1>15, <1>16, <1>17 DEF IInv

\* A step that ends a session's composing and, of the briefs still being generated,
\* changes only its own.
LEMMA EndStep ==
    ASSUME IInv, NEW s \in Reader, gen[s].pc = "compose",
           BackToPage(s), DOMAIN briefs' = DOMAIN briefs,
           \A c \in DOMAIN briefs \ {gen[s].brief} :
              briefs[c].status = "generating" => briefs'[c] = briefs[c],
           UNCHANGED ledgerVars
    PROVE  LedgerInv' /\ Generations' /\ Previews'
<1> DEFINE g == Idling(gen[s].project)
<1>1. /\ LedgerInv /\ DOMAIN gen = Reader /\ Apart(gen) /\ gen[s].project \in AnyProject
      /\ \A t \in Reader : /\ Gen(gen[t]) /\ Reading(gen[t], versions)
                            /\ Composing(gen[t], briefs)
  BY DEF IInv, Generations, Gen
<1>2. Gen(g) /\ Reading(g, versions) /\ g.pc = "idle"
  BY <1>1, IdleGen, IdleIs
<1> HIDE DEF g
<1>3. /\ DOMAIN gen' = Reader /\ gen'[s] = g
      /\ \A t \in Reader \ {s} : gen'[t] = gen[t]
  BY <1>1 DEF g, BackToPage
<1>4. versions' = versions
  BY DEF ledgerVars
<1>5. \A t \in Reader : /\ Gen(gen'[t]) /\ Reading(gen'[t], versions)
                         /\ Composing(gen'[t], briefs')
  <2> SUFFICES ASSUME NEW t \in Reader
               PROVE  /\ Gen(gen'[t]) /\ Reading(gen'[t], versions)
                      /\ Composing(gen'[t], briefs')
    OBVIOUS
  <2>1. CASE t = s
    BY <1>2, <1>3, <2>1 DEF Composing
  <2>2. CASE t # s
    <3>1. gen'[t] = gen[t]
      BY <1>3, <2>2
    <3>2. ASSUME gen[t].pc = "compose"
          PROVE  /\ gen[t].brief \in DOMAIN briefs
                 /\ briefs'[gen[t].brief] = briefs[gen[t].brief]
      <4>1. gen[t].brief # gen[s].brief
        BY <2>2, <1>1, <3>2 DEF Apart
      <4> QED
        BY <1>1, <3>2, <4>1 DEF Composing
    <3> QED
      BY <1>1, <3>1, <3>2 DEF Composing
  <2> QED
    BY <2>1, <2>2
<1>6. Apart(gen')
  BY <1>1, <1>2, <1>3 DEF Apart
<1>7. Generations'
  BY <1>3, <1>4, <1>5, <1>6 DEF Generations
<1>8. LedgerInv'
  BY <1>1 DEF LedgerInv, LedgerTypeOK, Typed, ChainOK, Chained, ProjectionOK, Projected,
              VersionsOf, ledgerVars
<1>9. Previews'
  <2>1. Held(NULL)
    BY DEF Held
  <2> QED
    BY <2>1, PreviewStep DEF BackToPage, IInv
<1> QED
  BY <1>7, <1>8, <1>9

LEMMA FailStep ==
    ASSUME IInv, NEW s \in Reader, FailBrief(s), UNCHANGED ledgerVars
    PROVE  IInv'
<1> DEFINE b == gen[s].brief
<1>1. /\ gen[s].pc = "compose" /\ BackToPage(s)
      /\ briefs' = [briefs EXCEPT ![b].status = "failed"]
  BY DEF FailBrief, finalize_brief
<1>2. b \in DOMAIN briefs /\ briefs[b].status = "generating" /\ Brief(briefs[b])
  BY <1>1 DEF IInv, Generations, Composing, Stored
<1> HIDE DEF b
<1> DEFINE row == [briefs[b] EXCEPT !.status = "failed"]
<1>3. /\ DOMAIN briefs' = DOMAIN briefs /\ briefs'[b] = row
      /\ \A c \in DOMAIN briefs \ {b} : briefs'[c] = briefs[c]
  BY <1>1, <1>2
<1>4. /\ DOMAIN row = BriefFields /\ row.project = briefs[b].project
      /\ row.type = briefs[b].type /\ row.status = "failed"
      /\ row.facts = briefs[b].facts /\ row.claims = briefs[b].claims
  BY <1>2 DEF Brief, BriefFields
<1> HIDE DEF row
<1>5. Brief(row)
  BY <1>2, <1>4 DEF Brief, Gathered
<1>6. Stored'
  <2>1. Numbered(briefs')
    BY <1>3 DEF IInv, Stored, Numbered
  <2>2. \A c \in DOMAIN briefs' : Brief(briefs'[c])
    BY <1>3, <1>5 DEF IInv, Stored
  <2>3. Current(briefs')
    BY <1>2, <1>3, <1>4 DEF IInv, Stored, Current, Alike
  <2> QED
    BY <2>1, <2>2, <2>3 DEF Stored
<1>7. LedgerInv' /\ Generations' /\ Previews'
  BY <1>1, <1>3, EndStep DEF b
<1> QED
  BY <1>6, <1>7 DEF IInv

\* Finishing a brief makes it the current one of its project and type.
LEMMA FinishStep ==
    ASSUME IInv, NEW s \in Reader, generate_brief(s), UNCHANGED ledgerVars
    PROVE  IInv'
<1> DEFINE b == gen[s].brief
           type == gen[s].type
           facts == gen[s].facts
<1>1. PICK composition \in Compositions(type, facts) :
         LET planned == _plan_model_eligible_sections(type, facts, composition)
         IN  briefs' = supersede_previous_valid_briefs(
                           finalize_brief(insert_claims(briefs, b, planned), b, "valid"), b)
  BY Zenon DEF generate_brief
<1>2. gen[s].pc = "compose" /\ BackToPage(s)
  BY Zenon DEF generate_brief
<1>3. /\ b \in DOMAIN briefs /\ briefs[b].status = "generating" /\ Brief(briefs[b])
      /\ briefs[b].type = type /\ briefs[b].facts = facts
  BY <1>2 DEF IInv, Generations, Composing, Stored
<1>4. type \in BriefTypes /\ InSections(type, facts)
  BY <1>3 DEF Brief, Gathered
<1> DEFINE planned == _plan_model_eligible_sections(type, facts, composition)
           done == finalize_brief(insert_claims(briefs, b, planned), b, "valid")
           row == [[briefs[b] EXCEPT !.claims = planned] EXCEPT !.status = "valid"]
<1>5. /\ \A c \in _render_markdown(planned) : RestsOn(facts, c)
      /\ \A f \in facts : Shown(f, planned)
  BY <1>4, PlanRests, PlanShows
<1> HIDE DEF planned
<1>6. briefs' = supersede_previous_valid_briefs(done, b)
  BY <1>1 DEF planned
<1> HIDE DEF b, type, facts
<1>7. /\ DOMAIN done = DOMAIN briefs /\ done[b] = row
      /\ \A c \in DOMAIN briefs \ {b} : done[c] = briefs[c]
  BY <1>3 DEF finalize_brief, insert_claims
<1>8. /\ DOMAIN row = BriefFields /\ row.project = briefs[b].project /\ row.type = type
      /\ row.status = "valid" /\ row.facts = facts /\ row.claims = planned
  BY <1>3 DEF Brief, BriefFields
<1> HIDE DEF done, row
<1>9. Brief(row)
  BY <1>3, <1>5, <1>8 DEF Brief, Gathered
<1> DEFINE Old(c) == c # b /\ briefs[c].status = "valid" /\ Alike(briefs[c], row)
           gone(c) == [briefs[c] EXCEPT !.status = "superseded"]
<1>10. /\ DOMAIN briefs' = DOMAIN briefs /\ briefs'[b] = row
       /\ \A c \in DOMAIN briefs \ {b} :
             briefs'[c] = IF Old(c) THEN gone(c) ELSE briefs[c]
  BY <1>3, <1>6, <1>7, Zenon DEF supersede_previous_valid_briefs, Alike
<1>11. \A c \in DOMAIN briefs : Brief(briefs[c])
  BY DEF IInv, Stored
<1>12. \A c \in DOMAIN briefs :
          /\ DOMAIN gone(c) = BriefFields /\ gone(c).project = briefs[c].project
          /\ gone(c).type = briefs[c].type /\ gone(c).status = "superseded"
          /\ gone(c).facts = briefs[c].facts /\ gone(c).claims = briefs[c].claims
  BY <1>11 DEF Brief, BriefFields
<1> HIDE DEF gone
<1>13. \A c \in DOMAIN briefs : Old(c) => Brief(gone(c))
  BY <1>11, <1>12 DEF Brief, Gathered
<1>14. Stored'
  <2>1. Numbered(briefs')
    BY <1>10 DEF IInv, Stored, Numbered
  <2>2. \A c \in DOMAIN briefs' : Brief(briefs'[c])
    BY <1>9, <1>10, <1>11, <1>13
  <2>3. Current(briefs')
    <3>1. \A c \in DOMAIN briefs \ {b} :
             /\ Alike(briefs'[c], briefs[c])
             /\ briefs'[c].status = "valid" <=> briefs[c].status = "valid" /\ ~Old(c)
             /\ briefs'[c].status = "superseded" =>
                   Old(c) \/ briefs[c].status = "superseded"
      BY <1>10, <1>12 DEF Alike
    <3>2. briefs'[b].status = "valid" /\ briefs'[b] = row
      BY <1>8, <1>10
    <3>3. Current(briefs)
      BY DEF IInv, Stored
    <3>4. ASSUME NEW c \in DOMAIN briefs', briefs'[c].status \in {"valid", "superseded"}
          PROVE  \E d \in DOMAIN briefs' :
                    briefs'[d].status = "valid" /\ Alike(briefs'[c], briefs'[d])
      <4>1. CASE Alike(briefs'[c], row)
        BY <1>3, <1>10, <3>2, <4>1
      <4>2. CASE ~Alike(briefs'[c], row)
        <5>1. c # b
          BY <3>2, <4>2 DEF Alike
        <5>2. PICK d \in DOMAIN briefs :
                 briefs[d].status = "valid" /\ Alike(briefs[c], briefs[d])
          BY <1>10, <3>1, <3>3, <3>4, <5>1 DEF Current
        <5>3. ~Alike(briefs[d], row) /\ d # b
          BY <1>3, <1>10, <3>1, <4>2, <5>1, <5>2 DEF Alike
        <5> QED
          BY <1>10, <3>1, <5>1, <5>2, <5>3 DEF Alike
      <4> QED
        BY <4>1, <4>2
    <3>5. ASSUME NEW c \in DOMAIN briefs', NEW d \in DOMAIN briefs',
                 briefs'[c].status = "valid", briefs'[d].status = "valid",
                 Alike(briefs'[c], briefs'[d])
          PROVE  c = d
      <4>1. CASE c # b /\ d # b
        BY <1>10, <3>1, <3>3, <3>5, <4>1 DEF Current, Alike
      <4>2. ASSUME NEW e \in DOMAIN briefs, e # b, briefs'[e].status = "valid"
            PROVE  ~Alike(briefs'[e], row)
        BY <3>1, <4>2 DEF Alike
      <4> QED
        BY <1>10, <3>2, <3>5, <4>1, <4>2 DEF Alike
    <3> QED
      BY <3>4, <3>5 DEF Current
  <2> QED
    BY <2>1, <2>2, <2>3 DEF Stored
<1>15. \A c \in DOMAIN briefs \ {b} : briefs[c].status = "generating" => briefs'[c] = briefs[c]
  BY <1>10
<1>16. LedgerInv' /\ Generations' /\ Previews'
  BY <1>2, <1>10, <1>15, EndStep DEF b
<1> QED
  BY <1>14, <1>16 DEF IInv

-----------------------------------------------------------------------------
(* The theorems. *)

\* The ledger may advance at any moment: its versions stay.
LEMMA LedgerStep ==
    ASSUME IInv, LedgerNext, UNCHANGED briefVars
    PROVE  IInv'
<1>1. LedgerInv'
  BY LedgerNextInv DEF IInv
<1>2. briefs' = briefs /\ gen' = gen /\ preview' = preview
  BY DEF briefVars
<1>3. DOMAIN versions \subseteq DOMAIN versions'
  <2>1. ASSUME NEW i \in ItemId, NEW kind \in Kinds, NEW owner, NEW review,
               CreateItem(i, kind, owner, review)
        PROVE  DOMAIN versions \subseteq DOMAIN versions'
    BY <2>1 DEF CreateItem, created_versions, insert_version, Put
  <2>2. ASSUME NEW i \in ItemId, NEW type, NEW status, NEW owner, NEW corrected, NEW review,
               AppendVersion(i, type, status, owner, corrected, review)
        PROVE  DOMAIN versions \subseteq DOMAIN versions'
    BY <2>2 DEF AppendVersion, appended_versions, close_version, insert_version, Put
  <2> QED
    BY <2>1, <2>2 DEF LedgerNext
<1>4. Generations'
  BY <1>2, <1>3 DEF IInv, Generations, Reading, Recorded
<1>5. Stored' /\ Previews'
  BY <1>2 DEF IInv, Stored, Previews
<1> QED
  BY <1>1, <1>4, <1>5 DEF IInv

LEMMA InitInv == LedgerInit /\ BriefsInit => IInv
<1> SUFFICES ASSUME LedgerInit, BriefsInit PROVE IInv
  OBVIOUS
<1>1. LedgerInv
  BY LedgerInitInv
<1>2. DOMAIN gen = Reader /\ \A s \in Reader : \E p \in AnyProject : gen[s] = Idling(p)
  BY DEF BriefsInit
<1>3. \A s \in Reader : /\ Gen(gen[s]) /\ Reading(gen[s], versions)
                         /\ Composing(gen[s], briefs) /\ gen[s].pc = "idle"
  BY <1>2, IdleGen, IdleIs
<1>4. Generations
  BY <1>2, <1>3 DEF Generations, Apart
<1>5. DOMAIN briefs = {} /\ DOMAIN briefs = 1..0
  BY DEF BriefsInit
<1>6. Stored
  BY <1>5 DEF Stored, Numbered, Current
<1>7. Previews
  BY DEF BriefsInit, Previews, Held
<1> QED
  BY <1>1, <1>4, <1>6, <1>7 DEF IInv

LEMMA NextInv == IInv /\ [LedgerOrBriefsNext]_ledgerBriefVars => IInv'
<1> SUFFICES ASSUME IInv, [LedgerOrBriefsNext]_ledgerBriefVars PROVE IInv'
  OBVIOUS
<1>1. CASE LedgerNext /\ UNCHANGED briefVars
  BY <1>1, LedgerStep
<1>2. ASSUME BriefsNext, UNCHANGED ledgerVars PROVE IInv'
  <2>1. PICK s \in Reader :
           \/ \E p \in AnyProject : SelectProject(s, p)
           \/ GenerateCurrent(s)
           \/ PreviewMeeting(s)
           \/ ReadSection(s)
           \/ GenerateMeeting(s)
           \/ insert_brief(s)
           \/ FailBrief(s)
           \/ generate_brief(s)
           \/ CloseTab(s)
    BY <1>2 DEF BriefsNext
  <2>2. ASSUME NEW p \in AnyProject, SelectProject(s, p) PROVE IInv'
    BY <1>2, <2>2, SelectStep
  <2>3. CASE GenerateCurrent(s) \/ PreviewMeeting(s)
    <3>1. "current_project" \in BriefTypes /\ "meeting_preparation" \in BriefTypes
      BY DEF BriefTypes
    <3> QED
      BY <1>2, <2>3, <3>1, StartStep DEF GenerateCurrent, PreviewMeeting
  <2>4. CASE ReadSection(s)
    BY <1>2, <2>4, ReadStep
  <2>5. CASE GenerateMeeting(s)
    BY <1>2, <2>5, GenerateMeetingStep
  <2>6. CASE insert_brief(s)
    BY <1>2, <2>6, InsertStep
  <2>7. CASE FailBrief(s)
    BY <1>2, <2>7, FailStep
  <2>8. CASE generate_brief(s)
    BY <1>2, <2>8, FinishStep
  <2>9. CASE CloseTab(s)
    BY <1>2, <2>9, CloseStep
  <2> QED
    BY <2>1, <2>2, <2>3, <2>4, <2>5, <2>6, <2>7, <2>8, <2>9
<1>3. CASE UNCHANGED ledgerBriefVars
  BY <1>3 DEF ledgerBriefVars, IInv, LedgerInv, LedgerTypeOK, Typed, ChainOK, Chained, ProjectionOK,
              Projected, VersionsOf, Generations, Previews, Stored
<1> QED
  BY <1>1, <1>2, <1>3 DEF LedgerOrBriefsNext

LEMMA BriefsInv == BriefsSpec => []IInv
BY InitInv, NextInv, PTL DEF BriefsSpec

\* A project has one current brief of each type it has finished, whatever the sessions
\* that generate at once.
THEOREM OneCurrentBrief == BriefsSpec => []OneValidBrief
<1>1. ASSUME IInv PROVE OneValidBrief
  <2> SUFFICES ASSUME NEW p \in AnyProject, NEW type \in BriefTypes,
                      NEW b \in DOMAIN briefs, Finished(b),
                      briefs[b].project = p, briefs[b].type = type
               PROVE  LET finished == {c \in DOMAIN briefs :
                              /\ Finished(c) /\ briefs[c].project = p
                              /\ briefs[c].type = type}
                      IN  Cardinality({c \in finished : briefs[c].status = "valid"}) = 1
    BY DEF OneValidBrief
  <2> DEFINE current == {c \in DOMAIN briefs : /\ Finished(c) /\ briefs[c].project = p
                                               /\ briefs[c].type = type
                                               /\ briefs[c].status = "valid"}
  <2>1. PICK v \in DOMAIN briefs : briefs[v].status = "valid" /\ Alike(briefs[b], briefs[v])
    BY <1>1 DEF IInv, Stored, Current, Finished
  <2>2. \A c \in DOMAIN briefs :
           briefs[c].status = "valid" /\ Alike(briefs[c], briefs[v]) => c = v
    BY <1>1, <2>1 DEF IInv, Stored, Current
  <2>3. current = {v}
    BY <2>1, <2>2 DEF Finished, Alike
  <2>4. Cardinality(current) = 1
    BY <2>3, FS_Singleton
  <2>5. {c \in {d \in DOMAIN briefs : /\ Finished(d) /\ briefs[d].project = p
                                      /\ briefs[d].type = type} :
            briefs[c].status = "valid"} = current
    OBVIOUS
  <2> QED
    BY <2>4, <2>5
<1> QED
  BY <1>1, BriefsInv, PTL

\* Whatever a model answers, a statement of fact a brief shows cites facts of its own
\* section, or says truly that the section is empty.
THEOREM ClaimsRest == BriefsSpec => []ClaimsRestOnTheirSection
<1>1. IInv => ClaimsRestOnTheirSection
  BY DEF IInv, Stored, Brief, RestsOn, ClaimsRestOnTheirSection
<1> QED
  BY <1>1, BriefsInv, PTL

\* Whatever a model answers or leaves out, a section with facts shows one of them, or a
\* suggestion.
THEOREM NoneSilenced == BriefsSpec => []NoSectionSilenced
<1>1. IInv => NoSectionSilenced
  BY DEF IInv, Stored, Brief, Shown, Finished, NoSectionSilenced
<1> QED
  BY <1>1, BriefsInv, PTL

\* However the ledger advances while the facts are read, the state a brief shows of an
\* item is not older than the changes it lists of it.
THEOREM StateIsLater == BriefsSpec => []StateNotOlderThanChanges
<1>1. IInv => StateNotOlderThanChanges
  BY DEF IInv, Stored, Brief, Gathered, NotOlder, StateNotOlderThanChanges
<1> QED
  BY <1>1, BriefsInv, PTL
=============================================================================
