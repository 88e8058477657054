------------------------------ MODULE MCLedger ------------------------------
(* The ledger service on one item, through all eight transition types, and   *)
(* the briefs sessions generate from it.                                     *)
EXTENDS Briefs

\* What a behaviour is about: the item's history, briefs of one session with
\* everything a model may answer, or briefs of several sessions, each of which reads
\* its facts in one go.
VARIABLE theme

LedgerThemes == {"history", "claims", "sessions"}

NoBriefs == LedgerInit /\ BriefsInit /\ gen = [s \in Reader |-> Idling(Home)]

LedgerThemesInit ==
    /\ LedgerInit
    /\ BriefsInit
    /\ theme \in LedgerThemes
    /\ theme = "history" => NoBriefs

LedgerThemesNext ==
    /\ LedgerOrBriefsNext
    /\ UNCHANGED theme
    /\ theme = "history" => UNCHANGED briefVars
    /\ theme # "history" =>
         /\ \A i \in DOMAIN items' : items'[i].kind \in {"commitment", "open_question"}
         /\ \A i \in DOMAIN items' : ~items'[i].user_corrected
         /\ \A i \in DOMAIN items' : items'[i].kind = "commitment" => items'[i].owner = NULL
         /\ \A v \in DOMAIN versions' : v[2] <= 2 /\ versions'[v].review_id # NULL
    /\ theme = "claims" =>
         /\ Cardinality({s \in Reader : gen'[s].pc # "idle" \/ preview'[s] # NULL}) <= 1
         /\ Cardinality(DOMAIN briefs') <= 1
         /\ \A s \in Reader : preview[s] # NULL => gen'[s].pc # "facts"
         /\ briefs # <<>> => UNCHANGED ledgerVars /\ \E s \in Reader : gen[s].pc = "compose"
    /\ theme = "sessions" =>
         /\ \A v \in DOMAIN versions' : v[2] = 1
         /\ \A i \in DOMAIN items' : items'[i].kind = "commitment"
         /\ Cardinality(DOMAIN briefs) = MaxBriefs => \E s \in Reader : gen[s].pc = "compose"
         /\ ledgerVars' # ledgerVars => \A s \in Reader : gen[s].pc = "idle" /\ preview[s] = NULL
         /\ \A s \in Reader : gen[s].pc \in {"facts", "insert"} =>
               gen'[s].pc # "idle" \/ preview'[s] # preview[s]
         /\ \A s \in Reader : gen[s].pc = "idle" /\ gen'[s].pc = "insert" =>
               gen'[s].facts = preview[s]
         /\ \A s \in Reader : preview[s] # NULL =>
               /\ gen'[s].project = gen[s].project
               /\ gen'[s].pc = "facts" => gen'[s].type = "current_project" /\ briefs = <<>>
         /\ (\E s \in Reader : gen[s].pc = "facts") =>
               \E s \in Reader : gen[s].pc = "facts" /\ gen'[s] # gen[s]
         /\ \A b \in DOMAIN briefs' : \A c \in briefs'[b].claims :
               c.claim_type = "fact" /\ c.status = "valid"
=============================================================================
