---------------------------- MODULE EvidenceStore ----------------------------
(***************************************************************************)
(* Evidence submitted by hand (services/evidence.py): rows in SQLite, and  *)
(* the bytes beside it in files named by their digest (evidence_store.py), *)
(* shared by all the projects that hold the same bytes.  The rows change   *)
(* in transactions, the files do not.                                      *)
(*                                                                         *)
(*   artifacts  source_artifacts: the digest of each one's current content *)
(*   contents   source_contents: the version_key of each content           *)
(*   objects    the digests there is a file of                             *)
(*                                                                         *)
(* A content is <<artifact, digest>>, an artifact <<project, external id>>,*)
(* as the unique indexes on the two tables have it.                        *)
(***************************************************************************)
EXTENDS Projects, FiniteSets

CONSTANTS
    Name,           \* titles and file names, as typed
    Normal,         \* [Name -> Name]: trimmed, in lower case, single spaces
    Digest,         \* sha256 of the bytes submitted
    Oversized,      \* digests of the files over max_upload_bytes
    Chunk,          \* chunks, by their text
    Chunks          \* [Digest -> SUBSET Chunk]: {} if nothing could be parsed

ASSUME EvidenceAssumption ==
    /\ Normal \in [Name -> Name]
    /\ \A n \in Name : Normal[Normal[n]] = Normal[n]
    /\ Oversized \subseteq Digest
    /\ Chunks \in [Digest -> SUBSET Chunk]
    /\ IsFiniteSet(Digest)

VARIABLES artifacts, contents, objects

evidenceVars == <<artifacts, contents, objects>>

Intake == {"text", "file"}

ExternalId == Intake \X Name

Artifact == Project \X ExternalId

Content == Artifact \X Digest

OwnerOf(content) == content[1][1]

\* Tables: functions on a changing set of keys.
Upsert(table, key, row) ==
    [k \in DOMAIN table \cup {key} |-> IF k = key THEN row ELSE table[k]]

Without(table, gone) == [k \in DOMAIN table \ gone |-> table[k]]

EvidenceTypeOK ==
    /\ DOMAIN artifacts \subseteq Artifact
    /\ \A a \in DOMAIN artifacts : <<a, artifacts[a]>> \in DOMAIN contents
    /\ DOMAIN contents \subseteq Content
    /\ \A c \in DOMAIN contents : contents[c] \in 1 .. Cardinality(Digest)
    /\ objects \subseteq Digest

EvidenceInit == artifacts = <<>> /\ contents = <<>> /\ objects = {}

external_id(kind, name) == <<kind, Normal[name]>>

\* Faulty: the count of the versions there are.
CountedVersions(a) == Cardinality({c \in DOMAIN contents : c[1] = a})

next_version_key(a) == Cardinality({c \in DOMAIN contents : c[1] = a}) + 1

\* The digests that contents in `rows` refer to.
Referenced(rows) == {c[2] : c \in rows}

store_bytes(d) == objects' = objects \cup {d}

\* Identical bytes are no new version of the artifact, but become its current one.
_store_content_and_chunks(a, d) ==
    /\ contents' = IF <<a, d>> \in DOMAIN contents THEN contents
                   ELSE Upsert(contents, <<a, d>>, next_version_key(a))
    /\ artifacts' = Upsert(artifacts, a, d)

OwnedBy(p) == {c \in DOMAIN contents : OwnerOf(c) = p}

\* Faulty: no thought of the other projects that hold the same bytes.
AllReferencedByProject(p) == Referenced(OwnedBy(p))

\* Faulty: asked once the project's rows are gone.
OnlyReferencedAfterDeletion(p) ==
    Referenced({c \in OwnedBy(p) : OwnerOf(c) # p}) \ Referenced(DOMAIN contents \ OwnedBy(p))

sha256_only_referenced_by_project(p) ==
    Referenced(OwnedBy(p)) \ Referenced(DOMAIN contents \ OwnedBy(p))

DeleteEvidenceRows(p) ==
    /\ contents' = Without(contents, OwnedBy(p))
    /\ artifacts' = Without(artifacts, {a \in DOMAIN artifacts : a[1] = p})

delete_object(d) == objects' = objects \ {d}
=============================================================================
