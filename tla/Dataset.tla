------------------------------ MODULE Dataset ------------------------------
(***************************************************************************)
(* inverba/dataset.py: a builder collects verified records into a Merkle   *)
(* tree and signs manifests of it, while the key ring it consults and the  *)
(* corroborations of the records it holds live on.                         *)
(*                                                                         *)
(* The builder keeps references: a record is its signed fields, which the  *)
(* program never changes, and its list of corroborations, to which the     *)
(* notary client appends. What Ed25519 says of a record is a field of it,  *)
(* and of a manifest that it is signed as built. Names and notes are left  *)
(* out; so are the ratios, which the counts determine.                     *)
(***************************************************************************)
EXTENDS Integers, Sequences, FiniteSets

CONSTANTS
    Records,             \* the records that callers offer
    Carried,             \* the corroborations each record is loaded with
    KeyringGiven,        \* TRUE iff the builder has a key ring
    MaxRecords,          \* bound: add accepts at most this many records
    MaxRejected,         \* bound: and rejects at most this many
    MaxManifests,        \* bound: build is called at most this often
    MaxCorroborations,   \* bound: of one record
    Keys, None, Time, Slack, Reasons, MaxEntries  \* the key ring's

\* The fields _leaf_bytes commits to; content_hash goes with the signature.
LeafFields == [url : STRING, fetched_at : Time, worker_public_key : Keys,
               signature : STRING, fetched_by : {"native", "relay"}]

\* status_code, final_url and content_type are signed too: two records may have the
\* same leaf, and only one of them verify.
ProvenanceRecord == [leaf : LeafFields, verifies : BOOLEAN]

Corroborations == Seq({"agrees", "disagrees"})

ASSUME RecordsAssumption ==
    /\ Records \subseteq ProvenanceRecord
    /\ Carried \in [Records -> Corroborations]
ASSUME BuilderAssumption == KeyringGiven \in BOOLEAN
ASSUME TimeAssumption == Time \subseteq Int

VARIABLES
    keys,            \* the entries of the key ring
    corroborations,  \* each record's list
    tree,            \* _tree._leaf_hashes
    records,         \* _records
    rejected,        \* _rejected: how many
    manifests,       \* the manifests signed so far, oldest first
    proofs           \* the inclusion proofs handed out, [record, proof]

vars == <<keys, corroborations, tree, records, rejected, manifests, proofs>>

Ring == INSTANCE KeyRing

Tree == INSTANCE Merkle WITH leaf_hashes <- tree, Leaves <- LeafFields, MaxLeaves <- MaxRecords

ASSUME RingAssumption ==
    /\ None \notin Keys \cup Ring!Revocation \cup Ring!Signature
    /\ Slack \in Nat
    /\ Reasons \subseteq Ring!RevocationReason

-----------------------------------------------------------------------------

KeyTrusted(record) == Ring!TrustedAt(record.leaf.worker_public_key, record.leaf.fetched_at)

\* Deliberately wrong: the key ring is not consulted.
BugAcceptable(record) == record.verifies

\* add accepts the record.
Acceptable(record) == record.verifies /\ (KeyringGiven => KeyTrusted(record))

Earliest(rs) ==
    IF rs = << >> THEN None
    ELSE CHOOSE t \in {rs[i].leaf.fetched_at : i \in DOMAIN rs} :
            \A i \in DOMAIN rs : t <= rs[i].leaf.fetched_at

\* The part of _composition that the leaves determine.
Collected(rs) ==
    LET native == {i \in DOMAIN rs : rs[i].leaf.fetched_by = "native"}
    IN  [record_count |-> Len(rs),
         independent_observations |-> Cardinality(native),
         relayed |-> Cardinality(DOMAIN rs \ native),
         unique_urls |-> Cardinality({rs[i].leaf.url : i \in DOMAIN rs}),
         earliest_fetch |-> Earliest(rs)]

\* A record counts as corroborated when it carries any corroboration.
Corroborated(rs) == Cardinality({i \in DOMAIN rs : corroborations[rs[i]] # << >>})

-----------------------------------------------------------------------------
(* Actions. *)

Init ==
    /\ Ring!Init
    /\ corroborations = Carried
    /\ tree = << >>
    /\ records = << >>
    /\ rejected = 0
    /\ manifests = << >>
    /\ proofs = {}

\* Deliberately wrong: the leaf is appended before the record is verified.
BugAdd(record) ==
    /\ Len(records) < MaxRecords /\ rejected < MaxRejected
    /\ tree' = Append(tree, Tree!LeafHash(record.leaf))
    /\ IF Acceptable(record)
       THEN records' = Append(records, record) /\ UNCHANGED rejected
       ELSE rejected' = rejected + 1 /\ UNCHANGED records
    /\ UNCHANGED <<keys, corroborations, manifests, proofs>>

\* add(record)
Add(record) ==
    /\ Len(records) < MaxRecords /\ rejected < MaxRejected
    /\ IF Acceptable(record)
       THEN /\ tree' = Append(tree, Tree!LeafHash(record.leaf))
            /\ records' = Append(records, record)
            /\ UNCHANGED rejected
       ELSE /\ rejected' = rejected + 1
            /\ UNCHANGED <<tree, records>>
    /\ UNCHANGED <<keys, corroborations, manifests, proofs>>

\* build(): the manifest is computed from the records held now, and signed.
Build ==
    /\ Len(manifests) < MaxManifests
    /\ manifests' = Append(manifests,
          [merkle_root |-> Tree!Root(tree), collected |-> Collected(records),
           corroborated |-> Corroborated(records)])
    /\ UNCHANGED <<keys, corroborations, tree, records, rejected, proofs>>

Matches(i, record) == tree[i] = Tree!LeafHash(record.leaf)

\* Deliberately wrong: the position found is that of the next leaf.
BugFound(i, record) == i > 1 /\ Matches(i - 1, record)

\* proof_for's search stops at the first leaf that equals the record's.
Found(i, record) ==
    /\ Matches(i, record)
    /\ \A j \in DOMAIN tree : j < i => ~Matches(j, record)

\* proof_for(record), when it finds one: a proof in the tree as it is now.
ProofFor(record) ==
    /\ \E i \in DOMAIN tree :
          /\ Found(i, record)
          /\ proofs' = proofs \cup {[record |-> record, proof |-> Tree!InclusionProof(tree, i)]}
    /\ UNCHANGED <<keys, corroborations, tree, records, rejected, manifests>>

\* The notary client appends to the record, whoever holds it.
Corroborate(record) ==
    /\ Len(corroborations[record]) < MaxCorroborations
    /\ corroborations' = [corroborations EXCEPT ![record] = Append(@, "agrees")]
    /\ UNCHANGED <<keys, tree, records, rejected, manifests, proofs>>

RingStep ==
    Ring!Next /\ UNCHANGED <<corroborations, tree, records, rejected, manifests, proofs>>

Next ==
    \/ \E record \in Records : Add(record) \/ ProofFor(record) \/ Corroborate(record)
    \/ Build
    \/ RingStep

Spec == Init /\ [][Next]_vars

-----------------------------------------------------------------------------
(* Properties. *)

\* The builder's state has its type: one leaf per record, in the same order.
TypeOK ==
    /\ Ring!TypeOK
    /\ corroborations \in [Records -> Corroborations]
    /\ records \in Seq(Records)
    /\ Len(tree) = Len(records)
    /\ \A i \in DOMAIN records : tree[i] = Tree!LeafHash(records[i].leaf)
    /\ rejected \in Nat

\* Whatever was added, rejected or corroborated since, the root of a manifest
\* commits to exactly as many leaves as it counts, and its composition is theirs:
\* two manifests with one root tell the same story ("computed, not asserted";
\* "a record cannot be quietly added to or removed from a published dataset").
ManifestsCommit ==
    \A n \in DOMAIN manifests :
        LET count == manifests[n].collected.record_count
        IN  /\ count <= Len(tree)
            /\ manifests[n].merkle_root = Tree!Root(SubSeq(tree, 1, count))
            /\ manifests[n].collected = Collected(SubSeq(records, 1, count))

\* The proof handed out for a record shows that very leaf to be in the manifests of
\* the tree it was taken from, and in no manifest built before or after the tree
\* had that size (dataset.py proof_for, verify_membership).
MembershipExact ==
    \A p \in proofs, n \in DOMAIN manifests :
        LET proof == [p.proof EXCEPT !.leaf_hash = Tree!LeafHash(p.record.leaf)]
        IN  Tree!VerifyInclusion(proof, manifests[n].merkle_root)
                <=> proof.tree_size = manifests[n].collected.record_count

\* A record is in the corpus although its key is not trusted for its time only when
\* the ring has learned of a compromise since (builder parameter keyring: records
\* signed by a compromised key are kept out).
IncludedStaysExplained ==
    KeyringGiven => \A i \in DOMAIN records : ~KeyTrusted(records[i]) =>
        \E j \in DOMAIN keys :
            /\ Ring!Finds(j, records[i].leaf.worker_public_key)
            /\ Ring!Compromised(keys[j])
            /\ records[i].leaf.fetched_at >= keys[j].revocation.effective_at

=============================================================================
