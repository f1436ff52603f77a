------------------------------- MODULE Merkle -------------------------------
(***************************************************************************)
(* inverba/merkle.py: the append-only tree behind dataset manifests, its   *)
(* root, its inclusion proofs and their verification.                      *)
(*                                                                         *)
(* SHA-256 is symbolic: a hash is the pair of the prefix byte and what was *)
(* hashed, so that different inputs have different hashes. Positions count *)
(* from 1.                                                                 *)
(***************************************************************************)
EXTENDS Integers, Sequences

CONSTANTS
    Leaves,      \* the leaf bytes that are appended
    MaxLeaves    \* bound: the tree holds at most this many

ASSUME BoundAssumption == MaxLeaves \in Nat

VARIABLE leaf_hashes    \* _leaf_hashes

-----------------------------------------------------------------------------
(* Hashes. *)

LeafHash(data) == <<0, data>>

\* Deliberately wrong: no domain separation between leaves and nodes.
BugNodeHash(left, right) == <<0, <<left, right>> >>

NodeHash(left, right) == <<1, <<left, right>> >>

\* SHA-256 of nothing: the root of an empty tree.
EmptyHash == << >>

-----------------------------------------------------------------------------
(* The tree over n hashes starts at a position of the list of leaves: a      *)
(* recursion on the list's slices, as in _root and _inclusion_path, each     *)
(* written as a function of the slice's length, for every position at once.  *)

\* Deliberately wrong: the slice is cut in the middle.
BugSplit(n) == (n + 1) \div 2

\* 2^e: e doublings.
Power[e \in Nat] == IF e = 0 THEN 1 ELSE 2 * Power[e - 1]

\* The largest power of two below n, for n > 1.
Split(n) == CHOOSE k \in 1..n : (\E e \in 0..n : k = Power[e]) /\ k < n /\ n <= 2 * k

\* _root of the n hashes from a position on.
Subtree(hashes) ==
    LET root[n \in 0..Len(hashes)] == [at \in Nat |->
            IF n = 0 THEN EmptyHash
            ELSE IF n = 1 THEN hashes[at]
            ELSE NodeHash(root[Split(n)][at], root[n - Split(n)][at + Split(n)])]
    IN  root

Root(hashes) == Subtree(hashes)[Len(hashes)][1]

\* Deliberately wrong: the siblings come from the root down.
BugJoin(below, sibling) == <<sibling>> \o below

\* The path grows from the leaf up: what is below comes first.
Join(below, sibling) == Append(below, sibling)

\* _inclusion_path: the siblings of the i-th of the n hashes from a position on, and
\* whether each is on the right.
Paths(hashes) ==
    LET root == Subtree(hashes)
        path[n \in 0..Len(hashes)] == [at \in Nat |-> [i \in 1..n |->
            LET k == Split(n)
            IN  IF n = 1 THEN << >>
                ELSE IF i <= k
                THEN Join(path[k][at][i], [hash |-> root[n - k][at + k], right |-> TRUE])
                ELSE Join(path[n - k][at + k][i - k], [hash |-> root[k][at], right |-> FALSE])]]
    IN  path

Path(hashes, index) == Paths(hashes)[Len(hashes)][1][index]

InclusionProof(hashes, index) ==
    [leaf_hash |-> hashes[index], tree_size |-> Len(hashes), audit_path |-> Path(hashes, index)]

\* The hashes on the way from the leaf up, as a proof gives them.
Climb(proof) ==
    LET up[n \in 0..Len(proof.audit_path)] ==
            IF n = 0 THEN proof.leaf_hash
            ELSE LET sibling == proof.audit_path[n]
                 IN  IF sibling.right THEN NodeHash(up[n - 1], sibling.hash)
                     ELSE NodeHash(sibling.hash, up[n - 1])
    IN  up

\* The root a proof leads to.
Computed(proof) == Climb(proof)[Len(proof.audit_path)]

\* Deliberately wrong: an empty path is taken for a tree of one leaf.
BugVerifyInclusion(proof, root) == proof.audit_path = << >> \/ Computed(proof) = root

VerifyInclusion(proof, root) == Computed(proof) = root

-----------------------------------------------------------------------------
(* The tree. *)

TreeInit == leaf_hashes = << >>

AppendLeaf(data) ==
    /\ Len(leaf_hashes) < MaxLeaves
    /\ leaf_hashes' = Append(leaf_hashes, LeafHash(data))

TreeNext == \E data \in Leaves : AppendLeaf(data)

TreeSpec == TreeInit /\ [][TreeNext]_leaf_hashes

-----------------------------------------------------------------------------
(* Properties. *)

\* Every leaf of every tree has a proof that verifies against the root, of at most
\* as many siblings as the tree is high (merkle.py inclusion_proof).
EveryLeafProvable ==
    \A i \in DOMAIN leaf_hashes :
        LET proof == InclusionProof(leaf_hashes, i)
        IN  /\ VerifyInclusion(proof, Root(leaf_hashes))
            /\ \A e \in 0..Len(leaf_hashes) :
                  Len(leaf_hashes) <= Power[e] => Len(proof.audit_path) <= e

\* A proof is of one leaf: with any other leaf in its place it does not verify
\* (merkle.py verify_inclusion).
ProofsBindLeaf ==
    \A i \in DOMAIN leaf_hashes, data \in Leaves :
        VerifyInclusion([InclusionProof(leaf_hashes, i) EXCEPT !.leaf_hash = LeafHash(data)],
                        Root(leaf_hashes))
        => leaf_hashes[i] = LeafHash(data)

\* A root commits to every leaf and to their order, and no leaf passes for a node
\* ("Domain separation prevents a leaf from being passed off as an internal node"):
\* no other list of leaves has this one's root.
Lists == UNION {[1..n -> {LeafHash(data) : data \in Leaves}] : n \in 0..MaxLeaves}

RootCommits == \A other \in Lists : Root(other) = Root(leaf_hashes) => other = leaf_hashes

\* The reference definition: neighbours are paired level by level, and an odd one
\* is carried up (RFC 6962, section 2.1, read from the leaves).
Halved(hashes) ==
    [i \in 1..((Len(hashes) + 1) \div 2) |->
        IF 2 * i <= Len(hashes) THEN NodeHash(hashes[2 * i - 1], hashes[2 * i])
        ELSE hashes[2 * i - 1]]

Levels(hashes) ==
    LET level[n \in 0..Len(hashes)] == IF n = 0 THEN hashes ELSE Halved(level[n - 1])
    IN  level

RootByLevels(hashes) ==
    IF hashes = << >> THEN EmptyHash ELSE Levels(hashes)[Len(hashes)][1]

\* The recursive root is the one the levels give (merkle.py, "RFC 6962 style").
RootIsByLevels == Root(leaf_hashes) = RootByLevels(leaf_hashes)
=============================================================================
