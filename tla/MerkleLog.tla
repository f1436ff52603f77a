------------------------------ MODULE MerkleLog ------------------------------
(***************************************************************************)
(* The growing tree of Merkle, proved and verified by both implementations *)
(* of the repository: merkle.py, which is Merkle, and merkle.rs, which is  *)
(* IrfMerkle.                                                              *)
(***************************************************************************)
EXTENDS Merkle, FiniteSets

Irf == INSTANCE IrfMerkle

size == Len(leaf_hashes)

\* The Python proof of a leaf without the sides, which the Rust verifier gets from
\* the index and the size.
Siblings(index) ==
    LET path == Path(leaf_hashes, index + 1) IN [i \in DOMAIN path |-> path[i].hash]

\* The two implementations give a tree one root and a leaf one path, although one
\* sends the sides along and the other derives them from index and size; each accepts
\* the other's proof (merkle.py inclusion_proof, merkle.rs inclusion_proof and
\* verify_inclusion).
ImplementationsAgree ==
    /\ size > 0 => Irf!root(leaf_hashes) = Root(leaf_hashes)
    /\ \A index \in 0..(size - 1) :
          /\ Irf!inclusion_proof(leaf_hashes, index).path = Siblings(index)
          /\ Irf!verify_inclusion(leaf_hashes[index + 1], index, size, Siblings(index),
                                  Root(leaf_hashes)) = "Ok"

\* The lists of this size that are closest to this tree: at most two leaves differ.
\* They share most subtrees with it, so their proofs are the likeliest to pass.
Neighbours ==
    {list \in [1..size -> {LeafHash(data) : data \in Leaves}] :
        Cardinality({i \in 1..size : list[i] # leaf_hashes[i]}) <= 2}

\* What a proof can be turned into: itself, without an end, longer by a sibling.
Variants(proof, hash) ==
    {proof, Append(proof, hash), <<hash>> \o proof}
        \cup (IF proof = << >> THEN {} ELSE {Tail(proof), SubSeq(proof, 1, Len(proof) - 1)})

\* Against the tree's own size and root, a path verifies for the leaf at its index
\* only: not with the proof of a tree alike, not cut or padded, and not for a subtree
\* in the place of a leaf (merkle.rs verify_inclusion, "a proof for one tree never
\* resolves to a different tree's root").
InclusionBindsLeaf ==
    LET top == Root(leaf_hashes)
    IN  \A other \in Neighbours, from \in 0..(size - 1) :
            LET path == Irf!inclusion_proof(other, from).path
            IN  \A index \in 0..size,
                   leaf \in {other[from + 1], Irf!node_hash(other[1], other[size])} :
                   (index < size => leaf # leaf_hashes[index + 1]) =>
                       \A proof \in Variants(path, other[1]) :
                           Irf!verify_inclusion(leaf, index, size, proof, top) # "Ok"

\* The tree is shown to extend every earlier one of its own, whatever the two sizes
\* (merkle.rs consistency_proof, verify_consistency).
ExtendsItsPast ==
    \A m \in 1..size :
        LET proof == Irf!consistency_proof(leaf_hashes, m)
        IN  /\ proof.ok
            /\ Irf!verify_consistency(m, Root(SubSeq(leaf_hashes, 1, m)), size,
                                      Root(leaf_hashes), proof.path) = "Ok"

\* History cannot be rewritten: the tree is shown to extend no list but its own
\* prefixes, neither by its own proof nor by one made for a tree that did begin with
\* that list ("Consistency proofs are what make the log append-only").
PastIsFixed ==
    LET top == Root(leaf_hashes)
    IN  \A past \in {list \in Lists : Len(list) \in 1..size} :
            LET m       == Len(past)
                rewrite == past \o SubSeq(leaf_hashes, m + 1, size)
                proofs  == {Irf!consistency_proof(leaf_hashes, m).path,
                            Irf!consistency_proof(rewrite, m).path}
            IN  past # SubSeq(leaf_hashes, 1, m) =>
                    \A proof \in UNION {Variants(p, Root(past)) : p \in proofs} :
                        Irf!verify_consistency(m, Root(past), size, top, proof) # "Ok"
=============================================================================
