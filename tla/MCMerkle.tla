------------------------------ MODULE MCMerkle ------------------------------
(* Model-checking instances of MerkleLog. *)
EXTENDS MerkleLog

CONSTANT d1

\* The second leaf's bytes are the hashes of the first and the first again.
LookalikeLeaves == {d1, <<LeafHash(d1), LeafHash(d1)>>}
=============================================================================
