------------------------------ MODULE IrfMerkle ------------------------------
(***************************************************************************)
(* inverba-core-rs/src/merkle.rs: roots, audit paths and consistency       *)
(* proofs of RFC 6962, and their verification, as functions of lists of    *)
(* leaf hashes. Indices count from 0, as in the code; a verdict is "Ok" or *)
(* the reason of the refusal. Hashes are free terms, as in Merkle.         *)
(***************************************************************************)
EXTENDS Integers, Sequences

\* The prefix bytes are domain.rs's MERKLE_LEAF_PREFIX and MERKLE_NODE_PREFIX.
leaf_hash(data) == <<0, data>>

node_hash(left, right) == <<1, <<left, right>> >>

\* What a generator returns when it refuses.
Refused(reason) == [ok |-> FALSE, reason |-> reason]

-----------------------------------------------------------------------------
(* The shape of a tree. *)

\* Deliberately wrong: the halves are equal, which fits powers of two only.
BugSplitPoint(n) == IF n < 2 THEN 0 ELSE n \div 2

\* 1 << e.
Power[e \in Nat] == IF e = 0 THEN 1 ELSE 2 * Power[e - 1]

\* The high bit of n - 1.
split_point(n) ==
    IF n < 2 THEN 0
    ELSE LET bits == CHOOSE b \in 1..n : Power[b - 1] <= n - 1 /\ n - 1 < Power[b]
         IN  Power[bits - 1]

\* root of the n leaves from a position on, for n > 0.
SliceRoot(leaves) ==
    LET root[n \in 1..Len(leaves)] == [at \in Nat |->
            IF n = 1 THEN leaves[at]
            ELSE LET k == split_point(n)
                 IN  node_hash(root[k][at], root[n - k][at + k])]
    IN  root

root(leaves) == SliceRoot(leaves)[Len(leaves)][1]

\* The descent from the root to a leaf: whether it goes left, level by level.
Descents(size) ==
    LET descend[sz \in 1..size] == [idx \in 0..(sz - 1) |->
            LET k == split_point(sz)
            IN  IF sz = 1 THEN << >>
                ELSE IF idx < k THEN <<TRUE>> \o descend[k][idx]
                ELSE <<FALSE>> \o descend[sz - k][idx - k]]
    IN  descend

Decisions(index, size) == Descents(size)[size][index]

path_len(index, size) == Len(Decisions(index, size))

-----------------------------------------------------------------------------
(* Inclusion. *)

\* The siblings, from the leaf up, of the i-th of the n leaves from a position on.
AuditPaths(leaves) ==
    LET top == SliceRoot(leaves)
        path[n \in 1..Len(leaves)] == [at \in Nat |-> [i \in 0..(n - 1) |->
            LET k == split_point(n)
            IN  IF n = 1 THEN << >>
                ELSE IF i < k THEN Append(path[k][at][i], top[n - k][at + k])
                ELSE Append(path[n - k][at + k][i - k], top[k][at])]]
    IN  path

inclusion_proof(leaves, index) ==
    IF leaves = << >> THEN Refused("EmptyTree")
    ELSE IF index >= Len(leaves) THEN Refused("IndexOutOfRange")
    ELSE [ok |-> TRUE, path |-> AuditPaths(leaves)[Len(leaves)][1][index]]

\* The hashes a path leads to: the decisions are replayed from the last one.
Replay(leaf, decisions, proof) ==
    LET up[step \in 0..Len(proof)] ==
            IF step = 0 THEN leaf
            ELSE IF decisions[Len(decisions) - step + 1] THEN node_hash(up[step - 1], proof[step])
            ELSE node_hash(proof[step], up[step - 1])
    IN  up

Replayed(leaf, decisions, proof) == Replay(leaf, decisions, proof)[Len(proof)]

\* Deliberately wrong: a proof may be shorter than the way from the leaf to the root.
BugRightLength(proof, expected_len) == Len(proof) <= expected_len

RightLength(proof, expected_len) == Len(proof) = expected_len

verify_inclusion(leaf, index, size, proof, expected_root) ==
    IF size = 0 THEN "EmptyTree"
    ELSE IF index >= size THEN "IndexOutOfRange"
    ELSE IF ~RightLength(proof, path_len(index, size)) THEN "BadProofLength"
    ELSE IF Replayed(leaf, Decisions(index, size), proof) = expected_root THEN "Ok"
    ELSE "ProofMismatch"

-----------------------------------------------------------------------------
(* Consistency: a tree of n leaves extends the one of its first m.           *)

\* Deliberately wrong: the prefix is taken for known after a turn to the right as well.
BugInner(is_full) == is_full

\* A prefix that spans the left half is not the known one any more on the right.
Inner(is_full) == FALSE

\* What shows the first m of the n leaves from a position on to be in their tree.
Subproofs(leaves) ==
    LET top == SliceRoot(leaves)
        sub[n \in 1..Len(leaves)] == [at \in Nat |-> [m \in 1..n |-> [is_full \in BOOLEAN |->
            LET k == split_point(n)
            IN  IF m = n THEN IF is_full THEN << >> ELSE <<top[n][at]>>
                ELSE IF m <= k THEN Append(sub[k][at][m][is_full], top[n - k][at + k])
                ELSE Append(sub[n - k][at + k][m - k][Inner(is_full)], top[k][at])]]]
    IN  sub

subproof(leaves, prefix) == Subproofs(leaves)[Len(leaves)][1][prefix][TRUE]

consistency_proof(leaves, m) ==
    IF m = 0 \/ m > Len(leaves) THEN Refused("SizeMismatch")
    ELSE [ok |-> TRUE, path |-> IF m = Len(leaves) THEN << >> ELSE subproof(leaves, m)]

Pair(fr, sr) == [ok |-> TRUE, fr |-> fr, sr |-> sr]

\* The roots of the first m and of all n leaves, as far as the first `used` hashes of a
\* proof tell them; the outermost sibling is the last.
Checks(size, proof, root_m) ==
    LET known(used, is_full) ==
            IF is_full
            THEN IF used = 0 THEN Pair(root_m, root_m) ELSE Refused("BadProofLength")
            ELSE IF used = 1 THEN Pair(proof[1], proof[1]) ELSE Refused("BadProofLength")
        check[n \in 1..size] == [m \in 1..n |-> [used \in Nat |-> [is_full \in BOOLEAN |->
            IF m = n THEN known(used, is_full)
            ELSE IF used = 0 THEN Refused("BadProofLength")
            ELSE LET k       == split_point(n)
                     sibling == proof[used]
                     left    == check[k][m][used - 1][is_full]
                     right   == check[n - k][m - k][used - 1][Inner(is_full)]
                 IN  IF m <= k
                     THEN IF left.ok THEN Pair(left.fr, node_hash(left.sr, sibling)) ELSE left
                     ELSE IF right.ok
                     THEN Pair(node_hash(sibling, right.fr), node_hash(sibling, right.sr))
                     ELSE right]]]
    IN  check

verify_subproof(prefix, size, proof, root_m) ==
    Checks(size, proof, root_m)[size][prefix][Len(proof)][TRUE]

MaxLevels == 64    \* the longest proof that is looked at

\* Deliberately wrong: only the root of the whole tree is compared.
BugRootsMatch(result, root_m, root_n) == result.sr = root_n

RootsMatch(result, root_m, root_n) == result.fr = root_m /\ result.sr = root_n

verify_consistency(m, root_m, n, root_n, proof) ==
    LET result == verify_subproof(m, n, proof, root_m)
    IN  IF m = 0 \/ m > n THEN "SizeMismatch"
        ELSE IF m = n
        THEN IF proof # << >> THEN "BadProofLength"
             ELSE IF root_m = root_n THEN "Ok" ELSE "ProofMismatch"
        ELSE IF Len(proof) > MaxLevels THEN "BadProofLength"
        ELSE IF ~result.ok THEN result.reason
        ELSE IF RootsMatch(result, root_m, root_n) THEN "Ok"
        ELSE "ProofMismatch"
=============================================================================
