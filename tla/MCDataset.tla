----------------------------- MODULE MCDataset -----------------------------
(* Model-checking instances of Dataset. *)
EXTENDS Dataset, TLC

CONSTANT k1

Rec(url, at, key, signature, by, ok) ==
    [leaf |-> [url |-> url, fetched_at |-> at, worker_public_key |-> key,
               signature |-> signature, fetched_by |-> by],
     verifies |-> ok]

Native  == Rec("u1", 1, k1, "s1", "native", TRUE)
Relayed == Rec("u2", 2, k1, "s2", "relay", TRUE)

\* Native with another status_code: the leaf is the same.
Altered == Rec("u1", 1, k1, "s1", "native", FALSE)

ThreeRecords == {Native, Relayed, Altered}

\* Only Native may still be corroborated.
CarriedByThree == [r \in ThreeRecords |-> IF r = Native THEN << >> ELSE <<"disagrees">>]

=============================================================================
