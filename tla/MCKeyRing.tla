----------------------------- MODULE MCKeyRing -----------------------------
(* Model-checking instances of KeyRing. *)
EXTENDS KeyRing, TLC

CONSTANTS k1, k2

TwoKeys == {k1, k2}

\* rotate supplies "rotated", and "retired" behaves exactly as "lost".
MCReasons == {"compromised", "lost"}

TwoKeySymmetry == Permutations(TwoKeys)
=============================================================================
