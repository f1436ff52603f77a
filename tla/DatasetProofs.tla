--------------------------- MODULE DatasetProofs ---------------------------
(***************************************************************************)
(* Proofs about the tree and about the dataset builder that grows one.     *)
(*                                                                         *)
(* The tree (Merkle, MerkleLog): for every list of leaves, of any length,  *)
(* the roots, proofs and verdicts of merkle.py and merkle.rs are what they *)
(* should be, whatever proof a verifier is given. Recursions are proved    *)
(* about by induction on the size of a subtree.                            *)
(*                                                                         *)
(* The builder (Dataset): what its manifests and the proofs it hands out   *)
(* commit to, and which records a key ring lets into the corpus, for every *)
(* set of records and key ring, however many are added, rejected and built.*)
(***************************************************************************)
EXTENDS Dataset, MerkleLog, SequenceTheorems, WellFoundedInduction, TLAPS

-----------------------------------------------------------------------------
(* Sequences.                                                                *)

LEMMA AppendOne ==
    ASSUME NEW S, NEW seq \in Seq(S), NEW e \in S
    PROVE  /\ Append(seq, e) \in Seq(S)
           /\ Len(Append(seq, e)) = Len(seq) + 1
           /\ \A n \in 1..Len(seq) : Append(seq, e)[n] = seq[n]
           /\ Append(seq, e)[Len(seq) + 1] = e
OBVIOUS

\* What was appended later does not show in an earlier prefix.
LEMMA PrefixOfAppend ==
    ASSUME NEW S, NEW seq \in Seq(S), NEW e \in S, NEW n \in 0..Len(seq)
    PROVE  SubSeq(Append(seq, e), 1, n) = SubSeq(seq, 1, n)
<1>1. /\ Append(seq, e) \in Seq(S) /\ Len(Append(seq, e)) = Len(seq) + 1
      /\ \A k \in 1..Len(seq) : Append(seq, e)[k] = seq[k]
  BY AppendOne
<1> DEFINE longer == Append(seq, e)
<1>2. longer \in Seq(S) /\ Len(longer) = Len(seq) + 1 /\ Len(seq) \in Nat
      /\ \A k \in 1..Len(seq) : longer[k] = seq[k]
  BY <1>1
<1> HIDE DEF longer
<1>3. SubSeq(longer, 1, n) = SubSeq(seq, 1, n)
  BY <1>2
<1>4. QED
  BY <1>3 DEF longer

LEMMA WholePrefix ==
    ASSUME NEW S, NEW seq \in Seq(S)
    PROVE  SubSeq(seq, 1, Len(seq)) = seq
OBVIOUS

-----------------------------------------------------------------------------
(* Induction, from the well-foundedness of <: over a set of numbers, since   *)
(* a set can be cited where a predicate cannot.                              *)

LEMMA LessIsWellFounded == IsWellFoundedOn({p \in Nat \X Nat : p[1] < p[2]}, Nat)
<1>1. OpToRel(<, Nat) = {p \in Nat \X Nat : p[1] < p[2]}
  BY Zenon DEF OpToRel
<1>2. QED
  BY <1>1, NatLessThanWellFounded, Zenon

\* What holds of a number when it holds of all below it holds of every number.
LEMMA Induction ==
    ASSUME NEW S, \A n \in Nat : (\A k \in 0..(n - 1) : k \in S) => n \in S
    PROVE  \A n \in Nat : n \in S
<1> DEFINE R == {p \in Nat \X Nat : p[1] < p[2]}
           T == Nat \ S
<1>1. ASSUME T # {} PROVE FALSE
  <2>1. \A x, y \in Nat : <<y, x>> \in R <=> y < x
    OBVIOUS
  <2>0. IsWellFoundedOn(R, Nat) /\ T \subseteq Nat
    BY LessIsWellFounded
  <2> HIDE DEF R, T
  <2>2. PICK x \in T : \A y \in T : ~ (<<y, x>> \in R)
    BY <1>1, <2>0, WFMin
  <2>3. ASSUME NEW k \in 0..(x - 1) PROVE k \in S
    <3>1. x \in Nat /\ k \in Nat /\ k < x
      BY DEF T
    <3>2. k \notin T
      BY <2>1, <2>2, <3>1
    <3>3. QED
      BY <3>1, <3>2 DEF T
  <2>4. QED
    BY <2>2, <2>3 DEF T
<1>2. QED
  BY <1>1

LEMMA StepByStep ==
    ASSUME NEW S, 0 \in S, \A n \in Nat : n \in S => n + 1 \in S
    PROVE  \A n \in Nat : n \in S
<1>1. ASSUME NEW n \in Nat, \A k \in 0..(n - 1) : k \in S PROVE n \in S
  <2>1. CASE n = 0  BY <2>1
  <2>2. CASE n > 0
    <3>1. n - 1 \in S /\ n - 1 \in Nat
      BY <1>1, <2>2
    <3> DEFINE m == n - 1
    <3>2. m \in Nat /\ m \in S /\ n = m + 1
      BY <3>1
    <3> HIDE DEF m
    <3>3. QED
      BY <3>2
  <2>3. QED
    BY <2>1, <2>2
<1>2. QED
  BY <1>1, Induction

-----------------------------------------------------------------------------
(* Powers of two. A recursive definition is a CHOOSE: that there is such a   *)
(* function is proved from ever longer beginnings of it.                     *)

PowerOf(f, n) == IF n = 0 THEN 1 ELSE 2 * f[n - 1]

LEMMA PowerDefined == Power = [e \in Nat |-> PowerOf(Power, e)]
<1> DEFINE Is(f, m) == f = [n \in 0..m |-> PowerOf(f, n)]
<1>1. \A f, m : m \in Nat /\ Is(f, m) => \A n \in 0..m : f[n] = PowerOf(f, n)
  <2> SUFFICES ASSUME NEW f, NEW m \in Nat, Is(f, m), NEW n \in 0..m
               PROVE  f[n] = PowerOf(f, n)
    OBVIOUS
  <2> DEFINE g == [i \in 0..m |-> PowerOf(f, i)]
  <2>1. g[n] = PowerOf(f, n)
    OBVIOUS
  <2>2. f = g
    OBVIOUS
  <2> HIDE DEF g
  <2> QED  BY <2>1, <2>2, Zenon
<1>2. \A m \in Nat : \E f : Is(f, m)
  <2> DEFINE S == {m \in Nat : \E f : Is(f, m)}
  <2>1. 0 \in S
    <3> DEFINE f == [n \in 0..0 |-> 1]
    <3>1. f = [n \in 0..0 |-> PowerOf(f, n)]
      BY DEF PowerOf
    <3> QED  BY <3>1
  <2>2. ASSUME NEW m \in Nat, m \in S PROVE m + 1 \in S
    <3>1. PICK f : Is(f, m)
      BY <2>2
    <3> DEFINE g == [n \in 0..(m + 1) |-> PowerOf(f, n)]
    <3>2. \A n \in 0..m : f[n] = PowerOf(f, n)
      BY <1>1, <3>1
    <3>3. \A n \in 0..m : g[n] = f[n]
      BY <3>2
    <3>4. \A n \in 0..(m + 1) : PowerOf(f, n) = PowerOf(g, n)
      <4> HIDE DEF g
      <4> QED  BY <3>3 DEF PowerOf
    <3>5. g = [n \in 0..(m + 1) |-> PowerOf(g, n)]
      <4> DEFINE G(n) == PowerOf(g, n)
      <4>1. \A n \in 0..(m + 1) : PowerOf(f, n) = G(n)
        BY <3>4
      <4> HIDE DEF G
      <4>2. g = [n \in 0..(m + 1) |-> G(n)]
        BY <4>1
      <4> QED  BY <4>2 DEF G
    <3>6. \E e : Is(e, m + 1)
      BY <3>5, Zenon
    <3> QED  BY <3>6
  <2> HIDE DEF S
  <2>3. \A m \in Nat : m \in S
    BY <2>1, <2>2, StepByStep
  <2> QED  BY <2>3 DEF S
<1> DEFINE F(m) == CHOOSE f : Is(f, m)
<1>3. \A m \in Nat : Is(F(m), m)
  <2> HIDE DEF Is
  <2> QED  BY <1>2, Zenon
<1> HIDE DEF F
<1>4. \A m \in Nat : \A n \in 0..m : F(m)[n] = PowerOf(F(m), n)
  <2> HIDE DEF Is
  <2> QED  BY <1>1, <1>3
<1>5. \A m \in Nat : \A n \in 0..m : F(m)[n] = F(n)[n]
  <2> SUFFICES ASSUME NEW m \in Nat, NEW l \in Nat
               PROVE  \A n \in Nat : n <= m /\ n <= l => F(m)[n] = F(l)[n]
    OBVIOUS
  <2> DEFINE S == {n \in Nat : n <= m /\ n <= l => F(m)[n] = F(l)[n]}
  <2>1. 0 \in S
    BY <1>4 DEF PowerOf
  <2>2. ASSUME NEW n \in Nat, n \in S PROVE n + 1 \in S
    <3> SUFFICES ASSUME n + 1 <= m, n + 1 <= l PROVE F(m)[n + 1] = F(l)[n + 1]
      OBVIOUS
    <3>1. F(m)[n] = F(l)[n]
      BY <2>2
    <3>2. F(m)[n + 1] = PowerOf(F(m), n + 1) /\ F(l)[n + 1] = PowerOf(F(l), n + 1)
      BY <1>4
    <3>3. (n + 1) - 1 = n /\ n + 1 # 0
      OBVIOUS
    <3> QED  BY <3>1, <3>2, <3>3 DEF PowerOf
  <2> HIDE DEF S
  <2>3. \A n \in Nat : n \in S
    BY <2>1, <2>2, StepByStep
  <2> QED  BY <2>3 DEF S
<1> DEFINE power == [e \in Nat |-> F(e)[e]]
<1>6. \A e \in Nat : F(e)[e] = PowerOf(power, e)
  <2> SUFFICES ASSUME NEW e \in Nat PROVE F(e)[e] = PowerOf(power, e)
    OBVIOUS
  <2>1. F(e)[e] = PowerOf(F(e), e)
    BY <1>4
  <2>2. e # 0 => F(e)[e - 1] = power[e - 1]
    BY <1>5
  <2> HIDE DEF power
  <2> QED  BY <2>1, <2>2 DEF PowerOf
<1>7. power = [e \in Nat |-> PowerOf(power, e)]
  <2> DEFINE G(e) == PowerOf(power, e)
  <2>1. \A e \in Nat : F(e)[e] = G(e)
    BY <1>6
  <2> HIDE DEF G
  <2>2. power = [e \in Nat |-> G(e)]
    BY <2>1
  <2> QED  BY <2>2 DEF G
<1>8. Power = CHOOSE f : f = [e \in Nat |-> PowerOf(f, e)]
  BY DEF Power, PowerOf
<1> HIDE DEF power
<1> QED  BY <1>7, <1>8, Zenon

LEMMA PowerNext == /\ Power[0] = 1
                   /\ \A e \in Nat : Power[e + 1] = 2 * Power[e]
<1> DEFINE G(e) == PowerOf(Power, e)
<1>1. Power = [e \in Nat |-> G(e)]
  BY PowerDefined
<1> HIDE DEF G
<1>2. \A e \in Nat : Power[e] = G(e)
  BY <1>1
<1> QED  BY <1>2 DEF G, PowerOf

LEMMA PowerExceeds == \A e \in Nat : Power[e] \in Nat /\ Power[e] > e
<1> DEFINE S == {e \in Nat : Power[e] \in Nat /\ Power[e] > e}
<1>1. 0 \in S
  BY PowerNext
<1>2. \A e \in Nat : e \in S => e + 1 \in S
  BY PowerNext
<1> HIDE DEF S
<1>3. \A e \in Nat : e \in S
  BY <1>1, <1>2, StepByStep
<1> QED  BY <1>3 DEF S

LEMMA PowerGrows == \A d, e \in Nat : d < e => 2 * Power[d] <= Power[e]
<1> SUFFICES ASSUME NEW d \in Nat PROVE \A e \in Nat : d < e => 2 * Power[d] <= Power[e]
  OBVIOUS
<1> DEFINE S == {e \in Nat : d < e => 2 * Power[d] <= Power[e]}
<1>1. 0 \in S
  OBVIOUS
<1>2. ASSUME NEW e \in Nat, e \in S PROVE e + 1 \in S
  <2>1. Power[e + 1] = 2 * Power[e] /\ Power[e] \in Nat /\ Power[d] \in Nat
    BY PowerNext, PowerExceeds
  <2>2. CASE d = e  BY <2>1, <2>2
  <2>3. CASE d # e  BY <1>2, <2>1, <2>3
  <2> QED  BY <2>2, <2>3
<1> HIDE DEF S
<1>3. \A e \in Nat : e \in S
  BY <1>1, <1>2, StepByStep
<1> QED  BY <1>3 DEF S

\* Every number above 1 is above one power of two and not above the next.
LEMMA BetweenPowers == \A n \in Nat : n > 1 => \E e \in 0..(n - 1) : Power[e] < n /\ n <= 2 * Power[e]
<1> DEFINE S == {n \in Nat : n > 1 => \E e \in 0..(n - 1) : Power[e] < n /\ n <= 2 * Power[e]}
<1>1. 0 \in S
  OBVIOUS
<1>2. ASSUME NEW n \in Nat, n \in S PROVE n + 1 \in S
  <2> SUFFICES ASSUME n + 1 > 1
               PROVE  \E e \in 0..n : Power[e] < n + 1 /\ n + 1 <= 2 * Power[e]
    OBVIOUS
  <2>1. CASE n = 1
    BY <2>1, PowerNext
  <2>2. CASE n > 1
    <3>1. PICK e \in 0..(n - 1) : Power[e] < n /\ n <= 2 * Power[e]
      BY <1>2, <2>2
    <3>2. Power[e] \in Nat
      BY PowerExceeds
    <3>3. CASE n + 1 <= 2 * Power[e]
      BY <3>1, <3>2, <3>3
    <3>4. CASE n + 1 > 2 * Power[e]
      <4>1. n = Power[e + 1] /\ e + 1 \in 0..n
        BY <3>1, <3>2, <3>4, PowerNext
      <4>2. Power[e + 1] < n + 1 /\ n + 1 <= 2 * Power[e + 1]
        BY <4>1, <2>2
      <4> QED  BY <4>1, <4>2
    <3> QED  BY <3>2, <3>3, <3>4
  <2> QED  BY <2>1, <2>2
<1> HIDE DEF S
<1>3. \A n \in Nat : n \in S
  BY <1>1, <1>2, StepByStep
<1> QED  BY <1>3 DEF S

LEMMA SplitIsPower ==
    ASSUME NEW n \in Nat, n > 1
    PROVE  /\ Split(n) \in 1..(n - 1) /\ n <= 2 * Split(n)
           /\ \E e \in Nat : Split(n) = Power[e]
<1> DEFINE P(k) == (\E e \in 0..n : k = Power[e]) /\ k < n /\ n <= 2 * k
<1>1. \E k \in 1..n : P(k)
  <2>1. PICK e \in 0..(n - 1) : Power[e] < n /\ n <= 2 * Power[e]
    BY BetweenPowers
  <2>2. Power[e] \in 1..n /\ e \in 0..n
    BY <2>1, PowerExceeds
  <2> QED  BY <2>1, <2>2
<1>2. Split(n) = CHOOSE k \in 1..n : P(k)
  BY DEF Split
<1> HIDE DEF P
<1>3. Split(n) \in 1..n /\ P(Split(n))
  BY <1>1, <1>2
<1> QED  BY <1>3 DEF P

\* There is one power of two to split at.
LEMMA PowerSplits ==
    ASSUME NEW n \in Nat, n > 1, NEW e \in Nat, Power[e] < n, n <= 2 * Power[e]
    PROVE  Split(n) = Power[e]
<1>1. PICK d \in Nat : Split(n) = Power[d]
  BY SplitIsPower
<1>2. Power[d] < n /\ n <= 2 * Power[d] /\ Power[d] \in Nat /\ Power[e] \in Nat
  BY <1>1, SplitIsPower, PowerExceeds
<1>3. ~(d < e) /\ ~(e < d)
  BY <1>2, PowerGrows
<1>4. d = e
  BY <1>3
<1> QED  BY <1>1, <1>4

LEMMA Smaller ==
    ASSUME NEW n \in Nat, n > 1
    PROVE  Split(n) \in 0..(n - 1) /\ n - Split(n) \in 0..(n - 1)
<1>1. PICK k \in 1..(n - 1) : k = Split(n)
  BY SplitIsPower
<1>2. k \in 0..(n - 1) /\ n - k \in 0..(n - 1)
  OBVIOUS
<1> QED  BY <1>1, <1>2

-----------------------------------------------------------------------------
(* The recursions of merkle.py: each is what its definition says. That there *)
(* is such a function is proved from ever longer beginnings of it.           *)

SubtreeOf(root, hashes, n) == [at \in Nat |->
    IF n = 0 THEN EmptyHash
    ELSE IF n = 1 THEN hashes[at]
    ELSE NodeHash(root[Split(n)][at], root[n - Split(n)][at + Split(n)])]

LEMMA SubtreeDefined ==
    ASSUME NEW hashes, Len(hashes) \in Nat
    PROVE  \A n \in 0..Len(hashes) : Subtree(hashes)[n] = SubtreeOf(Subtree(hashes), hashes, n)
<1> DEFINE Of(f, n) == SubtreeOf(f, hashes, n)
<1>1. ASSUME NEW f, NEW g, NEW n \in Nat, \A k \in 0..(n - 1) : f[k] = g[k]
      PROVE  Of(f, n) = Of(g, n)
  <2>1. CASE n <= 1  BY <2>1 DEF SubtreeOf
  <2>2. CASE n > 1
    <3>1. Split(n) \in 0..(n - 1) /\ n - Split(n) \in 0..(n - 1)
      BY <2>2, Smaller
    <3> QED  BY <1>1, <2>2, <3>1 DEF SubtreeOf
  <2> QED  BY <2>1, <2>2
<1>2. Subtree(hashes) = CHOOSE f : f = [n \in 0..Len(hashes) |-> Of(f, n)]
  BY DEF Subtree, SubtreeOf
<1> HIDE DEF Of
<1>3. \A m \in Nat : \E f : \A n \in 0..m : f[n] = Of(f, n)
  <2> DEFINE S == {m \in Nat : \E f : \A n \in 0..(m - 1) : f[n] = Of(f, n)}
  <2>1. 0 \in S
    OBVIOUS
  <2>2. ASSUME NEW m \in Nat, m \in S PROVE m + 1 \in S
    <3>1. PICK f : \A n \in 0..(m - 1) : f[n] = Of(f, n)
      BY <2>2
    <3> DEFINE g == [n \in 0..m |-> Of(f, n)]
    <3>2. \A n \in 0..m : g[n] = Of(f, n)
      OBVIOUS
    <3> HIDE DEF g
    <3>3. \A n \in 0..m : Of(f, n) = Of(g, n)
      BY <1>1, <3>1, <3>2
    <3>4. \A n \in 0..((m + 1) - 1) : g[n] = Of(g, n)
      BY <3>2, <3>3
    <3> QED  BY <3>4
  <2> HIDE DEF S
  <2>3. \A m \in Nat : m + 1 \in S
    BY <2>1, <2>2, StepByStep
  <2>4. ASSUME NEW m \in Nat PROVE \E f : \A n \in 0..m : f[n] = Of(f, n)
    <3>1. m + 1 \in S
      BY <2>3
    <3>2. PICK f : \A n \in 0..((m + 1) - 1) : f[n] = Of(f, n)
      BY <3>1 DEF S
    <3>3. (m + 1) - 1 = m
      OBVIOUS
    <3> QED  BY <3>2, <3>3
  <2> QED  BY <2>4
<1>4. \E f : f = [n \in 0..Len(hashes) |-> Of(f, n)]
  <2>1. PICK f : \A n \in 0..Len(hashes) : f[n] = Of(f, n)
    BY <1>3
  <2> DEFINE g == [n \in 0..Len(hashes) |-> Of(f, n)]
  <2>2. \A n \in 0..Len(hashes) : g[n] = f[n]
    BY <2>1
  <2> HIDE DEF g
  <2>3. \A n \in 0..Len(hashes) : Of(f, n) = Of(g, n)
    BY <1>1, <2>2
  <2>4. g = [n \in 0..Len(hashes) |-> Of(g, n)]
    BY <2>3 DEF g
  <2> QED  BY <2>4
<1>5. Subtree(hashes) = [n \in 0..Len(hashes) |-> Of(Subtree(hashes), n)]
  BY <1>2, <1>4, Zenon
<1>6. \A n \in 0..Len(hashes) : Subtree(hashes)[n] = Of(Subtree(hashes), n)
  BY <1>5
<1> QED  BY <1>6 DEF Of

PathsOf(path, hashes, n) ==
    LET root == Subtree(hashes)
    IN  [at \in Nat |-> [i \in 1..n |->
            LET k == Split(n)
            IN  IF n = 1 THEN << >>
                ELSE IF i <= k
                THEN Join(path[k][at][i], [hash |-> root[n - k][at + k], right |-> TRUE])
                ELSE Join(path[n - k][at + k][i - k], [hash |-> root[k][at], right |-> FALSE])]]

LEMMA PathsDefined ==
    ASSUME NEW hashes, Len(hashes) \in Nat
    PROVE  \A n \in 0..Len(hashes) : Paths(hashes)[n] = PathsOf(Paths(hashes), hashes, n)
<1> DEFINE Of(f, n) == PathsOf(f, hashes, n)
<1>1. ASSUME NEW f, NEW g, NEW n \in Nat, \A k \in 0..(n - 1) : f[k] = g[k]
      PROVE  Of(f, n) = Of(g, n)
  <2>1. CASE n <= 1  BY <2>1 DEF PathsOf
  <2>2. CASE n > 1
    <3>1. Split(n) \in 0..(n - 1) /\ n - Split(n) \in 0..(n - 1)
      BY <2>2, Smaller
    <3> QED  BY <1>1, <2>2, <3>1 DEF PathsOf
  <2> QED  BY <2>1, <2>2
<1>2. Paths(hashes) = CHOOSE f : f = [n \in 0..Len(hashes) |-> Of(f, n)]
  BY DEF Paths, PathsOf
<1> HIDE DEF Of
<1>3. \A m \in Nat : \E f : \A n \in 0..m : f[n] = Of(f, n)
  <2> DEFINE S == {m \in Nat : \E f : \A n \in 0..(m - 1) : f[n] = Of(f, n)}
  <2>1. 0 \in S
    OBVIOUS
  <2>2. ASSUME NEW m \in Nat, m \in S PROVE m + 1 \in S
    <3>1. PICK f : \A n \in 0..(m - 1) : f[n] = Of(f, n)
      BY <2>2
    <3> DEFINE g == [n \in 0..m |-> Of(f, n)]
    <3>2. \A n \in 0..m : g[n] = Of(f, n)
      OBVIOUS
    <3> HIDE DEF g
    <3>3. \A n \in 0..m : Of(f, n) = Of(g, n)
      BY <1>1, <3>1, <3>2
    <3>4. \A n \in 0..((m + 1) - 1) : g[n] = Of(g, n)
      BY <3>2, <3>3
    <3> QED  BY <3>4
  <2> HIDE DEF S
  <2>3. \A m \in Nat : m + 1 \in S
    BY <2>1, <2>2, StepByStep
  <2>4. ASSUME NEW m \in Nat PROVE \E f : \A n \in 0..m : f[n] = Of(f, n)
    <3>1. m + 1 \in S
      BY <2>3
    <3>2. PICK f : \A n \in 0..((m + 1) - 1) : f[n] = Of(f, n)
      BY <3>1 DEF S
    <3>3. (m + 1) - 1 = m
      OBVIOUS
    <3> QED  BY <3>2, <3>3
  <2> QED  BY <2>4
<1>4. \E f : f = [n \in 0..Len(hashes) |-> Of(f, n)]
  <2>1. PICK f : \A n \in 0..Len(hashes) : f[n] = Of(f, n)
    BY <1>3
  <2> DEFINE g == [n \in 0..Len(hashes) |-> Of(f, n)]
  <2>2. \A n \in 0..Len(hashes) : g[n] = f[n]
    BY <2>1
  <2> HIDE DEF g
  <2>3. \A n \in 0..Len(hashes) : Of(f, n) = Of(g, n)
    BY <1>1, <2>2
  <2>4. g = [n \in 0..Len(hashes) |-> Of(g, n)]
    BY <2>3 DEF g
  <2> QED  BY <2>4
<1>5. Paths(hashes) = [n \in 0..Len(hashes) |-> Of(Paths(hashes), n)]
  BY <1>2, <1>4, Zenon
<1>6. \A n \in 0..Len(hashes) : Paths(hashes)[n] = Of(Paths(hashes), n)
  BY <1>5
<1> QED  BY <1>6 DEF Of

ClimbOf(up, proof, n) ==
    IF n = 0 THEN proof.leaf_hash
    ELSE LET sibling == proof.audit_path[n]
         IN  IF sibling.right THEN NodeHash(up[n - 1], sibling.hash)
             ELSE NodeHash(sibling.hash, up[n - 1])

LEMMA ClimbDefined ==
    ASSUME NEW proof, Len(proof.audit_path) \in Nat
    PROVE  \A n \in 0..Len(proof.audit_path) : Climb(proof)[n] = ClimbOf(Climb(proof), proof, n)
<1> DEFINE Of(f, n) == ClimbOf(f, proof, n)
<1>1. ASSUME NEW f, NEW g, NEW n \in Nat, \A k \in 0..(n - 1) : f[k] = g[k]
      PROVE  Of(f, n) = Of(g, n)
  BY <1>1 DEF ClimbOf
<1>2. Climb(proof) = CHOOSE f : f = [n \in 0..Len(proof.audit_path) |-> Of(f, n)]
  BY DEF Climb, ClimbOf
<1> HIDE DEF Of
<1>3. \A m \in Nat : \E f : \A n \in 0..m : f[n] = Of(f, n)
  <2> DEFINE S == {m \in Nat : \E f : \A n \in 0..(m - 1) : f[n] = Of(f, n)}
  <2>1. 0 \in S
    OBVIOUS
  <2>2. ASSUME NEW m \in Nat, m \in S PROVE m + 1 \in S
    <3>1. PICK f : \A n \in 0..(m - 1) : f[n] = Of(f, n)
      BY <2>2
    <3> DEFINE g == [n \in 0..m |-> Of(f, n)]
    <3>2. \A n \in 0..m : g[n] = Of(f, n)
      OBVIOUS
    <3> HIDE DEF g
    <3>3. \A n \in 0..m : Of(f, n) = Of(g, n)
      BY <1>1, <3>1, <3>2
    <3>4. \A n \in 0..((m + 1) - 1) : g[n] = Of(g, n)
      BY <3>2, <3>3
    <3> QED  BY <3>4
  <2> HIDE DEF S
  <2>3. \A m \in Nat : m + 1 \in S
    BY <2>1, <2>2, StepByStep
  <2>4. ASSUME NEW m \in Nat PROVE \E f : \A n \in 0..m : f[n] = Of(f, n)
    <3>1. m + 1 \in S
      BY <2>3
    <3>2. PICK f : \A n \in 0..((m + 1) - 1) : f[n] = Of(f, n)
      BY <3>1 DEF S
    <3>3. (m + 1) - 1 = m
      OBVIOUS
    <3> QED  BY <3>2, <3>3
  <2> QED  BY <2>4
<1>4. \E f : f = [n \in 0..Len(proof.audit_path) |-> Of(f, n)]
  <2>1. PICK f : \A n \in 0..Len(proof.audit_path) : f[n] = Of(f, n)
    BY <1>3
  <2> DEFINE g == [n \in 0..Len(proof.audit_path) |-> Of(f, n)]
  <2>2. \A n \in 0..Len(proof.audit_path) : g[n] = f[n]
    BY <2>1
  <2> HIDE DEF g
  <2>3. \A n \in 0..Len(proof.audit_path) : Of(f, n) = Of(g, n)
    BY <1>1, <2>2
  <2>4. g = [n \in 0..Len(proof.audit_path) |-> Of(g, n)]
    BY <2>3 DEF g
  <2> QED  BY <2>4
<1>5. Climb(proof) = [n \in 0..Len(proof.audit_path) |-> Of(Climb(proof), n)]
  BY <1>2, <1>4, Zenon
<1>6. \A n \in 0..Len(proof.audit_path) : Climb(proof)[n] = Of(Climb(proof), n)
  BY <1>5
<1> QED  BY <1>6 DEF Of

LevelsOf(level, hashes, n) == IF n = 0 THEN hashes ELSE Halved(level[n - 1])

LEMMA LevelsDefined ==
    ASSUME NEW hashes, Len(hashes) \in Nat
    PROVE  \A n \in 0..Len(hashes) : Levels(hashes)[n] = LevelsOf(Levels(hashes), hashes, n)
<1> DEFINE Of(f, n) == LevelsOf(f, hashes, n)
<1>1. ASSUME NEW f, NEW g, NEW n \in Nat, \A k \in 0..(n - 1) : f[k] = g[k]
      PROVE  Of(f, n) = Of(g, n)
  BY <1>1 DEF LevelsOf
<1>2. Levels(hashes) = CHOOSE f : f = [n \in 0..Len(hashes) |-> Of(f, n)]
  BY DEF Levels, LevelsOf
<1> HIDE DEF Of
<1>3. \A m \in Nat : \E f : \A n \in 0..m : f[n] = Of(f, n)
  <2> DEFINE S == {m \in Nat : \E f : \A n \in 0..(m - 1) : f[n] = Of(f, n)}
  <2>1. 0 \in S
    OBVIOUS
  <2>2. ASSUME NEW m \in Nat, m \in S PROVE m + 1 \in S
    <3>1. PICK f : \A n \in 0..(m - 1) : f[n] = Of(f, n)
      BY <2>2
    <3> DEFINE g == [n \in 0..m |-> Of(f, n)]
    <3>2. \A n \in 0..m : g[n] = Of(f, n)
      OBVIOUS
    <3> HIDE DEF g
    <3>3. \A n \in 0..m : Of(f, n) = Of(g, n)
      BY <1>1, <3>1, <3>2
    <3>4. \A n \in 0..((m + 1) - 1) : g[n] = Of(g, n)
      BY <3>2, <3>3
    <3> QED  BY <3>4
  <2> HIDE DEF S
  <2>3. \A m \in Nat : m + 1 \in S
    BY <2>1, <2>2, StepByStep
  <2>4. ASSUME NEW m \in Nat PROVE \E f : \A n \in 0..m : f[n] = Of(f, n)
    <3>1. m + 1 \in S
      BY <2>3
    <3>2. PICK f : \A n \in 0..((m + 1) - 1) : f[n] = Of(f, n)
      BY <3>1 DEF S
    <3>3. (m + 1) - 1 = m
      OBVIOUS
    <3> QED  BY <3>2, <3>3
  <2> QED  BY <2>4
<1>4. \E f : f = [n \in 0..Len(hashes) |-> Of(f, n)]
  <2>1. PICK f : \A n \in 0..Len(hashes) : f[n] = Of(f, n)
    BY <1>3
  <2> DEFINE g == [n \in 0..Len(hashes) |-> Of(f, n)]
  <2>2. \A n \in 0..Len(hashes) : g[n] = f[n]
    BY <2>1
  <2> HIDE DEF g
  <2>3. \A n \in 0..Len(hashes) : Of(f, n) = Of(g, n)
    BY <1>1, <2>2
  <2>4. g = [n \in 0..Len(hashes) |-> Of(g, n)]
    BY <2>3 DEF g
  <2> QED  BY <2>4
<1>5. Levels(hashes) = [n \in 0..Len(hashes) |-> Of(Levels(hashes), n)]
  BY <1>2, <1>4, Zenon
<1>6. \A n \in 0..Len(hashes) : Levels(hashes)[n] = Of(Levels(hashes), n)
  BY <1>5
<1> QED  BY <1>6 DEF Of

-----------------------------------------------------------------------------
(* The recursions of merkle.rs. Its trees are split where those of merkle.py *)
(* are.                                                                      *)

LEMMA SamePower == Irf!Power = Power
BY DEF Irf!Power, Power

LEMMA SameSplit == ASSUME NEW n \in Nat, n > 1 PROVE Irf!split_point(n) = Split(n)
<1> DEFINE P(b) == Power[b - 1] <= n - 1 /\ n - 1 < Power[b]
<1>1. \E b \in 1..n : P(b)
  <2>1. PICK e \in 0..(n - 1) : Power[e] < n /\ n <= 2 * Power[e]
    BY BetweenPowers
  <2>2. Power[e + 1] = 2 * Power[e] /\ Power[e] \in Nat /\ (e + 1) - 1 = e
    BY PowerNext, PowerExceeds
  <2>3. e + 1 \in 1..n /\ P(e + 1)
    BY <2>1, <2>2
  <2> QED  BY <2>3
<1>2. ~(n < 2)
  OBVIOUS
<1>3. Irf!split_point(n) = Power[(CHOOSE b \in 1..n : P(b)) - 1]
  BY <1>2, SamePower DEF Irf!split_point
<1> HIDE DEF P
<1>4. PICK b \in 1..n : P(b) /\ Irf!split_point(n) = Power[b - 1]
  BY <1>1, <1>3
<1>5. b - 1 \in Nat /\ (b - 1) + 1 = b
  OBVIOUS
<1>6. Power[b] = 2 * Power[b - 1] /\ Power[b - 1] \in Nat
  BY <1>5, PowerNext, PowerExceeds
<1>7. Power[b - 1] < n /\ n <= 2 * Power[b - 1]
  BY <1>4, <1>6 DEF P
<1> QED  BY <1>4, <1>5, <1>7, PowerSplits

LEMMA SplitPoint == ASSUME NEW n \in Nat, n > 1
                    PROVE  /\ Irf!split_point(n) \in 1..(n - 1)
                           /\ n - Irf!split_point(n) \in 1..(n - 1)
BY SameSplit, SplitIsPower

SliceRootOf(root, leaves, n) == [at \in Nat |->
    IF n = 1 THEN leaves[at]
    ELSE LET k == Irf!split_point(n)
         IN  Irf!node_hash(root[k][at], root[n - k][at + k])]

LEMMA SliceRootDefined ==
    ASSUME NEW leaves, Len(leaves) \in Nat
    PROVE  \A n \in 1..Len(leaves) : Irf!SliceRoot(leaves)[n] = SliceRootOf(Irf!SliceRoot(leaves), leaves, n)
<1> DEFINE Of(f, n) == SliceRootOf(f, leaves, n)
<1>1. ASSUME NEW f, NEW g, NEW n \in Nat \ {0}, \A k \in 1..(n - 1) : f[k] = g[k]
      PROVE  Of(f, n) = Of(g, n)
  <2>1. CASE n = 1  BY <2>1 DEF SliceRootOf
  <2>2. CASE n > 1
    <3>1. Irf!split_point(n) \in 1..(n - 1) /\ n - Irf!split_point(n) \in 1..(n - 1)
      BY <2>2, SplitPoint
    <3> QED  BY <1>1, <2>2, <3>1 DEF SliceRootOf
  <2> QED  BY <2>1, <2>2
<1>2. Irf!SliceRoot(leaves) = CHOOSE f : f = [n \in 1..Len(leaves) |-> Of(f, n)]
  BY DEF Irf!SliceRoot, SliceRootOf
<1> HIDE DEF Of
<1>3. \A m \in Nat : \E f : \A n \in 1..m : f[n] = Of(f, n)
  <2> DEFINE S == {m \in Nat : \E f : \A n \in 1..(m - 1) : f[n] = Of(f, n)}
  <2>1. 0 \in S
    OBVIOUS
  <2>2. ASSUME NEW m \in Nat, m \in S PROVE m + 1 \in S
    <3>1. PICK f : \A n \in 1..(m - 1) : f[n] = Of(f, n)
      BY <2>2
    <3> DEFINE g == [n \in 1..m |-> Of(f, n)]
    <3>2. \A n \in 1..m : g[n] = Of(f, n)
      OBVIOUS
    <3> HIDE DEF g
    <3>3. \A n \in 1..m : Of(f, n) = Of(g, n)
      BY <1>1, <3>1, <3>2
    <3>4. \A n \in 1..((m + 1) - 1) : g[n] = Of(g, n)
      BY <3>2, <3>3
    <3> QED  BY <3>4
  <2> HIDE DEF S
  <2>3. \A m \in Nat : m + 1 \in S
    BY <2>1, <2>2, StepByStep
  <2>4. ASSUME NEW m \in Nat PROVE \E f : \A n \in 1..m : f[n] = Of(f, n)
    <3>1. m + 1 \in S
      BY <2>3
    <3>2. PICK f : \A n \in 1..((m + 1) - 1) : f[n] = Of(f, n)
      BY <3>1 DEF S
    <3>3. (m + 1) - 1 = m
      OBVIOUS
    <3> QED  BY <3>2, <3>3
  <2> QED  BY <2>4
<1>4. \E f : f = [n \in 1..Len(leaves) |-> Of(f, n)]
  <2>1. PICK f : \A n \in 1..Len(leaves) : f[n] = Of(f, n)
    BY <1>3
  <2> DEFINE g == [n \in 1..Len(leaves) |-> Of(f, n)]
  <2>2. \A n \in 1..Len(leaves) : g[n] = f[n]
    BY <2>1
  <2> HIDE DEF g
  <2>3. \A n \in 1..Len(leaves) : Of(f, n) = Of(g, n)
    BY <1>1, <2>2
  <2>4. g = [n \in 1..Len(leaves) |-> Of(g, n)]
    BY <2>3 DEF g
  <2> QED  BY <2>4
<1>5. Irf!SliceRoot(leaves) = [n \in 1..Len(leaves) |-> Of(Irf!SliceRoot(leaves), n)]
  BY <1>2, <1>4, Zenon
<1>6. \A n \in 1..Len(leaves) : Irf!SliceRoot(leaves)[n] = Of(Irf!SliceRoot(leaves), n)
  BY <1>5
<1> QED  BY <1>6 DEF Of

DescentsOf(descend, sz) == [idx \in 0..(sz - 1) |->
    LET k == Irf!split_point(sz)
    IN  IF sz = 1 THEN << >>
        ELSE IF idx < k THEN <<TRUE>> \o descend[k][idx]
        ELSE <<FALSE>> \o descend[sz - k][idx - k]]

LEMMA DescentsDefined ==
    ASSUME NEW sizes \in Nat
    PROVE  \A n \in 1..sizes : Irf!Descents(sizes)[n] = DescentsOf(Irf!Descents(sizes), n)
<1> DEFINE Of(f, n) == DescentsOf(f, n)
<1>1. ASSUME NEW f, NEW g, NEW n \in Nat \ {0}, \A k \in 1..(n - 1) : f[k] = g[k]
      PROVE  Of(f, n) = Of(g, n)
  <2>1. CASE n = 1  BY <2>1 DEF DescentsOf
  <2>2. CASE n > 1
    <3>1. Irf!split_point(n) \in 1..(n - 1) /\ n - Irf!split_point(n) \in 1..(n - 1)
      BY <2>2, SplitPoint
    <3> QED  BY <1>1, <2>2, <3>1 DEF DescentsOf
  <2> QED  BY <2>1, <2>2
<1>2. Irf!Descents(sizes) = CHOOSE f : f = [n \in 1..sizes |-> Of(f, n)]
  BY DEF Irf!Descents, DescentsOf
<1> HIDE DEF Of
<1>3. \A m \in Nat : \E f : \A n \in 1..m : f[n] = Of(f, n)
  <2> DEFINE S == {m \in Nat : \E f : \A n \in 1..(m - 1) : f[n] = Of(f, n)}
  <2>1. 0 \in S
    OBVIOUS
  <2>2. ASSUME NEW m \in Nat, m \in S PROVE m + 1 \in S
    <3>1. PICK f : \A n \in 1..(m - 1) : f[n] = Of(f, n)
      BY <2>2
    <3> DEFINE g == [n \in 1..m |-> Of(f, n)]
    <3>2. \A n \in 1..m : g[n] = Of(f, n)
      OBVIOUS
    <3> HIDE DEF g
    <3>3. \A n \in 1..m : Of(f, n) = Of(g, n)
      BY <1>1, <3>1, <3>2
    <3>4. \A n \in 1..((m + 1) - 1) : g[n] = Of(g, n)
      BY <3>2, <3>3
    <3> QED  BY <3>4
  <2> HIDE DEF S
  <2>3. \A m \in Nat : m + 1 \in S
    BY <2>1, <2>2, StepByStep
  <2>4. ASSUME NEW m \in Nat PROVE \E f : \A n \in 1..m : f[n] = Of(f, n)
    <3>1. m + 1 \in S
      BY <2>3
    <3>2. PICK f : \A n \in 1..((m + 1) - 1) : f[n] = Of(f, n)
      BY <3>1 DEF S
    <3>3. (m + 1) - 1 = m
      OBVIOUS
    <3> QED  BY <3>2, <3>3
  <2> QED  BY <2>4
<1>4. \E f : f = [n \in 1..sizes |-> Of(f, n)]
  <2>1. PICK f : \A n \in 1..sizes : f[n] = Of(f, n)
    BY <1>3
  <2> DEFINE g == [n \in 1..sizes |-> Of(f, n)]
  <2>2. \A n \in 1..sizes : g[n] = f[n]
    BY <2>1
  <2> HIDE DEF g
  <2>3. \A n \in 1..sizes : Of(f, n) = Of(g, n)
    BY <1>1, <2>2
  <2>4. g = [n \in 1..sizes |-> Of(g, n)]
    BY <2>3 DEF g
  <2> QED  BY <2>4
<1>5. Irf!Descents(sizes) = [n \in 1..sizes |-> Of(Irf!Descents(sizes), n)]
  BY <1>2, <1>4, Zenon
<1>6. \A n \in 1..sizes : Irf!Descents(sizes)[n] = Of(Irf!Descents(sizes), n)
  BY <1>5
<1> QED  BY <1>6 DEF Of

AuditPathsOf(path, leaves, n) ==
    LET top == Irf!SliceRoot(leaves)
    IN  [at \in Nat |-> [i \in 0..(n - 1) |->
            LET k == Irf!split_point(n)
            IN  IF n = 1 THEN << >>
                ELSE IF i < k THEN Append(path[k][at][i], top[n - k][at + k])
                ELSE Append(path[n - k][at + k][i - k], top[k][at])]]

LEMMA AuditPathsDefined ==
    ASSUME NEW leaves, Len(leaves) \in Nat
    PROVE  \A n \in 1..Len(leaves) : Irf!AuditPaths(leaves)[n] = AuditPathsOf(Irf!AuditPaths(leaves), leaves, n)
<1> DEFINE Of(f, n) == AuditPathsOf(f, leaves, n)
<1>1. ASSUME NEW f, NEW g, NEW n \in Nat \ {0}, \A k \in 1..(n - 1) : f[k] = g[k]
      PROVE  Of(f, n) = Of(g, n)
  <2>1. CASE n = 1  BY <2>1 DEF AuditPathsOf
  <2>2. CASE n > 1
    <3>1. Irf!split_point(n) \in 1..(n - 1) /\ n - Irf!split_point(n) \in 1..(n - 1)
      BY <2>2, SplitPoint
    <3> QED  BY <1>1, <2>2, <3>1 DEF AuditPathsOf
  <2> QED  BY <2>1, <2>2
<1>2. Irf!AuditPaths(leaves) = CHOOSE f : f = [n \in 1..Len(leaves) |-> Of(f, n)]
  BY DEF Irf!AuditPaths, AuditPathsOf
<1> HIDE DEF Of
<1>3. \A m \in Nat : \E f : \A n \in 1..m : f[n] = Of(f, n)
  <2> DEFINE S == {m \in Nat : \E f : \A n \in 1..(m - 1) : f[n] = Of(f, n)}
  <2>1. 0 \in S
    OBVIOUS
  <2>2. ASSUME NEW m \in Nat, m \in S PROVE m + 1 \in S
    <3>1. PICK f : \A n \in 1..(m - 1) : f[n] = Of(f, n)
      BY <2>2
    <3> DEFINE g == [n \in 1..m |-> Of(f, n)]
    <3>2. \A n \in 1..m : g[n] = Of(f, n)
      OBVIOUS
    <3> HIDE DEF g
    <3>3. \A n \in 1..m : Of(f, n) = Of(g, n)
      BY <1>1, <3>1, <3>2
    <3>4. \A n \in 1..((m + 1) - 1) : g[n] = Of(g, n)
      BY <3>2, <3>3
    <3> QED  BY <3>4
  <2> HIDE DEF S
  <2>3. \A m \in Nat : m + 1 \in S
    BY <2>1, <2>2, StepByStep
  <2>4. ASSUME NEW m \in Nat PROVE \E f : \A n \in 1..m : f[n] = Of(f, n)
    <3>1. m + 1 \in S
      BY <2>3
    <3>2. PICK f : \A n \in 1..((m + 1) - 1) : f[n] = Of(f, n)
      BY <3>1 DEF S
    <3>3. (m + 1) - 1 = m
      OBVIOUS
    <3> QED  BY <3>2, <3>3
  <2> QED  BY <2>4
<1>4. \E f : f = [n \in 1..Len(leaves) |-> Of(f, n)]
  <2>1. PICK f : \A n \in 1..Len(leaves) : f[n] = Of(f, n)
    BY <1>3
  <2> DEFINE g == [n \in 1..Len(leaves) |-> Of(f, n)]
  <2>2. \A n \in 1..Len(leaves) : g[n] = f[n]
    BY <2>1
  <2> HIDE DEF g
  <2>3. \A n \in 1..Len(leaves) : Of(f, n) = Of(g, n)
    BY <1>1, <2>2
  <2>4. g = [n \in 1..Len(leaves) |-> Of(g, n)]
    BY <2>3 DEF g
  <2> QED  BY <2>4
<1>5. Irf!AuditPaths(leaves) = [n \in 1..Len(leaves) |-> Of(Irf!AuditPaths(leaves), n)]
  BY <1>2, <1>4, Zenon
<1>6. \A n \in 1..Len(leaves) : Irf!AuditPaths(leaves)[n] = Of(Irf!AuditPaths(leaves), n)
  BY <1>5
<1> QED  BY <1>6 DEF Of

ReplayOf(up, leaf, decisions, proof, step) ==
    IF step = 0 THEN leaf
    ELSE IF decisions[Len(decisions) - step + 1] THEN Irf!node_hash(up[step - 1], proof[step])
    ELSE Irf!node_hash(proof[step], up[step - 1])

LEMMA ReplayDefined ==
    ASSUME NEW leaf, NEW decisions, NEW proof, Len(proof) \in Nat
    PROVE  \A n \in 0..Len(proof) : Irf!Replay(leaf, decisions, proof)[n] = ReplayOf(Irf!Replay(leaf, decisions, proof), leaf, decisions, proof, n)
<1> DEFINE Of(f, n) == ReplayOf(f, leaf, decisions, proof, n)
<1>1. ASSUME NEW f, NEW g, NEW n \in Nat, \A k \in 0..(n - 1) : f[k] = g[k]
      PROVE  Of(f, n) = Of(g, n)
  BY <1>1 DEF ReplayOf
<1>2. Irf!Replay(leaf, decisions, proof) = CHOOSE f : f = [n \in 0..Len(proof) |-> Of(f, n)]
  BY DEF Irf!Replay, ReplayOf
<1> HIDE DEF Of
<1>3. \A m \in Nat : \E f : \A n \in 0..m : f[n] = Of(f, n)
  <2> DEFINE S == {m \in Nat : \E f : \A n \in 0..(m - 1) : f[n] = Of(f, n)}
  <2>1. 0 \in S
    OBVIOUS
  <2>2. ASSUME NEW m \in Nat, m \in S PROVE m + 1 \in S
    <3>1. PICK f : \A n \in 0..(m - 1) : f[n] = Of(f, n)
      BY <2>2
    <3> DEFINE g == [n \in 0..m |-> Of(f, n)]
    <3>2. \A n \in 0..m : g[n] = Of(f, n)
      OBVIOUS
    <3> HIDE DEF g
    <3>3. \A n \in 0..m : Of(f, n) = Of(g, n)
      BY <1>1, <3>1, <3>2
    <3>4. \A n \in 0..((m + 1) - 1) : g[n] = Of(g, n)
      BY <3>2, <3>3
    <3> QED  BY <3>4
  <2> HIDE DEF S
  <2>3. \A m \in Nat : m + 1 \in S
    BY <2>1, <2>2, StepByStep
  <2>4. ASSUME NEW m \in Nat PROVE \E f : \A n \in 0..m : f[n] = Of(f, n)
    <3>1. m + 1 \in S
      BY <2>3
    <3>2. PICK f : \A n \in 0..((m + 1) - 1) : f[n] = Of(f, n)
      BY <3>1 DEF S
    <3>3. (m + 1) - 1 = m
      OBVIOUS
    <3> QED  BY <3>2, <3>3
  <2> QED  BY <2>4
<1>4. \E f : f = [n \in 0..Len(proof) |-> Of(f, n)]
  <2>1. PICK f : \A n \in 0..Len(proof) : f[n] = Of(f, n)
    BY <1>3
  <2> DEFINE g == [n \in 0..Len(proof) |-> Of(f, n)]
  <2>2. \A n \in 0..Len(proof) : g[n] = f[n]
    BY <2>1
  <2> HIDE DEF g
  <2>3. \A n \in 0..Len(proof) : Of(f, n) = Of(g, n)
    BY <1>1, <2>2
  <2>4. g = [n \in 0..Len(proof) |-> Of(g, n)]
    BY <2>3 DEF g
  <2> QED  BY <2>4
<1>5. Irf!Replay(leaf, decisions, proof) = [n \in 0..Len(proof) |-> Of(Irf!Replay(leaf, decisions, proof), n)]
  BY <1>2, <1>4, Zenon
<1>6. \A n \in 0..Len(proof) : Irf!Replay(leaf, decisions, proof)[n] = Of(Irf!Replay(leaf, decisions, proof), n)
  BY <1>5
<1> QED  BY <1>6 DEF Of

SubproofsOf(sub, leaves, n) ==
    LET top == Irf!SliceRoot(leaves)
    IN  [at \in Nat |-> [m \in 1..n |-> [is_full \in BOOLEAN |->
            LET k == Irf!split_point(n)
            IN  IF m = n THEN IF is_full THEN << >> ELSE <<top[n][at]>>
                ELSE IF m <= k THEN Append(sub[k][at][m][is_full], top[n - k][at + k])
                ELSE Append(sub[n - k][at + k][m - k][Irf!Inner(is_full)], top[k][at])]]]

LEMMA SubproofsDefined ==
    ASSUME NEW leaves, Len(leaves) \in Nat
    PROVE  \A n \in 1..Len(leaves) : Irf!Subproofs(leaves)[n] = SubproofsOf(Irf!Subproofs(leaves), leaves, n)
<1> DEFINE Of(f, n) == SubproofsOf(f, leaves, n)
<1>1. ASSUME NEW f, NEW g, NEW n \in Nat \ {0}, \A k \in 1..(n - 1) : f[k] = g[k]
      PROVE  Of(f, n) = Of(g, n)
  <2>1. CASE n = 1  BY <2>1 DEF SubproofsOf
  <2>2. CASE n > 1
    <3>1. Irf!split_point(n) \in 1..(n - 1) /\ n - Irf!split_point(n) \in 1..(n - 1)
      BY <2>2, SplitPoint
    <3> QED  BY <1>1, <2>2, <3>1 DEF SubproofsOf
  <2> QED  BY <2>1, <2>2
<1>2. Irf!Subproofs(leaves) = CHOOSE f : f = [n \in 1..Len(leaves) |-> Of(f, n)]
  BY DEF Irf!Subproofs, SubproofsOf
<1> HIDE DEF Of
<1>3. \A m \in Nat : \E f : \A n \in 1..m : f[n] = Of(f, n)
  <2> DEFINE S == {m \in Nat : \E f : \A n \in 1..(m - 1) : f[n] = Of(f, n)}
  <2>1. 0 \in S
    OBVIOUS
  <2>2. ASSUME NEW m \in Nat, m \in S PROVE m + 1 \in S
    <3>1. PICK f : \A n \in 1..(m - 1) : f[n] = Of(f, n)
      BY <2>2
    <3> DEFINE g == [n \in 1..m |-> Of(f, n)]
    <3>2. \A n \in 1..m : g[n] = Of(f, n)
      OBVIOUS
    <3> HIDE DEF g
    <3>3. \A n \in 1..m : Of(f, n) = Of(g, n)
      BY <1>1, <3>1, <3>2
    <3>4. \A n \in 1..((m + 1) - 1) : g[n] = Of(g, n)
      BY <3>2, <3>3
    <3> QED  BY <3>4
  <2> HIDE DEF S
  <2>3. \A m \in Nat : m + 1 \in S
    BY <2>1, <2>2, StepByStep
  <2>4. ASSUME NEW m \in Nat PROVE \E f : \A n \in 1..m : f[n] = Of(f, n)
    <3>1. m + 1 \in S
      BY <2>3
    <3>2. PICK f : \A n \in 1..((m + 1) - 1) : f[n] = Of(f, n)
      BY <3>1 DEF S
    <3>3. (m + 1) - 1 = m
      OBVIOUS
    <3> QED  BY <3>2, <3>3
  <2> QED  BY <2>4
<1>4. \E f : f = [n \in 1..Len(leaves) |-> Of(f, n)]
  <2>1. PICK f : \A n \in 1..Len(leaves) : f[n] = Of(f, n)
    BY <1>3
  <2> DEFINE g == [n \in 1..Len(leaves) |-> Of(f, n)]
  <2>2. \A n \in 1..Len(leaves) : g[n] = f[n]
    BY <2>1
  <2> HIDE DEF g
  <2>3. \A n \in 1..Len(leaves) : Of(f, n) = Of(g, n)
    BY <1>1, <2>2
  <2>4. g = [n \in 1..Len(leaves) |-> Of(g, n)]
    BY <2>3 DEF g
  <2> QED  BY <2>4
<1>5. Irf!Subproofs(leaves) = [n \in 1..Len(leaves) |-> Of(Irf!Subproofs(leaves), n)]
  BY <1>2, <1>4, Zenon
<1>6. \A n \in 1..Len(leaves) : Irf!Subproofs(leaves)[n] = Of(Irf!Subproofs(leaves), n)
  BY <1>5
<1> QED  BY <1>6 DEF Of

Known(proof, root_m, used, is_full) ==
    IF is_full
    THEN IF used = 0 THEN Irf!Pair(root_m, root_m) ELSE Irf!Refused("BadProofLength")
    ELSE IF used = 1 THEN Irf!Pair(proof[1], proof[1]) ELSE Irf!Refused("BadProofLength")

ChecksOf(check, proof, root_m, n) == [m \in 1..n |-> [used \in Nat |-> [is_full \in BOOLEAN |->
    IF m = n THEN Known(proof, root_m, used, is_full)
    ELSE IF used = 0 THEN Irf!Refused("BadProofLength")
    ELSE LET k       == Irf!split_point(n)
             sibling == proof[used]
             left    == check[k][m][used - 1][is_full]
             right   == check[n - k][m - k][used - 1][Irf!Inner(is_full)]
         IN  IF m <= k
             THEN IF left.ok THEN Irf!Pair(left.fr, Irf!node_hash(left.sr, sibling)) ELSE left
             ELSE IF right.ok
             THEN Irf!Pair(Irf!node_hash(sibling, right.fr), Irf!node_hash(sibling, right.sr))
             ELSE right]]]

LEMMA ChecksDefined ==
    ASSUME NEW sizes \in Nat, NEW proof, NEW root_m
    PROVE  \A n \in 1..sizes : Irf!Checks(sizes, proof, root_m)[n] = ChecksOf(Irf!Checks(sizes, proof, root_m), proof, root_m, n)
<1> DEFINE Of(f, n) == ChecksOf(f, proof, root_m, n)
<1>1. ASSUME NEW f, NEW g, NEW n \in Nat \ {0}, \A k \in 1..(n - 1) : f[k] = g[k]
      PROVE  Of(f, n) = Of(g, n)
  <2>1. CASE n = 1  BY <2>1 DEF ChecksOf
  <2>2. CASE n > 1
    <3>1. Irf!split_point(n) \in 1..(n - 1) /\ n - Irf!split_point(n) \in 1..(n - 1)
      BY <2>2, SplitPoint
    <3> DEFINE k == Irf!split_point(n)
    <3>2. f[k] = g[k] /\ f[n - k] = g[n - k]
      BY <1>1, <3>1
    <3> QED  BY <3>2 DEF ChecksOf
  <2> QED  BY <2>1, <2>2
<1>2. Irf!Checks(sizes, proof, root_m) = CHOOSE f : f = [n \in 1..sizes |-> Of(f, n)]
  BY DEF Irf!Checks, ChecksOf, Known
<1> HIDE DEF Of
<1>3. \A m \in Nat : \E f : \A n \in 1..m : f[n] = Of(f, n)
  <2> DEFINE S == {m \in Nat : \E f : \A n \in 1..(m - 1) : f[n] = Of(f, n)}
  <2>1. 0 \in S
    OBVIOUS
  <2>2. ASSUME NEW m \in Nat, m \in S PROVE m + 1 \in S
    <3>1. PICK f : \A n \in 1..(m - 1) : f[n] = Of(f, n)
      BY <2>2
    <3> DEFINE g == [n \in 1..m |-> Of(f, n)]
    <3>2. \A n \in 1..m : g[n] = Of(f, n)
      OBVIOUS
    <3> HIDE DEF g
    <3>3. \A n \in 1..m : Of(f, n) = Of(g, n)
      BY <1>1, <3>1, <3>2
    <3>4. \A n \in 1..((m + 1) - 1) : g[n] = Of(g, n)
      BY <3>2, <3>3
    <3> QED  BY <3>4
  <2> HIDE DEF S
  <2>3. \A m \in Nat : m + 1 \in S
    BY <2>1, <2>2, StepByStep
  <2>4. ASSUME NEW m \in Nat PROVE \E f : \A n \in 1..m : f[n] = Of(f, n)
    <3>1. m + 1 \in S
      BY <2>3
    <3>2. PICK f : \A n \in 1..((m + 1) - 1) : f[n] = Of(f, n)
      BY <3>1 DEF S
    <3>3. (m + 1) - 1 = m
      OBVIOUS
    <3> QED  BY <3>2, <3>3
  <2> QED  BY <2>4
<1>4. \E f : f = [n \in 1..sizes |-> Of(f, n)]
  <2>1. PICK f : \A n \in 1..sizes : f[n] = Of(f, n)
    BY <1>3
  <2> DEFINE g == [n \in 1..sizes |-> Of(f, n)]
  <2>2. \A n \in 1..sizes : g[n] = f[n]
    BY <2>1
  <2> HIDE DEF g
  <2>3. \A n \in 1..sizes : Of(f, n) = Of(g, n)
    BY <1>1, <2>2
  <2>4. g = [n \in 1..sizes |-> Of(g, n)]
    BY <2>3 DEF g
  <2> QED  BY <2>4
<1>5. Irf!Checks(sizes, proof, root_m) = [n \in 1..sizes |-> Of(Irf!Checks(sizes, proof, root_m), n)]
  BY <1>2, <1>4, Zenon
<1>6. \A n \in 1..sizes : Irf!Checks(sizes, proof, root_m)[n] = Of(Irf!Checks(sizes, proof, root_m), n)
  BY <1>5
<1> QED  BY <1>6 DEF Of

-----------------------------------------------------------------------------
(* Inclusion proofs of merkle.py.                                            *)

LEMMA SubtreeAt ==
    ASSUME NEW hashes, Len(hashes) \in Nat, NEW n \in 0..Len(hashes), NEW at \in Nat
    PROVE  /\ n = 0 => Subtree(hashes)[n][at] = EmptyHash
           /\ n = 1 => Subtree(hashes)[n][at] = hashes[at]
           /\ n > 1 => Subtree(hashes)[n][at] =
                          NodeHash(Subtree(hashes)[Split(n)][at],
                                   Subtree(hashes)[n - Split(n)][at + Split(n)])
<1>1. Subtree(hashes)[n] = SubtreeOf(Subtree(hashes), hashes, n)
  BY SubtreeDefined
<1> QED  BY <1>1 DEF SubtreeOf

LeftPath(hashes, n, at, i) ==
    Append(Paths(hashes)[Split(n)][at][i],
           [hash |-> Subtree(hashes)[n - Split(n)][at + Split(n)], right |-> TRUE])

RightPath(hashes, n, at, i) ==
    Append(Paths(hashes)[n - Split(n)][at + Split(n)][i - Split(n)],
           [hash |-> Subtree(hashes)[Split(n)][at], right |-> FALSE])

LEMMA PathsAt ==
    ASSUME NEW hashes, Len(hashes) \in Nat, NEW n \in 1..Len(hashes), NEW at \in Nat,
           NEW i \in 1..n
    PROVE  Paths(hashes)[n][at][i] =
              IF n = 1 THEN << >>
              ELSE IF i <= Split(n) THEN LeftPath(hashes, n, at, i)
              ELSE RightPath(hashes, n, at, i)
<1> DEFINE All(a, j) == IF n = 1 THEN << >>
                        ELSE IF j <= Split(n) THEN LeftPath(hashes, n, a, j)
                        ELSE RightPath(hashes, n, a, j)
<1>1. Paths(hashes)[n] = PathsOf(Paths(hashes), hashes, n)
  BY PathsDefined
<1>2. PathsOf(Paths(hashes), hashes, n) = [a \in Nat |-> [j \in 1..n |-> All(a, j)]]
  BY Zenon DEF PathsOf, Join, LeftPath, RightPath
<1> HIDE DEF All
<1>3. Paths(hashes)[n][at][i] = All(at, i)
  BY <1>1, <1>2
<1> QED  BY <1>3 DEF All

LEMMA ClimbAt ==
    ASSUME NEW proof, Len(proof.audit_path) \in Nat
    PROVE  /\ Climb(proof)[0] = proof.leaf_hash
           /\ \A n \in 1..Len(proof.audit_path) :
                 Climb(proof)[n] =
                    IF proof.audit_path[n].right
                    THEN NodeHash(Climb(proof)[n - 1], proof.audit_path[n].hash)
                    ELSE NodeHash(proof.audit_path[n].hash, Climb(proof)[n - 1])
<1>1. \A n \in 0..Len(proof.audit_path) : Climb(proof)[n] = ClimbOf(Climb(proof), proof, n)
  BY ClimbDefined
<1> QED  BY <1>1 DEF ClimbOf

\* What a path is made of.
Hops(hashes) ==
    {[hash |-> Subtree(hashes)[n][at], right |-> side] :
        n \in 0..Len(hashes), at \in Nat, side \in BOOLEAN}

\* The two halves of a slice, and where a leaf of it is in them.
LEMMA Halves ==
    ASSUME NEW n \in Nat, n > 1
    PROVE  /\ Split(n) \in Nat /\ Split(n) \in 1..(n - 1)
           /\ n - Split(n) \in Nat /\ n - Split(n) \in 1..(n - 1)
           /\ \A i \in 1..n : /\ i <= Split(n) => i \in 1..Split(n)
                              /\ ~(i <= Split(n)) => i - Split(n) \in 1..(n - Split(n))
BY SplitIsPower

LEMMA HopIn ==
    ASSUME NEW hashes, Len(hashes) \in Nat, NEW n \in 0..Len(hashes), NEW at \in Nat
    PROVE  /\ [hash |-> Subtree(hashes)[n][at], right |-> TRUE] \in Hops(hashes)
           /\ [hash |-> Subtree(hashes)[n][at], right |-> FALSE] \in Hops(hashes)
<1>1. \A side \in BOOLEAN : [hash |-> Subtree(hashes)[n][at], right |-> side] \in Hops(hashes)
  BY DEF Hops
<1> QED  BY <1>1, Zenon

LEMMA PathsAreSequences ==
    ASSUME NEW hashes, Len(hashes) \in Nat
    PROVE  \A n \in 1..Len(hashes) : \A at \in Nat, i \in 1..n :
              Paths(hashes)[n][at][i] \in Seq(Hops(hashes))
<1> DEFINE S == {n \in Nat : n \in 1..Len(hashes) =>
                    \A at \in Nat, i \in 1..n : Paths(hashes)[n][at][i] \in Seq(Hops(hashes))}
<1>1. ASSUME NEW n \in Nat, \A k \in 0..(n - 1) : k \in S PROVE n \in S
  <2> SUFFICES ASSUME n \in 1..Len(hashes), NEW at \in Nat, NEW i \in 1..n
               PROVE  Paths(hashes)[n][at][i] \in Seq(Hops(hashes))
    OBVIOUS
  <2>0. \A k \in 1..(n - 1) : \A a \in Nat, j \in 1..k :
           Paths(hashes)[k][a][j] \in Seq(Hops(hashes))
    BY <1>1
  <2> HIDE DEF S
  <2>1. CASE n = 1
    <3>1. Paths(hashes)[n][at][i] = << >>
      BY <2>1, PathsAt
    <3>2. << >> \in Seq(Hops(hashes))
      OBVIOUS
    <3> QED  BY <3>1, <3>2
  <2>2. CASE n > 1
    <3>1. PICK k \in Nat : k = Split(n) /\ k \in 1..(n - 1) /\ n - k \in 1..(n - 1) /\ n - k \in Nat
      BY <2>2, Halves
    <3>3. CASE i <= k
      <4> DEFINE below == Paths(hashes)[k][at][i]
                 hop   == [hash |-> Subtree(hashes)[n - k][at + k], right |-> TRUE]
      <4>0. Paths(hashes)[n][at][i] = LeftPath(hashes, n, at, i)
        BY <3>1, <2>2, <3>3, PathsAt
      <4>1. Paths(hashes)[n][at][i] = Append(below, hop)
        BY <4>0, <3>1 DEF LeftPath
      <4>2. below \in Seq(Hops(hashes))
        BY <2>0, <3>1, <3>3
      <4>3. hop \in Hops(hashes)
        <5>1. n - k \in 0..Len(hashes) /\ k \in 0..Len(hashes) /\ at + k \in Nat
          BY <3>1
        <5> QED  BY <5>1, HopIn
      <4> HIDE DEF below, hop
      <4> QED  BY <4>1, <4>2, <4>3, AppendOne
    <3>4. CASE ~(i <= k)
      <4> DEFINE below == Paths(hashes)[n - k][at + k][i - k]
                 hop   == [hash |-> Subtree(hashes)[k][at], right |-> FALSE]
      <4>0. Paths(hashes)[n][at][i] = RightPath(hashes, n, at, i)
        <5>1. n # 1 /\ ~(i <= Split(n))
          BY <2>2, <3>1, <3>4
        <5> QED  BY <5>1, PathsAt
      <4>1. Paths(hashes)[n][at][i] = Append(below, hop)
        BY <4>0, <3>1 DEF RightPath
      <4>2. below \in Seq(Hops(hashes))
        <5>1. at + k \in Nat /\ i - k \in 1..(n - k)
          BY <3>1, <3>4
        <5> QED  BY <2>0, <3>1, <5>1
      <4>3. hop \in Hops(hashes)
        <5>1. n - k \in 0..Len(hashes) /\ k \in 0..Len(hashes) /\ at + k \in Nat
          BY <3>1
        <5> QED  BY <5>1, HopIn
      <4> HIDE DEF below, hop
      <4> QED  BY <4>1, <4>2, <4>3, AppendOne
    <3> QED  BY <3>3, <3>4
  <2> QED  BY <2>1, <2>2
<1> HIDE DEF S
<1>2. \A n \in Nat : n \in S
  BY <1>1, Induction
<1> QED  BY <1>2 DEF S

\* A proof that begins with the path of a leaf through a slice climbs to its root.
Begins(long, short) ==
    /\ Len(long) \in Nat /\ Len(short) <= Len(long)
    /\ \A j \in 1..Len(short) : long[j] = short[j]

LEMMA BeginsWithAppend ==
    ASSUME NEW S, NEW seq \in Seq(S), NEW e \in S, NEW long, Begins(long, Append(seq, e))
    PROVE  /\ Begins(long, seq)
           /\ Len(seq) + 1 \in 1..Len(long)
           /\ long[Len(seq) + 1] = e
BY AppendOne DEF Begins

LEMMA PathsClimb ==
    ASSUME NEW hashes, Len(hashes) \in Nat
    PROVE  \A n \in 1..Len(hashes) : \A at \in Nat, i \in 1..n : \A proof :
              Begins(proof.audit_path, Paths(hashes)[n][at][i])
              /\ proof.leaf_hash = hashes[at + i - 1]
              => Climb(proof)[Len(Paths(hashes)[n][at][i])] = Subtree(hashes)[n][at]
<1> DEFINE P(n, at, i) == \A proof :
              Begins(proof.audit_path, Paths(hashes)[n][at][i])
              /\ proof.leaf_hash = hashes[at + i - 1]
              => Climb(proof)[Len(Paths(hashes)[n][at][i])] = Subtree(hashes)[n][at]
           S == {n \in Nat : n \in 1..Len(hashes) => \A at \in Nat, i \in 1..n : P(n, at, i)}
<1>1. ASSUME NEW n \in Nat, \A k \in 0..(n - 1) : k \in S PROVE n \in S
  <2> SUFFICES ASSUME n \in 1..Len(hashes), NEW at \in Nat, NEW i \in 1..n, NEW proof,
                      Begins(proof.audit_path, Paths(hashes)[n][at][i]),
                      proof.leaf_hash = hashes[at + i - 1]
               PROVE  Climb(proof)[Len(Paths(hashes)[n][at][i])] = Subtree(hashes)[n][at]
    OBVIOUS
  <2>0. \A k \in 1..(n - 1) : \A a \in Nat, j \in 1..k : P(k, a, j)
    <3> HIDE DEF P
    <3> QED  BY <1>1
  <2> HIDE DEF S
  <2>3. Len(proof.audit_path) \in Nat
    BY DEF Begins
  <2>1. CASE n = 1
    <3>1. Paths(hashes)[n][at][i] = << >>
      BY <2>1, PathsAt
    <3>2. Climb(proof)[0] = proof.leaf_hash
      BY <2>3, ClimbAt
    <3>3. Subtree(hashes)[n][at] = hashes[at]
      BY <2>1, SubtreeAt
    <3>4. Len(<< >>) = 0 /\ at + i - 1 = at
      BY <2>1
    <3> QED  BY <3>1, <3>2, <3>3, <3>4
  <2>2. CASE n > 1
    <3>1. PICK k \in Nat : k = Split(n) /\ k \in 1..(n - 1) /\ n - k \in 1..(n - 1) /\ n - k \in Nat
      BY <2>2, Halves
    <3> DEFINE l == Subtree(hashes)[k][at]
               r == Subtree(hashes)[n - k][at + k]
    <3>2. Subtree(hashes)[n][at] = NodeHash(l, r)
      <4>1. n \in 0..Len(hashes)
        OBVIOUS
      <4>2. Subtree(hashes)[n][at] =
               NodeHash(Subtree(hashes)[Split(n)][at], Subtree(hashes)[n - Split(n)][at + Split(n)])
        BY <2>2, <4>1, SubtreeAt
      <4> QED  BY <3>1, <4>2
    <3>5. k \in 1..Len(hashes) /\ n - k \in 1..Len(hashes) /\ at + k \in Nat
      BY <3>1
    <3>3. CASE i <= k
      <4> DEFINE below == Paths(hashes)[k][at][i]
                 hop   == [hash |-> r, right |-> TRUE]
      <4>10. i \in 1..k
        BY <3>1, <3>3
      <4>0. Paths(hashes)[n][at][i] = LeftPath(hashes, n, at, i)
        BY <3>1, <2>2, <3>3, PathsAt
      <4>1. Paths(hashes)[n][at][i] = Append(below, hop)
        BY <4>0, <3>1 DEF LeftPath
      <4>2. below \in Seq(Hops(hashes))
        BY <3>5, <4>10, PathsAreSequences
      <4>3. hop \in Hops(hashes)
        <5>1. n - k \in 0..Len(hashes)
          BY <3>5
        <5> QED  BY <3>5, <5>1, HopIn
      <4>4. P(k, at, i)
        <5> HIDE DEF P
        <5> QED  BY <2>0, <3>1, <4>10
      <4>5. Begins(proof.audit_path, below) => Climb(proof)[Len(below)] = l
        BY <4>4
      <4>6. hop.right = TRUE /\ hop.hash = r
        OBVIOUS
      <4> HIDE DEF below, hop, l, r, P
      <4>7. /\ Begins(proof.audit_path, below) /\ Len(below) + 1 \in 1..Len(proof.audit_path)
            /\ proof.audit_path[Len(below) + 1] = hop
        BY <4>1, <4>2, <4>3, BeginsWithAppend
      <4>8. Len(Append(below, hop)) = Len(below) + 1 /\ Len(below) \in Nat
        BY <4>2, <4>3, AppendOne
      <4>9. Climb(proof)[Len(below) + 1] = NodeHash(l, r)
        <5>1. (Len(below) + 1) - 1 = Len(below)
          BY <4>8
        <5> QED  BY <2>3, <4>5, <4>6, <4>7, <5>1, ClimbAt
      <4> QED  BY <3>2, <4>1, <4>8, <4>9
    <3>4. CASE ~(i <= k)
      <4> DEFINE below == Paths(hashes)[n - k][at + k][i - k]
                 hop   == [hash |-> l, right |-> FALSE]
      <4>10. i - k \in 1..(n - k) /\ (at + k) + (i - k) - 1 = at + i - 1
        BY <3>1, <3>4
      <4>0. Paths(hashes)[n][at][i] = RightPath(hashes, n, at, i)
        BY <3>1, <2>2, <3>4, PathsAt
      <4>1. Paths(hashes)[n][at][i] = Append(below, hop)
        BY <4>0, <3>1 DEF RightPath
      <4>2. below \in Seq(Hops(hashes))
        BY <3>5, <4>10, PathsAreSequences
      <4>3. hop \in Hops(hashes)
        <5>1. k \in 0..Len(hashes)
          BY <3>5
        <5> QED  BY <5>1, HopIn
      <4>4. P(n - k, at + k, i - k)
        <5> HIDE DEF P
        <5> QED  BY <2>0, <3>1, <3>5, <4>10
      <4>5. Begins(proof.audit_path, below) => Climb(proof)[Len(below)] = r
        BY <4>4, <4>10
      <4>6. hop.right = FALSE /\ hop.hash = l
        OBVIOUS
      <4> HIDE DEF below, hop, l, r, P
      <4>7. /\ Begins(proof.audit_path, below) /\ Len(below) + 1 \in 1..Len(proof.audit_path)
            /\ proof.audit_path[Len(below) + 1] = hop
        BY <4>1, <4>2, <4>3, BeginsWithAppend
      <4>8. Len(Append(below, hop)) = Len(below) + 1 /\ Len(below) \in Nat
        BY <4>2, <4>3, AppendOne
      <4>9. Climb(proof)[Len(below) + 1] = NodeHash(l, r)
        <5>1. (Len(below) + 1) - 1 = Len(below)
          BY <4>8
        <5> QED  BY <2>3, <4>5, <4>6, <4>7, <5>1, ClimbAt
      <4> QED  BY <3>2, <4>1, <4>8, <4>9
    <3> QED  BY <3>3, <3>4
  <2> QED  BY <2>1, <2>2
<1> HIDE DEF P, S
<1>2. \A n \in Nat : n \in S
  BY <1>1, Induction
<1>3. \A n \in 1..Len(hashes) : \A at \in Nat, i \in 1..n : P(n, at, i)
  BY <1>2 DEF S
<1> QED  BY <1>3 DEF P

LEMMA NodesDiffer ==
    ASSUME NEW a, NEW b, NEW c, NEW d, NodeHash(a, b) = NodeHash(c, d)
    PROVE  a = c /\ b = d
BY DEF NodeHash

\* Both halves of a slice fit a tree of one level less.
LEMMA HalvesAreLower ==
    ASSUME NEW n \in Nat, n > 1, NEW e \in Nat, n <= Power[e]
    PROVE  /\ e - 1 \in Nat
           /\ Split(n) <= Power[e - 1] /\ n - Split(n) <= Power[e - 1]
<1>1. PICK d \in Nat : Split(n) = Power[d]
  BY SplitIsPower
<1>2. Power[d] < n /\ n <= 2 * Power[d] /\ Power[d] \in Nat /\ Power[e] \in Nat
  BY <1>1, SplitIsPower, PowerExceeds
<1>3. d < e
  <2>1. d # e
    BY <1>2
  <2>2. ~(e < d)
    BY <1>2, PowerGrows
  <2> QED  BY <2>1, <2>2
<1>4. e - 1 \in Nat /\ (d = e - 1 \/ d < e - 1)
  BY <1>3
<1>5. Power[e - 1] \in Nat
  BY <1>4, PowerExceeds
<1>6. Power[d] <= Power[e - 1]
  BY <1>2, <1>4, <1>5, PowerGrows
<1> QED  BY <1>1, <1>2, <1>4, <1>5, <1>6

LEMMA PathsAreShort ==
    ASSUME NEW hashes, Len(hashes) \in Nat
    PROVE  \A n \in 1..Len(hashes) : \A e \in Nat : n <= Power[e] =>
              \A at \in Nat, i \in 1..n : Len(Paths(hashes)[n][at][i]) <= e
<1> DEFINE P(n, e) == \A at \in Nat, i \in 1..n : Len(Paths(hashes)[n][at][i]) <= e
           S == {n \in Nat : n \in 1..Len(hashes) => \A e \in Nat : n <= Power[e] => P(n, e)}
<1>1. ASSUME NEW n \in Nat, \A k \in 0..(n - 1) : k \in S PROVE n \in S
  <2> SUFFICES ASSUME n \in 1..Len(hashes), NEW e \in Nat, n <= Power[e],
                      NEW at \in Nat, NEW i \in 1..n
               PROVE  Len(Paths(hashes)[n][at][i]) <= e
    OBVIOUS
  <2>0. \A k \in 1..(n - 1) : \A d \in Nat : k <= Power[d] => P(k, d)
    <3> HIDE DEF P
    <3> QED  BY <1>1
  <2> HIDE DEF S
  <2>1. CASE n = 1
    <3>1. Paths(hashes)[n][at][i] = << >>
      BY <2>1, PathsAt
    <3>2. Len(<< >>) = 0
      OBVIOUS
    <3> QED  BY <3>1, <3>2
  <2>2. CASE n > 1
    <3>1. PICK k \in Nat : k = Split(n) /\ k \in 1..(n - 1) /\ n - k \in 1..(n - 1) /\ n - k \in Nat
      BY <2>2, Halves
    <3>2. e - 1 \in Nat /\ k <= Power[e - 1] /\ n - k <= Power[e - 1]
      BY <2>2, <3>1, HalvesAreLower
    <3>3. P(k, e - 1) /\ P(n - k, e - 1)
      <4> HIDE DEF P
      <4> QED  BY <2>0, <3>1, <3>2
    <3>4. k \in 1..Len(hashes) /\ n - k \in 1..Len(hashes) /\ at + k \in Nat
          /\ n - k \in 0..Len(hashes) /\ k \in 0..Len(hashes)
      BY <3>1
    <3>5. CASE i <= k
      <4> DEFINE below == Paths(hashes)[k][at][i]
                 hop   == [hash |-> Subtree(hashes)[n - k][at + k], right |-> TRUE]
      <4>1. i \in 1..k
        BY <3>1, <3>5
      <4>2. Paths(hashes)[n][at][i] = LeftPath(hashes, n, at, i)
        BY <3>1, <2>2, <3>5, PathsAt
      <4>3. Paths(hashes)[n][at][i] = Append(below, hop)
        BY <4>2, <3>1 DEF LeftPath
      <4>4. below \in Seq(Hops(hashes)) /\ hop \in Hops(hashes)
        BY <3>4, <4>1, PathsAreSequences, HopIn
      <4>5. Len(below) <= e - 1
        BY <3>3, <4>1
      <4> HIDE DEF below, hop
      <4>6. Len(Append(below, hop)) = Len(below) + 1 /\ Len(below) \in Nat
        BY <4>4, AppendOne
      <4> QED  BY <4>3, <4>5, <4>6
    <3>6. CASE ~(i <= k)
      <4> DEFINE below == Paths(hashes)[n - k][at + k][i - k]
                 hop   == [hash |-> Subtree(hashes)[k][at], right |-> FALSE]
      <4>1. i - k \in 1..(n - k)
        BY <3>1, <3>6
      <4>2. Paths(hashes)[n][at][i] = RightPath(hashes, n, at, i)
        BY <3>1, <2>2, <3>6, PathsAt
      <4>3. Paths(hashes)[n][at][i] = Append(below, hop)
        BY <4>2, <3>1 DEF RightPath
      <4>4. below \in Seq(Hops(hashes)) /\ hop \in Hops(hashes)
        BY <3>4, <4>1, PathsAreSequences, HopIn
      <4>5. Len(below) <= e - 1
        BY <3>3, <3>4, <4>1
      <4> HIDE DEF below, hop
      <4>6. Len(Append(below, hop)) = Len(below) + 1 /\ Len(below) \in Nat
        BY <4>4, AppendOne
      <4> QED  BY <4>3, <4>5, <4>6
    <3> QED  BY <3>5, <3>6
  <2> QED  BY <2>1, <2>2
<1> HIDE DEF S, P
<1>2. \A n \in Nat : n \in S
  BY <1>1, Induction
<1>3. \A n \in 1..Len(hashes) : \A e \in Nat : n <= Power[e] => P(n, e)
  BY <1>2 DEF S
<1> QED  BY <1>3 DEF P

\* The proof of a leaf verifies, and is no longer than the tree is high.
LEMMA InclusionVerifies ==
    ASSUME NEW hashes, Len(hashes) \in Nat, NEW i \in 1..Len(hashes)
    PROVE  /\ Len(Path(hashes, i)) \in Nat
           /\ VerifyInclusion(InclusionProof(hashes, i), Root(hashes))
           /\ \A e \in Nat : Len(hashes) <= Power[e] => Len(Path(hashes, i)) <= e
<1> DEFINE path  == Path(hashes, i)
           proof == InclusionProof(hashes, i)
<1>0. Len(hashes) \in 1..Len(hashes)
  OBVIOUS
<1>1. path \in Seq(Hops(hashes)) /\ Len(path) \in Nat
  BY PathsAreSequences DEF Path
<1>2. proof.audit_path = path /\ proof.leaf_hash = hashes[i]
  BY DEF InclusionProof
<1>3. \A p : Begins(p.audit_path, path) /\ p.leaf_hash = hashes[1 + i - 1]
             => Climb(p)[Len(path)] = Root(hashes)
  <2> DEFINE P(n, at, j) == \A p :
                Begins(p.audit_path, Paths(hashes)[n][at][j]) /\ p.leaf_hash = hashes[at + j - 1]
                => Climb(p)[Len(Paths(hashes)[n][at][j])] = Subtree(hashes)[n][at]
  <2>1. \A n \in 1..Len(hashes) : \A at \in Nat, j \in 1..n : P(n, at, j)
    BY PathsClimb, Zenon
  <2> HIDE DEF P
  <2>2. P(Len(hashes), 1, i)
    BY <1>0, <2>1
  <2> QED  BY <2>2 DEF P, Path, Root
<1>4. 1 + i - 1 = i
  OBVIOUS
<1>5. \A e \in Nat : Len(hashes) <= Power[e] => Len(path) <= e
  BY <1>0, PathsAreShort DEF Path
<1> HIDE DEF path, proof
<1>6. Begins(proof.audit_path, path)
  BY <1>1, <1>2 DEF Begins
<1>7. Climb(proof)[Len(path)] = Root(hashes)
  BY <1>2, <1>3, <1>4, <1>6
<1>8. VerifyInclusion(proof, Root(hashes))
  BY <1>2, <1>7 DEF VerifyInclusion, Computed
<1> QED  BY <1>1, <1>5, <1>8 DEF path, proof

\* One path leads from one leaf only to one root.
LEMMA ClimbBinds ==
    ASSUME NEW p, NEW q, p.audit_path = q.audit_path, Len(p.audit_path) \in Nat,
           Computed(p) = Computed(q)
    PROVE  p.leaf_hash = q.leaf_hash
<1> DEFINE len == Len(p.audit_path)
           S == {n \in Nat : n <= len /\ Climb(p)[n] = Climb(q)[n] => p.leaf_hash = q.leaf_hash}
<1>1. 0 \in S
  BY ClimbAt
<1>2. ASSUME NEW n \in Nat, n \in S PROVE n + 1 \in S
  <2> SUFFICES ASSUME n + 1 <= len, Climb(p)[n + 1] = Climb(q)[n + 1]
               PROVE  p.leaf_hash = q.leaf_hash
    OBVIOUS
  <2>1. n + 1 \in 1..Len(p.audit_path) /\ (n + 1) - 1 = n /\ n <= len
    OBVIOUS
  <2> DEFINE hop == p.audit_path[n + 1]
  <2>2. Climb(p)[n + 1] = IF hop.right THEN NodeHash(Climb(p)[n], hop.hash)
                          ELSE NodeHash(hop.hash, Climb(p)[n])
    BY <2>1, ClimbAt
  <2>3. Climb(q)[n + 1] = IF hop.right THEN NodeHash(Climb(q)[n], hop.hash)
                          ELSE NodeHash(hop.hash, Climb(q)[n])
    BY <2>1, ClimbAt
  <2> HIDE DEF hop, S
  <2>4. Climb(p)[n] = Climb(q)[n]
    <3>1. CASE hop.right
      <4>1. NodeHash(Climb(p)[n], hop.hash) = NodeHash(Climb(q)[n], hop.hash)
        BY <2>2, <2>3, <3>1
      <4> QED  BY <4>1, NodesDiffer
    <3>2. CASE ~hop.right
      <4>1. NodeHash(hop.hash, Climb(p)[n]) = NodeHash(hop.hash, Climb(q)[n])
        BY <2>2, <2>3, <3>2
      <4> QED  BY <4>1, NodesDiffer
    <3> QED  BY <3>1, <3>2
  <2> QED  BY <1>2, <2>1, <2>4 DEF S
<1> HIDE DEF S
<1>3. \A n \in Nat : n \in S
  BY <1>1, <1>2, StepByStep
<1>4. len \in S
  BY <1>3
<1> QED  BY <1>4 DEF S, Computed

-----------------------------------------------------------------------------
(* The growing tree of merkle.py.                                            *)

LeafHashesOf(data) == {LeafHash(d) : d \in data}

HashesInv == leaf_hashes \in Seq(LeafHashesOf(Leaves)) /\ Len(leaf_hashes) \in 0..MaxLeaves

LEMMA HashesCorrect == TreeSpec => []HashesInv
<1>1. TreeInit => HashesInv
  BY BoundAssumption DEF TreeInit, HashesInv
<1>2. HashesInv /\ [TreeNext]_leaf_hashes => HashesInv'
  <2> SUFFICES ASSUME HashesInv, [TreeNext]_leaf_hashes PROVE HashesInv'
    OBVIOUS
  <2>1. ASSUME NEW data \in Leaves, AppendLeaf(data) PROVE HashesInv'
    <3>1. PICK hash : hash = LeafHash(data)
      OBVIOUS
    <3>2. hash \in LeafHashesOf(Leaves)
      BY <3>1 DEF LeafHashesOf
    <3>3. leaf_hashes' = Append(leaf_hashes, hash) /\ Len(leaf_hashes) < MaxLeaves
      BY <2>1, <3>1 DEF AppendLeaf
    <3> QED  BY <3>2, <3>3, AppendOne, BoundAssumption DEF HashesInv
  <2>2. CASE UNCHANGED leaf_hashes
    BY <2>2 DEF HashesInv
  <2> QED  BY <2>1, <2>2 DEF TreeNext
<1> QED  BY <1>1, <1>2, PTL DEF TreeSpec

\* Whatever was appended, every leaf has a proof that verifies, as short as it can be.
THEOREM LeavesProvable == TreeSpec => []EveryLeafProvable
<1>1. HashesInv => EveryLeafProvable
  <2> SUFFICES ASSUME HashesInv, NEW i \in DOMAIN leaf_hashes
               PROVE  LET proof == InclusionProof(leaf_hashes, i)
                      IN  /\ VerifyInclusion(proof, Root(leaf_hashes))
                          /\ \A e \in 0..Len(leaf_hashes) :
                                Len(leaf_hashes) <= Power[e] => Len(proof.audit_path) <= e
    BY DEF EveryLeafProvable
  <2>1. Len(leaf_hashes) \in Nat /\ i \in 1..Len(leaf_hashes)
    BY DEF HashesInv
  <2>2. InclusionProof(leaf_hashes, i).audit_path = Path(leaf_hashes, i)
    BY DEF InclusionProof
  <2> QED  BY <2>1, <2>2, InclusionVerifies
<1> QED  BY <1>1, HashesCorrect, PTL

\* Whatever was appended, a proof verifies with the leaf it was made for only.
THEOREM LeafBound == TreeSpec => []ProofsBindLeaf
<1>1. HashesInv => ProofsBindLeaf
  <2> SUFFICES ASSUME HashesInv, NEW i \in DOMAIN leaf_hashes, NEW data \in Leaves,
                      VerifyInclusion([InclusionProof(leaf_hashes, i) EXCEPT !.leaf_hash = LeafHash(data)],
                                      Root(leaf_hashes))
               PROVE  leaf_hashes[i] = LeafHash(data)
    BY DEF ProofsBindLeaf
  <2> DEFINE p == InclusionProof(leaf_hashes, i)
             q == [p EXCEPT !.leaf_hash = LeafHash(data)]
  <2>1. Len(leaf_hashes) \in Nat /\ i \in 1..Len(leaf_hashes)
    BY DEF HashesInv
  <2>2. VerifyInclusion(p, Root(leaf_hashes)) /\ Len(Path(leaf_hashes, i)) \in Nat
    BY <2>1, InclusionVerifies
  <2>3. /\ p.audit_path = Path(leaf_hashes, i) /\ q.audit_path = p.audit_path
        /\ p.leaf_hash = leaf_hashes[i] /\ q.leaf_hash = LeafHash(data)
    BY DEF InclusionProof
  <2>4. Computed(p) = Root(leaf_hashes) /\ Computed(q) = Root(leaf_hashes)
    BY <2>2 DEF VerifyInclusion
  <2> HIDE DEF p, q
  <2>5. p.leaf_hash = q.leaf_hash
    BY <2>2, <2>3, <2>4, ClimbBinds
  <2> QED  BY <2>3, <2>5
<1> QED  BY <1>1, HashesCorrect, PTL

-----------------------------------------------------------------------------
(* What a root commits to.                                                   *)

AreLeaves(hashes) == \A i \in 1..Len(hashes) : \E d : hashes[i] = LeafHash(d)

SameSlice(hashes, at, others, from, n) ==
    \A j \in 0..(n - 1) : hashes[at + j] = others[from + j]

LEMMA KindsDiffer ==
    ASSUME NEW d, NEW a, NEW b
    PROVE  /\ EmptyHash # LeafHash(d) /\ EmptyHash # NodeHash(a, b)
           /\ LeafHash(d) # NodeHash(a, b)
BY DEF EmptyHash, LeafHash, NodeHash

LEMMA SubtreeOfMany ==
    ASSUME NEW hashes, Len(hashes) \in Nat, NEW n \in 0..Len(hashes), NEW at \in Nat, n > 1
    PROVE  Subtree(hashes)[n][at] =
              NodeHash(Subtree(hashes)[Split(n)][at], Subtree(hashes)[n - Split(n)][at + Split(n)])
BY SubtreeAt

\* Where the halves of a slice are in its list.
LEMMA HalvesWithin ==
    ASSUME NEW len \in Nat, NEW n \in Nat, NEW at \in Nat, 1 <= at, at + n <= len + 1,
           NEW k \in 1..(n - 1)
    PROVE  /\ n - k \in 0..(n - 1) /\ n - k \in Nat /\ at + k \in Nat /\ 1 <= at + k
           /\ at + k <= len + 1 /\ (at + k) + (n - k) <= len + 1
OBVIOUS

\* Slices that are alike have halves that are.
LEMMA SliceHalves ==
    ASSUME NEW h, NEW g, NEW n \in Nat, NEW k \in 1..(n - 1), NEW at \in Nat, NEW bt \in Nat,
           SameSlice(h, at, g, bt, n)
    PROVE  SameSlice(h, at, g, bt, k) /\ SameSlice(h, at + k, g, bt + k, n - k)
<1>1. \A j \in 0..(k - 1) : j \in 0..(n - 1)
  OBVIOUS
<1>2. SameSlice(h, at, g, bt, k)
  BY <1>1 DEF SameSlice
<1>3. ASSUME NEW j \in 0..((n - k) - 1) PROVE h[(at + k) + j] = g[(bt + k) + j]
  <2>1. k + j \in 0..(n - 1)
    OBVIOUS
  <2>2. (at + k) + j = at + (k + j) /\ (bt + k) + j = bt + (k + j)
    OBVIOUS
  <2> QED  BY <2>1, <2>2 DEF SameSlice
<1> QED  BY <1>2, <1>3 DEF SameSlice

\* Slices with one root are of one length, and alike.
LEMMA SubtreesCommit ==
    ASSUME NEW h, Len(h) \in Nat, AreLeaves(h), NEW g, Len(g) \in Nat, AreLeaves(g)
    PROVE  \A n \in Nat : \A m \in Nat, at \in Nat, bt \in Nat :
              1 <= at /\ at + n <= Len(h) + 1 /\ 1 <= bt /\ bt + m <= Len(g) + 1
              /\ Subtree(h)[n][at] = Subtree(g)[m][bt]
              => n = m /\ SameSlice(h, at, g, bt, n)
<1> DEFINE P(n, m, at, bt) ==
              1 <= at /\ at + n <= Len(h) + 1 /\ 1 <= bt /\ bt + m <= Len(g) + 1
              /\ Subtree(h)[n][at] = Subtree(g)[m][bt]
              => n = m /\ SameSlice(h, at, g, bt, n)
           S == {n \in Nat : \A m \in Nat, at \in Nat, bt \in Nat : P(n, m, at, bt)}
<1>1. ASSUME NEW n \in Nat, \A k \in 0..(n - 1) : k \in S PROVE n \in S
  <2> SUFFICES ASSUME NEW m \in Nat, NEW at \in Nat, NEW bt \in Nat,
                      1 <= at, 1 <= bt, at + n <= Len(h) + 1, bt + m <= Len(g) + 1,
                      Subtree(h)[n][at] = Subtree(g)[m][bt]
               PROVE  n = m /\ SameSlice(h, at, g, bt, n)
    OBVIOUS
  <2>0. \A k \in 0..(n - 1) : \A l \in Nat, a \in Nat, b \in Nat : P(k, l, a, b)
    <3> HIDE DEF P
    <3> QED  BY <1>1
  <2> HIDE DEF S, P
  <2>1. n \in 0..Len(h) /\ m \in 0..Len(g)
    OBVIOUS
  <2>2. n = 0 => Subtree(h)[n][at] = EmptyHash
    BY <2>1, SubtreeAt
  <2>3. m = 0 => Subtree(g)[m][bt] = EmptyHash
    BY <2>1, SubtreeAt
  <2>4. n = 1 => Subtree(h)[n][at] = h[at] /\ \E d : h[at] = LeafHash(d)
    BY <2>1, SubtreeAt DEF AreLeaves
  <2>5. m = 1 => Subtree(g)[m][bt] = g[bt] /\ \E d : g[bt] = LeafHash(d)
    BY <2>1, SubtreeAt DEF AreLeaves
  <2>6. n > 1 => Subtree(h)[n][at] = NodeHash(Subtree(h)[Split(n)][at],
                                              Subtree(h)[n - Split(n)][at + Split(n)])
    BY <2>1, SubtreeOfMany
  <2>7. m > 1 => Subtree(g)[m][bt] = NodeHash(Subtree(g)[Split(m)][bt],
                                              Subtree(g)[m - Split(m)][bt + Split(m)])
    BY <2>1, SubtreeOfMany
  <2>8. CASE n = 0
    <3>1. m = 0
      <4>1. m # 1
        BY <2>2, <2>5, <2>8, KindsDiffer
      <4>2. ~(m > 1)
        BY <2>2, <2>7, <2>8, KindsDiffer
      <4> QED  BY <4>1, <4>2
    <3> QED  BY <2>8, <3>1 DEF SameSlice
  <2>9. CASE n = 1
    <3>1. m = 1
      <4>1. m # 0
        BY <2>3, <2>4, <2>9, KindsDiffer
      <4>2. ~(m > 1)
        BY <2>4, <2>7, <2>9, KindsDiffer
      <4> QED  BY <4>1, <4>2
    <3>2. h[at] = g[bt]
      BY <2>4, <2>5, <2>9, <3>1
    <3> QED  BY <2>9, <3>1, <3>2 DEF SameSlice
  <2>10. CASE n > 1
    <3>1. m > 1
      <4>1. m # 0
        BY <2>3, <2>6, <2>10, KindsDiffer
      <4>2. m # 1
        BY <2>5, <2>6, <2>10, KindsDiffer
      <4> QED  BY <4>1, <4>2
    <3>2. PICK k \in Nat : k = Split(n) /\ k \in 1..(n - 1) /\ n - k \in 1..(n - 1) /\ n - k \in Nat
      BY <2>10, Halves
    <3>3. PICK l \in Nat : l = Split(m) /\ l \in 1..(m - 1) /\ m - l \in 1..(m - 1) /\ m - l \in Nat
      BY <3>1, Halves
    <3>9. /\ n - k \in 0..(n - 1) /\ at + k \in Nat /\ 1 <= at + k
          /\ at + k <= Len(h) + 1 /\ (at + k) + (n - k) <= Len(h) + 1
      BY <3>2, HalvesWithin
    <3>10. /\ m - l \in Nat /\ bt + l \in Nat /\ 1 <= bt + l
           /\ bt + l <= Len(g) + 1 /\ (bt + l) + (m - l) <= Len(g) + 1
      BY <3>3, HalvesWithin
    <3>4. Subtree(h)[k][at] = Subtree(g)[l][bt]
          /\ Subtree(h)[n - k][at + k] = Subtree(g)[m - l][bt + l]
      BY <2>6, <2>7, <2>10, <3>1, <3>2, <3>3, NodesDiffer
    <3>5. k = l /\ SameSlice(h, at, g, bt, k)
      <4>1. P(k, l, at, bt)
        <5>1. k \in 0..(n - 1)
          BY <3>2
        <5> QED  BY <2>0, <5>1
      <4> QED  BY <4>1, <3>4, <3>9, <3>10 DEF P
    <3>6. n - k = m - l /\ SameSlice(h, at + k, g, bt + l, n - k)
      <4>1. P(n - k, m - l, at + k, bt + l)
        BY <2>0, <3>9, <3>10
      <4> QED  BY <4>1, <3>4, <3>9, <3>10 DEF P
    <3>7. n = m
      BY <3>5, <3>6
    <3>8. ASSUME NEW j \in 0..(n - 1) PROVE h[at + j] = g[bt + j]
      <4>1. CASE j < k
        <5>1. j \in 0..(k - 1)
          BY <4>1, <3>2
        <5> QED  BY <5>1, <3>5 DEF SameSlice
      <4>2. CASE ~(j < k)
        <5>1. j - k \in 0..((n - k) - 1) /\ (at + k) + (j - k) = at + j /\ (bt + l) + (j - k) = bt + j
          BY <4>2, <3>2, <3>5
        <5>2. h[(at + k) + (j - k)] = g[(bt + l) + (j - k)]
          BY <5>1, <3>6 DEF SameSlice
        <5> QED  BY <5>1, <5>2
      <4> QED  BY <4>1, <4>2
    <3> QED  BY <3>7, <3>8 DEF SameSlice
  <2> QED  BY <2>8, <2>9, <2>10
<1> HIDE DEF S, P
<1>2. \A n \in Nat : n \in S
  BY <1>1, Induction
<1>3. \A n \in Nat : \A m \in Nat, at \in Nat, bt \in Nat : P(n, m, at, bt)
  BY <1>2 DEF S
<1> QED  BY <1>3 DEF P

\* Lists of leaves with one root are one list.
LEMMA RootsCommit ==
    ASSUME NEW h, Len(h) \in Nat, AreLeaves(h), NEW g, Len(g) \in Nat, AreLeaves(g),
           Root(h) = Root(g)
    PROVE  Len(h) = Len(g) /\ \A i \in 1..Len(h) : h[i] = g[i]
<1> DEFINE P(n, m, at, bt) ==
              1 <= at /\ at + n <= Len(h) + 1 /\ 1 <= bt /\ bt + m <= Len(g) + 1
              /\ Subtree(h)[n][at] = Subtree(g)[m][bt]
              => n = m /\ SameSlice(h, at, g, bt, n)
<1>1. \A n \in Nat : \A m \in Nat, at \in Nat, bt \in Nat : P(n, m, at, bt)
  BY SubtreesCommit, Zenon
<1> HIDE DEF P
<1>2. P(Len(h), Len(g), 1, 1)
  BY <1>1
<1>3. Len(h) = Len(g) /\ SameSlice(h, 1, g, 1, Len(h))
  BY <1>2 DEF P, Root
<1>4. ASSUME NEW i \in 1..Len(h) PROVE h[i] = g[i]
  <2>1. i - 1 \in 0..(Len(h) - 1) /\ 1 + (i - 1) = i
    OBVIOUS
  <2> QED  BY <2>1, <1>3 DEF SameSlice
<1> QED  BY <1>3, <1>4

\* A root depends on the slice only.
LEMMA SameSliceSameRoot ==
    ASSUME NEW h, Len(h) \in Nat, NEW g, Len(g) \in Nat
    PROVE  \A n \in Nat : \A at \in Nat, bt \in Nat :
              n <= Len(h) /\ n <= Len(g) /\ SameSlice(h, at, g, bt, n)
              => Subtree(h)[n][at] = Subtree(g)[n][bt]
<1> DEFINE P(n, at, bt) ==
              n <= Len(h) /\ n <= Len(g) /\ SameSlice(h, at, g, bt, n)
              => Subtree(h)[n][at] = Subtree(g)[n][bt]
           S == {n \in Nat : \A at \in Nat, bt \in Nat : P(n, at, bt)}
<1>1. ASSUME NEW n \in Nat, \A k \in 0..(n - 1) : k \in S PROVE n \in S
  <2> SUFFICES ASSUME NEW at \in Nat, NEW bt \in Nat,
                      n <= Len(h), n <= Len(g), SameSlice(h, at, g, bt, n)
               PROVE  Subtree(h)[n][at] = Subtree(g)[n][bt]
    OBVIOUS
  <2>0. \A k \in 0..(n - 1) : \A a \in Nat, b \in Nat : P(k, a, b)
    <3> HIDE DEF P
    <3> QED  BY <1>1
  <2> HIDE DEF S, P
  <2>1. n \in 0..Len(h) /\ n \in 0..Len(g)
    OBVIOUS
  <2>2. CASE n = 0
    <3>1. Subtree(h)[n][at] = EmptyHash
      BY <2>1, <2>2, SubtreeAt
    <3>2. Subtree(g)[n][bt] = EmptyHash
      BY <2>1, <2>2, SubtreeAt
    <3> QED  BY <3>1, <3>2
  <2>3. CASE n = 1
    <3>1. h[at + 0] = g[bt + 0] /\ at + 0 = at /\ bt + 0 = bt
      BY <2>3 DEF SameSlice
    <3>2. Subtree(h)[n][at] = h[at] /\ Subtree(g)[n][bt] = g[bt]
      BY <2>1, <2>3, SubtreeAt
    <3> QED  BY <3>1, <3>2
  <2>4. CASE n > 1
    <3>1. PICK k \in Nat : k = Split(n) /\ k \in 1..(n - 1) /\ n - k \in 1..(n - 1) /\ n - k \in Nat
      BY <2>4, Halves
    <3>2. Subtree(h)[k][at] = Subtree(g)[k][bt]
      <4>1. SameSlice(h, at, g, bt, k)
        BY <3>1, SliceHalves
      <4>2. P(k, at, bt)
        BY <2>0, <3>1
      <4> QED  BY <3>1, <4>1, <4>2 DEF P
    <3>3. Subtree(h)[n - k][at + k] = Subtree(g)[n - k][bt + k]
      <4>2. SameSlice(h, at + k, g, bt + k, n - k)
        BY <3>1, SliceHalves
      <4>3. n - k \in 0..(n - 1) /\ at + k \in Nat /\ bt + k \in Nat
        BY <3>1
      <4>4. P(n - k, at + k, bt + k)
        BY <2>0, <4>3
      <4> QED  BY <3>1, <4>2, <4>4 DEF P
    <3>4. Subtree(h)[n][at] = NodeHash(Subtree(h)[k][at], Subtree(h)[n - k][at + k])
      BY <2>1, <2>4, <3>1, SubtreeOfMany
    <3>5. Subtree(g)[n][bt] = NodeHash(Subtree(g)[k][bt], Subtree(g)[n - k][bt + k])
      BY <2>1, <2>4, <3>1, SubtreeOfMany
    <3> QED  BY <3>2, <3>3, <3>4, <3>5
  <2> QED  BY <2>2, <2>3, <2>4
<1> HIDE DEF S, P
<1>2. \A n \in Nat : n \in S
  BY <1>1, Induction
<1>3. \A n \in Nat : \A at \in Nat, bt \in Nat : P(n, at, bt)
  BY <1>2 DEF S
<1> QED  BY <1>3 DEF P

\* The root of the first leaves is that of their slice.
LEMMA RootOfPrefix ==
    ASSUME NEW T, NEW h \in Seq(T), NEW m \in 0..Len(h)
    PROVE  /\ Root(SubSeq(h, 1, m)) = Subtree(h)[m][1]
           /\ Len(SubSeq(h, 1, m)) = m
           /\ \A i \in 1..m : SubSeq(h, 1, m)[i] = h[i]
<1> DEFINE g == SubSeq(h, 1, m)
<1>1. Len(g) = m /\ \A i \in 1..m : g[i] = h[i]
  OBVIOUS
<1> HIDE DEF g
<1>2. ASSUME NEW j \in 0..(m - 1) PROVE g[1 + j] = h[1 + j]
  <2>1. 1 + j \in 1..m
    OBVIOUS
  <2> QED  BY <1>1, <2>1
<1>3. SameSlice(g, 1, h, 1, m)
  BY <1>2 DEF SameSlice
<1>4. Len(g) \in Nat /\ Len(h) \in Nat /\ m \in Nat /\ m <= Len(g) /\ m <= Len(h)
  BY <1>1
<1>5. Subtree(g)[m][1] = Subtree(h)[m][1]
  BY <1>3, <1>4, SameSliceSameRoot
<1>6. Root(g) = Subtree(h)[m][1]
  BY <1>1, <1>5 DEF Root
<1> QED  BY <1>1, <1>6 DEF g

\* A root tells every leaf and their order: no other list has it.
THEOREM RootsDiffer == TreeSpec => []RootCommits
<1>1. HashesInv => RootCommits
  <2> SUFFICES ASSUME HashesInv, NEW other \in Lists, Root(other) = Root(leaf_hashes)
               PROVE  other = leaf_hashes
    BY DEF RootCommits
  <2>1. PICK n \in 0..MaxLeaves : other \in [1..n -> {LeafHash(data) : data \in Leaves}]
    BY DEF Lists
  <2>2. n \in Nat /\ other \in Seq({LeafHash(data) : data \in Leaves}) /\ Len(other) = n
    BY <2>1, BoundAssumption
  <2>3. leaf_hashes \in Seq({LeafHash(data) : data \in Leaves})
    BY DEF HashesInv, LeafHashesOf
  <2>4. AreLeaves(other) /\ AreLeaves(leaf_hashes)
    BY <2>2, <2>3 DEF AreLeaves
  <2>5. Len(other) = Len(leaf_hashes) /\ \A i \in 1..Len(other) : other[i] = leaf_hashes[i]
    BY <2>2, <2>3, <2>4, RootsCommit
  <2> QED  BY <2>2, <2>3, <2>5
<1> QED  BY <1>1, HashesCorrect, PTL

-----------------------------------------------------------------------------
(* The root by levels.                                                       *)

LEMMA HalvedAt ==
    ASSUME NEW h, Len(h) \in Nat
    PROVE  \E c \in Nat :
              /\ Len(h) = 2 * c \/ Len(h) = 2 * c - 1
              /\ Len(Halved(h)) = c
              /\ \A i \in 1..c : Halved(h)[i] = IF 2 * i <= Len(h) THEN NodeHash(h[2 * i - 1], h[2 * i])
                                                ELSE h[2 * i - 1]
<1>1. PICK c \in Nat : c = (Len(h) + 1) \div 2 /\ (Len(h) = 2 * c \/ Len(h) = 2 * c - 1)
  <2>1. PICK n \in Nat : n = Len(h)
    OBVIOUS
  <2>2. (n + 1) \div 2 \in Nat /\ (n = 2 * ((n + 1) \div 2) \/ n = 2 * ((n + 1) \div 2) - 1)
    OBVIOUS
  <2> QED  BY <2>1, <2>2
<1> DEFINE At(i) == IF 2 * i <= Len(h) THEN NodeHash(h[2 * i - 1], h[2 * i]) ELSE h[2 * i - 1]
<1>2. Halved(h) = [i \in 1..c |-> At(i)]
  BY <1>1 DEF Halved
<1> HIDE DEF At
<1>3. Len(Halved(h)) = c /\ \A i \in 1..c : Halved(h)[i] = At(i)
  BY <1>2
<1> QED  BY <1>1, <1>3 DEF At

\* n leaves from the (2a - 1)-th of len on are the c pairs, the last one of which may
\* be odd, that the halved list has from its a-th on.
Fits(len, c, n, a) ==
    /\ 1 <= c /\ 1 <= a /\ 2 * a - 1 + n <= len + 1
    /\ n = 2 * c \/ (n = 2 * c - 1 /\ 2 * a - 1 + n = len + 1)

LEMMA LeftFits ==
    ASSUME NEW len \in Nat, NEW c \in Nat, NEW n \in Nat, NEW a \in Nat, Fits(len, c, n, a),
           NEW k \in 1..(c - 1), c <= 2 * k
    PROVE  /\ 2 * k \in Nat /\ n > 1 /\ 2 * k < n /\ n <= 2 * (2 * k)
           /\ Fits(len, k, 2 * k, a)
BY DEF Fits

LEMMA RightFits ==
    ASSUME NEW len \in Nat, NEW c \in Nat, NEW n \in Nat, NEW a \in Nat, Fits(len, c, n, a),
           NEW k \in 1..(c - 1), c <= 2 * k
    PROVE  /\ n - 2 * k \in Nat /\ a + k \in Nat /\ c - k \in 0..(c - 1)
           /\ 2 * (a + k) - 1 = (2 * a - 1) + 2 * k
           /\ Fits(len, c - k, n - 2 * k, a + k)
<1>1. PICK m \in Nat : n = m + 2 * k
  BY DEF Fits
<1>2. PICK b \in Nat : c = b + k /\ 1 <= b
  OBVIOUS
<1>3. n - 2 * k = m /\ c - k = b
  BY <1>1, <1>2
<1>4. 2 * (a + k) - 1 = (2 * a - 1) + 2 * k
  OBVIOUS
<1>5. 2 * (a + k) - 1 + m = 2 * a - 1 + n
  BY <1>1
<1>6. m = 2 * b \/ (m = 2 * b - 1 /\ n = 2 * c - 1)
  <2>1. 2 * c = 2 * b + 2 * k
    BY <1>2
  <2>2. n = 2 * c \/ n = 2 * c - 1
    BY DEF Fits
  <2> QED  BY <1>1, <2>1, <2>2
<1>7. Fits(len, b, m, a + k)
  BY <1>2, <1>5, <1>6 DEF Fits
<1> QED  BY <1>2, <1>3, <1>4, <1>7

\* A slice that begins at an odd place, and ends at an even one or with the list, has
\* the root of the slice it is halved to.
LEMMA HalvedSubtree ==
    ASSUME NEW h, Len(h) \in Nat
    PROVE  \A c \in Nat : \A n \in Nat, a \in Nat :
              Fits(Len(h), c, n, a) => Subtree(Halved(h))[c][a] = Subtree(h)[n][2 * a - 1]
<1> DEFINE P(c, n, a) == Fits(Len(h), c, n, a) => Subtree(Halved(h))[c][a] = Subtree(h)[n][2 * a - 1]
           S == {c \in Nat : \A n \in Nat, a \in Nat : P(c, n, a)}
<1>1. ASSUME NEW c \in Nat, \A k \in 0..(c - 1) : k \in S PROVE c \in S
  <2> SUFFICES ASSUME NEW n \in Nat, NEW a \in Nat, Fits(Len(h), c, n, a)
               PROVE  Subtree(Halved(h))[c][a] = Subtree(h)[n][2 * a - 1]
    OBVIOUS
  <2>0. \A k \in 0..(c - 1) : \A m \in Nat, b \in Nat : P(k, m, b)
    <3> HIDE DEF P
    <3> QED  BY <1>1
  <2> HIDE DEF S
  <2>1. PICK len \in Nat : /\ Len(h) = 2 * len \/ Len(h) = 2 * len - 1
                           /\ Len(Halved(h)) = len
                           /\ \A i \in 1..len : Halved(h)[i] =
                                 IF 2 * i <= Len(h) THEN NodeHash(h[2 * i - 1], h[2 * i])
                                 ELSE h[2 * i - 1]
    BY HalvedAt
  <2>2. /\ c \in 0..len /\ n \in 0..Len(h) /\ 1 <= c /\ 1 <= a /\ a \in 1..len
        /\ 2 * a - 1 \in Nat
    BY <2>1 DEF Fits
  <2>3. CASE c = 1
    <3>1. Subtree(Halved(h))[c][a] = Halved(h)[a]
      BY <2>1, <2>2, <2>3, SubtreeAt
    <3>2. CASE n = 1
      <4>1. ~(2 * a <= Len(h))
        BY <2>3, <3>2 DEF Fits
      <4>2. Halved(h)[a] = h[2 * a - 1]
        BY <2>1, <2>2, <4>1
      <4>3. Subtree(h)[n][2 * a - 1] = h[2 * a - 1]
        BY <2>2, <3>2, SubtreeAt
      <4> QED  BY <3>1, <4>2, <4>3
    <3>3. CASE n = 2
      <4>1. 2 * a <= Len(h)
        BY <2>3, <3>3 DEF Fits
      <4>2. Halved(h)[a] = NodeHash(h[2 * a - 1], h[2 * a])
        BY <2>1, <2>2, <4>1
      <4>3. Split(n) = 1
        BY <3>3, SplitIsPower
      <4>4. n - 1 = 1 /\ (2 * a - 1) + 1 = 2 * a /\ 2 * a \in Nat /\ 1 \in 0..Len(h) /\ n > 1
        BY <2>2, <3>3
      <4>5. Subtree(h)[n][2 * a - 1] = NodeHash(Subtree(h)[1][2 * a - 1], Subtree(h)[1][2 * a])
        <5>1. PICK b \in Nat : b = 2 * a - 1
          BY <2>2
        <5>2. n \in 0..Len(h)
          BY <2>2
        <5>3. Subtree(h)[n][b] = NodeHash(Subtree(h)[Split(n)][b], Subtree(h)[n - Split(n)][b + Split(n)])
          BY <4>4, <5>2, SubtreeOfMany
        <5>4. Subtree(h)[n][b] = NodeHash(Subtree(h)[1][b], Subtree(h)[1][b + 1])
          BY <4>3, <4>4, <5>3
        <5> QED  BY <4>4, <5>1, <5>4, Zenon
      <4>6. Subtree(h)[1][2 * a - 1] = h[2 * a - 1]
        BY <2>2, <4>4, SubtreeAt
      <4>7. Subtree(h)[1][2 * a] = h[2 * a]
        BY <4>4, SubtreeAt
      <4> QED  BY <3>1, <4>2, <4>5, <4>6, <4>7
    <3>4. n = 1 \/ n = 2
      BY <2>3 DEF Fits
    <3> QED  BY <3>2, <3>3, <3>4
  <2>4. CASE c > 1
    <3>1. PICK k \in Nat : k = Split(c) /\ k \in 1..(c - 1) /\ c - k \in 1..(c - 1) /\ c - k \in Nat
      BY <2>4, Halves
    <3>2. PICK e \in Nat : k = Power[e]
      BY <2>4, <3>1, SplitIsPower
    <3>3. c <= 2 * k
      BY <2>4, <3>1, SplitIsPower
    <3>4. Power[e + 1] = 2 * k
      BY <3>2, PowerNext
    <3>5. n > 1 /\ 2 * k < n /\ n <= 2 * (2 * k) /\ 2 * k \in Nat
      BY <3>1, <3>3, LeftFits
    <3>6. Split(n) = 2 * k
      BY <3>4, <3>5, PowerSplits
    <3>7. Subtree(Halved(h))[c][a] = NodeHash(Subtree(Halved(h))[k][a], Subtree(Halved(h))[c - k][a + k])
      BY <2>1, <2>2, <2>4, <3>1, SubtreeOfMany
    <3>8. Subtree(h)[n][2 * a - 1] = NodeHash(Subtree(h)[2 * k][2 * a - 1],
                                              Subtree(h)[n - 2 * k][(2 * a - 1) + 2 * k])
      <4>1. PICK w : w = 2 * k
        OBVIOUS
      <4>2. PICK b \in Nat : b = 2 * a - 1
        BY <2>2
      <4>3. Subtree(h)[n][b] = NodeHash(Subtree(h)[w][b], Subtree(h)[n - w][b + w])
        <5>1. n \in 0..Len(h) /\ n > 1
          BY <2>2, <3>5
        <5>2. Subtree(h)[n][b] = NodeHash(Subtree(h)[Split(n)][b], Subtree(h)[n - Split(n)][b + Split(n)])
          BY <5>1, SubtreeOfMany
        <5> QED  BY <3>6, <4>1, <5>2, Zenon
      <4> QED  BY <4>1, <4>2, <4>3, Zenon
    <3>9. Subtree(Halved(h))[k][a] = Subtree(h)[2 * k][2 * a - 1]
      <4>1. P(k, 2 * k, a)
        <5> HIDE DEF P
        <5> QED  BY <2>0, <3>1, <3>5
      <4>2. Fits(Len(h), k, 2 * k, a)
        BY <3>1, <3>3, LeftFits
      <4> QED  BY <4>1, <4>2
    <3>10. Subtree(Halved(h))[c - k][a + k] = Subtree(h)[n - 2 * k][2 * (a + k) - 1]
      <4>1. n - 2 * k \in Nat /\ a + k \in Nat /\ c - k \in 0..(c - 1)
            /\ Fits(Len(h), c - k, n - 2 * k, a + k)
        BY <3>1, <3>3, RightFits
      <4>2. P(c - k, n - 2 * k, a + k)
        <5> HIDE DEF P
        <5> QED  BY <2>0, <4>1
      <4> QED  BY <4>1, <4>2
    <3>11. 2 * (a + k) - 1 = (2 * a - 1) + 2 * k
      BY <3>1, <3>3, RightFits
    <3> QED  BY <3>7, <3>8, <3>9, <3>10, <3>11
  <2>5. 1 <= c
    BY DEF Fits
  <2> QED  BY <2>5, <2>3, <2>4
<1> HIDE DEF S, P
<1>2. \A n \in Nat : n \in S
  BY <1>1, Induction
<1>3. \A c \in Nat : \A n \in Nat, a \in Nat : P(c, n, a)
  BY <1>2 DEF S
<1> QED  BY <1>3 DEF P

LEMMA HalvedRoot ==
    ASSUME NEW h, Len(h) \in Nat, 1 <= Len(h)
    PROVE  /\ Root(Halved(h)) = Root(h)
           /\ Len(Halved(h)) \in Nat /\ 1 <= Len(Halved(h))
           /\ Len(Halved(h)) < Len(h) \/ Len(Halved(h)) = 1
<1>1. PICK c \in Nat : (Len(h) = 2 * c \/ Len(h) = 2 * c - 1) /\ Len(Halved(h)) = c
  BY HalvedAt
<1>2. 1 <= c /\ (c < Len(h) \/ c = 1)
  BY <1>1
<1> DEFINE P(b, n, a) ==
              Fits(Len(h), b, n, a) => Subtree(Halved(h))[b][a] = Subtree(h)[n][2 * a - 1]
<1>3. \A b \in Nat : \A n \in Nat, a \in Nat : P(b, n, a)
  BY HalvedSubtree
<1> HIDE DEF P
<1>4. P(c, Len(h), 1)
  BY <1>3
<1>5. Subtree(Halved(h))[c][1] = Subtree(h)[Len(h)][2 * 1 - 1]
  <2>1. Fits(Len(h), c, Len(h), 1)
    BY <1>1, <1>2 DEF Fits
  <2> QED  BY <1>4, <2>1 DEF P
<1>6. 2 * 1 - 1 = 1
  OBVIOUS
<1> QED  BY <1>1, <1>2, <1>5, <1>6 DEF Root

LEMMA RootByLevelsIsRoot ==
    ASSUME NEW T, NEW h \in Seq(T)
    PROVE  Root(h) = RootByLevels(h)
<1>1. CASE h = << >>
  <2>1. Len(h) = 0 /\ 0 \in 0..Len(h) /\ 1 \in Nat
    BY <1>1
  <2>2. Subtree(h)[0][1] = EmptyHash
    BY <2>1, SubtreeAt
  <2> QED  BY <1>1, <2>1, <2>2 DEF Root, RootByLevels
<1>2. CASE h # << >>
  <2> DEFINE L == Levels(h)
             Q(j) == /\ Root(L[j]) = Root(h)
                     /\ Len(L[j]) \in Nat /\ 1 <= Len(L[j])
                     /\ Len(L[j]) + j <= Len(h) \/ Len(L[j]) = 1
             S == {j \in Nat : j <= Len(h) => Q(j)}
  <2>0. Len(h) \in Nat /\ 1 <= Len(h)
    BY <1>2
  <2>1. \A n \in 0..Len(h) : L[n] = LevelsOf(L, h, n)
    BY <2>0, LevelsDefined
  <2>2. L[0] = h /\ \A n \in Nat : n + 1 <= Len(h) => L[n + 1] = Halved(L[n])
    <3>1. L[0] = h
      BY <2>0, <2>1 DEF LevelsOf
    <3>2. ASSUME NEW n \in Nat, n + 1 <= Len(h) PROVE L[n + 1] = Halved(L[n])
      <4>1. n + 1 \in 0..Len(h) /\ n + 1 # 0 /\ (n + 1) - 1 = n
        BY <2>0, <3>2
      <4>2. L[n + 1] = LevelsOf(L, h, n + 1)
        BY <2>1, <4>1
      <4> QED  BY <4>1, <4>2 DEF LevelsOf
    <3> QED  BY <3>1, <3>2
  <2> HIDE DEF L
  <2>3. 0 \in S
    BY <2>0, <2>2
  <2>4. ASSUME NEW j \in Nat, j \in S PROVE j + 1 \in S
    <3> SUFFICES ASSUME j + 1 <= Len(h) PROVE Q(j + 1)
      <4> HIDE DEF Q
      <4> QED  OBVIOUS
    <3>1. Q(j)
      <4> HIDE DEF Q
      <4> QED  BY <2>0, <2>4
    <3> HIDE DEF S
    <3>2. PICK g, f : g = L[j] /\ f = L[j + 1] /\ f = Halved(g)
      BY <2>2
    <3>3. /\ Root(g) = Root(h) /\ Len(g) \in Nat /\ 1 <= Len(g)
          /\ Len(g) + j <= Len(h) \/ Len(g) = 1
      BY <3>1, <3>2
    <3>4. /\ Root(f) = Root(g) /\ Len(f) \in Nat /\ 1 <= Len(f)
          /\ Len(f) < Len(g) \/ Len(f) = 1
      BY <3>2, <3>3, HalvedRoot
    <3>5. /\ Root(f) = Root(h) /\ Len(f) \in Nat /\ 1 <= Len(f)
          /\ Len(f) + (j + 1) <= Len(h) \/ Len(f) = 1
      <4>1. PICK x \in Nat, y \in Nat, z \in Nat : x = Len(f) /\ y = Len(g) /\ z = Len(h)
        BY <2>0, <3>3, <3>4
      <4>2. 1 <= x /\ (x < y \/ x = 1) /\ (y + j <= z \/ y = 1)
        BY <3>3, <3>4, <4>1
      <4>3. x + (j + 1) <= z \/ x = 1
        BY <4>2
      <4> QED  BY <3>3, <3>4, <4>1, <4>3
    <3> QED  BY <3>2, <3>5
  <2> HIDE DEF S, Q
  <2>5. \A n \in Nat : n \in S
    BY <2>3, <2>4, StepByStep
  <2>6. Root(L[Len(h)]) = Root(h) /\ Len(L[Len(h)]) = 1
    BY <2>0, <2>5 DEF S, Q
  <2>7. Root(L[Len(h)]) = L[Len(h)][1]
    <3> DEFINE top == L[Len(h)]
    <3>1. Len(top) = 1
      BY <2>6
    <3> HIDE DEF top
    <3>2. Len(top) \in Nat /\ 1 \in 0..Len(top) /\ 1 \in Nat
      BY <3>1
    <3>3. Subtree(top)[1][1] = top[1]
      BY <3>2, SubtreeAt
    <3> QED  BY <3>1, <3>3 DEF Root, top
  <2> QED  BY <1>2, <2>6, <2>7 DEF RootByLevels, L
<1> QED  BY <1>1, <1>2

\* Whatever was appended, the root is the one that pairing the leaves level by level gives.
THEOREM RootCorrect == TreeSpec => []RootIsByLevels
<1>1. HashesInv => RootIsByLevels
  BY RootByLevelsIsRoot DEF HashesInv, RootIsByLevels
<1> QED  BY <1>1, HashesCorrect, PTL

-----------------------------------------------------------------------------
(* merkle.rs and merkle.py: one root, one path.                              *)

LEMMA SameNode == ASSUME NEW a, NEW b PROVE Irf!node_hash(a, b) = NodeHash(a, b)
BY DEF Irf!node_hash, NodeHash

LEMMA SameRoots ==
    ASSUME NEW h, Len(h) \in Nat
    PROVE  \A n \in 1..Len(h) : \A at \in Nat : Irf!SliceRoot(h)[n][at] = Subtree(h)[n][at]
<1> DEFINE P(n, at) == Irf!SliceRoot(h)[n][at] = Subtree(h)[n][at]
           S == {n \in Nat : n \in 1..Len(h) => \A at \in Nat : P(n, at)}
<1>1. ASSUME NEW n \in Nat, \A k \in 0..(n - 1) : k \in S PROVE n \in S
  <2> SUFFICES ASSUME n \in 1..Len(h), NEW at \in Nat
               PROVE  Irf!SliceRoot(h)[n][at] = Subtree(h)[n][at]
    OBVIOUS
  <2>0. \A k \in 1..(n - 1) : \A a \in Nat : P(k, a)
    <3> HIDE DEF P
    <3> QED  BY <1>1
  <2> HIDE DEF S, P
  <2>1. Irf!SliceRoot(h)[n] = SliceRootOf(Irf!SliceRoot(h), h, n)
    BY SliceRootDefined
  <2>2. Irf!SliceRoot(h)[n][at] =
           IF n = 1 THEN h[at]
           ELSE Irf!node_hash(Irf!SliceRoot(h)[Irf!split_point(n)][at],
                              Irf!SliceRoot(h)[n - Irf!split_point(n)][at + Irf!split_point(n)])
    BY <2>1 DEF SliceRootOf
  <2>3. n \in 0..Len(h)
    OBVIOUS
  <2>4. CASE n = 1
    <3>1. Subtree(h)[n][at] = h[at]
      BY <2>3, <2>4, SubtreeAt
    <3> QED  BY <2>2, <2>4, <3>1
  <2>5. CASE n > 1
    <3>1. PICK k \in Nat : k = Split(n) /\ k \in 1..(n - 1) /\ n - k \in 1..(n - 1) /\ n - k \in Nat
      BY <2>5, Halves
    <3>2. Irf!split_point(n) = k
      BY <2>5, <3>1, SameSplit
    <3>3. P(k, at) /\ P(n - k, at + k)
      BY <2>0, <3>1
    <3>4. Subtree(h)[n][at] = NodeHash(Subtree(h)[k][at], Subtree(h)[n - k][at + k])
      BY <2>3, <2>5, <3>1, SubtreeOfMany
    <3>5. Irf!SliceRoot(h)[n][at] = Irf!node_hash(Irf!SliceRoot(h)[k][at], Irf!SliceRoot(h)[n - k][at + k])
      BY <2>2, <2>5, <3>2
    <3> QED  BY <3>3, <3>4, <3>5, SameNode DEF P
  <2> QED  BY <2>4, <2>5
<1> HIDE DEF S, P
<1>2. \A n \in Nat : n \in S
  BY <1>1, Induction
<1>3. \A n \in 1..Len(h) : \A at \in Nat : P(n, at)
  BY <1>2 DEF S
<1> QED  BY <1>3 DEF P

LeftSiblings(h, n, at, i) ==
    Append(Irf!AuditPaths(h)[Split(n)][at][i], Subtree(h)[n - Split(n)][at + Split(n)])

RightSiblings(h, n, at, i) ==
    Append(Irf!AuditPaths(h)[n - Split(n)][at + Split(n)][i - Split(n)], Subtree(h)[Split(n)][at])

LEMMA AuditPathsAt ==
    ASSUME NEW h, Len(h) \in Nat, NEW n \in 1..Len(h), NEW at \in Nat, NEW i \in 0..(n - 1)
    PROVE  Irf!AuditPaths(h)[n][at][i] =
              IF n = 1 THEN << >>
              ELSE IF i < Split(n) THEN LeftSiblings(h, n, at, i)
              ELSE RightSiblings(h, n, at, i)
<1> DEFINE k == Irf!split_point(n)
           Left(a, j)  == Append(Irf!AuditPaths(h)[k][a][j], Irf!SliceRoot(h)[n - k][a + k])
           Right(a, j) == Append(Irf!AuditPaths(h)[n - k][a + k][j - k], Irf!SliceRoot(h)[k][a])
           All(a, j)   == IF n = 1 THEN << >> ELSE IF j < k THEN Left(a, j) ELSE Right(a, j)
<1>1. Irf!AuditPaths(h)[n] = AuditPathsOf(Irf!AuditPaths(h), h, n)
  BY AuditPathsDefined
<1>2. AuditPathsOf(Irf!AuditPaths(h), h, n) = [a \in Nat |-> [j \in 0..(n - 1) |-> All(a, j)]]
  BY Zenon DEF AuditPathsOf
<1> HIDE DEF All
<1>3. Irf!AuditPaths(h)[n][at][i] = All(at, i)
  BY <1>1, <1>2
<1>4. CASE n = 1
  BY <1>3, <1>4 DEF All
<1>5. CASE n > 1
  <2>1. k = Split(n) /\ k \in 1..(n - 1) /\ n - k \in 1..(n - 1) /\ k \in Nat
    BY <1>5, SameSplit, Halves
  <2>2. k \in 1..Len(h) /\ n - k \in 1..Len(h) /\ at + k \in Nat
    BY <2>1
  <2>3. /\ Irf!SliceRoot(h)[k][at] = Subtree(h)[k][at]
        /\ Irf!SliceRoot(h)[n - k][at + k] = Subtree(h)[n - k][at + k]
    <3> HIDE DEF k
    <3> QED  BY <2>2, SameRoots
  <2>4. Left(at, i) = LeftSiblings(h, n, at, i) /\ Right(at, i) = RightSiblings(h, n, at, i)
    <3> HIDE DEF k
    <3> QED  BY <2>1, <2>3, Zenon DEF LeftSiblings, RightSiblings
  <2> HIDE DEF Left, Right, k
  <2> QED  BY <1>3, <1>5, <2>1, <2>4 DEF All
<1> QED  BY <1>4, <1>5

\* What the paths of merkle.rs are made of.
SubtreesOf(h) == {Subtree(h)[n][at] : n \in 0..Len(h), at \in Nat}

LEMMA SubtreeIn ==
    ASSUME NEW h, Len(h) \in Nat, NEW n \in 0..Len(h), NEW at \in Nat
    PROVE  Subtree(h)[n][at] \in SubtreesOf(h)
BY DEF SubtreesOf

SamePath(hashes, path) ==
    Len(hashes) = Len(path) /\ \A j \in 1..Len(path) : hashes[j] = path[j].hash

LEMMA SamePathLonger ==
    ASSUME NEW S, NEW T, NEW a \in Seq(S), NEW b \in Seq(T), SamePath(a, b),
           NEW x \in S, NEW y \in T, x = y.hash
    PROVE  SamePath(Append(a, x), Append(b, y)) /\ Append(a, x) \in Seq(S)
<1> DEFINE c == Append(a, x)
           d == Append(b, y)
<1>1. /\ c \in Seq(S) /\ Len(c) = Len(a) + 1 /\ \A n \in 1..Len(a) : c[n] = a[n]
      /\ c[Len(a) + 1] = x
  BY AppendOne
<1>2. /\ Len(d) = Len(b) + 1 /\ \A n \in 1..Len(b) : d[n] = b[n]
      /\ d[Len(b) + 1] = y
  BY AppendOne
<1>3. Len(a) = Len(b) /\ Len(b) \in Nat
  BY DEF SamePath
<1> HIDE DEF c, d
<1>4. ASSUME NEW j \in 1..Len(d) PROVE c[j] = d[j].hash
  <2>1. CASE j = Len(b) + 1
    BY <1>1, <1>2, <1>3, <2>1
  <2>2. CASE j # Len(b) + 1
    <3>1. j \in 1..Len(b)
      BY <1>2, <1>3, <2>2
    <3> QED  BY <1>1, <1>2, <1>3, <3>1 DEF SamePath
  <2> QED  BY <2>1, <2>2
<1>5. SamePath(c, d)
  BY <1>1, <1>2, <1>3, <1>4 DEF SamePath
<1> QED  BY <1>1, <1>5 DEF c, d

LEMMA SamePaths ==
    ASSUME NEW h, Len(h) \in Nat
    PROVE  \A n \in 1..Len(h) : \A at \in Nat, i \in 0..(n - 1) :
              /\ Irf!AuditPaths(h)[n][at][i] \in Seq(SubtreesOf(h))
              /\ SamePath(Irf!AuditPaths(h)[n][at][i], Paths(h)[n][at][i + 1])
<1> DEFINE P(n, at, i) ==
              /\ Irf!AuditPaths(h)[n][at][i] \in Seq(SubtreesOf(h))
              /\ SamePath(Irf!AuditPaths(h)[n][at][i], Paths(h)[n][at][i + 1])
           S == {n \in Nat : n \in 1..Len(h) => \A at \in Nat, i \in 0..(n - 1) : P(n, at, i)}
<1>1. ASSUME NEW n \in Nat, \A k \in 0..(n - 1) : k \in S PROVE n \in S
  <2> SUFFICES ASSUME n \in 1..Len(h), NEW at \in Nat, NEW i \in 0..(n - 1)
               PROVE  P(n, at, i)
    <3> HIDE DEF P
    <3> QED  OBVIOUS
  <2>0. \A k \in 1..(n - 1) : \A a \in Nat, j \in 0..(k - 1) : P(k, a, j)
    <3> HIDE DEF P
    <3> QED  BY <1>1
  <2> HIDE DEF S, P
  <2>3. i + 1 \in 1..n
    OBVIOUS
  <2>1. CASE n = 1
    <3>1. Irf!AuditPaths(h)[n][at][i] = << >>
      BY <2>1, AuditPathsAt
    <3>2. Paths(h)[n][at][i + 1] = << >>
      BY <2>3, <2>1, PathsAt
    <3>3. << >> \in Seq(SubtreesOf(h)) /\ SamePath(<< >>, << >>)
      BY DEF SamePath
    <3> QED  BY <3>1, <3>2, <3>3 DEF P
  <2>2. CASE n > 1
    <3>1. PICK k \in Nat : k = Split(n) /\ k \in 1..(n - 1) /\ n - k \in 1..(n - 1) /\ n - k \in Nat
      BY <2>2, Halves
    <3>2. k \in 1..Len(h) /\ n - k \in 1..Len(h) /\ at + k \in Nat
          /\ n - k \in 0..Len(h) /\ k \in 0..Len(h)
      BY <3>1
    <3>3. CASE i < k
      <4> DEFINE rust  == Irf!AuditPaths(h)[k][at][i]
                 below == Paths(h)[k][at][i + 1]
                 hash  == Subtree(h)[n - k][at + k]
                 hop   == [hash |-> hash, right |-> TRUE]
      <4>1. i \in 0..(k - 1) /\ i + 1 \in 1..k /\ i + 1 <= k
        BY <3>1, <3>3
      <4>2. Irf!AuditPaths(h)[n][at][i] = LeftSiblings(h, n, at, i)
        BY <2>2, <3>1, <3>3, AuditPathsAt
      <4>3. Irf!AuditPaths(h)[n][at][i] = Append(rust, hash)
        BY <4>2, <3>1 DEF LeftSiblings
      <4>4. Paths(h)[n][at][i + 1] = LeftPath(h, n, at, i + 1)
        BY <2>3, <3>1, <2>2, <4>1, PathsAt
      <4>5. Paths(h)[n][at][i + 1] = Append(below, hop)
        BY <4>4, <3>1 DEF LeftPath
      <4>6. below \in Seq(Hops(h)) /\ hop \in Hops(h)
        BY <3>2, <4>1, PathsAreSequences, HopIn
      <4>7. rust \in Seq(SubtreesOf(h)) /\ SamePath(rust, below)
        <5>1. P(k, at, i)
          BY <2>0, <3>1, <4>1
        <5> QED  BY <5>1 DEF P
      <4>8. hash \in SubtreesOf(h) /\ hash = hop.hash
        BY <3>2, SubtreeIn
      <4> HIDE DEF rust, below, hash, hop
      <4> QED  BY <4>3, <4>5, <4>6, <4>7, <4>8, SamePathLonger DEF P
    <3>4. CASE ~(i < k)
      <4> DEFINE rust  == Irf!AuditPaths(h)[n - k][at + k][i - k]
                 below == Paths(h)[n - k][at + k][(i + 1) - k]
                 hash  == Subtree(h)[k][at]
                 hop   == [hash |-> hash, right |-> FALSE]
      <4>1. /\ i - k \in 0..((n - k) - 1) /\ (i + 1) - k \in 1..(n - k) /\ ~(i + 1 <= k)
            /\ (i + 1) - k = (i - k) + 1
        BY <3>1, <3>4
      <4>2. Irf!AuditPaths(h)[n][at][i] = RightSiblings(h, n, at, i)
        BY <2>2, <3>1, <3>4, AuditPathsAt
      <4>3. Irf!AuditPaths(h)[n][at][i] = Append(rust, hash)
        BY <4>2, <3>1 DEF RightSiblings
      <4>4. Paths(h)[n][at][i + 1] = RightPath(h, n, at, i + 1)
        <5>1. n # 1 /\ ~(i + 1 <= Split(n))
          BY <2>2, <3>1, <4>1
        <5>2. PICK j \in 1..n : j = i + 1
          BY <2>3
        <5>3. Paths(h)[n][at][j] = RightPath(h, n, at, j)
          BY <5>1, <5>2, PathsAt
        <5> QED  BY <5>2, <5>3
      <4>5. Paths(h)[n][at][i + 1] = Append(below, hop)
        BY <4>4, <3>1 DEF RightPath
      <4>6. below \in Seq(Hops(h)) /\ hop \in Hops(h)
        BY <3>2, <4>1, PathsAreSequences, HopIn
      <4>7. rust \in Seq(SubtreesOf(h)) /\ SamePath(rust, below)
        <5>1. P(n - k, at + k, i - k)
          BY <2>0, <3>1, <3>2, <4>1
        <5> QED  BY <5>1, <4>1 DEF P
      <4>8. hash \in SubtreesOf(h) /\ hash = hop.hash
        BY <3>2, SubtreeIn
      <4> HIDE DEF rust, below, hash, hop
      <4> QED  BY <4>3, <4>5, <4>6, <4>7, <4>8, SamePathLonger DEF P
    <3> QED  BY <3>3, <3>4
  <2> QED  BY <2>1, <2>2
<1> HIDE DEF S, P
<1>2. \A n \in Nat : n \in S
  BY <1>1, Induction
<1>3. \A n \in 1..Len(h) : \A at \in Nat, i \in 0..(n - 1) : P(n, at, i)
  BY <1>2 DEF S
<1> QED  BY <1>3 DEF P

-----------------------------------------------------------------------------
(* The verifier of merkle.rs: it replays the descent from the leaf up.       *)

LEMMA OneBefore ==
    ASSUME NEW S, NEW e \in S, NEW seq \in Seq(S)
    PROVE  /\ <<e>> \o seq \in Seq(S)
           /\ Len(<<e>> \o seq) = Len(seq) + 1
           /\ (<<e>> \o seq)[1] = e
           /\ \A j \in 1..Len(seq) : (<<e>> \o seq)[j + 1] = seq[j]
OBVIOUS

LeftDescent(s, n, i) == <<TRUE>> \o Irf!Descents(s)[Split(n)][i]

RightDescent(s, n, i) == <<FALSE>> \o Irf!Descents(s)[n - Split(n)][i - Split(n)]

LEMMA DescentsAt ==
    ASSUME NEW s \in Nat, NEW n \in 1..s, NEW i \in 0..(n - 1)
    PROVE  Irf!Descents(s)[n][i] =
              IF n = 1 THEN << >>
              ELSE IF i < Split(n) THEN LeftDescent(s, n, i)
              ELSE RightDescent(s, n, i)
<1> DEFINE k == Irf!split_point(n)
           Left(j)  == <<TRUE>> \o Irf!Descents(s)[k][j]
           Right(j) == <<FALSE>> \o Irf!Descents(s)[n - k][j - k]
           All(j)   == IF n = 1 THEN << >> ELSE IF j < k THEN Left(j) ELSE Right(j)
<1>1. Irf!Descents(s)[n] = DescentsOf(Irf!Descents(s), n)
  BY DescentsDefined
<1>2. DescentsOf(Irf!Descents(s), n) = [j \in 0..(n - 1) |-> All(j)]
  BY Zenon DEF DescentsOf
<1> HIDE DEF All
<1>3. Irf!Descents(s)[n][i] = All(i)
  BY <1>1, <1>2
<1>4. CASE n = 1
  BY <1>3, <1>4 DEF All
<1>5. CASE n > 1
  <2>1. k = Split(n)
    BY <1>5, SameSplit
  <2>2. Left(i) = LeftDescent(s, n, i) /\ Right(i) = RightDescent(s, n, i)
    <3> HIDE DEF k
    <3> QED  BY <2>1, Zenon DEF LeftDescent, RightDescent
  <2> HIDE DEF Left, Right, k
  <2> QED  BY <1>3, <1>5, <2>1, <2>2 DEF All
<1> QED  BY <1>4, <1>5

LEMMA DescentsAreSequences ==
    ASSUME NEW s \in Nat
    PROVE  \A n \in 1..s : \A i \in 0..(n - 1) : Irf!Descents(s)[n][i] \in Seq(BOOLEAN)
<1> DEFINE P(n, i) == Irf!Descents(s)[n][i] \in Seq(BOOLEAN)
           S == {n \in Nat : n \in 1..s => \A i \in 0..(n - 1) : P(n, i)}
<1>1. ASSUME NEW n \in Nat, \A k \in 0..(n - 1) : k \in S PROVE n \in S
  <2> SUFFICES ASSUME n \in 1..s, NEW i \in 0..(n - 1) PROVE P(n, i)
    <3> HIDE DEF P
    <3> QED  OBVIOUS
  <2>0. \A k \in 1..(n - 1) : \A j \in 0..(k - 1) : P(k, j)
    <3> HIDE DEF P
    <3> QED  BY <1>1
  <2> HIDE DEF S, P
  <2>1. CASE n = 1
    <3>1. Irf!Descents(s)[n][i] = << >>
      BY <2>1, DescentsAt
    <3> QED  BY <3>1 DEF P
  <2>2. CASE n > 1
    <3>1. PICK k \in Nat : k = Split(n) /\ k \in 1..(n - 1) /\ n - k \in 1..(n - 1) /\ n - k \in Nat
      BY <2>2, Halves
    <3>2. CASE i < k
      <4> DEFINE below == Irf!Descents(s)[k][i]
      <4>1. i \in 0..(k - 1)
        BY <3>1, <3>2
      <4>2. Irf!Descents(s)[n][i] = LeftDescent(s, n, i)
        BY <2>2, <3>1, <3>2, DescentsAt
      <4>3. Irf!Descents(s)[n][i] = <<TRUE>> \o below
        BY <4>2, <3>1 DEF LeftDescent
      <4>4. below \in Seq(BOOLEAN)
        BY <2>0, <3>1, <4>1 DEF P
      <4> HIDE DEF below
      <4> QED  BY <4>3, <4>4, OneBefore DEF P
    <3>3. CASE ~(i < k)
      <4> DEFINE below == Irf!Descents(s)[n - k][i - k]
      <4>1. i - k \in 0..((n - k) - 1)
        BY <3>1, <3>3
      <4>2. Irf!Descents(s)[n][i] = RightDescent(s, n, i)
        BY <2>2, <3>1, <3>3, DescentsAt
      <4>3. Irf!Descents(s)[n][i] = <<FALSE>> \o below
        BY <4>2, <3>1 DEF RightDescent
      <4>4. below \in Seq(BOOLEAN)
        BY <2>0, <3>1, <4>1 DEF P
      <4> HIDE DEF below
      <4> QED  BY <4>3, <4>4, OneBefore DEF P
    <3> QED  BY <3>2, <3>3
  <2> QED  BY <2>1, <2>2
<1> HIDE DEF S, P
<1>2. \A n \in Nat : n \in S
  BY <1>1, Induction
<1>3. \A n \in 1..s : \A i \in 0..(n - 1) : P(n, i)
  BY <1>2 DEF S
<1> QED  BY <1>3 DEF P

LEMMA ReplayAt ==
    ASSUME NEW leaf, NEW decisions, NEW proof, Len(proof) \in Nat
    PROVE  /\ Irf!Replay(leaf, decisions, proof)[0] = leaf
           /\ \A step \in 1..Len(proof) :
                 Irf!Replay(leaf, decisions, proof)[step] =
                    IF decisions[Len(decisions) - step + 1]
                    THEN NodeHash(Irf!Replay(leaf, decisions, proof)[step - 1], proof[step])
                    ELSE NodeHash(proof[step], Irf!Replay(leaf, decisions, proof)[step - 1])
<1> DEFINE up == Irf!Replay(leaf, decisions, proof)
<1>1. \A n \in 0..Len(proof) : up[n] = ReplayOf(up, leaf, decisions, proof, n)
  BY ReplayDefined
<1> HIDE DEF up
<1>2. up[0] = leaf
  BY <1>1 DEF ReplayOf
<1>3. ASSUME NEW step \in 1..Len(proof)
      PROVE  up[step] = IF decisions[Len(decisions) - step + 1]
                        THEN NodeHash(up[step - 1], proof[step])
                        ELSE NodeHash(proof[step], up[step - 1])
  <2>1. step # 0 /\ up[step] = ReplayOf(up, leaf, decisions, proof, step)
    BY <1>1
  <2> QED  BY <2>1, SameNode DEF ReplayOf
<1> QED  BY <1>2, <1>3 DEF up

\* The descent through a slice is what the decisions are from the d-th on.
Continues(decisions, d, descent) ==
    /\ Len(decisions) = d + Len(descent)
    /\ \A j \in 1..Len(descent) : decisions[d + j] = descent[j]

LEMMA DescendOne ==
    ASSUME NEW decisions, NEW d \in Nat, NEW side \in BOOLEAN, NEW below \in Seq(BOOLEAN),
           NEW proof, Len(proof) \in Nat, Len(proof) = Len(decisions),
           Continues(decisions, d, <<side>> \o below)
    PROVE  /\ Continues(decisions, d + 1, below) /\ decisions[d + 1] = side
           /\ Len(proof) = d + 1 + Len(below) /\ Len(below) \in Nat
<1> DEFINE desc == <<side>> \o below
<1>1. /\ Len(desc) = Len(below) + 1 /\ desc[1] = side
      /\ \A j \in 1..Len(below) : desc[j + 1] = below[j]
  BY OneBefore
<1>2. Len(decisions) = d + Len(desc) /\ \A j \in 1..Len(desc) : decisions[d + j] = desc[j]
  BY DEF Continues
<1> HIDE DEF desc
<1>3. Len(below) \in Nat
  OBVIOUS
<1>4. decisions[d + 1] = side
  BY <1>1, <1>2, <1>3
<1>5. ASSUME NEW j \in 1..Len(below) PROVE decisions[(d + 1) + j] = below[j]
  <2>1. j + 1 \in 1..Len(desc) /\ d + (j + 1) = (d + 1) + j
    BY <1>1, <1>3
  <2> QED  BY <1>1, <1>2, <2>1
<1> QED  BY <1>1, <1>2, <1>3, <1>4, <1>5 DEF Continues

\* The half of a slice that a leaf is in, and the root of the other half.
IsHalf(h, n, at, i, m, from, j, side, hash) ==
    /\ m \in 1..(n - 1) /\ from \in Nat /\ j \in 0..(m - 1) /\ from + j = at + i
    /\ side \in BOOLEAN /\ hash \in SubtreesOf(h)
    /\ Irf!Descents(Len(h))[n][i] = <<side>> \o Irf!Descents(Len(h))[m][j]
    /\ Irf!AuditPaths(h)[n][at][i] = Append(Irf!AuditPaths(h)[m][from][j], hash)
    /\ Subtree(h)[n][at] = IF side THEN NodeHash(Subtree(h)[m][from], hash)
                           ELSE NodeHash(hash, Subtree(h)[m][from])

LEMMA HalfOf ==
    ASSUME NEW h, Len(h) \in Nat, NEW n \in 1..Len(h), n > 1, NEW at \in Nat,
           NEW i \in 0..(n - 1)
    PROVE  \E m, from, j, side, hash : IsHalf(h, n, at, i, m, from, j, side, hash)
<1>1. PICK k \in Nat : k = Split(n) /\ k \in 1..(n - 1) /\ n - k \in 1..(n - 1) /\ n - k \in Nat
  BY Halves
<1>2. n \in 0..Len(h) /\ k \in 0..Len(h) /\ n - k \in 0..Len(h) /\ at + k \in Nat /\ n # 1
  BY <1>1
<1>3. Subtree(h)[n][at] = NodeHash(Subtree(h)[k][at], Subtree(h)[n - k][at + k])
  BY <1>1, <1>2, SubtreeOfMany
<1>4. Subtree(h)[n - k][at + k] \in SubtreesOf(h) /\ Subtree(h)[k][at] \in SubtreesOf(h)
  BY <1>2, SubtreeIn
<1>5. CASE i < k
  <2>1. i \in 0..(k - 1)
    BY <1>1, <1>5
  <2>2. Irf!Descents(Len(h))[n][i] = LeftDescent(Len(h), n, i)
    BY <1>1, <1>2, <1>5, DescentsAt
  <2>3. Irf!Descents(Len(h))[n][i] = <<TRUE>> \o Irf!Descents(Len(h))[k][i]
    BY <2>2, <1>1, Zenon DEF LeftDescent
  <2>4. Irf!AuditPaths(h)[n][at][i] = LeftSiblings(h, n, at, i)
    <3>1. n # 1 /\ i < Split(n)
      BY <1>1, <1>2, <1>5
    <3> QED  BY <3>1, AuditPathsAt
  <2>5. Irf!AuditPaths(h)[n][at][i] = Append(Irf!AuditPaths(h)[k][at][i], Subtree(h)[n - k][at + k])
    BY <2>4, <1>1, Zenon DEF LeftSiblings
  <2>6. IsHalf(h, n, at, i, k, at, i, TRUE, Subtree(h)[n - k][at + k])
    BY <1>1, <1>3, <1>4, <2>1, <2>3, <2>5, Zenon DEF IsHalf
  <2> QED  BY <2>6
<1>6. CASE ~(i < k)
  <2>1. i - k \in 0..((n - k) - 1) /\ (at + k) + (i - k) = at + i
    BY <1>1, <1>6
  <2>2. Irf!Descents(Len(h))[n][i] = RightDescent(Len(h), n, i)
    BY <1>1, <1>2, <1>6, DescentsAt
  <2>3. Irf!Descents(Len(h))[n][i] = <<FALSE>> \o Irf!Descents(Len(h))[n - k][i - k]
    BY <2>2, <1>1, Zenon DEF RightDescent
  <2>4. Irf!AuditPaths(h)[n][at][i] = RightSiblings(h, n, at, i)
    <3>1. n # 1 /\ ~(i < Split(n))
      BY <1>1, <1>2, <1>6
    <3> QED  BY <3>1, AuditPathsAt
  <2>5. Irf!AuditPaths(h)[n][at][i] = Append(Irf!AuditPaths(h)[n - k][at + k][i - k], Subtree(h)[k][at])
    BY <2>4, <1>1, Zenon DEF RightSiblings
  <2>6. IsHalf(h, n, at, i, n - k, at + k, i - k, FALSE, Subtree(h)[k][at])
    BY <1>1, <1>2, <1>3, <1>4, <2>1, <2>3, <2>5, Zenon DEF IsHalf
  <2> QED  BY <2>6
<1> QED  BY <1>5, <1>6

\* What the replay of a path says of a slice: it leads to its root from the leaf that
\* the decisions name, with the path of that leaf, and from no other leaf.
Leads(up, h, leaf, proof, n, at, i, d) ==
    /\ up[Len(proof) - d] = Subtree(h)[n][at] => leaf = h[at + i]
    /\ leaf = h[at + i] /\ Begins(proof, Irf!AuditPaths(h)[n][at][i])
       => /\ up[Len(proof) - d] = Subtree(h)[n][at]
          /\ Len(Irf!AuditPaths(h)[n][at][i]) = Len(proof) - d

LEMMA ReplayDecides ==
    ASSUME NEW h, Len(h) \in Nat, NEW leaf, NEW decisions, NEW proof,
           Len(proof) \in Nat, Len(proof) = Len(decisions)
    PROVE  \A n \in 1..Len(h) : \A at \in Nat, i \in 0..(n - 1), d \in Nat :
              Continues(decisions, d, Irf!Descents(Len(h))[n][i])
              => Leads(Irf!Replay(leaf, decisions, proof), h, leaf, proof, n, at, i, d)
<1> DEFINE up == Irf!Replay(leaf, decisions, proof)
           P(n, at, i, d) == Continues(decisions, d, Irf!Descents(Len(h))[n][i])
                             => Leads(up, h, leaf, proof, n, at, i, d)
           S == {n \in Nat : n \in 1..Len(h) =>
                    \A at \in Nat, i \in 0..(n - 1), d \in Nat : P(n, at, i, d)}
<1>0. /\ up[0] = leaf
      /\ \A step \in 1..Len(proof) :
            up[step] = IF decisions[Len(decisions) - step + 1]
                       THEN NodeHash(up[step - 1], proof[step])
                       ELSE NodeHash(proof[step], up[step - 1])
  BY ReplayAt
<1> HIDE DEF up
<1>1. ASSUME NEW n \in Nat, \A k \in 0..(n - 1) : k \in S PROVE n \in S
  <2> SUFFICES ASSUME n \in 1..Len(h), NEW at \in Nat, NEW i \in 0..(n - 1), NEW d \in Nat
               PROVE  P(n, at, i, d)
    <3> HIDE DEF P
    <3> QED  OBVIOUS
  <2>1. \A k \in 1..(n - 1) : \A a \in Nat, j \in 0..(k - 1), e \in Nat : P(k, a, j, e)
    <3> HIDE DEF P
    <3> QED  BY <1>1
  <2> HIDE DEF S
  <2> SUFFICES ASSUME Continues(decisions, d, Irf!Descents(Len(h))[n][i])
               PROVE  Leads(up, h, leaf, proof, n, at, i, d)
    OBVIOUS
  <2> HIDE DEF P
  <2>2. CASE n = 1
    <3>1. Irf!Descents(Len(h))[n][i] = << >>
      BY <2>2, DescentsAt
    <3>2. Irf!AuditPaths(h)[n][at][i] = << >>
      BY <2>2, AuditPathsAt
    <3>3. Len(<< >>) = 0 /\ at + i = at
      BY <2>2
    <3>4. Len(proof) - d = 0
      BY <3>1, <3>3 DEF Continues
    <3>5. 1 \in 0..Len(h)
      BY <2>2
    <3>6. Subtree(h)[n][at] = h[at]
      BY <2>2, <3>5, SubtreeAt
    <3> QED  BY <1>0, <3>2, <3>3, <3>4, <3>6 DEF Leads
  <2>3. CASE n > 1
    <3>1. PICK m, from, j, side, hash : IsHalf(h, n, at, i, m, from, j, side, hash)
      BY <2>3, HalfOf, Zenon
    <3> DEFINE below == Irf!Descents(Len(h))[m][j]
               path  == Irf!AuditPaths(h)[m][from][j]
               part  == Subtree(h)[m][from]
    <3>2. /\ m \in 1..(n - 1) /\ from \in Nat /\ j \in 0..(m - 1) /\ from + j = at + i
          /\ side \in BOOLEAN /\ hash \in SubtreesOf(h)
      BY <3>1, Zenon DEF IsHalf
    <3>3. Irf!Descents(Len(h))[n][i] = <<side>> \o below
      BY <3>1, Zenon DEF IsHalf
    <3>4. Irf!AuditPaths(h)[n][at][i] = Append(path, hash)
      BY <3>1, Zenon DEF IsHalf
    <3>5. Subtree(h)[n][at] = IF side THEN NodeHash(part, hash) ELSE NodeHash(hash, part)
      BY <3>1, Zenon DEF IsHalf
    <3>6. m \in 1..Len(h)
      BY <3>2
    <3>7. below \in Seq(BOOLEAN)
      BY <3>2, <3>6, DescentsAreSequences
    <3>8. path \in Seq(SubtreesOf(h))
      BY <3>2, <3>6, SamePaths
    <3>9. Continues(decisions, d + 1, below) => Leads(up, h, leaf, proof, m, from, j, d + 1)
      <4>1. P(m, from, j, d + 1)
        BY <2>1, <3>2
      <4> QED  BY <4>1 DEF P
    <3>10. /\ Continues(decisions, d + 1, below) /\ decisions[d + 1] = side
           /\ Len(proof) = d + 1 + Len(below) /\ Len(below) \in Nat
      <4> HIDE DEF below
      <4>1. Continues(decisions, d, <<side>> \o below)
        BY <3>3
      <4> QED  BY <3>2, <3>7, <4>1, DescendOne
    <3>11. /\ up[Len(proof) - (d + 1)] = part => leaf = h[at + i]
           /\ leaf = h[at + i] /\ Begins(proof, path)
              => up[Len(proof) - (d + 1)] = part /\ Len(path) = Len(proof) - (d + 1)
      BY <3>2, <3>9, <3>10, Zenon DEF Leads
    <3> HIDE DEF below, path, part
    <3>12. PICK step \in 1..Len(proof) : step = Len(proof) - d /\ step - 1 = Len(proof) - (d + 1)
      BY <3>10
    <3>13. Len(decisions) - step + 1 = d + 1
      BY <3>12
    <3>14. up[step] = IF side THEN NodeHash(up[step - 1], proof[step])
                      ELSE NodeHash(proof[step], up[step - 1])
      BY <1>0, <3>10, <3>13
    <3>15. up[step] = Subtree(h)[n][at] => leaf = h[at + i]
      <4>1. CASE side
        BY <3>5, <3>11, <3>12, <3>14, <4>1, NodesDiffer
      <4>2. CASE ~side
        BY <3>5, <3>11, <3>12, <3>14, <4>2, NodesDiffer
      <4> QED  BY <4>1, <4>2
    <3>16. ASSUME leaf = h[at + i], Begins(proof, Append(path, hash))
           PROVE  up[step] = Subtree(h)[n][at] /\ Len(Append(path, hash)) = step
      <4>1. Begins(proof, path) /\ proof[Len(path) + 1] = hash
        BY <3>2, <3>8, <3>16, BeginsWithAppend
      <4>2. up[step - 1] = part /\ Len(path) = step - 1
        BY <3>11, <3>12, <3>16, <4>1
      <4>3. Len(Append(path, hash)) = Len(path) + 1
        BY <3>2, <3>8, AppendOne
      <4>4. Len(path) + 1 = step
        BY <4>2
      <4> QED  BY <3>5, <3>14, <4>1, <4>2, <4>3, <4>4
    <3> QED  BY <3>4, <3>12, <3>15, <3>16, Zenon DEF Leads
  <2> QED  BY <2>2, <2>3
<1> HIDE DEF S, P
<1>2. \A n \in Nat : n \in S
  BY <1>1, Induction
<1>3. \A n \in 1..Len(h) : \A at \in Nat, i \in 0..(n - 1), d \in Nat : P(n, at, i, d)
  BY <1>2 DEF S
<1> QED  BY <1>3 DEF P, up

LEMMA PathAsLongAsDescent ==
    ASSUME NEW h, Len(h) \in Nat
    PROVE  \A n \in 1..Len(h) : \A at \in Nat, i \in 0..(n - 1) :
              Len(Irf!AuditPaths(h)[n][at][i]) = Len(Irf!Descents(Len(h))[n][i])
<1> DEFINE P(n, at, i) == Len(Irf!AuditPaths(h)[n][at][i]) = Len(Irf!Descents(Len(h))[n][i])
           S == {n \in Nat : n \in 1..Len(h) => \A at \in Nat, i \in 0..(n - 1) : P(n, at, i)}
<1>1. ASSUME NEW n \in Nat, \A k \in 0..(n - 1) : k \in S PROVE n \in S
  <2> SUFFICES ASSUME n \in 1..Len(h), NEW at \in Nat, NEW i \in 0..(n - 1) PROVE P(n, at, i)
    <3> HIDE DEF P
    <3> QED  OBVIOUS
  <2>1. \A k \in 1..(n - 1) : \A a \in Nat, j \in 0..(k - 1) : P(k, a, j)
    <3> HIDE DEF P
    <3> QED  BY <1>1
  <2> HIDE DEF S, P
  <2>2. CASE n = 1
    <3>1. Irf!Descents(Len(h))[n][i] = << >>
      BY <2>2, DescentsAt
    <3>2. Irf!AuditPaths(h)[n][at][i] = << >>
      BY <2>2, AuditPathsAt
    <3> QED  BY <3>1, <3>2 DEF P
  <2>3. CASE n > 1
    <3>1. PICK m, from, j, side, hash : IsHalf(h, n, at, i, m, from, j, side, hash)
      BY <2>3, HalfOf, Zenon
    <3> DEFINE below == Irf!Descents(Len(h))[m][j]
               path  == Irf!AuditPaths(h)[m][from][j]
    <3>2. /\ m \in 1..(n - 1) /\ from \in Nat /\ j \in 0..(m - 1)
          /\ side \in BOOLEAN /\ hash \in SubtreesOf(h)
      BY <3>1, Zenon DEF IsHalf
    <3>3. Irf!Descents(Len(h))[n][i] = <<side>> \o below
      BY <3>1, Zenon DEF IsHalf
    <3>4. Irf!AuditPaths(h)[n][at][i] = Append(path, hash)
      BY <3>1, Zenon DEF IsHalf
    <3>5. m \in 1..Len(h)
      BY <3>2
    <3>6. below \in Seq(BOOLEAN)
      BY <3>2, <3>5, DescentsAreSequences
    <3>7. path \in Seq(SubtreesOf(h))
      BY <3>2, <3>5, SamePaths
    <3>8. Len(path) = Len(below)
      BY <2>1, <3>2 DEF P
    <3> HIDE DEF below, path
    <3>9. Len(<<side>> \o below) = Len(below) + 1 /\ Len(Append(path, hash)) = Len(path) + 1
      BY <3>2, <3>6, <3>7, OneBefore, AppendOne
    <3> QED  BY <3>3, <3>4, <3>8, <3>9 DEF P
  <2> QED  BY <2>2, <2>3
<1> HIDE DEF S, P
<1>2. \A n \in Nat : n \in S
  BY <1>1, Induction
<1>3. \A n \in 1..Len(h) : \A at \in Nat, i \in 0..(n - 1) : P(n, at, i)
  BY <1>2 DEF S
<1> QED  BY <1>3 DEF P

LEMMA WholeReplay ==
    ASSUME NEW h, Len(h) \in Nat, NEW leaf, NEW index \in 0..(Len(h) - 1), NEW proof,
           Len(proof) = Len(Irf!Decisions(index, Len(h)))
    PROVE  /\ Irf!Replayed(leaf, Irf!Decisions(index, Len(h)), proof) = Root(h) => leaf = h[index + 1]
           /\ leaf = h[index + 1] /\ proof = Irf!AuditPaths(h)[Len(h)][1][index]
              => Irf!Replayed(leaf, Irf!Decisions(index, Len(h)), proof) = Root(h)
<1> DEFINE decisions == Irf!Decisions(index, Len(h))
           up == Irf!Replay(leaf, decisions, proof)
           path == Irf!AuditPaths(h)[Len(h)][1][index]
<1>1. Len(h) \in 1..Len(h) /\ 1 \in Nat /\ 0 \in Nat
  OBVIOUS
<1>2. decisions \in Seq(BOOLEAN) /\ decisions = Irf!Descents(Len(h))[Len(h)][index]
  BY <1>1, DescentsAreSequences DEF Irf!Decisions
<1> HIDE DEF decisions
<1>3. Len(proof) \in Nat /\ Len(proof) = Len(decisions)
  BY <1>2 DEF decisions
<1>4. Continues(decisions, 0, decisions)
  BY <1>2 DEF Continues
<1>5. Leads(up, h, leaf, proof, Len(h), 1, index, 0)
  <2>1. \A at \in Nat, i \in 0..(Len(h) - 1), d \in Nat :
           Continues(decisions, d, Irf!Descents(Len(h))[Len(h)][i])
           => Leads(up, h, leaf, proof, Len(h), at, i, d)
    BY <1>1, <1>3, ReplayDecides
  <2> HIDE DEF up
  <2> QED  BY <1>1, <1>2, <1>4, <2>1
<1>6. Len(proof) - 0 = Len(proof) /\ 1 + index = index + 1
  BY <1>3
<1> HIDE DEF up
<1>7. up[Len(proof)] = Root(h) => leaf = h[index + 1]
  BY <1>5, <1>6 DEF Leads, Root
<1>8. ASSUME leaf = h[index + 1], proof = path PROVE up[Len(proof)] = Root(h)
  <2>1. Begins(proof, path)
    BY <1>3, <1>8 DEF Begins
  <2> QED  BY <1>5, <1>6, <1>8, <2>1 DEF Leads, Root
<1> QED  BY <1>7, <1>8 DEF Irf!Replayed, up, decisions, path

\* The path of merkle.rs is accepted by its verifier, and its verifier accepts for an
\* index no leaf but the one that is there, whatever the path.
THEOREM InclusionSound ==
    ASSUME NEW h, Len(h) \in Nat, NEW leaf, NEW index \in Nat, NEW proof
    PROVE  /\ Irf!verify_inclusion(leaf, index, Len(h), proof, Root(h)) = "Ok"
              => index < Len(h) /\ leaf = h[index + 1]
           /\ index < Len(h) /\ leaf = h[index + 1] /\ proof = Irf!AuditPaths(h)[Len(h)][1][index]
              => Irf!verify_inclusion(leaf, index, Len(h), proof, Root(h)) = "Ok"
<1> DEFINE verdict == Irf!verify_inclusion(leaf, index, Len(h), proof, Root(h))
           expected == Len(Irf!Decisions(index, Len(h)))
           replayed == Irf!Replayed(leaf, Irf!Decisions(index, Len(h)), proof)
<1>1. verdict = IF Len(h) = 0 THEN "EmptyTree"
                ELSE IF index >= Len(h) THEN "IndexOutOfRange"
                ELSE IF ~(Len(proof) = expected) THEN "BadProofLength"
                ELSE IF replayed = Root(h) THEN "Ok" ELSE "ProofMismatch"
  BY DEF Irf!verify_inclusion, Irf!RightLength, Irf!path_len
<1>2. index < Len(h) /\ Len(proof) = expected =>
         /\ replayed = Root(h) => leaf = h[index + 1]
         /\ leaf = h[index + 1] /\ proof = Irf!AuditPaths(h)[Len(h)][1][index]
            => replayed = Root(h)
  BY WholeReplay
<1>3. index < Len(h) => Len(Irf!AuditPaths(h)[Len(h)][1][index]) = expected
  <2> SUFFICES ASSUME index < Len(h) PROVE Len(Irf!AuditPaths(h)[Len(h)][1][index]) = expected
    OBVIOUS
  <2>1. Len(h) \in 1..Len(h) /\ index \in 0..(Len(h) - 1) /\ 1 \in Nat
    OBVIOUS
  <2>2. \A at \in Nat, i \in 0..(Len(h) - 1) :
           Len(Irf!AuditPaths(h)[Len(h)][at][i]) = Len(Irf!Descents(Len(h))[Len(h)][i])
    BY <2>1, PathAsLongAsDescent
  <2> QED  BY <2>1, <2>2 DEF Irf!Decisions
<1> HIDE DEF verdict, expected, replayed
<1>4. verdict = "Ok" => index < Len(h) /\ leaf = h[index + 1]
  BY <1>1, <1>2
<1>5. index < Len(h) /\ leaf = h[index + 1] /\ proof = Irf!AuditPaths(h)[Len(h)][1][index]
      => verdict = "Ok"
  BY <1>1, <1>2, <1>3
<1> QED  BY <1>4, <1>5 DEF verdict

\* Whatever was appended, merkle.rs and merkle.py give one root and one path, and the
\* verifier of merkle.rs accepts the path of merkle.py.
THEOREM OneAnswer == TreeSpec => []ImplementationsAgree
<1>1. HashesInv => ImplementationsAgree
  <2> SUFFICES ASSUME HashesInv PROVE ImplementationsAgree
    OBVIOUS
  <2> DEFINE h == leaf_hashes
  <2>1. Len(h) \in Nat
    BY DEF HashesInv
  <2>2. ASSUME Len(h) > 0 PROVE Irf!root(h) = Root(h)
    <3>1. Len(h) \in 1..Len(h) /\ 1 \in Nat
      BY <2>1, <2>2
    <3> QED  BY <2>1, <3>1, SameRoots DEF Irf!root, Root
  <2>3. ASSUME NEW index \in 0..(Len(h) - 1)
        PROVE  /\ Irf!inclusion_proof(h, index).path = Siblings(index)
               /\ Irf!verify_inclusion(h[index + 1], index, Len(h), Siblings(index), Root(h)) = "Ok"
    <3> DEFINE path == Irf!AuditPaths(h)[Len(h)][1][index]
               side == Path(h, index + 1)
    <3>1. Len(h) \in 1..Len(h) /\ 1 \in Nat /\ index < Len(h) /\ index \in Nat /\ index + 1 \in 1..Len(h)
      BY <2>1
    <3>2. path \in Seq(SubtreesOf(h)) /\ SamePath(path, side)
      BY <2>1, <3>1, SamePaths DEF Path
    <3>3. Irf!inclusion_proof(h, index).path = path
      <4>1. ~(h = << >>) /\ ~(index >= Len(h))
        BY <3>1
      <4> QED  BY <4>1, Zenon DEF Irf!inclusion_proof
    <3>4. side \in Seq(Hops(h))
      BY <2>1, <3>1, PathsAreSequences DEF Path
    <3>5. Irf!verify_inclusion(h[index + 1], index, Len(h), path, Root(h)) = "Ok"
      BY <2>1, <3>1, InclusionSound
    <3>6. Siblings(index) = [i \in DOMAIN side |-> side[i].hash]
      BY DEF Siblings
    <3> HIDE DEF h, path, side
    <3>7. path = [i \in DOMAIN side |-> side[i].hash]
      BY <3>2, <3>4 DEF SamePath
    <3> QED  BY <3>3, <3>5, <3>6, <3>7
  <2> QED  BY <2>1, <2>2, <2>3 DEF ImplementationsAgree, size
<1> QED  BY <1>1, HashesCorrect, PTL

\* Whatever was appended, no path verifies for a leaf that is not at its index.
THEOREM InclusionCorrect == TreeSpec => []InclusionBindsLeaf
<1>1. HashesInv => InclusionBindsLeaf
  <2> SUFFICES ASSUME HashesInv, NEW leaf, NEW index \in 0..size, NEW proof,
                      index < size => leaf # leaf_hashes[index + 1]
               PROVE  Irf!verify_inclusion(leaf, index, size, proof, Root(leaf_hashes)) # "Ok"
    BY Zenon DEF InclusionBindsLeaf
  <2>1. Len(leaf_hashes) \in Nat /\ index \in Nat
    BY DEF HashesInv, size
  <2> QED  BY <2>1, InclusionSound DEF size
<1> QED  BY <1>1, HashesCorrect, PTL

-----------------------------------------------------------------------------
(* Consistency proofs of merkle.rs.                                          *)

LeftSubproof(h, n, at, m, is_full) ==
    Append(Irf!Subproofs(h)[Split(n)][at][m][is_full], Subtree(h)[n - Split(n)][at + Split(n)])

RightSubproof(h, n, at, m) ==
    Append(Irf!Subproofs(h)[n - Split(n)][at + Split(n)][m - Split(n)][FALSE], Subtree(h)[Split(n)][at])

LEMMA SubproofsAt ==
    ASSUME NEW h, Len(h) \in Nat, NEW n \in 1..Len(h), NEW at \in Nat, NEW m \in 1..n,
           NEW is_full \in BOOLEAN
    PROVE  Irf!Subproofs(h)[n][at][m][is_full] =
              IF m = n THEN IF is_full THEN << >> ELSE <<Subtree(h)[n][at]>>
              ELSE IF m <= Split(n) THEN LeftSubproof(h, n, at, m, is_full)
              ELSE RightSubproof(h, n, at, m)
<1> DEFINE k == Irf!split_point(n)
           Left(a, j, f)  == Append(Irf!Subproofs(h)[k][a][j][f], Irf!SliceRoot(h)[n - k][a + k])
           Right(a, j, f) == Append(Irf!Subproofs(h)[n - k][a + k][j - k][Irf!Inner(f)],
                                    Irf!SliceRoot(h)[k][a])
           Whole(a, f) == IF f THEN << >> ELSE <<Irf!SliceRoot(h)[n][a]>>
           All(a, j, f) == IF j = n THEN Whole(a, f)
                           ELSE IF j <= k THEN Left(a, j, f) ELSE Right(a, j, f)
<1>1. Irf!Subproofs(h)[n] = SubproofsOf(Irf!Subproofs(h), h, n)
  BY SubproofsDefined
<1>2. SubproofsOf(Irf!Subproofs(h), h, n) =
         [a \in Nat |-> [j \in 1..n |-> [f \in BOOLEAN |-> All(a, j, f)]]]
  BY Zenon DEF SubproofsOf
<1> HIDE DEF All
<1>3. Irf!Subproofs(h)[n][at][m][is_full] = All(at, m, is_full)
  BY <1>1, <1>2
<1>4. Irf!SliceRoot(h)[n][at] = Subtree(h)[n][at]
  BY SameRoots
<1>5. Whole(at, is_full) = IF is_full THEN << >> ELSE <<Subtree(h)[n][at]>>
  BY <1>4, Zenon
<1>6. CASE m = n
  <2> HIDE DEF Whole, Left, Right, k
  <2> QED  BY <1>3, <1>5, <1>6, Zenon DEF All
<1>7. CASE m # n
  <2>1. n > 1
    BY <1>7
  <2>2. k = Split(n) /\ k \in 1..(n - 1) /\ n - k \in 1..(n - 1) /\ k \in Nat
    BY <2>1, SameSplit, Halves
  <2>3. k \in 1..Len(h) /\ n - k \in 1..Len(h) /\ at + k \in Nat
    BY <2>2
  <2>4. /\ Irf!SliceRoot(h)[k][at] = Subtree(h)[k][at]
        /\ Irf!SliceRoot(h)[n - k][at + k] = Subtree(h)[n - k][at + k]
    <3> HIDE DEF k
    <3> QED  BY <2>3, SameRoots
  <2>5. Irf!Inner(is_full) = FALSE
    BY DEF Irf!Inner
  <2>6. /\ Left(at, m, is_full) = LeftSubproof(h, n, at, m, is_full)
        /\ Right(at, m, is_full) = RightSubproof(h, n, at, m)
    <3> HIDE DEF k
    <3> QED  BY <2>2, <2>4, <2>5, Zenon DEF LeftSubproof, RightSubproof
  <2> HIDE DEF Left, Right, Whole, k
  <2> QED  BY <1>3, <1>7, <2>2, <2>6, Zenon DEF All
<1> QED  BY <1>6, <1>7

LeftCheck(check, proof, n, m, used, is_full) ==
    LET left == check[Split(n)][m][used - 1][is_full]
    IN  IF left.ok THEN Irf!Pair(left.fr, NodeHash(left.sr, proof[used])) ELSE left

RightCheck(check, proof, n, m, used) ==
    LET right == check[n - Split(n)][m - Split(n)][used - 1][FALSE]
    IN  IF right.ok THEN Irf!Pair(NodeHash(proof[used], right.fr), NodeHash(proof[used], right.sr))
        ELSE right

LEMMA ChecksAt ==
    ASSUME NEW s \in Nat, NEW proof, NEW root_m, NEW n \in 1..s, NEW m \in 1..n,
           NEW used \in Nat, NEW is_full \in BOOLEAN
    PROVE  Irf!Checks(s, proof, root_m)[n][m][used][is_full] =
              IF m = n THEN Known(proof, root_m, used, is_full)
              ELSE IF used = 0 THEN Irf!Refused("BadProofLength")
              ELSE IF m <= Split(n)
              THEN LeftCheck(Irf!Checks(s, proof, root_m), proof, n, m, used, is_full)
              ELSE RightCheck(Irf!Checks(s, proof, root_m), proof, n, m, used)
<1> DEFINE check == Irf!Checks(s, proof, root_m)
           k == Irf!split_point(n)
           Left(j, u, f) == IF check[k][j][u - 1][f].ok
                            THEN Irf!Pair(check[k][j][u - 1][f].fr,
                                          Irf!node_hash(check[k][j][u - 1][f].sr, proof[u]))
                            ELSE check[k][j][u - 1][f]
           Right(j, u, f) == IF check[n - k][j - k][u - 1][Irf!Inner(f)].ok
                             THEN Irf!Pair(Irf!node_hash(proof[u], check[n - k][j - k][u - 1][Irf!Inner(f)].fr),
                                           Irf!node_hash(proof[u], check[n - k][j - k][u - 1][Irf!Inner(f)].sr))
                             ELSE check[n - k][j - k][u - 1][Irf!Inner(f)]
           All(j, u, f) == IF j = n THEN Known(proof, root_m, u, f)
                           ELSE IF u = 0 THEN Irf!Refused("BadProofLength")
                           ELSE IF j <= k THEN Left(j, u, f) ELSE Right(j, u, f)
<1>1. check[n] = ChecksOf(check, proof, root_m, n)
  BY ChecksDefined
<1> HIDE DEF check
<1>2. ChecksOf(check, proof, root_m, n) =
         [j \in 1..n |-> [u \in Nat |-> [f \in BOOLEAN |-> All(j, u, f)]]]
  BY Zenon DEF ChecksOf
<1> HIDE DEF All
<1>3. check[n][m][used][is_full] = All(m, used, is_full)
  BY <1>1, <1>2
<1>4. CASE m = n
  <2> HIDE DEF Left, Right, k
  <2> QED  BY <1>3, <1>4, Zenon DEF All, check
<1>5. CASE m # n
  <2>1. n > 1
    BY <1>5
  <2>2. k = Split(n)
    BY <2>1, SameSplit
  <2>3. Irf!Inner(is_full) = FALSE
    BY DEF Irf!Inner
  <2>4. /\ Left(m, used, is_full) = LeftCheck(check, proof, n, m, used, is_full)
        /\ Right(m, used, is_full) = RightCheck(check, proof, n, m, used)
    <3> HIDE DEF k
    <3> QED  BY <2>2, <2>3, SameNode, Zenon DEF LeftCheck, RightCheck
  <2> HIDE DEF Left, Right, k
  <2> QED  BY <1>3, <1>5, <2>2, <2>4, Zenon DEF All, check
<1> QED  BY <1>4, <1>5

\* A split point that is below a prefix splits the prefix as well.
LEMMA SplitOfPrefix ==
    ASSUME NEW n \in Nat, n > 1, NEW m \in Nat, Split(n) < m, m <= n
    PROVE  m > 1 /\ Split(m) = Split(n)
<1>1. PICK e \in Nat : Split(n) = Power[e]
  BY SplitIsPower
<1>2. Split(n) \in 1..(n - 1) /\ n <= 2 * Split(n)
  BY SplitIsPower
<1>3. m > 1 /\ Power[e] < m /\ m <= 2 * Power[e]
  BY <1>1, <1>2
<1>4. Split(m) = Power[e]
  BY <1>3, PowerSplits
<1> QED  BY <1>1, <1>3, <1>4

LEMMA SlicesJoin ==
    ASSUME NEW g, NEW p, NEW m \in Nat, NEW k \in 1..(m - 1), NEW at \in Nat, NEW bt \in Nat,
           SameSlice(p, bt, g, at, k), SameSlice(p, bt + k, g, at + k, m - k)
    PROVE  SameSlice(p, bt, g, at, m)
<1>1. ASSUME NEW j \in 0..(m - 1) PROVE p[bt + j] = g[at + j]
  <2>1. CASE j < k
    <3>1. j \in 0..(k - 1)
      BY <2>1
    <3> QED  BY <3>1 DEF SameSlice
  <2>2. CASE ~(j < k)
    <3>1. j - k \in 0..((m - k) - 1) /\ (at + k) + (j - k) = at + j /\ (bt + k) + (j - k) = bt + j
      BY <2>2
    <3>2. p[(bt + k) + (j - k)] = g[(at + k) + (j - k)]
      BY <3>1 DEF SameSlice
    <3> QED  BY <3>1, <3>2
  <2> QED  BY <2>1, <2>2
<1> QED  BY <1>1 DEF SameSlice

\* When the two roots that a proof leads to are those of a slice of a list and of one
\* of another, the first slice begins the second.
LEMMA ChecksBind ==
    ASSUME NEW g, Len(g) \in Nat, AreLeaves(g), NEW p, Len(p) \in Nat, AreLeaves(p),
           NEW s \in Nat, NEW proof, NEW root_m
    PROVE  \A n \in 1..s : \A m \in 1..n, at \in Nat, bt \in Nat, used \in Nat, is_full \in BOOLEAN :
              LET c == Irf!Checks(s, proof, root_m)[n][m][used][is_full]
              IN  /\ 1 <= at /\ at + n <= Len(g) + 1 /\ 1 <= bt /\ bt + m <= Len(p) + 1
                  /\ c.ok /\ c.fr = Subtree(p)[m][bt] /\ c.sr = Subtree(g)[n][at]
                  => SameSlice(p, bt, g, at, m)
<1> DEFINE check == Irf!Checks(s, proof, root_m)
           Within(n, m, at, bt) == 1 <= at /\ at + n <= Len(g) + 1 /\ 1 <= bt /\ bt + m <= Len(p) + 1
           Leading(c, n, m, at, bt) == c.ok /\ c.fr = Subtree(p)[m][bt] /\ c.sr = Subtree(g)[n][at]
           P(n, m, at, bt, used, is_full) ==
              Within(n, m, at, bt) /\ Leading(check[n][m][used][is_full], n, m, at, bt)
              => SameSlice(p, bt, g, at, m)
           S == {n \in Nat : n \in 1..s =>
                    \A m \in 1..n, at \in Nat, bt \in Nat, used \in Nat, is_full \in BOOLEAN :
                       P(n, m, at, bt, used, is_full)}
           Q(n, m, at, bt) ==
              1 <= at /\ at + n <= Len(p) + 1 /\ 1 <= bt /\ bt + m <= Len(g) + 1
              /\ Subtree(p)[n][at] = Subtree(g)[m][bt]
              => n = m /\ SameSlice(p, at, g, bt, n)
<1>0. \A n \in Nat : \A m \in Nat, at \in Nat, bt \in Nat : Q(n, m, at, bt)
  BY SubtreesCommit, Zenon
<1> HIDE DEF check, Q
<1>1. ASSUME NEW n \in Nat, \A k \in 0..(n - 1) : k \in S PROVE n \in S
  <2> SUFFICES ASSUME n \in 1..s, NEW m \in 1..n, NEW at \in Nat, NEW bt \in Nat,
                      NEW used \in Nat, NEW is_full \in BOOLEAN
               PROVE  P(n, m, at, bt, used, is_full)
    <3> HIDE DEF P
    <3> QED  OBVIOUS
  <2>1. \A k \in 1..(n - 1) : \A j \in 1..k, a \in Nat, b \in Nat, u \in Nat, f \in BOOLEAN :
           P(k, j, a, b, u, f)
    <3> HIDE DEF P
    <3> QED  BY <1>1
  <2> HIDE DEF S
  <2> DEFINE c == check[n][m][used][is_full]
  <2> SUFFICES ASSUME Within(n, m, at, bt), Leading(c, n, m, at, bt)
               PROVE  SameSlice(p, bt, g, at, m)
    OBVIOUS
  <2>2. c.ok /\ c.fr = Subtree(p)[m][bt] /\ c.sr = Subtree(g)[n][at]
    OBVIOUS
  <2>3. 1 <= at /\ at + n <= Len(g) + 1 /\ 1 <= bt /\ bt + m <= Len(p) + 1 /\ m \in Nat
    OBVIOUS
  <2>4. c = IF m = n THEN Known(proof, root_m, used, is_full)
            ELSE IF used = 0 THEN Irf!Refused("BadProofLength")
            ELSE IF m <= Split(n) THEN LeftCheck(check, proof, n, m, used, is_full)
            ELSE RightCheck(check, proof, n, m, used)
    BY ChecksAt DEF check
  <2> HIDE DEF P, Within, Leading, c
  <2>5. CASE m = n
    <3>1. c = Known(proof, root_m, used, is_full)
      BY <2>4, <2>5
    <3>2. c.ok => c.fr = c.sr
      BY <3>1 DEF Known, Irf!Pair, Irf!Refused
    <3>3. Subtree(p)[m][bt] = Subtree(g)[n][at]
      BY <2>2, <3>2
    <3>4. Q(m, n, bt, at)
      BY <1>0, <2>3
    <3> QED  BY <2>3, <3>3, <3>4 DEF Q
  <2>6. CASE m # n
    <3>0. n > 1
      BY <2>6
    <3>1. PICK k \in Nat : k = Split(n) /\ k \in 1..(n - 1) /\ n - k \in 1..(n - 1) /\ n - k \in Nat
      BY <3>0, Halves
    <3>2. used # 0
      <4>1. used = 0 => c = Irf!Refused("BadProofLength")
        BY <2>4, <2>6
      <4> QED  BY <2>2, <4>1 DEF Irf!Refused
    <3>3. used - 1 \in Nat
      BY <3>2
    <3>4. /\ n - k \in 0..(n - 1) /\ at + k \in Nat /\ 1 <= at + k
          /\ at + k <= Len(g) + 1 /\ (at + k) + (n - k) <= Len(g) + 1
      BY <2>3, <3>1, HalvesWithin
    <3>5. n \in 0..Len(g) /\ m \in 0..Len(p)
      BY <2>3
    <3>6. Subtree(g)[n][at] = NodeHash(Subtree(g)[k][at], Subtree(g)[n - k][at + k])
      BY <3>0, <3>1, <3>5, SubtreeOfMany
    <3>7. CASE m <= k
      <4> DEFINE left == check[k][m][used - 1][is_full]
      <4>1. c = LeftCheck(check, proof, n, m, used, is_full)
        BY <2>4, <2>6, <3>1, <3>2, <3>7
      <4>2. c = IF left.ok THEN Irf!Pair(left.fr, NodeHash(left.sr, proof[used])) ELSE left
        BY <4>1, <3>1, Zenon DEF LeftCheck
      <4> HIDE DEF left
      <4>3. left.ok
        BY <2>2, <4>2
      <4>4. c.fr = left.fr /\ c.sr = NodeHash(left.sr, proof[used])
        BY <4>2, <4>3 DEF Irf!Pair
      <4>5. left.sr = Subtree(g)[k][at]
        <5>1. NodeHash(left.sr, proof[used]) = NodeHash(Subtree(g)[k][at], Subtree(g)[n - k][at + k])
          BY <2>2, <3>6, <4>4
        <5> QED  BY <5>1, NodesDiffer
      <4>6. P(k, m, at, bt, used - 1, is_full)
        <5>1. k \in 1..(n - 1) /\ m \in 1..k
          BY <3>1, <3>7
        <5> QED  BY <2>1, <3>3, <5>1
      <4>7. Within(k, m, at, bt)
        BY <2>3, <3>4 DEF Within
      <4>8. Leading(left, k, m, at, bt)
        BY <2>2, <4>3, <4>4, <4>5 DEF Leading
      <4> QED  BY <4>6, <4>7, <4>8 DEF P, left
    <3>8. CASE ~(m <= k)
      <4> DEFINE right == check[n - k][m - k][used - 1][FALSE]
      <4>1. c = RightCheck(check, proof, n, m, used)
        BY <2>4, <2>6, <3>1, <3>2, <3>8
      <4>2. c = IF right.ok THEN Irf!Pair(NodeHash(proof[used], right.fr), NodeHash(proof[used], right.sr))
                ELSE right
        BY <4>1, <3>1, Zenon DEF RightCheck
      <4> HIDE DEF right
      <4>3. right.ok
        BY <2>2, <4>2
      <4>4. c.fr = NodeHash(proof[used], right.fr) /\ c.sr = NodeHash(proof[used], right.sr)
        BY <4>2, <4>3 DEF Irf!Pair
      <4>5. Split(n) < m /\ m <= n
        BY <3>1, <3>8
      <4>6. m > 1 /\ Split(m) = k
        BY <2>3, <3>0, <3>1, <4>5, SplitOfPrefix
      <4>7. Subtree(p)[m][bt] = NodeHash(Subtree(p)[k][bt], Subtree(p)[m - k][bt + k])
        BY <3>5, <4>6, SubtreeOfMany
      <4>8. proof[used] = Subtree(g)[k][at] /\ right.sr = Subtree(g)[n - k][at + k]
        <5>1. NodeHash(proof[used], right.sr) = NodeHash(Subtree(g)[k][at], Subtree(g)[n - k][at + k])
          BY <2>2, <3>6, <4>4
        <5> QED  BY <5>1, NodesDiffer
      <4>9. proof[used] = Subtree(p)[k][bt] /\ right.fr = Subtree(p)[m - k][bt + k]
        <5>1. NodeHash(proof[used], right.fr) = NodeHash(Subtree(p)[k][bt], Subtree(p)[m - k][bt + k])
          BY <2>2, <4>4, <4>7
        <5> QED  BY <5>1, NodesDiffer
      <4>10. k \in 1..(m - 1)
        BY <3>1, <4>5
      <4>11. /\ m - k \in Nat /\ bt + k \in Nat /\ 1 <= bt + k
             /\ bt + k <= Len(p) + 1 /\ (bt + k) + (m - k) <= Len(p) + 1
        BY <2>3, <4>10, HalvesWithin
      <4>12. SameSlice(p, bt, g, at, k)
        <5>1. Q(k, k, bt, at)
          BY <1>0
        <5> QED  BY <2>3, <3>4, <4>8, <4>9, <4>11, <5>1 DEF Q
      <4>13. SameSlice(p, bt + k, g, at + k, m - k)
        <5>1. n - k \in 1..(n - 1) /\ m - k \in 1..(n - k)
          BY <3>1, <4>5, <4>10
        <5>2. P(n - k, m - k, at + k, bt + k, used - 1, FALSE)
          BY <2>1, <3>3, <3>4, <4>11, <5>1
        <5>3. Within(n - k, m - k, at + k, bt + k)
          BY <3>4, <4>11 DEF Within
        <5>4. Leading(right, n - k, m - k, at + k, bt + k)
          BY <4>3, <4>8, <4>9 DEF Leading
        <5> QED  BY <5>2, <5>3, <5>4 DEF P, right
      <4> QED  BY <2>3, <3>1, <4>10, <4>12, <4>13, SlicesJoin
    <3> QED  BY <3>7, <3>8
  <2> QED  BY <2>5, <2>6
<1> HIDE DEF S, P
<1>2. \A n \in Nat : n \in S
  BY <1>1, Induction
<1>3. \A n \in 1..s : \A m \in 1..n, at \in Nat, bt \in Nat, used \in Nat, is_full \in BOOLEAN :
         P(n, m, at, bt, used, is_full)
  BY <1>2 DEF S
<1> QED  BY <1>3, Zenon DEF P, Within, Leading, check

\* A check finds two roots or refuses for the length of the proof.
LEMMA CheckRefuses ==
    ASSUME NEW s \in Nat, NEW proof, NEW root_m
    PROVE  \A n \in 1..s : \A m \in 1..n, used \in Nat, is_full \in BOOLEAN :
              LET c == Irf!Checks(s, proof, root_m)[n][m][used][is_full]
              IN  c.ok \/ c = Irf!Refused("BadProofLength")
<1> DEFINE check == Irf!Checks(s, proof, root_m)
           Told(c) == c.ok \/ c = Irf!Refused("BadProofLength")
           P(n, m, used, is_full) == Told(check[n][m][used][is_full])
           S == {n \in Nat : n \in 1..s =>
                    \A m \in 1..n, used \in Nat, is_full \in BOOLEAN : P(n, m, used, is_full)}
<1> HIDE DEF check
<1>1. ASSUME NEW n \in Nat, \A k \in 0..(n - 1) : k \in S PROVE n \in S
  <2> SUFFICES ASSUME n \in 1..s, NEW m \in 1..n, NEW used \in Nat, NEW is_full \in BOOLEAN
               PROVE  P(n, m, used, is_full)
    <3> HIDE DEF P
    <3> QED  OBVIOUS
  <2>1. \A k \in 1..(n - 1) : \A j \in 1..k, u \in Nat, f \in BOOLEAN : P(k, j, u, f)
    <3> HIDE DEF P
    <3> QED  BY <1>1
  <2> HIDE DEF S
  <2> DEFINE c == check[n][m][used][is_full]
  <2>2. c = IF m = n THEN Known(proof, root_m, used, is_full)
            ELSE IF used = 0 THEN Irf!Refused("BadProofLength")
            ELSE IF m <= Split(n) THEN LeftCheck(check, proof, n, m, used, is_full)
            ELSE RightCheck(check, proof, n, m, used)
    BY ChecksAt DEF check
  <2> HIDE DEF P, c
  <2>3. CASE m = n
    <3>1. c = Known(proof, root_m, used, is_full)
      BY <2>2, <2>3
    <3>2. Told(c)
      BY <3>1 DEF Known, Irf!Pair, Irf!Refused
    <3> QED  BY <3>2 DEF P, c
  <2>4. CASE m # n /\ used = 0
    <3>1. c = Irf!Refused("BadProofLength")
      BY <2>2, <2>4
    <3> QED  BY <3>1 DEF P, c
  <2>5. CASE m # n /\ used # 0
    <3>0. n > 1 /\ used - 1 \in Nat
      BY <2>5
    <3>1. PICK k \in Nat : k = Split(n) /\ k \in 1..(n - 1) /\ n - k \in 1..(n - 1) /\ n - k \in Nat
      BY <3>0, Halves
    <3>2. CASE m <= k
      <4> DEFINE left == check[k][m][used - 1][is_full]
      <4>1. c = LeftCheck(check, proof, n, m, used, is_full)
        BY <2>2, <2>5, <3>1, <3>2
      <4>2. c = IF left.ok THEN Irf!Pair(left.fr, NodeHash(left.sr, proof[used])) ELSE left
        BY <4>1, <3>1, Zenon DEF LeftCheck
      <4>3. Told(left)
        <5>1. k \in 1..(n - 1) /\ m \in 1..k
          BY <3>1, <3>2
        <5>2. P(k, m, used - 1, is_full)
          BY <2>1, <3>0, <5>1
        <5> HIDE DEF Told
        <5> QED  BY <5>2 DEF P
      <4> HIDE DEF left
      <4>4. Told(c)
        BY <4>2, <4>3 DEF Irf!Pair
      <4> QED  BY <4>4 DEF P, c
    <3>3. CASE ~(m <= k)
      <4> DEFINE right == check[n - k][m - k][used - 1][FALSE]
      <4>1. c = RightCheck(check, proof, n, m, used)
        BY <2>2, <2>5, <3>1, <3>3
      <4>2. c = IF right.ok THEN Irf!Pair(NodeHash(proof[used], right.fr), NodeHash(proof[used], right.sr))
                ELSE right
        BY <4>1, <3>1, Zenon DEF RightCheck
      <4>3. Told(right)
        <5>1. n - k \in 1..(n - 1) /\ m - k \in 1..(n - k)
          BY <3>1, <3>3
        <5>2. P(n - k, m - k, used - 1, FALSE)
          BY <2>1, <3>0, <5>1
        <5> HIDE DEF Told
        <5> QED  BY <5>2 DEF P
      <4> HIDE DEF right
      <4>4. Told(c)
        BY <4>2, <4>3 DEF Irf!Pair
      <4> QED  BY <4>4 DEF P, c
    <3> QED  BY <3>2, <3>3
  <2> QED  BY <2>3, <2>4, <2>5
<1> HIDE DEF S, P, Told
<1>2. \A n \in Nat : n \in S
  BY <1>1, Induction
<1>3. \A n \in 1..s : \A m \in 1..n, used \in Nat, is_full \in BOOLEAN : P(n, m, used, is_full)
  BY <1>2 DEF S
<1> QED  BY <1>3, Zenon DEF P, Told, check

\* Whatever the proof, a list is shown to be extended by no list but one that begins
\* with it.
THEOREM ConsistencySound ==
    ASSUME NEW g, Len(g) \in Nat, AreLeaves(g), NEW p, Len(p) \in Nat, AreLeaves(p),
           NEW proof, Len(proof) \in Nat,
           Irf!verify_consistency(Len(p), Root(p), Len(g), Root(g), proof) = "Ok"
    PROVE  Len(p) <= Len(g) /\ \A i \in 1..Len(p) : p[i] = g[i]
<1> DEFINE m == Len(p)
           n == Len(g)
           c == Irf!Checks(n, proof, Root(p))[n][m][Len(proof)][TRUE]
           Same == \A i \in 1..m : p[i] = g[i]
           Verdict == IF m = 0 \/ m > n THEN "SizeMismatch"
                      ELSE IF m = n
                      THEN IF proof # << >> THEN "BadProofLength"
                           ELSE IF Root(p) = Root(g) THEN "Ok" ELSE "ProofMismatch"
                      ELSE IF Len(proof) > Irf!MaxLevels THEN "BadProofLength"
                      ELSE IF ~c.ok THEN c.reason
                      ELSE IF c.fr = Root(p) /\ c.sr = Root(g) THEN "Ok"
                      ELSE "ProofMismatch"
<1>0. m \in Nat /\ n \in Nat
  OBVIOUS
<1>1. Verdict = "Ok"
  BY Zenon DEF Irf!verify_consistency, Irf!verify_subproof, Irf!RootsMatch
<1> HIDE DEF m, n, c
<1>2. ~(m = 0 \/ m > n)
  BY <1>1
<1>3. CASE m = n
  <2>1. Root(p) = Root(g)
    BY <1>1, <1>2, <1>3
  <2>2. Same
    <3> HIDE DEF Same
    <3> QED  BY <1>3, <2>1, RootsCommit DEF Same, m, n
  <2> QED  BY <1>3, <2>2, <1>0 DEF Same, m, n
<1>4. CASE m # n
  <2>0. n \in 1..n /\ m \in 1..n /\ m \in Nat /\ n \in 1..n
    BY <1>0, <1>2, <1>4
  <2>1. c.ok \/ c = Irf!Refused("BadProofLength")
    <3> DEFINE P(a, b, u, f) ==
                  LET r == Irf!Checks(n, proof, Root(p))[a][b][u][f]
                  IN  r.ok \/ r = Irf!Refused("BadProofLength")
    <3>1. \A a \in 1..n : \A b \in 1..a, u \in Nat, f \in BOOLEAN : P(a, b, u, f)
      BY <1>0, CheckRefuses, SMTT(20)
    <3> HIDE DEF P
    <3>2. P(n, m, Len(proof), TRUE)
      BY <3>1, <2>0
    <3> QED  BY <3>2, Zenon DEF P, c
  <2>2. c.ok /\ c.fr = Root(p) /\ c.sr = Root(g)
    BY <1>1, <1>2, <1>4, <2>1 DEF Irf!Refused
  <2>3. SameSlice(p, 1, g, 1, m)
    <3> DEFINE P(a, b, at, bt, u, f) ==
                  LET r == Irf!Checks(n, proof, Root(p))[a][b][u][f]
                  IN  /\ 1 <= at /\ at + a <= Len(g) + 1 /\ 1 <= bt /\ bt + b <= Len(p) + 1
                      /\ r.ok /\ r.fr = Subtree(p)[b][bt] /\ r.sr = Subtree(g)[a][at]
                      => SameSlice(p, bt, g, at, b)
    <3>1. \A a \in 1..n : \A b \in 1..a, at \in Nat, bt \in Nat, u \in Nat, f \in BOOLEAN :
             P(a, b, at, bt, u, f)
      BY <1>0, ChecksBind, Zenon
    <3> HIDE DEF P
    <3>2. P(n, m, 1, 1, Len(proof), TRUE)
      BY <3>1, <2>0
    <3>3. c.ok /\ c.fr = Subtree(p)[m][1] /\ c.sr = Subtree(g)[n][1]
      BY <2>2, Zenon DEF Root, m, n
    <3>4. 1 <= 1 /\ 1 + n <= Len(g) + 1 /\ 1 + m <= Len(p) + 1
      BY <1>0 DEF m, n
    <3> QED  BY <3>2, <3>3, <3>4, Zenon DEF P, c
  <2>4. Same
    <3> SUFFICES ASSUME NEW i \in 1..m PROVE p[i] = g[i]
      BY DEF Same
    <3>1. i - 1 \in 0..(m - 1) /\ 1 + (i - 1) = i
      BY <2>0
    <3>2. p[1 + (i - 1)] = g[1 + (i - 1)]
      BY <2>3, <3>1 DEF SameSlice
    <3> QED  BY <3>1, <3>2
  <2> QED  BY <1>0, <1>2, <2>4 DEF Same, m, n
<1> QED  BY <1>3, <1>4

\* Subproofs are sequences of subtree hashes, one longer than the tree is high at most.
LEMMA SubproofsAreShort ==
    ASSUME NEW h, Len(h) \in Nat
    PROVE  \A n \in 1..Len(h) : \A at \in Nat, m \in 1..n, is_full \in BOOLEAN :
              LET sub == Irf!Subproofs(h)[n][at][m][is_full]
              IN  /\ sub \in Seq(SubtreesOf(h))
                  /\ \A e \in Nat : n <= Power[e] => Len(sub) <= e + 1
<1> DEFINE Short(sub, n) == /\ sub \in Seq(SubtreesOf(h))
                            /\ \A e \in Nat : n <= Power[e] => Len(sub) <= e + 1
           P(n, at, m, is_full) == Short(Irf!Subproofs(h)[n][at][m][is_full], n)
           S == {n \in Nat : n \in 1..Len(h) =>
                    \A at \in Nat, m \in 1..n, is_full \in BOOLEAN : P(n, at, m, is_full)}
<1>1. ASSUME NEW n \in Nat, \A k \in 0..(n - 1) : k \in S PROVE n \in S
  <2> SUFFICES ASSUME n \in 1..Len(h), NEW at \in Nat, NEW m \in 1..n, NEW is_full \in BOOLEAN
               PROVE  P(n, at, m, is_full)
    <3> HIDE DEF P
    <3> QED  OBVIOUS
  <2>1. \A k \in 1..(n - 1) : \A a \in Nat, j \in 1..k, f \in BOOLEAN : P(k, a, j, f)
    <3> HIDE DEF P
    <3> QED  BY <1>1
  <2> HIDE DEF S
  <2> DEFINE sub == Irf!Subproofs(h)[n][at][m][is_full]
  <2>2. sub = IF m = n THEN IF is_full THEN << >> ELSE <<Subtree(h)[n][at]>>
              ELSE IF m <= Split(n) THEN LeftSubproof(h, n, at, m, is_full)
              ELSE RightSubproof(h, n, at, m)
    BY SubproofsAt
  <2> HIDE DEF P, sub, Short
  <2>3. ASSUME NEW k \in 1..(n - 1), n > 1, k = Split(n) \/ k = n - Split(n),
               NEW shorter, Short(shorter, k), NEW hash \in SubtreesOf(h),
               sub = Append(shorter, hash)
        PROVE  Short(sub, n)
    <3>1. shorter \in Seq(SubtreesOf(h)) /\ \A e \in Nat : k <= Power[e] => Len(shorter) <= e + 1
      BY <2>3 DEF Short
    <3>2. sub \in Seq(SubtreesOf(h)) /\ Len(sub) = Len(shorter) + 1 /\ Len(shorter) \in Nat
      BY <2>3, <3>1, AppendOne
    <3>3. ASSUME NEW e \in Nat, n <= Power[e] PROVE Len(sub) <= e + 1
      <4>1. e - 1 \in Nat /\ k <= Power[e - 1]
        BY <2>3, <3>3, HalvesAreLower
      <4> QED  BY <3>1, <3>2, <4>1
    <3> QED  BY <3>2, <3>3 DEF Short
  <2>4. CASE m = n
    <3>1. Subtree(h)[n][at] \in SubtreesOf(h)
      BY SubtreeIn
    <3>2. sub \in Seq(SubtreesOf(h)) /\ Len(sub) <= 1
      <4>1. PICK hash : hash = Subtree(h)[n][at] /\ hash \in SubtreesOf(h)
        BY <3>1
      <4>2. sub = << >> \/ sub = <<hash>>
        BY <2>2, <2>4, <4>1
      <4>3. << >> \in Seq(SubtreesOf(h)) /\ Len(<< >>) = 0
        OBVIOUS
      <4>4. <<hash>> \in Seq(SubtreesOf(h)) /\ Len(<<hash>>) = 1
        BY <4>1
      <4>5. CASE sub = << >>
        BY <4>3, <4>5
      <4>6. CASE sub = <<hash>>
        <5> DEFINE one == <<hash>>
        <5>1. one \in Seq(SubtreesOf(h)) /\ Len(one) = 1 /\ sub = one
          BY <4>4, <4>6
        <5> HIDE DEF one
        <5>2. sub \in Seq(SubtreesOf(h)) /\ Len(sub) = 1
          BY <5>1, Zenon
        <5>3. \A len : len = 1 => len <= 1
          OBVIOUS
        <5> QED  BY <5>2, <5>3, Zenon
      <4> QED  BY <4>2, <4>5, <4>6
    <3>3. Short(sub, n)
      BY <3>2 DEF Short
    <3> QED  BY <3>3 DEF P, sub
  <2>5. CASE m # n
    <3>0. n > 1
      BY <2>5
    <3>1. PICK k \in Nat : k = Split(n) /\ k \in 1..(n - 1) /\ n - k \in 1..(n - 1) /\ n - k \in Nat
      BY <3>0, Halves
    <3>2. k \in 0..Len(h) /\ n - k \in 0..Len(h) /\ at + k \in Nat
      BY <3>1
    <3>3. CASE m <= k
      <4> DEFINE shorter == Irf!Subproofs(h)[k][at][m][is_full]
                 hash    == Subtree(h)[n - k][at + k]
      <4>1. sub = LeftSubproof(h, n, at, m, is_full)
        BY <2>2, <2>5, <3>1, <3>3
      <4>2. sub = Append(shorter, hash)
        BY <4>1, <3>1, Zenon DEF LeftSubproof
      <4>3. hash \in SubtreesOf(h)
        BY <3>2, SubtreeIn
      <4>4. Short(shorter, k)
        <5>1. m \in 1..k
          BY <3>1, <3>3
        <5>2. P(k, at, m, is_full)
          BY <2>1, <3>1, <5>1
        <5> QED  BY <5>2 DEF P
      <4> HIDE DEF shorter, hash
      <4>5. Short(sub, n)
        BY <2>3, <3>0, <3>1, <4>2, <4>3, <4>4
      <4> QED  BY <4>5 DEF P, sub
    <3>4. CASE ~(m <= k)
      <4> DEFINE shorter == Irf!Subproofs(h)[n - k][at + k][m - k][FALSE]
                 hash    == Subtree(h)[k][at]
      <4>1. sub = RightSubproof(h, n, at, m)
        BY <2>2, <2>5, <3>1, <3>4
      <4>2. sub = Append(shorter, hash)
        BY <4>1, <3>1, Zenon DEF RightSubproof
      <4>3. hash \in SubtreesOf(h)
        BY <3>2, SubtreeIn
      <4>4. Short(shorter, n - k)
        <5>1. m - k \in 1..(n - k)
          BY <3>1, <3>4
        <5>2. P(n - k, at + k, m - k, FALSE)
          BY <2>1, <3>1, <3>2, <5>1
        <5> QED  BY <5>2 DEF P
      <4> HIDE DEF shorter, hash
      <4>5. Short(sub, n)
        BY <2>3, <3>0, <3>1, <4>2, <4>3, <4>4
      <4> QED  BY <4>5 DEF P, sub
    <3> QED  BY <3>3, <3>4
  <2> QED  BY <2>4, <2>5
<1> HIDE DEF S, P
<1>2. \A n \in Nat : n \in S
  BY <1>1, Induction
<1>3. \A n \in 1..Len(h) : \A at \in Nat, m \in 1..n, is_full \in BOOLEAN : P(n, at, m, is_full)
  BY <1>2 DEF S
<1> QED  BY <1>3, Zenon DEF P, Short

\* A consistency proof of a list's prefix is given, and is a sequence of hashes.
LEMMA ConsistencyProofs ==
    ASSUME NEW h, Len(h) \in Nat, NEW m \in 1..Len(h)
    PROVE  LET proof == Irf!consistency_proof(h, m)
           IN  /\ proof.ok
               /\ proof.path \in Seq(SubtreesOf(h))
               /\ m = Len(h) => proof.path = << >>
               /\ m # Len(h) => proof.path = Irf!Subproofs(h)[Len(h)][1][m][TRUE]
<1> DEFINE sub == Irf!Subproofs(h)[Len(h)][1][m][TRUE]
           proof == Irf!consistency_proof(h, m)
<1>1. ~(m = 0 \/ m > Len(h))
  OBVIOUS
<1>2. proof = [ok |-> TRUE, path |-> IF m = Len(h) THEN << >> ELSE sub]
  BY <1>1 DEF Irf!consistency_proof, Irf!subproof
<1>3. sub \in Seq(SubtreesOf(h))
  <2> DEFINE P(n, at, j, is_full) ==
                LET s == Irf!Subproofs(h)[n][at][j][is_full]
                IN  /\ s \in Seq(SubtreesOf(h))
                    /\ \A e \in Nat : n <= Power[e] => Len(s) <= e + 1
  <2>1. \A n \in 1..Len(h) : \A at \in Nat, j \in 1..n, is_full \in BOOLEAN : P(n, at, j, is_full)
    BY SubproofsAreShort, Zenon
  <2> HIDE DEF P
  <2>2. Len(h) \in 1..Len(h) /\ 1 \in Nat /\ TRUE \in BOOLEAN
    OBVIOUS
  <2>3. P(Len(h), 1, m, TRUE)
    BY <2>1, <2>2
  <2> QED  BY <2>3, Zenon DEF P
<1> HIDE DEF sub, proof
<1>4. proof.ok /\ proof.path = IF m = Len(h) THEN << >> ELSE sub
  BY <1>2
<1>5. proof.path \in Seq(SubtreesOf(h))
  BY <1>3, <1>4
<1> QED  BY <1>4, <1>5, Zenon DEF proof, sub

LEMMA VariantsAreSequences ==
    ASSUME NEW T, NEW path \in Seq(T), NEW hash, NEW proof \in Variants(path, hash)
    PROVE  Len(proof) \in Nat
<1>1. path \in Seq(T \cup {hash}) /\ hash \in T \cup {hash}
  OBVIOUS
<1>2. CASE proof = path \/ proof = Append(path, hash) \/ proof = <<hash>> \o path
  BY <1>1, <1>2
<1>3. CASE path # << >> /\ (proof = Tail(path) \/ proof = SubSeq(path, 1, Len(path) - 1))
  BY <1>3
<1> QED  BY <1>2, <1>3 DEF Variants

\* The past cannot be rewritten: no proof at hand shows the tree to extend a list that
\* it does not begin with.
THEOREM PastStays == TreeSpec => []PastIsFixed
<1>1. HashesInv => PastIsFixed
  <2> SUFFICES ASSUME HashesInv, NEW past \in Lists, Len(past) \in 1..size,
                      past # SubSeq(leaf_hashes, 1, Len(past)),
                      NEW path \in {Irf!consistency_proof(leaf_hashes, Len(past)).path,
                                    Irf!consistency_proof(
                                       past \o SubSeq(leaf_hashes, Len(past) + 1, size), Len(past)).path},
                      NEW proof \in Variants(path, Root(past))
               PROVE  Irf!verify_consistency(Len(past), Root(past), size, Root(leaf_hashes), proof) # "Ok"
    BY Zenon DEF PastIsFixed
  <2> DEFINE T == LeafHashesOf(Leaves)
             rest == SubSeq(leaf_hashes, Len(past) + 1, size)
  <2>1. leaf_hashes \in Seq(T) /\ size = Len(leaf_hashes) /\ size \in Nat
    BY DEF HashesInv, size
  <2>2. past \in Seq(T) /\ Len(past) \in Nat
    <3>1. PICK n \in 0..MaxLeaves : past \in [1..n -> {LeafHash(data) : data \in Leaves}]
      BY DEF Lists
    <3>2. n \in Nat
      BY BoundAssumption
    <3> QED  BY <3>1, <3>2 DEF LeafHashesOf
  <2>3. AreLeaves(past) /\ AreLeaves(leaf_hashes)
    BY <2>1, <2>2 DEF AreLeaves, LeafHashesOf
  <2> HIDE DEF T
  <2>4. rest \in Seq(T) /\ past \o rest \in Seq(T) /\ Len(past \o rest) \in Nat
        /\ Len(past) \in 1..Len(past \o rest)
    <3>1. Len(past) + 1 \in 1..(Len(leaf_hashes) + 1)
      BY <2>1, <2>2
    <3>2. rest \in Seq(T)
      BY <2>1, <2>2, <3>1
    <3> HIDE DEF rest
    <3> QED  BY <2>2, <3>2
  <2>5. \E h : path \in Seq(SubtreesOf(h))
    <3>1. CASE path = Irf!consistency_proof(leaf_hashes, Len(past)).path
      BY <2>1, <3>1, ConsistencyProofs
    <3>2. CASE path = Irf!consistency_proof(past \o rest, Len(past)).path
      <4> HIDE DEF rest
      <4> QED  BY <2>4, <3>2, ConsistencyProofs
    <3> QED  BY <3>1, <3>2
  <2>6. Len(proof) \in Nat
    BY <2>5, VariantsAreSequences
  <2>7. SUFFICES ASSUME Irf!verify_consistency(Len(past), Root(past), Len(leaf_hashes),
                                               Root(leaf_hashes), proof) = "Ok"
                 PROVE  FALSE
    BY <2>1
  <2>8. Len(leaf_hashes) \in Nat
    BY <2>1
  <2>9. Len(past) <= Len(leaf_hashes) /\ \A i \in 1..Len(past) : past[i] = leaf_hashes[i]
    BY <2>2, <2>3, <2>6, <2>7, <2>8, ConsistencySound
  <2>10. past = SubSeq(leaf_hashes, 1, Len(past))
    BY <2>1, <2>2, <2>9
  <2> QED  BY <2>10
<1> QED  BY <1>1, HashesCorrect, PTL

\* A subproof tells the roots of the prefix and of the slice it was made for, whatever
\* follows it.
SubproofTells(h, proof, root_m, n, at, m, is_full) ==
    LET sub == Irf!Subproofs(h)[n][at][m][is_full]
    IN  /\ Begins(proof, sub)
        /\ is_full => root_m = Subtree(h)[m][at]
        => Irf!Checks(Len(h), proof, root_m)[n][m][Len(sub)][is_full]
              = Irf!Pair(Subtree(h)[m][at], Subtree(h)[n][at])

LEMMA SubproofChecks ==
    ASSUME NEW h, Len(h) \in Nat, NEW proof, Len(proof) \in Nat, NEW root_m
    PROVE  \A n \in 1..Len(h) : \A at \in Nat, m \in 1..n, is_full \in BOOLEAN :
              SubproofTells(h, proof, root_m, n, at, m, is_full)
<1> DEFINE check == Irf!Checks(Len(h), proof, root_m)
           Told(sub, n, at, m, is_full) ==
              Begins(proof, sub) /\ (is_full => root_m = Subtree(h)[m][at])
              => check[n][m][Len(sub)][is_full] = Irf!Pair(Subtree(h)[m][at], Subtree(h)[n][at])
           P(n, at, m, is_full) == Told(Irf!Subproofs(h)[n][at][m][is_full], n, at, m, is_full)
           S == {n \in Nat : n \in 1..Len(h) =>
                    \A at \in Nat, m \in 1..n, is_full \in BOOLEAN : P(n, at, m, is_full)}
           IsSeq(sub) == sub \in Seq(SubtreesOf(h))
<1>0. \A n \in 1..Len(h) : \A at \in Nat, m \in 1..n, is_full \in BOOLEAN :
         IsSeq(Irf!Subproofs(h)[n][at][m][is_full])
  BY SubproofsAreShort
<1> HIDE DEF check, IsSeq
<1>1. ASSUME NEW n \in Nat, \A k \in 0..(n - 1) : k \in S PROVE n \in S
  <2> SUFFICES ASSUME n \in 1..Len(h), NEW at \in Nat, NEW m \in 1..n, NEW is_full \in BOOLEAN
               PROVE  P(n, at, m, is_full)
    <3> HIDE DEF P
    <3> QED  OBVIOUS
  <2>1. \A k \in 1..(n - 1) : \A a \in Nat, j \in 1..k, f \in BOOLEAN : P(k, a, j, f)
    <3> HIDE DEF P
    <3> QED  BY <1>1
  <2> HIDE DEF S
  <2> DEFINE sub == Irf!Subproofs(h)[n][at][m][is_full]
             c == check[n][m][Len(sub)][is_full]
  <2>2. sub = IF m = n THEN IF is_full THEN << >> ELSE <<Subtree(h)[n][at]>>
              ELSE IF m <= Split(n) THEN LeftSubproof(h, n, at, m, is_full)
              ELSE RightSubproof(h, n, at, m)
    BY SubproofsAt
  <2>3. IsSeq(sub)
    BY <1>0
  <2> HIDE DEF P, sub, Told
  <2>4. Len(sub) \in Nat
    BY <2>3 DEF IsSeq
  <2>5. c = IF m = n THEN Known(proof, root_m, Len(sub), is_full)
            ELSE IF Len(sub) = 0 THEN Irf!Refused("BadProofLength")
            ELSE IF m <= Split(n) THEN LeftCheck(check, proof, n, m, Len(sub), is_full)
            ELSE RightCheck(check, proof, n, m, Len(sub))
    BY <2>4, ChecksAt DEF check
  <2> HIDE DEF c
  <2>6. SUFFICES ASSUME Begins(proof, sub), is_full => root_m = Subtree(h)[m][at]
                 PROVE  c = Irf!Pair(Subtree(h)[m][at], Subtree(h)[n][at])
    BY DEF P, Told, c, sub
  <2>7. CASE m = n
    <3>1. c = Known(proof, root_m, Len(sub), is_full)
      BY <2>5, <2>7
    <3>2. CASE is_full
      <4>1. sub = << >>
        BY <2>2, <2>7, <3>2
      <4>2. Len(sub) = 0
        BY <4>1
      <4>3. c = Irf!Pair(root_m, root_m)
        BY <3>1, <3>2, <4>2 DEF Known
      <4> QED  BY <2>6, <2>7, <3>2, <4>3
    <3>3. CASE ~is_full
      <4>1. PICK hash : hash = Subtree(h)[n][at]
        OBVIOUS
      <4>2. sub = <<hash>>
        BY <2>2, <2>7, <3>3, <4>1
      <4>3. Len(sub) = 1 /\ sub[1] = hash
        BY <4>2
      <4>4. proof[1] = hash
        BY <2>6, <4>3 DEF Begins
      <4>5. c = Irf!Pair(proof[1], proof[1])
        BY <3>1, <3>3, <4>3 DEF Known
      <4> QED  BY <2>7, <4>1, <4>4, <4>5
    <3> QED  BY <3>2, <3>3
  <2>8. CASE m # n
    <3>0. n > 1 /\ n \in 0..Len(h)
      BY <2>8
    <3>1. PICK k \in Nat : k = Split(n) /\ k \in 1..(n - 1) /\ n - k \in 1..(n - 1) /\ n - k \in Nat
      BY <3>0, Halves
    <3>2. k \in 1..Len(h) /\ n - k \in 1..Len(h) /\ at + k \in Nat
          /\ k \in 0..Len(h) /\ n - k \in 0..Len(h)
      BY <3>1
    <3>3. Subtree(h)[n][at] = NodeHash(Subtree(h)[k][at], Subtree(h)[n - k][at + k])
      BY <3>0, <3>1, SubtreeOfMany
    <3>4. CASE m <= k
      <4> DEFINE shorter == Irf!Subproofs(h)[k][at][m][is_full]
                 hash    == Subtree(h)[n - k][at + k]
                 left    == check[k][m][Len(shorter)][is_full]
                 fr      == Subtree(h)[m][at]
                 sr      == Subtree(h)[k][at]
      <4>0. m \in 1..k
        BY <3>1, <3>4
      <4>1. sub = LeftSubproof(h, n, at, m, is_full)
        BY <2>2, <2>8, <3>1, <3>4
      <4>2. sub = Append(shorter, hash)
        BY <4>1, <3>1, Zenon DEF LeftSubproof
      <4>3. shorter \in Seq(SubtreesOf(h)) /\ hash \in SubtreesOf(h)
        <5>1. IsSeq(shorter)
          BY <1>0, <3>2, <4>0
        <5> QED  BY <5>1, <3>2, SubtreeIn DEF IsSeq
      <4>4. Told(shorter, k, at, m, is_full)
        <5>1. P(k, at, m, is_full)
          BY <2>1, <3>1, <4>0
        <5> QED  BY <5>1 DEF P
      <4> HIDE DEF shorter, hash
      <4>5. /\ Begins(proof, shorter) /\ Len(shorter) + 1 \in 1..Len(proof)
            /\ proof[Len(shorter) + 1] = hash
        BY <2>6, <4>2, <4>3, BeginsWithAppend
      <4>6. Len(sub) = Len(shorter) + 1 /\ Len(shorter) \in Nat
        BY <4>2, <4>3, AppendOne
      <4>7. left = Irf!Pair(fr, sr)
        BY <2>6, <4>4, <4>5, Zenon DEF Told
      <4>8. Len(sub) # 0 /\ Len(sub) - 1 = Len(shorter) /\ proof[Len(sub)] = hash
        BY <4>5, <4>6
      <4>9. c = LeftCheck(check, proof, n, m, Len(sub), is_full)
        BY <2>5, <2>8, <3>1, <3>4, <4>8
      <4>10. c = IF left.ok THEN Irf!Pair(left.fr, NodeHash(left.sr, hash)) ELSE left
        BY <4>8, <4>9, <3>1, Zenon DEF LeftCheck
      <4> HIDE DEF left, fr, sr
      <4>11. c = Irf!Pair(fr, NodeHash(sr, hash))
        BY <4>7, <4>10 DEF Irf!Pair
      <4> QED  BY <3>3, <4>11, Zenon DEF fr, sr, hash
    <3>5. CASE ~(m <= k)
      <4> DEFINE shorter == Irf!Subproofs(h)[n - k][at + k][m - k][FALSE]
                 hash    == Subtree(h)[k][at]
                 right   == check[n - k][m - k][Len(shorter)][FALSE]
                 fr      == Subtree(h)[m - k][at + k]
                 sr      == Subtree(h)[n - k][at + k]
      <4>0. m - k \in 1..(n - k) /\ Split(n) < m /\ m <= n /\ m \in Nat /\ m \in 0..Len(h)
        BY <3>1, <3>5
      <4>1. sub = RightSubproof(h, n, at, m)
        BY <2>2, <2>8, <3>1, <3>5
      <4>2. sub = Append(shorter, hash)
        BY <4>1, <3>1, Zenon DEF RightSubproof
      <4>3. shorter \in Seq(SubtreesOf(h)) /\ hash \in SubtreesOf(h)
        <5>1. IsSeq(shorter)
          BY <1>0, <3>2, <4>0
        <5> QED  BY <5>1, <3>2, SubtreeIn DEF IsSeq
      <4>4. Told(shorter, n - k, at + k, m - k, FALSE)
        <5>1. P(n - k, at + k, m - k, FALSE)
          BY <2>1, <3>1, <3>2, <4>0
        <5> QED  BY <5>1 DEF P
      <4> HIDE DEF shorter, hash
      <4>5. /\ Begins(proof, shorter) /\ Len(shorter) + 1 \in 1..Len(proof)
            /\ proof[Len(shorter) + 1] = hash
        BY <2>6, <4>2, <4>3, BeginsWithAppend
      <4>6. Len(sub) = Len(shorter) + 1 /\ Len(shorter) \in Nat
        BY <4>2, <4>3, AppendOne
      <4>7. right = Irf!Pair(fr, sr)
        BY <4>4, <4>5, Zenon DEF Told
      <4>8. Len(sub) # 0 /\ Len(sub) - 1 = Len(shorter) /\ proof[Len(sub)] = hash
        BY <4>5, <4>6
      <4>9. c = RightCheck(check, proof, n, m, Len(sub))
        BY <2>5, <2>8, <3>1, <3>5, <4>8
      <4>10. c = IF right.ok THEN Irf!Pair(NodeHash(hash, right.fr), NodeHash(hash, right.sr))
                 ELSE right
        BY <4>8, <4>9, <3>1, Zenon DEF RightCheck
      <4> HIDE DEF right, fr, sr
      <4>11. c = Irf!Pair(NodeHash(hash, fr), NodeHash(hash, sr))
        BY <4>7, <4>10 DEF Irf!Pair
      <4>12. m > 1 /\ Split(m) = k
        BY <3>0, <3>1, <4>0, SplitOfPrefix
      <4>13. Subtree(h)[m][at] = NodeHash(hash, fr)
        BY <4>0, <4>12, SubtreeOfMany DEF hash, fr
      <4> QED  BY <3>3, <4>11, <4>13, Zenon DEF sr, hash
    <3> QED  BY <3>4, <3>5
  <2> QED  BY <2>7, <2>8
<1> HIDE DEF S, P
<1>2. \A n \in Nat : n \in S
  BY <1>1, Induction
<1>3. \A n \in 1..Len(h) : \A at \in Nat, m \in 1..n, is_full \in BOOLEAN : P(n, at, m, is_full)
  BY <1>2 DEF S
<1> QED  BY <1>3, Zenon DEF P, Told, check, SubproofTells

\* The proof that the tree extends its first m leaves verifies against both roots.
LEMMA ConsistencyVerifies ==
    ASSUME NEW T, NEW h \in Seq(T), NEW m \in 1..Len(h), Len(h) <= Power[63]
    PROVE  LET proof == Irf!consistency_proof(h, m)
           IN  /\ proof.ok
               /\ Irf!verify_consistency(m, Root(SubSeq(h, 1, m)), Len(h), Root(h), proof.path) = "Ok"
<1> DEFINE n == Len(h)
           proof == Irf!consistency_proof(h, m)
           path == proof.path
           root_m == Root(SubSeq(h, 1, m))
           c == Irf!Checks(n, path, root_m)[n][m][Len(path)][TRUE]
           Verdict == IF m = 0 \/ m > n THEN "SizeMismatch"
                      ELSE IF m = n
                      THEN IF path # << >> THEN "BadProofLength"
                           ELSE IF root_m = Root(h) THEN "Ok" ELSE "ProofMismatch"
                      ELSE IF Len(path) > 64 THEN "BadProofLength"
                      ELSE IF ~c.ok THEN c.reason
                      ELSE IF c.fr = root_m /\ c.sr = Root(h) THEN "Ok"
                      ELSE "ProofMismatch"
<1>1. n \in Nat /\ m \in 1..n /\ n \in 1..n /\ m \in 0..n /\ 1 \in Nat /\ TRUE \in BOOLEAN
  OBVIOUS
<1>2. root_m = Subtree(h)[m][1]
  BY <1>1, RootOfPrefix
<1>3. /\ proof.ok
      /\ m = n => path = << >>
      /\ m # n => path = Irf!Subproofs(h)[n][1][m][TRUE]
  BY <1>1, ConsistencyProofs
<1>4. Irf!verify_consistency(m, root_m, n, Root(h), path) = Verdict
  BY Zenon DEF Irf!verify_consistency, Irf!verify_subproof, Irf!RootsMatch, Irf!MaxLevels
<1> HIDE DEF n, proof, path, root_m, c
<1>5. ~(m = 0 \/ m > n)
  BY <1>1
<1>6. CASE m = n
  <2>1. path = << >>
    BY <1>3, <1>6
  <2>2. root_m = Root(h)
    BY <1>2, <1>6, Zenon DEF Root, n
  <2>3. Verdict = "Ok"
    BY <1>5, <1>6, <2>1, <2>2
  <2> QED  BY <1>3, <1>4, <2>3, Zenon DEF n, proof, path, root_m
<1>7. CASE m # n
  <2> DEFINE sub == Irf!Subproofs(h)[n][1][m][TRUE]
             Short(s) == /\ s \in Seq(SubtreesOf(h))
                         /\ \A e \in Nat : n <= Power[e] => Len(s) <= e + 1
  <2>1. path = sub
    BY <1>3, <1>7
  <2>2. Short(sub)
    <3> DEFINE P(j, at, k, f) ==
                  LET s == Irf!Subproofs(h)[j][at][k][f]
                  IN  /\ s \in Seq(SubtreesOf(h))
                      /\ \A e \in Nat : j <= Power[e] => Len(s) <= e + 1
    <3>1. \A j \in 1..n : \A at \in Nat, k \in 1..j, f \in BOOLEAN : P(j, at, k, f)
      BY <1>1, SubproofsAreShort, Zenon DEF n
    <3> HIDE DEF P
    <3>2. P(n, 1, m, TRUE)
      BY <1>1, <3>1
    <3> QED  BY <3>2, Zenon DEF P
  <2>3. Len(path) \in Nat /\ ~(Len(path) > 64)
    <3>1. path \in Seq(SubtreesOf(h)) /\ \A e \in Nat : n <= Power[e] => Len(path) <= e + 1
      BY <2>1, <2>2
    <3>2. n <= Power[63]
      BY DEF n
    <3> QED  BY <3>1, <3>2
  <2> HIDE DEF sub
  <2>4. Begins(path, sub) /\ Len(sub) = Len(path)
    BY <2>1, <2>3 DEF Begins
  <2>5. c = Irf!Pair(root_m, Root(h))
    <3>1. \A j \in 1..n : \A at \in Nat, k \in 1..j, f \in BOOLEAN :
             SubproofTells(h, path, root_m, j, at, k, f)
      BY <1>1, <2>3, SubproofChecks DEF n
    <3>2. SubproofTells(h, path, root_m, n, 1, m, TRUE)
      BY <1>1, <3>1
    <3>3. Irf!Checks(Len(h), path, root_m)[n][m][Len(sub)][TRUE]
             = Irf!Pair(Subtree(h)[m][1], Subtree(h)[n][1])
      BY <1>2, <2>4, <3>2, Zenon DEF SubproofTells, sub
    <3> QED  BY <1>2, <2>4, <3>3, Zenon DEF c, n, Root
  <2>6. c.ok /\ c.fr = root_m /\ c.sr = Root(h)
    BY <2>5 DEF Irf!Pair
  <2>7. Verdict = "Ok"
    BY <1>5, <1>7, <2>3, <2>6
  <2> QED  BY <1>3, <1>4, <2>7, Zenon DEF n, proof, path, root_m
<1> QED  BY <1>6, <1>7

\* The tree is shown to extend everything it ever was, up to the size at which its
\* proofs are longer than the verifier reads.
THEOREM ExtensionShown ==
    ASSUME MaxLeaves <= Power[63]
    PROVE  TreeSpec => []ExtendsItsPast
<1>1. HashesInv => ExtendsItsPast
  <2> SUFFICES ASSUME HashesInv, NEW m \in 1..size
               PROVE  LET proof == Irf!consistency_proof(leaf_hashes, m)
                      IN  /\ proof.ok
                          /\ Irf!verify_consistency(m, Root(SubSeq(leaf_hashes, 1, m)), size,
                                                    Root(leaf_hashes), proof.path) = "Ok"
    BY DEF ExtendsItsPast
  <2>1. leaf_hashes \in Seq(LeafHashesOf(Leaves)) /\ m \in 1..Len(leaf_hashes)
    BY DEF HashesInv, size
  <2>2. Len(leaf_hashes) <= Power[63]
    <3>1. Len(leaf_hashes) \in 0..MaxLeaves /\ Power[63] \in Nat
      BY PowerExceeds DEF HashesInv
    <3> QED  BY <3>1, BoundAssumption
  <2> QED  BY <2>1, <2>2, ConsistencyVerifies DEF size
<1> QED  BY <1>1, HashesCorrect, PTL

-----------------------------------------------------------------------------
(* The key ring: KeyRingProofs is about its own copy of the definitions.    *)

Proved == INSTANCE KeyRingProofs

LEMMA SameTypes ==
    /\ Ring!KeyEntry = Proved!KeyEntry
    /\ Ring!Revocation = Proved!Revocation
    /\ Ring!Signature = Proved!Signature
    /\ Ring!RevocationReason = Proved!RevocationReason
BY DEF Ring!KeyEntry, Proved!KeyEntry, Ring!Revocation, Proved!Revocation,
       Ring!Signature, Proved!Signature, Ring!Payload, Proved!Payload,
       Ring!RevocationReason, Proved!RevocationReason

LEMMA SameNext == Ring!Next <=> Proved!Next
<1>1. \A k, t : Ring!AddRoot(k, t) <=> Proved!AddRoot(k, t)
  BY DEF Ring!AddRoot, Proved!AddRoot
<1>2. \A o, n, t : Ring!Rotate(o, n, t) <=> Proved!Rotate(o, n, t)
  BY DEF Ring!Rotate, Proved!Rotate, Ring!MayRotate,
     Proved!MayRotate, Ring!Finds, Proved!Finds, Ring!RetireOld, Proved!RetireOld,
     Ring!Successor, Proved!Successor, Ring!Sign, Proved!Sign, Ring!NewRevocation,
     Proved!NewRevocation, Ring!RotationPayload, Proved!RotationPayload,
     Ring!RevocationPayload, Proved!RevocationPayload
<1>3. \A k, r, e, t : Ring!Revoke(k, r, e, t) <=> Proved!Revoke(k, r, e, t)
  BY DEF Ring!Revoke, Proved!Revoke, Ring!Finds, Proved!Finds, Ring!Sign, Proved!Sign,
     Ring!NewRevocation, Proved!NewRevocation, Ring!RevocationPayload,
     Proved!RevocationPayload
<1>4. QED
  BY <1>1, <1>2, <1>3 DEF Ring!Next, Proved!Next

LEMMA RingKeeps ==
    ASSUME Ring!TypeOK, [Next]_vars
    PROVE  /\ Ring!TypeOK'
           /\ \A i \in DOMAIN keys : keys'[i].created_at = keys[i].created_at
           /\ \A key : \A i \in DOMAIN keys : Ring!Finds(i, key) =>
                 i \in DOMAIN keys' /\ Ring!Finds(i, key)'
<1>1. Ring!Next \/ UNCHANGED keys
  BY DEF Next, Add, Build, ProofFor, Corroborate, RingStep, vars
<1>2. [Proved!Next]_(Proved!vars) /\ Proved!TypeOK
  BY <1>1, SameNext, SameTypes DEF Proved!vars, Ring!TypeOK, Proved!TypeOK
<1>3. /\ None \notin Keys \cup Proved!Revocation \cup Proved!Signature
      /\ Time \subseteq Int /\ Slack \in Nat
      /\ Reasons \subseteq Proved!RevocationReason
  BY RingAssumption, TimeAssumption, SameTypes
<1>4. Proved!TypeOK' /\ \A i \in DOMAIN keys : Proved!EntryKept(i)
  BY <1>2, <1>3, Proved!StepKeepsEntries
<1>5. \A i \in DOMAIN keys : keys'[i].created_at = keys[i].created_at
  BY <1>4 DEF Proved!EntryKept
<1>6. Ring!TypeOK'
  BY <1>4, SameTypes DEF Ring!TypeOK, Proved!TypeOK
<1>7. ASSUME NEW key, NEW i \in DOMAIN keys, Ring!Finds(i, key)
      PROVE  i \in DOMAIN keys' /\ Ring!Finds(i, key)'
  <2>1. Proved!Finds(i, key)
    BY <1>7 DEF Ring!Finds, Proved!Finds
  <2>2. i \in DOMAIN keys' /\ Proved!Finds(i, key)'
    BY <1>2, <1>3, <2>1, Proved!FindsStable
  <2>3. QED
    BY <2>2 DEF Ring!Finds, Proved!Finds
<1>8. QED
  BY <1>5, <1>6, <1>7

-----------------------------------------------------------------------------
(* Types. *)

RecordHashes == {Tree!LeafHash(r.leaf) : r \in Records}

\* TypeOK, and what its tree is a sequence of.
BuilderInv == TypeOK /\ tree \in Seq(RecordHashes)

LEMMA AddStep ==
    ASSUME BuilderInv, NEW record \in Records, Add(record)
    PROVE  \/ UNCHANGED <<tree, records, manifests>>
           \/ /\ Acceptable(record)
              /\ tree' = Append(tree, Tree!LeafHash(record.leaf))
              /\ records' = Append(records, record)
              /\ UNCHANGED manifests
BY DEF Add

LEMMA BuilderStep ==
    ASSUME BuilderInv, [Next]_vars
    PROVE  BuilderInv'
<1>0. Ring!TypeOK'
  BY RingKeeps DEF BuilderInv, TypeOK
<1>1. ASSUME NEW record \in Records, Add(record)
      PROVE  BuilderInv'
  <2>1. /\ corroborations' = corroborations /\ rejected' \in Nat
    BY <1>1 DEF Add, BuilderInv, TypeOK
  <2>2. CASE UNCHANGED <<tree, records>>
    BY <1>0, <2>1, <2>2 DEF BuilderInv, TypeOK
  <2>3. CASE /\ tree' = Append(tree, Tree!LeafHash(record.leaf))
             /\ records' = Append(records, record)
    <3> DEFINE hash(r) == Tree!LeafHash(r.leaf)
    <3>1. hash(record) \in RecordHashes
      BY DEF RecordHashes
    <3> HIDE DEF hash
    <3>2. tree' = Append(tree, hash(record)) /\ \A i \in DOMAIN records : tree[i] = hash(records[i])
      BY <2>3 DEF hash, BuilderInv, TypeOK
    <3>3. /\ tree' \in Seq(RecordHashes) /\ Len(tree') = Len(tree) + 1
          /\ \A i \in 1..Len(tree) : tree'[i] = tree[i]
          /\ tree'[Len(tree) + 1] = hash(record)
      BY <3>1, <3>2, AppendOne DEF BuilderInv
    <3>4. /\ records' \in Seq(Records) /\ Len(records') = Len(records) + 1
          /\ \A i \in 1..Len(records) : records'[i] = records[i]
          /\ records'[Len(records) + 1] = record
      BY <2>3, AppendOne DEF BuilderInv, TypeOK
    <3>5. \A i \in DOMAIN records' : tree'[i] = hash(records'[i])
      BY <3>2, <3>3, <3>4 DEF BuilderInv, TypeOK
    <3>6. QED
      BY <1>0, <2>1, <3>3, <3>4, <3>5 DEF BuilderInv, TypeOK, hash
  <2>4. QED
    BY <1>1, <2>2, <2>3, AddStep
<1>2. ASSUME NEW record \in Records, Corroborate(record)
      PROVE  BuilderInv'
  <2>1. corroborations' \in [Records -> Corroborations]
    BY <1>2 DEF Corroborate, BuilderInv, TypeOK, Corroborations
  <2>2. QED
    BY <1>0, <1>2, <2>1 DEF Corroborate, BuilderInv, TypeOK
<1>3. CASE \/ \E record \in Records : ProofFor(record)
           \/ Build \/ RingStep \/ UNCHANGED vars
  BY <1>0, <1>3 DEF ProofFor, Build, RingStep, vars, BuilderInv, TypeOK
<1>4. QED
  BY <1>1, <1>2, <1>3 DEF Next

LEMMA BuilderInit == Init => BuilderInv
BY RecordsAssumption
DEF Init, BuilderInv, TypeOK, Ring!Init, Ring!TypeOK

\* The builder's state has its type, its key ring's with it.
THEOREM TypeCorrect == Spec => []TypeOK
<1>1. BuilderInv => TypeOK
  BY DEF BuilderInv
<1>2. QED
  BY BuilderInit, BuilderStep, <1>1, PTL DEF Spec

-----------------------------------------------------------------------------
(* Manifests. *)

Commits(m) ==
    LET count == m.collected.record_count
    IN  /\ count \in Nat
        /\ count <= Len(tree)
        /\ m.merkle_root = Tree!Root(SubSeq(tree, 1, count))
        /\ m.collected = Collected(SubSeq(records, 1, count))

ManifestInv ==
    /\ BuilderInv
    /\ \E S : manifests \in Seq(S)
    /\ \A n \in DOMAIN manifests : Commits(manifests[n])

LEMMA CommitsSticks ==
    ASSUME BuilderInv, [Next]_vars, NEW m, Commits(m)
    PROVE  Commits(m)'
<1> DEFINE count == m.collected.record_count
<1>1. count \in 0..Len(tree) /\ count \in 0..Len(records)
  BY DEF Commits, BuilderInv, TypeOK
<1>2. CASE UNCHANGED <<tree, records>>
  BY <1>2 DEF Commits
<1>3. ASSUME NEW record \in Records,
             tree' = Append(tree, Tree!LeafHash(record.leaf)),
             records' = Append(records, record)
      PROVE  Commits(m)'
  <2>1. Tree!LeafHash(record.leaf) \in RecordHashes
    BY DEF RecordHashes
  <2>2. SubSeq(tree', 1, count) = SubSeq(tree, 1, count) /\ Len(tree') = Len(tree) + 1
    BY <1>1, <1>3, <2>1, PrefixOfAppend, AppendOne DEF BuilderInv
  <2>3. SubSeq(records', 1, count) = SubSeq(records, 1, count)
    BY <1>1, <1>3, PrefixOfAppend DEF BuilderInv, TypeOK
  <2>4. Len(tree) \in Nat
    BY DEF BuilderInv
  <2>5. /\ m.merkle_root = Tree!Root(SubSeq(tree', 1, count))
        /\ m.collected = Collected(SubSeq(records', 1, count))
    BY <2>2, <2>3 DEF Commits
  <2>6. count \in Nat /\ count <= Len(tree')
    BY <1>1, <2>2, <2>4
  <2>7. QED
    BY <2>5, <2>6 DEF Commits
<1>4. QED
  BY <1>2, <1>3, AddStep DEF Next, ProofFor, Build, Corroborate, RingStep, vars

LEMMA BuiltCommits ==
    ASSUME BuilderInv, NEW m, m.merkle_root = Tree!Root(tree),
           m.collected = Collected(records)
    PROVE  Commits(m)
<1>1. m.collected.record_count = Len(records)
  BY DEF Collected
<1>2. Len(records) \in Nat /\ Len(records) = Len(tree)
  BY DEF BuilderInv, TypeOK
<1>3. SubSeq(tree, 1, Len(tree)) = tree /\ SubSeq(records, 1, Len(records)) = records
  BY WholePrefix DEF BuilderInv, TypeOK
<1>4. m.collected.record_count = Len(tree) /\ Len(tree) \in Nat
  BY <1>1, <1>2
<1>5. /\ m.merkle_root = Tree!Root(SubSeq(tree, 1, Len(tree)))
      /\ m.collected = Collected(SubSeq(records, 1, Len(tree)))
  BY <1>2, <1>3
<1>6. QED
  BY <1>4, <1>5 DEF Commits

LEMMA ManifestStep ==
    ASSUME ManifestInv, [Next]_vars
    PROVE  ManifestInv'
<1>1. BuilderInv /\ BuilderInv'
  BY BuilderStep DEF ManifestInv
<1>2. \A m : Commits(m) => Commits(m)'
  BY <1>1, CommitsSticks
<1>3. CASE UNCHANGED manifests
  BY <1>1, <1>2, <1>3 DEF ManifestInv
<1>4. CASE Build
  <2> DEFINE m == [merkle_root |-> Tree!Root(tree), collected |-> Collected(records),
                   corroborated |-> Corroborated(records)]
  <2>1. manifests' = Append(manifests, m)
    BY <1>4 DEF Build
  <2>2. Commits(m)
    BY <1>1, BuiltCommits
  <2> HIDE DEF m
  <2>3. PICK S : manifests \in Seq(S)
    BY DEF ManifestInv
  <2>4. manifests \in Seq(S \cup {m})
    BY <2>3
  <2>5. /\ manifests' \in Seq(S \cup {m}) /\ Len(manifests') = Len(manifests) + 1
        /\ \A n \in 1..Len(manifests) : manifests'[n] = manifests[n]
        /\ manifests'[Len(manifests) + 1] = m
    BY <2>1, <2>4, AppendOne
  <2>6. PICK built : built = m
    OBVIOUS
  <2>7. Commits(built)'
    BY <1>2, <2>2, <2>6
  <2>8. \A n \in DOMAIN manifests' : \/ n \in DOMAIN manifests /\ manifests'[n] = manifests[n]
                                     \/ manifests'[n] = built
    BY <2>3, <2>5, <2>6
  <2>9. (\A n \in DOMAIN manifests : Commits(manifests[n]))'
    <3> SUFFICES ASSUME NEW n \in DOMAIN manifests'
                 PROVE  Commits(manifests[n])'
      OBVIOUS
    <3>1. PICK c : c = manifests'[n]
      OBVIOUS
    <3>2. Commits(c)'
      BY <1>2, <2>7, <2>8, <3>1 DEF ManifestInv
    <3>3. QED
      BY <3>1, <3>2 DEF Commits
  <2>10. QED
    BY <1>1, <2>5, <2>9 DEF ManifestInv
<1>5. QED
  BY <1>3, <1>4 DEF Next, Add, ProofFor, Corroborate, RingStep, vars

LEMMA ManifestInit == Init => ManifestInv
<1>1. Init => manifests \in Seq({}) /\ DOMAIN manifests = {}
  BY DEF Init
<1> QED  BY <1>1, BuilderInit DEF ManifestInv

\* Every manifest signed commits to the records it counts and to nothing else.
THEOREM ManifestCorrect == Spec => []ManifestsCommit
<1>1. Init => ManifestInv
  BY ManifestInit
<1>2. ManifestInv /\ [Next]_vars => ManifestInv'
  BY ManifestStep
<1>3. ManifestInv => ManifestsCommit
  BY DEF ManifestInv, ManifestsCommit, Commits
<1>4. QED
  BY <1>1, <1>2, <1>3, PTL DEF Spec

-----------------------------------------------------------------------------
(* Records under a key ring. *)

\* The ring holds the key of the record, created before it was signed.
KeyOnRecord(record) ==
    \E i \in DOMAIN keys :
        /\ Ring!Finds(i, record.leaf.worker_public_key)
        /\ record.leaf.fetched_at >= keys[i].created_at - Slack

LEMMA KeyOnRecordSticks ==
    ASSUME Ring!TypeOK, [Next]_vars, NEW r, KeyOnRecord(r)
    PROVE  KeyOnRecord(r)'
<1>1. PICK i \in DOMAIN keys : /\ Ring!Finds(i, r.leaf.worker_public_key)
                               /\ r.leaf.fetched_at >= keys[i].created_at - Slack
  BY DEF KeyOnRecord
<1>2. PICK key : key = r.leaf.worker_public_key
  OBVIOUS
<1>3. i \in DOMAIN keys' /\ Ring!Finds(i, key)' /\ keys'[i].created_at = keys[i].created_at
  BY <1>1, <1>2, RingKeeps
<1>4. QED
  BY <1>1, <1>2, <1>3 DEF KeyOnRecord

ExplainedInv ==
    /\ BuilderInv
    /\ KeyringGiven => \A i \in DOMAIN records : KeyOnRecord(records[i])

LEMMA InvExplains ==
    ASSUME ExplainedInv
    PROVE  IncludedStaysExplained
<1> SUFFICES ASSUME KeyringGiven, NEW n \in DOMAIN records, ~KeyTrusted(records[n])
             PROVE  \E i \in DOMAIN keys :
                       /\ Ring!Finds(i, records[n].leaf.worker_public_key)
                       /\ Ring!Compromised(keys[i])
                       /\ records[n].leaf.fetched_at >= keys[i].revocation.effective_at
  BY DEF IncludedStaysExplained
<1>1. PICK i \in DOMAIN keys :
         /\ Ring!Finds(i, records[n].leaf.worker_public_key)
         /\ records[n].leaf.fetched_at >= keys[i].created_at - Slack
  BY DEF ExplainedInv, KeyOnRecord
<1>2. ~Ring!EntryTrustedAt(keys[i], records[n].leaf.fetched_at)
  BY <1>1 DEF KeyTrusted, Ring!TrustedAt
<1>3. /\ keys[i].revocation # None
      /\ keys[i].revocation.reason \notin Ring!NonInvalidating
      /\ ~(records[n].leaf.fetched_at < keys[i].revocation.effective_at)
  BY <1>1, <1>2 DEF Ring!EntryTrustedAt
<1>4. keys[i].revocation \in Ring!Revocation
  <2>1. keys[i] \in Ring!KeyEntry
    BY DEF ExplainedInv, BuilderInv, TypeOK, Ring!TypeOK
  <2>2. QED
    BY <1>3, <2>1 DEF Ring!KeyEntry
<1>5. keys[i].revocation.reason = "compromised"
  BY <1>3, <1>4 DEF Ring!Revocation, Ring!RevocationReason, Ring!NonInvalidating
<1>6. keys[i].revocation.effective_at \in Int
  BY <1>4, TimeAssumption DEF Ring!Revocation
<1>7. records[n].leaf.fetched_at \in Int
  <2>1. records[n] \in ProvenanceRecord
    BY RecordsAssumption DEF ExplainedInv, BuilderInv, TypeOK
  <2>2. QED
    BY <2>1, TimeAssumption DEF ProvenanceRecord, LeafFields
<1>8. QED
  BY <1>1, <1>3, <1>5, <1>6, <1>7 DEF Ring!Compromised

\* With a key ring, what is in the corpus loses its trust to a compromise only.
THEOREM ExplainedCorrect == Spec => []IncludedStaysExplained
<1>1. Init => ExplainedInv
  BY BuilderInit DEF Init, ExplainedInv
<1>2. ExplainedInv /\ [Next]_vars => ExplainedInv'
  <2> SUFFICES ASSUME ExplainedInv, [Next]_vars  PROVE  ExplainedInv'
    OBVIOUS
  <2>0. BuilderInv /\ BuilderInv' /\ Ring!TypeOK
    BY BuilderStep DEF ExplainedInv, BuilderInv, TypeOK
  <2>1. \A r : KeyOnRecord(r) => KeyOnRecord(r)'
    BY <2>0, KeyOnRecordSticks
  <2>2. ASSUME NEW r, KeyringGiven => KeyOnRecord(r),
               NEW n \in DOMAIN records', records'[n] = r
        PROVE  KeyringGiven => KeyOnRecord(records[n])'
    BY <2>1, <2>2 DEF KeyOnRecord
  <2>3. CASE UNCHANGED records
    <3>1. \A n \in DOMAIN records' : \E r : /\ KeyringGiven => KeyOnRecord(r)
                                           /\ records'[n] = r
      BY <2>3 DEF ExplainedInv
    <3>2. QED
      BY <2>0, <2>2, <3>1 DEF ExplainedInv
  <2>4. ASSUME NEW record \in Records, Acceptable(record),
               records' = Append(records, record)
        PROVE  ExplainedInv'
    <3>1. KeyringGiven => KeyOnRecord(record)
      BY <2>4 DEF Acceptable, KeyTrusted, KeyOnRecord, Ring!TrustedAt, Ring!EntryTrustedAt
    <3>2. \A n \in DOMAIN records' : \/ n \in DOMAIN records /\ records'[n] = records[n]
                                     \/ records'[n] = record
      BY <2>4, AppendOne DEF BuilderInv, TypeOK, ExplainedInv
    <3>3. \A n \in DOMAIN records' : \E r : /\ KeyringGiven => KeyOnRecord(r)
                                           /\ records'[n] = r
      BY <3>1, <3>2 DEF ExplainedInv
    <3>4. QED
      BY <2>0, <2>2, <3>3 DEF ExplainedInv
  <2>5. QED
    BY <2>0, <2>3, <2>4, AddStep DEF Next, ProofFor, Build, Corroborate, RingStep, vars
<1>3. QED
  BY <1>1, <1>2, InvExplains, PTL DEF Spec

-----------------------------------------------------------------------------
(* Proofs handed out. The builder's tree is a copy of the definitions that    *)
(* the tree's theorems are about.                                            *)

LEMMA SameTree ==
    /\ \A hash : Tree!LeafHash(hash) = LeafHash(hash)
    /\ \A hashes : Tree!Root(hashes) = Root(hashes)
    /\ \A hashes, i : Tree!InclusionProof(hashes, i) = InclusionProof(hashes, i)
    /\ \A proof, top : Tree!VerifyInclusion(proof, top) <=> VerifyInclusion(proof, top)
<1>1. \A hash : Tree!LeafHash(hash) = LeafHash(hash)
  BY DEF Tree!LeafHash, LeafHash
<1>2. ASSUME NEW hashes PROVE Tree!Root(hashes) = Root(hashes)
  BY DEF Tree!Root, Root, Tree!Subtree, Subtree, Tree!Split, Split, Tree!Power, Power,
         Tree!NodeHash, NodeHash, Tree!EmptyHash, EmptyHash
<1>3. ASSUME NEW hashes, NEW i
      PROVE  Tree!InclusionProof(hashes, i) = InclusionProof(hashes, i)
  BY DEF Tree!InclusionProof, InclusionProof, Tree!Path, Path, Tree!Paths, Paths,
         Tree!Join, Join, Tree!Subtree, Subtree, Tree!Split, Split, Tree!Power, Power,
         Tree!NodeHash, NodeHash, Tree!EmptyHash, EmptyHash
<1>4. ASSUME NEW proof, NEW top
      PROVE  Tree!VerifyInclusion(proof, top) <=> VerifyInclusion(proof, top)
  BY DEF Tree!VerifyInclusion, VerifyInclusion, Tree!Computed, Computed, Tree!Climb, Climb,
         Tree!NodeHash, NodeHash
<1> QED  BY <1>1, <1>2, <1>3, <1>4

\* The proof is the record's in the tree as it was with its first k leaves.
TakenFrom(p, k) ==
    /\ k \in 1..Len(tree)
    /\ \E i \in 1..k :
          /\ p.proof = InclusionProof(SubSeq(tree, 1, k), i)
          /\ SubSeq(tree, 1, k)[i] = LeafHash(p.record.leaf)

ProofsInv == ManifestInv /\ \A p \in proofs : \E k : TakenFrom(p, k)

LEMMA TakenStays ==
    ASSUME BuilderInv, [Next]_vars, NEW p, NEW k, TakenFrom(p, k)
    PROVE  TakenFrom(p, k)'
<1>1. k \in 0..Len(tree) /\ tree \in Seq(RecordHashes) /\ Len(tree) \in Nat
  BY DEF TakenFrom, BuilderInv
<1>2. CASE UNCHANGED tree
  BY <1>2 DEF TakenFrom
<1>3. ASSUME NEW record \in Records, tree' = Append(tree, Tree!LeafHash(record.leaf))
      PROVE  TakenFrom(p, k)'
  <2>1. Tree!LeafHash(record.leaf) \in RecordHashes
    BY DEF RecordHashes
  <2>2. SubSeq(tree', 1, k) = SubSeq(tree, 1, k) /\ Len(tree') = Len(tree) + 1
    BY <1>1, <1>3, <2>1, PrefixOfAppend, AppendOne
  <2>3. k \in 1..Len(tree')
    BY <1>1, <2>2 DEF TakenFrom
  <2> QED  BY <2>2, <2>3 DEF TakenFrom
<1> QED  BY <1>2, <1>3, AddStep DEF Next, ProofFor, Build, Corroborate, RingStep, vars

LEMMA ProofsStep ==
    ASSUME ProofsInv, [Next]_vars
    PROVE  ProofsInv'
<1>1. BuilderInv /\ ManifestInv'
  BY ManifestStep DEF ProofsInv, ManifestInv
<1>2. \A p, k : TakenFrom(p, k) => TakenFrom(p, k)'
  BY <1>1, TakenStays
<1>3. ASSUME NEW p \in proofs' PROVE \E k : TakenFrom(p, k)'
  <2>1. CASE p \in proofs
    BY <1>2, <2>1 DEF ProofsInv
  <2>2. CASE p \notin proofs
    <3>1. PICK record \in Records : ProofFor(record)
      BY <1>3, <2>2 DEF Next, Add, Build, Corroborate, RingStep, vars
    <3>2. PICK i \in DOMAIN tree :
             /\ Found(i, record)
             /\ proofs' = proofs \cup {[record |-> record, proof |-> Tree!InclusionProof(tree, i)]}
      BY <3>1 DEF ProofFor
    <3>3. p = [record |-> record, proof |-> Tree!InclusionProof(tree, i)]
      BY <2>2, <3>2
    <3>4. p.record = record /\ p.proof = InclusionProof(tree, i)
      BY <3>3, SameTree
    <3>5. tree[i] = LeafHash(record.leaf)
      BY <3>2, SameTree DEF Found, Matches
    <3>6. tree \in Seq(RecordHashes)
      BY <1>1 DEF BuilderInv
    <3>7. SubSeq(tree, 1, Len(tree)) = tree /\ i \in 1..Len(tree) /\ Len(tree) \in 1..Len(tree)
      <4>1. SubSeq(tree, 1, Len(tree)) = tree
        BY <3>6, WholePrefix
      <4>2. i \in 1..Len(tree) /\ Len(tree) \in Nat
        BY <3>6
      <4> QED  BY <4>1, <4>2
    <3>8. TakenFrom(p, Len(tree))
      BY <3>4, <3>5, <3>7 DEF TakenFrom
    <3>9. PICK k : k = Len(tree)
      OBVIOUS
    <3>10. TakenFrom(p, k)
      BY <3>8, <3>9
    <3> QED  BY <1>2, <3>10
  <2> QED  BY <2>1, <2>2
<1>4. (\A p \in proofs : \E k : TakenFrom(p, k))'
  BY <1>3
<1> QED  BY <1>1, <1>4 DEF ProofsInv

\* A proof verifies against the roots of just the list it was made for.
LEMMA ProofIsOfItsList ==
    ASSUME NEW g, Len(g) \in Nat, AreLeaves(g), NEW q, Len(q) \in Nat, AreLeaves(q),
           NEW i \in 1..Len(g)
    PROVE  VerifyInclusion(InclusionProof(g, i), Root(q)) => Len(g) = Len(q)
<1>1. VerifyInclusion(InclusionProof(g, i), Root(g))
  BY InclusionVerifies
<1>2. SUFFICES ASSUME VerifyInclusion(InclusionProof(g, i), Root(q)) PROVE Len(g) = Len(q)
  OBVIOUS
<1>3. Root(g) = Root(q)
  BY <1>1, <1>2 DEF VerifyInclusion
<1> QED  BY <1>3, RootsCommit

LEMMA PrefixAreLeaves ==
    ASSUME BuilderInv, NEW k \in 0..Len(tree)
    PROVE  Len(SubSeq(tree, 1, k)) = k /\ AreLeaves(SubSeq(tree, 1, k))
<1>1. tree \in Seq(RecordHashes)
  BY DEF BuilderInv
<1>2. Len(SubSeq(tree, 1, k)) = k /\ \A i \in 1..k : SubSeq(tree, 1, k)[i] = tree[i]
  BY <1>1
<1>3. \A i \in 1..k : tree[i] \in RecordHashes
  BY <1>1
<1>4. \A hash \in RecordHashes : \E d : hash = LeafHash(d)
  BY SameTree DEF RecordHashes
<1> QED  BY <1>2, <1>3, <1>4 DEF AreLeaves

\* A proof handed out shows the record to be in the manifests of the tree it was
\* taken from, and in no other.
THEOREM MembershipCorrect == Spec => []MembershipExact
<1>1. Init => ProofsInv
  BY ManifestInit DEF Init, ProofsInv
<1>2. ProofsInv /\ [Next]_vars => ProofsInv'
  BY ProofsStep
<1>3. ProofsInv => MembershipExact
  <2> SUFFICES ASSUME ProofsInv, NEW p \in proofs, NEW n \in DOMAIN manifests
               PROVE  LET proof == [p.proof EXCEPT !.leaf_hash = Tree!LeafHash(p.record.leaf)]
                      IN  Tree!VerifyInclusion(proof, manifests[n].merkle_root)
                             <=> proof.tree_size = manifests[n].collected.record_count
    BY DEF MembershipExact
  <2> DEFINE count == manifests[n].collected.record_count
             top   == manifests[n].merkle_root
             proof == [p.proof EXCEPT !.leaf_hash = Tree!LeafHash(p.record.leaf)]
             Listed(k) == SubSeq(tree, 1, k)
  <2>1. BuilderInv /\ Commits(manifests[n])
    BY DEF ProofsInv, ManifestInv
  <2>2. /\ count \in 0..Len(tree) /\ top = Root(Listed(count))
    <3>1. count \in Nat /\ count <= Len(tree) /\ top = Tree!Root(SubSeq(tree, 1, count))
      BY <2>1 DEF Commits
    <3>2. Len(tree) \in Nat
      BY <2>1 DEF BuilderInv
    <3> QED  BY <3>1, <3>2, SameTree
  <2>3. PICK k : TakenFrom(p, k)
    BY DEF ProofsInv
  <2>4. PICK i \in 1..k : p.proof = InclusionProof(Listed(k), i)
                          /\ Listed(k)[i] = LeafHash(p.record.leaf)
    BY <2>3 DEF TakenFrom
  <2>5. k \in 0..Len(tree) /\ k \in Nat /\ count \in Nat
    <3>1. Len(tree) \in Nat
      BY <2>1 DEF BuilderInv
    <3> QED  BY <2>2, <2>3, <3>1 DEF TakenFrom
  <2>6. /\ Len(Listed(k)) = k /\ AreLeaves(Listed(k))
        /\ Len(Listed(count)) = count /\ AreLeaves(Listed(count))
    BY <2>1, <2>2, <2>5, PrefixAreLeaves
  <2> HIDE DEF Listed, count, top
  <2>7. proof = InclusionProof(Listed(k), i) /\ proof.tree_size = k
    <3>1. PICK l : l = Listed(k)[i] /\ l = Tree!LeafHash(p.record.leaf)
      BY <2>4, SameTree
    <3>2. p.proof = [leaf_hash |-> l, tree_size |-> k, audit_path |-> Path(Listed(k), i)]
      BY <2>4, <2>6, <3>1 DEF InclusionProof
    <3>3. proof = p.proof /\ proof.tree_size = k
      BY <3>1, <3>2
    <3> QED  BY <2>4, <3>3
  <2> HIDE DEF proof
  <2>8. i \in 1..Len(Listed(k)) /\ Len(Listed(k)) \in Nat /\ Len(Listed(count)) \in Nat
    BY <2>5, <2>6
  <2>9. VerifyInclusion(proof, top) => k = count
    BY <2>2, <2>6, <2>7, <2>8, ProofIsOfItsList
  <2>10. k = count => VerifyInclusion(proof, top)
    <3>1. VerifyInclusion(InclusionProof(Listed(k), i), Root(Listed(k)))
      BY <2>8, InclusionVerifies
    <3> QED  BY <2>2, <2>7, <3>1
  <2> QED  BY <2>7, <2>9, <2>10, SameTree DEF proof, count, top
<1> QED  BY <1>1, <1>2, <1>3, PTL DEF Spec
=============================================================================
