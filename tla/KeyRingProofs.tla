--------------------------- MODULE KeyRingProofs ---------------------------
(***************************************************************************)
(* Proofs about the key ring, for every set of keys, every set of instants *)
(* and rings of any length.                                                *)
(***************************************************************************)
EXTENDS KeyRing, SequenceTheorems, TLAPS

(***************************************************************************)
(* What a step may do to the entry at position n: everything but the       *)
(* revocation is kept, and a revoked key stays revoked.                    *)
(***************************************************************************)
EntryKept(n) ==
    /\ keys'[n].public_key = keys[n].public_key
    /\ keys'[n].created_at = keys[n].created_at
    /\ keys'[n].predecessor = keys[n].predecessor
    /\ keys'[n].predecessor_signature = keys[n].predecessor_signature
    /\ keys'[n].successor_signature = keys[n].successor_signature
    /\ keys[n].revocation # None => keys'[n].revocation # None

\* A new revocation is a Revocation, and so it is not None.
LEMMA NewRevocationType ==
    ASSUME NEW key \in Keys, NEW reason \in RevocationReason,
           NEW at \in Time, NEW attester \in Keys
    PROVE  /\ NewRevocation(key, reason, at, attester) \in Revocation
           /\ NewRevocation(key, reason, at, attester) # None
<1>1. NewRevocation(key, reason, at, attester) \in Revocation
  BY DEF NewRevocation, Revocation, Signature, Sign, Payload, RevocationPayload
<1>2. QED
  BY <1>1, NoneAssumption

\* The entry rotate appends is a KeyEntry.
LEMMA SuccessorType ==
    ASSUME NEW old \in Keys, NEW new \in Keys, NEW at \in Time
    PROVE  Successor(old, new, at) \in KeyEntry
<1>1. RotationPayload(old, new, at) \in Payload
  BY DEF RotationPayload, Payload
<1>2. /\ Sign(old, RotationPayload(old, new, at)) \in Signature
      /\ Sign(new, RotationPayload(old, new, at)) \in Signature
  BY <1>1 DEF Sign, Signature
<1>3. QED
  BY <1>2 DEF Successor, KeyEntry

\* Replacing one entry's revocation keeps the ring a ring of entries.
LEMMA ReviseOne ==
    ASSUME TypeOK, NEW i \in DOMAIN keys, NEW rev \in Revocation
    PROVE  /\ [keys EXCEPT ![i].revocation = rev] \in Seq(KeyEntry)
           /\ Len([keys EXCEPT ![i].revocation = rev]) = Len(keys)
           /\ \A n \in DOMAIN keys : n # i =>
                 [keys EXCEPT ![i].revocation = rev][n] = keys[n]
           /\ [keys EXCEPT ![i].revocation = rev][i] = [keys[i] EXCEPT !.revocation = rev]
<1> DEFINE e == [keys[i] EXCEPT !.revocation = rev]
<1>1. keys \in Seq(KeyEntry) /\ DOMAIN keys = 1..Len(keys) /\ i \in 1..Len(keys)
  BY DEF TypeOK
<1>2. keys[i] \in KeyEntry
  BY <1>1
<1>3. e \in KeyEntry
  BY <1>2 DEF KeyEntry
<1>4. [keys EXCEPT ![i].revocation = rev] = [keys EXCEPT ![i] = e]
  OBVIOUS
<1>5. QED
  BY <1>1, <1>3, <1>4, ExceptSeq

LEMMA AppendOne ==
    ASSUME NEW S, NEW seq \in Seq(S), NEW e \in S
    PROVE  /\ Append(seq, e) \in Seq(S)
           /\ Len(Append(seq, e)) = Len(seq) + 1
           /\ \A n \in 1..Len(seq) : Append(seq, e)[n] = seq[n]
           /\ Append(seq, e)[Len(seq) + 1] = e
OBVIOUS

-----------------------------------------------------------------------------
(* The three ways a step changes the ring, entry by entry. *)

LEMMA AddRootStep ==
    ASSUME TypeOK, NEW key \in Keys, NEW at \in Time, AddRoot(key, at)
    PROVE  /\ TypeOK'
           /\ Len(keys') = Len(keys) + 1
           /\ \A n \in DOMAIN keys : keys'[n] = keys[n]
           /\ keys'[Len(keys) + 1].public_key = key
           /\ keys'[Len(keys) + 1].revocation = None
           /\ keys'[Len(keys) + 1].predecessor = None
<1> DEFINE root == [public_key |-> key, created_at |-> at, revocation |-> None,
                    predecessor |-> None, predecessor_signature |-> None,
                    successor_signature |-> None]
<1>1. root \in KeyEntry
  BY DEF KeyEntry
<1>2. keys \in Seq(KeyEntry) /\ keys' = Append(keys, root)
  BY DEF TypeOK, AddRoot
<1>3. root.public_key = key /\ root.revocation = None /\ root.predecessor = None
  OBVIOUS
<1> HIDE DEF root
<1>4. QED
  BY <1>1, <1>2, <1>3, AppendOne DEF TypeOK

LEMMA RotateStep ==
    ASSUME TypeOK, NEW old \in Keys, NEW new \in Keys, NEW at \in Time,
           Rotate(old, new, at)
    PROVE  \E i \in DOMAIN keys :
             /\ MayRotate(i, old)
             /\ TypeOK'
             /\ Len(keys') = Len(keys) + 1
             /\ \A n \in DOMAIN keys : n # i => keys'[n] = keys[n]
             /\ keys'[i] = [keys[i] EXCEPT
                   !.revocation = NewRevocation(old, "rotated", at, old)]
             /\ keys'[Len(keys) + 1] = Successor(old, new, at)
<1>1. PICK i \in DOMAIN keys :
         MayRotate(i, old) /\ keys' = Append(RetireOld(i, at), Successor(old, new, at))
  BY DEF Rotate
<1>2. keys[i].public_key = old
  BY <1>1 DEF MayRotate, Finds
<1> DEFINE rev == NewRevocation(old, "rotated", at, old)
<1>3. rev \in Revocation
  BY NewRevocationType DEF RevocationReason
<1>4. RetireOld(i, at) = [keys EXCEPT ![i].revocation = rev]
  BY <1>2 DEF RetireOld
<1> HIDE DEF rev
<1>5. /\ RetireOld(i, at) \in Seq(KeyEntry)
      /\ Len(RetireOld(i, at)) = Len(keys)
      /\ \A n \in DOMAIN keys : n # i => RetireOld(i, at)[n] = keys[n]
      /\ RetireOld(i, at)[i] = [keys[i] EXCEPT !.revocation = rev]
  BY <1>3, <1>4, ReviseOne
<1>6. Successor(old, new, at) \in KeyEntry
  BY SuccessorType
<1>7. keys \in Seq(KeyEntry) /\ DOMAIN keys = 1..Len(keys) /\ Len(keys) \in Nat
  BY DEF TypeOK
<1>8. /\ keys' \in Seq(KeyEntry)
      /\ Len(keys') = Len(keys) + 1
      /\ \A n \in DOMAIN keys : keys'[n] = RetireOld(i, at)[n]
      /\ keys'[Len(keys) + 1] = Successor(old, new, at)
  <2> DEFINE retired == RetireOld(i, at)
             next == Successor(old, new, at)
  <2>1. /\ retired \in Seq(KeyEntry) /\ next \in KeyEntry
        /\ Len(retired) = Len(keys) /\ keys' = Append(retired, next)
    BY <1>1, <1>5, <1>6
  <2> HIDE DEF retired, next
  <2>2. /\ keys' \in Seq(KeyEntry) /\ Len(keys') = Len(retired) + 1
        /\ \A n \in 1..Len(retired) : keys'[n] = retired[n]
        /\ keys'[Len(retired) + 1] = next
    BY <2>1, AppendOne
  <2> QED
    BY <1>7, <2>1, <2>2 DEF retired, next
<1>9. QED
  BY <1>1, <1>5, <1>8 DEF TypeOK, rev

LEMMA RevokeStep ==
    ASSUME TypeOK, NEW key \in Keys, NEW reason \in Reasons,
           NEW effective_at \in Time, NEW attester \in Keys,
           Revoke(key, reason, effective_at, attester)
    PROVE  \E i \in DOMAIN keys :
             /\ Finds(i, key)
             /\ TypeOK'
             /\ Len(keys') = Len(keys)
             /\ \A n \in DOMAIN keys : n # i => keys'[n] = keys[n]
             /\ keys'[i] = [keys[i] EXCEPT
                   !.revocation = NewRevocation(key, reason, effective_at, attester)]
<1> DEFINE rev == NewRevocation(key, reason, effective_at, attester)
<1>1. PICK i \in DOMAIN keys :
         /\ Finds(i, key)
         /\ keys' = [keys EXCEPT ![i].revocation = rev]
  BY DEF Revoke
<1>2. rev \in Revocation
  BY NewRevocationType, ReasonsAssumption
<1> HIDE DEF rev
<1>3. QED
  BY <1>1, <1>2, ReviseOne DEF TypeOK, rev

\* No step removes an entry or changes anything but its revocation.
LEMMA StepKeepsEntries ==
    ASSUME TypeOK, [Next]_vars
    PROVE  /\ TypeOK'
           /\ Len(keys') >= Len(keys)
           /\ \A n \in DOMAIN keys : EntryKept(n)
<1>0. /\ DOMAIN keys = 1..Len(keys) /\ Len(keys) \in Nat
      /\ \A n \in DOMAIN keys : keys[n] \in KeyEntry
  BY DEF TypeOK
<1>1. CASE \E key \in Keys, at \in Time : AddRoot(key, at)
  <2>1. PICK key \in Keys, at \in Time : AddRoot(key, at)
    BY <1>1
  <2>2. /\ TypeOK'
        /\ Len(keys') = Len(keys) + 1
        /\ \A n \in DOMAIN keys : keys'[n] = keys[n]
    BY <2>1, AddRootStep
  <2>3. QED
    BY <1>0, <2>2 DEF EntryKept
<1>2. CASE \E old, new \in Keys, at \in Time : Rotate(old, new, at)
  <2>1. PICK old \in Keys, new \in Keys, at \in Time : Rotate(old, new, at)
    BY <1>2
  <2>2. NewRevocation(old, "rotated", at, old) # None
    BY NewRevocationType DEF RevocationReason
  <2>3. PICK i \in DOMAIN keys :
           /\ TypeOK'
           /\ Len(keys') = Len(keys) + 1
           /\ \A n \in DOMAIN keys : n # i => keys'[n] = keys[n]
           /\ keys'[i] = [keys[i] EXCEPT
                 !.revocation = NewRevocation(old, "rotated", at, old)]
    BY <2>1, RotateStep
  <2>4. QED
    BY <1>0, <2>2, <2>3 DEF EntryKept, KeyEntry
<1>3. CASE \E key, attester \in Keys, reason \in Reasons, effective_at \in Time :
              Revoke(key, reason, effective_at, attester)
  <2>1. PICK key \in Keys, attester \in Keys, reason \in Reasons, effective_at \in Time :
           Revoke(key, reason, effective_at, attester)
    BY <1>3
  <2>2. NewRevocation(key, reason, effective_at, attester) # None
    BY NewRevocationType, ReasonsAssumption
  <2>3. PICK i \in DOMAIN keys :
           /\ TypeOK'
           /\ Len(keys') = Len(keys)
           /\ \A n \in DOMAIN keys : n # i => keys'[n] = keys[n]
           /\ keys'[i] = [keys[i] EXCEPT
                 !.revocation = NewRevocation(key, reason, effective_at, attester)]
    BY <2>1, RevokeStep
  <2>4. QED
    BY <1>0, <2>2, <2>3 DEF EntryKept, KeyEntry
<1>4. CASE UNCHANGED vars
  BY <1>0, <1>4 DEF vars, TypeOK, EntryKept
<1>5. QED
  BY <1>1, <1>2, <1>3, <1>4 DEF Next

\* Type correctness: the operations only ever build well-formed rings.
THEOREM TypeCorrect == Spec => []TypeOK
<1>1. Init => TypeOK
  BY DEF Init, TypeOK
<1>2. TypeOK /\ [Next]_vars => TypeOK'
  BY StepKeepsEntries
<1>3. QED
  BY <1>1, <1>2, PTL DEF Spec

-----------------------------------------------------------------------------
(* What find sees before and after a step. *)

LEMMA FindsUnique ==
    ASSUME TypeOK, NEW key, NEW i \in DOMAIN keys, NEW j \in DOMAIN keys,
           Finds(i, key), Finds(j, key)
    PROVE  i = j
<1>1. i \in Int /\ j \in Int
  BY DEF TypeOK
<1>2. QED
  BY <1>1 DEF Finds

LEMMA FindsStable ==
    ASSUME TypeOK, [Next]_vars, NEW key, NEW i \in DOMAIN keys, Finds(i, key)
    PROVE  i \in DOMAIN keys' /\ Finds(i, key)'
<1>1. /\ DOMAIN keys = 1..Len(keys) /\ Len(keys) \in Nat
      /\ DOMAIN keys' = 1..Len(keys') /\ Len(keys') \in Nat
      /\ Len(keys') >= Len(keys)
      /\ \A n \in DOMAIN keys : keys'[n].public_key = keys[n].public_key
  BY StepKeepsEntries DEF TypeOK, EntryKept
<1>2. \A j \in DOMAIN keys' : j < i => j \in DOMAIN keys
  BY <1>1
<1>3. QED
  BY <1>1, <1>2 DEF Finds

-----------------------------------------------------------------------------
(* Continuity and no forks. *)

IdentityInv == TypeOK /\ OneIdentity

\* An entry that was in the ring keeps a revoked predecessor behind it.
LEMMA OldEntriesContinue ==
    ASSUME TypeOK, Continuity, [Next]_vars, NEW i \in DOMAIN keys,
           keys'[i].predecessor # None
    PROVE  \E j \in DOMAIN keys' :
              /\ j < i
              /\ Finds(j, keys[i].predecessor)'
              /\ keys'[j].revocation # None
<1>1. PICK p : p = keys[i].predecessor
  OBVIOUS
<1>2. keys'[i].predecessor = p
  BY <1>1, StepKeepsEntries DEF EntryKept
<1>3. PICK j \in DOMAIN keys :
         j < i /\ Finds(j, p) /\ keys[j].revocation # None
  BY <1>1, <1>2 DEF Continuity
<1>4. j \in DOMAIN keys' /\ Finds(j, p)'
  BY <1>3, FindsStable
<1>5. keys'[j].revocation # None
  BY <1>3, StepKeepsEntries DEF EntryKept
<1>6. Finds(j, keys[i].predecessor)'
  BY <1>2, <1>4 DEF Finds
<1>7. QED
  BY <1>3, <1>4, <1>5, <1>6

\* Identity: predecessors lead strictly back through revoked keys to a root, and
\* no key has two successors, whatever sequence of operations built the ring.
THEOREM IdentityCorrect == Spec => []OneIdentity
<1>1. Init => IdentityInv
  BY DEF Init, IdentityInv, OneIdentity, TypeOK, Continuity, NoFork
<1>2. IdentityInv /\ [Next]_vars => IdentityInv'
  <2> SUFFICES ASSUME IdentityInv, [Next]_vars  PROVE  IdentityInv'
    OBVIOUS
  <2> USE DEF IdentityInv, OneIdentity
  <2>0. /\ DOMAIN keys = 1..Len(keys) /\ Len(keys) \in Nat
        /\ TypeOK' /\ DOMAIN keys' = 1..Len(keys') /\ Len(keys') \in Nat
        /\ \A n \in DOMAIN keys : keys'[n].predecessor = keys[n].predecessor
    BY StepKeepsEntries DEF TypeOK, EntryKept
  <2>1. CASE DOMAIN keys' = DOMAIN keys
    <3>1. Continuity'
      BY <2>1, OldEntriesContinue DEF Continuity
    <3>2. NoFork'
      BY <2>0, <2>1 DEF NoFork
    <3>3. QED
      BY <2>0, <3>1, <3>2
  <2>2. CASE \E key \in Keys, at \in Time : AddRoot(key, at)
    <3>1. PICK key \in Keys, at \in Time : AddRoot(key, at)
      BY <2>2
    <3>2. Len(keys') = Len(keys) + 1 /\ keys'[Len(keys) + 1].predecessor = None
      BY <3>1, AddRootStep
    <3>3. \A n \in DOMAIN keys' : keys'[n].predecessor # None => n \in DOMAIN keys
      BY <2>0, <3>2
    <3>4. Continuity'
      BY <3>3, OldEntriesContinue DEF Continuity
    <3>5. NoFork'
      BY <2>0, <3>3 DEF NoFork
    <3>6. QED
      BY <2>0, <3>4, <3>5
  <2>3. CASE \E old, new \in Keys, at \in Time : Rotate(old, new, at)
    <3>1. PICK old \in Keys, new \in Keys, at \in Time : Rotate(old, new, at)
      BY <2>3
    <3>2. PICK i \in DOMAIN keys :
             /\ MayRotate(i, old)
             /\ Len(keys') = Len(keys) + 1
             /\ keys'[i] = [keys[i] EXCEPT
                   !.revocation = NewRevocation(old, "rotated", at, old)]
             /\ keys'[Len(keys) + 1] = Successor(old, new, at)
      BY <3>1, RotateStep
    <3>3. DOMAIN keys' = 1..(Len(keys) + 1)
      BY <2>0, <3>2
    <3>4. keys'[Len(keys) + 1].predecessor = old
      BY <3>2 DEF Successor
    <3>5. i \in DOMAIN keys' /\ Finds(i, old)' /\ i < Len(keys) + 1
      BY <2>0, <3>2, FindsStable DEF MayRotate
    <3>6. keys'[i].revocation # None
      <4>1. NewRevocation(old, "rotated", at, old) # None
        BY NewRevocationType DEF RevocationReason
      <4>2. keys[i] \in KeyEntry
        BY DEF TypeOK
      <4>3. QED
        BY <3>2, <4>1, <4>2 DEF KeyEntry
    <3>7. Continuity'
      <4> SUFFICES ASSUME NEW n \in DOMAIN keys', keys'[n].predecessor # None
                   PROVE  \E j \in DOMAIN keys' :
                             /\ j < n
                             /\ Finds(j, keys[n].predecessor)'
                             /\ keys'[j].revocation # None
        BY DEF Continuity
      <4>1. CASE n \in DOMAIN keys
        BY <4>1, OldEntriesContinue
      <4>2. CASE n = Len(keys) + 1
        BY <3>4, <3>5, <3>6, <4>2 DEF Finds
      <4>3. QED
        BY <2>0, <3>3, <4>1, <4>2
    <3>8. \A n \in DOMAIN keys : keys[n].predecessor # old
      <4> SUFFICES ASSUME NEW n \in DOMAIN keys, keys[n].predecessor = old
                   PROVE  FALSE
        OBVIOUS
      <4>1. old # None
        BY NoneAssumption
      <4>2. PICK j \in DOMAIN keys : Finds(j, old) /\ keys[j].revocation # None
        BY <4>1 DEF Continuity
      <4>3. Finds(i, old) /\ keys[i].revocation = None
        BY <3>2 DEF MayRotate
      <4>4. QED
        BY <4>2, <4>3, FindsUnique
    <3>9. NoFork'
      BY <2>0, <3>3, <3>4, <3>8 DEF NoFork
    <3>10. QED
      BY <2>0, <3>7, <3>9
  <2>4. CASE \E key, attester \in Keys, reason \in Reasons, effective_at \in Time :
                Revoke(key, reason, effective_at, attester)
    <3>1. PICK key \in Keys, attester \in Keys, reason \in Reasons, effective_at \in Time :
             Revoke(key, reason, effective_at, attester)
      BY <2>4
    <3>2. Len(keys') = Len(keys)
      BY <3>1, RevokeStep
    <3>3. QED
      BY <2>0, <2>1, <3>2
  <2>5. CASE UNCHANGED vars
    BY <2>1, <2>5 DEF vars
  <2>6. QED
    BY <2>2, <2>3, <2>4, <2>5 DEF Next
<1>3. IdentityInv => OneIdentity
  BY DEF IdentityInv
<1>4. QED
  BY <1>1, <1>2, <1>3, PTL DEF Spec

-----------------------------------------------------------------------------
(* Trust only ever leaves a moment by a compromise. *)

\* Rotation is not compromise: whatever callers do, a signing moment loses its
\* trust only to a compromise declaration whose window covers it.
THEOREM TrustCorrect == Spec => TrustWithdrawnOnlyByCompromise
<1>1. ASSUME TypeOK, [Next]_vars, NEW key \in Keys, NEW when \in Time
      PROVE  TrustWithdrawn(key, when)
  <2> SUFFICES ASSUME TrustedAt(key, when), ~TrustedAt(key, when)'
               PROVE  \E i \in DOMAIN keys' :
                         /\ Finds(i, key)'
                         /\ Compromised(keys[i])'
                         /\ when >= keys'[i].revocation.effective_at
    BY DEF TrustWithdrawn
  <2>1. PICK i \in DOMAIN keys : Finds(i, key) /\ EntryTrustedAt(keys[i], when)
    BY DEF TrustedAt
  <2>2. i \in DOMAIN keys' /\ Finds(i, key)'
    BY <2>1, <1>1, FindsStable
  <2>3. ~EntryTrustedAt(keys[i], when)'
    BY <2>2 DEF TrustedAt
  <2>4. keys'[i].created_at = keys[i].created_at
    BY <1>1, StepKeepsEntries DEF EntryKept
  <2>5. keys'[i] \in KeyEntry
    BY <1>1, <2>2, StepKeepsEntries DEF TypeOK
  <2>6. /\ keys'[i].revocation # None
        /\ keys'[i].revocation.reason \notin NonInvalidating
        /\ ~(when < keys'[i].revocation.effective_at)
    BY <2>1, <2>3, <2>4 DEF EntryTrustedAt
  <2>7. keys'[i].revocation \in Revocation
    BY <2>5, <2>6 DEF KeyEntry
  <2>8. keys'[i].revocation.reason = "compromised"
    BY <2>6, <2>7 DEF Revocation, RevocationReason, NonInvalidating
  <2>9. when \in Int /\ keys'[i].revocation.effective_at \in Int
    BY <2>7, TimeAssumption DEF Revocation
  <2>10. when >= keys'[i].revocation.effective_at
    BY <2>6, <2>9
  <2>11. QED
    BY <2>2, <2>6, <2>8, <2>10 DEF Compromised
<1>2. TypeOK /\ [Next]_vars => [\A key \in Keys, when \in Time : TrustWithdrawn(key, when)]_vars
  BY <1>1
<1>3. QED
  BY <1>2, TypeCorrect, PTL DEF Spec, TrustWithdrawnOnlyByCompromise

\* A moment that a compromise covers is trusted again only by a revocation of
\* that very key with a milder reason or a later time: nothing else that the
\* ring's operations do, putting the key back into the ring included, lifts it.
THEOREM SuspicionCorrect == Spec => SuspicionLiftedOnlyByRevoke
<1>1. ASSUME TypeOK, [Next]_vars, NEW key \in Keys, NEW when \in Time
      PROVE  SuspicionLifted(key, when)
  <2> SUFFICES ASSUME Suspect(key, when), TrustedAt(key, when)'
               PROVE  \E attester \in Keys, reason \in Reasons, effective_at \in Time :
                         /\ Revoke(key, reason, effective_at, attester)
                         /\ reason \in NonInvalidating \/ when < effective_at
    BY DEF SuspicionLifted
  <2>1. PICK i \in DOMAIN keys :
           /\ Finds(i, key)
           /\ Compromised(keys[i])
           /\ when >= keys[i].revocation.effective_at
    BY DEF Suspect
  <2>2. EntryTrustedAt(keys'[i], when)
    <3>1. i \in DOMAIN keys' /\ Finds(i, key)'
      BY <1>1, <2>1, FindsStable
    <3>2. DOMAIN keys' \subseteq Int
      BY <1>1, StepKeepsEntries DEF TypeOK
    <3>3. PICK j \in DOMAIN keys' : Finds(j, key)' /\ EntryTrustedAt(keys'[j], when)
      BY DEF TrustedAt, EntryTrustedAt
    <3>4. QED
      BY <3>1, <3>2, <3>3 DEF Finds
  <2>3. keys[i] \in KeyEntry /\ keys[i].revocation # None
    BY <1>1, <2>1 DEF TypeOK, Compromised
  <2>4. keys[i].revocation.effective_at \in Int /\ when \in Int
    BY <2>3, TimeAssumption DEF KeyEntry, Revocation
  <2>5. keys'[i] # keys[i]
    BY <2>1, <2>2, <2>3, <2>4 DEF EntryTrustedAt, Compromised, NonInvalidating
  <2>6. CASE \E k \in Keys, at \in Time : AddRoot(k, at)
    BY <1>1, <2>5, <2>6, AddRootStep
  <2>7. CASE \E old, new \in Keys, at \in Time : Rotate(old, new, at)
    <3>1. PICK old \in Keys, new \in Keys, at \in Time : Rotate(old, new, at)
      BY <2>7
    <3>2. PICK m \in DOMAIN keys :
             /\ MayRotate(m, old)
             /\ \A n \in DOMAIN keys : n # m => keys'[n] = keys[n]
      BY <1>1, <3>1, RotateStep
    <3>3. m # i
      BY <2>3, <3>2 DEF MayRotate
    <3>4. QED
      BY <2>5, <3>2, <3>3
  <2>8. CASE \E k, attester \in Keys, reason \in Reasons, effective_at \in Time :
                Revoke(k, reason, effective_at, attester)
    <3>1. PICK k \in Keys, attester \in Keys, reason \in Reasons, effective_at \in Time :
             Revoke(k, reason, effective_at, attester)
      BY <2>8
    <3>2. PICK m \in DOMAIN keys :
             /\ Finds(m, k)
             /\ \A n \in DOMAIN keys : n # m => keys'[n] = keys[n]
             /\ keys'[m] = [keys[m] EXCEPT
                   !.revocation = NewRevocation(k, reason, effective_at, attester)]
      BY <1>1, <3>1, RevokeStep
    <3>3. m = i /\ k = key
      BY <2>1, <2>5, <3>2 DEF Finds
    <3>4. keys'[i].revocation = NewRevocation(key, reason, effective_at, attester)
      BY <2>3, <3>2, <3>3 DEF KeyEntry
    <3>5. /\ keys'[i].revocation.reason = reason
          /\ keys'[i].revocation.effective_at = effective_at
          /\ keys'[i].revocation # None
      BY <3>4, NewRevocationType, ReasonsAssumption DEF NewRevocation
    <3>6. reason \in NonInvalidating \/ when < effective_at
      BY <2>2, <3>5 DEF EntryTrustedAt
    <3>7. QED
      BY <3>1, <3>3, <3>6
  <2>9. CASE UNCHANGED vars
    BY <2>5, <2>9 DEF vars
  <2>10. QED
    BY <1>1, <2>6, <2>7, <2>8, <2>9 DEF Next
<1>2. TypeOK /\ [Next]_vars
         => [\A key \in Keys, when \in Time : SuspicionLifted(key, when)]_vars
  BY <1>1
<1>3. QED
  BY <1>2, TypeCorrect, PTL DEF Spec, SuspicionLiftedOnlyByRevoke

-----------------------------------------------------------------------------
(* The current key. *)

OneActiveInv == TypeOK /\ OneActiveKey

\* In a ring with one root every key but the newest is revoked.
THEOREM OneActiveCorrect == Spec => []OneActiveKey
<1>1. Init => OneActiveInv
  BY DEF Init, OneActiveInv, TypeOK, OneActiveKey
<1>2. OneActiveInv /\ [Next]_vars => OneActiveInv'
  <2> SUFFICES ASSUME TypeOK, OneActiveKey, [Next]_vars  PROVE  OneActiveInv'
    BY DEF OneActiveInv
  <2>0. /\ DOMAIN keys = 1..Len(keys) /\ Len(keys) \in Nat
        /\ TypeOK' /\ DOMAIN keys' = 1..Len(keys') /\ Len(keys') \in Nat
        /\ Len(keys') >= Len(keys)
        /\ \A n \in DOMAIN keys :
              /\ keys'[n].predecessor = keys[n].predecessor
              /\ keys[n].revocation # None => keys'[n].revocation # None
    BY StepKeepsEntries DEF TypeOK, EntryKept
  <2>1. ASSUME NEW j \in DOMAIN keys, \A r \in 2..j : keys'[r].predecessor # None
        PROVE  \A i \in 1..(j - 1) : keys'[i].revocation # None
    <3>1. \A r \in 2..j : keys[r].predecessor # None
      BY <2>0, <2>1
    <3>2. \A i \in 1..(j - 1) : keys[i].revocation # None
      BY <3>1 DEF OneActiveKey
    <3>3. QED
      BY <2>0, <3>2
  <2>2. CASE Len(keys') = Len(keys)
    BY <2>0, <2>1, <2>2 DEF OneActiveInv, OneActiveKey
  <2>3. ASSUME Len(keys') = Len(keys) + 1,
               (\A r \in 2..Len(keys') : keys'[r].predecessor # None)
                  => \A i \in 1..Len(keys) : keys'[i].revocation # None
        PROVE  OneActiveInv'
    <3> SUFFICES ASSUME NEW j \in DOMAIN keys',
                        \A r \in 2..j : keys'[r].predecessor # None
                 PROVE  \A i \in 1..(j - 1) : keys'[i].revocation # None
      BY <2>0 DEF OneActiveInv, OneActiveKey
    <3>1. CASE j \in DOMAIN keys
      BY <2>1, <3>1
    <3>2. CASE j = Len(keys')
      BY <2>0, <2>3, <3>2
    <3>3. QED
      BY <2>0, <2>3, <3>1, <3>2
  <2>4. CASE \E key \in Keys, at \in Time : AddRoot(key, at)
    <3>1. /\ Len(keys') = Len(keys) + 1
          /\ keys'[Len(keys')].predecessor = None
      BY <2>4, AddRootStep
    <3>2. (\A r \in 2..Len(keys') : keys'[r].predecessor # None) => Len(keys) = 0
      BY <2>0, <3>1
    <3>3. QED
      BY <2>0, <2>3, <3>1, <3>2
  <2>5. CASE \E old, new \in Keys, at \in Time : Rotate(old, new, at)
    <3>1. PICK old \in Keys, new \in Keys, at \in Time : Rotate(old, new, at)
      BY <2>5
    <3>2. PICK i \in DOMAIN keys :
             /\ MayRotate(i, old)
             /\ Len(keys') = Len(keys) + 1
             /\ keys'[i] = [keys[i] EXCEPT
                   !.revocation = NewRevocation(old, "rotated", at, old)]
      BY <3>1, RotateStep
    <3>3. keys'[i].revocation # None
      <4>1. NewRevocation(old, "rotated", at, old) # None
        BY NewRevocationType DEF RevocationReason
      <4>2. keys[i] \in KeyEntry
        BY DEF TypeOK
      <4>3. QED
        BY <3>2, <4>1, <4>2 DEF KeyEntry
    <3>4. ASSUME \A r \in 2..Len(keys') : keys'[r].predecessor # None
          PROVE  \A m \in 1..Len(keys) : keys'[m].revocation # None
      <4>1. \A r \in 2..Len(keys) : keys[r].predecessor # None
        BY <2>0, <3>2, <3>4
      <4>2. Len(keys) \in DOMAIN keys
        BY <2>0
      <4>3. \A m \in 1..(Len(keys) - 1) : keys[m].revocation # None
        BY <4>1, <4>2 DEF OneActiveKey
      <4>4. i = Len(keys)
        BY <2>0, <3>2, <4>3 DEF MayRotate
      <4>5. QED
        BY <2>0, <3>3, <4>3, <4>4
    <3>5. QED
      BY <2>3, <3>2, <3>4
  <2>6. CASE \E key, attester \in Keys, reason \in Reasons, effective_at \in Time :
                Revoke(key, reason, effective_at, attester)
    BY <2>2, <2>6, RevokeStep
  <2>7. CASE UNCHANGED vars
    BY <2>2, <2>7 DEF vars
  <2>8. QED
    BY <2>4, <2>5, <2>6, <2>7 DEF Next
<1>3. OneActiveInv => OneActiveKey
  BY DEF OneActiveInv
<1>4. QED
  BY <1>1, <1>2, <1>3, PTL DEF Spec

-----------------------------------------------------------------------------
(* The chain verifies. *)

\* The cross-signatures and the attestation an entry carries are valid.
EntrySound(e) ==
    /\ e.predecessor # None =>
         LET payload == RotationPayload(e.predecessor, e.public_key, e.created_at)
         IN  /\ VerifySig(e.predecessor, e.predecessor_signature, payload)
             /\ VerifySig(e.public_key, e.successor_signature, payload)
    /\ e.revocation # None =>
         VerifySig(e.revocation.attested_by, e.revocation.signature,
                   RevocationPayload(e.public_key, e.revocation))

ChainInv == TypeOK /\ \A i \in DOMAIN keys : EntrySound(keys[i])

LEMMA SoundImpliesVerifies == ChainInv => ChainVerifies
<1> SUFFICES ASSUME ChainInv, NEW p \in ChainProblems
             PROVE  p[2] = "revoked from outside"
  BY DEF ChainVerifies
<1>1. PICK i \in DOMAIN keys : p \in {i} \X (ContinuityProblems(i) \cup RevocationProblems(i))
  BY DEF ChainProblems
<1>2. p[2] \in ContinuityProblems(i) \cup RevocationProblems(i)
  BY <1>1
<1>3. EntrySound(keys[i])
  BY DEF ChainInv
<1>4. ContinuityProblems(i) = {}
  BY <1>3 DEF EntrySound, ContinuityProblems
<1>5. RevocationProblems(i) \subseteq {"revoked from outside"}
  BY <1>3 DEF EntrySound, RevocationProblems
<1>6. QED
  BY <1>2, <1>4, <1>5

\* Revoking an entry soundly keeps it sound.
LEMMA RevokedSound ==
    ASSUME NEW e \in KeyEntry, EntrySound(e), NEW key, e.public_key = key,
           NEW reason, NEW at, NEW attester
    PROVE  EntrySound([e EXCEPT !.revocation = NewRevocation(key, reason, at, attester)])
<1> DEFINE rev == NewRevocation(key, reason, at, attester)
           f == [e EXCEPT !.revocation = rev]
<1>1. /\ f.public_key = key /\ f.predecessor = e.predecessor
      /\ f.created_at = e.created_at /\ f.revocation = rev
      /\ f.predecessor_signature = e.predecessor_signature
      /\ f.successor_signature = e.successor_signature
  BY DEF KeyEntry
<1>2. VerifySig(rev.attested_by, rev.signature, RevocationPayload(key, rev))
  BY DEF NewRevocation, VerifySig, RevocationPayload, Sign
<1> HIDE DEF rev, f
<1>3. EntrySound(f)
  BY <1>1, <1>2 DEF EntrySound
<1>4. QED
  BY <1>3 DEF f, rev

\* verify_chain finds nothing wrong in a ring the operations built, except that
\* revoke does not ask whether the attester is in the ring.
THEOREM ChainCorrect == Spec => []ChainVerifies
<1>1. Init => ChainInv
  BY DEF Init, ChainInv, TypeOK
<1>2. ChainInv /\ [Next]_vars => ChainInv'
  <2> SUFFICES ASSUME TypeOK, \A i \in DOMAIN keys : EntrySound(keys[i]), [Next]_vars
               PROVE  \A n \in DOMAIN keys' : EntrySound(keys'[n])
    BY StepKeepsEntries DEF ChainInv
  <2>0. /\ DOMAIN keys = 1..Len(keys) /\ Len(keys) \in Nat
        /\ TypeOK' /\ DOMAIN keys' = 1..Len(keys')
        /\ \A n \in DOMAIN keys : keys[n] \in KeyEntry
    BY StepKeepsEntries DEF TypeOK
  <2>1. CASE \E key \in Keys, at \in Time : AddRoot(key, at)
    <3>1. /\ Len(keys') = Len(keys) + 1
          /\ \A n \in DOMAIN keys : keys'[n] = keys[n]
          /\ keys'[Len(keys) + 1].revocation = None
          /\ keys'[Len(keys) + 1].predecessor = None
      BY <2>1, AddRootStep
    <3>2. EntrySound(keys'[Len(keys) + 1])
      BY <3>1 DEF EntrySound
    <3>3. QED
      BY <2>0, <3>1, <3>2
  <2>2. CASE \E old, new \in Keys, at \in Time : Rotate(old, new, at)
    <3>1. PICK old \in Keys, new \in Keys, at \in Time : Rotate(old, new, at)
      BY <2>2
    <3>2. PICK i \in DOMAIN keys :
             /\ MayRotate(i, old)
             /\ Len(keys') = Len(keys) + 1
             /\ \A n \in DOMAIN keys : n # i => keys'[n] = keys[n]
             /\ keys'[i] = [keys[i] EXCEPT
                   !.revocation = NewRevocation(old, "rotated", at, old)]
             /\ keys'[Len(keys) + 1] = Successor(old, new, at)
      BY <3>1, RotateStep
    <3>3. EntrySound(keys'[i])
      BY <2>0, <3>2, RevokedSound DEF MayRotate, Finds
    <3>4. EntrySound(Successor(old, new, at))
      BY DEF EntrySound, Successor, VerifySig
    <3>5. QED
      BY <2>0, <3>2, <3>3, <3>4
  <2>3. CASE \E key, attester \in Keys, reason \in Reasons, effective_at \in Time :
                Revoke(key, reason, effective_at, attester)
    <3>1. PICK key \in Keys, attester \in Keys, reason \in Reasons, effective_at \in Time :
             Revoke(key, reason, effective_at, attester)
      BY <2>3
    <3>2. PICK i \in DOMAIN keys :
             /\ Finds(i, key)
             /\ Len(keys') = Len(keys)
             /\ \A n \in DOMAIN keys : n # i => keys'[n] = keys[n]
             /\ keys'[i] = [keys[i] EXCEPT
                   !.revocation = NewRevocation(key, reason, effective_at, attester)]
      BY <3>1, RevokeStep
    <3>3. EntrySound(keys'[i])
      BY <2>0, <3>2, RevokedSound DEF Finds
    <3>4. QED
      BY <2>0, <3>2, <3>3
  <2>4. CASE UNCHANGED vars
    BY <2>4 DEF vars
  <2>5. QED
    BY <2>1, <2>2, <2>3, <2>4 DEF Next
<1>3. QED
  BY <1>1, <1>2, SoundImpliesVerifies, PTL DEF Spec
=============================================================================
