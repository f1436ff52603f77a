------------------------------ MODULE KeyRing ------------------------------
(***************************************************************************)
(* The key lifecycle of inverba/keys.py: one identity's ring of Ed25519    *)
(* keys, its rotations and revocations, and the question every verifier    *)
(* asks of it: was this key trusted at the moment it signed this record?   *)
(*                                                                         *)
(* Signatures are symbolic: a signature is the pair of the key that made   *)
(* it and the payload it covers, so it verifies for exactly that pair.     *)
(* declared_at, note and label are carried by the payloads but no branch   *)
(* reads them, and they are left out.                                      *)
(***************************************************************************)
EXTENDS Integers, Sequences

CONSTANTS
    Keys,        \* the public keys that may appear in the ring
    None,        \* Python's None: no predecessor, no revocation
    Time,        \* the instants callers name; a positive float is an integer
    Slack,       \* the clock jitter tolerated before created_at (1 second)
    Reasons,     \* the RevocationReasons callers use
    MaxEntries   \* bound: the ring holds at most this many entries

RevocationReason == {"rotated", "compromised", "retired", "lost"}

\* Reasons under which signatures made before the effective time remain trusted.
NonInvalidating == {"rotated", "retired", "lost"}

Payload == [type : {"rotation"}, predecessor : Keys, successor : Keys, created_at : Time]
             \cup [type : {"revocation"}, public_key : Keys,
                   reason : RevocationReason, effective_at : Time]

Signature == [by : Keys, over : Payload]

Revocation == [reason : RevocationReason, effective_at : Time,
               attested_by : Keys, signature : Signature]

KeyEntry == [public_key : Keys, created_at : Time, revocation : Revocation \cup {None},
             predecessor : Keys \cup {None},
             predecessor_signature : Signature \cup {None},
             successor_signature : Signature \cup {None}]

ASSUME NoneAssumption == None \notin Keys \cup Revocation \cup Signature
ASSUME TimeAssumption == Time \subseteq Int /\ Slack \in Nat
ASSUME ReasonsAssumption == Reasons \subseteq RevocationReason

VARIABLE keys    \* self.keys: the entries, in the order they were added

vars == keys

-----------------------------------------------------------------------------
(* Signatures and payloads. *)

Sign(signer, payload) == [by |-> signer, over |-> payload]

VerifySig(key, signature, payload) == signature = Sign(key, payload)

RotationPayload(old, new, at) ==
    [type |-> "rotation", predecessor |-> old, successor |-> new, created_at |-> at]

RevocationPayload(key, rev) ==
    [type |-> "revocation", public_key |-> key,
     reason |-> rev.reason, effective_at |-> rev.effective_at]

-----------------------------------------------------------------------------
(* Queries. *)

\* Deliberately wrong: the latest entry of a key instead of the first.
BugFindLast(i, key) ==
    /\ keys[i].public_key = key
    /\ \A j \in DOMAIN keys : j > i => keys[j].public_key # key

\* KeyRing.find: the first entry that holds the key.
Finds(i, key) ==
    /\ keys[i].public_key = key
    /\ \A j \in DOMAIN keys : j < i => keys[j].public_key # key

Known(key) == \E i \in DOMAIN keys : keys[i].public_key = key

Status(entry) ==
    IF entry.revocation = None THEN "active"
    ELSE IF entry.revocation.reason \in NonInvalidating THEN "rotated" ELSE "revoked"

\* Deliberately wrong: rotation treated like compromise.
BugEntryTrustedAt(entry, when) ==
    /\ when >= entry.created_at - Slack
    /\ entry.revocation # None => when < entry.revocation.effective_at

\* KeyEntry.trusted_at: was a signature made at "when" by this key trustworthy?
EntryTrustedAt(entry, when) ==
    /\ when >= entry.created_at - Slack
    /\ \/ entry.revocation = None
       \/ entry.revocation.reason \in NonInvalidating
       \/ when < entry.revocation.effective_at

TrustedAt(key, when) ==
    \E i \in DOMAIN keys : Finds(i, key) /\ EntryTrustedAt(keys[i], when)

-----------------------------------------------------------------------------
(* verify_chain: the problems it reports, as <<entry position, problem>>.  *)

ContinuityProblems(i) ==
    LET e == keys[i]
        payload == RotationPayload(e.predecessor, e.public_key, e.created_at)
    IN  IF e.predecessor = None THEN {}
        ELSE {p \in {"predecessor did not authorize", "successor did not accept"} :
                 \/ /\ p = "predecessor did not authorize"
                    /\ ~VerifySig(e.predecessor, e.predecessor_signature, payload)
                 \/ /\ p = "successor did not accept"
                    /\ ~VerifySig(e.public_key, e.successor_signature, payload)}

RevocationProblems(i) ==
    LET e == keys[i]
        rev == e.revocation
    IN  IF rev = None THEN {}
        ELSE IF ~VerifySig(rev.attested_by, rev.signature,
                           RevocationPayload(e.public_key, rev))
             THEN {"attestation invalid"}
        ELSE IF rev.attested_by # e.public_key /\ ~Known(rev.attested_by)
             THEN {"revoked from outside"}
        ELSE {}

ChainProblems ==
    UNION {{i} \X (ContinuityProblems(i) \cup RevocationProblems(i)) : i \in DOMAIN keys}

-----------------------------------------------------------------------------
(* Operations. *)

Init == keys = << >>

\* The Revocation that rotate and revoke build and sign.
NewRevocation(key, reason, effective_at, attester) ==
    [reason |-> reason, effective_at |-> effective_at, attested_by |-> attester,
     signature |-> Sign(attester, RevocationPayload(key,
                       [reason |-> reason, effective_at |-> effective_at]))]

\* add_root(signer, created_at = at): a key that is in the ring may be put back.
AddRoot(key, at) ==
    /\ Len(keys) < MaxEntries
    /\ keys' = Append(keys,
                 [public_key |-> key, created_at |-> at, revocation |-> None,
                  predecessor |-> None, predecessor_signature |-> None,
                  successor_signature |-> None])

\* Deliberately wrong: the successor's acceptance is signed by the old key.
BugSuccessor(old, new, at) ==
    LET payload == RotationPayload(old, new, at)
    IN  [public_key |-> new, created_at |-> at, revocation |-> None,
         predecessor |-> old,
         predecessor_signature |-> Sign(old, payload),
         successor_signature |-> Sign(old, payload)]

\* The entry rotate appends: cross-signed by both keys.
Successor(old, new, at) ==
    LET payload == RotationPayload(old, new, at)
    IN  [public_key |-> new, created_at |-> at, revocation |-> None,
         predecessor |-> old,
         predecessor_signature |-> Sign(old, payload),
         successor_signature |-> Sign(new, payload)]

\* Deliberately wrong: rotate does not refuse an already-revoked key.
BugMayRotate(i, old) == Finds(i, old)

\* rotate refuses a key that is not in the ring or already revoked.
MayRotate(i, old) == Finds(i, old) /\ keys[i].revocation = None

\* Deliberately wrong: the old key stays active.
BugRetireOld(i, at) == keys

\* The old entry is revoked as ROTATED, attested by itself.
RetireOld(i, at) ==
    [keys EXCEPT ![i].revocation =
        NewRevocation(keys[i].public_key, "rotated", at, keys[i].public_key)]

\* rotate(old_signer, new_signer, at): append the successor, revoke the old key.
Rotate(old, new, at) ==
    /\ Len(keys) < MaxEntries
    /\ \E i \in DOMAIN keys :
         /\ MayRotate(i, old)
         /\ keys' = Append(RetireOld(i, at), Successor(old, new, at))

Compromised(entry) == entry.revocation # None /\ entry.revocation.reason = "compromised"

\* revoke(public_key, reason, effective_at, attesting_signer): the revocation of
\* the entry is replaced, whatever it was: a compromise by a milder reason too.
Revoke(key, reason, effective_at, attester) ==
    \E i \in DOMAIN keys :
        /\ Finds(i, key)
        /\ keys' = [keys EXCEPT ![i].revocation =
                       NewRevocation(key, reason, effective_at, attester)]

Next ==
    \/ \E key \in Keys, at \in Time : AddRoot(key, at)
    \/ \E old, new \in Keys, at \in Time : Rotate(old, new, at)
    \/ \E key, attester \in Keys, reason \in Reasons, effective_at \in Time :
          Revoke(key, reason, effective_at, attester)

Spec == Init /\ [][Next]_vars

-----------------------------------------------------------------------------
(* Properties. *)

\* Every entry of the ring has the fields of a KeyEntry.
TypeOK == keys \in Seq(KeyEntry)

\* Continuity: following predecessors from any key walks strictly back in the
\* ring, through revoked keys only, so it ends at a root (the module docstring's
\* "follow the chain from a known-good key to the current one"; keys.py rotate).
Continuity ==
    \A i \in DOMAIN keys : keys[i].predecessor # None =>
        \E j \in DOMAIN keys :
            /\ j < i
            /\ Finds(j, keys[i].predecessor)
            /\ keys[j].revocation # None

\* A key is succeeded at most once: no sequence of rotations and revocations
\* forks the identity, even when a key is put back into the ring.
NoFork ==
    \A i, j \in DOMAIN keys :
        keys[i].predecessor = keys[j].predecessor /\ keys[i].predecessor # None => i = j

\* The ring is one identity, whatever sequence of operations built it.
OneIdentity == Continuity /\ NoFork

\* verify_chain accepts every ring the operations build, except for revocations
\* attested by a key that is not in the ring.
ChainVerifies == \A p \in ChainProblems : p[2] = "revoked from outside"

\* In a ring with one root every key but the newest is revoked: rotation hands
\* activity over, and two keys never both claim to be the identity's current one.
OneActiveKey ==
    \A j \in DOMAIN keys : (\A r \in 2..j : keys[r].predecessor # None) =>
        \A i \in 1..(j - 1) : keys[i].revocation # None

\* Rotation is not compromise: a step takes trust in a moment away from a key
\* only by a compromise revocation whose window covers that moment.
TrustWithdrawn(key, when) ==
    TrustedAt(key, when) /\ ~TrustedAt(key, when)' =>
        \E i \in DOMAIN keys' :
            /\ Finds(i, key)'
            /\ Compromised(keys[i])'
            /\ when >= keys'[i].revocation.effective_at

TrustWithdrawnOnlyByCompromise ==
    [][\A key \in Keys, when \in Time : TrustWithdrawn(key, when)]_vars

\* The key is known to the ring, and its compromise covers the moment.
Suspect(key, when) ==
    \E i \in DOMAIN keys :
        /\ Finds(i, key)
        /\ Compromised(keys[i])
        /\ when >= keys[i].revocation.effective_at

\* A moment inside a compromise window is trusted again only when somebody
\* declares so about that very key, by a revocation with a milder reason or a
\* later time: no rotation, no new root, no key put back into the ring and no
\* revocation of another key launders it (revoke, find and trusted_at).
SuspicionLifted(key, when) ==
    Suspect(key, when) /\ TrustedAt(key, when)' =>
        \E attester \in Keys, reason \in Reasons, effective_at \in Time :
            /\ Revoke(key, reason, effective_at, attester)
            /\ reason \in NonInvalidating \/ when < effective_at

SuspicionLiftedOnlyByRevoke ==
    [][\A key \in Keys, when \in Time : SuspicionLifted(key, when)]_vars

\* A moment inside a compromise window is never trusted again (module docstring:
\* "Every record signed by that key AFTER `compromised_at` is suspect").
\* KeyRingDowngrade shows that revoke does not keep to it.
CompromiseSticks ==
    [][\A key \in Keys, when \in Time : Suspect(key, when) => ~TrustedAt(key, when)']_vars
=============================================================================
