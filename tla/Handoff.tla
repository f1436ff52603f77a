------------------------------ MODULE Handoff ------------------------------
(***************************************************************************)
(* inverba/agent_trust.py and inverba/seen.py: agents verify the records   *)
(* handed to them, against a key ring that lives on meanwhile, and share   *)
(* one memory of what they accepted.                                       *)
(*                                                                         *)
(* Checks 1 to 4 of verify_handoff read only the arguments and the ring,   *)
(* and are one step; the lookup in the SeenStore and the recording are two *)
(* further calls, between which the clock, the ring and the other agents   *)
(* move. A store call is atomic, as in a shared backend (seen.py, lines    *)
(* 16 and 41); the in-memory store offers that to one agent only.          *)
(*                                                                         *)
(* A record is its fields and the outcome of verify_record on it. stamp    *)
(* and the wording of reasons only annotate a verdict and are left out.    *)
(***************************************************************************)
EXTENDS Integers, Sequences

CONSTANTS
    Agents,        \* the callers of verify_handoff that share the store
    Signatures,    \* record signatures, the keys of the SeenStore
    Contents,      \* content hashes
    Requests,      \* the argument lists of verify_handoff that are used
    TTL,           \* ttl_seconds of the store, or None
    MaxClock,      \* bound: the last reading of the wall clock
    MaxPause,      \* bound: how far the clock moves during one call
    Keys, None, Time, Slack, Reasons, MaxEntries  \* the key ring's

\* Of a corroboration only the content hash enters a verdict: neither its key nor
\* whether its signature is valid.
ProvenanceRecord == [signature : Signatures, worker_public_key : Keys,
                     content_hash : Contents, fetched_at : Time,
                     fetched_by : {"native", "relay"}, verifies : BOOLEAN,
                     corroborations : Seq(Contents)]

Request == [record : ProvenanceRecord \cup {None}, claimed_content : Contents \cup {None},
            max_age_seconds : Nat \cup {None}, require_corroboration : BOOLEAN,
            require_independent_observation : BOOLEAN, keyring : BOOLEAN]

Untrusted == {"no_record", "unverified", "content_mismatch", "stale", "replayed"}
TrustVerdict == Untrusted \cup {"trusted", "trusted_corroborated"}

ASSUME RequestsAssumption == Requests \subseteq Request
ASSUME ClockAssumption == TTL \in Nat \cup {None} /\ MaxPause \in Nat /\ None \notin Int
ASSUME VerdictAssumption == None \notin TrustVerdict
ASSUME TimeAssumption == Time \subseteq Int
ASSUME RecordsAssumption == None \notin ProvenanceRecord

VARIABLES
    keys,     \* the entries of the key ring the agents consult
    clock,    \* the wall clock, of the agents and of the store
    store,    \* _seen: signature -> time of first sighting, None when absent
    call,     \* each agent's call of verify_handoff, or what its last one returned
    log,      \* history: the acceptances, [record, at], oldest first
    vouched   \* history: the records accepted with a key ring

vars == <<keys, clock, store, call, log, vouched>>

Ring == INSTANCE KeyRing

ASSUME RingAssumption ==
    /\ None \notin Keys \cup Ring!Revocation \cup Ring!Signature
    /\ Slack \in Nat
    /\ Reasons \subseteq Ring!RevocationReason

NoCall == [pc |-> "idle", record |-> None, keyring |-> FALSE, now |-> None, verdict |-> None]

-----------------------------------------------------------------------------
(* Checks 1 to 4, the early returns of verify_handoff in their order. *)

\* verify_with_corroborations: corroborations_agree, and there is one.
Corroborated(record) ==
    /\ record.corroborations # << >>
    /\ \A i \in DOMAIN record.corroborations :
          record.corroborations[i] = record.content_hash

\* verify_record_with_keyring, for a record whose signature is valid.
KeyTrusted(record) == Ring!TrustedAt(record.worker_public_key, record.fetched_at)

\* Deliberately wrong: a record one instant past the bound still passes.
BugStale(q, now) ==
    q.max_age_seconds # None /\ now - q.record.fetched_at > q.max_age_seconds + 1

\* The record is older than the caller's freshness bound.
Stale(q, now) ==
    q.max_age_seconds # None /\ now - q.record.fetched_at > q.max_age_seconds

\* Deliberately wrong: the lifecycle of the key is not consulted.
BugIntrinsicVerdict(q, now) ==
    IF q.record = None THEN "no_record"
    ELSE IF ~q.record.verifies THEN "unverified"
    ELSE IF Stale(q, now) THEN "stale" ELSE "trusted"

\* The verdict before replay is considered.
IntrinsicVerdict(q, now) ==
    IF q.record = None THEN "no_record"
    ELSE IF ~q.record.verifies THEN "unverified"
    ELSE IF q.claimed_content \notin {None, q.record.content_hash} THEN "content_mismatch"
    ELSE IF \/ q.keyring /\ ~KeyTrusted(q.record)
            \/ q.require_independent_observation /\ q.record.fetched_by # "native"
            \/ q.require_corroboration /\ ~Corroborated(q.record)
         THEN "unverified"
    ELSE IF Stale(q, now) THEN "stale"
    ELSE IF Corroborated(q.record) THEN "trusted_corroborated"
    ELSE "trusted"

-----------------------------------------------------------------------------
(* The SeenStore. *)

\* Deliberately wrong: a sighting exactly TTL ago is already forgotten.
BugExpired(s) == TTL # None /\ clock - store[s] >= TTL

\* The first sighting of a key in the store is longer than TTL ago.
Expired(s) == TTL # None /\ clock - store[s] > TTL

\* seen() is TRUE.
Seen(s) == store[s] # None /\ ~Expired(s)

\* What seen() leaves behind: an expired key is forgotten.
AfterSeen(s) ==
    IF store[s] # None /\ Expired(s) THEN [store EXCEPT ![s] = None] ELSE store

\* record(): setdefault keeps the first sighting.
AfterRecord(s) == IF store[s] = None THEN [store EXCEPT ![s] = clock] ELSE store

-----------------------------------------------------------------------------
(* Actions. *)

Init ==
    /\ Ring!Init
    /\ clock = 1     \* any instant would do
    /\ store = [s \in Signatures |-> None]
    /\ call = [a \in Agents |-> NoCall]
    /\ log = << >>
    /\ vouched = {}

\* Deliberately wrong: a genuine record is remembered before the other checks.
BugCheck(a, q) ==
    LET verdict == IntrinsicVerdict(q, clock)
    IN  /\ call[a].pc = "idle"
        /\ call' = [call EXCEPT ![a] =
                      [pc |-> IF verdict \in Untrusted THEN "idle" ELSE "checked",
                       record |-> q.record, keyring |-> q.keyring,
                       now |-> clock, verdict |-> verdict]]
        /\ store' = IF verdict = "content_mismatch"
                    THEN AfterRecord(q.record.signature) ELSE store
        /\ UNCHANGED <<keys, clock, log, vouched>>

\* The call begins and either returns early or goes on to the replay check.
Check(a, q) ==
    LET verdict == IntrinsicVerdict(q, clock)
    IN  /\ call[a].pc = "idle"
        /\ call' = [call EXCEPT ![a] =
                      [pc |-> IF verdict \in Untrusted THEN "idle" ELSE "checked",
                       record |-> q.record, keyring |-> q.keyring,
                       now |-> clock, verdict |-> verdict]]
        /\ UNCHANGED <<keys, clock, store, log, vouched>>

\* seen.seen(record.signature)
LookUp(a) ==
    LET s == call[a].record.signature
    IN  /\ call[a].pc = "checked"
        /\ store' = AfterSeen(s)
        /\ call' = IF Seen(s)
                   THEN [call EXCEPT ![a].pc = "idle", ![a].verdict = "replayed"]
                   ELSE [call EXCEPT ![a].pc = "unseen"]
        /\ UNCHANGED <<keys, clock, log, vouched>>

\* seen.record(record.signature), and the call returns the verdict
Record(a) ==
    LET r == call[a].record
    IN  /\ call[a].pc = "unseen"
        /\ store' = AfterRecord(r.signature)
        /\ call' = [call EXCEPT ![a].pc = "idle"]
        /\ log' = Append(log, [record |-> r, at |-> clock])
        /\ vouched' = IF call[a].keyring THEN vouched \cup {r} ELSE vouched
        /\ UNCHANGED <<keys, clock>>

Tick ==
    /\ clock < MaxClock
    /\ \A a \in Agents : call[a].pc # "idle" => clock - call[a].now < MaxPause
    /\ clock' = clock + 1
    /\ UNCHANGED <<keys, store, call, log, vouched>>

\* The identity's holder adds, rotates or revokes keys.
RingStep == Ring!Next /\ UNCHANGED <<clock, store, call, log, vouched>>

Next ==
    \/ \E a \in Agents, q \in Requests : Check(a, q)
    \/ \E a \in Agents : LookUp(a) \/ Record(a)
    \/ Tick
    \/ RingStep

Spec == Init /\ [][Next]_vars

-----------------------------------------------------------------------------
(* Properties. *)

Call == [pc : {"idle", "checked", "unseen"}, record : ProvenanceRecord \cup {None},
         keyring : BOOLEAN, now : Int \cup {None}, verdict : TrustVerdict \cup {None}]

\* Every variable has its type; a call past the checks holds a record.
TypeOK ==
    /\ clock \in Int
    /\ store \in [Signatures -> Int \cup {None}]
    /\ call \in [Agents -> Call]
    /\ \A a \in Agents : call[a].pc # "idle" => call[a].record # None /\ call[a].now \in Int
    /\ log \in Seq([record : ProvenanceRecord, at : Int])
    /\ vouched \subseteq ProvenanceRecord

\* The store remembers accepted records only, from a moment they were accepted,
\* so no rejected presentation makes a later genuine one a replay (verify_handoff:
\* "rejected records never poison the store").
RememberedIsAccepted ==
    /\ \A s \in Signatures : store[s] # None =>
          \E i \in DOMAIN log : log[i].record.signature = s /\ log[i].at = store[s]
    /\ \A a \in Agents : call[a].verdict = "replayed" =>
          \E i \in DOMAIN log : log[i].record.signature = call[a].record.signature

\* A record that was not dated in the future when it was accepted is accepted
\* once, ever, although the store forgets, when the callers' freshness bound plus
\* the length of a call fits in the store's TTL: whatever the store has
\* forgotten has gone stale (verify_handoff checks 4 and 5).
AgesBounded ==
    \A q \in Requests :
        TTL # None /\ q.max_age_seconds # None /\ q.max_age_seconds + MaxPause <= TTL

AcceptedOnce ==
    \A i, j \in DOMAIN log :
        /\ i < j
        /\ log[i].record.signature = log[j].record.signature
        => log[j].record.fetched_at > log[i].at

\* With a key ring, an acceptance is withdrawn by a compromise only: when the
\* ring stops trusting the key of an accepted record at its signing time, the
\* ring says why, with a compromise whose window covers it.
AcceptedStaysExplained ==
    \A r \in vouched : ~KeyTrusted(r) =>
        \E i \in DOMAIN keys :
            /\ Ring!Finds(i, r.worker_public_key)
            /\ Ring!Compromised(keys[i])
            /\ r.fetched_at >= keys[i].revocation.effective_at

\* A record this verifier has already accepted is rejected as REPLAYED while it
\* is remembered (verify_handoff, parameter seen): the detailed protocol
\* implements ReplayGuard.
Guard == INSTANCE ReplayGuard WITH
            log <- [i \in DOMAIN log |->
                       [signature |-> log[i].record.signature, at |-> log[i].at]]

ImplementsReplayGuard == Guard!Spec

=============================================================================
