--------------------------- MODULE HandoffProofs ---------------------------
(***************************************************************************)
(* Proofs about handoff verification: what one agent and its store promise *)
(* for every set of requests, every TTL and logs of any length.            *)
(***************************************************************************)
EXTENDS Handoff, SequenceTheorems, TLAPS

LEMMA AppendOne ==
    ASSUME NEW S, NEW seq \in Seq(S), NEW e \in S
    PROVE  /\ Append(seq, e) \in Seq(S)
           /\ Len(Append(seq, e)) = Len(seq) + 1
           /\ \A n \in 1..Len(seq) : Append(seq, e)[n] = seq[n]
           /\ Append(seq, e)[Len(seq) + 1] = e
OBVIOUS

LogEntry == [record : ProvenanceRecord, at : Int]

\* What a call that passes the checks has established about its request.
LEMMA CheckedRequest ==
    ASSUME NEW q \in Requests, NEW now, IntrinsicVerdict(q, now) \notin Untrusted
    PROVE  q.record \in ProvenanceRecord /\ ~Stale(q, now)
<1>1. q \in Request
  BY RequestsAssumption
<1>2. q.record # None /\ ~Stale(q, now)
  BY DEF IntrinsicVerdict, Untrusted
<1>3. QED
  BY <1>1, <1>2 DEF Request

LEMMA VerdictType ==
    ASSUME NEW q \in Requests, NEW now
    PROVE  IntrinsicVerdict(q, now) \in TrustVerdict
BY DEF IntrinsicVerdict, TrustVerdict, Untrusted

LEMMA TypeStep ==
    ASSUME TypeOK, [Next]_vars
    PROVE  TypeOK'
<1> USE DEF TypeOK
<1>1. CASE \E a \in Agents, q \in Requests : Check(a, q)
  <2>1. PICK a \in Agents, q \in Requests : Check(a, q)
    BY <1>1
  <2>2. q \in Request
    BY RequestsAssumption
  <2> DEFINE verdict == IntrinsicVerdict(q, clock)
             new == [pc |-> IF verdict \in Untrusted THEN "idle" ELSE "checked",
                     record |-> q.record, keyring |-> q.keyring,
                     now |-> clock, verdict |-> verdict]
  <2>3. call' = [call EXCEPT ![a] = new] /\ UNCHANGED <<keys, clock, store, log, vouched>>
    BY <2>1 DEF Check
  <2>4. verdict \in TrustVerdict
    BY VerdictType
  <2>5. verdict \notin Untrusted => q.record # None
    BY CheckedRequest, RecordsAssumption
  <2>6. new \in Call /\ (new.pc # "idle" => new.record # None /\ new.now \in Int)
    BY <2>2, <2>4, <2>5 DEF Call, Request
  <2> HIDE DEF new, verdict
  <2>7. QED
    BY <2>3, <2>6
<1>2. CASE \E a \in Agents : LookUp(a)
  <2>1. PICK a \in Agents : LookUp(a)
    BY <1>2
  <2>2. AfterSeen(call[a].record.signature) \in [Signatures -> Int \cup {None}]
    BY DEF AfterSeen
  <2>3. PICK new :
           /\ call' = [call EXCEPT ![a] = new]
           /\ \/ new = [call[a] EXCEPT !.pc = "idle", !.verdict = "replayed"]
              \/ new = [call[a] EXCEPT !.pc = "unseen"]
    BY <2>1 DEF LookUp
  <2>4. call[a] \in Call /\ call[a].pc = "checked"
    BY <2>1 DEF LookUp
  <2>5. new \in Call /\ new.record = call[a].record /\ new.now = call[a].now
    BY <2>3, <2>4 DEF Call, TrustVerdict, Untrusted
  <2>6. call[a].record # None /\ call[a].now \in Int
    BY <2>4
  <2>7. QED
    BY <2>1, <2>2, <2>3, <2>5, <2>6 DEF LookUp
<1>3. CASE \E a \in Agents : Record(a)
  <2>1. PICK a \in Agents : Record(a)
    BY <1>3
  <2> DEFINE r == call[a].record
  <2>2. r \in ProvenanceRecord
    BY <2>1 DEF Record, Call
  <2>3. AfterRecord(r.signature) \in [Signatures -> Int \cup {None}]
    BY DEF AfterRecord
  <2>4. call' \in [Agents -> Call]
    BY <2>1 DEF Record, Call
  <2>5. \A b \in Agents : call'[b].pc # "idle" =>
           call'[b].record # None /\ call'[b].now \in Int
    BY <2>1 DEF Record, Call
  <2>6. [record |-> r, at |-> clock] \in LogEntry
    BY <2>2 DEF LogEntry
  <2>7. log' \in Seq(LogEntry)
    BY <2>1, <2>6, AppendOne DEF Record, LogEntry
  <2>8. vouched' \subseteq ProvenanceRecord
    BY <2>1, <2>2 DEF Record
  <2>9. QED
    BY <2>1, <2>3, <2>4, <2>5, <2>7, <2>8 DEF Record, LogEntry
<1>4. CASE Tick
  BY <1>4 DEF Tick
<1>5. CASE RingStep
  BY <1>5 DEF RingStep
<1>6. CASE UNCHANGED vars
  BY <1>6 DEF vars
<1>7. QED
  BY <1>1, <1>2, <1>3, <1>4, <1>5, <1>6 DEF Next

\* Type correctness, for any number of agents.
THEOREM TypeCorrect == Spec => []TypeOK
<1>1. Init => TypeOK
  BY DEF Init, TypeOK, NoCall, Call, TrustVerdict, Untrusted
<1>2. TypeOK /\ [Next]_vars => TypeOK'
  BY TypeStep
<1>3. QED
  BY <1>1, <1>2, PTL DEF Spec

-----------------------------------------------------------------------------
(* One agent and its store implement ReplayGuard.                          *)

\* The store still holds every acceptance that is not forgotten, and a call that
\* is about to record its signature found it absent.
RememberedInv ==
    /\ \A i \in DOMAIN log :
          /\ log[i].at <= clock
          /\ \/ Guard!Forgotten(log[i].at, clock)
             \/ store[log[i].record.signature] = log[i].at
    /\ \A a \in Agents : call[a].pc = "unseen" => store[call[a].record.signature] = None

GuardInv == TypeOK /\ RememberedInv

LEMMA LogTyped ==
    ASSUME TypeOK
    PROVE  log \in Seq(LogEntry) /\ \A i \in DOMAIN log : log[i] \in LogEntry
<1>1. log \in Seq(LogEntry)
  BY DEF TypeOK, LogEntry
<1>2. QED
  BY <1>1

\* What Record appends to the log.
LEMMA RecordStep ==
    ASSUME TypeOK, NEW a \in Agents, Record(a)
    PROVE  /\ call[a].pc = "unseen" /\ call[a].record \in ProvenanceRecord
           /\ clock' = clock
           /\ log' = Append(log, [record |-> call[a].record, at |-> clock])
           /\ Len(log') = Len(log) + 1 /\ Len(log) \in Nat
           /\ DOMAIN log = 1..Len(log) /\ DOMAIN log' = 1..(Len(log) + 1)
           /\ \A i \in DOMAIN log : log'[i] = log[i]
           /\ log'[Len(log) + 1] = [record |-> call[a].record, at |-> clock]
<1> DEFINE e == [record |-> call[a].record, at |-> clock]
<1>1. call[a].pc = "unseen" /\ call[a].record \in ProvenanceRecord
  BY DEF Record, TypeOK, Call
<1>2. e \in LogEntry /\ log \in Seq(LogEntry) /\ log' = Append(log, e) /\ clock' = clock
  BY <1>1 DEF Record, TypeOK, LogEntry
<1> HIDE DEF e
<1>3. /\ log' \in Seq(LogEntry)
      /\ Len(log') = Len(log) + 1 /\ Len(log) \in Nat
      /\ \A i \in 1..Len(log) : log'[i] = log[i]
      /\ log'[Len(log) + 1] = e
  BY <1>2, AppendOne
<1>4. QED
  BY <1>1, <1>2, <1>3 DEF e

\* While nothing but the clock moves, what is forgotten stays forgotten.
LEMMA ForgottenSticks ==
    ASSUME NEW first \in Int, NEW when \in Int, Guard!Forgotten(first, when)
    PROVE  Guard!Forgotten(first, when + 1)
BY ClockAssumption DEF Guard!Forgotten

LEMMA GuardStep ==
    ASSUME NEW me, Agents = {me}, GuardInv, [Next]_vars
    PROVE  GuardInv'
<1> USE DEF GuardInv
<1>0. /\ TypeOK'
      /\ clock \in Int /\ store \in [Signatures -> Int \cup {None}] /\ me \in Agents
      /\ call[me] \in Call
      /\ \A i \in DOMAIN log : log[i] \in LogEntry
  BY TypeStep, LogTyped DEF TypeOK
<1>1. ASSUME NEW q \in Requests, Check(me, q)
      PROVE  RememberedInv'
  <2>1. call'[me].pc # "unseen" /\ UNCHANGED <<clock, store, log>>
    BY <1>1 DEF Check, TypeOK
  <2>2. QED
    BY <2>1 DEF RememberedInv
<1>2. CASE LookUp(me)
  <2> DEFINE s == call[me].record.signature
  <2>1. /\ call[me].pc = "checked" /\ store' = AfterSeen(s) /\ UNCHANGED <<clock, log>>
        /\ call'[me].record = call[me].record
        /\ call'[me].pc = "unseen" => ~Seen(s)
    BY <1>0, <1>2 DEF LookUp, Call, TypeOK
  <2>2. s \in Signatures
    BY <1>0, <2>1 DEF TypeOK, Call, ProvenanceRecord
  <2>3. ~Seen(s) => store'[s] = None
    BY <1>0, <2>1, <2>2 DEF Seen, AfterSeen
  <2>4. ASSUME NEW i \in DOMAIN log
        PROVE  \/ Guard!Forgotten(log[i].at, clock)
               \/ store'[log[i].record.signature] = log[i].at
    <3>1. CASE log[i].record.signature = s /\ store[s] # None /\ Expired(s)
      BY <3>1 DEF RememberedInv, Expired, Guard!Forgotten
    <3>2. CASE log[i].record.signature # s
      BY <1>0, <2>1, <3>2 DEF RememberedInv, AfterSeen
    <3>3. CASE ~(store[s] # None /\ Expired(s))
      BY <2>1, <3>3 DEF RememberedInv, AfterSeen
    <3>4. QED
      BY <3>1, <3>2, <3>3
  <2>5. QED
    BY <1>0, <2>1, <2>3, <2>4 DEF RememberedInv
<1>3. CASE Record(me)
  <2> DEFINE r == call[me].record
             s == r.signature
  <2>1. /\ call[me].pc = "unseen" /\ r \in ProvenanceRecord
        /\ clock' = clock /\ DOMAIN log = 1..Len(log)
        /\ DOMAIN log' = 1..(Len(log) + 1) /\ Len(log) \in Nat
        /\ \A i \in DOMAIN log : log'[i] = log[i]
        /\ log'[Len(log) + 1] = [record |-> r, at |-> clock]
    BY <1>0, <1>3, RecordStep
  <2>2. store[s] = None /\ s \in Signatures
    BY <2>1, <1>0 DEF RememberedInv, ProvenanceRecord
  <2>3. store' = [store EXCEPT ![s] = clock] /\ call'[me].pc = "idle"
    BY <1>0, <1>3, <2>2 DEF Record, AfterRecord, TypeOK, Call
  <2>4. ASSUME NEW i \in DOMAIN log'
        PROVE  /\ log'[i].at <= clock
               /\ \/ Guard!Forgotten(log'[i].at, clock)
                  \/ store'[log'[i].record.signature] = log'[i].at
    <3>1. CASE i = Len(log) + 1
      BY <1>0, <2>1, <2>2, <2>3, <3>1
    <3>2. CASE i \in DOMAIN log
      <4>1. log'[i] = log[i] /\ log[i].at \in Int
        BY <1>0, <2>1, <3>2 DEF LogEntry
      <4>2. CASE log[i].record.signature = s
        <5>1. store[s] # log[i].at
          BY <2>2, <4>1, ClockAssumption
        <5>2. QED
          BY <3>2, <4>1, <4>2, <5>1 DEF RememberedInv
      <4>3. CASE log[i].record.signature # s
        BY <1>0, <2>3, <3>2, <4>1, <4>3 DEF RememberedInv
      <4>4. QED
        BY <4>2, <4>3
    <3>3. QED
      BY <2>1, <3>1, <3>2
  <2>5. QED
    BY <1>0, <2>1, <2>3, <2>4 DEF RememberedInv
<1>4. CASE Tick
  <2>1. clock' = clock + 1 /\ UNCHANGED <<store, call, log>>
    BY <1>4 DEF Tick
  <2>2. ASSUME NEW i \in DOMAIN log
        PROVE  /\ log[i].at <= clock + 1
               /\ \/ Guard!Forgotten(log[i].at, clock + 1)
                  \/ store[log[i].record.signature] = log[i].at
    BY <1>0, ForgottenSticks DEF RememberedInv, LogEntry
  <2>3. QED
    BY <1>0, <2>1, <2>2 DEF RememberedInv
<1>5. CASE RingStep \/ UNCHANGED vars
  BY <1>0, <1>5 DEF RingStep, vars, RememberedInv
<1>6. QED
  BY <1>0, <1>1, <1>2, <1>3, <1>4, <1>5 DEF Next

\* A record this verifier has accepted is not accepted again while the store
\* remembers it, whatever the clock does between the lookup and the recording:
\* one agent with a store of its own implements ReplayGuard. (Two agents that
\* share a store do not.)
THEOREM ReplayCorrect ==
    ASSUME NEW me, Agents = {me}
    PROVE  Spec => ImplementsReplayGuard
<1> DEFINE abstract == [i \in DOMAIN log |->
                          [signature |-> log[i].record.signature, at |-> log[i].at]]
<1>1. Init => GuardInv /\ Guard!Init
  BY DEF Init, GuardInv, RememberedInv, Guard!Init, TypeOK, NoCall, Call,
     TrustVerdict, Untrusted
<1>2. GuardInv /\ [Next]_vars => GuardInv'
  BY GuardStep
<1>3. GuardInv /\ [Next]_vars => [Guard!Next]_<<clock, abstract>>
  <2> SUFFICES ASSUME GuardInv, [Next]_vars
               PROVE  [Guard!Next]_<<clock, abstract>>
    OBVIOUS
  <2> USE DEF GuardInv
  <2>1. CASE UNCHANGED <<clock, log>>
    BY <2>1
  <2>2. CASE Tick
    BY <2>2 DEF Tick, Guard!Next, Guard!Tick
  <2>3. CASE Record(me)
    <3> DEFINE r == call[me].record
               e == [signature |-> r.signature, at |-> clock]
               Abstract == [signature : Signatures, at : Int]
    <3>1. /\ call[me].pc = "unseen" /\ r \in ProvenanceRecord
          /\ clock' = clock /\ Len(log) \in Nat
          /\ DOMAIN log = 1..Len(log) /\ DOMAIN log' = 1..(Len(log) + 1)
          /\ \A i \in DOMAIN log : log'[i] = log[i]
          /\ log'[Len(log) + 1] = [record |-> r, at |-> clock]
      BY <2>3, RecordStep
    <3>2. \A i \in DOMAIN log : log[i] \in LogEntry
      BY LogTyped
    <3>3. r.signature \in Signatures /\ clock \in Int /\ store[r.signature] = None
      BY <3>1 DEF ProvenanceRecord, TypeOK, RememberedInv
    <3>4. abstract \in Seq(Abstract) /\ Len(abstract) = Len(log)
      BY <3>1, <3>2 DEF LogEntry, ProvenanceRecord
    <3>5. abstract' = Append(abstract, e)
      <4>1. e \in Abstract
        BY <3>3
      <4>2. /\ Append(abstract, e) \in Seq(Abstract)
            /\ Len(Append(abstract, e)) = Len(log) + 1
            /\ \A i \in 1..Len(log) : Append(abstract, e)[i] = abstract[i]
            /\ Append(abstract, e)[Len(log) + 1] = e
        BY <3>4, <4>1, AppendOne
      <4>3. /\ DOMAIN abstract' = 1..(Len(log) + 1)
            /\ \A i \in 1..Len(log) : abstract'[i] = abstract[i]
            /\ abstract'[Len(log) + 1] = e
        <5>1. abstract' = [i \in DOMAIN log' |->
                 [signature |-> log'[i].record.signature, at |-> log'[i].at]]
          OBVIOUS
        <5>2. Len(log) + 1 \in DOMAIN log' /\ 1..Len(log) \subseteq DOMAIN log'
          BY <3>1
        <5>3. abstract'[Len(log) + 1] = e
          BY <3>1, <5>1, <5>2
        <5>4. \A i \in 1..Len(log) : abstract'[i] = abstract[i]
          BY <3>1, <5>1, <5>2
        <5>5. QED
          BY <3>1, <5>1, <5>3, <5>4
      <4>4. DOMAIN Append(abstract, e) = 1..(Len(log) + 1)
        BY <4>2
      <4>5. QED
        BY <3>1, <4>2, <4>3, <4>4
    <3>6. \A i \in DOMAIN abstract :
             abstract[i].signature = r.signature => Guard!Forgotten(abstract[i].at, clock)
      <4> SUFFICES ASSUME NEW i \in DOMAIN log, log[i].record.signature = r.signature
                   PROVE  Guard!Forgotten(log[i].at, clock)
        OBVIOUS
      <4>1. store[r.signature] # log[i].at
        BY <3>2, <3>3, ClockAssumption DEF LogEntry
      <4>2. QED
        BY <4>1 DEF RememberedInv
    <3>7. PICK s : s = r.signature
      OBVIOUS
    <3>8. Guard!Accept(s)
      BY <3>1, <3>5, <3>6, <3>7 DEF Guard!Accept
    <3>9. QED
      BY <3>3, <3>7, <3>8 DEF Guard!Next
  <2>4. QED
    BY <2>1, <2>2, <2>3 DEF Next, Check, LookUp, RingStep, vars
<1>4. QED
  BY <1>1, <1>2, <1>3, PTL DEF Spec, ImplementsReplayGuard, Guard!Spec

-----------------------------------------------------------------------------
(* What the store has forgotten has gone stale.                            *)

\* A call past the checks is about a record that will still be younger than TTL
\* when the call ends.
FreshInv ==
    \A a \in Agents : call[a].pc # "idle" =>
        /\ call[a].record \in ProvenanceRecord
        /\ call[a].now <= clock /\ clock <= call[a].now + MaxPause
        /\ call[a].now - call[a].record.fetched_at + MaxPause <= TTL

OnceInv == GuardInv /\ FreshInv /\ AcceptedOnce

LEMMA FreshStep ==
    ASSUME NEW me, Agents = {me}, AgesBounded, TypeOK, FreshInv, [Next]_vars
    PROVE  FreshInv'
<1>0. /\ call[me] \in Call /\ clock \in Int /\ DOMAIN call = {me} /\ me \in Agents
      /\ call[me].pc # "idle" => call[me].now \in Int
  BY DEF TypeOK
<1>1. ASSUME NEW q \in Requests, Check(me, q)
      PROVE  FreshInv'
  <2> DEFINE verdict == IntrinsicVerdict(q, clock)
  <2>1. /\ call'[me].pc # "idle" => verdict \notin Untrusted
        /\ call'[me].record = q.record /\ call'[me].now = clock /\ clock' = clock
    BY <1>0, <1>1 DEF Check
  <2>2. CASE verdict \in Untrusted
    BY <2>1, <2>2 DEF FreshInv
  <2>3. CASE verdict \notin Untrusted
    <3>1. q.record \in ProvenanceRecord /\ ~Stale(q, clock)
      BY <2>3, CheckedRequest
    <3>2. q.max_age_seconds \in Nat /\ TTL \in Nat /\ q.max_age_seconds + MaxPause <= TTL
      BY RequestsAssumption, ClockAssumption DEF AgesBounded, Request
    <3>3. q.record.fetched_at \in Int
      BY <3>1, TimeAssumption DEF ProvenanceRecord
    <3>4. q.max_age_seconds # None
      BY <3>2, ClockAssumption
    <3>5. clock - q.record.fetched_at <= q.max_age_seconds
      BY <1>0, <3>1, <3>2, <3>3, <3>4 DEF Stale
    <3>6. clock - q.record.fetched_at + MaxPause <= TTL
      BY <1>0, <3>2, <3>3, <3>5, ClockAssumption
    <3>7. QED
      BY <1>0, <2>1, <3>1, <3>6, ClockAssumption DEF FreshInv
  <2>4. QED
    BY <2>2, <2>3
<1>2. CASE LookUp(me)
  <2>1. /\ clock' = clock
        /\ call[me].pc # "idle"
        /\ call'[me].record = call[me].record /\ call'[me].now = call[me].now
    BY <1>0, <1>2 DEF LookUp, Call
  <2>2. QED
    BY <2>1 DEF FreshInv
<1>3. CASE Record(me)
  BY <1>0, <1>3 DEF Record, FreshInv, Call
<1>4. CASE Tick
  <2>1. /\ clock' = clock + 1 /\ call' = call
        /\ call[me].pc # "idle" => clock - call[me].now < MaxPause
    BY <1>4 DEF Tick
  <2>2. QED
    BY <1>0, <2>1, ClockAssumption DEF FreshInv
<1>5. CASE RingStep \/ UNCHANGED vars
  BY <1>5 DEF RingStep, vars, FreshInv
<1>6. QED
  BY <1>1, <1>2, <1>3, <1>4, <1>5 DEF Next

LEMMA OnceStep ==
    ASSUME NEW me, Agents = {me}, OnceInv, AgesBounded, Record(me)
    PROVE  AcceptedOnce'
<1> DEFINE r == call[me].record
<1>1. /\ call[me].pc = "unseen" /\ r \in ProvenanceRecord /\ me \in Agents
      /\ clock' = clock /\ Len(log) \in Nat
      /\ DOMAIN log = 1..Len(log) /\ DOMAIN log' = 1..(Len(log) + 1)
      /\ \A i \in DOMAIN log : log'[i] = log[i]
      /\ log'[Len(log) + 1] = [record |-> r, at |-> clock]
  BY RecordStep DEF OnceInv, GuardInv
<1>2. SUFFICES ASSUME NEW i \in DOMAIN log, log[i].record.signature = r.signature
               PROVE  r.fetched_at > log[i].at
  <2>1. \A i, j \in DOMAIN log' : i < j => i \in DOMAIN log
    BY <1>1
  <2>2. \A i \in DOMAIN log, j \in DOMAIN log' : j \in DOMAIN log \/ j = Len(log) + 1
    BY <1>1
  <2>3. \A i \in DOMAIN log : log[i].record.signature = r.signature => r.fetched_at > log[i].at
    BY <1>2
  <2>4. QED
    BY <1>1, <2>1, <2>2, <2>3 DEF OnceInv, AcceptedOnce
<1>3. log[i].at \in Int /\ clock \in Int
  BY LogTyped DEF OnceInv, GuardInv, TypeOK, LogEntry
<1>4. store[r.signature] = None
  BY <1>1 DEF OnceInv, GuardInv, RememberedInv
<1>5. Guard!Forgotten(log[i].at, clock)
  BY <1>2, <1>3, <1>4, ClockAssumption DEF OnceInv, GuardInv, RememberedInv
<1>6. TTL \in Nat /\ clock - log[i].at > TTL
  BY <1>5, ClockAssumption DEF Guard!Forgotten
<1>7. r.fetched_at \in Int
  BY <1>1, TimeAssumption DEF ProvenanceRecord
<1>8. call[me].now \in Int
  BY <1>1 DEF OnceInv, GuardInv, TypeOK
<1>9. /\ clock <= call[me].now + MaxPause
      /\ call[me].now - r.fetched_at + MaxPause <= TTL
  BY <1>1 DEF OnceInv, FreshInv
<1>10. QED
  BY <1>3, <1>6, <1>7, <1>8, <1>9, ClockAssumption

\* Whatever the store has forgotten has gone stale: an agent whose freshness
\* bound and call length fit in the TTL accepts a record that was not dated in
\* the future once, ever.
THEOREM OnceCorrect ==
    ASSUME NEW me, Agents = {me}, AgesBounded
    PROVE  Spec => []AcceptedOnce
<1>1. Init => OnceInv
  BY DEF Init, OnceInv, GuardInv, RememberedInv, FreshInv, AcceptedOnce,
     TypeOK, NoCall, Call, TrustVerdict, Untrusted
<1>2. OnceInv /\ [Next]_vars => OnceInv'
  <2> SUFFICES ASSUME OnceInv, [Next]_vars  PROVE  OnceInv'
    OBVIOUS
  <2>1. GuardInv' /\ FreshInv'
    BY GuardStep, FreshStep DEF OnceInv, GuardInv
  <2>2. CASE Record(me)
    BY <2>1, <2>2, OnceStep DEF OnceInv
  <2>3. CASE UNCHANGED log
    BY <2>1, <2>3 DEF OnceInv, AcceptedOnce
  <2>4. QED
    BY <2>2, <2>3 DEF Next, Check, LookUp, Tick, RingStep, vars
<1>3. OnceInv => AcceptedOnce
  BY DEF OnceInv
<1>4. QED
  BY <1>1, <1>2, <1>3, PTL DEF Spec

-----------------------------------------------------------------------------
(* Nothing but an acceptance is remembered, with any number of agents.     *)

AcceptedAt(s, t) ==
    \E i \in DOMAIN log : log[i].record.signature = s /\ log[i].at = t

LEMMA LogGrows ==
    ASSUME TypeOK, [Next]_vars
    PROVE  \A i \in DOMAIN log : i \in DOMAIN log' /\ log'[i] = log[i]
<1>1. CASE \E a \in Agents : Record(a)
  <2>1. PICK a \in Agents : Record(a)
    BY <1>1
  <2>2. /\ DOMAIN log = 1..Len(log) /\ Len(log) \in Nat
        /\ DOMAIN log' = 1..(Len(log) + 1)
        /\ \A i \in DOMAIN log : log'[i] = log[i]
    BY <2>1, RecordStep
  <2>3. QED
    BY <2>2
<1>2. CASE UNCHANGED log
  BY <1>2
<1>3. QED
  BY <1>1, <1>2 DEF Next, Check, LookUp, Tick, RingStep, vars

\* A rejected presentation never makes a later genuine one look like a replay,
\* with any number of agents on the store.
THEOREM RememberedCorrect == Spec => []RememberedIsAccepted
<1>1. Init => TypeOK /\ RememberedIsAccepted
  BY VerdictAssumption DEF Init, TypeOK, RememberedIsAccepted, NoCall, Call, TrustVerdict, Untrusted
<1>2. TypeOK /\ RememberedIsAccepted /\ [Next]_vars => (TypeOK /\ RememberedIsAccepted)'
  <2> SUFFICES ASSUME TypeOK, RememberedIsAccepted, [Next]_vars
               PROVE  RememberedIsAccepted'
    BY TypeStep
  <2>0. /\ TypeOK' /\ store \in [Signatures -> Int \cup {None}]
        /\ call \in [Agents -> Call] /\ clock \in Int
        /\ \A i \in DOMAIN log : i \in DOMAIN log' /\ log'[i] = log[i]
    BY TypeStep, LogGrows DEF TypeOK
  <2>1. ASSUME NEW s \in Signatures, store'[s] \in {store[s], None}, store'[s] # None
        PROVE  AcceptedAt(s, store[s])'
    BY <2>0, <2>1 DEF RememberedIsAccepted, AcceptedAt
  <2>2. ASSUME NEW a \in Agents, call'[a].verdict = "replayed",
               call'[a].verdict = call[a].verdict, call'[a].record = call[a].record
        PROVE  \E i \in DOMAIN log' : log'[i].record.signature = call'[a].record.signature
    BY <2>0, <2>2 DEF RememberedIsAccepted
  <2>3. CASE \E a \in Agents, q \in Requests : Check(a, q)
    <3>1. PICK a \in Agents, q \in Requests : Check(a, q)
      BY <2>3
    <3>2. /\ call'[a].verdict # "replayed"
          /\ \A b \in Agents : b # a => call'[b] = call[b]
          /\ store' = store
      BY <2>0, <3>1 DEF Check, IntrinsicVerdict
    <3>3. QED
      BY <2>1, <2>2, <3>2 DEF RememberedIsAccepted, AcceptedAt
  <2>4. CASE \E a \in Agents : LookUp(a)
    <3>1. PICK a \in Agents : LookUp(a)
      BY <2>4
    <3> DEFINE s == call[a].record.signature
    <3>2. s \in Signatures
      BY <2>0, <3>1 DEF LookUp, TypeOK, Call, ProvenanceRecord
    <3>3. \A t \in Signatures : store'[t] \in {store[t], None}
      BY <2>0, <3>1 DEF LookUp, AfterSeen
    <3>4. /\ \A b \in Agents : b # a => call'[b] = call[b]
          /\ call'[a].record = call[a].record
          /\ Seen(s) \/ call'[a].verdict = call[a].verdict
      BY <2>0, <3>1 DEF LookUp, Call
    <3>5. Seen(s) => \E i \in DOMAIN log' : log'[i].record.signature = s
      BY <2>0, <3>2 DEF Seen, RememberedIsAccepted
    <3>6. \A b \in Agents : call'[b].verdict = "replayed" =>
             \E i \in DOMAIN log' : log'[i].record.signature = call'[b].record.signature
      BY <2>2, <3>4, <3>5
    <3>7. \A t \in Signatures : store'[t] # None => AcceptedAt(t, store[t])'
      BY <2>1, <3>3
    <3>8. QED
      BY <3>6, <3>7 DEF RememberedIsAccepted, AcceptedAt
  <2>5. CASE \E a \in Agents : Record(a)
    <3>1. PICK a \in Agents : Record(a)
      BY <2>5
    <3> DEFINE r == call[a].record
    <3>2. /\ r \in ProvenanceRecord /\ Len(log) + 1 \in DOMAIN log'
          /\ log'[Len(log) + 1] = [record |-> r, at |-> clock]
      BY <3>1, RecordStep
    <3>3. store' = AfterRecord(r.signature) /\ r.signature \in Signatures
      BY <3>1, <3>2 DEF Record, ProvenanceRecord
    <3>4. \A b \in Agents : call'[b].verdict = call[b].verdict /\ call'[b].record = call[b].record
      BY <2>0, <3>1 DEF Record, Call
    <3>5. ASSUME NEW t \in Signatures, store'[t] # None
          PROVE  \E i \in DOMAIN log' : log'[i].record.signature = t /\ log'[i].at = store'[t]
      <4>1. CASE store'[t] = store[t]
        BY <2>1, <3>5, <4>1 DEF AcceptedAt
      <4>2. CASE t = r.signature /\ store'[t] = clock
        BY <3>2, <4>2
      <4>3. QED
        BY <2>0, <3>3, <4>1, <4>2 DEF AfterRecord
    <3>6. QED
      BY <2>2, <3>4, <3>5 DEF RememberedIsAccepted
  <2>6. CASE Tick \/ RingStep \/ UNCHANGED vars
    BY <2>1, <2>2, <2>6 DEF Tick, RingStep, vars, RememberedIsAccepted, AcceptedAt
  <2>7. QED
    BY <2>3, <2>4, <2>5, <2>6 DEF Next
<1>3. QED
  BY <1>1, <1>2, PTL DEF Spec

-----------------------------------------------------------------------------
(***************************************************************************)
(* Acceptances under a key ring. KeyRingProofs is about its own copy of    *)
(* the ring's definitions, so its facts are first carried over to Ring.    *)
(***************************************************************************)

Proved == INSTANCE KeyRingProofs

LEMMA SameTypes ==
    /\ Ring!KeyEntry = Proved!KeyEntry
    /\ Ring!Revocation = Proved!Revocation
    /\ Ring!Signature = Proved!Signature
    /\ Ring!RevocationReason = Proved!RevocationReason
BY DEF Ring!KeyEntry, Proved!KeyEntry, Ring!Revocation, Proved!Revocation,
       Ring!Signature, Proved!Signature, Ring!Payload, Proved!Payload,
       Ring!RevocationReason, Proved!RevocationReason

LEMMA SameNext == Ring!Next <=> Proved!Next
<1>1. \A k, t : Ring!AddRoot(k, t) <=> Proved!AddRoot(k, t)
  BY DEF Ring!AddRoot, Proved!AddRoot
<1>2. \A o, n, t : Ring!Rotate(o, n, t) <=> Proved!Rotate(o, n, t)
  BY DEF Ring!Rotate, Proved!Rotate, Ring!MayRotate,
     Proved!MayRotate, Ring!Finds, Proved!Finds, Ring!RetireOld, Proved!RetireOld,
     Ring!Successor, Proved!Successor, Ring!Sign, Proved!Sign, Ring!NewRevocation,
     Proved!NewRevocation, Ring!RotationPayload, Proved!RotationPayload,
     Ring!RevocationPayload, Proved!RevocationPayload
<1>3. \A k, r, e, t : Ring!Revoke(k, r, e, t) <=> Proved!Revoke(k, r, e, t)
  BY DEF Ring!Revoke, Proved!Revoke, Ring!Finds, Proved!Finds, Ring!Sign, Proved!Sign,
     Ring!NewRevocation, Proved!NewRevocation, Ring!RevocationPayload,
     Proved!RevocationPayload
<1>4. QED
  BY <1>1, <1>2, <1>3 DEF Ring!Next, Proved!Next

LEMMA RingKeeps ==
    ASSUME Ring!TypeOK, [Next]_vars
    PROVE  /\ Ring!TypeOK'
           /\ \A i \in DOMAIN keys : keys'[i].created_at = keys[i].created_at
           /\ \A key : \A i \in DOMAIN keys : Ring!Finds(i, key) =>
                 i \in DOMAIN keys' /\ Ring!Finds(i, key)'
<1>1. Ring!Next \/ UNCHANGED keys
  BY DEF Next, Check, LookUp, Record, Tick, RingStep, vars
<1>2. [Proved!Next]_(Proved!vars) /\ Proved!TypeOK
  BY <1>1, SameNext, SameTypes DEF Proved!vars, Ring!TypeOK, Proved!TypeOK
<1>3. /\ None \notin Keys \cup Proved!Revocation \cup Proved!Signature
      /\ Time \subseteq Int /\ Slack \in Nat
      /\ Reasons \subseteq Proved!RevocationReason
  BY RingAssumption, TimeAssumption, SameTypes
<1>4. Proved!TypeOK' /\ \A i \in DOMAIN keys : Proved!EntryKept(i)
  BY <1>2, <1>3, Proved!StepKeepsEntries
<1>5. \A i \in DOMAIN keys : keys'[i].created_at = keys[i].created_at
  BY <1>4 DEF Proved!EntryKept
<1>6. Ring!TypeOK'
  BY <1>4, SameTypes DEF Ring!TypeOK, Proved!TypeOK
<1>7. ASSUME NEW key, NEW i \in DOMAIN keys, Ring!Finds(i, key)
      PROVE  i \in DOMAIN keys' /\ Ring!Finds(i, key)'
  <2>1. Proved!Finds(i, key)
    BY <1>7 DEF Ring!Finds, Proved!Finds
  <2>2. i \in DOMAIN keys' /\ Proved!Finds(i, key)'
    BY <1>2, <1>3, <2>1, Proved!FindsStable
  <2>3. QED
    BY <2>2 DEF Ring!Finds, Proved!Finds
<1>8. QED
  BY <1>5, <1>6, <1>7

\* The ring holds the key of r, created before r was signed.
KeyOnRecord(r) ==
    \E i \in DOMAIN keys :
        /\ Ring!Finds(i, r.worker_public_key)
        /\ r.fetched_at >= keys[i].created_at - Slack

LEMMA KeyOnRecordSticks ==
    ASSUME Ring!TypeOK, [Next]_vars, NEW r, KeyOnRecord(r)
    PROVE  KeyOnRecord(r)'
<1>1. PICK i \in DOMAIN keys : /\ Ring!Finds(i, r.worker_public_key)
                               /\ r.fetched_at >= keys[i].created_at - Slack
  BY DEF KeyOnRecord
<1>2. PICK key : key = r.worker_public_key
  OBVIOUS
<1>3. i \in DOMAIN keys' /\ Ring!Finds(i, key)' /\ keys'[i].created_at = keys[i].created_at
  BY <1>1, <1>2, RingKeeps
<1>4. QED
  BY <1>1, <1>2, <1>3 DEF KeyOnRecord

ExplainedInv ==
    /\ TypeOK
    /\ Ring!TypeOK
    /\ \A r \in vouched : KeyOnRecord(r)
    /\ \A a \in Agents : call[a].pc # "idle" /\ call[a].keyring => KeyOnRecord(call[a].record)

LEMMA InvExplains ==
    ASSUME ExplainedInv
    PROVE  AcceptedStaysExplained
<1> SUFFICES ASSUME NEW r \in vouched, ~KeyTrusted(r)
             PROVE  \E i \in DOMAIN keys :
                       /\ Ring!Finds(i, r.worker_public_key)
                       /\ Ring!Compromised(keys[i])
                       /\ r.fetched_at >= keys[i].revocation.effective_at
  BY DEF AcceptedStaysExplained
<1>1. PICK i \in DOMAIN keys : /\ Ring!Finds(i, r.worker_public_key)
                               /\ r.fetched_at >= keys[i].created_at - Slack
  BY DEF ExplainedInv, KeyOnRecord
<1>2. ~Ring!EntryTrustedAt(keys[i], r.fetched_at)
  BY <1>1 DEF KeyTrusted, Ring!TrustedAt
<1>3. /\ keys[i].revocation # None
      /\ keys[i].revocation.reason \notin Ring!NonInvalidating
      /\ ~(r.fetched_at < keys[i].revocation.effective_at)
  BY <1>1, <1>2 DEF Ring!EntryTrustedAt
<1>4. keys[i].revocation \in Ring!Revocation
  <2>1. keys[i] \in Ring!KeyEntry
    BY DEF ExplainedInv, Ring!TypeOK
  <2>2. QED
    BY <1>3, <2>1 DEF Ring!KeyEntry
<1>5. keys[i].revocation.reason = "compromised"
  BY <1>3, <1>4 DEF Ring!Revocation, Ring!RevocationReason, Ring!NonInvalidating
<1>6. r.fetched_at \in Int /\ keys[i].revocation.effective_at \in Int
  BY <1>4, TimeAssumption DEF ExplainedInv, TypeOK, ProvenanceRecord, Ring!Revocation
<1>7. QED
  BY <1>1, <1>3, <1>5, <1>6 DEF Ring!Compromised

\* With a key ring, an acceptance is withdrawn by a compromise only, whatever the
\* ring's owner, the clock and the other agents do during and after the call.
THEOREM ExplainedCorrect == Spec => []AcceptedStaysExplained
<1>1. Init => ExplainedInv
  BY DEF Init, ExplainedInv, TypeOK, NoCall, Call, TrustVerdict, Untrusted,
     Ring!Init, Ring!TypeOK
<1>2. ExplainedInv /\ [Next]_vars => ExplainedInv'
  <2> SUFFICES ASSUME ExplainedInv, [Next]_vars  PROVE  ExplainedInv'
    OBVIOUS
  <2>0. TypeOK /\ TypeOK' /\ Ring!TypeOK /\ Ring!TypeOK'
    BY TypeStep, RingKeeps DEF ExplainedInv
  <2>1. \A r : KeyOnRecord(r) => KeyOnRecord(r)'
    BY <2>0, KeyOnRecordSticks
  <2>2. ASSUME NEW a \in Agents, call[a].pc # "idle", call[a].keyring,
               call'[a].record = call[a].record
        PROVE  KeyOnRecord(call[a].record)'
    <3>1. PICK r : r = call[a].record
      OBVIOUS
    <3>2. KeyOnRecord(r)'
      BY <2>1, <2>2, <3>1 DEF ExplainedInv
    <3>3. QED
      BY <2>2, <3>1, <3>2 DEF KeyOnRecord
  <2>3. ASSUME UNCHANGED vouched
        PROVE  \A r \in vouched' : KeyOnRecord(r)'
    BY <2>1, <2>3 DEF ExplainedInv
  <2>4. CASE \E a \in Agents, q \in Requests : Check(a, q)
    <3>1. PICK a \in Agents, q \in Requests : Check(a, q)
      BY <2>4
    <3>2. /\ UNCHANGED <<keys, vouched>>
          /\ \A b \in Agents : b # a => call'[b] = call[b]
          /\ call'[a].record = q.record /\ call'[a].keyring = q.keyring
          /\ call'[a].pc # "idle" => IntrinsicVerdict(q, clock) \notin Untrusted
      BY <2>0, <3>1 DEF Check, TypeOK
    <3>3. call'[a].pc # "idle" /\ q.keyring => KeyTrusted(q.record)
      BY <3>2 DEF IntrinsicVerdict, Untrusted
    <3>4. KeyTrusted(q.record) => KeyOnRecord(q.record)
      BY DEF KeyTrusted, KeyOnRecord, Ring!TrustedAt, Ring!EntryTrustedAt
    <3>5. call'[a].pc # "idle" /\ call'[a].keyring => KeyOnRecord(call[a].record)'
      BY <3>2, <3>3, <3>4 DEF KeyOnRecord, Ring!Finds
    <3>6. QED
      BY <2>0, <2>2, <2>3, <3>2, <3>5 DEF ExplainedInv
  <2>5. CASE \E a \in Agents : LookUp(a)
    <3>1. PICK a \in Agents : LookUp(a)
      BY <2>5
    <3>2. /\ call[a].pc # "idle" /\ UNCHANGED vouched
          /\ \A b \in Agents : b # a => call'[b] = call[b]
          /\ call'[a].record = call[a].record /\ call'[a].keyring = call[a].keyring
      BY <2>0, <3>1 DEF LookUp, TypeOK, Call
    <3>3. QED
      BY <2>0, <2>2, <2>3, <3>2 DEF ExplainedInv
  <2>6. CASE \E a \in Agents : Record(a)
    <3>1. PICK a \in Agents : Record(a)
      BY <2>6
    <3>2. /\ call[a].pc # "idle" /\ call'[a].pc = "idle"
          /\ \A b \in Agents : b # a => call'[b] = call[b]
          /\ vouched' \subseteq vouched
                \cup (IF call[a].keyring THEN {call[a].record} ELSE {})
      BY <2>0, <3>1 DEF Record, TypeOK, Call
    <3>3. \A r \in vouched' : KeyOnRecord(r)'
      BY <2>1, <3>2 DEF ExplainedInv
    <3>4. QED
      BY <2>0, <2>2, <3>2, <3>3 DEF ExplainedInv
  <2>7. CASE Tick \/ RingStep \/ UNCHANGED vars
    BY <2>0, <2>2, <2>3, <2>7 DEF Tick, RingStep, vars, ExplainedInv
  <2>8. QED
    BY <2>4, <2>5, <2>6, <2>7 DEF Next
<1>3. QED
  BY <1>1, <1>2, InvExplains, PTL DEF Spec
=============================================================================
