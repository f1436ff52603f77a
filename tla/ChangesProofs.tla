--------------------------- MODULE ChangesProofs ---------------------------
(***************************************************************************)
(* Proofs about change detection, for any pages, thresholds and clocks and *)
(* however long the table grows: what backs a report, that evidence stays, *)
(* and, of a page that one detector alone watches, that it compares with   *)
(* the last observation and cannot be walked past a changed price in small *)
(* steps, whoever else uses the file.                                      *)
(***************************************************************************)
EXTENDS Changes, WellFoundedInduction, TLAPS

LEMMA LessIsWellFounded == IsWellFoundedOn({p \in Nat \X Nat : p[1] < p[2]}, Nat)
<1>1. OpToRel(<, Nat) = {p \in Nat \X Nat : p[1] < p[2]}
  BY Zenon DEF OpToRel
<1>2. QED
  BY <1>1, NatLessThanWellFounded, Zenon

\* A bounded set of natural numbers has a greatest element: the one least below the bound.
LEMMA GreatestOf ==
    ASSUME NEW n \in Nat, NEW S, S \subseteq 0..n, S # {}
    PROVE  \E x \in S : \A y \in S : y <= x
<1> DEFINE Below == {n - y : y \in S}
           R == {p \in Nat \X Nat : p[1] < p[2]}
<1>1. Below \subseteq Nat /\ Below # {}
  <2>1. \A y \in S : n - y \in Nat /\ n - y \in Below
    OBVIOUS
  <2>2. Below # {}
    <3> HIDE DEF Below
    <3>1. QED
      BY <2>1
  <2>3. QED
    BY <2>1, <2>2
<1>2. IsWellFoundedOn(R, Nat)
  BY LessIsWellFounded
<1>3. \A x, y \in Nat : <<y, x>> \in R <=> y < x
  OBVIOUS
<1>4. PICK b \in Below : \A c \in Below : ~ (<<c, b>> \in R)
  <2> HIDE DEF Below, R
  <2>1. QED
    BY <1>1, <1>2, WFMin
<1>5. \A c \in Below : b <= c
  <2> HIDE DEF Below, R
  <2> TAKE c \in Below
  <2>1. b \in Nat /\ c \in Nat
    BY <1>1
  <2>2. ~ (c < b)
    BY <1>3, <1>4, <2>1
  <2>3. QED
    BY <2>1, <2>2
<1>6. PICK x \in S : b = n - x
  OBVIOUS
<1>7. \A y \in S : n - x <= n - y
  BY <1>5, <1>6
<1>8. \A y \in S : y <= x
  BY <1>7
<1>9. QED
  BY <1>8

LEMMA AppendOne ==
    ASSUME NEW S, NEW seq \in Seq(S), NEW e \in S
    PROVE  /\ Append(seq, e) \in Seq(S)
           /\ Len(Append(seq, e)) = Len(seq) + 1
           /\ \A n \in 1..Len(seq) : Append(seq, e)[n] = seq[n]
           /\ Append(seq, e)[Len(seq) + 1] = e
OBVIOUS

LEMMA Shortened ==
    ASSUME NEW S, NEW seq \in Seq(S), NEW n \in 0..Len(seq)
    PROVE  /\ SubSeq(seq, 1, n) \in Seq(S)
           /\ Len(SubSeq(seq, 1, n)) = n
           /\ \A k \in 1..n : SubSeq(seq, 1, n)[k] = seq[k]
OBVIOUS

-----------------------------------------------------------------------------
(* What a run of detect knows, while the rows around it come and go.        *)

\* The prior is a row of the same page, before n, that the detector's connection sees.
Prior(d, n) ==
    call[d].prior # 0 =>
        /\ call[d].prior \in Visible(d) /\ call[d].prior < n
        /\ rows[call[d].prior].url_canonical = call[d].obs.url_canonical

CallInv == \A d \in Detectors :
    /\ call[d].pc = "compared" => Prior(d, Len(rows) + 1)
    /\ call[d].pc \in {"inserted", "saved"} =>
          /\ call[d].seq \in Visible(d)
          /\ rows[call[d].seq] = call[d].obs
          /\ Prior(d, call[d].seq)
    /\ call[d].pc = "saved" => call[d].seq \in 1..durable

\* The inductive invariant behind the evidence of the reports.
EvidenceInv == TypeOK /\ CallInv /\ ReportsEvidenced

LEMMA CallShape ==
    ASSUME TypeOK, NEW d \in Detectors
    PROVE  /\ call[d].pc = "signed" => call[d] \in [pc : {"signed"}, obs : Observation]
           /\ call[d].pc = "compared" =>
                 call[d] \in [pc : {"compared"}, obs : Observation, prior : Nat]
           /\ call[d].pc \in {"inserted", "saved"} =>
                 call[d] \in [pc : {"inserted", "saved"}, obs : Observation,
                              prior : Nat, seq : Nat]
           /\ call[d] = Idle \/ call[d].pc \in {"signed", "compared", "inserted", "saved"}
BY DEF TypeOK, Call, Idle

LEMMA LatestSeen ==
    ASSUME TypeOK, NEW d \in Detectors, NEW url
    PROVE  /\ Latest(d, url) \in Nat
           /\ Latest(d, url) = 0 \/ Latest(d, url) \in Observed(d, url)
           /\ \A k \in Observed(d, url) : k <= Latest(d, url)
<1>1. CASE Observed(d, url) = {}
  BY <1>1 DEF Latest
<1>2. CASE Observed(d, url) # {}
  <2>1. /\ Observed(d, url) \subseteq 0..Len(rows) /\ Len(rows) \in Nat
    BY DEF TypeOK, Observed, Visible
  <2>2. \E k \in Observed(d, url) : \A j \in Observed(d, url) : j <= k
    BY <1>2, <2>1, GreatestOf
  <2>3. QED
    BY <1>2, <2>1, <2>2 DEF Latest
<1>3. QED
  BY <1>1, <1>2

-----------------------------------------------------------------------------
(* The shapes. *)

LEMMA TypeStep == TypeOK /\ [Next]_vars => TypeOK'
<1> SUFFICES ASSUME TypeOK, [Next]_vars PROVE TypeOK'
  OBVIOUS
<1>1. ASSUME NEW d \in Detectors, Sign(d) PROVE TypeOK'
  <2>1. PICK obs \in Observation : call' = [call EXCEPT ![d] = [pc |-> "signed", obs |-> obs]]
    BY <1>1 DEF Sign, TypeOK
  <2>2. call' \in [Detectors -> Call]
    BY <2>1 DEF TypeOK, Call
  <2>3. \A e \in Detectors : call'[e].pc = "inserted" => call[e].pc = "inserted"
    BY <2>1 DEF TypeOK
  <2>4. QED
    BY <1>1, <2>2, <2>3 DEF Sign, TypeOK
<1>2. ASSUME NEW d \in Detectors, Compare(d) PROVE TypeOK'
  <2>1. Latest(d, call[d].obs.url_canonical) \in Nat
    BY LatestSeen
  <2>2. call[d].obs \in Observation
    BY <1>2, CallShape DEF Compare
  <2>3. call' \in [Detectors -> Call]
    BY <1>2, <2>1, <2>2 DEF Compare, TypeOK, Call
  <2>4. \A e \in Detectors : call'[e].pc = "inserted" => call[e].pc = "inserted"
    BY <1>2 DEF Compare, TypeOK
  <2>5. QED
    BY <1>2, <2>3, <2>4 DEF Compare, TypeOK
<1>3. ASSUME NEW d \in Detectors, Insert(d) PROVE TypeOK'
  <2>1. call[d].obs \in Observation /\ call[d].prior \in Nat
    BY <1>3, CallShape DEF Insert
  <2>2. rows' \in Seq(Observation) /\ Len(rows') = Len(rows) + 1 /\ Len(rows) \in Nat
    BY <1>3, <2>1, AppendOne DEF Insert, TypeOK
  <2>3. call' \in [Detectors -> Call]
    BY <1>3, <2>1, <2>2 DEF Insert, TypeOK, Call
  <2>4. \A e \in Detectors \ {d} : call[e].pc = "inserted" => writer = e
    BY DEF TypeOK
  <2>5. \A e \in Detectors : call'[e].pc = "inserted" => writer' = e
    BY <1>3, <2>4, NoneAssumption DEF Insert, TypeOK
  <2>6. QED
    BY <1>3, <2>2, <2>3, <2>5, NoneAssumption DEF Insert, TypeOK
<1>4. ASSUME NEW d \in Detectors, Commit(d) PROVE TypeOK'
  <2>1. call[d] \in [pc : {"inserted", "saved"}, obs : Observation, prior : Nat, seq : Nat]
    BY <1>4, CallShape DEF Commit
  <2>2. call' \in [Detectors -> Call]
    BY <1>4, <2>1 DEF Commit, TypeOK, Call
  <2>3. \A e \in Detectors : call'[e].pc # "inserted"
    BY <1>4 DEF Commit, TypeOK
  <2>4. QED
    BY <1>4, <2>2, <2>3 DEF Commit, TypeOK
<1>5. ASSUME NEW d \in Detectors, Report(d) PROVE TypeOK'
  <2>1. call[d] \in [pc : {"inserted", "saved"}, obs : Observation, prior : Nat, seq : Nat]
    BY <1>5, CallShape DEF Report
  <2>2. ReportOf(call[d]) \in ChangeReport
    BY <2>1 DEF ReportOf, ChangeReport, Level, DiffLevel
  <2>3. QED
    BY <1>5, <2>2 DEF Report, TypeOK, Call, Idle
<1>6. ASSUME NEW d \in Detectors, Locked(d) PROVE TypeOK'
  BY <1>6 DEF Locked, Raises, TypeOK, Call, Idle
<1>7. Rollback => rows' \in Seq(Observation) /\ Len(rows') = durable
  BY Shortened DEF Rollback, TypeOK
<1>8. ASSUME NEW d \in Detectors, CommitFails(d) PROVE TypeOK'
  <2>1. call' \in [Detectors -> Call] /\ \A e \in Detectors : call'[e].pc # "inserted"
    BY <1>8 DEF CommitFails, Raises, TypeOK, Call, Idle
  <2>2. QED
    BY <1>7, <1>8, <2>1 DEF CommitFails, Rollback, TypeOK
<1>9. ASSUME NEW d \in Detectors, Die(d) PROVE TypeOK'
  <2>1. call' \in [Detectors -> Call]
    BY <1>9 DEF Die, Raises, TypeOK, Call, Idle
  <2>2. \A e \in Detectors : call'[e].pc = "inserted" => e # d /\ call[e].pc = "inserted"
    BY <1>9 DEF Die, Raises, TypeOK, Idle
  <2>3. QED
    BY <1>7, <1>9, <2>1, <2>2 DEF Die, Rollback, TypeOK
<1>10. CASE UNCHANGED vars
  BY <1>10 DEF vars, TypeOK
<1>11. QED
  BY <1>1, <1>2, <1>3, <1>4, <1>5, <1>6, <1>8, <1>9, <1>10 DEF Next

\* Every variable keeps its shape: uncommitted rows belong to one open transaction
\* (ChangeStore.save, ChangeDetector.detect).
THEOREM TypeCorrect == Spec => []TypeOK
<1>1. Init => TypeOK
  BY FeedsAssumption DEF Init, TypeOK, Call, Idle
<1>2. QED
  BY <1>1, TypeStep, PTL DEF Spec

-----------------------------------------------------------------------------
(* The evidence. *)

\* What a step of d leaves alone.
LEMMA StepKeeps ==
    ASSUME TypeOK, NEW d \in Detectors,
           \/ Sign(d) \/ Compare(d) \/ Insert(d) \/ Commit(d) \/ Report(d)
           \/ Locked(d) \/ CommitFails(d) \/ Die(d)
    PROVE  /\ durable <= durable'
           /\ \A k \in 1..durable : k \in DOMAIN rows' /\ rows'[k] = rows[k]
           /\ \A e \in Detectors \ {d} :
                 /\ call'[e] = call[e]
                 /\ Visible(e) \subseteq Visible(e)'
                 /\ \A k \in Visible(e) : rows'[k] = rows[k]
<1>1. call' = [call EXCEPT ![d] = call'[d]]
  BY DEF Sign, Compare, Insert, Commit, Report, Locked, CommitFails, Die, Raises, TypeOK
<1>2. \A e \in Detectors \ {d} : call'[e] = call[e]
  BY <1>1 DEF TypeOK
<1>3. /\ rows \in Seq(Observation) /\ Len(rows) \in Nat /\ durable \in 0..Len(rows)
      /\ DOMAIN rows = 1..Len(rows)
  BY DEF TypeOK
<1>4. CASE UNCHANGED <<rows, durable, writer>>
  BY <1>2, <1>3, <1>4 DEF Visible
<1>5. CASE Insert(d)
  <2>1. rows' = Append(rows, call[d].obs) /\ call[d].obs \in Observation
    BY <1>5, CallShape DEF Insert
  <2>2. /\ Len(rows') = Len(rows) + 1 /\ DOMAIN rows' = 1..Len(rows')
        /\ \A k \in 1..Len(rows) : rows'[k] = rows[k]
    BY <1>3, <2>1, AppendOne
  <2>3. \A e \in Detectors \ {d} : Visible(e) = 1..durable /\ Visible(e)' = 1..durable
    BY <1>5, NoneAssumption DEF Insert, Visible
  <2>4. QED
    BY <1>2, <1>3, <1>5, <2>2, <2>3 DEF Insert
<1>6. CASE Commit(d)
  <2>1. writer = d /\ writer' = None /\ durable' = Len(rows) /\ rows' = rows
    BY <1>6 DEF Commit, TypeOK
  <2>2. \A e \in Detectors \ {d} : Visible(e) = 1..durable /\ Visible(e)' = 1..Len(rows)
    BY <2>1, NoneAssumption DEF Visible
  <2>3. QED
    BY <1>2, <1>3, <2>1, <2>2
<1>7. ASSUME Rollback, writer = d, durable' = durable
      PROVE  /\ durable <= durable'
             /\ \A k \in 1..durable : k \in DOMAIN rows' /\ rows'[k] = rows[k]
             /\ \A e \in Detectors \ {d} :
                   /\ Visible(e) \subseteq Visible(e)'
                   /\ \A k \in Visible(e) : rows'[k] = rows[k]
  <2>1. /\ rows' \in Seq(Observation) /\ Len(rows') = durable
        /\ \A k \in 1..durable : rows'[k] = rows[k]
    BY <1>3, <1>7, Shortened DEF Rollback
  <2>2. \A e \in Detectors \ {d} : Visible(e) = 1..durable /\ Visible(e)' = 1..durable
    BY <1>7, NoneAssumption DEF Rollback, Visible
  <2>3. QED
    BY <1>3, <1>7, <2>1, <2>2
<1>8. CASE CommitFails(d)
  <2>1. writer = d /\ durable' = durable
    BY <1>8 DEF CommitFails, TypeOK
  <2>2. QED
    BY <1>2, <1>4, <1>7, <1>8, <2>1 DEF CommitFails
<1>9. CASE Die(d)
  BY <1>2, <1>4, <1>7, <1>9 DEF Die
<1>10. QED
  BY <1>4, <1>5, <1>6, <1>8, <1>9 DEF Sign, Compare, Report, Locked

\* No signed observation that was committed is ever dropped, replaced or moved
\* (ChangeStore.save: plain INSERT, never REPLACE).
THEOREM KeptCorrect == Spec => EvidenceKept
<1>1. TypeOK /\ [Next]_vars =>
        [/\ durable <= durable'
         /\ \A k \in 1 .. durable : k \in DOMAIN rows' /\ rows'[k] = rows[k]]_vars
  BY StepKeeps DEF Next
<1>2. QED
  BY <1>1, TypeCorrect, PTL DEF Spec, EvidenceKept

\* The calls of the detectors that do not move.
LEMMA OthersKnow ==
    ASSUME TypeOK, CallInv, NEW d \in Detectors,
           \/ Sign(d) \/ Compare(d) \/ Insert(d) \/ Commit(d) \/ Report(d)
           \/ Locked(d) \/ CommitFails(d) \/ Die(d),
           NEW e \in Detectors \ {d}, TypeOK'
    PROVE  /\ call'[e].pc = "compared" => Prior(e, Len(rows) + 1)'
           /\ call'[e].pc \in {"inserted", "saved"} =>
                 /\ call'[e].seq \in Visible(e)'
                 /\ rows'[call'[e].seq] = call'[e].obs
                 /\ Prior(e, call[e].seq)'
           /\ call'[e].pc = "saved" => call'[e].seq \in 1..durable'
<1>1. /\ durable <= durable' /\ call'[e] = call[e]
      /\ Visible(e) \subseteq Visible(e)'
      /\ \A k \in Visible(e) : rows'[k] = rows[k]
  BY StepKeeps
<1>2. /\ Visible(e)' \subseteq 1..Len(rows') /\ Len(rows') \in Nat
      /\ durable \in Nat /\ durable' \in Nat
  BY DEF Visible, TypeOK
<1>3. CASE call[e].pc = "compared"
  <2>1. Prior(e, Len(rows) + 1)
    BY <1>3 DEF CallInv
  <2>2. Prior(e, Len(rows) + 1)'
    BY <1>1, <1>2, <2>1 DEF Prior
  <2>3. QED
    BY <1>1, <1>3, <2>2
<1>4. CASE call[e].pc \in {"inserted", "saved"}
  <2>1. /\ call[e].seq \in Visible(e) /\ rows[call[e].seq] = call[e].obs
        /\ Prior(e, call[e].seq)
        /\ call[e].pc = "saved" => call[e].seq \in 1..durable
    BY <1>4 DEF CallInv
  <2>2. Prior(e, call[e].seq)'
    BY <1>1, <1>2, <2>1 DEF Prior
  <2>3. QED
    BY <1>1, <1>2, <1>4, <2>1, <2>2
<1>5. QED
  BY <1>1, <1>3, <1>4

LEMMA CallStep == TypeOK /\ CallInv /\ [Next]_vars => CallInv'
<1> SUFFICES ASSUME TypeOK, CallInv, [Next]_vars PROVE CallInv'
  OBVIOUS
<1> TypeOK'
  BY TypeStep
<1>1. ASSUME NEW d \in Detectors,
             \/ Sign(d) \/ Report(d) \/ Locked(d) \/ CommitFails(d) \/ Die(d)
      PROVE  CallInv'
  <2>1. call'[d].pc \in {"idle", "signed"}
    BY <1>1 DEF Sign, Report, Locked, CommitFails, Die, Raises, Idle, TypeOK
  <2>2. QED
    BY <1>1, <2>1, OthersKnow DEF CallInv
<1>2. ASSUME NEW d \in Detectors, Compare(d) PROVE CallInv'
  <2>1. /\ call'[d].pc = "compared" /\ call'[d].obs = call[d].obs
        /\ call'[d].prior = Latest(d, call[d].obs.url_canonical)
        /\ rows' = rows /\ Visible(d)' = Visible(d)
    BY <1>2 DEF Compare, Visible, TypeOK
  <2>2. Visible(d) \subseteq 1..Len(rows) /\ Len(rows) \in Nat
    BY DEF Visible, TypeOK
  <2>3. Prior(d, Len(rows) + 1)'
    BY <2>1, <2>2, LatestSeen DEF Prior, Observed
  <2>4. QED
    BY <1>2, <2>1, <2>3, OthersKnow DEF CallInv
<1>3. ASSUME NEW d \in Detectors, Insert(d) PROVE CallInv'
  <2>1. /\ call'[d].pc = "inserted" /\ call'[d].obs = call[d].obs
        /\ call'[d].prior = call[d].prior /\ call'[d].seq = Len(rows) + 1
        /\ rows' = Append(rows, call[d].obs) /\ writer' = d /\ call[d].obs \in Observation
    BY <1>3, CallShape DEF Insert, TypeOK
  <2>2. /\ Len(rows') = Len(rows) + 1 /\ Len(rows) \in Nat
        /\ \A k \in 1..Len(rows) : rows'[k] = rows[k]
        /\ rows'[Len(rows) + 1] = call[d].obs
    BY <2>1, AppendOne DEF TypeOK
  <2>3. Visible(d)' = 1..Len(rows') /\ Visible(d) \subseteq 1..Len(rows)
    BY <2>1, <2>2 DEF Visible, TypeOK
  <2>4. Prior(d, Len(rows) + 1)
    BY <1>3 DEF CallInv, Insert
  <2>5. Prior(d, call[d].seq)'
    BY <2>1, <2>2, <2>3, <2>4 DEF Prior
  <2>6. /\ call'[d].seq \in Visible(d)' /\ rows'[call'[d].seq] = call'[d].obs
        /\ call'[d].pc \notin {"compared", "saved"}
    BY <2>1, <2>2, <2>3
  <2>7. QED
    BY <1>3, <2>5, <2>6, OthersKnow DEF CallInv
<1>4. ASSUME NEW d \in Detectors, Commit(d) PROVE CallInv'
  <2>1. /\ call'[d].pc = "saved" /\ call'[d].obs = call[d].obs
        /\ call'[d].prior = call[d].prior /\ call'[d].seq = call[d].seq
        /\ rows' = rows /\ durable' = Len(rows) /\ writer = d
    BY <1>4, CallShape DEF Commit, TypeOK
  <2>2. Visible(d) = 1..Len(rows) /\ Visible(d)' = 1..Len(rows)
    BY <2>1 DEF Visible
  <2>3. /\ call[d].seq \in Visible(d) /\ rows[call[d].seq] = call[d].obs
        /\ Prior(d, call[d].seq)
    BY <1>4 DEF CallInv, Commit
  <2>4. Prior(d, call[d].seq)'
    BY <2>1, <2>2, <2>3 DEF Prior
  <2>5. QED
    BY <1>4, <2>1, <2>2, <2>3, <2>4, OthersKnow DEF CallInv
<1>5. CASE UNCHANGED vars
  BY <1>5 DEF vars, CallInv, Prior, Visible
<1>6. QED
  BY <1>1, <1>2, <1>3, <1>4, <1>5 DEF Next

\* What the report that detect is about to return says.
LEMMA SavedReport ==
    ASSUME TypeOK, CallInv, NEW d \in Detectors, call[d].pc = "saved"
    PROVE  LET c == call[d] IN
           /\ Row(c.seq) /\ rows[c.seq] = c.obs
           /\ c.prior # 0 => /\ Row(c.prior) /\ c.prior < c.seq
                             /\ rows[c.prior].url_canonical = c.obs.url_canonical
<1>1. /\ call[d].seq \in 1..durable /\ rows[call[d].seq] = call[d].obs
      /\ Prior(d, call[d].seq)
  BY DEF CallInv
<1>2. Visible(d) \subseteq 1..Len(rows) /\ Len(rows) \in Nat /\ durable \in Nat
  BY DEF Visible, TypeOK
<1>3. QED
  BY <1>1, <1>2 DEF Prior, Row

LEMMA EvidenceStep == EvidenceInv /\ [Next]_vars => EvidenceInv'
<1> SUFFICES ASSUME TypeOK, CallInv, ReportsEvidenced, [Next]_vars
             PROVE  ReportsEvidenced'
  BY TypeStep, CallStep DEF EvidenceInv
<1> DEFINE Backed(r) ==
      /\ Row(r.after)
      /\ IF r.before = 0 THEN r.level = "first_observation"
         ELSE /\ Row(r.before) /\ r.before < r.after
              /\ rows[r.before].url_canonical = rows[r.after].url_canonical
              /\ r.level = Level(rows[r.before].content, rows[r.after].content)
<1>1. \A k \in 1..durable : k \in 1..durable' /\ rows'[k] = rows[k]
  <2>1. durable \in Nat /\ durable' \in Nat
    BY TypeStep DEF TypeOK
  <2>2. CASE UNCHANGED vars
    BY <2>2 DEF vars
  <2>3. CASE Next
    BY <2>1, <2>3, StepKeeps DEF Next
  <2>4. QED
    BY <2>2, <2>3
<1>2. ASSUME NEW r \in reports PROVE Backed(r)'
  <2>1. Backed(r)
    BY DEF ReportsEvidenced
  <2>2. QED
    BY <1>1, <2>1 DEF Row
<1>3. ASSUME NEW d \in Detectors, Report(d) PROVE ReportsEvidenced'
  <2>1. call[d].pc = "saved" /\ reports' = reports \cup {ReportOf(call[d])}
    BY <1>3 DEF Report
  <2>2. Backed(ReportOf(call[d]))
    BY <2>1, SavedReport DEF ReportOf
  <2>3. UNCHANGED <<rows, durable>>
    BY <1>3 DEF Report
  <2>4. QED
    BY <1>2, <2>1, <2>2, <2>3 DEF ReportsEvidenced, Row
<1>4. CASE UNCHANGED reports
  BY <1>2, <1>4 DEF ReportsEvidenced
<1>5. QED
  BY <1>3, <1>4 DEF Next, Sign, Compare, Insert, Commit, Locked, CommitFails, Die, vars

THEOREM EvidenceCorrect == Spec => []EvidenceInv
<1>1. Init => EvidenceInv
  BY FeedsAssumption DEF Init, EvidenceInv, TypeOK, CallInv, ReportsEvidenced, Call, Idle
<1>2. QED
  BY <1>1, EvidenceStep, PTL DEF Spec

\* Every report that detect returned is backed by two observations of its page that are
\* in the table for good, in order, and its level is the one of these two
\* (ChangeDetector.detect).
THEOREM EvidencedCorrect == Spec => []ReportsEvidenced
<1>1. EvidenceInv => ReportsEvidenced
  BY DEF EvidenceInv
<1>2. QED
  BY <1>1, EvidenceCorrect, PTL

-----------------------------------------------------------------------------
(* A page that one detector alone watches: nobody else inserts a row of it. *)

\* What runs and rows hold was given to the detector that made them.
FeedInv ==
    /\ \A d \in Detectors : call[d] # Idle => call[d].obs \in feed[d]
    /\ \A k \in 1..Len(rows) : k > durable => rows[k] \in feed[writer]

LEMMA FeedStep ==
    ASSUME TypeOK, FeedInv, [Next]_vars
    PROVE  FeedInv' /\ feed' = feed
<1>0. Len(rows) \in Nat /\ durable \in 0..Len(rows)
  BY DEF TypeOK
<1>1. feed' = feed
  BY DEF Next, Sign, Compare, Insert, Commit, Report, Locked, CommitFails, Die, vars
<1>2. ASSUME NEW d \in Detectors, NEW c, call' = [call EXCEPT ![d] = c],
             c = Idle \/ c.obs \in feed[d]
      PROVE  \A e \in Detectors : call'[e] # Idle => call'[e].obs \in feed'[e]
  BY <1>1, <1>2 DEF FeedInv, TypeOK
<1>3. ASSUME UNCHANGED <<rows, durable, writer>>
      PROVE  \A k \in 1..Len(rows') : k > durable' => rows'[k] \in feed'[writer']
  BY <1>1, <1>3 DEF FeedInv
<1>4. ASSUME Rollback, durable' = durable
      PROVE  \A k \in 1..Len(rows') : k > durable' => rows'[k] \in feed'[writer']
  <2>1. Len(rows') = durable
    BY <1>4, Shortened DEF Rollback, TypeOK
  <2>2. QED
    BY <1>0, <1>4, <2>1
<1>5. ASSUME NEW d \in Detectors, Sign(d) PROVE FeedInv'
  <2>1. PICK obs \in feed[d] : call' = [call EXCEPT ![d] = [pc |-> "signed", obs |-> obs]]
    BY <1>5 DEF Sign
  <2>2. QED
    BY <1>2, <1>3, <1>5, <2>1 DEF FeedInv, Sign
<1>6. ASSUME NEW d \in Detectors, Compare(d) PROVE FeedInv'
  <2>1. call[d].obs \in feed[d]
    BY <1>6 DEF Compare, FeedInv, Idle
  <2>2. QED
    BY <1>2, <1>3, <1>6, <2>1 DEF FeedInv, Compare
<1>7. ASSUME NEW d \in Detectors, Insert(d) PROVE FeedInv'
  <2>1. call[d].obs \in feed[d] /\ call[d].obs \in Observation
    BY <1>7, CallShape DEF Insert, FeedInv, Idle
  <2>2. /\ Len(rows') = Len(rows) + 1 /\ rows'[Len(rows) + 1] = call[d].obs
        /\ \A k \in 1..Len(rows) : rows'[k] = rows[k]
    BY <1>7, <2>1, AppendOne DEF Insert, TypeOK
  <2>3. /\ durable' = durable /\ writer' = d
        /\ writer = d \/ durable = Len(rows)
    BY <1>7 DEF Insert, TypeOK
  <2>4. \A k \in 1..Len(rows') : k > durable' => rows'[k] \in feed'[writer']
    <3>1. SUFFICES ASSUME NEW k \in 1..Len(rows'), k > durable
                   PROVE  rows'[k] \in feed[d]
      BY <1>1, <2>3
    <3>2. CASE k = Len(rows) + 1
      BY <2>1, <2>2, <3>2
    <3>3. CASE k \in 1..Len(rows)
      BY <1>0, <2>2, <2>3, <3>1, <3>3 DEF FeedInv
    <3>4. QED
      BY <1>0, <2>2, <3>2, <3>3
  <2>5. QED
    BY <1>2, <1>7, <2>1, <2>4 DEF FeedInv, Insert
<1>8. ASSUME NEW d \in Detectors, Commit(d) PROVE FeedInv'
  <2>1. call'[d].obs = call[d].obs /\ call[d].obs \in feed[d]
    BY <1>8, CallShape DEF Commit, FeedInv, Idle, TypeOK
  <2>2. \A e \in Detectors \ {d} : call'[e] = call[e]
    BY <1>8, StepKeeps
  <2>3. rows' = rows /\ durable' = Len(rows)
    BY <1>8 DEF Commit
  <2>4. \A e \in Detectors : call'[e] # Idle => call'[e].obs \in feed'[e]
    BY <1>1, <2>1, <2>2 DEF FeedInv
  <2>5. \A k \in 1..Len(rows') : ~ (k > durable')
    BY <1>0, <2>3
  <2>6. QED
    BY <2>4, <2>5 DEF FeedInv
<1>9. ASSUME NEW d \in Detectors, Report(d) PROVE FeedInv'
  BY <1>2, <1>3, <1>9 DEF FeedInv, Report
<1>10. ASSUME NEW d \in Detectors, Locked(d) \/ CommitFails(d) \/ Die(d) PROVE FeedInv'
  <2>1. call' = [call EXCEPT ![d] = Idle] /\ durable' = durable
    BY <1>10 DEF Locked, CommitFails, Die, Raises
  <2>2. Rollback \/ UNCHANGED <<rows, durable, writer>>
    BY <1>10 DEF Locked, CommitFails, Die
  <2>3. QED
    BY <1>2, <1>3, <1>4, <2>1, <2>2 DEF FeedInv
<1>11. CASE UNCHANGED vars
  BY <1>11 DEF vars, FeedInv
<1>12. QED
  BY <1>1, <1>5, <1>6, <1>7, <1>8, <1>9, <1>10, <1>11 DEF Next

\* No row of the page lies between the prior and row n.
Adjacent(d, n) == \A k \in 1..Len(rows) :
    call[d].prior < k /\ k < n => rows[k].url_canonical # call[d].obs.url_canonical

\* What a run on such a page knows of the rows and of the reports.
Knows(d) ==
    /\ call[d].pc = "compared" => Adjacent(d, Len(rows) + 1)
    /\ call[d].pc \in {"inserted", "saved"} =>
          /\ Adjacent(d, call[d].seq)
          /\ \A r \in reports :
                rows[r.after].url_canonical = call[d].obs.url_canonical => r.after < call[d].seq

OrderInv == \A d \in Detectors :
    call[d] # Idle /\ WatchedAlone(call[d].obs.url_canonical) => Knows(d)

BaselineInv == EvidenceInv /\ FeedInv /\ OrderInv /\ BaselineIsLatest

\* Two runs on one such page are one.
LEMMA OthersElsewhere ==
    ASSUME FeedInv, NEW d \in Detectors, NEW e \in Detectors \ {d}, call[d] # Idle, call[e] # Idle,
           WatchedAlone(call[e].obs.url_canonical)
    PROVE  call[d].obs.url_canonical # call[e].obs.url_canonical
BY DEF FeedInv, WatchedAlone, Watches

\* A step of d takes nothing from what another run knows.
LEMMA OthersKeepOrder ==
    ASSUME EvidenceInv, FeedInv, OrderInv, NEW d \in Detectors,
           \/ Sign(d) \/ Compare(d) \/ Insert(d) \/ Commit(d) \/ Report(d)
           \/ Locked(d) \/ CommitFails(d) \/ Die(d),
           NEW e \in Detectors \ {d}, call[e] # Idle, WatchedAlone(call[e].obs.url_canonical)
    PROVE  Knows(e)'
<1> TypeOK /\ CallInv /\ ReportsEvidenced
  BY DEF EvidenceInv
<1> DEFINE page == call[e].obs.url_canonical
<1>0. Len(rows) \in Nat /\ durable \in 0..Len(rows) /\ rows \in Seq(Observation)
  BY DEF TypeOK
<1>1. /\ call'[e] = call[e] /\ Knows(e)
      /\ \A k \in 1..durable : rows'[k] = rows[k]
  BY StepKeeps DEF OrderInv
<1>2. \A r \in reports : r.after \in 1..durable /\ rows'[r.after] = rows[r.after]
  BY <1>1 DEF ReportsEvidenced, Row
\* A row after the step is one of before, or of another page.
<1>3. /\ Len(rows') \in Nat
      /\ \A k \in 1..Len(rows') :
            \/ k \in 1..Len(rows) /\ rows'[k] = rows[k]
            \/ rows'[k].url_canonical # page
  <2>1. CASE Insert(d)
    <3>1. /\ call[d].obs \in Observation /\ call[d] # Idle
      BY <2>1, CallShape DEF Insert, Idle
    <3>2. /\ Len(rows') = Len(rows) + 1 /\ rows'[Len(rows) + 1] = call[d].obs
          /\ \A k \in 1..Len(rows) : rows'[k] = rows[k]
      BY <1>0, <2>1, <3>1, AppendOne DEF Insert
    <3>3. call[d].obs.url_canonical # page
      BY <3>1, OthersElsewhere
    <3>4. QED
      BY <1>0, <3>2, <3>3
  <2>2. CASE Rollback
    <3>1. Len(rows') = durable
      BY <1>0, <2>2, Shortened DEF Rollback
    <3>2. QED
      BY <1>0, <1>1, <3>1
  <2>3. CASE rows' = rows
    BY <1>0, <2>3
  <2>4. QED
    BY <2>1, <2>2, <2>3 DEF Sign, Compare, Commit, Report, Locked, CommitFails, Die
<1>4. ASSUME NEW n, NEW m, Adjacent(e, n), \A k \in 1..Len(rows) : k < m => k < n
      PROVE  Adjacent(e, m)'
  BY <1>1, <1>3, <1>4 DEF Adjacent
<1>5. Adjacent(e, Len(rows) + 1) => Adjacent(e, Len(rows) + 1)'
  <2>1. SUFFICES ASSUME Adjacent(e, Len(rows) + 1), NEW k \in 1..Len(rows'),
                        call[e].prior < k, k < Len(rows') + 1
                 PROVE  rows'[k].url_canonical # page
    BY <1>1 DEF Adjacent
  <2>2. CASE k \in 1..Len(rows) /\ rows'[k] = rows[k]
    <3>1. k < Len(rows) + 1
      BY <1>0, <2>2
    <3>2. QED
      BY <2>1, <2>2, <3>1 DEF Adjacent
  <2>3. QED
    BY <1>3, <2>2
<1>6. ASSUME call[e].pc \in {"inserted", "saved"}, NEW r \in reports',
             rows'[r.after].url_canonical = page
      PROVE  r.after < call[e].seq
  <2>1. CASE r \in reports
    BY <1>1, <1>2, <1>6, <2>1 DEF Knows
  <2>2. CASE r \notin reports
    <3>1. Report(d) /\ r = ReportOf(call[d])
      BY <2>2 DEF Sign, Compare, Insert, Commit, Report, Locked, CommitFails, Die
    <3>2. call[d].pc = "saved" /\ rows' = rows /\ r.after = call[d].seq /\ call[d] # Idle
      BY <3>1 DEF Report, ReportOf, Idle
    <3>3. rows[call[d].seq] = call[d].obs
      BY <3>2, SavedReport
    <3>4. QED
      BY <1>6, <3>2, <3>3, OthersElsewhere
  <2>3. QED
    BY <2>1, <2>2
<1>7. QED
  BY <1>1, <1>4, <1>5, <1>6 DEF Knows

LEMMA OrderStep ==
    ASSUME EvidenceInv, FeedInv, OrderInv, [Next]_vars
    PROVE  OrderInv'
<1> TypeOK /\ CallInv /\ ReportsEvidenced
  BY DEF EvidenceInv
<1>0. Len(rows) \in Nat /\ durable \in 0..Len(rows)
  BY DEF TypeOK
<1>1. \A url : WatchedAlone(url)' <=> WatchedAlone(url)
  BY FeedStep DEF WatchedAlone, Watches
\* It is enough to look at the run that moves.
<1>2. ASSUME NEW d \in Detectors,
             \/ Sign(d) \/ Compare(d) \/ Insert(d) \/ Commit(d) \/ Report(d)
             \/ Locked(d) \/ CommitFails(d) \/ Die(d),
             call'[d] # Idle /\ WatchedAlone(call'[d].obs.url_canonical) => Knows(d)'
      PROVE  OrderInv'
  <2>1. \A e \in Detectors \ {d} : call'[e] = call[e]
    BY <1>2, StepKeeps
  <2>2. \A e \in Detectors \ {d} :
            call[e] # Idle /\ WatchedAlone(call[e].obs.url_canonical) => Knows(e)'
    BY <1>2, OthersKeepOrder
  <2>3. QED
    BY <1>1, <1>2, <2>1, <2>2 DEF OrderInv
<1>3. ASSUME NEW d \in Detectors,
             \/ Sign(d) \/ Report(d) \/ Locked(d) \/ CommitFails(d) \/ Die(d)
      PROVE  OrderInv'
  <2>1. call'[d].pc \in {"idle", "signed"}
    BY <1>3 DEF Sign, Report, Locked, CommitFails, Die, Raises, Idle, TypeOK
  <2>2. Knows(d)'
    BY <2>1 DEF Knows
  <2>3. QED
    BY <1>2, <1>3, <2>2
<1>4. ASSUME NEW d \in Detectors, Compare(d) PROVE OrderInv'
  <2>1. /\ call'[d].pc = "compared" /\ call'[d].obs = call[d].obs /\ call[d] # Idle
        /\ call'[d].prior = Latest(d, call[d].obs.url_canonical) /\ rows' = rows
    BY <1>4 DEF Compare, TypeOK, Idle
  <2>2. SUFFICES ASSUME WatchedAlone(call[d].obs.url_canonical) PROVE Knows(d)'
    BY <1>2, <1>4, <2>1
  <2>3. \A k \in 1..Len(rows) : rows[k].url_canonical = call[d].obs.url_canonical =>
            k \in Visible(d)
    <3>1. SUFFICES ASSUME NEW k \in 1..Len(rows), k > durable,
                          rows[k].url_canonical = call[d].obs.url_canonical
                   PROVE  writer = d
      BY <1>0 DEF Visible
    <3>2. rows[k] \in feed[writer] /\ writer \in Detectors
      BY <1>0, <3>1 DEF FeedInv, TypeOK
    <3>3. call[d].obs \in feed[d]
      BY <2>1 DEF FeedInv
    <3>4. QED
      BY <2>2, <3>1, <3>2, <3>3 DEF WatchedAlone, Watches
  <2>4. \A k \in 1..Len(rows) : rows[k].url_canonical = call[d].obs.url_canonical =>
            k <= Latest(d, call[d].obs.url_canonical)
    BY <2>3, LatestSeen DEF Observed
  <2>5. Latest(d, call[d].obs.url_canonical) \in Nat
    BY LatestSeen
  <2>6. Adjacent(d, Len(rows) + 1)'
    BY <1>0, <2>1, <2>4, <2>5 DEF Adjacent
  <2>7. QED
    BY <2>1, <2>6 DEF Knows
<1>5. ASSUME NEW d \in Detectors, Insert(d) PROVE OrderInv'
  <2>1. /\ call'[d].pc = "inserted" /\ call'[d].obs = call[d].obs /\ call[d] # Idle
        /\ call'[d].prior = call[d].prior /\ call'[d].seq = Len(rows) + 1
        /\ rows' = Append(rows, call[d].obs) /\ call[d].obs \in Observation
        /\ reports' = reports
    BY <1>5, CallShape DEF Insert, TypeOK, Idle
  <2>2. SUFFICES ASSUME WatchedAlone(call[d].obs.url_canonical) PROVE Knows(d)'
    BY <1>2, <1>5, <2>1
  <2>3. /\ Len(rows') = Len(rows) + 1
        /\ \A k \in 1..Len(rows) : rows'[k] = rows[k]
    BY <2>1, AppendOne DEF TypeOK
  <2>4. Adjacent(d, Len(rows) + 1)
    BY <1>5, <2>1, <2>2 DEF OrderInv, Knows, Insert
  <2>5. Adjacent(d, call[d].seq)'
    BY <1>0, <2>1, <2>3, <2>4 DEF Adjacent
  <2>6. \A r \in reports : r.after \in 1..durable
    BY DEF ReportsEvidenced, Row
  <2>7. \A r \in reports' : r.after < call'[d].seq
    BY <1>0, <2>1, <2>6
  <2>8. QED
    BY <2>1, <2>5, <2>7 DEF Knows
<1>6. ASSUME NEW d \in Detectors, Commit(d) PROVE OrderInv'
  <2>1. /\ call'[d].pc = "saved" /\ call'[d].obs = call[d].obs
        /\ call'[d].prior = call[d].prior /\ call'[d].seq = call[d].seq
        /\ rows' = rows /\ reports' = reports /\ call[d].pc = "inserted" /\ call[d] # Idle
    BY <1>6, CallShape DEF Commit, TypeOK, Idle
  <2>2. SUFFICES ASSUME WatchedAlone(call[d].obs.url_canonical) PROVE Knows(d)'
    BY <1>2, <1>6, <2>1
  <2>3. Knows(d)
    BY <2>1, <2>2 DEF OrderInv
  <2>4. QED
    BY <2>1, <2>3 DEF Knows, Adjacent
<1>7. CASE UNCHANGED vars
  BY <1>1, <1>7 DEF vars, OrderInv, Knows, Adjacent
<1>8. QED
  BY <1>3, <1>4, <1>5, <1>6, <1>7 DEF Next

LEMMA BaselineStep ==
    ASSUME BaselineInv, [Next]_vars
    PROVE  BaselineInv'
<1> TypeOK /\ CallInv /\ ReportsEvidenced /\ FeedInv /\ OrderInv /\ BaselineIsLatest
  BY DEF BaselineInv, EvidenceInv
<1>1. EvidenceInv' /\ FeedInv' /\ OrderInv'
  BY EvidenceStep, FeedStep, OrderStep DEF BaselineInv
<1>2. /\ \A k \in 1..durable : rows'[k] = rows[k]
      /\ \A url : WatchedAlone(url)' <=> WatchedAlone(url)
  <2>1. CASE UNCHANGED vars
    BY <2>1 DEF vars, WatchedAlone, Watches
  <2>2. CASE Next
    BY <2>2, StepKeeps, FeedStep DEF Next, WatchedAlone, Watches
  <2>3. QED
    BY <2>1, <2>2
<1>3. durable \in Nat /\ Len(rows) \in Nat /\ durable <= Len(rows)
  BY DEF TypeOK
<1>4. ASSUME NEW r \in reports, NEW k \in r.before + 1 .. r.after - 1, Row(k)', Row(r.after)',
             WatchedAlone(rows'[r.after].url_canonical)
      PROVE  rows'[k].url_canonical # rows'[r.after].url_canonical
  <2>1. Row(r.after) /\ r.before \in Nat /\ r.after \in Nat
    BY DEF ReportsEvidenced, TypeOK, ChangeReport
  <2>2. Row(k)
    BY <1>3, <1>4, <2>1 DEF Row
  <2>3. QED
    BY <1>2, <1>4, <2>1, <2>2 DEF BaselineIsLatest, Row
<1>5. ASSUME NEW d \in Detectors, Report(d), WatchedAlone(rows[call[d].seq].url_canonical),
             NEW k \in call[d].prior + 1 .. call[d].seq - 1, Row(k)
      PROVE  rows[k].url_canonical # rows[call[d].seq].url_canonical
  <2>1. /\ call[d].pc = "saved" /\ call[d].prior \in Nat /\ call[d].seq \in Nat
        /\ call[d] # Idle
    BY <1>5, CallShape DEF Report, Idle
  <2>2. rows[call[d].seq] = call[d].obs
    BY <2>1, SavedReport
  <2>3. Adjacent(d, call[d].seq)
    BY <1>5, <2>1, <2>2 DEF OrderInv, Knows
  <2>4. call[d].prior < k /\ k < call[d].seq /\ k \in 1..Len(rows)
    BY <1>3, <1>5, <2>1 DEF Row
  <2>5. QED
    BY <2>2, <2>3, <2>4 DEF Adjacent
<1>6. ASSUME NEW d \in Detectors, Report(d) PROVE BaselineIsLatest'
  <2>1. /\ reports' = reports \cup {ReportOf(call[d])}
        /\ rows' = rows /\ durable' = durable
    BY <1>6 DEF Report
  <2>2. ReportOf(call[d]).before = call[d].prior /\ ReportOf(call[d]).after = call[d].seq
    BY DEF ReportOf
  <2>3. QED
    BY <1>2, <1>4, <1>5, <1>6, <2>1, <2>2 DEF BaselineIsLatest, Row
<1>7. ASSUME UNCHANGED reports PROVE BaselineIsLatest'
  BY <1>2, <1>4, <1>7 DEF BaselineIsLatest
<1>8. (\E d \in Detectors : Report(d)) \/ UNCHANGED reports
  BY DEF Next, Sign, Compare, Insert, Commit, Locked, CommitFails, Die, vars
<1>9. BaselineIsLatest'
  BY <1>6, <1>7, <1>8
<1>10. QED
  BY <1>1, <1>9 DEF BaselineInv

THEOREM OrderCorrect == Spec => []BaselineInv
<1>1. Init => BaselineInv
  BY FeedsAssumption DEF Init, BaselineInv, EvidenceInv, TypeOK, CallInv, ReportsEvidenced,
         FeedInv, OrderInv, BaselineIsLatest, Call, Idle
<1>2. BaselineInv /\ [Next]_vars => BaselineInv'
  BY BaselineStep
<1>3. QED
  BY <1>1, <1>2, PTL DEF Spec

\* Of a page that one detector alone watches, a report compares an observation with the
\* last one before it, whatever the clocks said, whichever calls failed and whoever else
\* used the file (ChangeStore.latest).
THEOREM BaselineCorrect == Spec => []BaselineIsLatest
<1>1. BaselineInv => BaselineIsLatest
  BY DEF BaselineInv
<1>2. QED
  BY <1>1, OrderCorrect, PTL

-----------------------------------------------------------------------------
(* Signals. *)

Loud == {"material", "divergent"}

\* The differ is not silent about a signal, provided its threshold for numbers, 95, is
\* not above the one for cosmetic changes.
LEMMA SignalIsLoud ==
    ASSUME CosmeticThreshold >= 95, NEW a \in Contents, NEW b \in Contents,
           Signals(a) # Signals(b)
    PROVE  Level(a, b) \in Loud
<1>1. Ratio(a, b) \in 0..100
  BY ContentsAssumption DEF Ratio
<1>2. a # b
  OBVIOUS
<1>3. Ratio(a, b) >= CosmeticThreshold => Significant(a, b)
  BY <1>1, ThresholdAssumption DEF Signals, Significant
<1>4. QED
  BY <1>2, <1>3 DEF Level, Loud

\* The rows of i's page after i, up to j.
Between(i, j) == {k \in i + 1 .. j : rows[k].url_canonical = rows[i].url_canonical}

Told(i, j) == \E r \in reports : r.after \in Between(i, j) /\ r.level \in Loud

LEMMA ToldMeans ==
    SignalsTold <=> \A i, j \in 1 .. durable :
        /\ j \in Between(i, j) /\ WatchedAlone(rows[i].url_canonical)
        /\ Signals(rows[i].content) # Signals(rows[j].content)
        /\ \A k \in Between(i, j) : Returned(k)
        => Told(i, j)
BY DEF SignalsTold, Between, Told, Loud

SignalsInv == BaselineInv /\ SignalsTold

\* detect returns for row s: the rows after i were told of already, or s is the last of them.
LEMMA ReportTells ==
    ASSUME CosmeticThreshold >= 95, SignalsInv,
           NEW d \in Detectors, Report(d), NEW i \in 1..durable, NEW j \in 1..durable,
           WatchedAlone(rows[i].url_canonical),
           j \in Between(i, j), Signals(rows[i].content) # Signals(rows[j].content),
           \A k \in Between(i, j) : Returned(k)'
    PROVE  Told(i, j)'
<1> TypeOK /\ CallInv /\ ReportsEvidenced /\ OrderInv /\ BaselineIsLatest /\ SignalsTold
  BY DEF SignalsInv, BaselineInv, EvidenceInv
<1> DEFINE s == call[d].seq
           p == call[d].prior
<1>1. /\ reports' = reports \cup {ReportOf(call[d])} /\ rows' = rows /\ durable' = durable
      /\ call[d].pc = "saved"
  BY DEF Report
<1>2. s \in Nat /\ p \in Nat /\ durable \in Nat /\ durable <= Len(rows) /\ Len(rows) \in Nat
  BY <1>1, CallShape DEF TypeOK
<1>3. /\ ReportOf(call[d]).before = p /\ ReportOf(call[d]).after = s
      /\ ReportOf(call[d]).level = IF p = 0 THEN "first_observation"
                                   ELSE Level(rows[p].content, rows[s].content)
  BY DEF ReportOf
<1>4. \A k : Returned(k)' <=> Returned(k) \/ k = s
  BY <1>1, <1>3 DEF Returned
<1>5. Told(i, j) => Told(i, j)'
  BY <1>1 DEF Told, Between
<1>6. CASE \A k \in Between(i, j) : Returned(k)
  BY <1>5, <1>6, ToldMeans
<1>7. CASE \E k \in Between(i, j) : ~ Returned(k)
  <2>1. s \in Between(i, j)
    BY <1>4, <1>7
  <2>2. /\ rows[s] = call[d].obs
        /\ p # 0 => /\ Row(p) /\ p < s
                    /\ rows[p].url_canonical = call[d].obs.url_canonical
    BY <1>1, SavedReport
  <2>3. i < s /\ rows[i].url_canonical = call[d].obs.url_canonical
    BY <1>2, <2>1, <2>2 DEF Between
  <2>4. Knows(d)
    BY <1>1, <2>3 DEF OrderInv, Idle
  <2>5. j = s
    <3>1. /\ s <= j /\ (j = s \/ Returned(j))
          /\ rows[j].url_canonical = call[d].obs.url_canonical
      BY <1>4, <2>1, <2>3 DEF Between
    <3>2. Returned(j) => j < s
      BY <1>1, <2>4, <3>1 DEF Returned, Knows
    <3>3. QED
      BY <1>2, <3>1, <3>2
  <2>6. i <= p
    <3>1. Adjacent(d, s)
      BY <1>1, <2>4 DEF Knows
    <3>2. ~ (p < i)
      BY <1>2, <2>3, <3>1 DEF Adjacent
    <3>3. QED
      BY <1>2, <3>2
  <2>7. p # 0 /\ Row(p) /\ p < s /\ rows[p].url_canonical = rows[i].url_canonical
    BY <2>2, <2>3, <2>6
  <2>8. CASE Signals(rows[p].content) # Signals(rows[s].content)
    <3>1. rows[p].content \in Contents /\ rows[s].content \in Contents
      <4>1. rows[p] \in Observation /\ rows[s] \in Observation
        BY <1>2, <2>5, <2>7 DEF TypeOK, Row
      <4>2. QED
        BY <4>1 DEF Observation
    <3>2. ReportOf(call[d]).level \in Loud
      BY <1>3, <2>7, <2>8, <3>1, SignalIsLoud
    <3>3. QED
      BY <1>1, <1>3, <2>1, <3>2 DEF Told, Between
  <2>9. CASE Signals(rows[p].content) = Signals(rows[s].content)
    <3>1. p # i /\ Signals(rows[i].content) # Signals(rows[p].content)
      BY <2>5, <2>9
    <3>2. p \in Between(i, p)
      BY <1>2, <2>6, <2>7, <3>1 DEF Between, Row
    <3>3. \A k \in Between(i, p) : k \in Between(i, j) /\ k # s
      BY <1>2, <2>5, <2>7 DEF Between
    <3>4. \A k \in Between(i, p) : Returned(k)
      BY <1>4, <3>3
    <3>5. Told(i, p)
      BY <2>7, <3>1, <3>2, <3>4, ToldMeans DEF Row
    <3>6. QED
      BY <1>5, <3>3, <3>5 DEF Told
  <2>10. QED
    BY <2>8, <2>9
<1>8. QED
  BY <1>6, <1>7

LEMMA SignalsStep ==
    ASSUME CosmeticThreshold >= 95, SignalsInv, [Next]_vars
    PROVE  SignalsInv'
<1> TypeOK /\ ReportsEvidenced /\ BaselineInv /\ SignalsTold
  BY DEF SignalsInv, BaselineInv, EvidenceInv
<1>1. BaselineInv'
  BY BaselineStep
<1>2. /\ \A k \in 1..durable : rows'[k] = rows[k]
      /\ durable \in Nat /\ durable' \in Nat /\ durable <= durable'
  <2>1. TypeOK'
    BY TypeStep
  <2>2. CASE UNCHANGED vars
    BY <2>1, <2>2 DEF vars, TypeOK
  <2>3. CASE Next
    BY <2>1, <2>3, StepKeeps DEF Next, TypeOK
  <2>4. QED
    BY <2>2, <2>3
<1>0. \A url : WatchedAlone(url)' <=> WatchedAlone(url)
  BY FeedStep DEF BaselineInv, WatchedAlone, Watches
<1>3. ASSUME NEW d \in Detectors, Report(d) PROVE SignalsTold'
  <2>1. rows' = rows /\ durable' = durable
    BY <1>3 DEF Report
  <2>2. \A i, j \in 1..durable :
            /\ j \in Between(i, j) /\ WatchedAlone(rows[i].url_canonical)
            /\ Signals(rows[i].content) # Signals(rows[j].content)
            /\ \A k \in Between(i, j) : Returned(k)'
            => Told(i, j)'
    BY <1>3, ReportTells
  <2>3. QED
    BY <1>0, <2>1, <2>2 DEF SignalsTold, Between, Told, Loud
<1>4. ASSUME UNCHANGED reports PROVE SignalsTold'
  <2>1. SUFFICES ASSUME NEW i \in 1..durable', NEW j \in 1..durable',
                        j \in Between(i, j)', WatchedAlone(rows'[i].url_canonical),
                        (Signals(rows[i].content) # Signals(rows[j].content))',
                        \A k \in Between(i, j)' : Returned(k)'
                 PROVE  Told(i, j)'
    BY <1>0 DEF SignalsTold, Between, Told, Loud
  <2>2. \A k : Returned(k)' => k \in 1..durable
    BY <1>4 DEF Returned, ReportsEvidenced, Row
  <2>3. i < j /\ j \in 1..durable /\ i \in 1..durable
    BY <1>2, <2>1, <2>2 DEF Between
  <2>4. Between(i, j)' = Between(i, j)
    BY <1>2, <2>3 DEF Between
  <2>5. Told(i, j)
    BY <1>2, <1>4, <2>1, <2>3, <2>4, ToldMeans DEF Returned
  <2>6. QED
    BY <1>4, <2>4, <2>5 DEF Told
<1>5. (\E d \in Detectors : Report(d)) \/ UNCHANGED reports
  BY DEF Next, Sign, Compare, Insert, Commit, Locked, CommitFails, Die, vars
<1>6. QED
  BY <1>1, <1>3, <1>4, <1>5 DEF SignalsInv

\* A changed price, stock word or number of a page that one detector alone watches cannot
\* hide in a series of small edits: if detect returned for every observation, one of the
\* reports was loud, whoever else used the file (SpectrumDiffer.diff, ChangeDetector.detect).
THEOREM SignalsCorrect ==
    ASSUME CosmeticThreshold >= 95
    PROVE  Spec => []SignalsTold
<1>1. Init => SignalsInv
  BY FeedsAssumption DEF Init, SignalsInv, SignalsTold, BaselineInv, EvidenceInv, TypeOK,
         CallInv, ReportsEvidenced, FeedInv, OrderInv, BaselineIsLatest, Call, Idle
<1>2. SignalsInv /\ [Next]_vars => SignalsInv'
  BY SignalsStep
<1>3. SignalsInv => SignalsTold
  BY DEF SignalsInv
<1>4. QED
  BY <1>1, <1>2, <1>3, PTL DEF Spec
=============================================================================
