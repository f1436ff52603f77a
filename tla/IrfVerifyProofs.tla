-------------------------- MODULE IrfVerifyProofs --------------------------
(***************************************************************************)
(* Proofs about IrfVerify, for any keys, algorithms, calls and limit on    *)
(* the signers.                                                            *)
(***************************************************************************)
EXTENDS IrfVerify, FiniteSetTheorems, SequenceTheorems, WellFoundedInduction, TLAPS

LEMMA LessIsWellFounded == IsWellFoundedOn({p \in Nat \X Nat : p[1] < p[2]}, Nat)
<1>1. OpToRel(<, Nat) = {p \in Nat \X Nat : p[1] < p[2]}
  BY Zenon DEF OpToRel
<1>2. QED
  BY <1>1, NatLessThanWellFounded, Zenon

\* A set of natural numbers has a least element.
LEMMA LeastOf ==
    ASSUME NEW S, S \subseteq Nat, S # {}
    PROVE  \E x \in S : \A y \in S : x <= y
<1> DEFINE R == {p \in Nat \X Nat : p[1] < p[2]}
<1>1. IsWellFoundedOn(R, Nat)
  BY LessIsWellFounded
<1>2. \A x, y \in Nat : <<y, x>> \in R <=> y < x
  OBVIOUS
<1> HIDE DEF R
<1>3. PICK x \in S : \A y \in S : ~ (<<y, x>> \in R)
  BY <1>1, WFMin
<1>4. \A y \in S : x <= y
  <2> TAKE y \in S
  <2>1. x \in Nat /\ y \in Nat
    OBVIOUS
  <2>2. ~ (y < x)
    BY <1>2, <1>3, <2>1
  <2>3. QED
    BY <2>1, <2>2
<1>5. QED
  BY <1>4

Distinct(seq) == \A i, j \in DOMAIN seq : seq[i] = seq[j] => i = j

\* push-unless-contained adds its element and keeps a list free of duplicates.
LEMMA PushNewFacts ==
    ASSUME NEW S, NEW seq \in Seq(S), NEW x \in S, Distinct(seq)
    PROVE  /\ PushNew(seq, x) \in Seq(S)
           /\ Distinct(PushNew(seq, x))
           /\ Elements(PushNew(seq, x)) = Elements(seq) \cup {x}
  <1>1. CASE x \in Elements(seq)
    BY <1>1 DEF PushNew
  <1>2. CASE x \notin Elements(seq)
    <2> DEFINE longer == Append(seq, x)
    <2>1. PushNew(seq, x) = longer
      BY <1>2 DEF PushNew
    <2>2. longer \in Seq(S) /\ Len(longer) = Len(seq) + 1 /\ DOMAIN longer = 1..(Len(seq) + 1)
          /\ longer[Len(seq) + 1] = x /\ \A i \in 1..Len(seq) : longer[i] = seq[i]
      BY AppendProperties
    <2>3. DOMAIN seq = 1..Len(seq) /\ Len(seq) \in Nat
      OBVIOUS
    <2>4. Elements(longer) = Elements(seq) \cup {x}
      BY <2>2, <2>3 DEF Elements
    <2>5. Distinct(longer)
      BY <1>2, <2>2, <2>3 DEF Distinct, Elements
    <2> QED
      BY <2>1, <2>2, <2>4, <2>5
  <1> QED
    BY <1>1, <1>2

\* A list without duplicates is as long as the set of its elements is large.
LEMMA DistinctLength ==
    ASSUME NEW S, NEW seq \in Seq(S), Distinct(seq)
    PROVE  IsFiniteSet(Elements(seq)) /\ Cardinality(Elements(seq)) = Len(seq)
  <1> DEFINE n == Len(seq)
  <1>1. n \in Nat /\ DOMAIN seq = 1..n
    OBVIOUS
  <1>2. seq \in Bijection(1..n, Elements(seq))
    <2>1. seq \in [1..n -> Elements(seq)]
      BY <1>1 DEF Elements
    <2>2. seq \in Injection(1..n, Elements(seq))
      BY <1>1, <2>1 DEF Injection, IsInjective, Distinct
    <2>3. seq \in Surjection(1..n, Elements(seq))
      BY <1>1, <2>1 DEF Surjection, Elements
    <2> QED
      BY <2>2, <2>3 DEF Bijection
  <1>3. IsFiniteSet(1..n) /\ Cardinality(1..n) = n
    BY <1>1, FS_Interval
  <1>4. ExistsBijection(1..n, Elements(seq))
    BY <1>2 DEF ExistsBijection
  <1> QED
    BY <1>3, <1>4, FS_Bijection

-----------------------------------------------------------------------------
\* The parts of a call have their types.
LEMMA CallParts ==
    ASSUME call \in Call
    PROVE  /\ signers \in Seq(Signer) /\ DOMAIN signers = 1..Len(signers) /\ Len(signers) \in Nat
           /\ \A i \in DOMAIN signers : signers[i] \in Signer
           /\ call.policy.required \subseteq Algs
           /\ call.trust.trusted_witnesses \subseteq Kids
           /\ call.trust.min_witnesses \in Nat
           /\ call.envelope \in Envelope
  <1>1. call.envelope \in Envelope /\ call.policy \in SignaturePolicy /\ call.trust \in TrustPolicy
    BY DEF Call
  <1>2. signers \in Seq(Signer) /\ DOMAIN signers = 1..Len(signers) /\ Len(signers) \in Nat
        /\ \A i \in DOMAIN signers : signers[i] \in Signer
    BY <1>1 DEF Envelope, signers
  <1>3. call.policy.required \subseteq Algs
    BY <1>1 DEF SignaturePolicy
  <1>4. call.trust.trusted_witnesses \subseteq Kids /\ call.trust.min_witnesses \in Nat
    BY <1>1 DEF TrustPolicy
  <1> QED
    BY <1>1, <1>2, <1>3, <1>4

\* A policy is refused for what it is.
LEMMA PolicyGround ==
    ASSUME call \in Call, PolicyFault(call.policy) # "Ok"
    PROVE  PolicyFault(call.policy) \in Reasons /\ Grounds(PolicyFault(call.policy))
  <1>1. CASE call.policy.required = {}
    <2>1. PolicyFault(call.policy) = "EmptySignerSet"
      BY <1>1 DEF PolicyFault
    <2> QED
      BY <1>1, <2>1 DEF Grounds, Reasons
  <1>2. CASE call.policy.required # {} /\ ~(call.policy.required \subseteq KNOWN)
    <2>1. PolicyFault(call.policy) = "UnknownAlgorithm"
      BY <1>2 DEF PolicyFault
    <2> QED
      BY <1>2, <2>1 DEF Grounds, Reasons
  <1> QED
    BY <1>1, <1>2 DEF PolicyFault

\* A signer is refused for what it is.
LEMMA SignerGround ==
    ASSUME call \in Call, NEW i \in DOMAIN signers, SignerFault(signers[i]) # "Ok"
    PROVE  SignerFault(signers[i]) \in Reasons /\ Grounds(SignerFault(signers[i]))
  <1> DEFINE s == signers[i]
  <1>0. s \in Signer /\ s.shape \in Shape
    BY CallParts DEF Signer
  <1>1. CASE s.shape # "Ok"
    <2>1. SignerFault(s) = s.shape
      BY <1>1 DEF SignerFault
    <2> QED
      BY <1>0, <1>1, <2>1 DEF Grounds, Reasons, Shape
  <1>2. CASE s.shape = "Ok" /\ s.alg = None
    <2>1. SignerFault(s) = "MissingField"
      BY <1>2 DEF SignerFault
    <2> QED
      BY <1>2, <2>1 DEF Grounds, Reasons, Shape
  <1>3. CASE s.shape = "Ok" /\ s.alg # None /\ s.alg \notin KNOWN
    <2>1. SignerFault(s) = "UnknownAlgorithm"
      BY <1>3 DEF SignerFault
    <2> QED
      BY <1>3, <2>1 DEF Grounds, Reasons, Shape
  <1>4. CASE s.shape = "Ok" /\ s.alg # None /\ s.alg \in KNOWN /\ s.kid = None
    <2>1. SignerFault(s) = "MissingField"
      BY <1>4 DEF SignerFault
    <2> QED
      BY <1>4, <2>1 DEF Grounds, Reasons, Shape
  <1> QED
    BY <1>1, <1>2, <1>3, <1>4 DEF SignerFault

\* Of the faulty signers one comes first.
LEMMA FirstFault ==
    ASSUME call \in Call, Faulty(call.envelope) # {}
    PROVE  \E i \in Faulty(call.envelope) : \A j \in Faulty(call.envelope) : i <= j
  <1>1. Faulty(call.envelope) \subseteq Nat
    BY CallParts DEF Faulty, signers
  <1> QED
    BY <1>1, LeastOf

\* An envelope is refused for what it is.
LEMMA EnvelopeGround ==
    ASSUME call \in Call, EnvelopeFault(call.envelope) # "Ok"
    PROVE  EnvelopeFault(call.envelope) \in Reasons /\ Grounds(EnvelopeFault(call.envelope))
  <1> DEFINE e == call.envelope
  <1>0. e.shape \in Shape /\ signers = e.signers
    BY CallParts DEF Envelope, signers
  <1>1. CASE e.shape # "Ok"
    <2>1. EnvelopeFault(e) = e.shape
      BY <1>1 DEF EnvelopeFault
    <2> QED
      BY <1>0, <1>1, <2>1 DEF Grounds, Reasons, Shape
  <1>2. CASE e.shape = "Ok" /\ e.version # FORMAT_V1
    <2>1. EnvelopeFault(e) = "UnknownFormatVersion"
      BY <1>2 DEF EnvelopeFault
    <2> QED
      BY <1>2, <2>1 DEF Grounds, Reasons, Shape
  <1>3. CASE e.shape = "Ok" /\ e.version = FORMAT_V1 /\ e.signers = << >>
    <2>1. EnvelopeFault(e) = "EmptySignerSet"
      BY <1>3 DEF EnvelopeFault
    <2> QED
      BY <1>0, <1>3, <2>1 DEF Grounds, Reasons, Shape
  <1>4. CASE e.shape = "Ok" /\ e.version = FORMAT_V1 /\ e.signers # << >> /\ TooMany(e)
    <2>1. EnvelopeFault(e) = "WrongType"
      BY <1>4 DEF EnvelopeFault
    <2> QED
      BY <1>0, <1>4, <2>1 DEF Grounds, Reasons, Shape, TooMany
  <1>5. CASE /\ e.shape = "Ok" /\ e.version = FORMAT_V1 /\ e.signers # << >>
             /\ ~TooMany(e) /\ Faulty(e) # {}
    <2> DEFINE first == CHOOSE i \in Faulty(e) : \A j \in Faulty(e) : i <= j
    <2>1. EnvelopeFault(e) = SignerFault(e.signers[first])
      BY <1>5 DEF EnvelopeFault
    <2>2. first \in Faulty(e)
      BY <1>5, FirstFault
    <2>3. first \in DOMAIN signers /\ SignerFault(signers[first]) # "Ok"
      BY <1>0, <2>2 DEF Faulty
    <2> QED
      BY <1>0, <2>1, <2>3, SignerGround
  <1>6. CASE /\ e.shape = "Ok" /\ e.version = FORMAT_V1 /\ e.signers # << >>
             /\ ~TooMany(e) /\ Faulty(e) = {}
    BY <1>6 DEF EnvelopeFault
  <1> QED
    BY <1>1, <1>2, <1>3, <1>4, <1>5, <1>6

\* What parsing without a fault establishes.
LEMMA ParsedFacts ==
    ASSUME call \in Call, EnvelopeFault(call.envelope) = "Ok"
    PROVE  /\ call.envelope.shape = "Ok" /\ call.envelope.version = FORMAT_V1
           /\ signers # << >> /\ Len(signers) <= MAX_SIGNERS
           /\ \A i \in DOMAIN signers :
                 signers[i].shape = "Ok" /\ signers[i].kid # None /\ signers[i].alg \in KNOWN
  <1> DEFINE e == call.envelope
  <1>1. signers = e.signers /\ Len(signers) \in Nat
    BY CallParts DEF signers
  <1>2. SUFFICES ASSUME ~(/\ e.shape = "Ok" /\ e.version = FORMAT_V1 /\ e.signers # << >>
                          /\ ~TooMany(e) /\ Faulty(e) = {})
                 PROVE  FALSE
    <2>1. \A i \in DOMAIN signers : Faulty(e) = {} => SignerFault(signers[i]) = "Ok"
      BY <1>1 DEF Faulty
    <2>2. \A i \in DOMAIN signers : SignerFault(signers[i]) = "Ok" =>
              signers[i].shape = "Ok" /\ signers[i].kid # None /\ signers[i].alg \in KNOWN
      BY DEF SignerFault
    <2>3. ~TooMany(e) => Len(signers) <= MAX_SIGNERS
      BY <1>1, LimitAssumption DEF TooMany
    <2> QED
      BY <1>1, <1>2, <2>1, <2>2, <2>3
  <1>3. CASE e.shape # "Ok" \/ e.version # FORMAT_V1 \/ e.signers = << >> \/ TooMany(e)
    BY <1>3 DEF EnvelopeFault
  <1>4. CASE e.shape = "Ok" /\ e.version = FORMAT_V1 /\ e.signers # << >> /\ ~TooMany(e)
             /\ Faulty(e) # {}
    <2> DEFINE first == CHOOSE i \in Faulty(e) : \A j \in Faulty(e) : i <= j
    <2>1. first \in Faulty(e)
      BY <1>4, FirstFault
    <2>2. EnvelopeFault(e) = SignerFault(e.signers[first])
      BY <1>4 DEF EnvelopeFault
    <2> QED
      BY <2>1, <2>2 DEF Faulty
  <1> QED
    BY <1>2, <1>3, <1>4

-----------------------------------------------------------------------------
(* The invariant of the loop: what the turns so far have collected. *)

Passed(i) ==
    /\ Verifies(call, signers[i])
    /\ is_witness(call, signers[i]) \/ observer_allowed(call.trust, signers[i].kid)

Collected ==
    /\ Distinct(satisfied) /\ Distinct(witness_kids)
    /\ Elements(satisfied) =
          {a \in call.policy.required :
              \E i \in DOMAIN signers : i < at /\ i \in Observers /\ signers[i].alg = a}
    /\ Elements(witness_kids) =
          {k \in call.trust.trusted_witnesses :
              \E i \in DOMAIN signers : i < at /\ i \in Witnesses /\ signers[i].kid = k}

LoopInv ==
    /\ TypeOK
    /\ at <= Len(signers) + 1 \/ at = 1
    /\ pc # "done" => result = "Ok"
    /\ pc = "begin" => at = 1
    /\ (pc # "begin" /\ result = "Ok") =>
          PolicyFault(call.policy) = "Ok" /\ EnvelopeFault(call.envelope) = "Ok"
    /\ \A i \in DOMAIN signers : i < at => Passed(i)
    /\ Collected
    /\ pc = "done" => Grounds(result)
    /\ (pc = "done" /\ result = "Ok") => at \notin DOMAIN signers /\ FinalFault = "Ok"

LEMMA InitLoop == Init => LoopInv
  <1> SUFFICES ASSUME Init PROVE LoopInv
    OBVIOUS
  <1> USE DEF Init
  <1>1. call \in Call
    BY CallsAssumption
  <1>2. TypeOK
    BY <1>1, LimitAssumption DEF TypeOK, Reasons, Shape
  <1>3. \A i \in DOMAIN signers : ~(i < at)
    BY <1>1, CallParts
  <1>4. Collected
    BY <1>3 DEF Collected, Distinct, Elements
  <1> QED
    BY <1>2, <1>3, <1>4 DEF LoopInv

\* Returning leaves what was collected and decides the verdict.
LEMMA ReturnLoop ==
    ASSUME LoopInv, NEW verdict \in Reasons, Return(verdict), Grounds(verdict),
           verdict = "Ok" => /\ pc = "signers" /\ at \notin DOMAIN signers /\ FinalFault = "Ok"
    PROVE  LoopInv'
  <1> USE DEF Return
  <1>1. UNCHANGED <<signers, Observers, Witnesses>> /\ Grounds(verdict)' /\ FinalFault' = FinalFault
    BY DEF signers, Observers, Witnesses, Grounds, FinalFault, WitnessKids
  <1>2. TypeOK'
    BY DEF LoopInv, TypeOK
  <1>3. Collected' /\ \A i \in DOMAIN signers' : i < at' => Passed(i)'
    BY <1>1 DEF LoopInv, Collected, Passed
  <1>4. result' = verdict /\ pc' = "done"
    OBVIOUS
  <1>5. Grounds(result)'
    BY <1>1, <1>4 DEF Grounds
  <1> QED
    BY <1>1, <1>2, <1>3, <1>4, <1>5 DEF LoopInv

\* In a turn of the loop the signer is one of a parsed envelope's.
LEMMA TurnFacts ==
    ASSUME LoopInv, Turn
    PROVE  /\ call \in Call /\ result = "Ok" /\ EnvelopeFault(call.envelope) = "Ok"
           /\ PolicyFault(call.policy) = "Ok"
           /\ Len(signers) \in Nat /\ Len(signers) <= MAX_SIGNERS /\ DOMAIN signers = 1..Len(signers)
           /\ at \in 1..Len(signers) /\ at + 1 \in 1..(MAX_SIGNERS + 1)
           /\ signer.alg \in Algs /\ signer.kid \in Kids
           /\ \A i \in DOMAIN signers : i < at + 1 <=> i < at \/ i = at
  <1>1. call \in Call /\ result = "Ok" /\ EnvelopeFault(call.envelope) = "Ok"
        /\ PolicyFault(call.policy) = "Ok"
    BY DEF LoopInv, TypeOK, Turn
  <1>2. Len(signers) \in Nat /\ Len(signers) <= MAX_SIGNERS /\ DOMAIN signers = 1..Len(signers)
    BY <1>1, CallParts, ParsedFacts
  <1>3. at \in 1..Len(signers) /\ signer = signers[at]
    BY <1>2 DEF Turn, signer
  <1>4. signer.alg \in Algs /\ signer.kid \in Kids
    BY <1>1, <1>2, <1>3, CallParts, ParsedFacts, NamesAssumption DEF Signer
  <1> QED
    BY <1>1, <1>2, <1>3, <1>4, LimitAssumption

\* A counted witness.
LEMMA WitnessLoop == LoopInv /\ CountWitness => LoopInv'
  <1> SUFFICES ASSUME LoopInv, CountWitness PROVE LoopInv'
    OBVIOUS
  <1> USE DEF CountWitness
  <1>0. Turn
    OBVIOUS
  <1>2. signers' = signers /\ Observers' = Observers /\ Witnesses' = Witnesses
    BY DEF signers, Observers, Witnesses
  <1>3. signer.kid \in call.trust.trusted_witnesses /\ at \in Witnesses /\ at \notin Observers
        /\ signer = signers[at]
    BY <1>0, TurnFacts DEF is_witness, Witnesses, Observers, signer
  <1>4. /\ PushNew(witness_kids, signer.kid) \in Seq(call.trust.trusted_witnesses)
        /\ Distinct(PushNew(witness_kids, signer.kid))
        /\ Elements(PushNew(witness_kids, signer.kid)) = Elements(witness_kids) \cup {signer.kid}
    <2>1. witness_kids \in Seq(call.trust.trusted_witnesses) /\ Distinct(witness_kids)
      BY DEF LoopInv, TypeOK, Collected
    <2> HIDE DEF CountWitness
    <2> QED
      BY <1>3, <2>1, PushNewFacts
  <1>5. TypeOK'
    BY <1>0, <1>4, TurnFacts DEF LoopInv, TypeOK
  <1>6. \A i \in DOMAIN signers' : i < at' => Passed(i)'
    <2>1. Passed(at)
      BY <1>3 DEF Passed
    <2> QED
      BY <1>0, <1>2, <2>1, TurnFacts DEF LoopInv, Passed
  <1>7. Collected'
    <2>1. Elements(satisfied)' =
            {a \in call.policy.required :
                \E i \in DOMAIN signers : i < at' /\ i \in Observers /\ signers[i].alg = a}
      <3>1. \A i \in DOMAIN signers : i < at' /\ i \in Observers <=> i < at /\ i \in Observers
        BY <1>0, <1>3, TurnFacts
      <3>2. Elements(satisfied)' = Elements(satisfied)
        BY DEF Elements
      <3> QED
        BY <3>1, <3>2 DEF LoopInv, Collected
    <2>2. Elements(witness_kids)' =
            {k \in call.trust.trusted_witnesses :
                \E i \in DOMAIN signers : i < at' /\ i \in Witnesses /\ signers[i].kid = k}
      <3>1. Elements(witness_kids)' = Elements(witness_kids) \cup {signer.kid}
        BY <1>4 DEF Elements
      <3> QED
        BY <1>0, <1>3, <3>1, TurnFacts DEF LoopInv, Collected
    <2> QED
      BY <1>2, <1>4, <2>1, <2>2 DEF LoopInv, Collected, Distinct
  <1> QED
    BY <1>0, <1>2, <1>5, <1>6, <1>7, TurnFacts DEF LoopInv, Turn

\* A counted observer.
LEMMA ObserverLoop == LoopInv /\ CountObserver => LoopInv'
  <1> SUFFICES ASSUME LoopInv, CountObserver PROVE LoopInv'
    OBVIOUS
  <1> USE DEF CountObserver
  <1>0. Turn
    OBVIOUS
  <1>2. signers' = signers /\ Observers' = Observers /\ Witnesses' = Witnesses
    BY DEF signers, Observers, Witnesses
  <1>3. at \in Observers /\ at \notin Witnesses /\ signer = signers[at]
    BY <1>0, TurnFacts DEF Witnesses, Observers, signer
  <1>4. /\ satisfied' \in Seq(call.policy.required)
        /\ Distinct(satisfied')
        /\ Elements(satisfied') = Elements(satisfied) \cup ({signer.alg} \cap call.policy.required)
    <2>0. satisfied \in Seq(call.policy.required) /\ Distinct(satisfied)
      BY DEF LoopInv, TypeOK, Collected
    <2>1. CASE signer.alg \in call.policy.required
      <3>1. satisfied' = PushNew(satisfied, signer.alg)
        BY <2>1
      <3> HIDE DEF CountObserver
      <3>2. /\ PushNew(satisfied, signer.alg) \in Seq(call.policy.required)
            /\ Distinct(PushNew(satisfied, signer.alg))
            /\ Elements(PushNew(satisfied, signer.alg)) = Elements(satisfied) \cup {signer.alg}
        BY <2>0, <2>1, PushNewFacts
      <3> QED
        BY <2>1, <3>1, <3>2
    <2>2. CASE signer.alg \notin call.policy.required
      BY <2>2 DEF LoopInv, TypeOK, Collected
    <2> QED
      BY <2>1, <2>2
  <1>5. TypeOK'
    BY <1>0, <1>4, TurnFacts DEF LoopInv, TypeOK
  <1>6. \A i \in DOMAIN signers' : i < at' => Passed(i)'
    <2>1. Passed(at)
      BY <1>3 DEF Passed
    <2> QED
      BY <1>0, <1>2, <2>1, TurnFacts DEF LoopInv, Passed
  <1>7. Collected'
    <2>1. Elements(satisfied)' =
            {a \in call.policy.required :
                \E i \in DOMAIN signers : i < at' /\ i \in Observers /\ signers[i].alg = a}
      <3>1. Elements(satisfied)' = Elements(satisfied) \cup ({signer.alg} \cap call.policy.required)
        BY <1>4 DEF Elements
      <3> QED
        BY <1>0, <1>3, <3>1, TurnFacts DEF LoopInv, Collected
    <2>2. Elements(witness_kids)' =
            {k \in call.trust.trusted_witnesses :
                \E i \in DOMAIN signers : i < at' /\ i \in Witnesses /\ signers[i].kid = k}
      <3>1. \A i \in DOMAIN signers : i < at' /\ i \in Witnesses <=> i < at /\ i \in Witnesses
        BY <1>0, <1>3, TurnFacts
      <3>2. Elements(witness_kids)' = Elements(witness_kids)
        BY DEF Elements
      <3> QED
        BY <3>1, <3>2 DEF LoopInv, Collected
    <2> QED
      BY <1>2, <1>4, <2>1, <2>2 DEF LoopInv, Collected, Distinct
  <1> QED
    BY <1>0, <1>2, <1>5, <1>6, <1>7, TurnFacts DEF LoopInv, Turn

\* At the end of the loop every signer has passed, and the lists hold what the
\* observers cover and who witnessed.
LEMMA LoopDone ==
    ASSUME LoopInv, pc # "begin", result = "Ok", at \notin DOMAIN signers
    PROVE  /\ \A i \in DOMAIN signers : Passed(i)
           /\ Elements(satisfied) = call.policy.required \cap {signers[i].alg : i \in Observers}
           /\ IsFiniteSet(WitnessKids) /\ Cardinality(WitnessKids) = Len(witness_kids)
  <1>1. call \in Call /\ at \in Nat /\ at >= 1 /\ (at <= Len(signers) + 1 \/ at = 1)
    BY LimitAssumption DEF LoopInv, TypeOK
  <1>2. \A i \in DOMAIN signers : i < at
    BY <1>1, CallParts, LimitAssumption DEF LoopInv, TypeOK
  <1>3. Observers \subseteq DOMAIN signers /\ Witnesses \subseteq DOMAIN signers
    BY DEF Observers, Witnesses
  <1>4. Elements(satisfied) = call.policy.required \cap {signers[i].alg : i \in Observers}
    BY <1>2, <1>3 DEF LoopInv, Collected
  <1>5. \A i \in Witnesses : signers[i].kid \in call.trust.trusted_witnesses
    BY DEF Witnesses, Observers, is_witness
  <1>6. Elements(witness_kids) = WitnessKids
    BY <1>2, <1>3, <1>5 DEF LoopInv, Collected, WitnessKids
  <1>7. IsFiniteSet(Elements(witness_kids)) /\ Cardinality(Elements(witness_kids)) = Len(witness_kids)
    BY DistinctLength DEF LoopInv, TypeOK, Collected
  <1> QED
    BY <1>2, <1>4, <1>6, <1>7 DEF LoopInv

\* What is refused at the end is refused for what the whole envelope lacks.
LEMMA FinalGround ==
    ASSUME LoopInv, pc = "signers", at \notin DOMAIN signers
    PROVE  FinalFault \in Reasons /\ Grounds(FinalFault)
  <1>1. result = "Ok" /\ call \in Call /\ call.trust.min_witnesses \in Nat
    BY CallParts DEF LoopInv, TypeOK
  <1>2. Elements(satisfied) = call.policy.required \cap {signers[i].alg : i \in Observers}
        /\ Cardinality(WitnessKids) = Len(witness_kids)
    BY <1>1, LoopDone
  <1>3. CASE \/ ~Covers(call.policy.required, Elements(satisfied))
             \/ call.policy.exactly /\ Len(satisfied) # 1
    <2>1. FinalFault = "RequiredAlgorithmAbsent"
      BY <1>3 DEF FinalFault
    <2>2. ~(call.policy.required \subseteq Elements(satisfied))
      <3>1. CASE ~Covers(call.policy.required, Elements(satisfied))
        BY <3>1 DEF Covers
      <3>2. CASE call.policy.exactly /\ Len(satisfied) # 1
        <4>1. PICK a \in Algs : call.policy.required = {a}
          BY <1>1, <3>2 DEF Call, SignaturePolicy
        <4>2. Cardinality(Elements(satisfied)) # 1
          BY <3>2, DistinctLength DEF LoopInv, TypeOK, Collected
        <4>3. Elements(satisfied) # {a}
          BY <4>2, FS_Singleton
        <4> QED
          BY <1>2, <4>1, <4>3
      <3> QED
        BY <1>3, <3>1, <3>2
    <2> QED
      BY <1>2, <2>1, <2>2 DEF Grounds, Reasons
  <1>4. CASE /\ ~(\/ ~Covers(call.policy.required, Elements(satisfied))
                  \/ call.policy.exactly /\ Len(satisfied) # 1)
             /\ Len(witness_kids) < call.trust.min_witnesses
    <2>1. FinalFault = "WitnessThresholdNotMet"
      BY <1>4 DEF FinalFault
    <2> QED
      BY <1>2, <1>4, <2>1 DEF Grounds, Reasons
  <1>5. CASE FinalFault = "Ok"
    BY <1>5 DEF Grounds, Reasons, Shape
  <1> QED
    BY <1>3, <1>4, <1>5 DEF FinalFault

\* No step of verify_envelope_inner breaks the loop's invariant.
LEMMA StepLoop == LoopInv /\ [Next]_vars => LoopInv'
  <1> SUFFICES ASSUME LoopInv, [Next]_vars PROVE LoopInv'
    OBVIOUS
  <1>0. call \in Call
    BY DEF LoopInv, TypeOK
  <1>1. CASE RefusePolicy
    BY <1>0, <1>1, PolicyGround, ReturnLoop DEF RefusePolicy
  <1>2. CASE RefuseEnvelope
    BY <1>0, <1>2, EnvelopeGround, ReturnLoop DEF RefuseEnvelope
  <1>3. CASE Parsed
    <2>1. UNCHANGED <<call, at, satisfied, witness_kids, result>> /\ pc' = "signers" /\ pc = "begin"
      BY <1>3 DEF Parsed
    <2>2. signers' = signers /\ Observers' = Observers /\ Witnesses' = Witnesses
      BY <2>1 DEF signers, Observers, Witnesses
    <2>3. TypeOK'
      BY <2>1 DEF LoopInv, TypeOK
    <2>4. Collected' /\ \A i \in DOMAIN signers' : i < at' => Passed(i)'
      BY <2>1, <2>2 DEF LoopInv, Collected, Passed
    <2>5. PolicyFault(call.policy)' = "Ok" /\ EnvelopeFault(call.envelope)' = "Ok"
      BY <1>3 DEF Parsed
    <2> QED
      BY <2>1, <2>2, <2>3, <2>4, <2>5 DEF LoopInv
  <1>4. CASE SignatureFails
    <2>1. Turn /\ ~Verifies(call, signers[at]) /\ Return("SignatureFailed")
      BY <1>4 DEF SignatureFails, signer
    <2>2. Grounds("SignatureFailed") /\ "SignatureFailed" \in Reasons
      BY <2>1 DEF Grounds, Reasons, Turn
    <2> QED
      BY <2>1, <2>2, ReturnLoop
  <1>5. CASE CountWitness
    BY <1>5, WitnessLoop
  <1>6. CASE RefuseObserver
    <2>1. Turn /\ ~is_witness(call, signers[at]) /\ Return("UntrustedKey")
          /\ ~observer_allowed(call.trust, signers[at].kid)
      BY <1>6 DEF RefuseObserver, signer
    <2>2. at \in Observers
      BY <2>1 DEF Turn, Observers
    <2>3. Grounds("UntrustedKey") /\ "UntrustedKey" \in Reasons
      BY <2>1, <2>2 DEF Grounds, Reasons, observer_allowed
    <2> QED
      BY <2>1, <2>3, ReturnLoop
  <1>7. CASE CountObserver
    BY <1>7, ObserverLoop
  <1>8. CASE Conclude
    BY <1>8, FinalGround, ReturnLoop DEF Conclude
  <1>9. CASE UNCHANGED vars
    <2>1. UNCHANGED <<call, pc, at, satisfied, witness_kids, result>>
      BY <1>9 DEF vars
    <2>2. signers' = signers /\ Observers' = Observers /\ Witnesses' = Witnesses
      BY <2>1 DEF signers, Observers, Witnesses
    <2>3. TypeOK' /\ Collected' /\ \A i \in DOMAIN signers' : i < at' => Passed(i)'
      BY <2>1, <2>2 DEF LoopInv, TypeOK, Collected, Passed
    <2>4. FinalFault' = FinalFault /\ WitnessKids' = WitnessKids
      BY <2>1, <2>2 DEF FinalFault, WitnessKids
    <2>5. Grounds(result)' <=> Grounds(result)
      BY <2>1, <2>2, <2>4 DEF Grounds
    <2> QED
      BY <2>1, <2>2, <2>3, <2>4, <2>5 DEF LoopInv
  <1> QED
    BY <1>1, <1>2, <1>3, <1>4, <1>5, <1>6, <1>7, <1>8, <1>9 DEF Next

LEMMA LoopCorrect == Spec => []LoopInv
  BY InitLoop, StepLoop, PTL DEF Spec

\* What an accepted call has been through.
LEMMA AcceptedFacts ==
    ASSUME LoopInv, pc = "done", result = "Ok"
    PROVE  /\ AcceptedObeysRules
           /\ \A i \in DOMAIN signers : Passed(i)
           /\ call.policy.required \subseteq {signers[i].alg : i \in Observers}
  <1>1. call \in Call /\ EnvelopeFault(call.envelope) = "Ok" /\ PolicyFault(call.policy) = "Ok"
        /\ at \notin DOMAIN signers /\ FinalFault = "Ok"
    BY DEF LoopInv, TypeOK
  <1>2. /\ \A i \in DOMAIN signers : Passed(i)
        /\ Elements(satisfied) = call.policy.required \cap {signers[i].alg : i \in Observers}
        /\ Cardinality(WitnessKids) = Len(witness_kids)
    BY <1>1, LoopDone
  <1>3. call.policy.required \subseteq Elements(satisfied)
        /\ ~(Len(witness_kids) < call.trust.min_witnesses)
    BY <1>1 DEF FinalFault, Covers
  <1>4. call.trust.min_witnesses <= Cardinality(WitnessKids)
    <2>1. Len(witness_kids) \in Nat /\ call.trust.min_witnesses \in Nat
      BY <1>1, CallParts DEF LoopInv, TypeOK
    <2> QED
      BY <1>2, <1>3, <2>1
  <1>5. call.policy.required # {}
    BY <1>1 DEF PolicyFault
  <1>6. \A i \in DOMAIN signers : /\ signers[i].signature.by = signers[i].kid
                                 /\ signers[i].signature.over = sig_structure(call, signers[i])
    <2> SUFFICES ASSUME NEW i \in DOMAIN signers
                 PROVE  /\ signers[i].signature.by = signers[i].kid
                        /\ signers[i].signature.over = sig_structure(call, signers[i])
      OBVIOUS
    <2> DEFINE message == sig_structure(call, signers[i])
    <2>1. BackendVerify(signers[i].kid, message, signers[i].signature)
      BY <1>2 DEF Passed, Verifies
    <2> HIDE DEF message
    <2>2. signers[i].signature.by = signers[i].kid /\ signers[i].signature.over = message
      BY <2>1 DEF BackendVerify
    <2> QED
      BY <2>2 DEF message
  <1>7. \A i \in Observers : observer_allowed(call.trust, signers[i].kid)
    BY <1>2 DEF Passed, Observers
  <1> QED
    BY <1>1, <1>2, <1>3, <1>4, <1>5, <1>6, <1>7, ParsedFacts DEF AcceptedObeysRules

-----------------------------------------------------------------------------
\* The lists hold required algorithms and trusted witnesses, and the loop ends with
\* the signers.
THEOREM TypeCorrect == Spec => []TypeOK
  BY LoopCorrect, PTL DEF LoopInv

\* An accepted envelope breaks no rule, for any call.
THEOREM AcceptedCorrect == Spec => []AcceptedObeysRules
  <1>1. LoopInv => AcceptedObeysRules
    BY AcceptedFacts DEF AcceptedObeysRules
  <1> QED
    BY <1>1, LoopCorrect, PTL

\* A refused one breaks the rule the reason names.
THEOREM RefusalCorrect == Spec => []RefusalIsGrounded
  <1>1. LoopInv => RefusalIsGrounded
    BY DEF LoopInv, RefusalIsGrounded
  <1> QED
    BY <1>1, LoopCorrect, PTL

\* Two required algorithms leave one when either is discounted.
THEOREM HybridCorrect == Spec => []HybridOutlivesBreak
  <1>1. LoopInv => HybridOutlivesBreak
    <2> SUFFICES ASSUME LoopInv, pc = "done", result = "Ok",
                        Cardinality(call.policy.required) > 1, NEW broken \in Algs
                 PROVE  \E i \in Observers :
                            /\ signers[i].alg # broken
                            /\ Verifies(call, signers[i])
                            /\ observer_allowed(call.trust, signers[i].kid)
      BY DEF HybridOutlivesBreak
    <2>1. PICK a \in call.policy.required : a # broken
      <3>1. call.policy.required # {}
        BY FS_EmptySet
      <3>2. call.policy.required # {broken}
        BY FS_Singleton
      <3> QED
        BY <3>1, <3>2
    <2>2. PICK i \in Observers : signers[i].alg = a
      BY <2>1, AcceptedFacts
    <2>3. Passed(i) /\ ~is_witness(call, signers[i])
      BY <2>2, AcceptedFacts DEF Observers
    <2> QED
      BY <2>1, <2>2, <2>3 DEF Passed
  <1> QED
    BY <1>1, LoopCorrect, PTL
=============================================================================
