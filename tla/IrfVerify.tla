------------------------------ MODULE IrfVerify ------------------------------
(***************************************************************************)
(* inverba-core-rs/src/verify.rs: a call of verify_envelope, from the      *)
(* policy's validation to the verdict, with one step for each turn of the  *)
(* loop over the signers.                                                  *)
(*                                                                         *)
(* Bytes are abstract. `shape` is what the structural checks find, "Ok" or *)
(* a reason: of an envelope, that it is canonical and has four fields of   *)
(* the right types and an empty unprotected header; of a signer the same   *)
(* up to its headers. A signature is the key that made it and the message  *)
(* it was made over, which is what the host's primitives compare.          *)
(***************************************************************************)
EXTENDS Integers, Sequences, FiniteSets

CONSTANTS
    Kids,         \* key identifiers
    Algs,         \* algorithm identifiers
    KNOWN,        \* alg::KNOWN
    Domains,      \* the contexts of domain.rs
    Payloads,     \* claim sets
    MAX_SIGNERS,  \* 64 in the code
    None,         \* a header field that is absent, or empty
    Calls         \* the arguments verify_envelope is called with

FORMAT_V1 == 1    \* its major: of the headers with this major the model has one

Shape == {"Ok", "NonCanonicalEncoding", "WrongType", "UnknownField", "MissingField"}

Message == [version : Nat, alg : Algs \cup {None}, kid : Kids \cup {None},
            domain : Domains, payload : Payloads]

Signer == [shape : Shape, alg : Algs \cup {None}, kid : Kids \cup {None},
           signature : [by : Kids, over : Message]]

Envelope == [shape : Shape, version : Nat, payload : Payloads, signers : Seq(Signer)]

\* RequireAll names a set of algorithms, RequireExactly one.
SignaturePolicy == [exactly : {FALSE}, required : SUBSET Algs]
                       \cup [exactly : {TRUE}, required : {{a} : a \in Algs}]

TrustPolicy == [trusted_observers : SUBSET Kids, trusted_witnesses : SUBSET Kids,
                min_witnesses : Nat]

Call == [envelope : Envelope, domain : Domains, policy : SignaturePolicy, trust : TrustPolicy]

ASSUME LimitAssumption == MAX_SIGNERS \in Nat \ {0}
ASSUME NamesAssumption == KNOWN \subseteq Algs /\ None \notin Kids \cup Algs
ASSUME CallsAssumption == Calls \subseteq Call

VARIABLES
    call,          \* the arguments
    pc,            \* "begin", "signers" in the loop, "done"
    at,            \* the signer whose turn it is
    satisfied,     \* the required algorithms an observer's signature covers
    witness_kids,  \* the trusted witnesses that signed
    result         \* "Ok" or the reason of the refusal, once done

vars == <<call, pc, at, satisfied, witness_kids, result>>

signers == call.envelope.signers
signer == signers[at]

Reasons == Shape \cup {"EmptySignerSet", "UnknownAlgorithm", "UnknownFormatVersion",
                       "SignatureFailed", "UntrustedKey", "RequiredAlgorithmAbsent",
                       "WitnessThresholdNotMet"}

-----------------------------------------------------------------------------
(* What is decided before any signature is looked at. *)

\* SignaturePolicy::validate.
PolicyFault(policy) ==
    IF policy.required = {} THEN "EmptySignerSet"
    ELSE IF ~(policy.required \subseteq KNOWN) THEN "UnknownAlgorithm"
    ELSE "Ok"

\* parse_signer.
SignerFault(s) ==
    IF s.shape # "Ok" THEN s.shape
    ELSE IF s.alg = None THEN "MissingField"
    ELSE IF s.alg \notin KNOWN THEN "UnknownAlgorithm"
    ELSE IF s.kid = None THEN "MissingField"
    ELSE "Ok"

Faulty(envelope) == {i \in DOMAIN envelope.signers : SignerFault(envelope.signers[i]) # "Ok"}

TooMany(envelope) == Len(envelope.signers) > MAX_SIGNERS

\* parse_envelope; the signers are parsed in order, so the first fault counts.
EnvelopeFault(envelope) ==
    IF envelope.shape # "Ok" THEN envelope.shape
    ELSE IF envelope.version # FORMAT_V1 THEN "UnknownFormatVersion"
    ELSE IF envelope.signers = << >> THEN "EmptySignerSet"
    ELSE IF TooMany(envelope) THEN "WrongType"
    ELSE IF Faulty(envelope) = {} THEN "Ok"
    ELSE SignerFault(envelope.signers[CHOOSE i \in Faulty(envelope) :
                                         \A j \in Faulty(envelope) : i <= j])

-----------------------------------------------------------------------------
(* The loop over the signers. *)

\* preimage.rs sig_structure.
sig_structure(c, s) ==
    [version |-> c.envelope.version, alg |-> s.alg, kid |-> s.kid,
     domain |-> c.domain, payload |-> c.envelope.payload]

\* The host's backend: whether this key signed this message.
BackendVerify(kid, message, signature) == signature = [by |-> kid, over |-> message]

Verifies(c, s) == BackendVerify(s.kid, sig_structure(c, s), s.signature)

is_witness(c, s) == s.kid \in c.trust.trusted_witnesses

\* Deliberately wrong: an empty list accepts nobody.
BugObserverAllowed(trust, kid) == kid \in trust.trusted_observers

observer_allowed(trust, kid) == trust.trusted_observers = {} \/ kid \in trust.trusted_observers

Elements(seq) == {seq[i] : i \in DOMAIN seq}

\* Deliberately wrong: what is there already is added again.
BugPushNew(seq, x) == Append(seq, x)

\* push, unless the list contains it.
PushNew(seq, x) == IF x \in Elements(seq) THEN seq ELSE Append(seq, x)

\* Deliberately wrong: one covered algorithm will do.
BugCovers(required, covered) == required \cap covered # {}

Covers(required, covered) == required \subseteq covered

\* The checks after the loop.
FinalFault ==
    IF \/ ~Covers(call.policy.required, Elements(satisfied))
       \/ call.policy.exactly /\ Len(satisfied) # 1
    THEN "RequiredAlgorithmAbsent"
    ELSE IF Len(witness_kids) < call.trust.min_witnesses THEN "WitnessThresholdNotMet"
    ELSE "Ok"

-----------------------------------------------------------------------------
(* The steps of verify_envelope_inner. *)

Init ==
    /\ call \in Calls
    /\ pc = "begin"
    /\ at = 1
    /\ satisfied = << >>
    /\ witness_kids = << >>
    /\ result = "Ok"

Return(verdict) ==
    /\ pc' = "done"
    /\ result' = verdict
    /\ UNCHANGED <<call, at, satisfied, witness_kids>>

RefusePolicy ==
    /\ pc = "begin"
    /\ PolicyFault(call.policy) # "Ok"
    /\ Return(PolicyFault(call.policy))

RefuseEnvelope ==
    /\ pc = "begin"
    /\ PolicyFault(call.policy) = "Ok"
    /\ EnvelopeFault(call.envelope) # "Ok"
    /\ Return(EnvelopeFault(call.envelope))

Parsed ==
    /\ pc = "begin"
    /\ PolicyFault(call.policy) = "Ok"
    /\ EnvelopeFault(call.envelope) = "Ok"
    /\ pc' = "signers"
    /\ UNCHANGED <<call, at, satisfied, witness_kids, result>>

Turn == pc = "signers" /\ at \in DOMAIN signers

SignatureFails ==
    /\ Turn
    /\ ~Verifies(call, signer)
    /\ Return("SignatureFailed")

\* A witness is only counted: the loop continues before its algorithm is looked at.
CountWitness ==
    /\ Turn
    /\ Verifies(call, signer)
    /\ is_witness(call, signer)
    /\ witness_kids' = PushNew(witness_kids, signer.kid)
    /\ at' = at + 1
    /\ UNCHANGED <<call, pc, satisfied, result>>

RefuseObserver ==
    /\ Turn
    /\ Verifies(call, signer)
    /\ ~is_witness(call, signer)
    /\ ~observer_allowed(call.trust, signer.kid)
    /\ Return("UntrustedKey")

CountObserver ==
    /\ Turn
    /\ Verifies(call, signer)
    /\ ~is_witness(call, signer)
    /\ observer_allowed(call.trust, signer.kid)
    /\ satisfied' = IF signer.alg \in call.policy.required
                    THEN PushNew(satisfied, signer.alg) ELSE satisfied
    /\ at' = at + 1
    /\ UNCHANGED <<call, pc, witness_kids, result>>

Conclude ==
    /\ pc = "signers"
    /\ at \notin DOMAIN signers
    /\ Return(FinalFault)

Next ==
    \/ RefusePolicy \/ RefuseEnvelope \/ Parsed
    \/ SignatureFails \/ CountWitness \/ RefuseObserver \/ CountObserver
    \/ Conclude

Spec == Init /\ [][Next]_vars

-----------------------------------------------------------------------------
(* Properties. They speak of sets of signers, never of their order. *)

TypeOK ==
    /\ call \in Call
    /\ pc \in {"begin", "signers", "done"}
    /\ at \in 1..(MAX_SIGNERS + 1)
    /\ satisfied \in Seq(call.policy.required)
    /\ witness_kids \in Seq(call.trust.trusted_witnesses)
    /\ result \in Reasons

Observers == {i \in DOMAIN signers : ~is_witness(call, signers[i])}
Witnesses == DOMAIN signers \ Observers

\* The keys of the witnesses: each counts once, however often it signed.
WitnessKids == {signers[i].kid : i \in Witnesses}

\* An accepted envelope breaks none of the format's rules (SPEC-IRF-v1.md section 9):
\* canonical, of a known version, with signers and not too many (1 to 5), every header
\* complete and every algorithm known (6, 7), every signature over this payload in
\* this domain (8, 12), the required algorithms covered by observers (9), these
\* trusted (10), and enough distinct witnesses (11).
AcceptedObeysRules ==
    (pc = "done" /\ result = "Ok") =>
        /\ call.envelope.shape = "Ok" /\ call.envelope.version = FORMAT_V1
        /\ signers # << >> /\ Len(signers) <= MAX_SIGNERS
        /\ \A i \in DOMAIN signers :
              /\ signers[i].shape = "Ok"
              /\ signers[i].kid # None /\ signers[i].alg \in KNOWN
              /\ signers[i].signature.by = signers[i].kid
              /\ signers[i].signature.over = sig_structure(call, signers[i])
        /\ call.policy.required # {}
        /\ call.policy.required \subseteq {signers[i].alg : i \in Observers}
        /\ \A i \in Observers : observer_allowed(call.trust, signers[i].kid)
        /\ call.trust.min_witnesses <= Cardinality(WitnessKids)

\* What a reason says of the policy or the envelope. The last group are the structural
\* reasons.
Grounds(reason) ==
    CASE reason = "Ok" -> TRUE
      [] reason = "EmptySignerSet" -> call.policy.required = {} \/ signers = << >>
      [] reason = "UnknownAlgorithm" ->
            \/ ~(call.policy.required \subseteq KNOWN)
            \/ \E i \in DOMAIN signers : signers[i].alg \notin KNOWN
      [] reason = "UnknownFormatVersion" -> call.envelope.version # FORMAT_V1
      [] reason = "SignatureFailed" ->
            \E i \in DOMAIN signers : ~Verifies(call, signers[i])
      [] reason = "UntrustedKey" ->
            \E i \in Observers : /\ call.trust.trusted_observers # {}
                                 /\ signers[i].kid \notin call.trust.trusted_observers
      [] reason = "RequiredAlgorithmAbsent" ->
            ~(call.policy.required \subseteq {signers[i].alg : i \in Observers})
      [] reason = "WitnessThresholdNotMet" ->
            Cardinality(WitnessKids) < call.trust.min_witnesses
      [] OTHER ->
            \/ call.envelope.shape # "Ok"
            \/ Len(signers) > MAX_SIGNERS
            \/ \E i \in DOMAIN signers :
                  signers[i].shape # "Ok" \/ None \in {signers[i].alg, signers[i].kid}

\* Nothing is refused but for a rule it breaks, and the reason given is true of the
\* envelope or the policy whatever order the signers stand in: no other order would
\* have saved it (verify.rs verify_envelope_detailed).
RefusalIsGrounded == pc = "done" => Grounds(result)

\* A hybrid policy outlives the break of one algorithm ("a break of either primitive
\* alone does not yield a forgery", SPEC-IRF-v1.md 5.3): whichever algorithm is
\* discounted, an allowed observer still signed this payload in this domain with another.
HybridOutlivesBreak ==
    (pc = "done" /\ result = "Ok" /\ Cardinality(call.policy.required) > 1) =>
        \A broken \in Algs :
            \E i \in Observers :
                /\ signers[i].alg # broken
                /\ Verifies(call, signers[i])
                /\ observer_allowed(call.trust, signers[i].kid)
=============================================================================
