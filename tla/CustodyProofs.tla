---------------------------- MODULE CustodyProofs ----------------------------
(***************************************************************************)
(* Proofs about Custody, for any backends, answers, bodies and bounds: what *)
(* a verifier accepts was signed, and its attribution, agreement and time  *)
(* are as it says.                                                         *)
(***************************************************************************)
EXTENDS Custody, SequenceTheorems, TLAPS

\* A record has the fields of a record, so that a field can be replaced.
Shaped(r) ==
    r = [url |-> r.url, content_hash |-> r.content_hash, fetched_at |-> r.fetched_at,
         fetched_by |-> r.fetched_by, status_code |-> r.status_code,
         final_url |-> r.final_url, content_type |-> r.content_type,
         worker_public_key |-> r.worker_public_key, signature |-> r.signature,
         corroborations |-> r.corroborations]

LEMMA ShapedExcept ==
    ASSUME NEW r, Shaped(r), NEW c
    PROVE  LET n == [r EXCEPT !.corroborations = c]
           IN  /\ Shaped(n)
               /\ n.corroborations = c
               /\ n.signature = r.signature /\ n.content_hash = r.content_hash
               /\ VerifyRecord(n) <=> VerifyRecord(r)
BY DEF Shaped, VerifyRecord, SigningPayload

\* What signing makes of a fetch: a record that verifies, and claims what was fetched.
LEMMA SignVerifies ==
    ASSUME NEW key, NEW fetched
    PROVE  Shaped(Sign(key, fetched)) /\ VerifyRecord(Sign(key, fetched))
<1> DEFINE final == IF fetched.final_url = fetched.url THEN "" ELSE fetched.final_url
           unsigned == [url |-> fetched.url, content_hash |-> hash_content(fetched.content),
                        fetched_at |-> fetched.fetched_at, fetched_by |-> fetched.fetched_by,
                        status_code |-> fetched.status_code, final_url |-> final,
                        content_type |-> fetched.content_type, worker_public_key |-> key,
                        signature |-> None, corroborations |-> << >>]
           signature == [by |-> key, over |-> SigningPayload(unsigned)]
           record == [url |-> fetched.url, content_hash |-> hash_content(fetched.content),
                      fetched_at |-> fetched.fetched_at, fetched_by |-> fetched.fetched_by,
                      status_code |-> fetched.status_code, final_url |-> final,
                      content_type |-> fetched.content_type, worker_public_key |-> key,
                      signature |-> signature, corroborations |-> << >>]
<1>1. Sign(key, fetched) = [unsigned EXCEPT !.signature = signature]
  BY Zenon DEF Sign
<1>2. [unsigned EXCEPT !.signature = signature] = record
  <2> HIDE DEF signature, final
  <2> QED  OBVIOUS
<1>3. SigningPayload(record) = SigningPayload(unsigned)
  <2> HIDE DEF signature, final
  <2> QED  BY DEF SigningPayload
<1>4. VerifyRecord(record)
  <2>1. record.signature = signature /\ record.worker_public_key = key
    <3> HIDE DEF signature, final
    <3> QED  OBVIOUS
  <2> HIDE DEF record, unsigned
  <2> QED  BY <1>3, <2>1 DEF VerifyRecord
<1>5. Shaped(record)
  <2> HIDE DEF signature, final
  <2> QED  BY DEF Shaped
<1> HIDE DEF record
<1> QED  BY <1>1, <1>2, <1>4, <1>5

LEMMA SignDates ==
    ASSUME NEW key, NEW fetched
    PROVE  /\ Sign(key, fetched).fetched_at = fetched.fetched_at
           /\ Sign(key, fetched).fetched_by = fetched.fetched_by
BY DEF Sign

LEMMA SignClaims ==
    ASSUME NEW key, NEW fetched
    PROVE  /\ Sign(key, fetched).url = fetched.url
           /\ Sign(key, fetched).content_hash = hash_content(fetched.content)
           /\ Sign(key, fetched).status_code = fetched.status_code
           /\ Sign(key, fetched).worker_public_key = key
BY DEF Sign

LEMMA SignNormalises ==
    ASSUME NEW key, NEW fetched
    PROVE  Sign(key, fetched).final_url = Sign(key, fetched).url
                => Sign(key, fetched).final_url = ""
BY DEF Sign

LEMMA SignsBare ==
    ASSUME NEW key, NEW fetched
    PROVE  Sign(key, fetched).corroborations = << >>
BY DEF Sign

\* Records that verify and have one signature claim the same.
LEMMA SignaturesAlike ==
    ASSUME NEW a, NEW b, NEW c, NEW d,
           [by |-> a, over |-> b] = [by |-> c, over |-> d]
    PROVE  a = c /\ b = d
<1>1. [by |-> a, over |-> b].by = a /\ [by |-> a, over |-> b].over = b
  OBVIOUS
<1>2. [by |-> c, over |-> d].by = c /\ [by |-> c, over |-> d].over = d
  OBVIOUS
<1> QED  BY <1>1, <1>2

\* The final URL as it is signed.
Final(r) == IF r.final_url = r.url THEN "" ELSE r.final_url

LEMMA SameSignature ==
    ASSUME NEW r, NEW s, r.signature = s.signature, VerifyRecord(r), VerifyRecord(s)
    PROVE  /\ r.url = s.url /\ r.content_hash = s.content_hash
           /\ r.fetched_at = s.fetched_at /\ r.fetched_by = s.fetched_by
           /\ r.status_code = s.status_code /\ r.content_type = s.content_type
           /\ r.worker_public_key = s.worker_public_key
           /\ Final(r) = Final(s)
<1>1. /\ SigningPayload(r) = SigningPayload(s)
      /\ r.worker_public_key = s.worker_public_key
  <2>1. [by |-> r.worker_public_key, over |-> SigningPayload(r)]
            = [by |-> s.worker_public_key, over |-> SigningPayload(s)]
    BY Zenon DEF VerifyRecord
  <2> QED  BY <2>1, SignaturesAlike
<1>2. \A t : SigningPayload(t) =
              [url |-> t.url, content_hash |-> t.content_hash, fetched_at |-> t.fetched_at,
               fetched_by |-> t.fetched_by, status_code |-> t.status_code,
               content_type |-> t.content_type, final_url |-> Final(t)]
  BY Zenon DEF SigningPayload, Final
<1> QED  BY <1>1, <1>2

LEMMA FetchFacts ==
    ASSUME CustodyAssumption, NEW backend \in Backends,
           backend.kind = "callable" => MayWrap(backend.name),
           NEW url, NEW answer, NEW started, NEW now
    PROVE  LET fetched == FetchBy(backend, url, answer, started, now)
           IN  /\ fetched.url = url
               /\ backend.kind # "native" => fetched.fetched_by # NATIVE
               /\ backend.kind = "native" /\ Ok(fetched) =>
                    /\ answer # Failed /\ fetched.fetched_at = now
                    /\ fetched.content = answer.content
                    /\ fetched.status_code = answer.status_code
<1>1. CASE backend.kind = "native"
  BY <1>1 DEF FetchBy, NativeFetch, Fetch, FetchHttp, FetchBrowser, NoResult, FetchResult, Ok
<1>2. CASE backend.kind = "firecrawl"
  BY <1>2 DEF FetchBy, FirecrawlFetch, NoResult, FetchResult, NATIVE
<1>3. CASE backend.kind = "callable"
  BY <1>3 DEF FetchBy, CallableFetch, MayWrap, NoResult, FetchResult, NATIVE
<1> QED  BY <1>1, <1>2, <1>3 DEF CustodyAssumption

-----------------------------------------------------------------------------
(* The invariant: where everything that is held comes from. *)

\* Who signed saw what the record attests, and not later than at this time.
Witnessed(r, time, seen) == \E o \in seen : Attests(r, o) /\ o.when \in 0..time

Honest == {Worker, Notary}

\* The signature, if not more, is one that was made.
Stamped(r) == \E s \in signed : r.signature = s.record.signature

\* What the client checked of a corroboration, and what follows if it is the notary's.
Corroborates(c, r, seen) ==
    /\ VerifyRecord(c) /\ c.content_hash = r.content_hash
    /\ c.worker_public_key = Notary =>
            \E o \in seen : /\ o.by = Notary /\ o.url = c.url
                            /\ o.content_hash = r.content_hash

Agreeing(r, seen) ==
    /\ \E S : r.corroborations \in Seq(S)
    /\ \A i \in DOMAIN r.corroborations : Corroborates(r.corroborations[i], r, seen)

RunInv ==
    /\ run = [backend |-> run.backend, adapter |-> run.adapter, urls |-> run.urls,
              started |-> run.started, docs |-> run.docs, uses |-> run.uses]
    /\ run.backend \in Backends
    /\ run.backend.kind = "callable" => MayWrap(run.backend.name)
    /\ clock \in Nat

\* What the worker and the notary signed as native was seen before.
SignedInv == \A s \in signed :
    /\ s.at \in 0..clock
    /\ Shaped(s.record) /\ VerifyRecord(s.record)
    /\ s.record.final_url = s.record.url => s.record.final_url = ""
    /\ s.record.fetched_by = NATIVE /\ s.record.worker_public_key \in Honest =>
            Witnessed(s.record, s.at, observed)

RecordsInv == \A r \in records \union run.docs :
    /\ Shaped(r) /\ VerifyRecord(r) /\ Stamped(r) /\ Agreeing(r, observed)
    /\ r.worker_public_key = Worker

AnswersInv == \A a \in answers :
    /\ Shaped(a) /\ VerifyRecord(a) /\ Stamped(a)
    /\ \E o \in observed : o.by = Notary /\ o.url = a.url /\ o.content_hash = a.content_hash

\* What reached the authority was signed before, so its tokens are later still.
AskedInv == \A d \in asked : d = Root \/ \E s \in signed : d = sha256(s.record.signature)

IssuedInv == \A t \in issued : \E d \in asked, g \in 0..clock :
    /\ t = Token(Tsa, d, g)
    /\ d = Root \/ \E s \in signed : d = sha256(s.record.signature) /\ s.at <= g

\* A token that verifies under the authority's certificate is one it issued.
ProofInv == proof # None =>
    /\ VerifyRecord(proof.record) /\ Stamped(proof.record)
    /\ proof.record.worker_public_key = Worker
    /\ proof.token # Malformed /\ SignatureValid(proof.token) /\ proof.token.cert = Tsa
            => proof.token \in issued

ManifestInv == manifest # None /\ manifest.corroboration # None =>
    manifest.corroboration.all_agree_on_hash

ChunkInv == chunk # None =>
    /\ chunk = [metadata |-> chunk.metadata, alterations |-> chunk.alterations]
    /\ chunk.metadata =
            [independent_observation |-> chunk.metadata.independent_observation,
             corroborations |-> chunk.metadata.corroborations,
             inverba_record |-> chunk.metadata.inverba_record]
    /\ chunk.metadata.inverba_record # None =>
            Shaped(chunk.metadata.inverba_record) /\ Stamped(chunk.metadata.inverba_record)

CustodyInv == /\ RunInv /\ SignedInv /\ RecordsInv /\ AnswersInv /\ AskedInv
              /\ IssuedInv /\ ProofInv /\ ManifestInv /\ ChunkInv

-----------------------------------------------------------------------------
(* What time and other people's steps leave as it was. *)

LEMMA StampedKept ==
    ASSUME NEW r, Stamped(r), signed \subseteq signed'
    PROVE  \E s \in signed' : r.signature = s.record.signature
BY DEF Stamped

LEMMA WitnessedKept ==
    ASSUME NEW r, NEW time, NEW seen, Witnessed(r, time, seen), NEW more, seen \subseteq more
    PROVE  Witnessed(r, time, more)
BY Zenon DEF Witnessed

LEMMA SignedKept ==
    ASSUME SignedInv, signed' = signed, observed \subseteq observed',
           clock \in Nat, clock' \in Nat, clock <= clock'
    PROVE  SignedInv'
<1> SUFFICES ASSUME NEW s \in signed
             PROVE  /\ s.at \in 0..clock'
                    /\ Shaped(s.record) /\ VerifyRecord(s.record)
                    /\ s.record.final_url = s.record.url => s.record.final_url = ""
                    /\ s.record.fetched_by = NATIVE /\ s.record.worker_public_key \in Honest
                        => Witnessed(s.record, s.at, observed')
  BY Zenon DEF SignedInv
<1>1. /\ s.at \in 0..clock
      /\ Shaped(s.record) /\ VerifyRecord(s.record)
      /\ s.record.final_url = s.record.url => s.record.final_url = ""
      /\ s.record.fetched_by = NATIVE /\ s.record.worker_public_key \in Honest =>
            Witnessed(s.record, s.at, observed)
  BY Zenon DEF SignedInv
<1>2. \A n \in 0..clock : n \in 0..clock'
  OBVIOUS
<1> QED  BY <1>1, <1>2, WitnessedKept, Zenon

LEMMA AgreeingKept ==
    ASSUME NEW r, NEW seen, Agreeing(r, seen), NEW more, seen \subseteq more
    PROVE  Agreeing(r, more)
BY Zenon DEF Agreeing, Corroborates

LEMMA RecordsKept ==
    ASSUME RecordsInv, records' \union run'.docs \subseteq records \union run.docs,
           signed \subseteq signed', observed \subseteq observed'
    PROVE  RecordsInv'
<1> SUFFICES ASSUME NEW r \in records \union run.docs
             PROVE  /\ Shaped(r) /\ VerifyRecord(r)
                    /\ \E s \in signed' : r.signature = s.record.signature
                    /\ Agreeing(r, observed') /\ r.worker_public_key = Worker
  BY Zenon DEF RecordsInv, Stamped
<1>1. /\ Shaped(r) /\ VerifyRecord(r) /\ Stamped(r) /\ Agreeing(r, observed)
      /\ r.worker_public_key = Worker
  BY Zenon DEF RecordsInv
<1> QED  BY <1>1, AgreeingKept, StampedKept, Zenon

LEMMA AnswersKept ==
    ASSUME AnswersInv, answers' = answers, signed \subseteq signed',
           observed \subseteq observed'
    PROVE  AnswersInv'
<1> SUFFICES ASSUME NEW a \in answers
             PROVE  /\ Shaped(a) /\ VerifyRecord(a)
                    /\ \E s \in signed' : a.signature = s.record.signature
                    /\ \E o \in observed' : /\ o.by = Notary /\ o.url = a.url
                                            /\ o.content_hash = a.content_hash
  BY Zenon DEF AnswersInv, Stamped
<1> QED  BY Zenon, StampedKept DEF AnswersInv

LEMMA AskedKept ==
    ASSUME AskedInv, asked' = asked, signed \subseteq signed'
    PROVE  AskedInv'
BY Zenon DEF AskedInv, Root

LEMMA IssuedKept ==
    ASSUME IssuedInv, issued' = issued, asked \subseteq asked', signed \subseteq signed',
           clock \in Nat, clock' \in Nat, clock <= clock'
    PROVE  IssuedInv'
<1>1. \A g \in 0..clock : g \in 0..clock'
  OBVIOUS
<1> SUFFICES ASSUME NEW t \in issued
             PROVE  \E d \in asked', g \in 0..clock' :
                        /\ t = Token(Tsa, d, g)
                        /\ \/ d = Root
                           \/ \E s \in signed' : d = sha256(s.record.signature) /\ s.at <= g
  BY Zenon DEF IssuedInv, Root, Token, Attributes, sha256
<1>2. PICK d \in asked, g \in 0..clock :
        /\ t = Token(Tsa, d, g)
        /\ d = Root \/ \E s \in signed : d = sha256(s.record.signature) /\ s.at <= g
  BY Zenon DEF IssuedInv
<1> QED  BY <1>1, <1>2, Zenon

LEMMA ProofKept ==
    ASSUME ProofInv, proof' = proof, signed \subseteq signed', issued \subseteq issued'
    PROVE  ProofInv'
<1>1. proof = None \/ \E s \in signed' : proof.record.signature = s.record.signature
  BY Zenon DEF ProofInv, Stamped
<1> QED  BY <1>1, Zenon DEF ProofInv, Stamped, VerifyRecord, SigningPayload,
             SignatureValid, sha256

LEMMA ChunkKept ==
    ASSUME ChunkInv, chunk' = chunk, signed \subseteq signed'
    PROVE  ChunkInv'
<1>1. chunk # None /\ chunk.metadata.inverba_record # None =>
        \E s \in signed' : chunk.metadata.inverba_record.signature = s.record.signature
  BY Zenon DEF ChunkInv, Stamped
<1> QED  BY <1>1, Zenon DEF ChunkInv, Stamped, Shaped

-----------------------------------------------------------------------------
(* The steps. *)

LEMMA InitInv == Init => CustodyInv
<1> SUFFICES ASSUME Init PROVE CustodyInv
  OBVIOUS
<1>1. RunInv
  BY DEF Init, RunInv
<1>2. SignedInv /\ AnswersInv /\ AskedInv /\ IssuedInv
  BY Zenon DEF Init, SignedInv, AnswersInv, AskedInv, IssuedInv
<1>3. RecordsInv
  BY DEF Init, RecordsInv
<1>4. ProofInv /\ ManifestInv /\ ChunkInv
  BY Zenon DEF Init, ProofInv, ManifestInv, ChunkInv
<1> QED  BY <1>1, <1>2, <1>3, <1>4 DEF CustodyInv

\* Time passes.
LEMMA TickInv == CustodyInv /\ Tick => CustodyInv'
<1> SUFFICES ASSUME CustodyInv, Tick PROVE CustodyInv'
  OBVIOUS
<1> USE DEF CustodyInv
<1>1. clock \in Nat /\ clock' \in Nat /\ clock <= clock'
  BY DEF RunInv, Tick
<1>2. RunInv'
  BY DEF RunInv, Tick
<1>3. /\ run' = run /\ records' = records /\ answers' = answers /\ asked' = asked
      /\ issued' = issued /\ proof' = proof /\ manifest' = manifest /\ chunk' = chunk
      /\ observed' = observed /\ signed' = signed
  BY DEF Tick
<1>4. SignedInv' /\ IssuedInv'
  BY <1>1, <1>3, SignedKept, IssuedKept
<1>5. RecordsInv' /\ AnswersInv' /\ AskedInv' /\ ProofInv' /\ ChunkInv'
  BY <1>3, RecordsKept, AnswersKept, AskedKept, ProofKept, ChunkKept
<1>6. ManifestInv'
  BY <1>3 DEF ManifestInv
<1> QED  BY <1>2, <1>4, <1>5, <1>6

\* The other steps, part by part, where they leave the part alone: SignedInv, IssuedInv.
LEMMA StillClock ==
    ASSUME CustodyInv, clock' = clock, observed \subseteq observed', signed \subseteq signed',
           asked \subseteq asked'
    PROVE  /\ signed' = signed => SignedInv'
           /\ issued' = issued => IssuedInv'
<1>1. clock \in Nat /\ clock' \in Nat /\ clock <= clock'
  BY DEF CustodyInv, RunInv
<1> QED  BY <1>1, SignedKept, IssuedKept DEF CustodyInv

LEMMA StartFetchInv == CustodyInv /\ StartFetch => CustodyInv'
<1> SUFFICES ASSUME CustodyInv, StartFetch PROVE CustodyInv'
  OBVIOUS
<1> USE DEF CustodyInv
<1>1. PICK now \in Readings : run' = [run EXCEPT !.started = now] /\ clock' = clock
  BY DEF StartFetch
<1>2. RunInv' /\ run'.docs = run.docs
  BY <1>1 DEF RunInv
<1>3. /\ records' = records /\ answers' = answers /\ asked' = asked
      /\ issued' = issued /\ proof' = proof /\ manifest' = manifest /\ chunk' = chunk
      /\ observed' = observed /\ signed' = signed /\ clock' = clock
  BY DEF StartFetch
<1>4. SignedInv' /\ IssuedInv'
  BY <1>3, StillClock
<1>5. RecordsInv' /\ AnswersInv' /\ AskedInv' /\ ProofInv' /\ ChunkInv'
  BY <1>2, <1>3, RecordsKept, AnswersKept, AskedKept, ProofKept, ChunkKept
<1>6. ManifestInv'
  BY <1>3 DEF ManifestInv
<1> QED  BY <1>2, <1>4, <1>5, <1>6

LEMMA ReturnDocsInv == CustodyInv /\ ReturnDocs => CustodyInv'
<1> SUFFICES ASSUME CustodyInv, ReturnDocs PROVE CustodyInv'
  OBVIOUS
<1> USE DEF CustodyInv
<1>1. run' = [run EXCEPT !.docs = {}] /\ records' = records \union run.docs
  BY DEF ReturnDocs
<1>2. /\ clock' = clock /\ answers' = answers /\ asked' = asked
      /\ issued' = issued /\ proof' = proof /\ manifest' = manifest /\ chunk' = chunk
      /\ observed' = observed /\ signed' = signed
  BY DEF ReturnDocs
<1>3. RunInv' /\ run'.docs = {}
  BY <1>1, <1>2 DEF RunInv
<1>4. SignedInv' /\ IssuedInv'
  BY <1>2, StillClock
<1>5. records' \union run'.docs \subseteq records \union run.docs
  BY <1>1, <1>3
<1>6. RecordsInv' /\ AnswersInv' /\ AskedInv' /\ ProofInv' /\ ChunkInv'
  BY <1>2, <1>5, RecordsKept, AnswersKept, AskedKept, ProofKept, ChunkKept
<1>7. ManifestInv'
  BY <1>2 DEF ManifestInv
<1> QED  BY <1>3, <1>4, <1>6, <1>7

\* One more record is signed, and if it claims a native fetch, of one that was seen.
LEMMA SignedMore ==
    ASSUME SignedInv, clock \in Nat, clock' = clock, observed \subseteq observed',
           NEW key, NEW fetched, signed' = signed \union {Signed(Sign(key, fetched))},
           fetched.fetched_by = NATIVE /\ key \in Honest =>
                Witnessed(Sign(key, fetched), clock, observed')
    PROVE  SignedInv' /\ \E s \in signed' : s.record = Sign(key, fetched)
<1> DEFINE new == Signed(Sign(key, fetched))
<1>1. new.at = clock /\ new.record = Sign(key, fetched)
  BY DEF Signed
<1>2. /\ Shaped(new.record) /\ VerifyRecord(new.record)
      /\ new.record.final_url = new.record.url => new.record.final_url = ""
      /\ new.record.worker_public_key = key
      /\ new.record.fetched_by = fetched.fetched_by
  <2>1. Shaped(Sign(key, fetched)) /\ VerifyRecord(Sign(key, fetched))
    BY SignVerifies, Zenon
  <2>2. Sign(key, fetched).final_url = Sign(key, fetched).url
            => Sign(key, fetched).final_url = ""
    BY SignNormalises, Zenon
  <2>3. Sign(key, fetched).worker_public_key = key
    BY SignClaims, Zenon
  <2>4. Sign(key, fetched).fetched_by = fetched.fetched_by
    BY SignDates, Zenon
  <2>5. new.record = Sign(key, fetched)
    BY <1>1
  <2> HIDE DEF new
  <2> QED  BY <2>1, <2>2, <2>3, <2>4, <2>5, Zenon
<1>3. new.at \in 0..clock
  <2> HIDE DEF new
  <2> QED  BY <1>1
<1>4. \A s \in signed :
        /\ s.at \in 0..clock
        /\ Shaped(s.record) /\ VerifyRecord(s.record)
        /\ s.record.final_url = s.record.url => s.record.final_url = ""
        /\ s.record.fetched_by = NATIVE /\ s.record.worker_public_key \in Honest =>
                Witnessed(s.record, s.at, observed')
  BY WitnessedKept, Zenon DEF SignedInv
<1>5. new.record.fetched_by = NATIVE /\ new.record.worker_public_key \in Honest =>
        Witnessed(new.record, new.at, observed')
  <2> HIDE DEF new
  <2> QED  BY <1>1, <1>2, Zenon
<1>6. signed' = signed \union {new}
  OBVIOUS
<1> HIDE DEF new
<1>7. SignedInv'
  BY <1>2, <1>3, <1>4, <1>5, <1>6, Zenon DEF SignedInv
<1> QED  BY <1>1, <1>6, <1>7, Zenon

\* A record just signed is like the others.
LEMMA NewRecord ==
    ASSUME NEW key, NEW fetched, \E s \in signed' : s.record = Sign(key, fetched)
    PROVE  LET r == Sign(key, fetched)
           IN  /\ Shaped(r) /\ VerifyRecord(r)
               /\ \E s \in signed' : r.signature = s.record.signature
               /\ Agreeing(r, observed') /\ r.worker_public_key = key
<1> DEFINE r == Sign(key, fetched)
<1>1. Shaped(r) /\ VerifyRecord(r) /\ r.worker_public_key = key
  BY SignVerifies, SignClaims, Zenon
<1>2. r.corroborations = << >>
  BY SignsBare, Zenon
<1>3. \E s \in signed' : r.signature = s.record.signature
  BY Zenon
<1> HIDE DEF r
<1>4. /\ r.corroborations \in Seq({}) /\ DOMAIN r.corroborations = {}
  BY <1>2
<1>5. Agreeing(r, observed')
  BY <1>4, Zenon DEF Agreeing
<1> QED  BY <1>1, <1>3, <1>5, Zenon DEF r

LEMMA RecordsAdd ==
    ASSUME RecordsInv, signed \subseteq signed', observed \subseteq observed',
           NEW r, records' \union run'.docs \subseteq records \union run.docs \union {r},
           Shaped(r), VerifyRecord(r),
           \E s \in signed' : r.signature = s.record.signature,
           Agreeing(r, observed'), r.worker_public_key = Worker
    PROVE  RecordsInv'
<1> SUFFICES ASSUME NEW q \in records' \union run'.docs
             PROVE  /\ Shaped(q) /\ VerifyRecord(q)
                    /\ \E s \in signed' : q.signature = s.record.signature
                    /\ Agreeing(q, observed') /\ q.worker_public_key = Worker
  BY Zenon DEF RecordsInv, Stamped
<1>1. CASE q = r
  BY <1>1, Zenon
<1>2. CASE q \in records \union run.docs
  <2>1. /\ Shaped(q) /\ VerifyRecord(q) /\ Stamped(q) /\ Agreeing(q, observed)
        /\ q.worker_public_key = Worker
    BY <1>2, Zenon DEF RecordsInv
  <2> QED  BY <2>1, AgreeingKept, StampedKept, Zenon
<1> QED  BY <1>1, <1>2

LEMMA RunFacts ==
    ASSUME RunInv, run.started # None
    PROVE  /\ clock \in Nat /\ run.backend \in Backends
           /\ run.backend.kind = "callable" => MayWrap(run.backend.name)
BY DEF RunInv

\* A fetch that fails ends, or goes on; one that succeeds is signed.
LEMMA FinishFetchInv == CustodyInv /\ FinishFetch => CustodyInv'
<1> SUFFICES ASSUME CustodyInv, FinishFetch PROVE CustodyInv'
  OBVIOUS
<1> USE DEF CustodyInv
<1>0. /\ clock' = clock /\ answers' = answers /\ asked' = asked
      /\ issued' = issued /\ proof' = proof /\ manifest' = manifest /\ chunk' = chunk
      /\ run.started # None
  BY DEF FinishFetch
<1> DEFINE url == Head(run.urls)
           fetched(answer, now) == FetchBy(run.backend, url, answer, run.started, now)
<1>1. PICK answer \in Answers, now \in Readings :
        /\ IF answer = Raised THEN Failure(TRUE)
           ELSE IF ~Ok(fetched(answer, now)) THEN Failure(FALSE)
           ELSE Success(fetched(answer, now))
        /\ observed' = IF run.backend.kind = "native" /\ answer \notin {Raised, Failed}
                       THEN observed \union {Saw(Worker, url, answer, now)} ELSE observed
  BY Zenon DEF FinishFetch
<1> DEFINE f == fetched(answer, now)
           record == Sign(Worker, f)
<1>2. observed \subseteq observed'
  BY <1>1
<1>3. CASE Failure(TRUE) \/ Failure(FALSE)
  <2>1. records' = records /\ signed' = signed
    BY <1>3 DEF Failure
  <2>2. RunInv' /\ run'.docs \subseteq run.docs
    BY <1>0, <1>3 DEF RunInv, Failure
  <2>3. SignedInv' /\ IssuedInv'
    BY <1>0, <1>2, <2>1, StillClock
  <2>4. records' \union run'.docs \subseteq records \union run.docs
    BY <2>1, <2>2
  <2>5. RecordsInv' /\ AnswersInv' /\ AskedInv' /\ ProofInv' /\ ChunkInv'
    BY <1>0, <1>2, <2>1, <2>4, RecordsKept, AnswersKept, AskedKept, ProofKept, ChunkKept
  <2>6. ManifestInv'
    BY <1>0 DEF ManifestInv
  <2> QED  BY <2>2, <2>3, <2>5, <2>6
<1>4. CASE answer # Raised /\ Ok(f) /\ Success(f)
  <2>1. signed' = signed \union {Signed(record)}
    BY <1>4, Zenon DEF Success
  <2>2. /\ RunInv'
        /\ records' \union run'.docs \subseteq records \union run.docs \union {record}
    BY <1>0, <1>4 DEF RunInv, Success
  <2>3. /\ f.url = url
        /\ run.backend.kind # "native" => f.fetched_by # NATIVE
        /\ run.backend.kind = "native" =>
                /\ answer # Failed /\ f.fetched_at = now
                /\ f.content = answer.content
                /\ f.status_code = answer.status_code
    <3>1. /\ run.backend \in Backends
          /\ run.backend.kind = "callable" => MayWrap(run.backend.name)
      BY <1>0, RunFacts, Zenon
    <3> DEFINE g(u) == FetchBy(run.backend, u, answer, run.started, now)
    <3>2. \A u : /\ g(u).url = u
                 /\ run.backend.kind # "native" => g(u).fetched_by # NATIVE
                 /\ run.backend.kind = "native" /\ Ok(g(u)) =>
                        /\ answer # Failed /\ g(u).fetched_at = now
                        /\ g(u).content = answer.content
                        /\ g(u).status_code = answer.status_code
      BY <3>1, FetchFacts, CustodyAssumption
    <3>3. f = g(url)
      OBVIOUS
    <3> HIDE DEF f, url, g
    <3> QED  BY <1>4, <3>2, <3>3, Zenon
  <2>4. clock \in Nat
    BY <1>0, RunFacts
  <2>5. f.fetched_by = NATIVE => Witnessed(record, clock, observed')
    <3> SUFFICES ASSUME run.backend.kind = "native"
                 PROVE  Witnessed(record, clock, observed')
      BY <2>3
    <3>1. Saw(Worker, url, answer, now) \in observed'
      BY <1>1, <1>4, <2>3
    <3>2. /\ record.url = f.url
          /\ record.content_hash = hash_content(f.content)
          /\ record.status_code = f.status_code
          /\ record.worker_public_key = Worker
      <4> HIDE DEF f
      <4> QED  BY SignClaims, Zenon
    <3>3. record.fetched_at = f.fetched_at
      <4> HIDE DEF f
      <4> QED  BY SignDates, Zenon
    <3> HIDE DEF record, f, url
    <3>4. Attests(record, Saw(Worker, url, answer, now))
      BY <2>3, <3>2, <3>3 DEF Attests, Saw
    <3>5. Saw(Worker, url, answer, now).when \in 0..clock
      BY <2>4 DEF Saw
    <3> QED  BY <3>1, <3>4, <3>5, Zenon DEF Witnessed
  <2>6. SignedInv' /\ \E s \in signed' : s.record = record
    <3> HIDE DEF f
    <3> QED  BY <1>0, <1>2, <2>1, <2>4, <2>5, SignedMore
  <2>7. signed \subseteq signed'
    BY <2>1
  <2>8. RecordsInv'
    <3>1. /\ Shaped(record) /\ VerifyRecord(record)
          /\ \E s \in signed' : record.signature = s.record.signature
          /\ Agreeing(record, observed') /\ record.worker_public_key = Worker
      BY <2>6, NewRecord, Zenon
    <3> HIDE DEF record
    <3> QED  BY <1>2, <2>2, <2>7, <3>1, RecordsAdd
  <2>9. IssuedInv' /\ AnswersInv' /\ AskedInv' /\ ProofInv' /\ ChunkInv'
    BY <1>0, <1>2, <2>4, <2>7, IssuedKept, AnswersKept, AskedKept, ProofKept, ChunkKept
  <2>10. ManifestInv'
    BY <1>0 DEF ManifestInv
  <2> QED  BY <2>2, <2>6, <2>8, <2>9, <2>10
<1> QED  BY <1>1, <1>3, <1>4

\* What is the same when only the records change.
LEMMA NotarizedElsewhere ==
    ASSUME CustodyInv, clock' = clock, run' = run, answers' = answers, asked' = asked,
           issued' = issued, proof' = proof, manifest' = manifest, chunk' = chunk,
           observed' = observed, signed' = signed, RecordsInv'
    PROVE  CustodyInv'
<1> USE DEF CustodyInv
<1>1. RunInv'
  BY DEF RunInv
<1>2. SignedInv' /\ IssuedInv'
  BY StillClock
<1>3. AnswersInv' /\ AskedInv' /\ ProofInv' /\ ChunkInv'
  BY AnswersKept, AskedKept, ProofKept, ChunkKept
<1>4. ManifestInv'
  BY DEF ManifestInv
<1> QED  BY <1>1, <1>2, <1>3, <1>4

\* The notary observes, and signs what it saw.
LEMMA NotaryObservesInv == CustodyInv /\ NotaryObserves => CustodyInv'
<1> SUFFICES ASSUME CustodyInv, NotaryObserves PROVE CustodyInv'
  OBVIOUS
<1> USE DEF CustodyInv
<1>0. /\ clock' = clock /\ run' = run /\ records' = records /\ asked' = asked
      /\ issued' = issued /\ proof' = proof /\ manifest' = manifest /\ chunk' = chunk
  BY DEF NotaryObserves
<1>1. PICK url \in Urls, answer \in Answers \ {Raised, Failed}, now \in Readings :
        LET f == FetchHttp(url, answer, now)
            record == Sign(Notary, f)
        IN  /\ answers' = answers \union {record}
            /\ observed' = observed \union {Saw(Notary, url, answer, now)}
            /\ signed' = signed \union {Signed(record)}
  BY Zenon DEF NotaryObserves
<1> DEFINE f == FetchHttp(url, answer, now)
           record == Sign(Notary, f)
<1>2. /\ f.url = url /\ f.content = answer.content /\ f.status_code = answer.status_code
      /\ f.fetched_at = now
  BY DEF FetchHttp, FetchResult
<1>3. /\ answers' = answers \union {record}
      /\ observed' = observed \union {Saw(Notary, url, answer, now)}
      /\ signed' = signed \union {Signed(record)}
  BY <1>1, Zenon
<1>4. /\ record.url = f.url
      /\ record.content_hash = hash_content(f.content)
      /\ record.status_code = f.status_code
      /\ record.worker_public_key = Notary
  <2> HIDE DEF f
  <2> QED  BY SignClaims, Zenon
<1>5. record.fetched_at = f.fetched_at
  <2> HIDE DEF f
  <2>1. record.fetched_at = f.fetched_at /\ record.fetched_by = f.fetched_by
    BY SignDates, Zenon
  <2> QED  BY <2>1
<1>6. clock \in Nat
  BY DEF RunInv
<1>7. /\ Attests(record, Saw(Notary, url, answer, now))
      /\ Saw(Notary, url, answer, now).when \in 0..clock
  <2> HIDE DEF record, f
  <2> QED  BY <1>2, <1>4, <1>5, <1>6 DEF Attests, Saw
<1>8. /\ observed \subseteq observed' /\ signed \subseteq signed' /\ answers \subseteq answers'
      /\ Witnessed(record, clock, observed')
  <2> HIDE DEF record, f
  <2> QED  BY <1>3, <1>7, Zenon DEF Witnessed
<1>9. SignedInv' /\ \E s \in signed' : s.record = record
  <2> HIDE DEF f
  <2> QED  BY <1>0, <1>3, <1>6, <1>8, SignedMore
<1>10. AnswersInv'
  <2>1. /\ Shaped(record) /\ VerifyRecord(record)
        /\ \E s \in signed' : record.signature = s.record.signature
    BY <1>9, NewRecord, Zenon
  <2>2. \E o \in observed' : /\ o.by = Notary /\ o.url = record.url
                             /\ o.content_hash = record.content_hash
    <3> HIDE DEF record, f
    <3> QED  BY <1>4, <1>8 DEF Witnessed, Attests
  <2> HIDE DEF record, f
  <2> SUFFICES ASSUME NEW a \in answers'
               PROVE  /\ Shaped(a) /\ VerifyRecord(a)
                      /\ \E s \in signed' : a.signature = s.record.signature
                      /\ \E o \in observed' : /\ o.by = Notary /\ o.url = a.url
                                              /\ o.content_hash = a.content_hash
    BY Zenon DEF AnswersInv, Stamped
  <2>3. CASE a = record
    BY <2>1, <2>2, <2>3, Zenon
  <2>4. CASE a \in answers
    BY <1>8, <2>4, StampedKept, Zenon DEF AnswersInv
  <2> QED  BY <1>3, <2>3, <2>4
<1>11. RunInv'
  BY <1>0 DEF RunInv
<1>12. records' \union run'.docs \subseteq records \union run.docs
  BY <1>0
<1>13. RecordsInv' /\ IssuedInv' /\ AskedInv' /\ ProofInv' /\ ChunkInv'
  BY <1>0, <1>6, <1>8, <1>12, RecordsKept, IssuedKept, AskedKept, ProofKept, ChunkKept
<1>14. ManifestInv'
  BY <1>0 DEF ManifestInv
<1> QED  BY <1>9, <1>10, <1>11, <1>13, <1>14

\* What somebody else signs changes nothing of what the worker and the notary did.
LEMMA ForgeInv == CustodyInv /\ Forge => CustodyInv'
<1> SUFFICES ASSUME CustodyInv, Forge PROVE CustodyInv'
  OBVIOUS
<1> USE DEF CustodyInv
<1>0. /\ clock' = clock /\ run' = run /\ records' = records /\ answers' = answers
      /\ asked' = asked /\ issued' = issued /\ proof' = proof /\ manifest' = manifest
      /\ chunk' = chunk /\ observed' = observed
  BY DEF Forge
<1> DEFINE f(r) == FetchResult(r.url, r.final_url, 200, r.content_hash.sha256,
                               r.content_type, FALSE, r.fetched_at, NATIVE)
<1>1. PICK r \in records : signed' = signed \union {Signed(Sign(Rogue, f(r)))}
  BY Zenon DEF Forge
<1>2. clock \in Nat /\ clock' \in Nat /\ clock <= clock'
  BY <1>0 DEF RunInv
<1>3. Rogue \notin Honest
  BY CustodyAssumption DEF CustodyAssumption, Honest
<1>4. signed \subseteq signed' /\ observed \subseteq observed'
  BY <1>0, <1>1
<1>5. SignedInv'
  <2> HIDE DEF f
  <2> QED  BY <1>0, <1>1, <1>2, <1>3, <1>4, SignedMore
<1>6. RunInv'
  BY <1>0 DEF RunInv
<1>7. /\ records' \union run'.docs \subseteq records \union run.docs
      /\ asked \subseteq asked' /\ issued \subseteq issued'
  BY <1>0
<1>8. RecordsInv' /\ AnswersInv' /\ AskedInv' /\ IssuedInv' /\ ProofInv' /\ ChunkInv'
  BY <1>0, <1>2, <1>4, <1>7, RecordsKept, AnswersKept, AskedKept, IssuedKept, ProofKept,
     ChunkKept
<1>9. ManifestInv'
  BY <1>0 DEF ManifestInv
<1> QED  BY <1>5, <1>6, <1>8, <1>9

\* An answer that matches verifies, and under the notary's key it is one the notary gave,
\* whatever the transport made of it.
LEMMA MatchCorroborates ==
    ASSUME CustodyInv, NEW record \in records, NEW answer, answer \in Delivered(record),
           Agreement(record, answer) = "match"
    PROVE  Corroborates(answer, record, observed)
<1>1. /\ answer # None /\ answer # Refusal /\ VerifyRecord(answer)
      /\ answer.content_hash = record.content_hash
  BY DEF Agreement
<1>a. AnswersInv
  BY DEF CustodyInv
<1>2. ASSUME answer \in answers PROVE Corroborates(answer, record, observed)
  BY <1>1, <1>2, <1>a, Zenon DEF AnswersInv, Corroborates
<1>3. CASE \E a \in answers : answer = [a EXCEPT !.content_hash = record.content_hash]
  <2>1. PICK a \in answers : answer = [a EXCEPT !.content_hash = record.content_hash]
    BY <1>3
  <2>2. Shaped(a) /\ VerifyRecord(a)
    BY <1>a, Zenon DEF AnswersInv
  <2>3. answer.signature = a.signature
    BY <2>1, <2>2 DEF Shaped
  <2>4. a.content_hash = answer.content_hash
    BY <1>1, <2>2, <2>3, SameSignature, Zenon
  <2>5. answer = a
    BY <1>1, <2>1, <2>2, <2>4 DEF Shaped
  <2> QED  BY <1>2, <2>5
<1>4. CASE answer \in Forgeries
  <2>1. answer.worker_public_key = Rogue
    BY <1>4, Zenon DEF Forgeries
  <2> QED  BY <1>1, <2>1, CustodyAssumption DEF Corroborates, CustodyAssumption
<1>5. CASE answer = [record EXCEPT !.corroborations = << >>]
  <2>1. Shaped(record) /\ record.worker_public_key = Worker
    BY Zenon DEF CustodyInv, RecordsInv
  <2>2. answer.worker_public_key = Worker
    BY <1>5, <2>1 DEF Shaped
  <2> QED  BY <1>1, <2>2, CustodyAssumption DEF Corroborates, CustodyAssumption
<1> QED  BY <1>1, <1>2, <1>3, <1>4, <1>5 DEF Delivered

LEMMA NotarizeInv == CustodyInv /\ Notarize => CustodyInv'
<1> SUFFICES ASSUME CustodyInv, Notarize PROVE CustodyInv'
  OBVIOUS
<1> USE DEF CustodyInv
<1>0. /\ clock' = clock /\ run' = run /\ answers' = answers /\ asked' = asked
      /\ issued' = issued /\ proof' = proof /\ manifest' = manifest /\ chunk' = chunk
      /\ observed' = observed /\ signed' = signed
  BY DEF Notarize
<1>a. PICK record \in records : \E answer \in Delivered(record) :
        records' = (records \ {record}) \union {Notarized(record, answer)}
  BY Zenon DEF Notarize
<1>1. PICK answer \in Delivered(record) :
        records' = (records \ {record}) \union {Notarized(record, answer)}
  BY <1>a
<1>2. /\ Shaped(record) /\ VerifyRecord(record) /\ Stamped(record)
      /\ Agreeing(record, observed) /\ record.worker_public_key = Worker
  BY Zenon DEF RecordsInv
<1>3. CASE Agreement(record, answer) # "match"
  <2>1. Notarized(record, answer) = record
    BY <1>3 DEF Notarized
  <2>2. records' \union run'.docs \subseteq records \union run.docs
    BY <1>0, <1>1, <2>1
  <2> QED  BY <1>0, <2>2, RecordsKept, NotarizedElsewhere
<1>4. CASE Agreement(record, answer) = "match"
  <2> DEFINE c == Append(record.corroborations, answer)
             n == [record EXCEPT !.corroborations = c]
  <2>1. Notarized(record, answer) = n
    BY <1>4, Zenon DEF Notarized
  <2>2. Corroborates(answer, record, observed)
    BY <1>4, MatchCorroborates
  <2>3. /\ \E S : c \in Seq(S)
        /\ \A i \in DOMAIN c : Corroborates(c[i], record, observed)
    <3>1. PICK S : record.corroborations \in Seq(S)
      BY <1>2, Zenon DEF Agreeing
    <3>2. c \in Seq(S \union {answer})
      BY <3>1
    <3>3. \A i \in DOMAIN c : i \in DOMAIN record.corroborations \/ c[i] = answer
      BY <3>1
    <3>4. \A i \in DOMAIN record.corroborations : c[i] = record.corroborations[i]
      BY <3>1
    <3>5. \A i \in DOMAIN record.corroborations :
                Corroborates(record.corroborations[i], record, observed)
      BY <1>2, Zenon DEF Agreeing
    <3> HIDE DEF c
    <3> QED  BY <2>2, <3>2, <3>3, <3>4, <3>5, Zenon
  <2>4. /\ Shaped(n) /\ n.corroborations = c /\ n.signature = record.signature
        /\ n.content_hash = record.content_hash /\ VerifyRecord(n)
        /\ n.worker_public_key = Worker
    <3> HIDE DEF c
    <3>1. n.worker_public_key = record.worker_public_key
      BY <1>2 DEF Shaped
    <3> HIDE DEF n
    <3> QED  BY <1>2, <3>1, ShapedExcept DEF n
  <2>5. records' \union run'.docs \subseteq records \union run.docs \union {n}
    <3> HIDE DEF n
    <3> QED  BY <1>0, <1>1, <2>1
  <2>6. \E s \in signed' : n.signature = s.record.signature
    <3> HIDE DEF n
    <3> QED  BY <1>0, <1>2, <2>4, StampedKept
  <2> HIDE DEF n, c
  <2>7. Agreeing(n, observed')
    <3>1. \A a : Corroborates(a, record, observed) => Corroborates(a, n, observed)
      BY <2>4, Zenon DEF Corroborates
    <3>2. Agreeing(n, observed)
      BY <2>3, <2>4, <3>1, Zenon DEF Agreeing
    <3> QED  BY <1>0, <3>2
  <2>8. signed \subseteq signed' /\ observed \subseteq observed'
    BY <1>0
  <2>9. RecordsInv'
    BY <2>4, <2>5, <2>6, <2>7, <2>8, RecordsAdd
  <2> QED  BY <1>0, <2>9, NotarizedElsewhere
<1> QED  BY <1>3, <1>4

\* What is the same when only the uses of a record change.
LEMMA UsesElsewhere ==
    ASSUME CustodyInv, clock' = clock, run' = run, records' = records, answers' = answers,
           observed' = observed, signed' = signed
    PROVE  /\ RunInv' /\ SignedInv' /\ RecordsInv' /\ AnswersInv'
           /\ asked' = asked => AskedInv'
           /\ issued' = issued /\ asked \subseteq asked' => IssuedInv'
           /\ proof' = proof /\ issued \subseteq issued' => ProofInv'
           /\ manifest' = manifest => ManifestInv'
           /\ chunk' = chunk => ChunkInv'
<1> USE DEF CustodyInv
<1>1. RunInv'
  BY DEF RunInv
<1>2. clock \in Nat /\ clock' \in Nat /\ clock <= clock'
  BY DEF RunInv
<1>3. SignedInv' /\ RecordsInv' /\ AnswersInv'
  BY <1>2, SignedKept, RecordsKept, AnswersKept
<1>4. asked' = asked => AskedInv'
  BY AskedKept
<1>5. issued' = issued /\ asked \subseteq asked' => IssuedInv'
  BY <1>2, IssuedKept
<1>6. proof' = proof /\ issued \subseteq issued' => ProofInv'
  BY ProofKept
<1>7. manifest' = manifest => ManifestInv'
  BY DEF ManifestInv
<1>8. chunk' = chunk => ChunkInv'
  BY ChunkKept
<1> QED  BY <1>1, <1>3, <1>4, <1>5, <1>6, <1>7, <1>8

LEMMA SendDigestInv == CustodyInv /\ SendDigest => CustodyInv'
<1> SUFFICES ASSUME CustodyInv, SendDigest PROVE CustodyInv'
  OBVIOUS
<1>0. /\ clock' = clock /\ run' = run /\ records' = records /\ answers' = answers
      /\ issued' = issued /\ proof' = proof /\ manifest' = manifest /\ chunk' = chunk
      /\ observed' = observed /\ signed' = signed
  BY DEF SendDigest
<1>1. PICK digest \in {digest_for_record(r) : r \in records} \union
                      {digest_for_manifest_root(Root)} : asked' = asked \union {digest}
  BY Zenon DEF SendDigest
<1>2. digest = Root \/ \E s \in signed : digest = sha256(s.record.signature)
  <2>1. CASE digest = digest_for_manifest_root(Root)
    BY <2>1, Zenon DEF digest_for_manifest_root
  <2>2. CASE \E r \in records : digest = digest_for_record(r)
    <3>1. PICK r \in records : digest = digest_for_record(r)
      BY <2>2
    <3>2. Stamped(r)
      BY Zenon DEF CustodyInv, RecordsInv
    <3> QED  BY <3>1, <3>2, Zenon DEF Stamped, digest_for_record
  <2> QED  BY <2>1, <2>2
<1>3. AskedInv'
  BY <1>0, <1>1, <1>2, Zenon DEF CustodyInv, AskedInv, Root
<1>4. asked \subseteq asked' /\ issued \subseteq issued'
  BY <1>0, <1>1
<1> QED  BY <1>0, <1>3, <1>4, UsesElsewhere DEF CustodyInv

\* A token is made of a digest that is there, so of a record signed by then.
LEMMA TsaIssuesInv == CustodyInv /\ TsaIssues => CustodyInv'
<1> SUFFICES ASSUME CustodyInv, TsaIssues PROVE CustodyInv'
  OBVIOUS
<1>0. /\ clock' = clock /\ run' = run /\ records' = records /\ answers' = answers
      /\ asked' = asked /\ proof' = proof /\ manifest' = manifest /\ chunk' = chunk
      /\ observed' = observed /\ signed' = signed
  BY DEF TsaIssues
<1>1. PICK digest \in asked : issued' = issued \union {Token(Tsa, digest, clock)}
  BY Zenon DEF TsaIssues
<1>2. digest = Root \/ \E s \in signed : digest = sha256(s.record.signature) /\ s.at <= clock
  <2>1. digest = Root \/ \E s \in signed : digest = sha256(s.record.signature)
    BY Zenon DEF CustodyInv, AskedInv
  <2>2. \A s \in signed : s.at <= clock
    <3> SUFFICES ASSUME NEW s \in signed PROVE s.at <= clock
      OBVIOUS
    <3>1. s.at \in 0..clock
      BY Zenon DEF CustodyInv, SignedInv
    <3>2. clock \in Nat
      BY DEF CustodyInv, RunInv
    <3> QED  BY <3>1, <3>2
  <2> QED  BY <2>1, <2>2, Zenon
<1>3. clock \in 0..clock
  BY DEF CustodyInv, RunInv
<1>4. IssuedInv'
  <2> SUFFICES ASSUME NEW t \in issued'
               PROVE  \E d \in asked, g \in 0..clock :
                        /\ t = Token(Tsa, d, g)
                        /\ \/ d = Root
                           \/ \E s \in signed : d = sha256(s.record.signature) /\ s.at <= g
    BY <1>0, Zenon DEF IssuedInv, Root, Token, Attributes, sha256
  <2>1. CASE t \in issued
    BY <2>1, Zenon DEF CustodyInv, IssuedInv
  <2>2. CASE t = Token(Tsa, digest, clock)
    BY <1>2, <1>3, <2>2, Zenon
  <2> QED  BY <1>1, <2>1, <2>2
<1>5. asked \subseteq asked' /\ issued \subseteq issued'
  BY <1>0, <1>1
<1> QED  BY <1>0, <1>4, <1>5, UsesElsewhere DEF CustodyInv

\* Of all that may be shown for a digest, what verifies under the authority's
\* certificate is a token it issued.
LEMMA TokensGenuine ==
    ASSUME IssuedInv, CustodyAssumption, NEW digest, NEW token, token \in Tokens(digest),
           token # None, token # Malformed, SignatureValid(token), token.cert = Tsa
    PROVE  token \in issued
<1> DEFINE forged == Token(Rogue, digest, 0)
<1>0. forged = [tst |-> forged.tst, attrs |-> Attributes(forged.tst), cert |-> Rogue,
                signature |-> [by |-> Rogue, over |-> Attributes(forged.tst)]]
  BY DEF Token
<1>1. /\ token.attrs.message_digest = sha256(token.tst)
      /\ token.cert # None
      /\ token.attrs # None
      /\ token.signature = [by |-> Tsa, over |-> token.attrs]
  BY Zenon DEF SignatureValid
<1>2. ASSUME token \in {forged, [forged EXCEPT !.cert = Tsa], [forged EXCEPT !.cert = None]}
      PROVE  FALSE
  <2>1. token.signature = [by |-> Rogue, over |-> Attributes(forged.tst)]
    <3> HIDE DEF forged
    <3> QED  BY <1>0, <1>2
  <2>2. Rogue = Tsa
    BY <1>1, <2>1, SignaturesAlike
  <2> QED  BY <2>2 DEF CustodyAssumption
<1>3. ASSUME NEW t \in issued,
             token \in {t, [t EXCEPT !.tst.imprint = digest], [t EXCEPT !.tst.gen_time = 0],
                        [t EXCEPT !.attrs = None],
                        [t EXCEPT !.tst.gen_time = 0, !.attrs = forged.attrs]}
      PROVE  token \in issued
  <2>1. PICK d \in asked, g \in 0..clock : t = Token(Tsa, d, g)
    BY Zenon DEF IssuedInv
  <2> DEFINE tst == [imprint |-> d, gen_time |-> g]
  <2>2. t = [tst |-> tst, attrs |-> Attributes(tst), cert |-> Tsa,
             signature |-> [by |-> Tsa, over |-> Attributes(tst)]]
    BY <2>1, Zenon DEF Token
  <2>3. token.signature = t.signature /\ token.cert = t.cert
    <3> HIDE DEF forged
    <3> QED  BY <1>3, <2>2
  <2>4. token.attrs = Attributes(tst)
    <3>1. token.signature = [by |-> Tsa, over |-> Attributes(tst)]
      BY <2>2, <2>3
    <3> QED  BY <1>1, <3>1, SignaturesAlike
  <2>5. token.tst = tst
    BY <1>1, <2>4 DEF Attributes, sha256
  <2>6. token = [tst |-> token.tst, attrs |-> token.attrs, cert |-> token.cert,
                 signature |-> token.signature]
    <3> HIDE DEF forged
    <3> QED  BY <1>3, <2>2
  <2>7. token = t
    BY <2>2, <2>3, <2>4, <2>5, <2>6
  <2> QED  BY <2>7
<1> QED  BY <1>2, <1>3 DEF Tokens

LEMMA ReceiveTokenInv == CustodyInv /\ ReceiveToken => CustodyInv'
<1> SUFFICES ASSUME CustodyInv, ReceiveToken PROVE CustodyInv'
  OBVIOUS
<1>0. /\ clock' = clock /\ run' = run /\ records' = records /\ answers' = answers
      /\ asked' = asked /\ issued' = issued /\ manifest' = manifest /\ chunk' = chunk
      /\ observed' = observed /\ signed' = signed
  BY DEF ReceiveToken
<1>a. PICK record \in records :
        \E answer \in Tokens(digest_for_record(record)) :
            /\ request_timestamp(answer) # None
            /\ proof' = [record |-> record, token |-> request_timestamp(answer)]
  BY Zenon DEF ReceiveToken
<1>1. PICK answer \in Tokens(digest_for_record(record)) :
            /\ request_timestamp(answer) # None
            /\ proof' = [record |-> record, token |-> request_timestamp(answer)]
  BY <1>a
<1>2. answer # None /\ request_timestamp(answer) = answer
  BY <1>1, Zenon DEF request_timestamp
<1>3. proof'.record = record /\ proof'.token = answer
  BY <1>1, <1>2
<1>4. answer # Malformed /\ SignatureValid(answer) /\ answer.cert = Tsa => answer \in issued
  BY <1>2, TokensGenuine, CustodyAssumption DEF CustodyInv
<1>5. VerifyRecord(record) /\ Stamped(record) /\ record.worker_public_key = Worker
  BY Zenon DEF CustodyInv, RecordsInv
<1>6. ProofInv'
  <2> SUFFICES /\ VerifyRecord(proof'.record)
               /\ \E s \in signed' : proof'.record.signature = s.record.signature
               /\ proof'.record.worker_public_key = Worker
               /\ proof'.token # Malformed /\ SignatureValid(proof'.token)
                     /\ proof'.token.cert = Tsa => proof'.token \in issued'
    BY Zenon DEF ProofInv, Stamped, VerifyRecord, SigningPayload, SignatureValid, sha256
  <2> QED  BY <1>0, <1>3, <1>4, <1>5, Zenon DEF Stamped
<1>7. asked \subseteq asked' /\ issued \subseteq issued'
  BY <1>0
<1> QED  BY <1>0, <1>6, <1>7, UsesElsewhere DEF CustodyInv

LEMMA ExportInv == CustodyInv /\ Export => CustodyInv'
<1> SUFFICES ASSUME CustodyInv, Export PROVE CustodyInv'
  OBVIOUS
<1>0. /\ clock' = clock /\ run' = run /\ records' = records /\ answers' = answers
      /\ asked' = asked /\ issued' = issued /\ proof' = proof /\ chunk' = chunk
      /\ observed' = observed /\ signed' = signed
  BY DEF Export
<1>1. PICK record \in records : manifest' = BuildManifest(record)
  BY Zenon DEF Export
<1>2. \A i \in DOMAIN record.corroborations :
            record.corroborations[i].content_hash = record.content_hash
  BY Zenon DEF CustodyInv, RecordsInv, Agreeing, Corroborates
<1>3. \/ manifest'.corroboration = None
      \/ manifest'.corroboration.all_agree_on_hash =
            \A i \in DOMAIN record.corroborations :
                record.corroborations[i].content_hash = record.content_hash
  BY <1>1 DEF BuildManifest
<1>4. ManifestInv'
  BY <1>2, <1>3 DEF ManifestInv
<1>5. asked \subseteq asked' /\ issued \subseteq issued'
  BY <1>0
<1> QED  BY <1>0, <1>4, <1>5, UsesElsewhere DEF CustodyInv

\* What the store has is a record with a signature that was made.
LEMMA ChunkOf ==
    ASSUME NEW metadata, NEW alterations, NEW r,
           metadata.inverba_record = r,
           metadata = [independent_observation |-> metadata.independent_observation,
                       corroborations |-> metadata.corroborations,
                       inverba_record |-> r],
           chunk' = [metadata |-> metadata, alterations |-> alterations],
           r # None => Shaped(r) /\ \E s \in signed' : r.signature = s.record.signature
    PROVE  ChunkInv'
<1>1. chunk'.metadata = metadata /\ chunk'.alterations = alterations
  BY Zenon
<1> QED  BY <1>1, Zenon DEF ChunkInv, Shaped, Stamped

LEMMA StoreInv == CustodyInv /\ Store => CustodyInv'
<1> SUFFICES ASSUME CustodyInv, Store PROVE CustodyInv'
  OBVIOUS
<1>0. /\ clock' = clock /\ run' = run /\ records' = records /\ answers' = answers
      /\ asked' = asked /\ issued' = issued /\ proof' = proof /\ manifest' = manifest
      /\ observed' = observed /\ signed' = signed
  BY DEF Store
<1>1. PICK record \in records : chunk' = [metadata |-> Metadata(record), alterations |-> 0]
  BY Zenon DEF Store
<1>2. Shaped(record) /\ \E s \in signed' : record.signature = s.record.signature
  BY <1>0, Zenon DEF CustodyInv, RecordsInv, Stamped
<1>3. Metadata(record) = [independent_observation |-> Metadata(record).independent_observation,
                          corroborations |-> Metadata(record).corroborations,
                          inverba_record |-> record]
      /\ Metadata(record).inverba_record = record
  BY DEF Metadata
<1>4. ChunkInv'
  BY <1>1, <1>2, <1>3, ChunkOf
<1>5. asked \subseteq asked' /\ issued \subseteq issued'
  BY <1>0
<1> QED  BY <1>0, <1>4, <1>5, UsesElsewhere DEF CustodyInv

LEMMA AlteredStamped ==
    ASSUME NEW r, Shaped(r), Stamped(r), NEW q, q \in Altered(r)
    PROVE  Shaped(q) /\ Stamped(q)
<1>1. CASE \E s \in signed : q = [r EXCEPT !.signature = s.record.signature]
  BY <1>1 DEF Shaped, Stamped
<1>2. CASE Shaped(q) /\ q.signature = r.signature
  BY <1>2, Zenon DEF Stamped
<1>3. ASSUME NEW v PROVE
        /\ Shaped([r EXCEPT !.url = v]) /\ [r EXCEPT !.url = v].signature = r.signature
        /\ Shaped([r EXCEPT !.final_url = v])
        /\ [r EXCEPT !.final_url = v].signature = r.signature
  BY DEF Shaped
<1>4. ASSUME NEW v PROVE
        /\ Shaped([r EXCEPT !.content_hash = v])
        /\ [r EXCEPT !.content_hash = v].signature = r.signature
        /\ Shaped([r EXCEPT !.fetched_by = v])
        /\ [r EXCEPT !.fetched_by = v].signature = r.signature
  BY DEF Shaped
<1>5. ASSUME NEW v PROVE
        /\ Shaped([r EXCEPT !.worker_public_key = v])
        /\ [r EXCEPT !.worker_public_key = v].signature = r.signature
        /\ Shaped([r EXCEPT !.corroborations = v])
        /\ [r EXCEPT !.corroborations = v].signature = r.signature
  BY DEF Shaped
<1>6. ASSUME NEW v PROVE
        /\ Shaped([r EXCEPT !.fetched_at = v])
        /\ [r EXCEPT !.fetched_at = v].signature = r.signature
        /\ Shaped([r EXCEPT !.status_code = v])
        /\ [r EXCEPT !.status_code = v].signature = r.signature
  BY DEF Shaped
<1>7. \/ \E v : \/ q = [r EXCEPT !.url = v] \/ q = [r EXCEPT !.final_url = v]
                \/ q = [r EXCEPT !.content_hash = v] \/ q = [r EXCEPT !.fetched_by = v]
                \/ q = [r EXCEPT !.worker_public_key = v]
                \/ q = [r EXCEPT !.corroborations = v]
                \/ q = [r EXCEPT !.fetched_at = v] \/ q = [r EXCEPT !.status_code = v]
      \/ \E s \in signed : q = [r EXCEPT !.signature = s.record.signature]
  BY Zenon DEF Altered
<1>8. ASSUME NEW v,
             \/ q = [r EXCEPT !.url = v] \/ q = [r EXCEPT !.final_url = v]
             \/ q = [r EXCEPT !.content_hash = v] \/ q = [r EXCEPT !.fetched_by = v]
             \/ q = [r EXCEPT !.worker_public_key = v]
             \/ q = [r EXCEPT !.corroborations = v]
             \/ q = [r EXCEPT !.fetched_at = v] \/ q = [r EXCEPT !.status_code = v]
      PROVE  Shaped(q) /\ q.signature = r.signature
  <2>1. CASE q = [r EXCEPT !.url = v] \/ q = [r EXCEPT !.final_url = v]
    BY <1>3, <2>1
  <2>2. CASE q = [r EXCEPT !.content_hash = v] \/ q = [r EXCEPT !.fetched_by = v]
    BY <1>4, <2>2
  <2>3. CASE q = [r EXCEPT !.worker_public_key = v] \/ q = [r EXCEPT !.corroborations = v]
    BY <1>5, <2>3
  <2>4. CASE q = [r EXCEPT !.fetched_at = v] \/ q = [r EXCEPT !.status_code = v]
    BY <1>6, <2>4
  <2> QED  BY <1>8, <2>1, <2>2, <2>3, <2>4
<1> QED  BY <1>1, <1>2, <1>7, <1>8, Zenon

LEMMA AlterInv == CustodyInv /\ Alter => CustodyInv'
<1> SUFFICES ASSUME CustodyInv, Alter PROVE CustodyInv'
  OBVIOUS
<1>0. /\ clock' = clock /\ run' = run /\ records' = records /\ answers' = answers
      /\ asked' = asked /\ issued' = issued /\ proof' = proof /\ manifest' = manifest
      /\ observed' = observed /\ signed' = signed
      /\ chunk # None /\ chunk.metadata.inverba_record # None
  BY DEF Alter
<1> DEFINE r == chunk.metadata.inverba_record
<1>1. PICK q \in {None} \union Forgeries \union Altered(r) :
        chunk' = [chunk EXCEPT !.metadata.inverba_record = q, !.alterations = @ + 1]
  BY Zenon DEF Alter
<1> DEFINE m == [independent_observation |-> chunk.metadata.independent_observation,
                 corroborations |-> chunk.metadata.corroborations, inverba_record |-> q]
<1>2. /\ chunk = [metadata |-> chunk.metadata, alterations |-> chunk.alterations]
      /\ chunk.metadata =
            [independent_observation |-> chunk.metadata.independent_observation,
             corroborations |-> chunk.metadata.corroborations,
             inverba_record |-> chunk.metadata.inverba_record]
      /\ Shaped(r) /\ Stamped(r)
  BY <1>0, Zenon DEF CustodyInv, ChunkInv
<1>3. \E n : chunk' = [metadata |-> m, alterations |-> n]
  BY <1>1, <1>2
<1>4. q # None => Shaped(q) /\ \E s \in signed' : q.signature = s.record.signature
  <2>1. q \in Forgeries => Shaped(q) /\ Stamped(q)
    BY Zenon DEF CustodyInv, SignedInv, Forgeries, Stamped
  <2> HIDE DEF r
  <2>2. q # None => Shaped(q) /\ Stamped(q)
    BY <1>1, <1>2, <2>1, AlteredStamped
  <2> QED  BY <1>0, <2>2, Zenon DEF Stamped
<1>5. /\ m.inverba_record = q
      /\ m = [independent_observation |-> m.independent_observation,
              corroborations |-> m.corroborations, inverba_record |-> q]
  OBVIOUS
<1>6. ChunkInv'
  <2> HIDE DEF m
  <2> QED  BY <1>3, <1>4, <1>5, ChunkOf
<1>7. asked \subseteq asked' /\ issued \subseteq issued'
  BY <1>0
<1> QED  BY <1>0, <1>6, <1>7, UsesElsewhere DEF CustodyInv

LEMMA NextInv == CustodyInv /\ [Next]_vars => CustodyInv'
<1> SUFFICES ASSUME CustodyInv, [Next]_vars PROVE CustodyInv'
  OBVIOUS
<1>1. CASE UNCHANGED vars
  <2>1. /\ clock' = clock /\ run' = run /\ records' = records /\ answers' = answers
        /\ asked' = asked /\ issued' = issued /\ proof' = proof /\ manifest' = manifest
        /\ chunk' = chunk /\ observed' = observed /\ signed' = signed
    BY <1>1 DEF vars
  <2>2. asked \subseteq asked' /\ issued \subseteq issued'
    BY <2>1
  <2> QED  BY <2>1, <2>2, UsesElsewhere DEF CustodyInv
<1>2. CASE Next
  BY <1>2, TickInv, StartFetchInv, FinishFetchInv, ReturnDocsInv, NotaryObservesInv,
     ForgeInv, NotarizeInv, SendDigestInv, TsaIssuesInv, ReceiveTokenInv, ExportInv, StoreInv,
     AlterInv DEF Next
<1> QED  BY <1>1, <1>2

-----------------------------------------------------------------------------
(* What follows. *)

\* Two records with one signature attest the same.
LEMMA AttestsSame ==
    ASSUME NEW r, NEW s, r.signature = s.signature, VerifyRecord(r), VerifyRecord(s),
           NEW o, Attests(s, o)
    PROVE  Attests(r, o)
<1>1. /\ r.url = s.url /\ r.content_hash = s.content_hash
      /\ r.fetched_at = s.fetched_at /\ r.status_code = s.status_code
      /\ r.worker_public_key = s.worker_public_key
  BY SameSignature, Zenon
<1> QED  BY <1>1 DEF Attests

LEMMA InvUpperBound == CustodyInv => UpperBound
<1> SUFFICES ASSUME CustodyInv, proof # None,
                    verify_timestamp(proof.token, digest_for_record(proof.record)).valid,
                    proof.token.cert = Tsa
             PROVE  LET time == verify_timestamp(proof.token,
                                                 digest_for_record(proof.record)).timestamp
                    IN  /\ \E s \in signed :
                                /\ s.record.signature = proof.record.signature
                                /\ s.at <= time
                        /\ proof.record.fetched_by = NATIVE =>
                                \E o \in observed : Attests(proof.record, o) /\ o.when <= time
  BY Zenon DEF UpperBound
<1>1. /\ proof.token # Malformed
      /\ proof.token.tst.imprint = sha256(proof.record.signature)
      /\ SignatureValid(proof.token)
      /\ verify_timestamp(proof.token, digest_for_record(proof.record)).timestamp
            = proof.token.tst.gen_time
  BY DEF verify_timestamp, digest_for_record
<1>2. /\ proof.token \in issued /\ VerifyRecord(proof.record)
      /\ proof.record.worker_public_key = Worker
  BY <1>1, Zenon DEF CustodyInv, ProofInv
<1>3. PICK d \in asked, g \in 0..clock :
        /\ proof.token = Token(Tsa, d, g)
        /\ d = Root \/ \E s \in signed : d = sha256(s.record.signature) /\ s.at <= g
  BY <1>2, Zenon DEF CustodyInv, IssuedInv
<1>4. d = sha256(proof.record.signature) /\ proof.token.tst.gen_time = g
  BY <1>1, <1>3 DEF Token
<1>5. d # Root
  BY <1>4 DEF sha256, Root
<1>6. PICK s \in signed : d = sha256(s.record.signature) /\ s.at <= g
  BY <1>3, <1>5
<1>7. s.record.signature = proof.record.signature
  BY <1>4, <1>6 DEF sha256
<1>8. /\ s.at \in 0..clock /\ VerifyRecord(s.record)
      /\ s.record.fetched_by = NATIVE /\ s.record.worker_public_key \in Honest =>
            Witnessed(s.record, s.at, observed)
  BY Zenon DEF CustodyInv, SignedInv
<1>9. /\ proof.record.fetched_by = s.record.fetched_by
      /\ proof.record.worker_public_key = s.record.worker_public_key
  BY <1>2, <1>7, <1>8, SameSignature, Zenon
<1>10. clock \in Nat
  BY DEF CustodyInv, RunInv
<1>11. ASSUME proof.record.fetched_by = NATIVE
       PROVE  \E o \in observed : Attests(proof.record, o) /\ o.when <= g
  <2>1. Witnessed(s.record, s.at, observed)
    BY <1>2, <1>8, <1>9, <1>11 DEF Honest
  <2>2. PICK o \in observed : Attests(s.record, o) /\ o.when \in 0..s.at
    BY <2>1, Zenon DEF Witnessed
  <2>3. Attests(proof.record, o)
    BY <1>2, <1>7, <1>8, <2>2, AttestsSame, Zenon
  <2>4. o.when <= g
    BY <1>6, <1>8, <1>10, <2>2
  <2> QED  BY <2>3, <2>4
<1> QED  BY <1>1, <1>4, <1>6, <1>7, <1>11, Zenon

LEMMA HeldStamped ==
    ASSUME CustodyInv, NEW r \in Held PROVE Stamped(r)
<1>1. CASE r \in records \union run.docs
  BY <1>1, Zenon DEF CustodyInv, RecordsInv
<1>2. CASE r \in answers
  BY <1>2, Zenon DEF CustodyInv, AnswersInv
<1>3. CASE chunk # None /\ chunk.metadata.inverba_record # None
           /\ r = chunk.metadata.inverba_record
  BY <1>3, Zenon DEF CustodyInv, ChunkInv
<1> QED  BY <1>1, <1>2, <1>3 DEF Held

LEMMA InvNative == CustodyInv => NativeMeansObserved
<1> SUFFICES ASSUME CustodyInv, NEW r \in Held, VerifyRecord(r), r.fetched_by = NATIVE,
                    r.worker_public_key \in {Worker, Notary}
             PROVE  \E o \in observed : Attests(r, o)
  BY Zenon DEF NativeMeansObserved
<1>1. PICK s \in signed : r.signature = s.record.signature
  BY HeldStamped DEF Stamped
<1>2. /\ VerifyRecord(s.record)
      /\ s.record.fetched_by = NATIVE /\ s.record.worker_public_key \in Honest =>
            Witnessed(s.record, s.at, observed)
  BY Zenon DEF CustodyInv, SignedInv
<1>3. /\ r.fetched_by = s.record.fetched_by
      /\ r.worker_public_key = s.record.worker_public_key
  BY <1>1, <1>2, SameSignature, Zenon
<1>4. Witnessed(s.record, s.at, observed)
  BY <1>2, <1>3 DEF Honest
<1> QED  BY <1>1, <1>2, <1>4, AttestsSame, Zenon DEF Witnessed

LEMMA InvCorroborations == CustodyInv => CorroborationsHold
<1> SUFFICES ASSUME CustodyInv PROVE CorroborationsHold
  OBVIOUS
<1>1. ASSUME NEW r \in records, NEW i \in DOMAIN r.corroborations
      PROVE  /\ VerifyRecord(r.corroborations[i])
             /\ r.corroborations[i].content_hash = r.content_hash
             /\ r.corroborations[i].worker_public_key = Notary =>
                    \E o \in observed : /\ o.by = Notary /\ o.url = r.corroborations[i].url
                                        /\ o.content_hash = r.content_hash
  BY Zenon DEF CustodyInv, RecordsInv, Agreeing, Corroborates
<1>2. ASSUME NEW r \in records
      PROVE  VerifyWithCorroborations(r).corroborations_agree # FALSE
  <2>1. \/ VerifyWithCorroborations(r).corroborations_agree = None
        \/ VerifyWithCorroborations(r).corroborations_agree =
              \A i \in DOMAIN r.corroborations :
                    r.corroborations[i].content_hash = r.content_hash
    BY DEF VerifyWithCorroborations
  <2>2. \/ VerifyWithCorroborations(r).corroborations_agree = None
        \/ VerifyWithCorroborations(r).corroborations_agree = TRUE
    BY <1>1, <2>1, Zenon
  <2> QED  BY <2>2, CustodyAssumption DEF CustodyAssumption
<1>3. manifest # None /\ manifest.corroboration # None =>
            manifest.corroboration.all_agree_on_hash
  BY Zenon DEF CustodyInv, ManifestInv
<1> QED  BY <1>1, <1>2, <1>3, Zenon DEF CorroborationsHold

\* Whose signature is one that was made verifies exactly when it claims the same.
LEMMA VerifiesIffSame ==
    ASSUME NEW r, NEW s, r.signature = s.signature, VerifyRecord(s),
           s.final_url = s.url => s.final_url = ""
    PROVE  VerifyRecord(r) <=> SameClaim(r, s)
<1>1. Final(s) = s.final_url
  BY DEF Final
<1>2. ASSUME VerifyRecord(r) PROVE SameClaim(r, s)
  <2>1. /\ r.url = s.url /\ r.content_hash = s.content_hash
        /\ r.fetched_at = s.fetched_at /\ r.fetched_by = s.fetched_by
        /\ r.status_code = s.status_code /\ r.content_type = s.content_type
        /\ r.worker_public_key = s.worker_public_key
        /\ Final(r) = Final(s)
    BY <1>2, SameSignature, Zenon
  <2> QED  BY <1>1, <2>1 DEF SameClaim, Final
<1>3. ASSUME SameClaim(r, s) PROVE VerifyRecord(r)
  <2>1. /\ r.url = s.url /\ r.content_hash = s.content_hash
        /\ r.fetched_at = s.fetched_at /\ r.fetched_by = s.fetched_by
        /\ r.status_code = s.status_code /\ r.content_type = s.content_type
        /\ r.worker_public_key = s.worker_public_key
        /\ Final(r) = Final(s)
    BY <1>1, <1>3 DEF SameClaim, Final
  <2>2. \A t : SigningPayload(t) =
              [url |-> t.url, content_hash |-> t.content_hash, fetched_at |-> t.fetched_at,
               fetched_by |-> t.fetched_by, status_code |-> t.status_code,
               content_type |-> t.content_type, final_url |-> Final(t)]
    BY Zenon DEF SigningPayload, Final
  <2>3. SigningPayload(r) = SigningPayload(s)
    BY <2>1, <2>2, Zenon
  <2> QED  BY <2>1, <2>3, Zenon DEF VerifyRecord
<1> QED  BY <1>2, <1>3

LEMMA InvChunk == CustodyInv => ChunkCheckExact
<1> SUFFICES ASSUME CustodyInv, chunk # None, NEW content \in Bodies \union {None}
             PROVE  LET r == chunk.metadata.inverba_record
                    IN  VerifyDocumentMetadata(chunk.metadata, content)
                                \in {"trusted", "trusted_corroborated"}
                        <=> /\ r # None
                            /\ \E s \in signed : /\ r.signature = s.record.signature
                                                 /\ SameClaim(r, s.record)
                            /\ content # None => hash_content(content) = r.content_hash
  BY Zenon DEF ChunkCheckExact
<1> DEFINE r == chunk.metadata.inverba_record
<1>1. VerifyDocumentMetadata(chunk.metadata, content) \in {"trusted", "trusted_corroborated"}
        <=> /\ r # None /\ VerifyRecord(r)
            /\ content # None => hash_content(content) = r.content_hash
  BY DEF VerifyDocumentMetadata
<1>2. \A s \in signed : r.signature = s.record.signature =>
            (VerifyRecord(r) <=> SameClaim(r, s.record))
  <2> SUFFICES ASSUME NEW s \in signed, r.signature = s.record.signature
               PROVE  VerifyRecord(r) <=> SameClaim(r, s.record)
    OBVIOUS
  <2>1. /\ VerifyRecord(s.record)
        /\ s.record.final_url = s.record.url => s.record.final_url = ""
    BY Zenon DEF CustodyInv, SignedInv
  <2> HIDE DEF r
  <2> QED  BY <2>1, VerifiesIffSame
<1>3. r # None => \E s \in signed : r.signature = s.record.signature
  BY Zenon DEF CustodyInv, ChunkInv, Stamped
<1> HIDE DEF r
<1>4. VerifyDocumentMetadata(chunk.metadata, content) \in {"trusted", "trusted_corroborated"}
        <=> /\ r # None
            /\ \E s \in signed : r.signature = s.record.signature /\ SameClaim(r, s.record)
            /\ content # None => hash_content(content) = r.content_hash
  BY <1>1, <1>2, <1>3, Zenon
<1> QED  BY <1>4, Zenon DEF r

LEMMA Custodial == Spec => []CustodyInv
<1>1. Init => CustodyInv
  BY InitInv
<1>2. CustodyInv /\ [Next]_vars => CustodyInv'
  BY NextInv
<1> QED  BY <1>1, <1>2, PTL DEF Spec

\* A timestamp that verifies under the pinned authority's certificate is an upper bound
\* on when the record was signed, and a native one's observation made, whatever tokens
\* the client was handed (temporal.py:181-190) and whatever the fetcher's clock said.
THEOREM UpperBoundCorrect == Spec => []UpperBound
BY Custodial, InvUpperBound, PTL

\* A record that verifies under the worker's or the notary's key and says "native" is of
\* a fetch its signer made (backends.py:173), whatever became of it in a store.
THEOREM NativeCorrect == Spec => []NativeMeansObserved
BY Custodial, InvNative, PTL

\* The corroborations of a record verify and agree with it, those under the notary's key
\* are the notary's own (notary.py:332-358), and an exported manifest says so; whose the
\* others are is not checked.
THEOREM CorroborationsCorrect == Spec => []CorroborationsHold
BY Custodial, InvCorroborations, PTL

\* A chunk is trusted exactly when it claims what was signed and is of its content
\* (integrations.py:63-90).
THEOREM ChunkCorrect == Spec => []ChunkCheckExact
BY Custodial, InvChunk, PTL
=============================================================================
