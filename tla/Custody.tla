------------------------------- MODULE Custody -------------------------------
(***************************************************************************)
(* A record from the fetch to whoever relies on it: the loaders of         *)
(* inverba/integrations.py fetch a list of URLs through a backend and sign *)
(* them; the notary's client adds corroborations (inverba/notary.py);      *)
(* inverba/temporal.py anchors a record; inverba/c2pa_export.py exports    *)
(* it; a vector store keeps it, from where it is checked as a chunk.       *)
(*                                                                         *)
(* Fetches and requests take time. The transports answer late, with the    *)
(* answer to another request, with one that was altered on its way or that *)
(* somebody else signed; the store may alter or replace what it keeps.     *)
(* Nobody signs with a key that is not his, and no two clocks need agree:  *)
(* what dates a fetch is its fetcher's own.                                *)
(***************************************************************************)
EXTENDS Temporal, Fetching, FiniteSets

CONSTANTS
    Worker, Notary,      \* the keys of the loader's signer and of the notary
    Tsa,                 \* the pinned timestamping authority
    Rogue,               \* somebody else, who signs records and issues tokens
    Plans,               \* [urls, uses]: what a loader may be given, and the uses that are
                         \* made of its records, a bound on those made of the same ones
    Urls,                \* the URLs in those
    Backends,            \* [kind, name]: the backends that are asked for
    Answers,             \* what a backend may get back
    Raised,              \* an exception that the backend does not catch
    Bodies,              \* the bodies a consumer may hold
    Children,            \* the two hashes under the Merkle root of a dataset manifest
    Drift,               \* by how much a fetcher's clock may be off the authority's
    MaxClock,            \* bound: the last reading of the authority's clock
    MaxCorroborations,   \* bound: how often a record is notarised with success
    MaxTokens,           \* bound: how many tokens the authority issues
    MaxAlterations       \* bound: how often the store alters a chunk

ASSUME CustodyAssumption ==
    /\ \A backend \in Backends : backend.kind \in {"native", "firecrawl", "callable"}
    /\ Rogue \notin {Tsa, Worker, Notary} /\ Worker # Notary
    /\ None \notin BOOLEAN

\* That root: no hash of a signature is also one of two hashes.
Root == [node |-> Children]

VARIABLES
    clock,       \* the authority's clock
    run,         \* the loader's run
    records,     \* the records in the user's hands
    answers,     \* what the notary has signed
    asked,       \* the digests that reached the authority
    issued,      \* the tokens it made
    proof,       \* a record and the token stored alongside, or None
    manifest,    \* the exported manifest, or None
    chunk,       \* the metadata of a chunk in the vector store, or None
    observed,    \* history: who saw what at which URL, when by his clock and by the authority's
    signed       \* history: the records signed, and when by the authority's clock

vars == <<clock, run, records, answers, asked, issued, proof, manifest, chunk,
          observed, signed>>

-----------------------------------------------------------------------------
(* The loaders: InverbaLoader, which continues after a failure or does not, and *)
(* InverbaReader, which returns its documents at the end. *)

Adapters == {"loader", "strict", "reader"}

Init ==
    /\ clock = 0
    /\ \E backend \in Backends, adapter \in Adapters, plan \in Plans :
         /\ backend.kind = "callable" => MayWrap(backend.name)
         /\ run = [backend |-> backend, adapter |-> adapter, urls |-> plan.urls,
                   started |-> None, docs |-> {}, uses |-> plan.uses]
    /\ records = {} /\ answers = {} /\ asked = {} /\ issued = {}
    /\ proof = None /\ manifest = None /\ chunk = None
    /\ observed = {} /\ signed = {}

Tick ==
    /\ clock < MaxClock
    /\ clock' = clock + 1
    /\ UNCHANGED <<run, records, answers, asked, issued, proof, manifest, chunk,
                   observed, signed>>

\* What time.time() gives a fetcher.
Readings == {clock + d : d \in Drift}

StartFetch ==
    /\ run.urls # << >> /\ run.started = None
    /\ \E now \in Readings : run' = [run EXCEPT !.started = now]
    /\ UNCHANGED <<clock, records, answers, asked, issued, proof, manifest, chunk,
                   observed, signed>>

\* The fetch method of each backend.
FetchBy(backend, url, answer, started, now) ==
    CASE backend.kind = "native" -> NativeFetch(url, answer, NotInstalled, now)
      [] backend.kind = "firecrawl" -> FirecrawlFetch(url, answer, started)
      [] backend.kind = "callable" -> CallableFetch(backend.name, url, answer, started)

Saw(key, url, answer, now) ==
    [by |-> key, url |-> url, content_hash |-> hash_content(answer.content),
     status_code |-> answer.status_code, at |-> now, when |-> clock]

Signed(record) == [record |-> record, at |-> clock]

\* A failure ends the run of a loader that does not continue after one, and an exception
\* that of the reader as well, which then returns nothing.
Failure(raises) ==
    /\ run' = IF run.adapter = "strict" \/ (run.adapter = "reader" /\ raises)
              THEN [run EXCEPT !.urls = << >>, !.started = None, !.docs = {}]
              ELSE [run EXCEPT !.urls = Tail(@), !.started = None]
    /\ UNCHANGED <<records, signed>>

\* The record of a fetch that succeeded is signed, and the document is yielded or kept.
Success(fetched) ==
    LET record == Sign(Worker, fetched)
    IN  /\ signed' = signed \union {Signed(record)}
        /\ IF run.adapter = "reader"
           THEN /\ run' = [run EXCEPT !.urls = Tail(@), !.started = None,
                                      !.docs = @ \union {record}]
                /\ UNCHANGED records
           ELSE /\ run' = [run EXCEPT !.urls = Tail(@), !.started = None]
                /\ records' = records \union {record}

FinishFetch ==
    /\ run.started # None
    /\ \E answer \in Answers, now \in Readings :
         LET url == Head(run.urls)
             fetched == FetchBy(run.backend, url, answer, run.started, now)
         IN  /\ IF answer = Raised THEN Failure(TRUE)
                ELSE IF ~Ok(fetched) THEN Failure(FALSE)
                ELSE Success(fetched)
             /\ observed' = IF run.backend.kind = "native" /\ answer \notin {Raised, Failed}
                            THEN observed \union {Saw(Worker, url, answer, now)} ELSE observed
    /\ UNCHANGED <<clock, answers, asked, issued, proof, manifest, chunk>>

\* The reader's return.
ReturnDocs ==
    /\ run.urls = << >> /\ run.docs # {}
    /\ records' = records \union run.docs
    /\ run' = [run EXCEPT !.docs = {}]
    /\ UNCHANGED <<clock, answers, asked, issued, proof, manifest, chunk, observed, signed>>

-----------------------------------------------------------------------------
(* The notary, and its client. *)

\* The service observes a URL: see Notary.
NotaryObserves ==
    /\ "notarise" \in run.uses
    /\ \E url \in Urls, answer \in Answers \ {Raised, Failed}, now \in Readings :
         LET fetched == FetchHttp(url, answer, now)
             record == Sign(Notary, fetched)
         IN  /\ Ok(fetched)
             /\ answers = {}     \* bound: one observation
             /\ answers' = answers \union {record}
             /\ observed' = observed \union {Saw(Notary, url, answer, now)}
             /\ signed' = signed \union {Signed(record)}
    /\ UNCHANGED <<clock, run, records, asked, issued, proof, manifest, chunk>>

\* Somebody else signs, under his own key, that he saw what a record says.
Forge ==
    /\ run.uses \intersect {"notarise", "store"} # {}
    /\ \A s \in signed : s.record.worker_public_key # Rogue     \* bound: one record
    /\ \E r \in records :
         signed' = signed \union
            {Signed(Sign(Rogue, FetchResult(r.url, r.final_url, 200, r.content_hash.sha256,
                                            r.content_type, FALSE, r.fetched_at, NATIVE)))}
    /\ UNCHANGED <<clock, run, records, answers, asked, issued, proof, manifest, chunk,
                   observed>>

Forgeries == {s.record : s \in {t \in signed : t.record.worker_public_key = Rogue}}

\* What the transport may deliver: nothing, a refusal, an observation of this or of
\* another URL, or one that was altered to agree; the user's own record, or somebody
\* else's. The client knows no key of the notary's.
Delivered(record) ==
    {None, Refusal, [record EXCEPT !.corroborations = << >>]}
        \union answers \union Forgeries
        \union {[a EXCEPT !.content_hash = record.content_hash] : a \in answers}

\* notarize, any number of times.
Notarize ==
    /\ "notarise" \in run.uses
    /\ \E record \in records : \E answer \in Delivered(record) :
         /\ Len(record.corroborations) < MaxCorroborations
         /\ records' = (records \ {record}) \union {Notarized(record, answer)}
    /\ UNCHANGED <<clock, run, answers, asked, issued, proof, manifest, chunk,
                   observed, signed>>

-----------------------------------------------------------------------------
(* Timestamps *)

\* timestamp_record and timestamp_manifest, up to the client's request.
SendDigest ==
    /\ "anchor" \in run.uses
    /\ \E digest \in {digest_for_record(r) : r \in records} \union
                     {digest_for_manifest_root(Root)} :
            /\ digest \notin asked
            /\ asked' = asked \union {digest}
    /\ UNCHANGED <<clock, run, records, answers, issued, proof, manifest, chunk,
                   observed, signed>>

TsaIssues ==
    /\ \E digest \in asked : issued' = issued \union {Token(Tsa, digest, clock)}
    /\ Cardinality(issued') <= MaxTokens
    /\ UNCHANGED <<clock, run, records, answers, asked, proof, manifest, chunk,
                   observed, signed>>

\* What the client may be handed for a digest, or a consumer be shown beside a record:
\* a refusal, noise, any token of the authority or an alteration of it, the work of
\* somebody else, under his own certificate or the authority's.
Tokens(digest) ==
    LET forged == Token(Rogue, digest, 0)
    IN  {None, Malformed, forged, [forged EXCEPT !.cert = Tsa], [forged EXCEPT !.cert = None]}
        \union UNION {{t, [t EXCEPT !.tst.imprint = digest], [t EXCEPT !.tst.gen_time = 0],
                       [t EXCEPT !.attrs = None],
                       [t EXCEPT !.tst.gen_time = 0, !.attrs = forged.attrs]} : t \in issued}

\* request_timestamp's answer, kept beside the record.
ReceiveToken ==
    /\ \E record \in records :
        LET digest == digest_for_record(record)
        IN  /\ digest \in asked
            /\ \E answer \in Tokens(digest) :
                 LET token == request_timestamp(answer)
                 IN  /\ token # None
                     /\ proof' = [record |-> record, token |-> token]
    /\ UNCHANGED <<clock, run, records, answers, asked, issued, manifest, chunk,
                   observed, signed>>

-----------------------------------------------------------------------------
(* C2PA export *)

\* build_manifest: of the assertions, those that are computed.
BuildManifest(record) ==
    [hash |-> record.content_hash, when |-> record.fetched_at, source |-> record.url,
     corroboration |->
        IF record.corroborations = << >> THEN None
        ELSE [count |-> Len(record.corroborations),
              keys |-> [i \in DOMAIN record.corroborations |->
                            record.corroborations[i].worker_public_key],
              all_agree_on_hash |->
                \A i \in DOMAIN record.corroborations :
                    record.corroborations[i].content_hash = record.content_hash],
     issuer |-> record.worker_public_key, signature |-> record.signature]

\* export_manifest_json
Export ==
    /\ "export" \in run.uses
    /\ \E record \in records : manifest' = BuildManifest(record)
    /\ UNCHANGED <<clock, run, records, answers, asked, issued, proof, chunk,
                   observed, signed>>

-----------------------------------------------------------------------------
(* The vector store *)

\* _record_metadata: fields to search by, and the record, to be checked.
Metadata(record) ==
    [independent_observation |-> record.fetched_by = NATIVE,
     corroborations |-> Len(record.corroborations),
     inverba_record |-> record]

Store ==
    /\ "store" \in run.uses
    /\ \E record \in records :
            chunk' = [metadata |-> Metadata(record), alterations |-> 0]
    /\ UNCHANGED <<clock, run, records, answers, asked, issued, proof, manifest,
                   observed, signed>>

\* The record, altered in a field, or its signature taken from another.
Altered(r) ==
    {[r EXCEPT !.url = url] : url \in Urls}
    \union {[r EXCEPT !.final_url = url] : url \in Urls \union {""}}
    \union {[r EXCEPT !.content_hash = hash_content(body)] : body \in Bodies}
    \union {[r EXCEPT !.fetched_by = name] : name \in {NATIVE, "firecrawl"}}
    \union {[r EXCEPT !.worker_public_key = Notary], [r EXCEPT !.corroborations = << >>],
            [r EXCEPT !.fetched_at = MaxClock], [r EXCEPT !.status_code = 200]}
    \union {[r EXCEPT !.signature = s.record.signature] : s \in signed}

\* The store drops the record, gives it back altered, or gives back somebody else's.
Alter ==
    /\ chunk # None /\ chunk.metadata.inverba_record # None
    /\ chunk.alterations < MaxAlterations
    /\ \E r \in {None} \union Forgeries \union Altered(chunk.metadata.inverba_record) :
            chunk' = [chunk EXCEPT !.metadata.inverba_record = r, !.alterations = @ + 1]
    /\ UNCHANGED <<clock, run, records, answers, asked, issued, proof, manifest,
                   observed, signed>>

\* verify_document_metadata: verify_handoff with no demands (see Handoff).
VerifyDocumentMetadata(metadata, content) ==
    LET r == metadata.inverba_record
    IN  IF r = None THEN "no_record"
        ELSE IF ~VerifyRecord(r) THEN "unverified"
        ELSE IF content # None /\ hash_content(content) # r.content_hash
        THEN "content_mismatch"
        ELSE IF VerifyWithCorroborations(r).corroborations_agree = TRUE
        THEN "trusted_corroborated" ELSE "trusted"

Next == \/ Tick \/ StartFetch \/ FinishFetch \/ ReturnDocs
        \/ NotaryObserves \/ Forge \/ Notarize
        \/ SendDigest \/ TsaIssues \/ ReceiveToken
        \/ Export \/ Store \/ Alter

Spec == Init /\ [][Next]_vars

-----------------------------------------------------------------------------

\* The observation a record attests.
Attests(r, o) ==
    /\ o.by = r.worker_public_key /\ o.url = r.url /\ o.content_hash = r.content_hash
    /\ o.status_code = r.status_code /\ o.at = r.fetched_at

\* A timestamp that verifies under the pinned authority's certificate is an upper bound
\* (temporal.py:190): the record was signed, and what a native one attests was seen, at
\* or before that time of the authority's - whatever time the record itself asserts,
\* whatever the transport delivered in answer to which request (temporal.py:181 compares
\* nothing), and whoever else issues tokens.
UpperBound ==
    proof # None =>
        LET result == verify_timestamp(proof.token, digest_for_record(proof.record))
        IN  result.valid /\ proof.token.cert = Tsa =>
                /\ \E s \in signed : /\ s.record.signature = proof.record.signature
                                     /\ s.at <= result.timestamp
                /\ proof.record.fetched_by = NATIVE =>
                        \E o \in observed : /\ Attests(proof.record, o)
                                            /\ o.when <= result.timestamp

\* The records that somebody holds.
Held == records \union run.docs \union answers
        \union (IF chunk = None \/ chunk.metadata.inverba_record = None THEN {}
               ELSE {chunk.metadata.inverba_record})

\* "'native' means Inverba observed the origin itself" (backends.py:173): a record with
\* that attribution that verifies under the worker's or the notary's key is of a fetch
\* its signer made, of that content and status, at that time of his - through every
\* backend, relay and alteration. What another key signs is no claim of this code's.
NativeMeansObserved ==
    \A r \in Held :
        VerifyRecord(r) /\ r.fetched_by = NATIVE /\ r.worker_public_key \in {Worker, Notary} =>
            \E o \in observed : Attests(r, o)

\* Whatever answers the notary's client was given, in whatever order and how often, each
\* corroboration it added verifies, is of the same content, and is the notary's own
\* observation if it names the notary's key; so verification and the exported manifest,
\* which may be of an earlier state of the record, report nothing but agreement. Whose
\* key it is, nothing checks (notary.py:349): how many there are says nothing of how
\* many observed.
CorroborationsHold ==
    /\ \A r \in records : \A i \in DOMAIN r.corroborations :
         LET c == r.corroborations[i]
         IN  /\ VerifyRecord(c) /\ c.content_hash = r.content_hash
             /\ c.worker_public_key = Notary =>
                    \E o \in observed : /\ o.by = Notary /\ o.url = c.url
                                        /\ o.content_hash = r.content_hash
    /\ \A r \in records : VerifyWithCorroborations(r).corroborations_agree # FALSE
    /\ manifest # None /\ manifest.corroboration # None =>
            manifest.corroboration.all_agree_on_hash

\* The fields two records claim alike: a final URL equal to the URL claims nothing.
SameClaim(r, s) ==
    /\ r.url = s.url /\ r.content_hash = s.content_hash /\ r.fetched_at = s.fetched_at
    /\ r.fetched_by = s.fetched_by /\ r.status_code = s.status_code
    /\ r.content_type = s.content_type /\ r.worker_public_key = s.worker_public_key
    /\ IF r.final_url = r.url THEN s.final_url = "" ELSE r.final_url = s.final_url

\* "A retrieved chunk can be checked, not just trusted" (integrations.py:63): the check
\* trusts a chunk exactly when its record claims what was once signed, under the same
\* key, and is of the content it comes with - whatever else the store has altered.
ChunkCheckExact ==
    chunk # None =>
        LET r == chunk.metadata.inverba_record
        IN  \A content \in Bodies \union {None} :
                VerifyDocumentMetadata(chunk.metadata, content)
                        \in {"trusted", "trusted_corroborated"}
                    <=> /\ r # None
                        /\ \E s \in signed : /\ r.signature = s.record.signature
                                             /\ SameClaim(r, s.record)
                        /\ content # None => hash_content(content) = r.content_hash
=============================================================================
