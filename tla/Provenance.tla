----------------------------- MODULE Provenance -----------------------------
(***************************************************************************)
(* inverba/provenance.py: signed records, and the half of                  *)
(* inverba/notary.py that runs at the user's end, which folds the          *)
(* notary's observation into a record.                                     *)
(*                                                                         *)
(* Hashes and signatures are free terms: a hash is its content, tagged; a  *)
(* signature is who signed and what. The payload is a record with the      *)
(* fields of the canonical JSON object, so nothing but equal fields gives  *)
(* equal payloads.                                                         *)
(***************************************************************************)
EXTENDS Integers, Sequences

CONSTANTS
    None,       \* Python's None
    Refusal     \* an answer that is an error

hash_content(content) == [sha256 |-> content]

\* Deliberately wrong: who fetched is not covered by the signature.
BugSigningPayload(r) ==
    [url |-> r.url, content_hash |-> r.content_hash, fetched_at |-> r.fetched_at,
     status_code |-> r.status_code, content_type |-> r.content_type,
     final_url |-> IF r.final_url = r.url THEN "" ELSE r.final_url]

\* _signing_payload: a final URL equal to the URL counts as none.
SigningPayload(r) ==
    [url |-> r.url, content_hash |-> r.content_hash, fetched_at |-> r.fetched_at,
     fetched_by |-> r.fetched_by, status_code |-> r.status_code,
     content_type |-> r.content_type,
     final_url |-> IF r.final_url = r.url THEN "" ELSE r.final_url]

\* ProvenanceSigner.sign: what was fetched, whatever it was, becomes a record.
Sign(key, fetched) ==
    LET record == [url |-> fetched.url, content_hash |-> hash_content(fetched.content),
                   fetched_at |-> fetched.fetched_at, fetched_by |-> fetched.fetched_by,
                   status_code |-> fetched.status_code,
                   final_url |-> IF fetched.final_url = fetched.url THEN ""
                                 ELSE fetched.final_url,
                   content_type |-> fetched.content_type, worker_public_key |-> key,
                   signature |-> None, corroborations |-> << >>]
    IN  [record EXCEPT !.signature = [by |-> key, over |-> SigningPayload(record)]]

\* verify_record: against the key the record names.
VerifyRecord(r) == r.signature = [by |-> r.worker_public_key, over |-> SigningPayload(r)]

\* verify_with_corroborations
VerifyWithCorroborations(r) ==
    LET c == r.corroborations
    IN  [primary_valid |-> VerifyRecord(r),
         corroboration_count |-> Len(c),
         corroborations_agree |->
            IF c = << >> THEN None
            ELSE \A i \in DOMAIN c : c[i].content_hash = r.content_hash,
         valid_signatures |-> {i \in DOMAIN c : VerifyRecord(c[i])}]

-----------------------------------------------------------------------------
(* NotaryClient.notarize: an answer is None, a refusal, or a record. *)

\* Deliberately wrong: the notary's signature is taken on trust.
BugAgreement(record, answer) ==
    IF answer = None THEN "unreachable"
    ELSE IF answer = Refusal THEN "refused"
    ELSE IF answer.content_hash = record.content_hash THEN "match" ELSE "mismatch"

Agreement(record, answer) ==
    IF answer = None THEN "unreachable"
    ELSE IF answer = Refusal THEN "refused"
    ELSE IF VerifyRecord(answer) /\ answer.content_hash = record.content_hash
    THEN "match" ELSE "mismatch"

\* What the call leaves in the user's record. A retry appends again.
Notarized(record, answer) ==
    IF Agreement(record, answer) = "match"
    THEN [record EXCEPT !.corroborations = Append(@, answer)]
    ELSE record
=============================================================================
