------------------------------ MODULE Temporal ------------------------------
(***************************************************************************)
(* inverba/temporal.py: RFC 3161 timestamps of records and manifests.      *)
(*                                                                         *)
(* A token is what the authority says (its TSTInfo), the signed attributes *)
(* that commit to it, the signer's certificate and the signature, all free *)
(* terms; a certificate is its key. Malformed stands for any bytes that do *)
(* not parse. No token here is proved to come from a trusted authority:    *)
(* its certificate is whatever it carries, and pinning one is the caller's.*)
(***************************************************************************)
EXTENDS Provenance

CONSTANT Malformed

sha256(term) == [sha256 |-> term]

\* digest_for_record: the signature is anchored, and through it the signed fields.
digest_for_record(record) == sha256(record.signature)

\* digest_for_manifest_root: the root is a digest already.
digest_for_manifest_root(root) == root

Attributes(tst) == [message_digest |-> sha256(tst), content_type |-> "tst_info"]

\* A token as an authority with this certificate makes it.
Token(cert, imprint, gen_time) ==
    LET tst == [imprint |-> imprint, gen_time |-> gen_time]
    IN  [tst |-> tst, attrs |-> Attributes(tst), cert |-> cert,
         signature |-> [by |-> cert, over |-> Attributes(tst)]]

\* request_timestamp: None stands for a refusal, which raises. The token is not
\* compared with the request.
request_timestamp(answer) == IF answer = None THEN None ELSE answer

\* Deliberately wrong: the signed attributes need not commit to the TSTInfo.
BugSignatureValid(token) ==
    /\ token.attrs # None
    /\ token.attrs.content_type = "tst_info"
    /\ token.cert # None
    /\ token.signature = [by |-> token.cert, over |-> token.attrs]

\* The signature's half of verify_timestamp.
SignatureValid(token) ==
    /\ token.attrs # None
    /\ token.attrs.message_digest = sha256(token.tst)
    /\ token.attrs.content_type = "tst_info"
    /\ token.cert # None
    /\ token.signature = [by |-> token.cert, over |-> token.attrs]

\* verify_timestamp
verify_timestamp(token, expected) ==
    IF token = Malformed
    THEN [valid |-> FALSE, timestamp |-> None, imprint_matches |-> FALSE,
          signature_valid |-> FALSE]
    ELSE [valid |-> token.tst.imprint = expected /\ SignatureValid(token),
          timestamp |-> token.tst.gen_time,
          imprint_matches |-> token.tst.imprint = expected,
          signature_valid |-> SignatureValid(token)]
=============================================================================
