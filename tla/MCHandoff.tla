----------------------------- MODULE MCHandoff -----------------------------
(* Model-checking instances of Handoff. *)
EXTENDS Handoff, TLC

CONSTANTS a1, a2, s1, s2, c1, c2, k1, k2

\* A record, and what its corroborations saw.
Rec(s, c, at, by, ok, corroborations) ==
    [signature |-> s, worker_public_key |-> k1, content_hash |-> c, fetched_at |-> at,
     fetched_by |-> by, verifies |-> ok, corroborations |-> corroborations]

Plain    == Rec(s1, c1, 1, "native", TRUE, << >>)
Backed   == Rec(s1, c1, 1, "native", TRUE, <<c1>>)
Disputed == Rec(s2, c2, 2, "native", TRUE, <<c1>>)
Altered  == Rec(s1, c2, 1, "native", FALSE, << >>)
Relayed  == Rec(s2, c1, 2, "relay", TRUE, << >>)
Dated    == Rec(s2, c2, 2, "native", TRUE, << >>)

Ask(records, contents, ages, corroborated, native, ring) ==
    [record : records, claimed_content : contents, max_age_seconds : ages,
     require_corroboration : corroborated,
     require_independent_observation : native, keyring : ring]

\* Every kind of record under every demand, its age bounded, and some against a ring.
AllRequests ==
    Ask({None, Plain, Backed, Altered, Relayed}, {c1}, {1}, BOOLEAN, BOOLEAN, {FALSE})
    \cup Ask({Disputed}, {None, c1}, {1}, BOOLEAN, {FALSE}, {FALSE})
    \cup Ask({Plain, Dated}, {None}, {1}, {FALSE}, {FALSE}, BOOLEAN)

\* Callers that accept records of any age.
AgelessRequests == Ask({Plain, Backed, Relayed}, {None, c1}, {None}, BOOLEAN, {FALSE}, {FALSE})
=============================================================================
