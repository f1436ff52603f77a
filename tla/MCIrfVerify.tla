---------------------------- MODULE MCIrfVerify ----------------------------
(* Model-checking instances of IrfVerify: envelopes of up to three signers, with    *)
(* every kind of signature, and the malformed ones.                                 *)
EXTENDS IrfVerify

CONSTANTS obs, wit1, wit2, ed25519, ml_dsa_65, unknown, record, manifest, claims

MCKids == {obs, wit1, wit2}
MCKnown == {ed25519, ml_dsa_65}
MCAlgs == MCKnown \cup {unknown}
MCDomains == {record, manifest}

\* A signature over the payload, for a slot and in a domain.
MCSigner(alg, kid, domain) ==
    [shape |-> "Ok", alg |-> alg, kid |-> kid,
     signature |-> [by |-> IF kid = None THEN obs ELSE kid,
                    over |-> [version |-> FORMAT_V1, alg |-> alg, kid |-> kid,
                              domain |-> domain, payload |-> claims]]]

\* A slot whose signature another key made.
MCForeign == [MCSigner(ed25519, obs, record) EXCEPT !.signature.by = wit1]

MCGenuine == {MCSigner(alg, kid, record) : alg \in MCKnown, kid \in MCKids}

MCFaulty ==
    {MCSigner(unknown, obs, record), MCSigner(None, obs, record), MCSigner(ed25519, None, record),
     [MCSigner(ed25519, obs, record) EXCEPT !.shape = "MissingField"]}

MCSigners == MCGenuine \cup MCFaulty \cup {MCForeign, MCSigner(ml_dsa_65, obs, manifest)}

MCEnvelope(signatures) ==
    [shape |-> "Ok", version |-> FORMAT_V1, payload |-> claims, signers |-> signatures]

MCLists(S, n) == UNION {[1..k -> S] : k \in 0..n}

MCEnvelopes ==
    {MCEnvelope(list) : list \in MCLists(MCSigners, 3)}
        \cup {MCEnvelope(list) : list \in [1..4 -> {MCSigner(ed25519, obs, record),
                                                    MCSigner(ml_dsa_65, obs, record)}]}
        \cup {[MCEnvelope(list) EXCEPT !.version = 2] : list \in MCLists(MCGenuine, 1)}
        \cup {[MCEnvelope(list) EXCEPT !.shape = "NonCanonicalEncoding"] :
                 list \in MCLists(MCGenuine, 1)}

MCPolicies ==
    {[exactly |-> FALSE, required |-> MCKnown],
     [exactly |-> TRUE, required |-> {ed25519}],
     [exactly |-> FALSE, required |-> {}],
     [exactly |-> TRUE, required |-> {unknown}]}

MCTrust ==
    {[trusted_observers |-> trusted, trusted_witnesses |-> witnesses, min_witnesses |-> n] :
        trusted \in {{}, {obs}}, witnesses \in {{}, {wit1, wit2}}, n \in 0..2}

MCCalls ==
    {[envelope |-> e, domain |-> record, policy |-> p, trust |-> t] :
        e \in MCEnvelopes, p \in MCPolicies, t \in MCTrust}
=============================================================================
