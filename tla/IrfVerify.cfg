SPECIFICATION Spec
CONSTANTS
    obs = obs
    wit1 = wit1
    wit2 = wit2
    ed25519 = ed25519
    ml_dsa_65 = ml_dsa_65
    unknown = unknown
    record = record
    manifest = manifest
    claims = claims
    None = None
    Kids <- MCKids
    Algs <- MCAlgs
    KNOWN <- MCKnown
    Domains <- MCDomains
    Payloads = {claims}
    MAX_SIGNERS = 3
    Calls <- MCCalls
INVARIANTS
    AcceptedObeysRules
    RefusalIsGrounded
    HybridOutlivesBreak
CHECK_DEADLOCK FALSE
