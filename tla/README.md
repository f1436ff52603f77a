# Inverba: models, checks and proofs

Inverba signs what a scraper fetched, lets others verify it offline, and builds
things on such records: verdicts for agents that hand records on, corroborations by a
hosted notary, signed corpora, reports of changed pages. This directory holds TLA+
models of the parts of it that keep state or decide, the TLC configurations that check
them on small instances, and theorems that TLAPS proves for every instance.

Paths such as `keys.py` are below `inverba_core/src/inverba/`.

Run a check with `tlc -config X.cfg MCmodule.tla`, a proof with `tlapm Proofs.tla`;
`PROJECT.json` lists every run, its module and the lines each definition models.

## 1. The system

| component | state | operations | talks to |
|---|---|---|---|
| Key ring, `keys.py` | the list of `KeyEntry`: key, creation, revocation, predecessor, two rotation signatures | `add_root`, `rotate`, `revoke`; queries `find`, `active_key`, `trusted_at`, `verify_chain`, `verify_record_with_keyring` | read by handoff and dataset at any time |
| Records, `provenance.py`, `models.py` | an immutable signed record and a growing list of corroborations | `sign`, `verify_record`, `verify_with_corroborations` | held by reference by everybody |
| Handoff, `agent_trust.py`, with the seen store, `seen.py` | the store: signature to time of acceptance, with a TTL | `verify_handoff`; `seen`, `record` | key ring, records |
| Notary, `notary.py`, with `robots.py` and `ssrf.py` | last fetch per host, parsed robots files per host | `observe` (validate, login wall, rate limit, robots, redirect loop, sign) | the network; the client appends the answer to a record |
| Merkle tree, `merkle.py` | the list of leaf hashes | `append`, `root`, `inclusion_proof`, `verify_inclusion` | dataset |
| Dataset builder, `dataset.py` | the tree, the records, how many were rejected | `add`, `build`, `proof_for`; `verify_manifest` | key ring, records, tree |
| Change detection, `changes.py`, with the differ of `semantic.py` | one sqlite table of observations, the open transaction of a connection | `detect` (`latest`, `save`), `history`, `verify_change_report` | other processes through the file |
| Key file, `cli.py`, `mcp_server.py` | the file with the worker's private key | `_get_or_create_signer`, `_load_signer` | every command that signs, other processes through the file |
| Result store, `store.py` | a sqlite table of jobs, each a fetch result and its record | `save`, `get`, `list_recent` | `scrape` |
| Solo session, `solo.py`; CLI, `cli.py`; MCP server, `mcp_server.py`; `homedir.py` | the configuration, `record.json` and `record.content` on disk | `solo`, `scrape`, `verify`, the notary question, `notary` | other processes through the files |
| Fetching, `fetch.py`, `backends.py`, `blockcheck.py`, `extract.py` | none beyond a client | fetch with a browser fallback, attribute to a backend, recognise block pages | the network |
| Timestamps, `temporal.py` | none; the token is kept beside a record | request an RFC 3161 token for a record or a manifest, verify one | an authority |
| Adapters, `integrations.py`; C2PA export, `c2pa_export.py` | documents in a vector store, manifests | load, read, check a chunk; export | fetching, records, handoff |
| Licences, `license_verify.py` | none | one check of a token | |
| IRF core, `inverba-core-rs` | none beyond a call | verify envelopes against policies on algorithms and keys, inclusion and consistency proofs, deterministic CBOR | the host's signature primitives |
| `spec/`, `verifiers/` | none | a reference check and a JavaScript verifier of the same format | |

What is hard here:

- **Interleaving.** `observe` is a coroutine with awaits between reading its clock,
  asking for robots.txt and fetching; `verify_handoff` looks up and records in two calls
  to a store others share; two detectors run two statements each on one file; two
  commands look for one key file, and create it.
- **Staleness.** Verdicts, corpora and cached robots files outlive what they were
  computed from: a key is revoked afterwards, a name moves, a file becomes readable.
- **Order and time.** Rotations and revocations may be declared late and name an
  earlier time; clocks of fetching machines jump; store entries expire.
- **Failure.** A robots request fails, a commit raises, a process dies between saving
  and reporting, or between opening a file and writing it; a notary's or an authority's
  answer is late, lost, altered or an answer to something else.
- **Long legal sequences.** A ring built by API calls only must still verify; a key put
  back, a second revocation, redirects that leave the checked URL.
- **Shapes.** Merkle trees whose size is no power of two; a leaf that looks like an
  internal node; thresholds of the differ; a path whose sides one implementation sends
  along and the other derives.
- **Partial success.** An envelope of which some signatures hold, some are witnesses',
  some are of the wrong domain: what counts towards which condition.

What makes each component correct, in a sentence: a ring has one unforked chain of
identity, and only a compromise takes trust from a record (KeyRing); a record is
accepted once, and a rejected one leaves no trace (Handoff); what the notary asks for
itself was checked to be public, a host whose fetches are stamped is left alone for the
interval, robots.txt is honoured where it was served, and every call returns (Notary);
proofs hold for every leaf of a tree and for nothing else (Merkle), in both
implementations, and a tree extends its own past only (MerkleLog); an accepted envelope
breaks no rule of the format and a refused one breaks the rule named (IrfVerify); a
manifest commits to what was added, and a proof holds in the manifests of its own tree
only (Dataset); a report is backed by two lasting observations, and a changed price
cannot slip past (Changes); a home has one identity unless its first runs overlap, what
a run leaves in it verifies, and the notary is asked with a standing consent only
(KeyFile, Solo); what a verifier accepts of a record that went through backends, a
notary, an authority and a store was observed, signed and agreed as it says (Custody).

## 2. The modules

| module | what it is |
|---|---|
| `KeyRing` | the ring and all its queries |
| `Handoff` | agents running `verify_handoff` against a seen store and a key ring |
| `ReplayGuard` | what a store promises: nothing is accepted again until it is forgotten |
| `Notary` | concurrent calls of `observe` |
| `Merkle` | the tree, its proofs and a level-by-level reference of its root |
| `IrfMerkle` | the Rust functions on trees: roots, inclusion and consistency proofs |
| `MerkleLog` | the growing tree of `Merkle`, proved and verified by both implementations |
| `IrfVerify` | a call of `verify_envelope`, signer by signer |
| `Dataset` | the builder, with instances of `KeyRing` and `Merkle` |
| `Semantic` | the differ's classification of two texts |
| `Changes` | detectors on one sqlite file, extends `Semantic` |
| `Provenance` | signing, verification and corroboration of records, over free terms |
| `Fetching` | the results of the backends, the fallback, the block check |
| `KeyFile` | processes that create and read the key file, and may die |
| `Solo` | the commands and sessions on one home; extends the three above |
| `Temporal` | timestamp tokens and their verification; extends `Provenance` |
| `Custody` | a record from its fetch to a consumer; extends `Temporal` and `Fetching` |
| `MC…` | the instances for TLC: model values, record and page sets, symmetry |
| `…Proofs` | the theorems, each module extending its component; `DatasetProofs` also extends `MerkleLog`, as those about the trees are in it |

Definitions named `Bug…` are deliberately wrong variants of the definition that follows
them; substituting one must make the property named beside it in `PROJECT.json` fail.
They are never part of a specification.

### KeyRing

`keys` is `self.keys`, in order. `AddRoot`, `Rotate` and `Revoke` are the three mutating
methods, with their guards (the `KeyRingError`s) and everything they write: `Rotate`
signs with both keys, appends the successor and revokes the old entry, unless it is
revoked already; `Revoke` overwrites. `find` is the first entry of a key, `active_key`
the first one that is active; they part when a key is put back. A signature is
the pair of signer and payload. Nothing is assumed of callers: they may put a key back,
and replace a compromise by a narrower or milder revocation, as the code lets them.

### Handoff and ReplayGuard

`Check` is `verify_handoff` up to the replay check, where every early return applies
(no signature, tampered, another content, not corroborated, key not trusted, too old, in
the code's order); `LookUp` is `seen`, which also drops an expired entry; `Record` is
`record` and the return. Between them the clock moves, by at most `MaxPause` for one
call, other agents run, and the ring changes (`RingStep` is a step of `KeyRing`). `now`
is read once, at the start, as in the code, while the store reads its own clock.
`ImplementsReplayGuard` is a refinement: the history of acceptances implements
`ReplayGuard!Spec`.

### Notary

One action per stretch of `observe` between two awaits: `Observe` (all checks up to the
first request), `RobotsAnswer`, `Redirect` and `Answer` (one answer to a content
request). `Wander` is what the engine does by itself while the notary waits: its browser
loads the page again and follows redirects, and `_safe_fetch` looks at where it went
afterwards only. `seen` is what the notary saw of a host's addresses when it looked; the
client resolves the name again when it connects, and nothing is said of that. `cache`
holds what `RobotsChecker` cached, a parsed file or the empty parser it caches for
everything that is not a 200 and for errors; `last` is written when a call is admitted,
with the `now` that was read at the start. The name server may move a host at any time
(`Rebind`). `fetches`, `sent` and `unserved` are history; a fetch is `settled` if no
call was waiting for its host's robots.txt when it was made.

### Merkle and Dataset

Hashes are free terms, tagged as leaf or node as the domain-separation bytes do, so the
model assumes no collisions. `Subtree`, `Paths` and `Climb` are the code's recursions, as
functions of a slice's length that give the result for all positions at once; the split
is the code's doubling of `k` (`Power`). The tree's specification is `TreeSpec`, of
`append`. `Dataset` keeps `tree` and `records` as the two structures they
are; `Acceptable` is the verification at `add`; `Build` signs the root and the
composition; `ProofFor` searches for an equal leaf as the code does. Records are held by
reference: `Corroborate` is the notary client appending to one the builder holds.

### IrfMerkle, MerkleLog and IrfVerify

`IrfMerkle` is `merkle.rs`, function by function, over the same free terms. A list's
slice is a position and a length; `Descents` and `Replay` are the two loops of
`verify_inclusion`, the descent that lists the decisions and the way back that hashes
along them; `AuditPaths`, `Subproofs` and `Checks` are the recursions of `inclusion_proof`,
`subproof` and `verify_subproof`, the last of which consumes the proof from its end, `used`
being how much is left. `MerkleLog` extends `Merkle` and instantiates `IrfMerkle`.

`IrfVerify` has the arguments of one call in `call`, and an action for each way a turn of
the loop in `verify_envelope_inner` can go: `SignatureFails`, `CountWitness` (which
continues), `RefuseObserver`, `CountObserver`. The fault of the policy and of the parser
are operators that give the first reason in the code's order. `satisfied` and
`witness_kids` are lists with push-unless-contained, as the code's vectors; the
properties speak of sets. A signature is the key that made it and the message it was made
over, and a message has version, algorithm, key, domain and payload, the fields of
`sig_structure`. Of headers with a known major version there is one in the model.

### Semantic and Changes

The texts' similarity and the tokens the patterns find are parameters, of which nothing
is assumed; only the cascade of thresholds is the code's. `Sign`, `Compare`, `Insert`,
`Commit` and `Report` are the statements of `detect`, each of which another process may
come between. sqlite is modelled from its use: `rows` after `durable` belong to the one
open transaction, of `writer`, which alone sees them; another's insert raises
(`Locked`); a commit may raise and leave the transaction open, since `save` does not
roll back (`CommitFails`); dying or closing rolls back (`Die`). `observed_at` is any
time, in any order. `feed` is who watches what, chosen at the start: a detector's feed is
the observations it may make.

### Provenance, Fetching and Temporal

Pure definitions, shared by the two modules below. A record is a TLA+ record with the
fields of `ProvenanceRecord`; its payload has the signed ones, of which a final URL
equal to the URL is normalised to none, as in the code. A signature is who signed and
what; nobody's signature can be made without being him. `Notarized` is what
`NotaryClient.notarize` leaves in the caller's record. `FetchHttp`, `FetchBrowser` and the
backends' `fetch` turn an answer, or `Failed`, into a result; which bodies look like a
shell or a wall is a parameter. A token is a TSTInfo, the signed attributes, a
certificate, which is a key, and a signature.

### KeyFile and Solo

`write_text` opens, which truncates and keeps the mode, and writes; `chmod` is a third
step, and `exists` a step before. Any process may die at any of them (`Die`).
`overlapped` and `torn` are history: two processes found no file at once, and one died
between opening and `chmod`. `IdentityKept` holds unless first runs overlap, whoever
dies; `KeySettled` says that the file is whole and private unless somebody died creating
it, and that even then nobody signs with a key of its own in a readable file. An empty
key file makes `from_private_bytes` raise, so the run fails.

`Solo` composes this with what the runs do afterwards, which `SoloImplementsKeyFile` shows
to leave the key file alone. `solo` writes `record.json` and `record.content`, each opened
and written; two writers may leave a mixture (`Overlay`). `verify` reads one and then
the other. `quiet` is the history of the verify runs that no solo run disturbed, the
antecedent of `UndisturbedVerifies`; whatever earlier, overlapping or killed runs
left does not matter to it. `scrape` saves a job in one transaction, its body as text. A
session or `notary` loads the configuration, may change it and saves it: a file that is
absent, empty or a mixture counts as no answer. Of a configuration the model also keeps
whose answer it is, and of a run which answers were taken back before it read.

### Custody

One user's records. A loader fetches a list of URLs through one backend
(`StartFetch`, `FinishFetch`): what fails is skipped, ends the run, or, for the reader,
loses its documents. Time is the authority's, `clock`; a fetcher reads a clock of its own
that is off by any member of `Drift`, another at each reading, since `fetched_at` is
self-asserted (`temporal.py:4`). `Rogue` is anybody else with a key: `Forge` is its
signing a record of what the user's record says. `Notarize` delivers any answer the
notary ever gave, an altered one, such a forgery, the user's own record, a refusal or
nothing, any number of times. `ReceiveToken` delivers any token of the authority, or an
alteration, or another signer's. `Export` is `build_manifest`. `Store` and `Alter` are a
vector store that gives back something else, a forgery among it. `observed` and `signed`
are history: what was seen where, when by the clock of who saw it and when by the
authority's, and what was signed when. `Plans` are the URL lists and the uses of their
records that are looked at together.

## 3. The runs

The longest run takes between two and three minutes with two workers. `CHECK_DEADLOCK FALSE`
stands where the bounds stop the model, or where a program with nothing to do stops.
Types are proved for every bound (section 4) and have no runs.

| run | question | bounds |
|---|---|---|
| KeyRingReuse | do all sequences of calls, keys put back included, keep one chain and verify, is trust lost by a compromise only, and does nothing lift a compromise but another revocation of that key? | 2 keys, 3 entries, times 1–3, jitter 1 |
| HandoffReplay | does one agent with its store, while its ring changes, implement the guard, accept once, and let only a compromise contradict it? | TTL 2, age bound 1, pause 1, clock to 4, two signatures, ring of 1 entry |
| NotaryPolicy | are the notary's own requests to checked hosts and what it signs from one, are robots rules honoured where the file was always served, is a host left alone for the interval after a fetch made when no call waits for its robots.txt, does every call return, wherever the engine goes by itself? | 2 calls, a page robots.txt disallows and a login page on 2 hosts, 2 redirects, interval 1, clock 1–2 |
| MerkleTree | does every leaf of every tree have a short proof that holds for that leaf only, do the implementations agree, and can a tree be shown to extend its own past and nothing else? | up to 8 leaves of 2 values, one of which looks like a node; proofs whole, cut, padded, and of trees that differ in two leaves |
| IrfVerify | is what is accepted according to the rules, what is refused against one, and does a hybrid policy survive the loss of an algorithm? | up to 3 signers of 12 kinds, a limit of 3, 4 policies, 12 trust lists |
| DatasetCommit | do manifests commit to what was added, do proofs hold exactly in their tree's manifests, and is what the ring let in contradicted by a later compromise only? | 3 of 3 records, one of them failing with the leaf of another, 2 manifests, ring of 1 entry |
| Changes | are reports backed by durable, ordered evidence, is no observation lost, and, of a page one detector alone watches, is the last one the baseline, and can no changed price, stock word or number pass in small steps? | 2 detectors in 3 ways: one of them with 2 pages and 6 contents around the thresholds; both on one page with 2 contents; each on its own page; 3 rows, clocks 1–2, crashes, failing commits, locks |
| SoloHome | does one identity sign unless first runs overlap, does what is written undisturbed verify and say what was printed, do jobs attest to pages, is the notary contacted on a standing yes only? | 2 solo runs and a verify run; a solo run and a scrape; 2 sessions and 2 notary commands; every run once, each killed anywhere |
| Custody | is what a verifier accepts observed, signed and agreed as it says, and no later than its timestamp? | 2 URLs, 2 bodies, 5 answers, 4 backends, 3 adapters, 4 plans (two URLs anchored, or stored; one URL notarised and exported, or notarised and stored); authority's clock to 1, fetchers' one off it either way, 2 corroborations, 1 token, 1 alteration, 1 notary observation, 1 forgery |

The bounds are small because the properties are about few things at once. A fork, a
downgrade or a key put back needs two or three entries and times before, at and after an
instant; a replay needs one record, a second one that could be mistaken for it, and room
for an entry to expire while the record is still young; overlap needs two calls; an
error in splitting shows up to eight leaves, since every subtree of a larger tree is a
tree of that kind with a power of two at its left; two witnesses beside an observer, or
one that signs twice, need three signers; a lost baseline and a drift in small steps
need three rows; an overlap of two first runs, or of a writer and a reader with an
earlier record between them, needs two solo runs and a verify run, and a yes that
survives its no two sessions and two commands; the five kinds of run touch each other
through the files of the three groups only, so `Together` runs no more of them at once.
The uses of a record in `Custody` read it and change nothing of one another but the
corroborations, which export reports and the store keeps: those are together for that
reason. A clock of two readings has a fetch, a signature and a token at, before and
after one another, and a drift of one puts the fetcher's time on the wrong side of each.
A stale stamp needs a clock that moves once, between a call's start and its fetch, and a
call after it, which two concurrent callers can make; with the interval at 1 and the
clock at 1 and 2 that happens in `NotaryPolicy`. One ring entry is enough beside a
handoff or a builder, where the ring can only be extended or revoked under them; longer
rings are `KeyRingReuse`'s. The Proofs modules lift most of the properties to every
bound.

The remaining runs expect a **violation**: each shows where the program does otherwise
than its documents say.

| run | what it shows |
|---|---|
| HandoffShared | two verifiers on one store accept one record: `seen` and `record` are two calls |
| KeyRingDowngrade | `CompromiseSticks`: a second `revoke` replaces a compromise (`keys.py:219`), although "Every record signed by that key AFTER `compromised_at` is suspect" (`keys.py:14-16`) |
| NotarySlowRobots | `FetchesSpaced`: the time stored for a host (`notary.py:296`) is read before robots.txt is awaited, so a slow file makes the fetch later than its stamp, and the next one too early for "seconds between fetches per host" (`notary.py:83`) |

Beside each is a run of what does hold: `HandoffReplay` with one agent per store;
`KeyRingReuse` with `SuspicionLiftedOnlyByRevoke`, which leaves a second `revoke` of the
very key as the only way out of a compromise; `NotaryPolicy` with `SpacedOnceSettled`,
under the same policy. `NotarySlowRobots` has three calls of one page, an interval of 2
and a clock that goes up to 5.

Other properties have an antecedent that the code does not enforce:

- `OneActiveKey` is about rings with one root: two `add_root` calls give two active
  entries. `ChainVerifies` excepts revocations attested by a key that is not in the
  ring, which `revoke` permits and `verify_chain` reports.
- `OnlyCheckedHosts` is about what the notary asks for itself, by what it saw of the
  addresses when it checked. The engine's own requests (`fetch.py:76`, `:124`) are looked
  at when they are over (`notary.py:209-212`): they may have reached a private address,
  and the property says that no page from one is signed. The client's second resolution
  (`ssrf.py:11-17`) is outside the model.
- `SpacedOnceSettled` says nothing of the time after a fetch whose own call, or another,
  was still waiting for the robots.txt of the host.
- `BaselineIsLatest` and `SignalsTold` are about pages that one detector alone watches
  (`WatchedAlone`), whoever else shares the file: look-up and save (`changes.py:180`) are
  two transactions, and of two detectors on one page the second passes over what the
  first saved between them.
- `IncludedStaysExplained` is about `add`: `build` (`dataset.py:262`) does not consult
  the ring again.
- Robots rules and the login-wall test apply to the URL of the call, so
  `RobotsHonouredIfServed` is about first requests; a redirect's target is checked for its
  address alone (`notary.py:205`). They are promised for hosts whose file was always
  served: the call that meets a network failure is told to disallow, as the comment
  there says, but what it leaves in the cache (`robots.py:98`) allows the next call.
- `IdentityKept` needs first runs that do not overlap, and the first half of `KeySettled`
  that nobody died while creating the file; the half about signing in a readable file
  does without: "Keys are generated once" (`provenance.py:75`) is not enforced,
  and an empty file left by a run that was killed makes all later runs fail.
- `UndisturbedVerifies` needs runs that keep apart: record and content are two writes
  (`cli.py:350-353`).
- `JobsAttest` excepts bodies that are not UTF-8, which the store keeps with replacement
  characters (`store.py:51`).
- `ContactsConsented` is about an answer that was taken back before it was read; a save
  of an older configuration may still undo a later answer (`solo.py:145`).
- `UpperBound` is about tokens under the pinned authority's certificate: the verifier
  checks a signature against the certificate the token carries, and no chain. It bounds
  when the record was signed and when a native one was observed, by the authority's clock;
  of `fetched_at` it says nothing, which a fast clock may put after the token.
- `NativeMeansObserved` is about records that verify under the worker's or the notary's
  key: somebody else may sign that he fetched anything.
- `CorroborationsHold` is about agreement: `notarize` (`notary.py:349`) verifies an answer
  under the key inside it and pins none, so a corroboration may be anybody's, the user's
  own record included, and their number says nothing of how many observed. One that
  names the notary's key is the notary's own observation.

The model also follows the code in the following, which a reader of the comments might
not expect. They are modelled as they are, and no property contradicts them.

- A rotation to a key that is in the ring already makes `active_key` (`keys.py:229`)
  return an entry of a key that `find` sees as revoked.
- A record whose corroborations disagree counts as corroborated in a manifest's
  composition (`dataset.py:252`), where the field's comment (`:64`) says that one agreed.
- A retry of `notarize` appends the same notary's observation again, and `verify`
  (`cli.py:208`) and the handoff (`agent_trust.py:205`) count it as another worker's. The
  URL of the answer is not compared with the record's (`notary.py:349-357`), so
  `CorroborationsHold` speaks of the same content, at the corroboration's own URL.
- When the browser fails, its error replaces a result that was fine (`fetch.py:75-81`).
- Firecrawl's answer of 201 to 299 is an error with a 2xx status (`backends.py:132`): a
  caller that tests the record's status alone takes the empty record for a page.
- `request_timestamp` compares nothing with its request (`temporal.py:181`), and a
  manifest's timestamp covers its root alone.
- The reader loses all its documents when a backend raises; a chunk's text is made
  from the page and does not have the record's hash, so `ChunkCheckExact` is about a
  consumer who holds the page's body.

Where the code and the format's specification part, the properties say what the code
does. Rule 9 of `SPEC-IRF-v1.md` asks for the required algorithms; the code counts those
of observers only, so a key that is listed both as observer and as witness covers
nothing. Section 6.3 asks implementations to reject payloads under the reserved domains;
`verify_envelope` looks at no payload and verifies under any domain it is given, which is
left to its caller. And `RequireExactly` admits further algorithms beside the required
one: the list whose length is tested (`verify.rs:353`) only ever holds required ones.

### Fairness

Only `ObserveReturns` needs any: weak fairness of the answers to a pending request,
which the timeouts of the HTTP clients give for a site that falls silent
(`robots.py:85`, `fetch.py:88`: a request that is not answered ends with an exception,
which is an answer here). They run per read: that no site sends a byte now and then for
ever is an assumption about the sites. The engine may wander for as long as it likes, so
fairness is of its answer alone. Nothing is assumed of callers, of the clock or of the
sites: a site may redirect for ever, and it is the hop counter that ends the call. All
other properties are safety properties of `Init /\ [][Next]_vars`.

## 4. The proofs

Everything below is checked by `tlapm` without assumptions besides the named `ASSUME`s
on constants (types, and that `None` is none of the values), which every run evaluates,
and conditions that stand in the theorem that needs them (one agent, a cosmetic
threshold of at least 95, an age bound inside the TTL). No policy of the notary and no
caller of the ring is excluded.

- **KeyRingProofs.** `TypeCorrect`. `IdentityCorrect`: `IdentityInv`, the type with
  `Continuity` and `NoFork`, is inductive; a fork is excluded because a rotation
  requires an unrevoked entry and leaves it revoked, which `Continuity` records for
  every predecessor. `OneIdentity`, which the run checks, is the two together.
  `ChainCorrect`: `verify_chain` finds nothing wrong but revocations attested from
  outside the ring; it needs, of every entry, whose signatures it carries.
  `OneActiveCorrect`, of rings with one root. `TrustCorrect` and `SuspicionCorrect` are
  action properties: no step takes trust but a compromise, and none gives it back inside
  a window but a milder or later `revoke` of the very key. For the latter the entry `find`
  returns stays the first of its key, and a rotation or a new root leaves it as it is,
  because a compromised entry cannot be rotated.
- **HandoffProofs.** `TypeCorrect`; `ReplayCorrect`, the refinement, for one agent: the
  store remembers every acceptance the guard has not forgotten, and a call between
  look-up and record knows that its signature is absent (`RememberedInv`).
  `OnceCorrect` adds that a call past the age check will end before its record is as
  old as the TTL (`FreshInv`), so forgetting is harmless. `RememberedCorrect`.
  `ExplainedCorrect`: an accepted record's key is in the ring and not created after
  it, which stays so (`KeyOnRecord`), so a compromise is the only branch left.
- **NotaryProofs.** `TypeCorrect`, `PublicCorrect` (of `OnlyCheckedHosts`: a call that
  waits for a page was seen public at its current URL, and what it returns is that page
  or one at a final URL that was looked at), `RobotsCorrect` (a parser of the empty file is
  in the cache only of a host in `unserved`), `SpacingCorrect` under every policy:
  once a host had a settled fetch, no call waits for its robots.txt ever again, because
  the file is cached, so whoever fetches stamps the host with the time he fetches at
  (`ForGood`, `SpacingInv`), and no stamp takes it back (`SettledKept`).
- **DatasetProofs.** `TypeCorrect`; `ManifestCorrect`, because tree and records are only
  appended to and a manifest determines the prefix it was built from;
  `ExplainedCorrect`, as for the handoff, by way of the key ring's own theorems.
  `MembershipCorrect`, from `ProofsInv`: every proof handed out was taken of a leaf of a
  prefix of the tree (`TakenFrom`), prefixes stay, and a manifest's root determines its
  leaves; so the proof holds in the manifests of that prefix and in no other.
- **DatasetProofs, the trees.** For trees of every size. `LeavesProvable`, `LeafBound`,
  `RootsDiffer` and `RootCorrect` are about `merkle.py`: every leaf has a proof that
  verifies, and no longer than the tree is deep; with another leaf in its place the
  proof of a position does not verify; a root determines the leaves (`SubtreesCommit`);
  the recursive root is the one made level by level. `OneAnswer`: both implementations
  compute the same roots and paths. `InclusionSound`, `InclusionCorrect`: the loops of
  `verify_inclusion` accept a leaf at its own index only, whatever the proof, since the
  decisions of the descent determine what each turn of the way back may have hashed
  (`ReplayDecides`). `ConsistencySound`, `PastStays`: a consistency proof that verifies
  against the root of a tree, whatever it holds, leaves no other past than that tree's
  own beginning (`ChecksBind`). `ExtensionShown`: a tree can show that it extends each
  of its beginnings. It assumes `MaxLeaves <= Power[63]`, because the verifier refuses a
  proof of more than 64 hashes; no list of 32-byte hashes in memory is that long. The
  other theorems do without.
- **ChangesProofs.** `TypeCorrect`; `KeptCorrect`; `EvidencedCorrect`, from `CallInv`:
  the prior and the new row of a running call are visible to its connection and stay
  where they are, because a rollback of another connection removes only rows this one
  cannot see, and of its own ends the call. `BaselineCorrect`, of pages one detector
  alone watches: between look-up and insert nobody else inserts a row of the page, since
  what others insert is in their feeds (`FeedInv`, `OthersElsewhere`), and a failed
  commit that is retried is visible to the retry (`OrderInv`). `SignalsCorrect`, of such
  pages and for a cosmetic threshold of at least 95: a signal that differs between two
  observations differs between the first and the prior of the last, which was told of,
  or between that prior and the last, which the differ calls material or divergent.
- **IrfVerifyProofs.** `LoopInv` is the loop's invariant: the signers before `at` passed,
  and the two lists hold, without duplicates, the required algorithms of the observers and
  the keys of the witnesses among them. From it `TypeCorrect`, `AcceptedCorrect` (a list
  without duplicates is as long as its set is large), `RefusalCorrect` (each reason by the
  check that gives it) and `HybridCorrect`.
- **SoloProofs.** `KeyFileCorrect`, of `KeyFile` alone, with the exceptions of its two
  properties (overlapping first runs; a death while creating the file), from `KeyInv`:
  who creates the file holds its own key (`SignersSet`); an empty or readable file has a
  creator at work on it or was left behind by one that died (`Explained`); and unless
  first runs overlap there is one creator at most, nobody else has a key before the file
  is written, and it is as the creator left it (`OneCreator`). `SoloImplementsKeyFile`:
  every step of a home is a step of the key file's specification or leaves it alone;
  `HomeKeepsIdentity` follows. `ConsentCorrect`, from `ConsentInv`: every yes in the
  file or in a run's memory has an answer whose owner has not been answered no before it
  was read. `JobsCorrect`, from `JobsInv`: a scrape holds what it fetched and the record
  it signed of it. `UndisturbedCorrect`, from `FilesInv`: as long as nothing disturbed
  them, the two files are as far as their only writer got, and belong together when
  nobody writes (`FilesFit`); a verify run that was not disturbed has read half of that,
  or all of it (`QuietFit`).
- **CustodyProofs.** `UpperBoundCorrect`, `NativeCorrect`, `CorroborationsCorrect` and
  `ChunkCorrect`, from `CustodyInv`: every record that anybody holds, shows with a token
  or gets back from a store carries a signature that was made (`Stamped`); what the
  worker or the notary signed as native was seen, by the authority's clock no later than
  it was signed (`SignedInv`); what reached the authority was signed before, so a token
  is later still (`AskedInv`, `IssuedInv`), and one that verifies under the pinned
  certificate is one of them (`ProofInv`); corroborations are records that were signed,
  bare and of the record's content (`RecordsInv`). The constants' assumption is
  `CustodyAssumption`: three kinds of backend, and keys of the worker, the notary and
  the authority that are not the rogue's. The clocks are free: `Drift` is any set.

How the trees are proved. The library's induction theorems take a predicate, which these
provers cannot instantiate; its well-foundedness of `<` takes a set. So an induction over
the size of a subtree looks at the set of sizes at which the claim fails, takes its least
element, and refutes it from the two smaller halves. A recursive function is a
`CHOOSE`, so each first needs a proof that a function with its equation exists: from
beginnings of every length, on which any two agree. The split is shown to be the largest
power of two below the size, in both implementations. Least and greatest elements of sets of
numbers in `ChangesProofs` and `IrfVerifyProofs` come from the same well-foundedness.

Only model-checked: `ObserveReturns`, which is liveness, and the runs that expect a
violation.

## 5. Not modelled

- Bytes: hashing, canonical JSON, Ed25519, CBOR, HTML, text normalisation and the
  canonical URL. The models take what these compute as parameters or free terms; a
  collision or a codec's error is outside.
- Threads: `InMemorySeenStore`'s calls are atomic here. Two threads that drop one
  expired entry would raise in one of them, which is an exception and no verdict.
- Resource growth: the seen store and the robots cache are not bounded by the code.
- The rate limit by `netloc`: a host has one spelling in the model.
- The patterns that recognise a shell, a wall or a token in a text, and the extraction of
  text from a page: which bodies match is a parameter.
- Certificates' bytes and chains: a certificate is its key.
- The components marked `not_modelled` in `PROJECT.json`, with their reasons there.
- A detector whose commit raised and that is never used again keeps the file locked.
  The model has that behaviour; no document promises progress, so no property asks it.

## 6. Plan

Done, in this order: `KeyRing`; `ReplayGuard` and `Handoff`; `Notary`; `Merkle` and
`Dataset`; `Semantic` and `Changes`; `IrfMerkle` and `MerkleLog`; `IrfVerify`; `Provenance`,
`Fetching`, `KeyFile` and `Solo`; `Temporal` and `Custody`; with proofs for all of them.

Next, most important first:

1. `history` and the remaining commands and MCP tools, which read what is modelled.
2. The dataset's manifests over records of several builders.
