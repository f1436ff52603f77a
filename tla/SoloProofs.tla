------------------------------ MODULE SoloProofs ------------------------------
(***************************************************************************)
(* The key file keeps one identity unless first runs overlap, and ends up  *)
(* whole and private unless a process dies while it creates it, for any    *)
(* number of processes; the runs of Solo, with all that they do to the     *)
(* other files, do nothing else to it. The notary is contacted on a        *)
(* standing yes only, jobs attest to pages, and what is written and read   *)
(* undisturbed verifies.                                                   *)
(***************************************************************************)
EXTENDS Solo, TLAPS

Stages == {"idle", "found", "missing", "opened", "written", "ready", "failed", "dead"}

KeyTypeOK ==
    /\ keyFile \in [text : Processes \union {Absent, Truncated}, private : BOOLEAN]
    /\ stage \in [Processes -> Stages]
    /\ signer \in [Processes -> Processes \union {Absent}]
    /\ used \subseteq Processes
    /\ overlapped \in BOOLEAN
    /\ torn \in BOOLEAN

\* A creator holds its own key, in a private file once it is ready; who has found the file
\* will read one, and not its own, which it has not generated.
SignersSet ==
    \A p \in Processes :
        /\ stage[p] \in {"missing", "opened", "written"} => signer[p] = p
        /\ stage[p] = "ready" => signer[p] \in Processes
        /\ stage[p] = "ready" /\ signer[p] = p => keyFile.private
        /\ stage[p] \in {"idle", "found"} => keyFile.text # p
        /\ stage[p] = "found" => keyFile.text # Absent

\* An empty or a readable key file has somebody at work on it, or was left behind.
Explained ==
    ~torn =>
        /\ keyFile.text = Truncated => \E p \in Processes : stage[p] = "opened"
        /\ keyFile.text # Absent /\ ~keyFile.private =>
                \E p \in Processes : stage[p] \in {"opened", "written"}

\* As long as no first runs overlap, there is one creator at most, and the file is as it
\* left it; nobody else has a key, and nothing is signed, before it is written.
OneCreator ==
    ~overlapped =>
        /\ \A p, q \in Processes :
                /\ stage[p] \in {"missing", "opened", "written"}
                /\ stage[q] \in {"missing", "opened", "written"}
                => p = q
        /\ \A p \in Processes :
                /\ stage[p] = "missing" => keyFile.text = Absent
                /\ stage[p] = "opened" => keyFile.text = Truncated
                /\ stage[p] \in {"written", "ready"} => keyFile.text = signer[p]
        /\ \A k \in used : keyFile.text = k

KeyInv == KeyTypeOK /\ SignersSet /\ Explained /\ OneCreator

LEMMA KeyInitInv == KeyInit => KeyInv
<1> SUFFICES ASSUME KeyInit PROVE KeyInv
  OBVIOUS
<1> USE FileAssumption DEF KeyInit
<1>1. KeyTypeOK
  BY DEF KeyTypeOK, Stages
<1>2. SignersSet /\ Explained /\ OneCreator
  BY DEF SignersSet, Explained, OneCreator
<1> QED  BY <1>1, <1>2 DEF KeyInv

LEMMA ExistsInv == ASSUME KeyInv, NEW p \in Processes, Exists(p) PROVE KeyInv'
<1> USE FileAssumption DEF KeyInv, Exists, Stages
<1>1. KeyTypeOK'
  BY DEF KeyTypeOK
<1>2. SignersSet'
  BY DEF KeyTypeOK, SignersSet
<1>3. Explained'
  BY DEF KeyTypeOK, Explained
<1>4. OneCreator'
  <2>1. CASE keyFile.text # Absent
    BY <2>1 DEF KeyTypeOK, OneCreator
  <2>2. CASE keyFile.text = Absent
    <3> SUFFICES ASSUME ~overlapped' PROVE OneCreator'
      BY DEF OneCreator
    <3>1. ~overlapped /\ \A q \in Processes : stage[q] # "missing"
      BY <2>2 DEF KeyTypeOK, At
    <3>2. \A q \in Processes : stage[q] \notin {"missing", "opened", "written", "ready"}
      BY <2>2, <3>1 DEF OneCreator, SignersSet
    <3>3. used = {}
      BY <2>2, <3>1 DEF OneCreator, KeyTypeOK
    <3>4. /\ stage' = [stage EXCEPT ![p] = "missing"]
          /\ keyFile' = keyFile /\ used' = {}
      BY <2>2, <3>3
    <3>5. \A q \in Processes : q # p =>
              stage'[q] \notin {"missing", "opened", "written", "ready"}
      BY <3>2, <3>4 DEF KeyTypeOK
    <3>6. stage'[p] = "missing"
      BY <3>4 DEF KeyTypeOK
    <3> QED  BY <2>2, <3>4, <3>5, <3>6 DEF OneCreator
  <2> QED  BY <2>1, <2>2
<1> QED  BY <1>1, <1>2, <1>3, <1>4

LEMMA ReadKeyInv == ASSUME KeyInv, NEW p \in Processes, ReadKey(p) PROVE KeyInv'
<1> USE FileAssumption DEF KeyInv, ReadKey, Stages
<1>1. KeyTypeOK'
  BY DEF KeyTypeOK, SignersSet
<1>2. SignersSet'
  BY DEF KeyTypeOK, SignersSet
<1>3. Explained'
  BY DEF KeyTypeOK, Explained
<1>4. OneCreator'
  BY DEF KeyTypeOK, OneCreator
<1> QED  BY <1>1, <1>2, <1>3, <1>4

LEMMA OpenKeyInv == ASSUME KeyInv, NEW p \in Processes, OpenKey(p) PROVE KeyInv'
<1> USE FileAssumption DEF KeyInv, OpenKey, Stages
<1>1. KeyTypeOK'
  BY DEF KeyTypeOK
<1>2. SignersSet'
  BY DEF KeyTypeOK, SignersSet
<1>3. Explained'
  BY DEF KeyTypeOK, Explained
<1>4. OneCreator'
  BY DEF KeyTypeOK, OneCreator, SignersSet
<1> QED  BY <1>1, <1>2, <1>3, <1>4

LEMMA WriteKeyInv == ASSUME KeyInv, NEW p \in Processes, WriteKey(p) PROVE KeyInv'
<1> USE FileAssumption DEF KeyInv, WriteKey, Stages
<1>1. KeyTypeOK'
  BY DEF KeyTypeOK, SignersSet
<1>2. SignersSet'
  BY DEF KeyTypeOK, SignersSet
<1>3. Explained'
  BY DEF KeyTypeOK, Explained, SignersSet
<1>4. OneCreator'
  BY DEF KeyTypeOK, OneCreator, SignersSet
<1> QED  BY <1>1, <1>2, <1>3, <1>4

LEMMA ChmodInv == ASSUME KeyInv, NEW p \in Processes, Chmod(p) PROVE KeyInv'
<1> USE FileAssumption DEF KeyInv, Chmod, Stages
<1>1. KeyTypeOK'
  BY DEF KeyTypeOK
<1>2. SignersSet'
  BY DEF KeyTypeOK, SignersSet
<1>3. Explained'
  BY DEF KeyTypeOK, Explained
<1>4. OneCreator'
  BY DEF KeyTypeOK, OneCreator
<1> QED  BY <1>1, <1>2, <1>3, <1>4

LEMMA UseKeyInv == ASSUME KeyInv, NEW p \in Processes, UseKey(p) PROVE KeyInv'
  BY DEF KeyInv, UseKey, KeyTypeOK, SignersSet, Explained, OneCreator

LEMMA DieInv == ASSUME KeyInv, NEW p \in Processes, Die(p) PROVE KeyInv'
<1> USE DEF KeyInv, Die, Stages
<1>1. KeyTypeOK'
  BY DEF KeyTypeOK
<1>2. SignersSet'
  BY DEF KeyTypeOK, SignersSet
<1>3. Explained'
  BY DEF KeyTypeOK, Explained
<1>4. OneCreator'
  BY DEF KeyTypeOK, OneCreator
<1> QED  BY <1>1, <1>2, <1>3, <1>4

LEMMA KeyNextInv == KeyInv /\ [\E p \in Processes : KeyStep(p)]_keyVars => KeyInv'
<1> SUFFICES ASSUME KeyInv, [\E p \in Processes : KeyStep(p)]_keyVars PROVE KeyInv'
  OBVIOUS
<1>1. CASE UNCHANGED keyVars
  BY <1>1 DEF keyVars, KeyInv, KeyTypeOK, SignersSet, Explained, OneCreator
<1>2. ASSUME NEW p \in Processes, KeyStep(p) PROVE KeyInv'
  BY <1>2, ExistsInv, ReadKeyInv, OpenKeyInv, WriteKeyInv, ChmodInv, UseKeyInv, DieInv
  DEF KeyStep
<1> QED  BY <1>1, <1>2

LEMMA KeyInvMeans == KeyInv => IdentityKept /\ KeySettled
  BY DEF KeyInv, KeyTypeOK, SignersSet, Explained, OneCreator, IdentityKept, KeySettled, At

\* Whatever the processes are: one key signs unless two first runs overlap, and the file
\* is whole and private again when nobody is creating it unless one died creating it
\* (cli.py:38-44); even then nobody signs with a key of its own in a readable file.
THEOREM KeyFileCorrect == KeySpec => [](IdentityKept /\ KeySettled)
<1>1. KeyInit => KeyInv  BY KeyInitInv
<1>2. KeyInv /\ [\E p \in Processes : KeyStep(p)]_keyVars => KeyInv'  BY KeyNextInv
<1>3. KeyInv => IdentityKept /\ KeySettled  BY KeyInvMeans
<1> QED  BY <1>1, <1>2, <1>3, PTL DEF KeySpec

-----------------------------------------------------------------------------
(* Solo: what it does to the key file, KeyFile does. *)

LEMMA SoloStep == ASSUME [SoloNext]_soloVars PROVE [\E p \in Processes : KeyStep(p)]_keyVars
<1>1. CASE UNCHANGED soloVars
  BY <1>1 DEF soloVars
<1>2. ASSUME NEW p \in Processes, GetSigner(p) \/ Kill(p) PROVE KeyStep(p)
  BY <1>2 DEF GetSigner, Kill, KeyStep
<1>3. ASSUME NEW p \in Solos, SoloSign(p) \/ SoloRaise(p) \/ OpenRecord(p) \/ WriteRecord(p)
                               \/ OpenContent(p) \/ WriteContent(p)
      PROVE  KeyStep(p) \/ UNCHANGED keyVars
  BY <1>3 DEF SoloSign, SoloRaise, OpenRecord, WriteRecord, OpenContent, WriteContent, KeyStep
<1>4. ASSUME NEW p \in Scrapes, ScrapeSign(p) \/ SaveJob(p)
      PROVE  KeyStep(p) \/ UNCHANGED keyVars
  <2>1. CASE SaveJob(p)
    BY <2>1 DEF SaveJob
  <2>2. CASE ScrapeSign(p)
    <3>1. PICK answer \in Answers, page \in Pages :
            IF Ok(Fetch(Url, answer, page, 0)) THEN UseKey(p) ELSE UNCHANGED keyVars
      BY <2>2 DEF ScrapeSign
    <3> QED  BY <3>1 DEF KeyStep
  <2> QED  BY <1>4, <2>1, <2>2
<1>5. ASSUME NEW v \in Verifiers, ReadRecord(v) \/ ReadContent(v) PROVE UNCHANGED keyVars
  BY <1>5 DEF ReadRecord, ReadContent
<1>6. ASSUME NEW c \in Sessions, SkipPrompt(c) \/ AnswerPrompt(c) \/ SessionSign(c)
      PROVE  UNCHANGED keyVars
  BY <1>6 DEF SkipPrompt, AnswerPrompt, SessionSign
<1>7. ASSUME NEW c \in Notaries, NotaryCommand(c) PROVE UNCHANGED keyVars
  BY <1>7 DEF NotaryCommand
<1>8. ASSUME NEW c \in Sessions \union Notaries,
             LoadConfig(c) \/ OpenConfig(c) \/ WriteConfig(c) \/ KillSaving(c)
      PROVE  UNCHANGED keyVars
  BY <1>8 DEF LoadConfig, OpenConfig, WriteConfig, KillSaving
<1>9. Solos \subseteq Processes /\ Scrapes \subseteq Processes
  BY SoloAssumption
<1> QED  BY <1>1, <1>2, <1>3, <1>4, <1>5, <1>6, <1>7, <1>8, <1>9 DEF SoloNext

\* To the key file, all the commands together are any number of processes that
\* look for a key, create it, use it or die.
THEOREM SoloImplementsKeyFile == SoloSpec => KeySpec
<1>1. SoloInit => KeyInit  BY DEF SoloInit
<1>2. [SoloNext]_soloVars => [\E p \in Processes : KeyStep(p)]_keyVars  BY SoloStep
<1> QED  BY <1>1, <1>2, PTL DEF SoloSpec, KeySpec

\* The same of a home, under every run of every command: one identity unless first runs
\* overlap, in a file that is whole and private unless a run died creating it.
THEOREM HomeKeepsIdentity == SoloSpec => [](IdentityKept /\ KeySettled)
  BY SoloImplementsKeyFile, KeyFileCorrect, PTL

-----------------------------------------------------------------------------
(* The notary question *)

Callers == Sessions \union Notaries

Domains == DOMAIN phase = Runs /\ DOMAIN held = Runs

\* A yes on file is somebody's, and not yet taken back.
FileConsents ==
    \/ config \in {Absent, Truncated, Garbled}
    \/ config.notary_enabled = TRUE => config.by # None /\ config.by \notin withdrawn

\* Only answers that were saved before are taken back.
WithdrawnSaved == \A c \in withdrawn : c \in Callers /\ phase[c] \in {"resolved", "done"}

\* Who saves, saves an answer of its own.
OwnAnswer ==
    \A c \in Callers : phase[c] \in {"saving", "writing"} =>
        \E yes \in BOOLEAN : held[c].config = Answered(c, yes)

\* A yes in memory is a run's own, or was on file and not taken back when it was read.
MemoryConsents ==
    \A c \in Callers : phase[c] # "start" /\ (phase[c] = "done" => held[c] # None) =>
        /\ held[c].config.notary_enabled = TRUE =>
                /\ held[c].config.by # None
                /\ held[c].config.by = c \/ held[c].config.by \notin held[c].withdrawn
        /\ held[c].contacted => held[c].config.notary_enabled = TRUE

ConsentInv == Domains /\ FileConsents /\ WithdrawnSaved /\ OwnAnswer /\ MemoryConsents

LEMMA ConsentInit == SoloInit => ConsentInv
<1> SUFFICES ASSUME SoloInit PROVE ConsentInv
  OBVIOUS
<1>1. /\ \A r \in Runs : phase[r] \in {"start", "done"} /\ held[r] = None
      /\ Domains /\ config = Absent /\ withdrawn = {}
  BY DEF SoloInit, Domains
<1>2. Callers \subseteq Runs
  BY DEF Callers, Runs
<1> QED
  BY <1>1, <1>2 DEF ConsentInv, FileConsents, WithdrawnSaved, OwnAnswer, MemoryConsents

\* The runs over the other files leave all of it alone.
LEMMA ConsentElsewhere ==
    ASSUME ConsentInv, NEW r \in Runs, r \notin Callers, UNCHANGED configVars,
           \/ UNCHANGED phase
           \/ \E name : phase' = [phase EXCEPT ![r] = name],
           \/ UNCHANGED held
           \/ \E value : held' = [held EXCEPT ![r] = value]
    PROVE  ConsentInv'
<1>1. Domains' /\ \A c \in Callers : phase'[c] = phase[c] /\ held'[c] = held[c]
  BY DEF ConsentInv, Domains, Callers, Runs
<1> QED
  BY <1>1 DEF ConsentInv, FileConsents, WithdrawnSaved, OwnAnswer, MemoryConsents, configVars

\* A caller that only holds something new, or moves without saving.
LEMMA ConsentMoves ==
    ASSUME ConsentInv, NEW c \in Callers, UNCHANGED configVars, NEW name, NEW value,
           phase' = [phase EXCEPT ![c] = name],
           held' = [held EXCEPT ![c] = value] \/ (held' = held /\ value = held[c]),
           phase[c] \in {"resolved", "done"} => name \in {"resolved", "done"},
           name \in {"saving", "writing"} =>
                \E yes \in BOOLEAN : value.config = Answered(c, yes),
           name # "start" /\ (name = "done" => value # None) =>
                /\ value.config.notary_enabled = TRUE =>
                        /\ value.config.by # None
                        /\ value.config.by = c \/ value.config.by \notin value.withdrawn
                /\ value.contacted => value.config.notary_enabled = TRUE
    PROVE  ConsentInv'
<1>1. /\ Domains'
      /\ phase'[c] = name /\ held'[c] = value
      /\ \A d \in Callers : d # c => phase'[d] = phase[d] /\ held'[d] = held[d]
  BY DEF ConsentInv, Domains, Callers, Runs
<1>2. FileConsents'
  BY DEF ConsentInv, FileConsents, configVars
<1>3. WithdrawnSaved'
  BY <1>1 DEF ConsentInv, WithdrawnSaved, configVars
<1>4. OwnAnswer'
  BY <1>1 DEF ConsentInv, OwnAnswer
<1>5. MemoryConsents'
  BY <1>1 DEF ConsentInv, MemoryConsents
<1> QED  BY <1>1, <1>2, <1>3, <1>4, <1>5 DEF ConsentInv

LEMMA ConsentCallers ==
    ASSUME ConsentInv, NEW c \in Callers,
           \/ LoadConfig(c) \/ SkipPrompt(c) \/ AnswerPrompt(c) \/ NotaryCommand(c)
           \/ SessionSign(c) \/ KillSaving(c)
    PROVE  ConsentInv'
<1>1. CASE LoadConfig(c)
  <2> DEFINE value == Settings(IF config \in {Absent, Truncated, Garbled} THEN NeverAsked
                               ELSE config, withdrawn, FALSE)
  <2>1. value.config.notary_enabled = TRUE =>
            value.config.by # None /\ value.config.by \notin value.withdrawn
    <3>1. CASE config \in {Absent, Truncated, Garbled}
      <4>1. value.config.notary_enabled = None /\ None # TRUE
        BY <3>1, SoloAssumption DEF Settings, NeverAsked
      <4> QED  BY <4>1
    <3>2. CASE config \notin {Absent, Truncated, Garbled}
      BY <3>2 DEF ConsentInv, FileConsents, Settings
    <3> QED  BY <3>1, <3>2
  <2>2. ~value.contacted
    BY DEF Settings
  <2>3. /\ phase' = [phase EXCEPT ![c] = "loaded"] /\ held' = [held EXCEPT ![c] = value]
        /\ UNCHANGED configVars /\ phase[c] = "start"
    BY <1>1 DEF LoadConfig, Hold, Move
  <2> HIDE DEF value
  <2> QED  BY <2>1, <2>2, <2>3, ConsentMoves
<1>2. CASE SkipPrompt(c) \/ KillSaving(c)
  <2>1. PICK name \in {"resolved", "done"} : phase' = [phase EXCEPT ![c] = name]
    BY <1>2 DEF SkipPrompt, KillSaving, Move
  <2>2. UNCHANGED configVars /\ UNCHANGED held /\ phase[c] \in {"loaded", "writing"}
    BY <1>2 DEF SkipPrompt, KillSaving
  <2> QED  BY <2>1, <2>2, ConsentMoves DEF ConsentInv, MemoryConsents
<1>3. CASE AnswerPrompt(c) \/ (NotaryCommand(c) /\ phase'[c] = "saving")
  <2>1. PICK yes \in BOOLEAN :
            /\ held' = [held EXCEPT ![c] = Settings(Answered(c, yes), held[c].withdrawn, FALSE)]
            /\ phase' = [phase EXCEPT ![c] = "saving"]
    BY <1>3 DEF AnswerPrompt, NotaryCommand, Hold, Move, ConsentInv, Domains, Callers, Runs
  <2>2. UNCHANGED configVars /\ phase[c] = "loaded"
    BY <1>3 DEF AnswerPrompt, NotaryCommand
  <2> DEFINE value == Settings(Answered(c, yes), held[c].withdrawn, FALSE)
  <2>3. /\ value.config = Answered(c, yes) /\ ~value.contacted
        /\ value.config.by = c /\ c # None
    BY SoloAssumption DEF Settings, Answered, Callers
  <2>4. held' = [held EXCEPT ![c] = value]
    BY <2>1
  <2> HIDE DEF value
  <2> QED  BY <2>1, <2>2, <2>3, <2>4, ConsentMoves
<1>4. CASE NotaryCommand(c) /\ phase'[c] # "saving"
  <2>1. /\ phase' = [phase EXCEPT ![c] = "done"] /\ UNCHANGED held /\ UNCHANGED configVars
        /\ phase[c] = "loaded"
    BY <1>4 DEF NotaryCommand, Hold, Move, ConsentInv, Domains, Callers, Runs
  <2> QED  BY <2>1, ConsentMoves DEF ConsentInv, MemoryConsents
<1>5. CASE SessionSign(c)
  <2> DEFINE value == Settings(held[c].config, held[c].withdrawn,
                               held[c].config.notary_enabled = TRUE)
  <2>1. /\ value.config = held[c].config /\ value.withdrawn = held[c].withdrawn
        /\ value.contacted <=> held[c].config.notary_enabled = TRUE
    BY DEF Settings
  <2>2. /\ phase' = [phase EXCEPT ![c] = "done"] /\ held' = [held EXCEPT ![c] = value]
        /\ UNCHANGED configVars /\ phase[c] = "resolved"
    BY <1>5 DEF SessionSign, Hold, Move
  <2>3. /\ value.config.notary_enabled = TRUE =>
                /\ value.config.by # None
                /\ value.config.by = c \/ value.config.by \notin value.withdrawn
        /\ value.contacted => value.config.notary_enabled = TRUE
    BY <2>1, <2>2 DEF ConsentInv, MemoryConsents
  <2> HIDE DEF value
  <2> QED  BY <2>2, <2>3, ConsentMoves
<1> QED  BY <1>1, <1>2, <1>3, <1>4, <1>5

LEMMA ConsentSaves ==
    ASSUME ConsentInv, NEW c \in Callers, OpenConfig(c) \/ WriteConfig(c)
    PROVE  ConsentInv'
<1>1. CASE OpenConfig(c)
  <2>1. /\ phase' = [phase EXCEPT ![c] = "writing"] /\ phase[c] = "saving"
        /\ config' = Truncated /\ UNCHANGED <<held, withdrawn>>
    BY <1>1 DEF OpenConfig, Move
  <2>2. /\ Domains' /\ phase'[c] = "writing"
        /\ \A d \in Callers : d # c => phase'[d] = phase[d]
    BY <2>1 DEF ConsentInv, Domains, Callers, Runs
  <2> QED
    BY <2>1, <2>2 DEF ConsentInv, FileConsents, WithdrawnSaved, OwnAnswer, MemoryConsents
<1>2. CASE WriteConfig(c)
  <2>1. PICK yes \in BOOLEAN : held[c].config = Answered(c, yes)
    BY <1>2 DEF WriteConfig, ConsentInv, OwnAnswer
  <2>2. held[c].config.by = c /\ held[c].config.notary_enabled = yes
    BY <2>1 DEF Answered
  <2>3. /\ UNCHANGED held /\ phase[c] = "writing"
        /\ config' \in {held[c].config, Garbled}
    BY <1>2 DEF WriteConfig, Overlay
  <2>4. PICK name \in {"resolved", "done"} : phase' = [phase EXCEPT ![c] = name]
    BY <1>2 DEF WriteConfig, Move
  <2>5. withdrawn' = IF yes THEN withdrawn
                     ELSE withdrawn \union {d \in Callers : phase[d] \in {"resolved", "done"}}
    BY <1>2, <2>2 DEF WriteConfig, Callers
  <2>6. /\ Domains' /\ phase'[c] = name
        /\ \A d \in Callers : d # c => phase'[d] = phase[d]
    BY <2>3, <2>4 DEF ConsentInv, Domains, Callers, Runs
  <2>7. WithdrawnSaved'
    BY <2>3, <2>5, <2>6 DEF ConsentInv, WithdrawnSaved
  <2>8. FileConsents'
    <3>1. c \notin withdrawn /\ c # None
      BY <2>3, SoloAssumption DEF ConsentInv, WithdrawnSaved, Callers
    <3> QED  BY <3>1, <2>2, <2>3, <2>5 DEF FileConsents
  <2>9. OwnAnswer'
    BY <2>3, <2>6 DEF ConsentInv, OwnAnswer
  <2>10. MemoryConsents'
    BY <2>3, <2>6 DEF ConsentInv, MemoryConsents
  <2> QED  BY <2>6, <2>7, <2>8, <2>9, <2>10 DEF ConsentInv
<1> QED  BY <1>1, <1>2

LEMMA ConsentNext == ConsentInv /\ [SoloNext]_soloVars => ConsentInv'
<1> SUFFICES ASSUME ConsentInv, [SoloNext]_soloVars PROVE ConsentInv'
  OBVIOUS
<1>1. CASE UNCHANGED soloVars
  BY <1>1 DEF soloVars, configVars, ConsentInv, Domains, FileConsents, WithdrawnSaved,
              OwnAnswer, MemoryConsents
<1>2. /\ \A p \in Processes \union Verifiers : p \in Runs /\ p \notin Callers
      /\ Solos \subseteq Processes /\ Scrapes \subseteq Processes
  BY SoloAssumption DEF Runs, Callers
<1>3. ASSUME NEW p \in Processes, GetSigner(p) \/ Kill(p) PROVE ConsentInv'
  BY <1>2, <1>3, ConsentElsewhere DEF GetSigner, Kill, Move, Hold
<1>4. ASSUME NEW p \in Solos, SoloSign(p) \/ SoloRaise(p) \/ OpenRecord(p) \/ WriteRecord(p)
                               \/ OpenContent(p) \/ WriteContent(p)
      PROVE  ConsentInv'
  <2>1. /\ UNCHANGED configVars
        /\ UNCHANGED phase \/ \E name : phase' = [phase EXCEPT ![p] = name]
        /\ UNCHANGED held \/ \E value : held' = [held EXCEPT ![p] = value]
    BY <1>4 DEF SoloSign, SoloRaise, OpenRecord, WriteRecord, OpenContent, WriteContent,
                Move, Hold
  <2> QED  BY <2>1, <1>2, ConsentElsewhere
<1>5. ASSUME NEW p \in Scrapes, ScrapeSign(p) \/ SaveJob(p) PROVE ConsentInv'
  <2>1. /\ UNCHANGED configVars
        /\ UNCHANGED phase \/ \E name : phase' = [phase EXCEPT ![p] = name]
        /\ UNCHANGED held \/ \E value : held' = [held EXCEPT ![p] = value]
    BY <1>5 DEF ScrapeSign, SaveJob, Move, Hold
  <2> QED  BY <2>1, <1>2, ConsentElsewhere
<1>6. ASSUME NEW v \in Verifiers, ReadRecord(v) \/ ReadContent(v) PROVE ConsentInv'
  <2>1. UNCHANGED configVars
    BY <1>6 DEF ReadRecord, ReadContent
  <2>2. \E name : phase' = [phase EXCEPT ![v] = name]
    BY <1>6 DEF ReadRecord, ReadContent, Move
  <2>3. \E value : held' = [held EXCEPT ![v] = value]
    BY <1>6 DEF ReadRecord, ReadContent, Hold
  <2> QED  BY <2>1, <2>2, <2>3, <1>2, ConsentElsewhere
<1>7. ASSUME NEW c \in Callers,
             \/ SkipPrompt(c) \/ AnswerPrompt(c) \/ SessionSign(c) \/ NotaryCommand(c)
             \/ LoadConfig(c) \/ OpenConfig(c) \/ WriteConfig(c) \/ KillSaving(c)
      PROVE  ConsentInv'
  BY <1>7, ConsentCallers, ConsentSaves
<1> QED  BY <1>1, <1>3, <1>4, <1>5, <1>6, <1>7 DEF SoloNext, Callers

\* No session contacts the notary but on a yes of its own or one that stood: for any
\* number of sessions and commands that save at once or die saving.
THEOREM ConsentCorrect == SoloSpec => []ContactsConsented
<1>1. SoloInit => ConsentInv  BY ConsentInit
<1>2. ConsentInv /\ [SoloNext]_soloVars => ConsentInv'  BY ConsentNext
<1>3. ConsentInv => ContactsConsented
  BY DEF ConsentInv, MemoryConsents, ContactsConsented, Callers
<1> QED  BY <1>1, <1>2, <1>3, PTL DEF SoloSpec

-----------------------------------------------------------------------------
(* The job store *)

\* A signed record verifies, against the key that signed it, and is of the content.
LEMMA SignVerifies ==
    ASSUME NEW key, NEW fetched
    PROVE  /\ VerifyRecord(Sign(key, fetched))
           /\ Sign(key, fetched).worker_public_key = key
           /\ Sign(key, fetched).content_hash = hash_content(fetched.content)
           /\ Sign(key, fetched).status_code = fetched.status_code
  BY DEF Sign, VerifyRecord, SigningPayload

\* What a fetch comes to has the fields of a FetchResult.
LEMMA FetchShape ==
    ASSUME NEW answer, NEW page
    PROVE  LET f == Fetch(Url, answer, page, 0)
           IN  f = FetchResult(f.url, f.final_url, f.status_code, f.content, f.content_type,
                               f.error, f.fetched_at, f.fetched_by)
<1>1. LET f == FetchHttp(Url, answer, 0)
      IN  f = FetchResult(f.url, f.final_url, f.status_code, f.content, f.content_type,
                          f.error, f.fetched_at, f.fetched_by)
  <2>1. CASE answer = Failed
    BY <2>1 DEF FetchHttp, NoResult, FetchResult
  <2>2. CASE answer # Failed
    BY <2>2 DEF FetchHttp, FetchResult
  <2> QED  BY <2>1, <2>2
<1>2. LET f == FetchBrowser(Url, page, 0)
      IN  f = FetchResult(f.url, f.final_url, f.status_code, f.content, f.content_type,
                          f.error, f.fetched_at, f.fetched_by)
  <2>1. CASE page = Failed
    BY <2>1 DEF FetchBrowser, NoResult, FetchResult
  <2>2. CASE page # Failed
    BY <2>2 DEF FetchBrowser, FetchResult
  <2> QED  BY <2>1, <2>2
<1>3. \/ Fetch(Url, answer, page, 0) = FetchHttp(Url, answer, 0)
      \/ Fetch(Url, answer, page, 0) = FetchBrowser(Url, page, 0)
  BY Zenon DEF Fetch
<1>4. CASE Fetch(Url, answer, page, 0) = FetchHttp(Url, answer, 0)
  BY <1>1, <1>4, Zenon
<1>5. CASE Fetch(Url, answer, page, 0) = FetchBrowser(Url, page, 0)
  BY <1>2, <1>5, Zenon
<1> QED  BY <1>3, <1>4, <1>5

\* What one saved job must be, once its key has signed.
Attests(j) ==
    /\ Ok(j.fetch_result)
    /\ VerifyRecord(j.provenance)
    /\ CheckRecordForBlock(j.provenance, j.fetch_result.content) # "hard_block"
    /\ j.fetch_result.content # Replaced =>
            j.provenance.content_hash = hash_content(j.fetch_result.content)

LEMMA StoredAttests ==
    ASSUME NEW key, NEW f, Ok(f),
           f = FetchResult(f.url, f.final_url, f.status_code, f.content, f.content_type,
                           f.error, f.fetched_at, f.fetched_by)
    PROVE  Attests([fetch_result |-> [f EXCEPT !.content = StoredContent(@)],
                    provenance |-> Sign(key, f)])
<1> DEFINE stored == [f EXCEPT !.content = StoredContent(@)]
           job == [fetch_result |-> stored, provenance |-> Sign(key, f)]
<1>1. /\ stored.error = f.error /\ stored.status_code = f.status_code
      /\ stored.content = StoredContent(f.content)
  BY DEF FetchResult
<1>2. job.fetch_result = stored /\ job.provenance = Sign(key, f)
  OBVIOUS
<1> HIDE DEF stored, job
<1>3. Ok(stored)
  BY <1>1 DEF Ok
<1>4. stored.content # Replaced => stored.content = f.content
  BY <1>1 DEF StoredContent
<1>5. /\ VerifyRecord(Sign(key, f))
      /\ Sign(key, f).content_hash = hash_content(f.content)
      /\ Sign(key, f).status_code = f.status_code
  BY SignVerifies, Zenon
<1>6. CheckRecordForBlock(job.provenance, job.fetch_result.content) # "hard_block"
  <2>1. job.provenance.status_code \in 200..299
    BY <1>2, <1>5 DEF Ok
  <2> QED  BY <2>1 DEF CheckRecordForBlock, DetectBlock
<1>7. job.fetch_result.content # Replaced =>
            job.provenance.content_hash = hash_content(job.fetch_result.content)
  BY <1>2, <1>4, <1>5
<1>8. Attests(job)
  BY <1>2, <1>3, <1>5, <1>6, <1>7 DEF Attests
<1> QED  BY <1>8 DEF job, stored

LEMMA SavedAttests ==
    ASSUME NEW key, NEW answer, NEW page, Ok(Fetch(Url, answer, page, 0))
    PROVE  LET f == Fetch(Url, answer, page, 0)
           IN  Attests([fetch_result |-> [f EXCEPT !.content = StoredContent(@)],
                        provenance |-> Sign(key, f)])
  BY FetchShape, StoredAttests, Zenon

\* Between its signature and its job, a scrape holds a page and its record.
ScrapeHolds ==
    \A p \in Scrapes : phase[p] = "signed" =>
        \E key \in used, answer \in Answers, page \in Pages :
            /\ Ok(Fetch(Url, answer, page, 0))
            /\ held[p] = [fetched |-> Fetch(Url, answer, page, 0),
                          record |-> Sign(key, Fetch(Url, answer, page, 0))]

JobsHold == \A j \in jobs : Attests(j) /\ j.provenance.worker_public_key \in used

JobsInv == KeyInv /\ Domains /\ ScrapeHolds /\ JobsHold

LEMMA JobsElsewhere ==
    ASSUME JobsInv, NEW r \in Runs, r \notin Scrapes, UNCHANGED jobs, KeyInv',
           used \subseteq used',
           \/ UNCHANGED phase
           \/ \E name : phase' = [phase EXCEPT ![r] = name],
           \/ UNCHANGED held
           \/ \E value : held' = [held EXCEPT ![r] = value]
    PROVE  JobsInv'
<1>1. Scrapes \subseteq Runs
  BY SoloAssumption DEF Runs
<1>2. Domains' /\ \A p \in Scrapes : phase'[p] = phase[p] /\ held'[p] = held[p]
  BY <1>1 DEF JobsInv, Domains
<1>3. ScrapeHolds'
  BY <1>2 DEF JobsInv, ScrapeHolds
<1>4. JobsHold'
  BY DEF JobsInv, JobsHold
<1> QED  BY <1>2, <1>3, <1>4 DEF JobsInv

LEMMA JobsScrapes ==
    ASSUME JobsInv, KeyInv', NEW p \in Scrapes,
           \/ ScrapeSign(p) \/ SaveJob(p) \/ GetSigner(p) \/ Kill(p)
    PROVE  JobsInv'
<1>0. p \in Runs /\ p \in Processes /\ Scrapes \subseteq Runs
  BY SoloAssumption DEF Runs
<1>1. CASE ScrapeSign(p)
  <2>1. PICK answer \in Answers, page \in Pages :
            LET fetched == Fetch(Url, answer, page, 0)
            IN  IF Ok(fetched)
                THEN /\ UseKey(p)
                     /\ Hold(p, [fetched |-> fetched, record |-> Sign(signer[p], fetched)])
                     /\ Move(p, "signed")
                ELSE /\ Move(p, "done")
                     /\ UNCHANGED <<keyVars, held>>
    BY <1>1 DEF ScrapeSign
  <2>2. UNCHANGED jobs
    BY <1>1 DEF ScrapeSign
  <2>3. CASE Ok(Fetch(Url, answer, page, 0))
    <3>1. /\ signer[p] \in used' /\ used \subseteq used'
          /\ Domains' /\ phase'[p] = "signed"
          /\ held'[p] = [fetched |-> Fetch(Url, answer, page, 0),
                         record |-> Sign(signer[p], Fetch(Url, answer, page, 0))]
          /\ \A q \in Scrapes : q # p => phase'[q] = phase[q] /\ held'[q] = held[q]
      BY <1>0, <2>1, <2>3 DEF JobsInv, Domains, UseKey, Hold, Move
    <3>2. ScrapeHolds'
      BY <2>3, <3>1 DEF JobsInv, ScrapeHolds
    <3>3. JobsHold'
      BY <2>2, <3>1 DEF JobsInv, JobsHold
    <3> QED  BY <3>1, <3>2, <3>3 DEF JobsInv
  <2>4. CASE ~Ok(Fetch(Url, answer, page, 0))
    <3>1. /\ UNCHANGED <<used, held, jobs>>
          /\ Domains' /\ phase'[p] = "done"
          /\ \A q \in Scrapes : q # p => phase'[q] = phase[q]
      BY <1>0, <2>1, <2>2, <2>4 DEF JobsInv, Domains, keyVars, Move
    <3> QED  BY <3>1 DEF JobsInv, ScrapeHolds, JobsHold
  <2> QED  BY <2>3, <2>4
<1>2. CASE SaveJob(p)
  <2>1. PICK key \in used, answer \in Answers, page \in Pages :
            /\ Ok(Fetch(Url, answer, page, 0))
            /\ held[p] = [fetched |-> Fetch(Url, answer, page, 0),
                          record |-> Sign(key, Fetch(Url, answer, page, 0))]
    BY <1>2 DEF SaveJob, JobsInv, ScrapeHolds
  <2> DEFINE f == Fetch(Url, answer, page, 0)
             job == [fetch_result |-> [f EXCEPT !.content = StoredContent(@)],
                     provenance |-> Sign(key, f)]
  <2>2. Attests(job)
    BY <2>1, SavedAttests
  <2>3. job.provenance.worker_public_key \in used
    <3>1. Sign(key, f).worker_public_key = key
      BY SignVerifies, Zenon
    <3> HIDE DEF f
    <3>2. job.provenance = Sign(key, f)
      OBVIOUS
    <3> QED  BY <3>1, <3>2
  <2>4. jobs' = jobs \union {job}
    BY <1>2, <2>1 DEF SaveJob
  <2>5. /\ UNCHANGED used /\ Domains' /\ phase'[p] = "done"
        /\ \A q \in Scrapes : q # p => phase'[q] = phase[q] /\ held'[q] = held[q]
    BY <1>0, <1>2 DEF SaveJob, JobsInv, Domains, keyVars, Move, Hold
  <2> HIDE DEF job
  <2>6. JobsHold'
    BY <2>2, <2>3, <2>4, <2>5 DEF JobsInv, JobsHold
  <2>7. ScrapeHolds'
    BY <2>5 DEF JobsInv, ScrapeHolds
  <2> QED  BY <2>5, <2>6, <2>7 DEF JobsInv
<1>3. CASE GetSigner(p)
  <2>1. UNCHANGED <<used, phase, held, jobs>>
    BY <1>3 DEF GetSigner, Exists, ReadKey, OpenKey, WriteKey, Chmod
  <2> QED  BY <2>1 DEF JobsInv, Domains, ScrapeHolds, JobsHold
<1>4. CASE Kill(p)
  <2>1. /\ UNCHANGED <<used, jobs>> /\ Domains' /\ phase'[p] = "done"
        /\ \A q \in Scrapes : q # p => phase'[q] = phase[q] /\ held'[q] = held[q]
    BY <1>0, <1>4 DEF Kill, Die, JobsInv, Domains, Move, Hold
  <2> QED  BY <2>1 DEF JobsInv, ScrapeHolds, JobsHold
<1> QED  BY <1>1, <1>2, <1>3, <1>4

LEMMA JobsNext == JobsInv /\ [SoloNext]_soloVars => JobsInv'
<1> SUFFICES ASSUME JobsInv, [SoloNext]_soloVars PROVE JobsInv'
  OBVIOUS
<1>1. KeyInv'
  BY SoloStep, KeyNextInv DEF JobsInv
<1>2. CASE UNCHANGED soloVars
  BY <1>1, <1>2 DEF soloVars, keyVars, JobsInv, Domains, ScrapeHolds, JobsHold
<1>3. ASSUME NEW p \in Scrapes, ScrapeSign(p) \/ SaveJob(p) \/ GetSigner(p) \/ Kill(p)
      PROVE  JobsInv'
  BY <1>1, <1>3, JobsScrapes
<1>4. ASSUME NEW p \in Solos,
             \/ SoloSign(p) \/ SoloRaise(p) \/ OpenRecord(p) \/ WriteRecord(p)
             \/ OpenContent(p) \/ WriteContent(p) \/ GetSigner(p) \/ Kill(p)
      PROVE  JobsInv'
  <2>1. p \in Runs /\ p \notin Scrapes
    BY SoloAssumption DEF Runs
  <2>2. UNCHANGED jobs
    BY <1>4 DEF SoloSign, SoloRaise, OpenRecord, WriteRecord, OpenContent, WriteContent,
                GetSigner, Kill
  <2>3. used \subseteq used'
    BY <1>4 DEF SoloSign, SoloRaise, OpenRecord, WriteRecord, OpenContent, WriteContent,
                GetSigner, Kill, keyVars, UseKey, Die, Exists, ReadKey, OpenKey, WriteKey, Chmod
  <2>4. UNCHANGED phase \/ \E name : phase' = [phase EXCEPT ![p] = name]
    BY <1>4 DEF SoloSign, SoloRaise, OpenRecord, WriteRecord, OpenContent, WriteContent,
                GetSigner, Kill, Move
  <2>5. UNCHANGED held \/ \E value : held' = [held EXCEPT ![p] = value]
    BY <1>4 DEF SoloSign, SoloRaise, OpenRecord, WriteRecord, OpenContent, WriteContent,
                GetSigner, Kill, Hold
  <2> QED  BY <1>1, <2>1, <2>2, <2>3, <2>4, <2>5, JobsElsewhere
<1>5. ASSUME NEW v \in Verifiers, ReadRecord(v) \/ ReadContent(v) PROVE JobsInv'
  <2>1. v \in Runs /\ v \notin Scrapes
    BY SoloAssumption DEF Runs
  <2>2. UNCHANGED <<jobs, used>>
    BY <1>5 DEF ReadRecord, ReadContent, keyVars
  <2>3. \E name : phase' = [phase EXCEPT ![v] = name]
    BY <1>5 DEF ReadRecord, ReadContent, Move
  <2>4. \E value : held' = [held EXCEPT ![v] = value]
    BY <1>5 DEF ReadRecord, ReadContent, Hold
  <2> QED  BY <1>1, <2>1, <2>2, <2>3, <2>4, JobsElsewhere
<1>6. ASSUME NEW c \in Callers,
             \/ SkipPrompt(c) \/ AnswerPrompt(c) \/ SessionSign(c) \/ NotaryCommand(c)
             \/ LoadConfig(c) \/ OpenConfig(c) \/ WriteConfig(c) \/ KillSaving(c)
      PROVE  JobsInv'
  <2>1. c \in Runs /\ c \notin Scrapes
    BY SoloAssumption DEF Runs, Callers
  <2>2. UNCHANGED <<jobs, used>>
    BY <1>6 DEF SkipPrompt, AnswerPrompt, SessionSign, NotaryCommand, LoadConfig, OpenConfig,
                WriteConfig, KillSaving, keyVars
  <2>3. \E name : phase' = [phase EXCEPT ![c] = name]
    BY <1>6 DEF SkipPrompt, AnswerPrompt, SessionSign, NotaryCommand, LoadConfig, OpenConfig,
                WriteConfig, KillSaving, Move
  <2>4. UNCHANGED held \/ \E value : held' = [held EXCEPT ![c] = value]
    BY <1>6 DEF SkipPrompt, AnswerPrompt, SessionSign, NotaryCommand, LoadConfig, OpenConfig,
                WriteConfig, KillSaving, Hold
  <2> QED  BY <1>1, <2>1, <2>2, <2>3, <2>4, JobsElsewhere
<1> QED  BY <1>2, <1>3, <1>4, <1>5, <1>6, SoloAssumption DEF SoloNext, Callers

\* Every job that was ever saved is a page with a record of it that verifies, signed by
\* a key of this home: for any number of runs, and whatever sites and browsers answer.
THEOREM JobsCorrect == SoloSpec => []JobsAttest
<1>1. SoloInit => JobsInv
  <2>1. SoloInit => KeyInv
    BY KeyInitInv DEF SoloInit
  <2>2. SoloInit => Domains /\ ScrapeHolds /\ JobsHold
    <3> SUFFICES ASSUME SoloInit PROVE Domains /\ ScrapeHolds /\ JobsHold
      OBVIOUS
    <3>1. PICK present \in Together :
            phase = [r \in Runs |-> IF r \in present THEN "start" ELSE "done"]
      BY DEF SoloInit
    <3>2. Scrapes \subseteq Runs
      BY SoloAssumption DEF Runs
    <3>3. \A p \in Scrapes : phase[p] # "signed"
      BY <3>1, <3>2
    <3> QED  BY <3>1, <3>3 DEF SoloInit, Domains, ScrapeHolds, JobsHold
  <2> QED  BY <2>1, <2>2 DEF JobsInv
<1>2. JobsInv /\ [SoloNext]_soloVars => JobsInv'  BY JobsNext
<1>3. JobsInv => JobsAttest
  BY DEF JobsInv, JobsHold, Attests, JobsAttest
<1> QED  BY <1>1, <1>2, <1>3, PTL DEF SoloSpec

-----------------------------------------------------------------------------
(* record.json and record.content *)

Fetches == {Fetch(Url, answer, page, 0) : answer \in Answers, page \in Pages}

Said(f, record) ==
    IF ~Ok(f) THEN "hard_block"
    ELSE DetectBlock(f.content, f.status_code, record.url, f.final_url)

Made(mine) == \E key \in Processes, f \in Fetches :
    mine = [fetched |-> f, record |-> Sign(key, f)]

\* A record, its content, and what was printed of the two.
Whole(record, content, said) == \E key \in Processes, f \in Fetches :
    record = Sign(key, f) /\ content = f.content /\ said = Said(f, record)

WritingPhases == {"recordOpened", "recordWritten", "contentOpened"}

\* A solo run that has signed holds what it made.
SolosHold == \A p \in Solos : phase[p] \in {"signed"} \union WritingPhases => Made(held[p])

\* The only writer since the files were last in order has left them as far as it got.
FilesFit == ~disturbed =>
    /\ \A p, q \in Solos : phase[p] \in WritingPhases /\ phase[q] \in WritingPhases => p = q
    /\ \A p \in Solos :
        /\ phase[p] = "recordOpened" => recordFile = Truncated
        /\ phase[p] \in {"recordWritten", "contentOpened"} => recordFile = held[p].record
        /\ phase[p] = "contentOpened" => contentFile = Empty
    /\ (\A p \in Solos : phase[p] \notin WritingPhases) =>
            recordFile = Absent \/ Whole(recordFile, contentFile, reported)

\* A verify run that was not disturbed has one half of what is in the files, or both.
QuietFit == \A v \in quiet :
    /\ v \in Verifiers /\ phase[v] \in {"half", "done"}
    /\ phase[v] = "half" =>
            /\ \A p \in Solos : phase[p] \notin WritingPhases
            /\ held[v].record = recordFile
            /\ Whole(recordFile, contentFile, reported)
    /\ phase[v] = "done" => Whole(held[v].record, held[v].content, held[v].reported)

Disturbable == disturbed \in BOOLEAN

FilesInv == KeyInv /\ Domains /\ Disturbable /\ SolosHold /\ FilesFit /\ QuietFit

LEMMA RunKinds ==
    /\ Solos \subseteq Runs /\ Verifiers \subseteq Runs /\ Solos \subseteq Processes
    /\ Solos \cap Verifiers = {} /\ Solos \cap Scrapes = {} /\ Scrapes \cap Verifiers = {}
    /\ Callers \cap Solos = {} /\ Callers \cap Verifiers = {}
    /\ Scrapes \subseteq Runs /\ Callers \subseteq Runs
BY SoloAssumption DEF Runs, Callers

\* What an error leaves has no status.
LEMMA ErrorsBare ==
    ASSUME NEW f \in Fetches, f.error
    PROVE  f.status_code = 0
<1>1. PICK answer \in Answers, page \in Pages : f = Fetch(Url, answer, page, 0)
  BY DEF Fetches
<1>2. f = FetchHttp(Url, answer, 0) \/ f = FetchBrowser(Url, page, 0)
  BY <1>1, Zenon DEF Fetch
<1>3. FetchHttp(Url, answer, 0).error => FetchHttp(Url, answer, 0).status_code = 0
  BY DEF FetchHttp, NoResult, FetchResult
<1>4. FetchBrowser(Url, page, 0).error => FetchBrowser(Url, page, 0).status_code = 0
  BY DEF FetchBrowser, NoResult, FetchResult
<1> QED  BY <1>2, <1>3, <1>4, Zenon

LEMMA SignNames ==
    ASSUME NEW key, NEW fetched
    PROVE  /\ Sign(key, fetched).url = fetched.url
           /\ Sign(key, fetched).final_url =
                IF fetched.final_url = fetched.url THEN "" ELSE fetched.final_url
  BY DEF Sign

\* What belongs together verifies, and looks as it was printed.
LEMMA WholeVerifies ==
    ASSUME NEW read, Whole(read.record, read.content, read.reported)
    PROVE  /\ Verdict(read) = [valid |-> TRUE, content_matches |-> TRUE]
           /\ CheckRecordForBlock(read.record, read.content) = read.reported
<1>1. PICK key \in Processes, f \in Fetches :
        /\ read.record = Sign(key, f) /\ read.content = f.content
        /\ read.reported = Said(f, read.record)
  BY Zenon DEF Whole
<1>2. /\ VerifyRecord(Sign(key, f))
      /\ Sign(key, f).worker_public_key = key
      /\ Sign(key, f).content_hash = hash_content(f.content)
      /\ Sign(key, f).status_code = f.status_code
  BY SignVerifies, Zenon
<1>3. /\ Sign(key, f).url = f.url
      /\ Sign(key, f).final_url = IF f.final_url = f.url THEN "" ELSE f.final_url
  BY SignNames, Zenon
<1>4. read.record \notin {Truncated, Garbled} /\ read.content # Absent
  <2>1. PICK answer \in Answers, page \in Pages : f = Fetch(Url, answer, page, 0)
    BY DEF Fetches
  <2> QED  BY <1>1, <2>1, SoloAssumption, Zenon
<1> DEFINE r == read.record
<1>5. /\ VerifyRecord(r) /\ r.content_hash = hash_content(read.content)
      /\ r.status_code = f.status_code /\ r.url = f.url
      /\ r.final_url = IF f.final_url = r.url THEN "" ELSE f.final_url
  BY <1>1, <1>2, <1>3
<1>6. VerifyWithCorroborations(r).primary_valid = TRUE
  <2>1. VerifyWithCorroborations(r).primary_valid = VerifyRecord(r)
    BY DEF VerifyWithCorroborations
  <2> QED  BY <1>5, <2>1, Zenon DEF VerifyRecord
<1>7. Verdict(read) = [valid |-> TRUE, content_matches |-> TRUE]
  <2>1. hash_content(read.content) = r.content_hash
    BY <1>5
  <2>2. (hash_content(read.content) = read.record.content_hash) = TRUE
    BY <2>1
  <2> QED  BY <1>4, <1>6, <2>2, Zenon DEF Verdict
<1>8. CheckRecordForBlock(r, read.content) = Said(f, r)
  <2>1. CASE f.status_code \notin 200..299
    BY <1>5, <2>1 DEF CheckRecordForBlock, DetectBlock, Said, Ok
  <2>2. CASE f.status_code \in 200..299
    <3>1. ~f.error
      BY <2>2, ErrorsBare
    <3> HIDE DEF r
    <3> QED  BY <1>1, <1>5, <2>2, <3>1 DEF CheckRecordForBlock, DetectBlock, Said, Ok
  <2> QED  BY <2>1, <2>2
<1> QED  BY <1>1, <1>7, <1>8

\* One run's phase, and nobody else's.
LEMMA OneMoves ==
    ASSUME Domains, NEW r \in Runs, NEW name, phase' = [phase EXCEPT ![r] = name]
    PROVE  /\ DOMAIN phase' = Runs /\ phase'[r] = name
           /\ \A q \in Runs : q # r => phase'[q] = phase[q]
BY DEF Domains

LEMMA OneHolds ==
    ASSUME Domains, NEW r \in Runs, NEW value, held' = [held EXCEPT ![r] = value]
    PROVE  /\ DOMAIN held' = Runs /\ held'[r] = value
           /\ \A q \in Runs : q # r => held'[q] = held[q]
BY DEF Domains

LEMMA FilesElsewhere ==
    ASSUME FilesInv, KeyInv', NEW r \in Runs, r \notin Solos, r \notin Verifiers,
           UNCHANGED fileVars,
           \/ UNCHANGED phase
           \/ \E name : phase' = [phase EXCEPT ![r] = name],
           \/ UNCHANGED held
           \/ \E value : held' = [held EXCEPT ![r] = value]
    PROVE  FilesInv'
<1>1. /\ Domains' /\ \A q \in Runs : q # r => phase'[q] = phase[q] /\ held'[q] = held[q]
  BY OneMoves, OneHolds DEF FilesInv, Domains
<1>2. /\ \A p \in Solos : phase'[p] = phase[p] /\ held'[p] = held[p]
      /\ \A v \in Verifiers : phase'[v] = phase[v] /\ held'[v] = held[v]
  BY <1>1, RunKinds
<1>3. /\ recordFile' = recordFile /\ contentFile' = contentFile /\ reported' = reported
      /\ disturbed' = disturbed /\ quiet' = quiet
  BY DEF fileVars
<1>4. SolosHold'
  BY <1>2, Zenon DEF FilesInv, SolosHold, Made
<1>5. FilesFit'
  <2>1. FilesFit
    BY DEF FilesInv
  <2> QED  BY <1>2, <1>3, <2>1 DEF FilesFit, Whole
<1>6. QuietFit'
  <2>1. QuietFit
    BY DEF FilesInv
  <2> QED  BY <1>2, <1>3, <2>1 DEF QuietFit, Whole
<1>7. Disturbable'
  BY <1>3 DEF FilesInv, Disturbable
<1> QED  BY <1>1, <1>4, <1>5, <1>6, <1>7 DEF FilesInv

\* A solo run that touches no file and is not about to.
LEMMA SoloAlone ==
    ASSUME FilesInv, KeyInv', NEW p \in Solos, UNCHANGED fileVars,
           phase[p] \notin WritingPhases,
           \/ UNCHANGED phase
           \/ \E name : phase' = [phase EXCEPT ![p] = name] /\ name \notin WritingPhases,
           \/ UNCHANGED held
           \/ \E value : held' = [held EXCEPT ![p] = value],
           phase'[p] = "signed" => Made(held'[p])
    PROVE  FilesInv'
<1>0. p \in Runs /\ Solos \subseteq Runs /\ Verifiers \subseteq Runs /\ p \notin Verifiers
  BY RunKinds
<1>1. Domains' /\ \A q \in Runs : q # p => phase'[q] = phase[q] /\ held'[q] = held[q]
  BY <1>0, OneMoves, OneHolds DEF FilesInv, Domains
<1>2. phase'[p] \notin WritingPhases
  BY <1>0, OneMoves DEF FilesInv
<1>3. /\ recordFile' = recordFile /\ contentFile' = contentFile /\ reported' = reported
      /\ disturbed' = disturbed /\ quiet' = quiet
  BY DEF fileVars
<1>4. SolosHold'
  <2> SUFFICES ASSUME NEW q \in Solos, phase'[q] \in {"signed"} \union WritingPhases
               PROVE  Made(held'[q])
    BY Zenon DEF SolosHold, Made
  <2>1. CASE q = p
    BY <1>2, <2>1
  <2>2. CASE q # p
    BY <1>0, <1>1, <2>2 DEF FilesInv, SolosHold
  <2> QED  BY <2>1, <2>2
<1>5. FilesFit'
  <2>1. FilesFit
    BY DEF FilesInv
  <2>2. \A q \in Solos : /\ phase'[q] \in WritingPhases <=> phase[q] \in WritingPhases
                         /\ phase'[q] \in WritingPhases => phase'[q] = phase[q]
                                                        /\ held'[q] = held[q]
    BY <1>0, <1>1, <1>2
  <2> QED  BY <1>3, <2>1, <2>2 DEF FilesFit, Whole, WritingPhases
<1>6. QuietFit'
  <2>1. QuietFit
    BY DEF FilesInv
  <2>2. \A v \in Verifiers : phase'[v] = phase[v] /\ held'[v] = held[v]
    BY <1>0, <1>1
  <2>3. \A q \in Solos : phase'[q] \in WritingPhases <=> phase[q] \in WritingPhases
    BY <1>0, <1>1, <1>2
  <2> QED  BY <1>3, <2>1, <2>2, <2>3 DEF QuietFit, Whole
<1>7. Disturbable'
  BY <1>3 DEF FilesInv, Disturbable
<1> QED  BY <1>1, <1>4, <1>5, <1>6, <1>7 DEF FilesInv

LEMMA SignSolo ==
    ASSUME FilesInv, KeyInv', NEW p \in Solos, SoloSign(p) PROVE FilesInv'
<1>0. p \in Runs /\ p \in Processes
  BY RunKinds
<1>1. PICK answer \in Answers, page \in Pages :
        Hold(p, [fetched |-> Fetch(Url, answer, page, 0),
                 record |-> Sign(signer[p], Fetch(Url, answer, page, 0))])
  BY DEF SoloSign
<1>2. /\ phase[p] = "start" /\ phase' = [phase EXCEPT ![p] = "signed"]
      /\ UNCHANGED fileVars
  BY DEF SoloSign, Move
<1>3. signer[p] \in Processes
  BY <1>0 DEF SoloSign, UseKey, FilesInv, KeyInv, SignersSet
<1>4. held'[p] = [fetched |-> Fetch(Url, answer, page, 0),
                  record |-> Sign(signer[p], Fetch(Url, answer, page, 0))]
  BY <1>0, <1>1, OneHolds DEF FilesInv, Hold
<1>5. Fetch(Url, answer, page, 0) \in Fetches
  BY DEF Fetches
<1>6. Made(held'[p])
  BY <1>3, <1>4, <1>5, Zenon DEF Made
<1>7. \E value : held' = [held EXCEPT ![p] = value]
  BY <1>1 DEF Hold
<1>8. phase[p] \notin WritingPhases /\ "signed" \notin WritingPhases
  BY <1>2 DEF WritingPhases
<1> QED  BY <1>2, <1>6, <1>7, <1>8, SoloAlone

LEMMA OpenRecordSolo ==
    ASSUME FilesInv, KeyInv', NEW p \in Solos, OpenRecord(p) PROVE FilesInv'
<1>0. p \in Runs /\ Solos \subseteq Runs /\ Verifiers \subseteq Runs /\ p \notin Verifiers
  BY RunKinds
<1>1. /\ phase[p] = "signed" /\ phase' = [phase EXCEPT ![p] = "recordOpened"]
      /\ recordFile' = Truncated /\ contentFile' = contentFile /\ reported' = reported
      /\ held' = held /\ disturbed' = (Writing # {})
      /\ quiet' = {v \in quiet : phase[v] = "done"}
  BY DEF OpenRecord, Move
<1>2. Domains' /\ phase'[p] = "recordOpened" /\ \A q \in Runs : q # p => phase'[q] = phase[q]
  BY <1>0, <1>1, OneMoves DEF FilesInv, Domains
<1>3. SolosHold'
  <2>1. SolosHold
    BY DEF FilesInv
  <2> QED  BY <1>0, <1>1, <1>2, <2>1 DEF SolosHold, Made, WritingPhases
<1>4. FilesFit'
  <2> SUFFICES ASSUME Writing = {} PROVE FilesFit'
    BY <1>1 DEF FilesFit
  <2>1. \A q \in Solos : phase[q] \notin WritingPhases
    BY DEF Writing, WritingPhases
  <2>2. \A q \in Solos : q # p => phase'[q] \notin WritingPhases
    BY <1>0, <1>2, <2>1
  <2> QED  BY <1>1, <1>2, <2>2 DEF FilesFit, WritingPhases
<1>5. QuietFit'
  <2>1. QuietFit
    BY DEF FilesInv
  <2>2. \A v \in quiet' : v \in quiet /\ phase'[v] = "done" /\ phase[v] = "done"
    BY <1>0, <1>1, <1>2, <2>1 DEF QuietFit
  <2> QED  BY <1>1, <2>1, <2>2 DEF QuietFit, Whole
<1>6. Disturbable'
  BY <1>1 DEF FilesInv, Disturbable
<1> QED  BY <1>2, <1>3, <1>4, <1>5, <1>6 DEF FilesInv

\* A run that is writing goes on: nobody is reading undisturbed.
LEMMA WriterQuiet ==
    ASSUME FilesInv, NEW p \in Solos, phase[p] \in WritingPhases, NEW name,
           phase' = [phase EXCEPT ![p] = name], quiet' = quiet,
           \/ UNCHANGED held
           \/ \E value : held' = [held EXCEPT ![p] = value]
    PROVE  QuietFit' /\ Domains'
<1>0. p \in Runs /\ Verifiers \subseteq Runs /\ p \notin Verifiers
  BY RunKinds
<1>1. Domains' /\ \A v \in Verifiers : phase'[v] = phase[v] /\ held'[v] = held[v]
  BY <1>0, OneMoves, OneHolds DEF FilesInv, Domains
<1>2. \A v \in quiet : /\ v \in Verifiers /\ phase[v] = "done"
                       /\ Whole(held[v].record, held[v].content, held[v].reported)
  BY DEF FilesInv, QuietFit
<1>3. QuietFit'
  BY <1>1, <1>2 DEF QuietFit, Whole
<1> QED  BY <1>1, <1>3

LEMMA WriteRecordSolo ==
    ASSUME FilesInv, KeyInv', NEW p \in Solos, WriteRecord(p) PROVE FilesInv'
<1>0. p \in Runs /\ Solos \subseteq Runs
  BY RunKinds
<1>1. /\ phase[p] = "recordOpened" /\ phase' = [phase EXCEPT ![p] = "recordWritten"]
      /\ recordFile' \in Overlay(recordFile, held[p].record)
      /\ held' = held /\ disturbed' = disturbed /\ quiet' = quiet
  BY DEF WriteRecord, Move
<1>2. phase'[p] = "recordWritten" /\ \A q \in Runs : q # p => phase'[q] = phase[q]
  BY <1>0, <1>1, OneMoves DEF FilesInv
<1>3. QuietFit' /\ Domains'
  BY <1>1, WriterQuiet DEF WritingPhases
<1>4. SolosHold'
  <2>1. SolosHold
    BY DEF FilesInv
  <2> QED  BY <1>0, <1>1, <1>2, <2>1 DEF SolosHold, Made, WritingPhases
<1>5. FilesFit'
  <2> SUFFICES ASSUME ~disturbed PROVE FilesFit'
    BY <1>1 DEF FilesFit
  <2>1. recordFile = Truncated /\ \A q \in Solos : phase[q] \in WritingPhases => q = p
    BY <1>1 DEF FilesInv, FilesFit, WritingPhases
  <2>2. recordFile' = held[p].record
    BY <1>1, <2>1 DEF Overlay
  <2>3. \A q \in Solos : phase'[q] \in WritingPhases => q = p
    BY <1>0, <1>2, <2>1
  <2> QED  BY <1>1, <1>2, <2>2, <2>3 DEF FilesFit, WritingPhases
<1>6. Disturbable'
  BY <1>1 DEF FilesInv, Disturbable
<1> QED  BY <1>3, <1>4, <1>5, <1>6 DEF FilesInv

LEMMA OpenContentSolo ==
    ASSUME FilesInv, KeyInv', NEW p \in Solos, OpenContent(p) PROVE FilesInv'
<1>0. p \in Runs /\ Solos \subseteq Runs
  BY RunKinds
<1>1. /\ phase[p] = "recordWritten" /\ phase' = [phase EXCEPT ![p] = "contentOpened"]
      /\ recordFile' = recordFile /\ contentFile' = Empty
      /\ held' = held /\ disturbed' = disturbed /\ quiet' = quiet
  BY DEF OpenContent, Move
<1>2. phase'[p] = "contentOpened" /\ \A q \in Runs : q # p => phase'[q] = phase[q]
  BY <1>0, <1>1, OneMoves DEF FilesInv
<1>3. QuietFit' /\ Domains'
  BY <1>1, WriterQuiet DEF WritingPhases
<1>4. SolosHold'
  <2>1. SolosHold
    BY DEF FilesInv
  <2> QED  BY <1>0, <1>1, <1>2, <2>1 DEF SolosHold, Made, WritingPhases
<1>5. FilesFit'
  <2> SUFFICES ASSUME ~disturbed PROVE FilesFit'
    BY <1>1 DEF FilesFit
  <2>1. /\ recordFile = held[p].record
        /\ \A q \in Solos : phase[q] \in WritingPhases => q = p
    BY <1>1 DEF FilesInv, FilesFit, WritingPhases
  <2>2. \A q \in Solos : phase'[q] \in WritingPhases => q = p
    BY <1>0, <1>2, <2>1
  <2> QED  BY <1>1, <1>2, <2>1, <2>2 DEF FilesFit, WritingPhases
<1>6. Disturbable'
  BY <1>1 DEF FilesInv, Disturbable
<1> QED  BY <1>3, <1>4, <1>5, <1>6 DEF FilesInv

\* The second file is written: what is there belongs together, if nobody disturbed it.
LEMMA WriteContentSolo ==
    ASSUME FilesInv, KeyInv', NEW p \in Solos, WriteContent(p) PROVE FilesInv'
<1>0. p \in Runs /\ Solos \subseteq Runs
  BY RunKinds
<1>1. /\ phase[p] = "contentOpened" /\ phase' = [phase EXCEPT ![p] = "done"]
      /\ recordFile' = recordFile
      /\ contentFile' \in Overlay(contentFile, held[p].fetched.content)
      /\ reported' = Said(held[p].fetched, held[p].record)
      /\ held' = [held EXCEPT ![p] = None] /\ disturbed' = disturbed /\ quiet' = quiet
  BY DEF WriteContent, Move, Hold, Said
<1>2. phase'[p] = "done" /\ \A q \in Runs : q # p => phase'[q] = phase[q]
  BY <1>0, <1>1, OneMoves DEF FilesInv
<1>3. \A q \in Runs : q # p => held'[q] = held[q]
  BY <1>0, <1>1, OneHolds DEF FilesInv
<1>4. QuietFit' /\ Domains'
  BY <1>1, WriterQuiet DEF WritingPhases
<1>5. SolosHold'
  <2>1. SolosHold
    BY DEF FilesInv
  <2> QED  BY <1>0, <1>2, <1>3, <2>1 DEF SolosHold, Made, WritingPhases
<1>6. FilesFit'
  <2> SUFFICES ASSUME ~disturbed PROVE FilesFit'
    BY <1>1 DEF FilesFit
  <2>1. /\ recordFile = held[p].record /\ contentFile = Empty
        /\ \A q \in Solos : phase[q] \in WritingPhases => q = p
    BY <1>1 DEF FilesInv, FilesFit, WritingPhases
  <2>2. contentFile' = held[p].fetched.content
    BY <1>1, <2>1 DEF Overlay
  <2>3. \A q \in Solos : phase'[q] \notin WritingPhases
    BY <1>0, <1>2, <2>1 DEF WritingPhases
  <2>4. PICK key \in Processes, f \in Fetches :
            held[p] = [fetched |-> f, record |-> Sign(key, f)]
    BY <1>1, Zenon DEF FilesInv, SolosHold, Made, WritingPhases
  <2>5. held[p].fetched = f /\ held[p].record = Sign(key, f)
    BY <2>4
  <2>6. Whole(recordFile, contentFile, reported)'
    BY <1>1, <2>1, <2>2, <2>5, Zenon DEF Whole
  <2>7. \A q \in Solos : phase'[q] \notin {"recordOpened", "recordWritten", "contentOpened"}
    BY <2>3 DEF WritingPhases
  <2> QED  BY <2>3, <2>6, <2>7 DEF FilesFit
<1>7. Disturbable'
  BY <1>1 DEF FilesInv, Disturbable
<1> QED  BY <1>4, <1>5, <1>6, <1>7 DEF FilesInv

LEMMA KillSolo ==
    ASSUME FilesInv, KeyInv', NEW p \in Solos, Kill(p) PROVE FilesInv'
<1>0. p \in Runs /\ Solos \subseteq Runs
  BY RunKinds
<1>1. /\ phase' = [phase EXCEPT ![p] = "done"] /\ held' = [held EXCEPT ![p] = None]
      /\ recordFile' = recordFile /\ contentFile' = contentFile
      /\ reported' = reported /\ quiet' = quiet
      /\ disturbed' = (disturbed \/ p \in Writing)
  BY DEF Kill, Move, Hold
<1>2. CASE phase[p] \notin WritingPhases
  <2>1. p \notin Writing /\ "done" \notin WritingPhases /\ "done" # "signed"
    BY <1>2 DEF Writing, WritingPhases
  <2>2. disturbed' = disturbed
    BY <1>1, <2>1 DEF FilesInv, Disturbable
  <2>3. phase'[p] = "done"
    BY <1>0, <1>1, OneMoves DEF FilesInv
  <2>4. UNCHANGED fileVars
    BY <1>1, <2>2 DEF fileVars
  <2> QED  BY <1>1, <1>2, <2>1, <2>3, <2>4, SoloAlone
<1>3. CASE phase[p] \in WritingPhases
  <2>1. disturbed'
    BY <1>1, <1>3 DEF Writing, WritingPhases
  <2>2. QuietFit' /\ Domains'
    BY <1>1, <1>3, WriterQuiet
  <2>3. FilesFit'
    BY <2>1 DEF FilesFit
  <2>4. SolosHold'
    <3>1. SolosHold
      BY DEF FilesInv
    <3>2. phase'[p] = "done" /\ \A q \in Runs : q # p => phase'[q] = phase[q]
      BY <1>0, <1>1, OneMoves DEF FilesInv
    <3>3. \A q \in Runs : q # p => held'[q] = held[q]
      BY <1>0, <1>1, OneHolds DEF FilesInv
    <3> QED  BY <1>0, <3>1, <3>2, <3>3 DEF SolosHold, Made, WritingPhases
  <2>5. Disturbable'
    BY <1>1, <1>3 DEF FilesInv, Disturbable
  <2> QED  BY <2>2, <2>3, <2>4, <2>5 DEF FilesInv
<1> QED  BY <1>2, <1>3

\* A verify run touches no file: what the solo runs have left stays as it is.
LEMMA Reader ==
    ASSUME FilesInv, NEW v \in Verifiers, NEW name, NEW value,
           phase' = [phase EXCEPT ![v] = name], held' = [held EXCEPT ![v] = value],
           UNCHANGED <<recordFile, contentFile, reported, disturbed>>
    PROVE  /\ Domains' /\ Disturbable' /\ SolosHold' /\ FilesFit'
           /\ phase'[v] = name /\ held'[v] = value
           /\ \A p \in Solos : phase'[p] = phase[p]
           /\ \A q \in Verifiers : q # v => phase'[q] = phase[q] /\ held'[q] = held[q]
<1>0. v \in Runs /\ Solos \subseteq Runs /\ Verifiers \subseteq Runs /\ v \notin Solos
  BY RunKinds
<1>1. /\ Domains' /\ phase'[v] = name /\ held'[v] = value
      /\ \A q \in Runs : q # v => phase'[q] = phase[q] /\ held'[q] = held[q]
  BY <1>0, OneMoves, OneHolds DEF FilesInv, Domains
<1>2. \A p \in Solos : phase'[p] = phase[p] /\ held'[p] = held[p]
  BY <1>0, <1>1
<1>3. SolosHold'
  BY <1>2, Zenon DEF FilesInv, SolosHold, Made
<1>4. FilesFit'
  <2>1. FilesFit
    BY DEF FilesInv
  <2> QED  BY <1>2, <2>1 DEF FilesFit, Whole
<1>5. Disturbable'
  BY DEF FilesInv, Disturbable
<1> QED  BY <1>0, <1>1, <1>2, <1>3, <1>4, <1>5

\* The first half is read of files that belong together.
LEMMA ReadRecordVerify ==
    ASSUME FilesInv, KeyInv', NEW v \in Verifiers, ReadRecord(v) PROVE FilesInv'
<1> DEFINE value == [record |-> recordFile, content |-> None, reported |-> None]
<1>1. /\ phase[v] = "start" /\ phase' = [phase EXCEPT ![v] = "half"]
      /\ held' = [held EXCEPT ![v] = value] /\ recordFile # Absent
      /\ recordFile' = recordFile /\ contentFile' = contentFile /\ reported' = reported
      /\ disturbed' = disturbed
      /\ quiet' = IF Writing = {} /\ ~disturbed THEN quiet \union {v} ELSE quiet
  BY DEF ReadRecord, Move, Hold
<1> HIDE DEF value
<1>2. /\ Domains' /\ Disturbable' /\ SolosHold' /\ FilesFit'
      /\ phase'[v] = "half" /\ held'[v] = value
      /\ \A p \in Solos : phase'[p] = phase[p]
      /\ \A q \in Verifiers : q # v => phase'[q] = phase[q] /\ held'[q] = held[q]
  BY <1>1, Reader
<1>3. QuietFit /\ v \notin quiet
  BY <1>1 DEF FilesInv, QuietFit
<1>4. ASSUME NEW q \in quiet
      PROVE  /\ q \in Verifiers /\ phase'[q] \in {"half", "done"}
             /\ phase'[q] = "half" =>
                    /\ \A p \in Solos : phase'[p] \notin WritingPhases
                    /\ held'[q].record = recordFile'
                    /\ Whole(recordFile, contentFile, reported)'
             /\ phase'[q] = "done" => Whole(held[q].record, held[q].content, held[q].reported)'
  <2>1. q # v /\ q \in Verifiers
    BY <1>3 DEF QuietFit
  <2>2. phase'[q] = phase[q] /\ held'[q] = held[q]
    BY <1>2, <2>1
  <2> QED  BY <1>1, <1>2, <1>3, <2>1, <2>2 DEF QuietFit, Whole
<1>5. ASSUME v \in quiet'
      PROVE  /\ \A p \in Solos : phase'[p] \notin WritingPhases
             /\ held'[v].record = recordFile'
             /\ Whole(recordFile, contentFile, reported)'
  <2>1. Writing = {} /\ ~disturbed
    BY <1>1, <1>3, <1>5
  <2>2. \A p \in Solos : phase[p] \notin WritingPhases
    BY <2>1 DEF Writing, WritingPhases
  <2>3. Whole(recordFile, contentFile, reported)
    BY <1>1, <2>1, <2>2 DEF FilesInv, FilesFit
  <2> QED  BY <1>1, <1>2, <2>2, <2>3 DEF Whole, value
<1>6. QuietFit'
  <2> SUFFICES ASSUME NEW q \in quiet'
               PROVE  /\ q \in Verifiers /\ phase'[q] \in {"half", "done"}
                      /\ phase'[q] = "half" =>
                            /\ \A p \in Solos : phase'[p] \notin WritingPhases
                            /\ held'[q].record = recordFile'
                            /\ Whole(recordFile, contentFile, reported)'
                      /\ phase'[q] = "done" =>
                            Whole(held[q].record, held[q].content, held[q].reported)'
    BY Zenon DEF QuietFit
  <2>1. CASE q = v
    BY <1>2, <1>5, <2>1
  <2>2. CASE q # v
    <3>1. q \in quiet
      BY <1>1, <2>2
    <3> QED  BY <1>4, <3>1
  <2> QED  BY <2>1, <2>2
<1> QED  BY <1>2, <1>6 DEF FilesInv

\* So is the second, if no solo run has opened the first in between.
LEMMA ReadContentVerify ==
    ASSUME FilesInv, KeyInv', NEW v \in Verifiers, ReadContent(v) PROVE FilesInv'
<1> DEFINE value == [record |-> held[v].record, content |-> contentFile,
                     reported |-> reported]
<1>1. /\ phase[v] = "half" /\ phase' = [phase EXCEPT ![v] = "done"]
      /\ held' = [held EXCEPT ![v] = value]
      /\ recordFile' = recordFile /\ contentFile' = contentFile /\ reported' = reported
      /\ disturbed' = disturbed /\ quiet' = quiet
  BY DEF ReadContent, Move, Hold, fileVars
<1>0. /\ value.record = held[v].record /\ value.content = contentFile
      /\ value.reported = reported
  OBVIOUS
<1> HIDE DEF value
<1>2. /\ Domains' /\ Disturbable' /\ SolosHold' /\ FilesFit'
      /\ phase'[v] = "done" /\ held'[v] = value
      /\ \A p \in Solos : phase'[p] = phase[p]
      /\ \A q \in Verifiers : q # v => phase'[q] = phase[q] /\ held'[q] = held[q]
  BY <1>1, Reader
<1>3. QuietFit
  BY DEF FilesInv
<1>4. v \in quiet => Whole(held[v].record, held[v].content, held[v].reported)'
  <2> SUFFICES ASSUME v \in quiet
               PROVE  Whole(held[v].record, held[v].content, held[v].reported)'
    OBVIOUS
  <2>1. held[v].record = recordFile /\ Whole(recordFile, contentFile, reported)
    BY <1>1, <1>3 DEF QuietFit
  <2> QED  BY <1>0, <1>2, <2>1 DEF Whole
<1>5. QuietFit'
  <2> SUFFICES ASSUME NEW q \in quiet
               PROVE  /\ q \in Verifiers /\ phase'[q] \in {"half", "done"}
                      /\ phase'[q] = "half" =>
                            /\ \A p \in Solos : phase'[p] \notin WritingPhases
                            /\ held'[q].record = recordFile'
                            /\ Whole(recordFile, contentFile, reported)'
                      /\ phase'[q] = "done" =>
                            Whole(held[q].record, held[q].content, held[q].reported)'
    BY <1>1, Zenon DEF QuietFit
  <2>1. CASE q = v
    BY <1>2, <1>4, <2>1
  <2>2. CASE q # v
    <3>1. q \in Verifiers
      BY <1>3 DEF QuietFit
    <3>2. phase'[q] = phase[q] /\ held'[q] = held[q]
      BY <1>2, <2>2, <3>1
    <3> QED  BY <1>1, <1>2, <1>3, <3>1, <3>2 DEF QuietFit, Whole
  <2> QED  BY <2>1, <2>2
<1> QED  BY <1>2, <1>5 DEF FilesInv

LEMMA FilesSolos ==
    ASSUME FilesInv, KeyInv', NEW p \in Solos,
           \/ SoloSign(p) \/ SoloRaise(p) \/ OpenRecord(p) \/ WriteRecord(p)
           \/ OpenContent(p) \/ WriteContent(p) \/ GetSigner(p) \/ Kill(p)
    PROVE  FilesInv'
<1>1. CASE SoloRaise(p)
  <2>1. /\ phase[p] \notin WritingPhases /\ "done" \notin WritingPhases
        /\ phase' = [phase EXCEPT ![p] = "done"] /\ UNCHANGED <<held, fileVars>>
    BY <1>1 DEF SoloRaise, Move, WritingPhases
  <2>2. phase'[p] # "signed"
    BY <2>1, RunKinds, OneMoves DEF FilesInv
  <2> QED  BY <2>1, <2>2, SoloAlone
<1>2. CASE GetSigner(p)
  <2>1. /\ phase[p] = "start" /\ phase' = phase /\ UNCHANGED <<held, fileVars>>
    BY <1>2 DEF GetSigner
  <2>2. phase[p] \notin WritingPhases
    BY <2>1 DEF WritingPhases
  <2> QED  BY <2>1, <2>2, SoloAlone
<1> QED  BY <1>1, <1>2, SignSolo, OpenRecordSolo, WriteRecordSolo, OpenContentSolo,
            WriteContentSolo, KillSolo

LEMMA FilesNext == FilesInv /\ [SoloNext]_soloVars => FilesInv'
<1> SUFFICES ASSUME FilesInv, [SoloNext]_soloVars PROVE FilesInv'
  OBVIOUS
<1>1. KeyInv'
  BY SoloStep, KeyNextInv DEF FilesInv
<1>2. CASE UNCHANGED soloVars
  <2>1. UNCHANGED <<phase, held, recordFile, contentFile, reported, disturbed, quiet>>
    BY <1>2 DEF soloVars, fileVars
  <2>2. SolosHold'
    BY <2>1, Zenon DEF FilesInv, SolosHold, Made
  <2>3. FilesFit'
    BY <2>1 DEF FilesInv, FilesFit, Whole
  <2>4. QuietFit'
    BY <2>1 DEF FilesInv, QuietFit, Whole
  <2>5. Domains' /\ Disturbable'
    BY <2>1 DEF FilesInv, Domains, Disturbable
  <2> QED  BY <1>1, <2>2, <2>3, <2>4, <2>5 DEF FilesInv
<1>3. ASSUME NEW p \in Scrapes, ScrapeSign(p) \/ SaveJob(p) \/ GetSigner(p) \/ Kill(p)
      PROVE  FilesInv'
  <2>1. p \in Runs /\ p \notin Solos /\ p \notin Verifiers
    BY RunKinds
  <2>2. UNCHANGED fileVars
    <3>1. CASE Kill(p)
      <4>1. p \notin Writing
        BY <2>1 DEF Writing
      <4>2. disturbed' = disturbed
        BY <3>1, <4>1 DEF Kill, FilesInv, Disturbable
      <4> QED  BY <3>1, <4>2 DEF Kill, fileVars
    <3> QED  BY <1>3, <3>1 DEF ScrapeSign, SaveJob, GetSigner
  <2>3. UNCHANGED phase \/ \E name : phase' = [phase EXCEPT ![p] = name]
    BY <1>3 DEF ScrapeSign, SaveJob, GetSigner, Kill, Move
  <2>4. UNCHANGED held \/ \E value : held' = [held EXCEPT ![p] = value]
    BY <1>3 DEF ScrapeSign, SaveJob, GetSigner, Kill, Hold
  <2> QED  BY <1>1, <2>1, <2>2, <2>3, <2>4, FilesElsewhere
<1>4. ASSUME NEW p \in Solos,
             \/ SoloSign(p) \/ SoloRaise(p) \/ OpenRecord(p) \/ WriteRecord(p)
             \/ OpenContent(p) \/ WriteContent(p) \/ GetSigner(p) \/ Kill(p)
      PROVE  FilesInv'
  BY <1>1, <1>4, FilesSolos
<1>5. ASSUME NEW v \in Verifiers, ReadRecord(v) \/ ReadContent(v) PROVE FilesInv'
  BY <1>1, <1>5, ReadRecordVerify, ReadContentVerify
<1>6. ASSUME NEW c \in Callers,
             \/ SkipPrompt(c) \/ AnswerPrompt(c) \/ SessionSign(c) \/ NotaryCommand(c)
             \/ LoadConfig(c) \/ OpenConfig(c) \/ WriteConfig(c) \/ KillSaving(c)
      PROVE  FilesInv'
  <2>1. c \in Runs /\ c \notin Solos /\ c \notin Verifiers
    BY RunKinds
  <2>2. UNCHANGED fileVars
    BY <1>6 DEF SkipPrompt, AnswerPrompt, SessionSign, NotaryCommand, LoadConfig, OpenConfig,
                WriteConfig, KillSaving
  <2>3. \E name : phase' = [phase EXCEPT ![c] = name]
    BY <1>6 DEF SkipPrompt, AnswerPrompt, SessionSign, NotaryCommand, LoadConfig, OpenConfig,
                WriteConfig, KillSaving, Move
  <2>4. UNCHANGED held \/ \E value : held' = [held EXCEPT ![c] = value]
    BY <1>6 DEF SkipPrompt, AnswerPrompt, SessionSign, NotaryCommand, LoadConfig, OpenConfig,
                WriteConfig, KillSaving, Hold
  <2> QED  BY <1>1, <2>1, <2>2, <2>3, <2>4, FilesElsewhere
<1> QED  BY <1>2, <1>3, <1>4, <1>5, <1>6, SoloAssumption DEF SoloNext, Callers

\* A verify run that kept apart from the solo runs finds record and content belonging
\* together, as they were printed: for any number of runs of each kind, wherever earlier
\* ones died, and whatever sites and browsers answer.
THEOREM UndisturbedCorrect == SoloSpec => []UndisturbedVerifies
<1>1. SoloInit => FilesInv
  <2> SUFFICES ASSUME SoloInit PROVE FilesInv
    OBVIOUS
  <2>1. KeyInv
    BY KeyInitInv DEF SoloInit
  <2>2. PICK present \in Together :
          phase = [r \in Runs |-> IF r \in present THEN "start" ELSE "done"]
    BY DEF SoloInit
  <2>3. \A p \in Solos : phase[p] \notin {"signed"} \union WritingPhases
    BY <2>2, RunKinds DEF WritingPhases
  <2>4. Domains /\ Disturbable /\ SolosHold /\ QuietFit
    BY <2>2, <2>3 DEF SoloInit, Domains, Disturbable, SolosHold, QuietFit
  <2>5. FilesFit
    BY <2>3 DEF SoloInit, FilesFit, WritingPhases
  <2> QED  BY <2>1, <2>4, <2>5 DEF FilesInv
<1>2. FilesInv /\ [SoloNext]_soloVars => FilesInv'  BY FilesNext
<1>3. FilesInv => UndisturbedVerifies
  <2> SUFFICES ASSUME FilesInv, NEW v \in quiet, phase[v] = "done"
               PROVE  /\ Verdict(held[v]) = [valid |-> TRUE, content_matches |-> TRUE]
                      /\ CheckRecordForBlock(held[v].record, held[v].content)
                            = held[v].reported
    BY Zenon DEF UndisturbedVerifies
  <2>1. Whole(held[v].record, held[v].content, held[v].reported)
    BY DEF FilesInv, QuietFit
  <2> QED  BY <2>1, WholeVerifies
<1> QED  BY <1>1, <1>2, <1>3, PTL DEF SoloSpec
=============================================================================
