-------------------------------- MODULE Solo --------------------------------
(***************************************************************************)
(* One user's home: inverba/cli.py's commands and inverba/solo.py's        *)
(* sessions over the files they share, each run a process of its own.      *)
(*                                                                         *)
(*   solo     signs a page, writes record.json and then record.content     *)
(*   scrape   signs a page that was fetched, and saves it as a job         *)
(*   verify   reads record.json and then record.content                    *)
(*   session  resolves the notary question, signs, may ask the notary      *)
(*   notary   changes the answer to the notary question                    *)
(*                                                                         *)
(* Writing a file opens it, which truncates it, and then writes over what  *)
(* is there: two writers at once may leave a mixture. A run that creates   *)
(* or writes anything may die between any two of its steps.                *)
(***************************************************************************)
EXTENDS KeyFile, Provenance, Fetching

CONSTANTS
    Solos, Scrapes, Verifiers, Sessions, Notaries,    \* the runs of each kind
    Together,       \* the sets of runs that may share the home
    Url,            \* the page
    Answers,        \* what the site may answer
    Pages,          \* what a browser may make of it
    Garbled,        \* a mixture of two writes
    Binary,         \* bodies that are not UTF-8
    Replaced        \* such a body, decoded with errors="replace"

ASSUME SoloAssumption ==
    /\ Processes = Solos \union Scrapes
    /\ Solos \cap Scrapes = {}
    /\ Sessions \cap Notaries = {}
    /\ Processes \cap Verifiers = {}
    /\ (Processes \union Verifiers) \cap (Sessions \union Notaries) = {}
    /\ None \notin Sessions \union Notaries \union BOOLEAN
    /\ \A answer \in Answers, page \in Pages, p \in Processes :
        LET fetched == Fetch(Url, answer, page, 0)
        IN  /\ fetched.content # Absent
            /\ Sign(p, fetched) \notin {Absent, Truncated, Garbled}

Runs == Processes \union Verifiers \union Sessions \union Notaries

VARIABLES
    phase,          \* how far each run is, once it has its signer
    held,           \* what each run has in memory
    recordFile, contentFile,    \* record.json and record.content
    jobs,           \* the job store
    config,         \* solo_config.json
    reported,       \* what the last solo run to finish printed
    disturbed,      \* history: two solo runs wrote at once, or one died writing
    quiet,          \* history: the verify runs that nothing has disturbed
    withdrawn       \* history: answers to the notary question since taken back

fileVars == <<recordFile, contentFile, reported, disturbed, quiet>>
configVars == <<config, withdrawn>>
soloVars == <<keyVars, phase, held, fileVars, jobs, configVars>>

Move(r, name) == phase' = [phase EXCEPT ![r] = name]
Hold(r, value) == held' = [held EXCEPT ![r] = value]

\* What is in a file when a writer is done that found it so.
Overlay(found, mine) ==
    IF found \in {Truncated, Empty, mine} THEN {mine} ELSE {mine, Garbled}

SoloInit ==
    /\ KeyInit
    /\ \E present \in Together :
            phase = [r \in Runs |-> IF r \in present THEN "start" ELSE "done"]
    /\ held = [r \in Runs |-> None]
    /\ recordFile = Absent /\ contentFile = Absent /\ reported = None
    /\ disturbed = FALSE /\ quiet = {}
    /\ jobs = {}
    /\ config = Absent /\ withdrawn = {}

\* Any step towards a signer but the use of it.
GetSigner(p) ==
    /\ phase[p] = "start"
    /\ Exists(p) \/ ReadKey(p) \/ OpenKey(p) \/ WriteKey(p) \/ Chmod(p)
    /\ UNCHANGED <<phase, held, fileVars, jobs, configVars>>

-----------------------------------------------------------------------------
(* inverba solo *)

Writing == {p \in Solos : phase[p] \in {"recordOpened", "recordWritten", "contentOpened"}}

\* _solo_fetch_and_sign: whatever came back is signed.
SoloSign(p) ==
    /\ phase[p] = "start"
    /\ UseKey(p)
    /\ \E answer \in Answers, page \in Pages :
            LET fetched == Fetch(Url, answer, page, 0)
            IN  Hold(p, [fetched |-> fetched, record |-> Sign(signer[p], fetched)])
    /\ Move(p, "signed")
    /\ UNCHANGED <<fileVars, jobs, configVars>>

\* An exception that fetch does not catch ends the run.
SoloRaise(p) ==
    /\ phase[p] = "start" /\ stage[p] = "ready"
    /\ Move(p, "done")
    /\ UNCHANGED <<keyVars, held, fileVars, jobs, configVars>>

\* out_path.write_text(...): opened,
OpenRecord(p) ==
    /\ phase[p] = "signed"
    /\ stage[p] = "ready"
    /\ recordFile' = Truncated
    /\ disturbed' = (Writing # {})
    /\ quiet' = {v \in quiet : phase[v] = "done"}
    /\ Move(p, "recordOpened")
    /\ UNCHANGED <<keyVars, held, contentFile, reported, jobs, configVars>>

\* and written.
WriteRecord(p) ==
    /\ phase[p] = "recordOpened"
    /\ stage[p] = "ready"
    /\ recordFile' \in Overlay(recordFile, held[p].record)
    /\ Move(p, "recordWritten")
    /\ UNCHANGED <<keyVars, held, contentFile, reported, disturbed, quiet, jobs, configVars>>

\* content_path.write_bytes(...): opened,
OpenContent(p) ==
    /\ phase[p] = "recordWritten"
    /\ stage[p] = "ready"
    /\ contentFile' = Empty
    /\ Move(p, "contentOpened")
    /\ UNCHANGED <<keyVars, held, recordFile, reported, disturbed, quiet, jobs, configVars>>

\* Deliberately wrong: what was written is the text of the page.
BugWriteContent(p) ==
    /\ phase[p] = "contentOpened"
    /\ stage[p] = "ready"
    /\ LET fetched == held[p].fetched
           text == IF fetched.content \in Binary THEN Replaced ELSE fetched.content
       IN  /\ contentFile' \in Overlay(contentFile, text)
           /\ reported' = IF ~Ok(fetched) THEN "hard_block"
                          ELSE DetectBlock(fetched.content, fetched.status_code,
                                           held[p].record.url, fetched.final_url)
    /\ Move(p, "done")
    /\ Hold(p, None)
    /\ UNCHANGED <<keyVars, recordFile, disturbed, quiet, jobs, configVars>>

\* and written; then the run prints what it has, which it only looks at in memory.
WriteContent(p) ==
    /\ phase[p] = "contentOpened"
    /\ stage[p] = "ready"
    /\ LET fetched == held[p].fetched
       IN  /\ contentFile' \in Overlay(contentFile, fetched.content)
           /\ reported' = IF ~Ok(fetched) THEN "hard_block"
                          ELSE DetectBlock(fetched.content, fetched.status_code,
                                           held[p].record.url, fetched.final_url)
    /\ Move(p, "done")
    /\ Hold(p, None)
    /\ UNCHANGED <<keyVars, recordFile, disturbed, quiet, jobs, configVars>>

-----------------------------------------------------------------------------
(* inverba verify *)

\* load_record_json(Path(record_path).read_text()): click has checked that it is there.
ReadRecord(v) ==
    /\ phase[v] = "start"
    /\ recordFile # Absent
    /\ Hold(v, [record |-> recordFile, content |-> None, reported |-> None])
    /\ quiet' = IF Writing = {} /\ ~disturbed THEN quiet \union {v} ELSE quiet
    /\ Move(v, "half")
    /\ UNCHANGED <<keyVars, recordFile, contentFile, reported, disturbed, jobs, configVars>>

\* The sibling, if there is one, against the record's hash.
ReadContent(v) ==
    /\ phase[v] = "half"
    /\ Hold(v, [record |-> held[v].record, content |-> contentFile, reported |-> reported])
    /\ Move(v, "done")
    /\ UNCHANGED <<keyVars, fileVars, jobs, configVars>>

\* The verdict on what was read.
Verdict(read) ==
    IF read.record \in {Truncated, Garbled}
    THEN [valid |-> FALSE, content_matches |-> None]
    ELSE [valid |-> VerifyWithCorroborations(read.record).primary_valid,
          content_matches |-> IF read.content = Absent THEN None
                              ELSE hash_content(read.content) = read.record.content_hash]

-----------------------------------------------------------------------------
(* inverba scrape, and inverba/store.py *)

\* Deliberately wrong: a failed fetch is not told from a page.
BugScrapeSign(p) ==
    /\ phase[p] = "start"
    /\ \E answer \in Answers, page \in Pages :
            LET fetched == Fetch(Url, answer, page, 0)
            IN  /\ UseKey(p)
                /\ Hold(p, [fetched |-> fetched, record |-> Sign(signer[p], fetched)])
                /\ Move(p, "signed")
    /\ UNCHANGED <<fileVars, jobs, configVars>>

\* _scrape, up to the signature: a failed fetch ends it.
ScrapeSign(p) ==
    /\ phase[p] = "start"
    /\ stage[p] = "ready"
    /\ \E answer \in Answers, page \in Pages :
            LET fetched == Fetch(Url, answer, page, 0)
            IN  IF Ok(fetched)
                THEN /\ UseKey(p)
                     /\ Hold(p, [fetched |-> fetched, record |-> Sign(signer[p], fetched)])
                     /\ Move(p, "signed")
                ELSE /\ Move(p, "done")
                     /\ UNCHANGED <<keyVars, held>>
    /\ UNCHANGED <<fileVars, jobs, configVars>>

\* _fetch_result_to_json: a body is kept as text.
StoredContent(content) == IF content \in Binary THEN Replaced ELSE content

\* JobStore.save of a new job, one transaction.
SaveJob(p) ==
    /\ phase[p] = "signed"
    /\ stage[p] = "ready"
    /\ jobs' = jobs \union
                {[fetch_result |-> [held[p].fetched EXCEPT !.content = StoredContent(@)],
                  provenance |-> held[p].record]}
    /\ Move(p, "done")
    /\ Hold(p, None)
    /\ UNCHANGED <<keyVars, fileVars, configVars>>

-----------------------------------------------------------------------------
(* The notary question: SoloConfig, ensure_notary_preference, inverba notary. Of a *)
(* configuration, "by" is a history: whose answer it is. *)

NeverAsked == [notary_enabled |-> None, asked_notary |-> FALSE, by |-> None]
Answered(c, yes) == [notary_enabled |-> yes, asked_notary |-> TRUE, by |-> c]

\* What a run holds: its configuration, the answers known to be taken back when it
\* was loaded (a history), and whether the notary was contacted.
Settings(conf, gone, contacted) ==
    [config |-> conf, withdrawn |-> gone, contacted |-> contacted]

\* SoloConfig.load: what cannot be read counts as no answer.
LoadConfig(c) ==
    /\ phase[c] = "start"
    /\ Hold(c, Settings(IF config \in {Absent, Truncated, Garbled} THEN NeverAsked
                        ELSE config, withdrawn, FALSE))
    /\ Move(c, "loaded")
    /\ UNCHANGED <<keyVars, fileVars, jobs, configVars>>

\* Deliberately wrong: the configuration is saved either way.
BugSkipPrompt(c) ==
    /\ phase[c] = "loaded"
    /\ held[c].config.asked_notary
    /\ Move(c, "saving")
    /\ UNCHANGED <<keyVars, held, fileVars, jobs, configVars>>

\* ensure_notary_preference: a question that was answered is not asked again.
SkipPrompt(c) ==
    /\ phase[c] = "loaded"
    /\ held[c].config.asked_notary
    /\ Move(c, "resolved")
    /\ UNCHANGED <<keyVars, held, fileVars, jobs, configVars>>

AnswerPrompt(c) ==
    /\ phase[c] = "loaded"
    /\ ~held[c].config.asked_notary
    /\ \E yes \in BOOLEAN :
            Hold(c, Settings(Answered(c, yes), held[c].withdrawn, FALSE))
    /\ Move(c, "saving")
    /\ UNCHANGED <<keyVars, fileVars, jobs, configVars>>

\* inverba notary enable, answered with yes or no, or disable; status saves nothing.
NotaryCommand(c) ==
    /\ phase[c] = "loaded"
    /\ \/ /\ \E yes \in BOOLEAN :
                Hold(c, Settings(Answered(c, yes), held[c].withdrawn, FALSE))
          /\ Move(c, "saving")
       \/ /\ Move(c, "done")
          /\ UNCHANGED held
    /\ UNCHANGED <<keyVars, fileVars, jobs, configVars>>

\* SoloConfig.save: opened,
OpenConfig(c) ==
    /\ phase[c] = "saving"
    /\ config' = Truncated
    /\ Move(c, "writing")
    /\ UNCHANGED <<keyVars, held, fileVars, jobs, withdrawn>>

\* and written. A no takes back every answer that was saved before.
WriteConfig(c) ==
    /\ phase[c] = "writing"
    /\ config' \in Overlay(config, held[c].config)
    /\ withdrawn' = IF held[c].config.notary_enabled THEN withdrawn
                    ELSE withdrawn \union
                         {d \in Sessions \union Notaries : phase[d] \in {"resolved", "done"}}
    /\ Move(c, IF c \in Sessions THEN "resolved" ELSE "done")
    /\ UNCHANGED <<keyVars, held, fileVars, jobs>>

\* SoloSession.sign_result, with a notary client: the notary is asked if the
\* configuration says so. Its answer counts in the record alone.
SessionSign(c) ==
    /\ phase[c] = "resolved"
    /\ Hold(c, Settings(held[c].config, held[c].withdrawn,
                        held[c].config.notary_enabled = TRUE))
    /\ Move(c, "done")
    /\ UNCHANGED <<keyVars, fileVars, jobs, configVars>>

-----------------------------------------------------------------------------

\* A run that signs is killed.
Kill(p) ==
    /\ phase[p] # "done"
    /\ Die(p)
    /\ disturbed' = (disturbed \/ p \in Writing)
    /\ Move(p, "done")
    /\ Hold(p, None)
    /\ UNCHANGED <<recordFile, contentFile, reported, quiet, jobs, configVars>>

\* A run that saves the configuration is killed between its two steps.
KillSaving(c) ==
    /\ phase[c] = "writing"
    /\ Move(c, "done")
    /\ UNCHANGED <<keyVars, held, fileVars, jobs, configVars>>

SoloNext ==
    \/ \E p \in Processes : GetSigner(p) \/ Kill(p)
    \/ \E p \in Solos : \/ SoloSign(p) \/ SoloRaise(p)
                        \/ OpenRecord(p) \/ WriteRecord(p) \/ OpenContent(p) \/ WriteContent(p)
    \/ \E p \in Scrapes : ScrapeSign(p) \/ SaveJob(p)
    \/ \E v \in Verifiers : ReadRecord(v) \/ ReadContent(v)
    \/ \E c \in Sessions : SkipPrompt(c) \/ AnswerPrompt(c) \/ SessionSign(c)
    \/ \E c \in Notaries : NotaryCommand(c)
    \/ \E c \in Sessions \union Notaries :
            LoadConfig(c) \/ OpenConfig(c) \/ WriteConfig(c) \/ KillSaving(c)

SoloSpec == SoloInit /\ [][SoloNext]_soloVars

-----------------------------------------------------------------------------

\* A record and its content, written one after the other (cli.py:350-353) and read
\* one after the other, belong together whenever the solo runs kept apart from each
\* other and from the verify run, whatever earlier runs left behind: the verdict is
\* VALID, the content matches, and the block check on what was read says what the run
\* that wrote it printed.
UndisturbedVerifies ==
    \A v \in quiet : phase[v] = "done" =>
        /\ Verdict(held[v]) = [valid |-> TRUE, content_matches |-> TRUE]
        /\ CheckRecordForBlock(held[v].record, held[v].content) = held[v].reported

\* What the job store returns is a page that was fetched, with a record that verifies
\* and is about it; only a body that is not UTF-8 comes back as something else
\* (store.py:51) than what its record's hash is of.
JobsAttest ==
    \A j \in jobs :
        /\ Ok(j.fetch_result)
        /\ VerifyRecord(j.provenance)
        /\ j.provenance.worker_public_key \in used
        /\ CheckRecordForBlock(j.provenance, j.fetch_result.content) # "hard_block"
        /\ j.fetch_result.content # Replaced =>
                j.provenance.content_hash = hash_content(j.fetch_result.content)

\* "The notary is never contacted silently" (solo.py): a session that contacts it was
\* told yes itself, or read a yes that no other run had taken back before - whatever
\* runs saved at once, and wherever one died saving.
ContactsConsented ==
    \A c \in Sessions : phase[c] = "done" /\ held[c] # None /\ held[c].contacted =>
        LET by == held[c].config.by
        IN  by # None /\ (by = c \/ by \notin held[c].withdrawn)
=============================================================================
