------------------------------- MODULE KeyFile -------------------------------
(***************************************************************************)
(* The file that holds a worker's identity: _get_or_create_signer of       *)
(* inverba/cli.py and _load_signer of inverba/mcp_server.py, run by any    *)
(* number of processes at once, each of which may die at any step.         *)
(*                                                                         *)
(* A key has the name of the process that generated it. A file is opened,  *)
(* which truncates it and keeps its mode, and written in a second step.    *)
(***************************************************************************)
CONSTANTS
    Processes,    \* runs of a command that signs
    Absent,       \* there is no such file
    Truncated     \* the file is opened and not yet written

ASSUME FileAssumption == Absent \notin Processes /\ Truncated \notin Processes
                         /\ Absent # Truncated

VARIABLES
    keyFile,       \* what is in the file, and whether only its owner may read it
    stage,         \* how far each process is on its way to a signer
    signer,        \* the key each process has generated or read
    used,          \* history: the keys that have signed
    overlapped,    \* history: a process missed the file while another was about to create it
    torn           \* history: a process died between opening the file and restricting it

keyVars == <<keyFile, stage, signer, used, overlapped, torn>>

At(names) == {p \in Processes : stage[p] \in names}

KeyInit ==
    /\ keyFile = [text |-> Absent, private |-> FALSE]
    /\ stage = [p \in Processes |-> "idle"]
    /\ signer = [p \in Processes |-> Absent]
    /\ used = {}
    /\ overlapped = FALSE
    /\ torn = FALSE

\* key_path.exists(), and ProvenanceSigner.generate() if it does not.
Exists(p) ==
    /\ stage[p] = "idle"
    /\ IF keyFile.text # Absent
       THEN /\ stage' = [stage EXCEPT ![p] = "found"]
            /\ UNCHANGED <<signer, overlapped>>
       ELSE /\ stage' = [stage EXCEPT ![p] = "missing"]
            /\ signer' = [signer EXCEPT ![p] = p]
            /\ overlapped' = (overlapped \/ At({"missing"}) # {})
    /\ UNCHANGED <<keyFile, used, torn>>

\* Deliberately wrong: an unreadable key is replaced by a new one.
BugReadKey(p) ==
    /\ stage[p] = "found"
    /\ IF keyFile.text = Truncated
       THEN /\ stage' = [stage EXCEPT ![p] = "missing"]
            /\ signer' = [signer EXCEPT ![p] = p]
       ELSE /\ stage' = [stage EXCEPT ![p] = "ready"]
            /\ signer' = [signer EXCEPT ![p] = keyFile.text]
    /\ UNCHANGED <<keyFile, used, overlapped, torn>>

\* from_private_bytes(bytes.fromhex(key_path.read_text())): no bytes, no key.
ReadKey(p) ==
    /\ stage[p] = "found"
    /\ IF keyFile.text = Truncated
       THEN /\ stage' = [stage EXCEPT ![p] = "failed"]
            /\ UNCHANGED signer
       ELSE /\ stage' = [stage EXCEPT ![p] = "ready"]
            /\ signer' = [signer EXCEPT ![p] = keyFile.text]
    /\ UNCHANGED <<keyFile, used, overlapped, torn>>

\* key_path.write_text(...): first the file is opened,
OpenKey(p) ==
    /\ stage[p] = "missing"
    /\ stage' = [stage EXCEPT ![p] = "opened"]
    /\ keyFile' = [text |-> Truncated, private |-> keyFile.private]
    /\ UNCHANGED <<signer, used, overlapped, torn>>

\* Deliberately wrong: the key is used as soon as it is written, in a readable file.
BugWriteKey(p) ==
    /\ stage[p] = "opened"
    /\ stage' = [stage EXCEPT ![p] = "ready"]
    /\ keyFile' = [text |-> signer[p], private |-> keyFile.private]
    /\ UNCHANGED <<signer, used, overlapped, torn>>

\* then the key, always 64 characters, is written over whatever is there.
WriteKey(p) ==
    /\ stage[p] = "opened"
    /\ stage' = [stage EXCEPT ![p] = "written"]
    /\ keyFile' = [text |-> signer[p], private |-> keyFile.private]
    /\ UNCHANGED <<signer, used, overlapped, torn>>

\* key_path.chmod(0o600)
Chmod(p) ==
    /\ stage[p] = "written"
    /\ stage' = [stage EXCEPT ![p] = "ready"]
    /\ keyFile' = [text |-> keyFile.text, private |-> TRUE]
    /\ UNCHANGED <<signer, used, overlapped, torn>>

\* signer.sign(...)
UseKey(p) ==
    /\ stage[p] = "ready"
    /\ used' = used \union {signer[p]}
    /\ UNCHANGED <<keyFile, stage, signer, overlapped, torn>>

\* The process is killed.
Die(p) ==
    /\ stage[p] \notin {"failed", "dead"}
    /\ stage' = [stage EXCEPT ![p] = "dead"]
    /\ torn' = (torn \/ stage[p] \in {"opened", "written"})
    /\ UNCHANGED <<keyFile, signer, used, overlapped>>

KeyStep(p) == \/ Exists(p) \/ ReadKey(p) \/ OpenKey(p) \/ WriteKey(p) \/ Chmod(p)
              \/ UseKey(p) \/ Die(p)

KeySpec == KeyInit /\ [][\E p \in Processes : KeyStep(p)]_keyVars

-----------------------------------------------------------------------------

\* "Keys are generated once" (provenance.py): unless two first runs overlap, every
\* signature ever made under this home has one key, and what a process signs with is
\* what the next run will read, whatever dies in between (cli.py:38-44: the file is
\* looked for, then created).
IdentityKept ==
    ~overlapped => /\ \A k, l \in used : k = l
                   /\ \A p \in At({"ready"}) : keyFile.text = signer[p]

\* When nobody is creating it, and unless a process died between opening and chmod, the
\* key file is absent or whole, and readable by its owner alone - even after overlapping
\* first runs. Whoever died, no run signs with a key of its own before its file is
\* private (cli.py:43-45).
KeySettled ==
    /\ At({"opened", "written"}) = {} /\ ~torn =>
            keyFile.text = Absent \/ (keyFile.text \in Processes /\ keyFile.private)
    /\ \A p \in At({"ready"}) : signer[p] = p => keyFile.private
=============================================================================
