------------------------------ MODULE Changes ------------------------------
(***************************************************************************)
(* inverba/changes.py: detectors compare what they fetched with the last   *)
(* observation in a sqlite file, save it as the new baseline and report.   *)
(*                                                                         *)
(* Every detector has its own process and connection: detect's statements  *)
(* interleave with those of the others. The table is the sequence of its   *)
(* rows, seq being the index; the rows after `durable` are those of the    *)
(* one open transaction, which its connection alone sees. A statement that *)
(* finds the file locked raises, and so may a commit; a process may die.   *)
(* URLs are canonical. Texts, hashes and signed records follow from the    *)
(* content; excerpts, similarity and summaries are left out.               *)
(***************************************************************************)
EXTENDS Semantic, Sequences

CONSTANTS
    Detectors,
    Urls,
    Times,      \* what the clocks of the fetching machines may say, in any order
    Feeds,      \* what the detectors may be given, each its pages as it may find them
    None,
    MaxRows     \* bound: detect is called while the table has fewer rows

Observation == [url_canonical : Urls, content : Contents, observed_at : Times]

ASSUME NoneAssumption == None \notin Detectors
ASSUME FeedsAssumption == Feeds \subseteq [Detectors -> SUBSET Observation]

VARIABLES
    feed,       \* what each detector is given
    rows,       \* the table observations
    durable,    \* how many of its rows are committed
    writer,     \* whose transaction is open, or None
    call,       \* each detector's run of detect
    reports     \* the reports that detect returned

vars == <<feed, rows, durable, writer, call, reports>>

\* before and after are the seq of the two observations, before = 0 the prior that is None.
ChangeReport == [before : Nat, after : Nat, level : DiffLevel]

Idle == [pc |-> "idle"]

\* Where detect is, the observation, and the seq of the prior and of the new row.
Call == {Idle}
        \cup [pc : {"signed"}, obs : Observation]
        \cup [pc : {"compared"}, obs : Observation, prior : Nat]
        \cup [pc : {"inserted", "saved"}, obs : Observation, prior : Nat, seq : Nat]

\* The rows that a detector's connection sees.
Visible(d) == 1 .. IF writer = d THEN Len(rows) ELSE durable

Observed(d, url) == {k \in Visible(d) : rows[k].url_canonical = url}

\* Deliberately wrong: ordered by the self-asserted timestamp.
BugLatest(d, url) ==
    IF Observed(d, url) = {} THEN 0
    ELSE CHOOSE k \in Observed(d, url) :
            \A j \in Observed(d, url) : rows[j].observed_at <= rows[k].observed_at

\* latest(url): the row inserted last, 0 if there is none.
Latest(d, url) ==
    IF Observed(d, url) = {} THEN 0
    ELSE CHOOSE k \in Observed(d, url) : \A j \in Observed(d, url) : j <= k

ReportOf(c) ==
    [before |-> c.prior, after |-> c.seq,
     level  |-> IF c.prior = 0 THEN "first_observation"
                ELSE Level(rows[c.prior].content, rows[c.seq].content)]

Raises(d) == call' = [call EXCEPT ![d] = Idle]

-----------------------------------------------------------------------------
(* Actions. *)

Init ==
    /\ feed \in Feeds
    /\ rows = << >>
    /\ durable = 0
    /\ writer = None
    /\ call = [d \in Detectors |-> Idle]
    /\ reports = {}

\* detect normalizes and signs what was fetched,
Sign(d) ==
    /\ call[d] = Idle
    /\ Len(rows) < MaxRows
    /\ \E obs \in feed[d] : call' = [call EXCEPT ![d] = [pc |-> "signed", obs |-> obs]]
    /\ UNCHANGED <<feed, rows, durable, writer, reports>>

\* looks up the latest observation of the page,
Compare(d) ==
    /\ call[d].pc = "signed"
    /\ call' = [call EXCEPT ![d] = [pc |-> "compared", obs |-> call[d].obs,
                                    prior |-> Latest(d, call[d].obs.url_canonical)]]
    /\ UNCHANGED <<feed, rows, durable, writer, reports>>

\* Deliberately wrong: INSERT OR REPLACE with the key (url_canonical, observed_at).
BugInsert(d) ==
    /\ call[d].pc = "compared"
    /\ writer \in {None, d}
    /\ LET same == {k \in DOMAIN rows : /\ rows[k].url_canonical = call[d].obs.url_canonical
                                        /\ rows[k].observed_at = call[d].obs.observed_at}
           seq == IF same = {} THEN Len(rows) + 1 ELSE CHOOSE k \in same : TRUE
       IN  /\ rows' = IF same = {} THEN Append(rows, call[d].obs)
                      ELSE [rows EXCEPT ![seq] = call[d].obs]
           /\ call' = [call EXCEPT ![d] = [pc |-> "inserted", obs |-> call[d].obs,
                                           prior |-> call[d].prior, seq |-> seq]]
    /\ writer' = d
    /\ UNCHANGED <<feed, durable, reports>>

\* saves its own: the insert opens a transaction unless a failed commit left one open,
Insert(d) ==
    /\ call[d].pc = "compared"
    /\ writer \in {None, d}
    /\ rows' = Append(rows, call[d].obs)
    /\ writer' = d
    /\ call' = [call EXCEPT ![d] = [pc |-> "inserted", obs |-> call[d].obs,
                                    prior |-> call[d].prior, seq |-> Len(rows) + 1]]
    /\ UNCHANGED <<feed, durable, reports>>

\* Deliberately wrong: save does not commit.
BugCommit(d) ==
    /\ call[d].pc = "inserted"
    /\ call' = [call EXCEPT ![d].pc = "saved"]
    /\ UNCHANGED <<feed, rows, durable, writer, reports>>

\* commits everything the transaction holds,
Commit(d) ==
    /\ call[d].pc = "inserted"
    /\ durable' = Len(rows)
    /\ writer' = None
    /\ call' = [call EXCEPT ![d].pc = "saved"]
    /\ UNCHANGED <<feed, rows, reports>>

\* and returns the report.
Report(d) ==
    /\ call[d].pc = "saved"
    /\ reports' = reports \cup {ReportOf(call[d])}
    /\ call' = [call EXCEPT ![d] = Idle]
    /\ UNCHANGED <<feed, rows, durable, writer>>

\* Another connection's transaction locks the file: the look-up or the insert raises.
Locked(d) ==
    /\ call[d].pc \in {"signed", "compared"}
    /\ writer \notin {None, d}
    /\ Raises(d)
    /\ UNCHANGED <<feed, rows, durable, writer, reports>>

\* sqlite undoes the open transaction.
Rollback ==
    /\ rows' = SubSeq(rows, 1, durable)
    /\ writer' = None

\* The commit raises. A busy file leaves the transaction open, a full disk undoes it;
\* save does neither.
CommitFails(d) ==
    /\ call[d].pc = "inserted"
    /\ Rollback \/ UNCHANGED <<rows, writer>>
    /\ Raises(d)
    /\ UNCHANGED <<feed, durable, reports>>

\* The process dies, or closes its store.
Die(d) ==
    /\ call[d] # Idle \/ writer = d
    /\ IF writer = d THEN Rollback ELSE UNCHANGED <<rows, writer>>
    /\ Raises(d)
    /\ UNCHANGED <<feed, durable, reports>>

Next == \E d \in Detectors :
    \/ Sign(d) \/ Compare(d) \/ Insert(d) \/ Commit(d) \/ Report(d)
    \/ Locked(d) \/ CommitFails(d) \/ Die(d)

Spec == Init /\ [][Next]_vars

-----------------------------------------------------------------------------
(* Properties. *)

\* Every variable keeps its shape: uncommitted rows belong to one open transaction,
\* and a detector between insert and commit is the one that owns it
\* (ChangeStore.save, ChangeDetector.detect).
TypeOK ==
    /\ feed \in [Detectors -> SUBSET Observation]
    /\ rows \in Seq(Observation)
    /\ durable \in 0 .. Len(rows)
    /\ writer \in Detectors \cup {None}
    /\ writer = None => durable = Len(rows)
    /\ call \in [Detectors -> Call]
    /\ \A d \in Detectors : call[d].pc = "inserted" => writer = d
    /\ reports \subseteq ChangeReport

Row(k) == k \in 1 .. durable

\* A report that detect returned is backed by two observations that are both in the
\* table for good, of the same page and in the order they were inserted, and its level
\* is the one of these two: whatever rollback, crash or other detector came between
\* look-up, insert, commit and return (ChangeDetector.detect).
ReportsEvidenced == \A r \in reports :
    /\ Row(r.after)
    /\ IF r.before = 0 THEN r.level = "first_observation"
       ELSE /\ Row(r.before) /\ r.before < r.after
            /\ rows[r.before].url_canonical = rows[r.after].url_canonical
            /\ r.level = Level(rows[r.before].content, rows[r.after].content)

\* No signed observation that was committed is ever dropped, replaced or moved
\* (ChangeStore.save: plain INSERT, never REPLACE).
EvidenceKept == [][/\ durable <= durable'
                   /\ \A k \in 1 .. durable : k \in DOMAIN rows' /\ rows'[k] = rows[k]]_vars

Watches(d, url) == \E obs \in feed[d] : obs.url_canonical = url

\* At most one detector is given the page; others may use the file.
WatchedAlone(url) == \A d, e \in Detectors : Watches(d, url) /\ Watches(e, url) => d = e

\* Of a page that one detector alone watches, a report compares an observation with the
\* last one before it: none was inserted between the two, whatever the clocks said and
\* whichever calls failed, its own or those of detectors that lock the file for other
\* pages (ChangeStore.latest). Two detectors of one page may pass over each other's.
BaselineIsLatest == \A r \in reports : \A k \in r.before + 1 .. r.after - 1 :
    Row(k) /\ Row(r.after) /\ WatchedAlone(rows[r.after].url_canonical)
        => rows[k].url_canonical # rows[r.after].url_canonical

Returned(k) == \E r \in reports : r.after = k

\* If a price, a stock word or a number of a page that one detector alone watches
\* differs between two observations, and detect returned for every observation after
\* the first of them, then one of these reports said material or divergent: a change of
\* the signals cannot hide in a series of small edits, whatever others do to the file
\* meanwhile (SpectrumDiffer.diff, ChangeDetector.detect).
SignalsTold == \A i, j \in 1 .. durable :
    LET between == {k \in i + 1 .. j : rows[k].url_canonical = rows[i].url_canonical}
    IN  /\ j \in between /\ WatchedAlone(rows[i].url_canonical)
        /\ Signals(rows[i].content) # Signals(rows[j].content)
        /\ \A k \in between : Returned(k)
        => \E r \in reports : r.after \in between /\ r.level \in {"material", "divergent"}
=============================================================================
