------------------------------ MODULE JobRecord ------------------------------
(***************************************************************************)
(* How the analytics frontend records the runs of a query: a status request *)
(* that finds a run in a terminal state adds it to the JobRecord of the     *)
(* query and then marks the SparkApplication as recorded.  Replicas of the  *)
(* frontend do this concurrently against the Kubernetes API, with the       *)
(* resourceVersion of the record as an optimistic lock.  The module follows *)
(* one query and its runs; a run without a query is never recorded.         *)
(*                                                                         *)
(* A request is a sequence of API calls, one action each.  An API call may  *)
(* fail without effect, and a replica may stop between two calls: in both   *)
(* cases the request ends and nothing is undone.                            *)
(***************************************************************************)
EXTENDS Integers, Sequences, FiniteSets, Functions

CONSTANTS
    Replicas,      \* frontend replicas: each serves one request at a time
    Runs,          \* the runs of the query
    HistoryLimit,  \* JobRecordConstants.HISTORY_LIMIT
    MaxAttempts,   \* JobRecordConstants.MAX_RETRY_ATTEMPTS
    MaxAdded,      \* bound: how often a run is added to the record
    MaxFailures,   \* bound: API calls that fail, answers that are lost, replicas that stop
    None           \* no record, no request

ASSUME LimitsAssumption ==
    /\ HistoryLimit \in Nat \ {0} /\ MaxAttempts \in Nat \ {0} /\ MaxAdded \in Nat /\ MaxFailures \in Nat
    /\ None \notin Runs

VARIABLES
    app,      \* the SparkApplication of each run: state and recorded annotation
    record,   \* the JobRecord: resourceVersion, runs and summary
    request,  \* the request each replica serves
    added,    \* history: every run in the order it was added to the record
    failures  \* how many failures there have been

vars == <<app, record, request, added, failures>>

States == {"Running", "Completed", "Failed"}
TerminalStates == {"Completed", "Failed"}

Summaries == [totalRuns: 0..MaxAdded, successfulRuns: 0..MaxAdded, failedRuns: 0..MaxAdded]
Histories == {s \in Seq(Runs) : Len(s) <= HistoryLimit}
Records == [version: 0..MaxAdded, runs: Histories, summary: Summaries]
Requests ==
    [pc: {"idle", "get", "create", "patch", "annotate"}, run: Runs \cup {None},
     attempt: 0..MaxAttempts, seen: Records \cup {None}]

ASSUME NoneAssumption == None \notin Records

EmptySummary == [totalRuns |-> 0, successfulRuns |-> 0, failedRuns |-> 0]
NewRecord == [version |-> 0, runs |-> <<>>, summary |-> EmptySummary]
Idle == [pc |-> "idle", run |-> None, attempt |-> 0, seen |-> None]

Init ==
    /\ app = [r \in Runs |-> [state |-> "Running", recorded |-> FALSE]]
    /\ record = None
    /\ request = [f \in Replicas |-> Idle]
    /\ added = <<>>
    /\ failures = 0

\* The Spark operator ends a run.
Terminate(r, state) ==
    /\ app[r].state = "Running"
    /\ app' = [app EXCEPT ![r].state = state]
    /\ UNCHANGED <<record, request, added, failures>>

(***************************************************************************)
(* get_status: reads the application once, and acts on what it read.        *)
(***************************************************************************)
get_status(f, r) ==
    /\ request[f] = Idle
    /\ app[r].state \in TerminalStates
    /\ ~app[r].recorded
    /\ request' = [request EXCEPT ![f] = [pc |-> "get", run |-> r, attempt |-> 1, seen |-> None]]
    /\ UNCHANGED <<app, record, added, failures>>

(***************************************************************************)
(* add_run                                                                 *)
(***************************************************************************)
\* A mutant: the run is not looked for.
NeverFound(rec, r) == FALSE

\* A mutant: only the newest run of the history is compared.
NewestOnly(rec, r) == rec.runs # <<>> /\ r = rec.runs[Len(rec.runs)]

\* existing_run_ids: the ids of the runs in the history.
AlreadyExists(rec, r) == r \in Range(rec.runs)

\* A mutant: a run that was added before ends the request.
SkipExisting(q, rec) ==
    IF AlreadyExists(rec, q.run) THEN Idle ELSE [q EXCEPT !.pc = "patch", !.seen = rec]

\* The request goes on with the record it has read or created.
WithContext(q, rec) ==
    IF AlreadyExists(rec, q.run) THEN [q EXCEPT !.pc = "annotate"]
    ELSE [q EXCEPT !.pc = "patch", !.seen = rec]

get_job_record(f) ==
    /\ request[f].pc = "get"
    /\ request' = [request EXCEPT ![f] =
                      IF record = None THEN [@ EXCEPT !.pc = "create"] ELSE WithContext(@, record)]
    /\ UNCHANGED <<app, record, added, failures>>

\* A record that another replica created first is read again.
create_job_record(f) ==
    /\ request[f].pc = "create"
    /\ IF record = None
       THEN /\ record' = NewRecord
            /\ request' = [request EXCEPT ![f] = WithContext(@, NewRecord)]
       ELSE /\ request' = [request EXCEPT ![f].pc = "get"]
            /\ UNCHANGED record
    /\ UNCHANGED <<app, added, failures>>

\* A mutant: the history is not limited.
NoHistoryLimit(runs) == runs

apply_history_limit(runs) ==
    IF Len(runs) <= HistoryLimit THEN runs
    ELSE SubSeq(runs, Len(runs) - HistoryLimit + 1, Len(runs))

accumulate(s, r) ==
    LET ok == IF app[r].state = "Completed" THEN 1 ELSE 0
    IN  [totalRuns |-> s.totalRuns + 1, successfulRuns |-> s.successfulRuns + ok,
         failedRuns |-> s.failedRuns + 1 - ok]

Patched(seen, r) ==
    [version |-> record.version + 1,
     runs    |-> apply_history_limit(Append(seen.runs, r)),
     summary |-> accumulate(seen.summary, r)]

\* A mutant: the patch carries no resourceVersion.
NoVersionCheck(seen) == TRUE

\* The API server refuses a patch with another resourceVersion than the record's.
VersionMatches(seen) == seen.version = record.version

\* The patch is applied.  Its answer may be lost: the request then ends with an error.
patch_job_record_status(f) ==
    LET q == request[f] IN
    /\ q.pc = "patch"
    /\ VersionMatches(q.seen)
    /\ Len(added) < MaxAdded
    /\ record' = Patched(q.seen, q.run)
    /\ added' = Append(added, q.run)
    /\ \/ /\ request' = [request EXCEPT ![f] = [q EXCEPT !.pc = "annotate", !.seen = None]]
          /\ UNCHANGED failures
       \/ /\ failures < MaxFailures
          /\ failures' = failures + 1
          /\ request' = [request EXCEPT ![f] = Idle]
    /\ UNCHANGED app

\* A mutant: the run is marked as recorded even when the attempts are used up.
AfterLastAttempt(q) == [q EXCEPT !.pc = "annotate", !.seen = None]

\* JobRecordConflictError ends _record_job_run.
ConflictError(q) == Idle

\* A conflict: the record is read again, until the attempts are used up.
Conflict(f) ==
    LET q == request[f] IN
    /\ q.pc = "patch"
    /\ ~VersionMatches(q.seen)
    /\ request' = [request EXCEPT ![f] =
                      IF q.attempt < MaxAttempts
                      THEN [q EXCEPT !.pc = "get", !.attempt = @ + 1, !.seen = None]
                      ELSE ConflictError(q)]
    /\ UNCHANGED <<app, record, added, failures>>

(***************************************************************************)
(* The end of _record_job_run                                              *)
(***************************************************************************)
patch_spark_app_annotation(f) ==
    /\ request[f].pc = "annotate"
    /\ app' = [app EXCEPT ![request[f].run].recorded = TRUE]
    /\ request' = [request EXCEPT ![f] = Idle]
    /\ UNCHANGED <<record, added, failures>>

\* An API call fails, or the replica stops.  Errors are logged and swallowed.
Fail(f) ==
    /\ request[f] # Idle
    /\ failures < MaxFailures
    /\ failures' = failures + 1
    /\ request' = [request EXCEPT ![f] = Idle]
    /\ UNCHANGED <<app, record, added>>

Next ==
    \/ \E r \in Runs, state \in TerminalStates : Terminate(r, state)
    \/ \E f \in Replicas :
         \/ \E r \in Runs : get_status(f, r)
         \/ get_job_record(f) \/ create_job_record(f)
         \/ patch_job_record_status(f) \/ Conflict(f)
         \/ patch_spark_app_annotation(f) \/ Fail(f)

Spec == Init /\ [][Next]_vars

\* A client that waits for a run keeps asking for its status, and is served again and again;
\* a request that has started goes on.
Step(f) ==
    \/ get_job_record(f) \/ create_job_record(f) \/ patch_job_record_status(f)
    \/ Conflict(f) \/ patch_spark_app_annotation(f)

FairSpec ==
    /\ Spec
    /\ \A r \in Runs : SF_vars(\E f \in Replicas : get_status(f, r))
    /\ \A f \in Replicas : WF_vars(Step(f))

(***************************************************************************)
(* Properties                                                              *)
(***************************************************************************)
\* A request holds a record only while it is about to patch it, and the history never
\* exceeds its limit.
TypeOK ==
    /\ app \in [Runs -> [state: States, recorded: BOOLEAN]]
    /\ record \in Records \cup {None}
    /\ request \in [Replicas -> Requests]
    /\ \A f \in Replicas :
         LET q == request[f] IN
         /\ IF q.pc = "idle" THEN q = Idle ELSE q.run # None /\ q.attempt # 0
         /\ q.pc = "patch" <=> q.seen # None
    /\ added \in Seq(Runs) /\ Len(added) <= MaxAdded
    /\ failures \in 0..MaxFailures

CountOf(state) == Cardinality({i \in DOMAIN added : app[added[i]].state = state})

\* No update is lost, however requests of several replicas interleave: the record's summary
\* counts every run that was added, and its history is the last of them, in order.
NoLostUpdate ==
    record # None =>
      /\ record.runs = apply_history_limit(added)
      /\ record.summary = [totalRuns |-> Len(added), successfulRuns |-> CountOf("Completed"),
                           failedRuns |-> CountOf("Failed")]

\* A run is in the history at most once, although requests for it may be repeated after a
\* failure or run on two replicas at a time.
HistoryIsDistinct ==
    record # None => \A i, j \in DOMAIN record.runs : record.runs[i] = record.runs[j] => i = j

\* A SparkApplication is marked as recorded only once its run is in the record.
RecordedIsCounted == \A r \in Runs : app[r].recorded => r \in Range(added)

\* Every run of the query that ends is eventually marked as recorded, whatever the failures
\* were, once they are over: a request that failed half way is completed by a later one.
EventuallyRecorded ==
    \A r \in Runs : app[r].state \in TerminalStates ~> app[r].recorded

\* "Duplicate runs (same run_id) are automatically skipped by the job_record_client": a run
\* enters the summary once.
DuplicatesAreSkipped == \A i, j \in DOMAIN added : added[i] = added[j] => i = j

\* A run that is added again was forgotten in between: more than HISTORY_LIMIT additions lie
\* between the two, whatever requests were repeated, lost or raced.
RepeatsAreApart ==
    \A i, j \in DOMAIN added : i < j /\ added[i] = added[j] => j - i > HistoryLimit

Ledger ==
    INSTANCE RunLedger WITH
        Limit   <- HistoryLimit,
        outcome <- [r \in Runs |-> app[r].state],
        recent  <- IF record = None THEN <<>> ELSE record.runs,
        totals  <- IF record = None THEN EmptySummary ELSE record.summary,
        counted <- Range(added),
        marked  <- {r \in Runs : app[r].recorded}

\* The calls of add_run and _record_job_run take effect as if each were one step on one
\* ledger: a run is looked up in, added to and counted by the same state of the record,
\* however the reads and patches of the replicas interleave, fail or are repeated.
ImplementsLedger == Ledger!LedgerSpec
=============================================================================
