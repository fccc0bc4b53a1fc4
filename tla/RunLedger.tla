------------------------------ MODULE RunLedger ------------------------------
(***************************************************************************)
(* What the frontend promises of the runs of a query: a ledger to which a  *)
(* run that has ended is added in one step, and counted in the same step,  *)
(* and a mark on the runs that have been counted.  There are no replicas,  *)
(* no requests and no versions here, and nothing fails.                    *)
(*                                                                         *)
(* The ledger remembers its last Limit runs only: it does not take one of  *)
(* those again, and no longer recognises an older one.                     *)
(***************************************************************************)
EXTENDS Integers, Sequences, Functions

CONSTANTS Runs, Limit

VARIABLES
    outcome,  \* how each run ended
    recent,   \* the last runs that were added, in order
    totals,   \* how many were added, and how they ended
    counted,  \* the runs that were ever added
    marked    \* the runs that are marked as recorded

ledgerVars == <<outcome, recent, totals, counted, marked>>

Outcomes == {"Completed", "Failed"}

LedgerInit ==
    /\ outcome = [r \in Runs |-> "Running"]
    /\ recent = <<>>
    /\ totals = [totalRuns |-> 0, successfulRuns |-> 0, failedRuns |-> 0]
    /\ counted = {}
    /\ marked = {}

End(r, how) ==
    /\ outcome[r] = "Running"
    /\ outcome' = [outcome EXCEPT ![r] = how]
    /\ UNCHANGED <<recent, totals, counted, marked>>

\* The last Limit elements of a sequence.
Newest(s) == IF Len(s) <= Limit THEN s ELSE SubSeq(s, Len(s) - Limit + 1, Len(s))

Counts(r) ==
    LET ok == IF outcome[r] = "Completed" THEN 1 ELSE 0
    IN  totals' = [totalRuns      |-> totals.totalRuns + 1,
                   successfulRuns |-> totals.successfulRuns + ok,
                   failedRuns     |-> totals.failedRuns + (1 - ok)]

Add(r) ==
    /\ outcome[r] \in Outcomes
    /\ r \notin Range(recent)
    /\ recent' = Newest(Append(recent, r))
    /\ Counts(r)
    /\ counted' = counted \cup {r}
    /\ UNCHANGED <<outcome, marked>>

Mark(r) ==
    /\ r \in counted
    /\ marked' = marked \cup {r}
    /\ UNCHANGED <<outcome, recent, totals, counted>>

LedgerNext ==
    \E r \in Runs : Add(r) \/ Mark(r) \/ \E how \in Outcomes : End(r, how)

LedgerSpec == LedgerInit /\ [][LedgerNext]_ledgerVars
=============================================================================
