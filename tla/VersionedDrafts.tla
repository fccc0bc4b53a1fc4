--------------------------- MODULE VersionedDrafts ---------------------------
(***************************************************************************)
(* Drafts of contracts in CGS: how members put, read, propose and accept    *)
(* them through the CGS client while the CCF network may lose transactions  *)
(* that are not committed yet.                                             *)
(*                                                                         *)
(* The ledger is the sequence of the states of the key-value store, one per *)
(* transaction, each with the view it was written in; a sequence number is  *)
(* a position in it.  When a primary fails, the network rolls back to a     *)
(* prefix that holds all committed transactions and goes on in a new view.  *)
(*                                                                         *)
(* A request of a member to the CGS client is one or two requests to CGS    *)
(* and the wait for the commit of what they wrote.  Every write of a draft  *)
(* has content of its own, a number.  Voting is reduced to what             *)
(* CgsGovernance shows: a proposal for a contract that is accepted or has an   *)
(* open proposal is rejected, and acceptance takes every member's yes.      *)
(***************************************************************************)
EXTENDS Integers, Sequences

CONSTANTS
    Members,    \* active members, none of them an operator
    Contracts,  \* contract ids
    MaxSeqno,   \* bound: transactions in the ledger
    MaxView,    \* bound: views
    MaxWrites,  \* bound: writes of drafts
    None

ASSUME BoundsAssumption ==
    /\ MaxSeqno \in Nat \ {0} /\ MaxView \in Nat \ {0} /\ MaxWrites \in Nat

VARIABLES
    ledger,     \* the states of the store, and the view of each transaction
    commit,     \* the sequence number up to which transactions are committed
    view,       \* the current view
    seen,       \* the last answer each member got about each contract
    call,       \* what the CGS client of each member is doing
    writes,     \* drafts written so far, lost ones included
    confirmed   \* history: the transaction last reported as committed

vars == <<ledger, commit, view, seen, call, writes, confirmed>>

store == ledger[Len(ledger)]

EmptyStore ==
    [view |-> 1, drafts |-> [c \in Contracts |-> None], open |-> [c \in Contracts |-> None],
     accepted |-> [c \in Contracts |-> None]]

NoCall == [pc |-> "none"]

Init ==
    /\ ledger = <<EmptyStore>>
    /\ commit = 1
    /\ view = 1
    /\ seen = [m \in Members |-> [c \in Contracts |-> None]]
    /\ call = [m \in Members |-> NoCall]
    /\ writes = 0
    /\ confirmed = None

(***************************************************************************)
(* The store                                                               *)
(***************************************************************************)
\* A mutant: the version is the sequence number alone.
SeqnoOnly(seqno) == <<1, seqno>>

\* view + "." + seqno, with getViewForSeqno(seqno).
Version(seqno) == <<ledger[seqno].view, seqno>>

\* What getContract answers; None for 404.
GetContract(c) ==
    LET accepted == store.accepted[c]
        open     == store.open[c]
        draft    == store.drafts[c]
    IN  IF accepted # None
        THEN [version |-> Version(accepted.seqno), data |-> accepted.data, proposalId |-> accepted.proposalId]
        ELSE IF open # None
        THEN [version |-> open.version, data |-> open.data, proposalId |-> open.proposalId]
        ELSE IF draft # None
        THEN [version |-> Version(draft.seqno), data |-> draft.data, proposalId |-> None]
        ELSE None

\* The transaction a member sends next.
NextTx == <<view, Len(ledger) + 1>>

\* A request of member m writes the store; its client waits for the commit.
Execute(m, newStore) ==
    /\ Len(ledger) < MaxSeqno
    /\ ledger' = Append(ledger, [newStore EXCEPT !.view = view])
    /\ call' = [call EXCEPT ![m] = [pc |-> "commit", tx |-> NextTx]]
    /\ UNCHANGED <<commit, view, seen, confirmed>>

(***************************************************************************)
(* Reading and writing drafts                                              *)
(***************************************************************************)
Get(m, c) ==
    /\ call[m] = NoCall
    /\ GetContract(c) # None
    /\ seen' = [seen EXCEPT ![m][c] = GetContract(c)]
    /\ UNCHANGED <<ledger, commit, view, call, writes, confirmed>>

\* 409 without a version, 412 with another one than that of the draft.
VersionGiven(m, c) ==
    store.drafts[c] # None =>
        /\ seen[m][c] # None
        /\ seen[m][c].version = Version(store.drafts[c].seqno)

\* putContract: the member sends the version it has seen.
Put(m, c) ==
    /\ call[m] = NoCall
    /\ store.accepted[c] = None
    /\ VersionGiven(m, c)
    /\ writes < MaxWrites
    /\ writes' = writes + 1
    /\ Execute(m, [store EXCEPT !.drafts[c] = [data |-> writes + 1, seqno |-> Len(ledger) + 1]])

(***************************************************************************)
(* Proposing: the client reads the item, compares its version with the one  *)
(* the member has seen, and proposes what it has read.                      *)
(***************************************************************************)
\* A mutant: the version is not compared.
AnyVersion(m, c) == TRUE

SameVersion(m, c) == GetContract(c).version = seen[m][c].version

CreateProposal(m, c) ==
    /\ call[m] = NoCall
    /\ seen[m][c] # None /\ GetContract(c) # None
    /\ SameVersion(m, c)
    /\ call' = [call EXCEPT ![m] = [pc |-> "propose", contract |-> c, read |-> GetContract(c)]]
    /\ UNCHANGED <<ledger, commit, view, seen, writes, confirmed>>

\* The proposal is open, unless the item is accepted or has an open proposal.
Proposed(m, c, read) ==
    IF store.accepted[c] # None \/ store.open[c] # None THEN store
    ELSE [store EXCEPT !.open[c] =
            [proposalId |-> NextTx, data |-> read.data, version |-> read.version,
             intended |-> seen[m][c].data, ballots |-> [n \in Members |-> None]]]

SubmitProposal(m) ==
    /\ call[m].pc = "propose"
    /\ Execute(m, Proposed(m, call[m].contract, call[m].read))
    /\ UNCHANGED writes

(***************************************************************************)
(* Voting: the client reads the item, compares its proposal with the one    *)
(* the member has seen, and submits the ballot.  A ballot notes what the    *)
(* member has seen the proposal to hold.                                    *)
(***************************************************************************)
SameProposal(m, c) == GetContract(c).proposalId = seen[m][c].proposalId

\* A mutant: a contract that is not proposed is voted on.
NeverUnproposed(c) == TRUE

\* ContractNotProposed.
IsProposed(c) == GetContract(c).proposalId # None

Vote(m, c) ==
    /\ call[m] = NoCall
    /\ seen[m][c] # None /\ GetContract(c) # None
    /\ IsProposed(c)
    /\ SameProposal(m, c)
    /\ call' = [call EXCEPT ![m] = [pc |-> "vote", contract |-> c, proposalId |-> GetContract(c).proposalId]]
    /\ UNCHANGED <<ledger, commit, view, seen, writes, confirmed>>

\* The store with the ballot of m: resolve() rejects the proposal on a no, and
\* accepts it when every member has voted yes.
Voted(m, c, yes) ==
    LET ballots == [store.open[c].ballots EXCEPT ![m] = seen[m][c].data]
    IN  IF ~yes THEN [store EXCEPT !.open[c] = None]
        ELSE IF \E n \in Members : ballots[n] = None
        THEN [store EXCEPT !.open[c].ballots = ballots]
        ELSE [store EXCEPT !.open[c] = None,
                !.accepted[c] = [proposalId |-> store.open[c].proposalId, data |-> store.open[c].data,
                                 intended |-> store.open[c].intended,
                                 finalVotes |-> ballots, seqno |-> Len(ledger) + 1]]

SubmitBallot(m, yes) ==
    LET c == call[m].contract IN
    /\ call[m].pc = "vote"
    /\ store.open[c] # None
    /\ store.open[c].proposalId = call[m].proposalId
    /\ store.open[c].ballots[m] = None
    /\ Execute(m, Voted(m, c, yes))
    /\ UNCHANGED writes

(***************************************************************************)
(* The end of a request                                                    *)
(***************************************************************************)
\* A mutant: a transaction the ledger holds is taken for committed.
Received(tx) == tx[2] <= Len(ledger) /\ ledger[tx[2]].view = tx[1]

\* The status of a transaction: "Committed".
IsCommitted(tx) == tx[2] <= commit /\ ledger[tx[2]].view = tx[1]

Confirm(m) ==
    /\ call[m].pc = "commit"
    /\ IsCommitted(call[m].tx)
    /\ confirmed' = call[m].tx
    /\ call' = [call EXCEPT ![m] = NoCall]
    /\ UNCHANGED <<ledger, commit, view, seen, writes>>

\* The client fails between two requests, CGS refuses the second one, or the
\* transaction is not committed in time.
Fail(m) ==
    /\ call[m] # NoCall
    /\ call' = [call EXCEPT ![m] = NoCall]
    /\ UNCHANGED <<ledger, commit, view, seen, writes, confirmed>>

(***************************************************************************)
(* The CCF network                                                         *)
(***************************************************************************)
Commit ==
    /\ commit' \in commit + 1..Len(ledger)
    /\ UNCHANGED <<ledger, view, seen, call, writes, confirmed>>

Rollback ==
    /\ view < MaxView
    /\ view' = view + 1
    /\ \E n \in commit..Len(ledger) : ledger' = SubSeq(ledger, 1, n)
    /\ UNCHANGED <<commit, seen, call, writes, confirmed>>

Next ==
    \/ \E m \in Members, c \in Contracts :
         Get(m, c) \/ Put(m, c) \/ CreateProposal(m, c) \/ Vote(m, c)
    \/ \E m \in Members :
         \/ SubmitProposal(m) \/ Confirm(m) \/ Fail(m)
         \/ \E yes \in BOOLEAN : SubmitBallot(m, yes)
    \/ Commit \/ Rollback

Spec == Init /\ [][Next]_vars

(***************************************************************************)
(* Properties                                                              *)
(***************************************************************************)
TxIds == (1..MaxView) \X (2..MaxSeqno)
Contents == 1..MaxWrites

Draft == [data: Contents, seqno: 2..MaxSeqno]
Answer == [version: TxIds, data: Contents, proposalId: TxIds \cup {None}]
Ballots == [Members -> Contents \cup {None}]
OpenProposal ==
    [proposalId: TxIds, data: Contents, version: TxIds, intended: Contents, ballots: Ballots]
AcceptedItem ==
    [proposalId: TxIds, data: Contents, intended: Contents, finalVotes: Ballots, seqno: 2..MaxSeqno]
Store ==
    [view: 1..MaxView, drafts: [Contracts -> Draft \cup {None}],
     open: [Contracts -> OpenProposal \cup {None}], accepted: [Contracts -> AcceptedItem \cup {None}]]
ASSUME NoneAssumption == None \notin TxIds \cup Draft

Call ==
    {NoCall} \cup [pc: {"propose"}, contract: Contracts, read: Answer]
    \cup [pc: {"vote"}, contract: Contracts, proposalId: TxIds] \cup [pc: {"commit"}, tx: TxIds]

\* Every version that is shown or stored is that of a transaction, and the
\* committed part of the ledger is never rolled back.
TypeOK ==
    /\ ledger \in Seq(Store)
    /\ commit \in 1..Len(ledger)
    /\ Len(ledger) <= MaxSeqno
    /\ view \in 1..MaxView
    /\ seen \in [Members -> [Contracts -> Answer \cup {None}]]
    /\ call \in [Members -> Call]
    /\ writes \in 0..MaxWrites
    /\ confirmed \in TxIds \cup {None}

\* What the members accept is what each of them has seen: the proposer asked
\* for the content it had read under the version it gave, and every member that
\* voted yes had read that content in that proposal.  The client reads, checks
\* and submits in separate requests, and the draft may be replaced, proposed
\* by someone else or rolled back at any point in between.
AcceptedWasSeen ==
    \A c \in Contracts :
      store.accepted[c] # None =>
        LET a == store.accepted[c]
        IN  /\ a.intended = a.data
            /\ \A m \in Members : a.finalVotes[m] = a.data

\* A request that the client has reported as done is never undone: the
\* transaction it wrote stays in the ledger through every change of primary.
ConfirmedStays ==
    confirmed # None =>
        confirmed[2] <= Len(ledger) /\ ledger[confirmed[2]].view = confirmed[1]

DataOf(x) == IF x = None THEN None ELSE x.data

Register ==
    INSTANCE DraftRegister WITH
        Clients <- Members, Items <- Contracts, Values <- Contents,
        history <- [n \in 1..Len(ledger) |-> [c \in Contracts |-> DataOf(ledger[n].drafts[c])]],
        durable <- commit,
        basis   <- [m \in Members |-> [c \in Contracts |-> DataOf(seen[m][c])]],
        written <- 1..writes

\* A draft is replaced only by a member that has read the very content it
\* replaces, although the service compares versions and not contents and
\* sequence numbers are used again after a roll-back: drafts implement the
\* register that knows nothing of versions.
ImplementsRegister == Register!RegSpec
=============================================================================
