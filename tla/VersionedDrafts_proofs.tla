------------------------ MODULE VersionedDrafts_proofs ------------------------
(***************************************************************************)
(* Proofs about VersionedDrafts, for any members, contracts and bounds.     *)
(*                                                                         *)
(* The argument: a version or a proposal id names a transaction, and a      *)
(* transaction that is yet to come has a name nobody knows, because a new   *)
(* view begins whenever sequence numbers are used again (Past).  So all that*)
(* anyone knows about a version or a proposal agrees (VersionsAgree,       *)
(* ProposalsAgree), wherever it is kept: with a member, in a request between*)
(* its two steps, or in the ledger.                                        *)
(***************************************************************************)
EXTENDS VersionedDrafts, SequenceTheorems, TLAPS

\* Somewhere version v of contract c is held to be content d.
Knows(c, v, d) ==
    \/ \E m \in Members : seen[m][c] # None /\ v = seen[m][c].version /\ d = seen[m][c].data
    \/ \E m \in Members : /\ call[m].pc = "propose" /\ call[m].contract = c
                          /\ v = call[m].read.version /\ d = call[m].read.data
    \/ \E k \in 1..Len(ledger) :
         \/ /\ ledger[k].open[c] # None
            /\ v = ledger[k].open[c].version /\ d = ledger[k].open[c].data
         \/ /\ ledger[k].drafts[c] # None
            /\ v = Version(ledger[k].drafts[c].seqno) /\ d = ledger[k].drafts[c].data
         \/ /\ ledger[k].accepted[c] # None
            /\ v = Version(ledger[k].accepted[c].seqno) /\ d = ledger[k].accepted[c].data

\* Somewhere proposal p for contract c is held to propose content d.
KnowsProposal(c, p, d) ==
    \/ \E m \in Members : /\ seen[m][c] # None /\ seen[m][c].proposalId = p
                          /\ d = seen[m][c].data
    \/ \E m \in Members : /\ call[m].pc = "propose" /\ call[m].contract = c
                          /\ call[m].read.proposalId = p /\ d = call[m].read.data
    \/ \E k \in 1..Len(ledger) :
         \/ /\ ledger[k].open[c] # None
            /\ p = ledger[k].open[c].proposalId /\ d = ledger[k].open[c].data
         \/ /\ ledger[k].accepted[c] # None
            /\ p = ledger[k].accepted[c].proposalId /\ d = ledger[k].accepted[c].data

\* The transaction is not one that is yet to come.
Past(tx) == tx[1] <= view /\ (tx[1] = view => tx[2] <= Len(ledger))

VersionsAgree ==
    \A c \in Contracts, v \in TxIds, d, e \in Contents :
      Knows(c, v, d) => Past(v) /\ d <= writes /\ (Knows(c, v, e) => d = e)

ProposalsAgree ==
    \A c \in Contracts, p \in TxIds, d, e \in Contents :
      KnowsProposal(c, p, d) => Past(p) /\ (KnowsProposal(c, p, e) => d = e)

\* What an entry of the ledger points to is not after it.
Backward ==
    \A k \in 1..Len(ledger), c \in Contracts :
      /\ ledger[k].drafts[c] # None => ledger[k].drafts[c].seqno <= k
      /\ ledger[k].accepted[c] # None => ledger[k].accepted[c].seqno <= k

\* What a client has compared still holds when it sends its second request.
Compared ==
    \A m \in Members :
      LET q == call[m] IN
      /\ q.pc = "propose" => seen[m][q.contract] # None /\ seen[m][q.contract].version = q.read.version
      /\ q.pc = "vote" => seen[m][q.contract] # None /\ seen[m][q.contract].proposalId = q.proposalId

Meant ==
    \A k \in 1..Len(ledger), c \in Contracts :
      LET o == ledger[k].open[c]
          a == ledger[k].accepted[c]
      IN  /\ o # None => o.intended = o.data /\ \A n \in Members : o.ballots[n] \in {None, o.data}
          /\ a # None => a.intended = a.data /\ \A n \in Members : a.finalVotes[n] = a.data

Durable ==
    confirmed # None => confirmed[2] <= commit /\ ledger[confirmed[2]].view = confirmed[1]

IInv ==
    /\ TypeOK
    /\ VersionsAgree
    /\ ProposalsAgree
    /\ Backward
    /\ Compared
    /\ Meant
    /\ Durable

-----------------------------------------------------------------------------
(***************************************************************************)
(* The ledger and the answers of the service.                               *)
(***************************************************************************)
\* The ledger is never empty, and each of its entries is a store.
LEMMA LedgerEntries ==
    ASSUME TypeOK
    PROVE  /\ Len(ledger) \in Nat /\ Len(ledger) >= 1
           /\ \A k \in 1..Len(ledger) : ledger[k] \in Store
           /\ store \in Store
<1>1. ledger \in Seq(Store) /\ commit \in 1..Len(ledger)
  BY DEF TypeOK
<1>2. Len(ledger) \in Nat /\ Len(ledger) >= 1
  BY <1>1
<1>3. \A k \in 1..Len(ledger) : ledger[k] \in Store
  BY <1>1
<1> QED
  BY <1>2, <1>3 DEF store

\* The version of a transaction in the ledger is a transaction id.
LEMMA VersionType ==
    ASSUME TypeOK, NEW s \in 2..MaxSeqno, s <= Len(ledger)
    PROVE  Version(s) \in TxIds
<1>1. ledger[s] \in Store
  BY LedgerEntries, BoundsAssumption
<1>2. ledger[s].view \in 1..MaxView
  BY <1>1 DEF Store
<1> QED
  BY <1>2 DEF Version, TxIds

\* getContract answers with a version and a content that belong together.
LEMMA AnswerIsKnown ==
    ASSUME TypeOK, Backward, NEW c \in Contracts, GetContract(c) # None
    PROVE  LET a == GetContract(c) IN
           /\ a \in Answer
           /\ Knows(c, a.version, a.data)
           /\ a.proposalId # None => KnowsProposal(c, a.proposalId, a.data)
<1> DEFINE n == Len(ledger)
           a == GetContract(c)
<1>1. n \in 1..Len(ledger) /\ store = ledger[n] /\ store \in Store
  BY LedgerEntries DEF store
<1>2. CASE store.accepted[c] # None
  <2> DEFINE x == store.accepted[c]
  <2>1. x \in AcceptedItem
    BY <1>1, <1>2 DEF Store
  <2>2. x.seqno <= Len(ledger) /\ x.seqno \in 2..MaxSeqno
    BY <1>1, <1>2, <2>1, LedgerEntries DEF Backward, AcceptedItem
  <2>3. a = [version |-> Version(x.seqno), data |-> x.data, proposalId |-> x.proposalId]
    BY <1>2 DEF GetContract
  <2>4. Version(x.seqno) \in TxIds
    BY <2>2, VersionType
  <2>5. a \in Answer
    BY <2>1, <2>3, <2>4, SMTT(60) DEF Answer, AcceptedItem
  <2>6. Knows(c, a.version, a.data)
    BY <1>1, <1>2, <2>3, SMTT(30) DEF Knows
  <2>7. KnowsProposal(c, a.proposalId, a.data)
    BY <1>1, <1>2, <2>3 DEF KnowsProposal
  <2> QED
    BY <2>5, <2>6, <2>7
<1>3. CASE store.accepted[c] = None /\ store.open[c] # None
  <2> DEFINE x == store.open[c]
  <2>1. x \in OpenProposal
    BY <1>1, <1>3 DEF Store
  <2>3. a = [version |-> x.version, data |-> x.data, proposalId |-> x.proposalId]
    BY <1>3 DEF GetContract
  <2>5. a \in Answer
    BY <2>1, <2>3, SMTT(60) DEF Answer, OpenProposal
  <2>6. Knows(c, a.version, a.data)
    BY <1>1, <1>3, <2>3 DEF Knows
  <2>7. KnowsProposal(c, a.proposalId, a.data)
    BY <1>1, <1>3, <2>3 DEF KnowsProposal
  <2> QED
    BY <2>5, <2>6, <2>7
<1>4. CASE store.accepted[c] = None /\ store.open[c] = None
  <2> DEFINE x == store.drafts[c]
  <2>0. x # None
    BY <1>4 DEF GetContract
  <2>1. x \in Draft
    BY <1>1, <2>0 DEF Store
  <2>2. x.seqno <= Len(ledger) /\ x.seqno \in 2..MaxSeqno
    BY <1>1, <2>0, <2>1, LedgerEntries DEF Backward, Draft
  <2>3. a = [version |-> Version(x.seqno), data |-> x.data, proposalId |-> None]
    BY <1>4, <2>0 DEF GetContract
  <2>4. Version(x.seqno) \in TxIds
    BY <2>2, VersionType
  <2>5. a \in Answer
    BY <2>1, <2>3, <2>4 DEF Answer, Draft
  <2>6. Knows(c, a.version, a.data)
    BY <1>1, <2>0, <2>3 DEF Knows
  <2> QED
    BY <2>3, <2>5, <2>6
<1> QED
  BY <1>2, <1>3, <1>4

-----------------------------------------------------------------------------
(***************************************************************************)
(* A request that writes.                                                  *)
(***************************************************************************)
LEMMA ExecuteLedger ==
    ASSUME TypeOK, NEW m \in Members, NEW s \in Store, Execute(m, s)
    PROVE  /\ Len(ledger') = Len(ledger) + 1 /\ Len(ledger') <= MaxSeqno
           /\ ledger' \in Seq(Store)
           /\ \A k \in 1..Len(ledger) : ledger'[k] = ledger[k]
           /\ ledger'[Len(ledger) + 1] = [s EXCEPT !.view = view]
           /\ store' = [s EXCEPT !.view = view]
           /\ NextTx \in TxIds
<1> DEFINE e == [s EXCEPT !.view = view]
<1>1. ledger \in Seq(Store) /\ view \in 1..MaxView /\ Len(ledger) >= 1 /\ Len(ledger) \in Nat
  BY LedgerEntries DEF TypeOK
<1>2. e \in Store
  BY <1>1 DEF Store
<1>3. ledger' = Append(ledger, e) /\ Len(ledger) < MaxSeqno
  BY DEF Execute
<1> HIDE DEF e
<1>4. Len(ledger') = Len(ledger) + 1 /\ ledger' \in Seq(Store)
  BY <1>1, <1>2, <1>3
<1>5. \A k \in 1..Len(ledger) : ledger'[k] = ledger[k]
  BY <1>1, <1>2, <1>3
<1>6. ledger'[Len(ledger) + 1] = e
  BY <1>1, <1>2, <1>3
<1>7. NextTx \in TxIds
  BY <1>1, <1>3, BoundsAssumption DEF NextTx, TxIds
<1> QED
  BY <1>1, <1>3, <1>4, <1>5, <1>6, <1>7, BoundsAssumption DEF e, store

\* What the new store holds is the old one's, or belongs to this transaction.
NewStore(s) ==
    \A c \in Contracts :
      /\ s.drafts[c] # store.drafts[c] => s.drafts[c].seqno = Len(ledger) + 1
      /\ s.accepted[c] # store.accepted[c] => s.accepted[c].seqno = Len(ledger) + 1

LEMMA ExecuteBackward ==
    ASSUME TypeOK, Backward, NEW m \in Members, NEW s \in Store, Execute(m, s), NewStore(s)
    PROVE  Backward'
<1> DEFINE n == Len(ledger)
<1>1. n \in Nat /\ n >= 1 /\ Len(ledger') = n + 1 /\ store = ledger[n]
      /\ (\A k \in 1..n : ledger'[k] = ledger[k])
  BY LedgerEntries, ExecuteLedger, ZenonT(30) DEF store
<1>2. ledger'[n + 1].drafts = s.drafts /\ ledger'[n + 1].accepted = s.accepted
  BY ExecuteLedger DEF Store
<1> SUFFICES ASSUME NEW k \in 1..n + 1, NEW c \in Contracts
             PROVE  /\ ledger'[k].drafts[c] # None => ledger'[k].drafts[c].seqno <= k
                    /\ ledger'[k].accepted[c] # None => ledger'[k].accepted[c].seqno <= k
  BY <1>1 DEF Backward
<1>3. CASE k \in 1..n
  BY <1>1, <1>3 DEF Backward
<1>4. CASE k = n + 1
  <2>1. s.drafts[c] # None => s.drafts[c].seqno <= n + 1
    <3>1. CASE s.drafts[c] # store.drafts[c]
      BY <1>1, <3>1 DEF NewStore
    <3>2. CASE s.drafts[c] = store.drafts[c]
      <4>1. SUFFICES ASSUME s.drafts[c] # None PROVE s.drafts[c].seqno <= n + 1
        OBVIOUS
      <4>2. store.drafts[c].seqno <= n
        BY <1>1, <3>2, <4>1 DEF Backward
      <4>3. store.drafts[c].seqno \in Nat
        BY LedgerEntries, <3>2, <4>1, BoundsAssumption DEF Store, Draft
      <4> QED
        BY <1>1, <3>2, <4>2, <4>3
    <3> QED
      BY <3>1, <3>2
  <2>2. s.accepted[c] # None => s.accepted[c].seqno <= n + 1
    <3>1. CASE s.accepted[c] # store.accepted[c]
      BY <1>1, <3>1 DEF NewStore
    <3>2. CASE s.accepted[c] = store.accepted[c]
      <4>1. SUFFICES ASSUME s.accepted[c] # None PROVE s.accepted[c].seqno <= n + 1
        OBVIOUS
      <4>2. store.accepted[c].seqno <= n
        BY <1>1, <3>2, <4>1 DEF Backward
      <4>3. store.accepted[c].seqno \in Nat
        BY LedgerEntries, <3>2, <4>1, BoundsAssumption DEF Store, AcceptedItem
      <4> QED
        BY <1>1, <3>2, <4>2, <4>3
    <3> QED
      BY <3>1, <3>2
  <2> QED
    BY <1>2, <1>4, <2>1, <2>2
<1> QED
  BY <1>3, <1>4

\* All that is known after the request was known before, or is what it wrote.
LEMMA ExecuteKnows ==
    ASSUME TypeOK, Backward, NEW m \in Members, NEW s \in Store, Execute(m, s), NewStore(s),
           NEW c \in Contracts, NEW v \in TxIds, NEW d \in Contents, Knows(c, v, d)'
    PROVE  \/ Knows(c, v, d)
           \/ s.drafts[c] # store.drafts[c] /\ v = NextTx /\ d = s.drafts[c].data
           \/ s.accepted[c] # store.accepted[c] /\ v = NextTx /\ d = s.accepted[c].data
           \/ /\ s.open[c] # store.open[c] /\ s.open[c] # None
              /\ v = s.open[c].version /\ d = s.open[c].data
<1> DEFINE n == Len(ledger)
<1>1. n \in Nat /\ n >= 1 /\ Len(ledger') = n + 1 /\ store = ledger[n]
      /\ (\A k \in 1..n : ledger'[k] = ledger[k])
  BY LedgerEntries, ExecuteLedger, ZenonT(30) DEF store
<1>2. /\ ledger'[n + 1].drafts = s.drafts /\ ledger'[n + 1].accepted = s.accepted
      /\ ledger'[n + 1].open = s.open /\ ledger'[n + 1].view = view
  BY ExecuteLedger DEF Store
<1>3. seen' = seen /\ call' = [call EXCEPT ![m] = [pc |-> "commit", tx |-> NextTx]]
  BY DEF Execute
<1>4. \A x \in 2..MaxSeqno : x <= n => <<ledger'[x].view, x>> = Version(x)
  BY <1>1, BoundsAssumption DEF Version
<1>5. <<ledger'[n + 1].view, n + 1>> = NextTx
  BY <1>2 DEF NextTx
<1>6. CASE \E p \in Members : seen'[p][c] # None /\ v = seen'[p][c].version /\ d = seen'[p][c].data
  BY <1>3, <1>6, ZenonT(30) DEF Knows
<1>7. CASE \E p \in Members : /\ call'[p].pc = "propose" /\ call'[p].contract = c
                              /\ v = call'[p].read.version /\ d = call'[p].read.data
  <2>1. PICK p \in Members : /\ call'[p].pc = "propose" /\ call'[p].contract = c
                             /\ v = call'[p].read.version /\ d = call'[p].read.data
    BY <1>7
  <2>2. p # m
    BY <1>3, <2>1 DEF TypeOK
  <2>3. call'[p] = call[p]
    BY <1>3, <2>2 DEF TypeOK
  <2> QED
    BY <2>1, <2>3, ZenonT(30) DEF Knows
<1>8. ASSUME NEW k \in 1..n + 1, ledger'[k].open[c] # None,
             v = ledger'[k].open[c].version, d = ledger'[k].open[c].data
      PROVE  \/ Knows(c, v, d)
             \/ s.open[c] # store.open[c] /\ s.open[c] # None /\ v = s.open[c].version /\ d = s.open[c].data
  <2>1. CASE k \in 1..n
    BY <1>1, <1>8, <2>1, ZenonT(30) DEF Knows
  <2>2. CASE k = n + 1
    <3>1. CASE s.open[c] = store.open[c]
      <4>1. n \in 1..n /\ ledger[n].open[c] = ledger'[k].open[c]
        BY <1>1, <1>2, <2>2, <3>1
      <4> QED
        BY <1>8, <4>1, ZenonT(30) DEF Knows
    <3>2. CASE s.open[c] # store.open[c]
      BY <1>2, <1>8, <2>2, <3>2
    <3> QED
      BY <3>1, <3>2
  <2> QED
    BY <1>1, <2>1, <2>2
<1>9. ASSUME NEW k \in 1..n + 1, ledger'[k].drafts[c] # None,
             d = ledger'[k].drafts[c].data,
             v = <<ledger'[ledger'[k].drafts[c].seqno].view, ledger'[k].drafts[c].seqno>>
      PROVE  Knows(c, v, d) \/ (s.drafts[c] # store.drafts[c] /\ v = NextTx /\ d = s.drafts[c].data)
  <2>1. CASE k = n + 1 /\ s.drafts[c] # store.drafts[c]
    BY <1>2, <1>5, <1>9, <2>1, ZenonT(30) DEF NewStore
  <2>2. ASSUME NEW j \in 1..n, ledger'[k].drafts[c] = ledger[j].drafts[c]
        PROVE  Knows(c, v, d)
    <3> DEFINE x == ledger[j].drafts[c]
    <3>1. x # None /\ x \in Draft
      BY <1>9, <2>2, LedgerEntries DEF Store
    <3>2. x.seqno \in 2..MaxSeqno /\ x.seqno <= j
      BY <3>1 DEF Backward, Draft
    <3>3. <<ledger'[x.seqno].view, x.seqno>> = Version(x.seqno)
      BY <1>1, <1>4, <3>2, BoundsAssumption, SMTT(60)
    <3> QED
      BY <1>9, <2>2, <3>1, <3>3, ZenonT(30) DEF Knows
  <2> QED
    BY <1>1, <1>2, <2>1, <2>2
<1>10. ASSUME NEW k \in 1..n + 1, ledger'[k].accepted[c] # None,
              d = ledger'[k].accepted[c].data,
             v = <<ledger'[ledger'[k].accepted[c].seqno].view, ledger'[k].accepted[c].seqno>>
       PROVE  Knows(c, v, d) \/ (s.accepted[c] # store.accepted[c] /\ v = NextTx /\ d = s.accepted[c].data)
  <2>1. CASE k = n + 1 /\ s.accepted[c] # store.accepted[c]
    BY <1>2, <1>5, <1>10, <2>1, ZenonT(30) DEF NewStore
  <2>2. ASSUME NEW j \in 1..n, ledger'[k].accepted[c] = ledger[j].accepted[c]
        PROVE  Knows(c, v, d)
    <3> DEFINE x == ledger[j].accepted[c]
    <3>1. x # None /\ x \in AcceptedItem
      BY <1>10, <2>2, LedgerEntries DEF Store
    <3>2. x.seqno \in 2..MaxSeqno /\ x.seqno <= j
      BY <3>1 DEF Backward, AcceptedItem
    <3>3. <<ledger'[x.seqno].view, x.seqno>> = Version(x.seqno)
      BY <1>1, <1>4, <3>2, BoundsAssumption
    <3> QED
      BY <1>10, <2>2, <3>1, <3>3, ZenonT(30) DEF Knows
  <2> QED
    BY <1>1, <1>2, <2>1, <2>2
<1> QED
  BY <1>1, <1>6, <1>7, <1>8, <1>9, <1>10, ZenonT(30) DEF Knows, Version

LEMMA ExecuteKnowsProposal ==
    ASSUME TypeOK, NEW m \in Members, NEW s \in Store, Execute(m, s),
           NEW c \in Contracts, NEW p \in TxIds, NEW d \in Contents, KnowsProposal(c, p, d)'
    PROVE  \/ KnowsProposal(c, p, d)
           \/ /\ s.open[c] # store.open[c] /\ s.open[c] # None
              /\ p = s.open[c].proposalId /\ d = s.open[c].data
           \/ /\ s.accepted[c] # store.accepted[c] /\ s.accepted[c] # None
              /\ p = s.accepted[c].proposalId /\ d = s.accepted[c].data
<1> DEFINE n == Len(ledger)
<1>1. n \in Nat /\ n >= 1 /\ Len(ledger') = n + 1 /\ store = ledger[n]
      /\ (\A k \in 1..n : ledger'[k] = ledger[k])
  BY LedgerEntries, ExecuteLedger, ZenonT(30) DEF store
<1>2. ledger'[n + 1].accepted = s.accepted /\ ledger'[n + 1].open = s.open
  BY ExecuteLedger DEF Store
<1>3. seen' = seen /\ call' = [call EXCEPT ![m] = [pc |-> "commit", tx |-> NextTx]]
  BY DEF Execute
<1>4. CASE \E q \in Members : seen'[q][c] # None /\ seen'[q][c].proposalId = p /\ d = seen'[q][c].data
  BY <1>3, <1>4, ZenonT(30) DEF KnowsProposal
<1>5. CASE \E q \in Members : /\ call'[q].pc = "propose" /\ call'[q].contract = c
                              /\ call'[q].read.proposalId = p /\ d = call'[q].read.data
  <2>1. PICK q \in Members : /\ call'[q].pc = "propose" /\ call'[q].contract = c
                             /\ call'[q].read.proposalId = p /\ d = call'[q].read.data
    BY <1>5
  <2>2. q # m
    BY <1>3, <2>1 DEF TypeOK
  <2>3. call'[q] = call[q]
    BY <1>3, <2>2 DEF TypeOK
  <2> QED
    BY <2>1, <2>3 DEF KnowsProposal
<1>6. ASSUME NEW k \in 1..n + 1, ledger'[k].open[c] # None,
             p = ledger'[k].open[c].proposalId, d = ledger'[k].open[c].data
      PROVE  \/ KnowsProposal(c, p, d)
             \/ /\ s.open[c] # store.open[c] /\ s.open[c] # None
                /\ p = s.open[c].proposalId /\ d = s.open[c].data
  <2>1. CASE k = n + 1 /\ s.open[c] # store.open[c]
    BY <1>2, <1>6, <2>1
  <2>2. ASSUME NEW j \in 1..n, ledger'[k].open[c] = ledger[j].open[c]
        PROVE  KnowsProposal(c, p, d)
    BY <1>6, <2>2, ZenonT(30) DEF KnowsProposal
  <2> QED
    BY <1>1, <1>2, <2>1, <2>2
<1>7. ASSUME NEW k \in 1..n + 1, ledger'[k].accepted[c] # None,
             p = ledger'[k].accepted[c].proposalId, d = ledger'[k].accepted[c].data
      PROVE  \/ KnowsProposal(c, p, d)
             \/ /\ s.accepted[c] # store.accepted[c] /\ s.accepted[c] # None
                /\ p = s.accepted[c].proposalId /\ d = s.accepted[c].data
  <2>1. CASE k = n + 1 /\ s.accepted[c] # store.accepted[c]
    BY <1>2, <1>7, <2>1
  <2>2. ASSUME NEW j \in 1..n, ledger'[k].accepted[c] = ledger[j].accepted[c]
        PROVE  KnowsProposal(c, p, d)
    BY <1>7, <2>2, ZenonT(30) DEF KnowsProposal
  <2> QED
    BY <1>1, <1>2, <2>1, <2>2
<1> QED
  BY <1>1, <1>4, <1>5, <1>6, <1>7, ZenonT(30) DEF KnowsProposal

\* What the request writes is known already, or named after the request itself.
NewKnowledge(s) ==
    \A c \in Contracts :
      /\ s.drafts[c] # store.drafts[c] =>
           s.accepted[c] = store.accepted[c] /\ s.drafts[c].data <= writes'
      /\ s.open[c] # store.open[c] /\ s.open[c] # None =>
           /\ Knows(c, s.open[c].version, s.open[c].data)
           /\ \/ KnowsProposal(c, s.open[c].proposalId, s.open[c].data)
              \/ s.open[c].proposalId = NextTx /\ s.accepted[c] = store.accepted[c]
      /\ s.accepted[c] # store.accepted[c] =>
           /\ KnowsProposal(c, s.accepted[c].proposalId, s.accepted[c].data)
           /\ s.accepted[c].data <= writes'

LEMMA ExecuteAgree ==
    ASSUME IInv, NEW m \in Members, NEW s \in Store, Execute(m, s), NewStore(s), NewKnowledge(s),
           writes' \in {writes, writes + 1}
    PROVE  VersionsAgree' /\ ProposalsAgree'
<1>1. TypeOK /\ VersionsAgree /\ ProposalsAgree /\ Backward
  BY DEF IInv
<1>2. /\ Len(ledger) \in Nat /\ Len(ledger') = Len(ledger) + 1 /\ view' = view /\ view \in Nat
      /\ writes \in Nat
  BY <1>1, LedgerEntries, ExecuteLedger, BoundsAssumption DEF Execute, TypeOK
<1>3. \A x \in TxIds : Past(x) => Past(x)' /\ x # NextTx
  BY <1>2, BoundsAssumption DEF Past, NextTx, TxIds
<1>4. \A x \in TxIds : x = NextTx => Past(x)'
  BY <1>2 DEF Past, NextTx
<1>5. ASSUME NEW c \in Contracts, NEW v \in TxIds, NEW d \in Contents, NEW e \in Contents,
             Knows(c, v, d)'
      PROVE  Past(v)' /\ d <= writes' /\ (Knows(c, v, e)' => d = e)
  <2> DEFINE known(x) ==
               \/ Knows(c, v, x)
               \/ s.drafts[c] # store.drafts[c] /\ v = NextTx /\ x = s.drafts[c].data
               \/ s.accepted[c] # store.accepted[c] /\ v = NextTx /\ x = s.accepted[c].data
  <2>1. ASSUME NEW x \in Contents, Knows(c, v, x)'
        PROVE  known(x)
    BY <1>1, <2>1, ExecuteKnows DEF NewKnowledge
  <2>2. ASSUME NEW x \in Contents, Knows(c, v, x) PROVE Past(v) /\ x <= writes
    BY <1>1, <2>2 DEF VersionsAgree
  <2>3. ASSUME NEW x \in Contents, known(x) PROVE Past(v)' /\ x <= writes'
    BY <1>2, <1>3, <1>4, <2>2, <2>3 DEF NewKnowledge, Contents
  <2>4. ASSUME NEW x \in Contents, NEW y \in Contents, known(x), known(y) PROVE x = y
    BY <1>1, <1>3, <2>2, <2>4 DEF NewKnowledge, VersionsAgree
  <2> HIDE DEF known
  <2> QED
    BY <1>5, <2>1, <2>3, <2>4
<1>6. ASSUME NEW c \in Contracts, NEW p \in TxIds, NEW d \in Contents, NEW e \in Contents,
             KnowsProposal(c, p, d)'
      PROVE  Past(p)' /\ (KnowsProposal(c, p, e)' => d = e)
  <2> DEFINE known(x) ==
               \/ KnowsProposal(c, p, x)
               \/ /\ s.open[c] # store.open[c] /\ p = NextTx /\ x = s.open[c].data
                  /\ s.accepted[c] = store.accepted[c]
  <2>1. ASSUME NEW x \in Contents, KnowsProposal(c, p, x)'
        PROVE  known(x)
    BY <1>1, <2>1, ExecuteKnowsProposal DEF NewKnowledge
  <2>2. ASSUME NEW x \in Contents, KnowsProposal(c, p, x) PROVE Past(p)
    BY <1>1, <2>2 DEF ProposalsAgree
  <2>3. ASSUME NEW x \in Contents, known(x) PROVE Past(p)'
    BY <1>3, <1>4, <2>2, <2>3
  <2>4. ASSUME NEW x \in Contents, NEW y \in Contents, known(x), known(y) PROVE x = y
    BY <1>1, <1>3, <2>2, <2>4 DEF ProposalsAgree
  <2> HIDE DEF known
  <2> QED
    BY <1>6, <2>1, <2>3, <2>4
<1>7. VersionsAgree'
  BY <1>5 DEF VersionsAgree, TxIds, Contents
<1>8. ProposalsAgree'
  BY <1>6 DEF ProposalsAgree, TxIds, Contents
<1> QED
  BY <1>7, <1>8

MeantIn(s) ==
    \A c \in Contracts :
      /\ s.open[c] # None => /\ s.open[c].intended = s.open[c].data
                             /\ \A n \in Members : s.open[c].ballots[n] \in {None, s.open[c].data}
      /\ s.accepted[c] # None => /\ s.accepted[c].intended = s.accepted[c].data
                                 /\ \A n \in Members : s.accepted[c].finalVotes[n] = s.accepted[c].data

\* A request that writes a store of the right kind preserves the invariant.
LEMMA ExecutePreserves ==
    ASSUME IInv, NEW m \in Members, NEW s \in Store, Execute(m, s), NewStore(s), NewKnowledge(s),
           MeantIn(s), writes' \in {writes, writes + 1}, writes' \in 0..MaxWrites
    PROVE  IInv'
<1> DEFINE n == Len(ledger)
<1>0. TypeOK /\ Backward /\ Compared /\ Meant /\ Durable
  BY DEF IInv
<1>1. n \in Nat /\ n >= 1 /\ Len(ledger') = n + 1 /\ store = ledger[n]
      /\ (\A k \in 1..n : ledger'[k] = ledger[k])
  BY <1>0, LedgerEntries, ExecuteLedger, ZenonT(30) DEF store
<1>2. /\ ledger'[n + 1].accepted = s.accepted /\ ledger'[n + 1].open = s.open
  BY <1>0, ExecuteLedger DEF Store
<1>3. /\ seen' = seen /\ call' = [call EXCEPT ![m] = [pc |-> "commit", tx |-> NextTx]]
      /\ commit' = commit /\ view' = view /\ confirmed' = confirmed
  BY DEF Execute
<1>4. TypeOK'
  <2>1. ledger' \in Seq(Store) /\ Len(ledger') <= MaxSeqno /\ NextTx \in TxIds
    BY <1>0, ExecuteLedger
  <2>2. call' \in [Members -> Call]
    BY <1>0, <1>3, <2>1, SMTT(30) DEF TypeOK, Call
  <2>3. commit' \in 1..Len(ledger')
    BY <1>0, <1>1, <1>3 DEF TypeOK
  <2> QED
    BY <1>0, <1>3, <2>1, <2>2, <2>3 DEF TypeOK
<1>5. VersionsAgree' /\ ProposalsAgree'
  BY ExecuteAgree
<1>6. Backward'
  BY <1>0, ExecuteBackward
<1>7. Compared'
  <2>1. \A p \in Members : call'[p] = call[p] \/ call'[p].pc = "commit"
    BY <1>0, <1>3, SMTT(30) DEF TypeOK
  <2> QED
    BY <1>0, <1>3, <2>1 DEF Compared
<1>8. Meant'
  <2>1. \A k \in 1..n : ledger'[k] = ledger[k]
    BY <1>1
  <2>2. \A k \in 1..n + 1 : k \in 1..n \/ k = n + 1
    BY <1>1, SMTT(30)
  <2>3. ASSUME NEW k \in 1..n, NEW c \in Contracts
        PROVE  LET o == ledger[k].open[c]
                   a == ledger[k].accepted[c]
               IN  /\ o # None => o.intended = o.data /\ \A q \in Members : o.ballots[q] \in {None, o.data}
                   /\ a # None => a.intended = a.data /\ \A q \in Members : a.finalVotes[q] = a.data
    BY <1>0 DEF Meant
  <2> QED
    BY <1>1, <1>2, <2>1, <2>2, <2>3, SMTT(30) DEF Meant, MeantIn
<1>9. Durable'
  BY <1>0, <1>1, <1>3, BoundsAssumption, SMTT(60) DEF Durable, TypeOK, TxIds
<1> QED
  BY <1>4, <1>5, <1>6, <1>7, <1>8, <1>9 DEF IInv

\* The contents of a store that the invariant holds of.
LEMMA StoreMeant ==
    ASSUME IInv
    PROVE  /\ store \in Store /\ NewStore(store) /\ MeantIn(store)
           /\ \A c \in Contracts :
                /\ store.open[c] # None =>
                     /\ store.open[c] \in OpenProposal
                     /\ Knows(c, store.open[c].version, store.open[c].data)
                     /\ KnowsProposal(c, store.open[c].proposalId, store.open[c].data)
                /\ store.drafts[c] # None =>
                     /\ store.drafts[c] \in Draft
                     /\ Knows(c, Version(store.drafts[c].seqno), store.drafts[c].data)
                     /\ Version(store.drafts[c].seqno) \in TxIds
<1>1. TypeOK /\ Meant /\ Backward
  BY DEF IInv
<1>2. store \in Store /\ Len(ledger) \in 1..Len(ledger) /\ store = ledger[Len(ledger)]
  BY <1>1, LedgerEntries DEF store
<1>3. NewStore(store) /\ MeantIn(store)
  BY <1>1, <1>2 DEF NewStore, MeantIn, Meant
<1>4. ASSUME NEW c \in Contracts, store.open[c] # None
      PROVE  /\ store.open[c] \in OpenProposal
             /\ Knows(c, store.open[c].version, store.open[c].data)
             /\ KnowsProposal(c, store.open[c].proposalId, store.open[c].data)
  <2>1. store.open[c] \in OpenProposal
    BY <1>2, <1>4 DEF Store
  <2>2. Knows(c, store.open[c].version, store.open[c].data)
    BY <1>2, <1>4 DEF Knows
  <2>3. KnowsProposal(c, store.open[c].proposalId, store.open[c].data)
    BY <1>2, <1>4 DEF KnowsProposal
  <2> QED
    BY <2>1, <2>2, <2>3
<1>5. ASSUME NEW c \in Contracts, store.drafts[c] # None
      PROVE  /\ store.drafts[c] \in Draft
             /\ Knows(c, Version(store.drafts[c].seqno), store.drafts[c].data)
             /\ Version(store.drafts[c].seqno) \in TxIds
  <2>1. store.drafts[c] \in Draft
    BY <1>2, <1>5 DEF Store
  <2>2. Knows(c, Version(store.drafts[c].seqno), store.drafts[c].data)
    BY <1>2, <1>5 DEF Knows
  <2>3. store.drafts[c].seqno <= Len(ledger) /\ store.drafts[c].seqno \in 2..MaxSeqno
    BY <1>1, <1>2, <1>5, <2>1 DEF Backward, Draft
  <2> QED
    BY <1>1, <2>1, <2>2, <2>3, VersionType
<1> QED
  BY <1>2, <1>3, <1>4, <1>5

-----------------------------------------------------------------------------
(***************************************************************************)
(* Every step preserves the invariant.                                      *)
(***************************************************************************)
LEMMA PutPreserves ==
    ASSUME IInv, NEW m \in Members, NEW c \in Contracts, Put(m, c)
    PROVE  IInv'
<1> DEFINE draft == [data |-> writes + 1, seqno |-> Len(ledger) + 1]
           s == [store EXCEPT !.drafts[c] = draft]
<1>1. writes' = writes + 1 /\ writes' \in 0..MaxWrites /\ Execute(m, s) /\ writes + 1 \in Contents
  BY BoundsAssumption DEF Put, IInv, TypeOK, Contents
<1>2. store \in Store /\ MeantIn(store)
  BY StoreMeant
<1>3. draft \in Draft
  <2>1. Len(ledger) + 1 \in 2..MaxSeqno
    BY LedgerEntries, BoundsAssumption, <1>1 DEF Execute, IInv
  <2> QED
    BY <1>1, <2>1 DEF Draft
<1> HIDE DEF draft
<1>4. s \in Store
  BY <1>2, <1>3 DEF Store
<1>5. s.open = store.open /\ s.accepted = store.accepted
      /\ s.drafts = [store.drafts EXCEPT ![c] = draft]
  BY <1>2 DEF Store
<1>6. NewStore(s)
  BY <1>2, <1>3, <1>5 DEF NewStore, Store, draft
<1>7. NewKnowledge(s)
  BY <1>1, <1>2, <1>5 DEF NewKnowledge, Store, draft
<1>8. MeantIn(s)
  BY <1>2, <1>5 DEF MeantIn
<1> HIDE DEF s
<1> QED
  BY <1>1, <1>4, <1>6, <1>7, <1>8, ExecutePreserves

\* The client proposes what the member has seen: both are known by the version
\* it compared.
LEMMA SubmitProposalPreserves ==
    ASSUME IInv, NEW m \in Members, SubmitProposal(m)
    PROVE  IInv'
<1> DEFINE c == call[m].contract
           r == call[m].read
           s == Proposed(m, c, r)
<1>0. TypeOK /\ VersionsAgree /\ Compared
  BY DEF IInv
<1>1. Execute(m, s) /\ writes' = writes /\ writes \in 0..MaxWrites /\ call[m].pc = "propose"
  BY <1>0 DEF SubmitProposal, TypeOK
<1>2. c \in Contracts /\ r \in Answer
  BY <1>0, <1>1 DEF TypeOK, Call, NoCall
<1>3. seen[m][c] # None /\ seen[m][c] \in Answer /\ seen[m][c].version = r.version
  BY <1>0, <1>1, <1>2, SMTT(30) DEF Compared, TypeOK
<1>4. Knows(c, r.version, r.data)
  BY <1>1 DEF Knows
<1>5. Knows(c, r.version, seen[m][c].data)
  BY <1>3, ZenonT(30) DEF Knows
<1>6. r.version \in TxIds /\ r.data \in Contents /\ seen[m][c].data \in Contents
  BY <1>2, <1>3 DEF Answer
<1>7. seen[m][c].data = r.data
  BY <1>0, <1>2, <1>4, <1>5, <1>6 DEF VersionsAgree
<1>8. store \in Store /\ NewStore(store) /\ MeantIn(store)
  BY StoreMeant
<1>9. CASE s = store
  <2>1. NewKnowledge(store)
    BY DEF NewKnowledge
  <2> QED
    BY <1>1, <1>8, <1>9, <2>1, ExecutePreserves
<1>10. CASE s # store
  <2> DEFINE o == [proposalId |-> NextTx, data |-> r.data, version |-> r.version,
                   intended |-> seen[m][c].data, ballots |-> [n \in Members |-> None]]
  <2>1. s = [store EXCEPT !.open[c] = o] /\ store.open[c] = None
    BY <1>10 DEF Proposed
  <2>2. NextTx \in TxIds
    BY <1>0, <1>1, LedgerEntries, BoundsAssumption DEF Execute, NextTx, TxIds, TypeOK
  <2>3. o \in OpenProposal
    BY <1>6, <2>2 DEF OpenProposal, Ballots
  <2>4. o.intended = o.data /\ (\A n \in Members : o.ballots[n] = None)
        /\ o.proposalId = NextTx /\ o.version = r.version /\ o.data = r.data
    BY <1>7
  <2> HIDE DEF o
  <2>5. s.drafts = store.drafts /\ s.accepted = store.accepted
        /\ s.open = [store.open EXCEPT ![c] = o] /\ s \in Store
    BY <1>8, <2>1, <2>3 DEF Store
  <2> HIDE DEF s, c, r
  <2>6. NewStore(s)
    BY <2>5 DEF NewStore
  <2>7. NewKnowledge(s)
    BY <1>4, <1>8, <2>4, <2>5, SMTT(30) DEF NewKnowledge, Store
  <2>8. MeantIn(s)
    BY <1>8, <2>4, <2>5 DEF MeantIn, Store
  <2> QED
    BY <1>1, <2>5, <2>6, <2>7, <2>8, ExecutePreserves
<1> QED
  BY <1>9, <1>10

\* A member votes on what it has seen: both are known by the id it compared.
LEMMA SubmitBallotPreserves ==
    ASSUME IInv, NEW m \in Members, NEW yes \in BOOLEAN, SubmitBallot(m, yes)
    PROVE  IInv'
<1> DEFINE c == call[m].contract
           o == store.open[c]
           b == [o.ballots EXCEPT ![m] = seen[m][c].data]
           s == Voted(m, c, yes)
<1>0. TypeOK /\ VersionsAgree /\ ProposalsAgree /\ Compared
  BY DEF IInv
<1>1. /\ Execute(m, s) /\ writes' = writes /\ writes \in 0..MaxWrites /\ call[m].pc = "vote"
      /\ o # None /\ o.proposalId = call[m].proposalId
  BY <1>0 DEF SubmitBallot, TypeOK
<1>2. c \in Contracts
  BY <1>0, <1>1 DEF TypeOK, Call, NoCall
<1>3. seen[m][c] # None /\ seen[m][c] \in Answer /\ seen[m][c].proposalId = o.proposalId
  BY <1>0, <1>1, <1>2, SMTT(30) DEF Compared, TypeOK
<1>4. store \in Store /\ NewStore(store) /\ MeantIn(store)
  BY StoreMeant, SMTT(30)
<1>5. o \in OpenProposal /\ Knows(c, o.version, o.data) /\ KnowsProposal(c, o.proposalId, o.data)
  BY <1>1, <1>2, StoreMeant
<1>6. KnowsProposal(c, o.proposalId, seen[m][c].data)
  BY <1>3, ZenonT(30) DEF KnowsProposal
<1>7. o.proposalId \in TxIds /\ o.data \in Contents /\ o.version \in TxIds /\ seen[m][c].data \in Contents
  BY <1>3, <1>5, ZenonT(30) DEF Answer, OpenProposal
<1>8. seen[m][c].data = o.data
  <2> DEFINE id == o.proposalId
             d == o.data
             e == seen[m][c].data
  <2>1. id \in TxIds /\ d \in Contents /\ e \in Contents /\ c \in Contracts
    BY <1>2, <1>7, SMTT(30)
  <2>2. KnowsProposal(c, id, d) /\ KnowsProposal(c, id, e)
    BY <1>5, <1>6
  <2> HIDE DEF id, d, e, c
  <2>3. d = e
    BY <1>0, <2>1, <2>2, SMTT(30) DEF ProposalsAgree
  <2> QED
    BY <2>3 DEF d, e, c
<1>9. o.data <= writes
  BY <1>0, <1>2, <1>5, <1>7, SMTT(30) DEF VersionsAgree
<1>10. o.intended = o.data /\ (\A n \in Members : o.ballots[n] \in {None, o.data})
  BY <1>1, <1>2, <1>4 DEF MeantIn
<1>11. b \in Ballots /\ \A n \in Members : b[n] \in {None, o.data}
  BY <1>5, <1>7, <1>8, <1>10, ZenonT(30) DEF OpenProposal, Ballots
<1> HIDE DEF b
<1>12. CASE s = [store EXCEPT !.open[c] = None]
  <2>1. s.drafts = store.drafts /\ s.accepted = store.accepted
        /\ s.open = [store.open EXCEPT ![c] = None] /\ s \in Store
    BY <1>4, <1>12, SMTT(30) DEF Store
  <2> HIDE DEF s, c, o
  <2>2. NewStore(s) /\ NewKnowledge(s) /\ MeantIn(s)
    BY <1>2, <1>4, <2>1, SMTT(30) DEF NewStore, NewKnowledge, MeantIn, Store
  <2> QED
    BY <1>1, <2>1, <2>2, ExecutePreserves
<1>13. CASE s = [store EXCEPT !.open[c].ballots = b]
  <2> DEFINE oo == [o EXCEPT !.ballots = b]
  <2>1. s = [store EXCEPT !.open[c] = oo]
    BY <1>2, <1>4, <1>13 DEF Store
  <2>2. oo \in OpenProposal /\ oo.proposalId = o.proposalId /\ oo.data = o.data
        /\ oo.version = o.version /\ oo.intended = o.intended /\ oo.ballots = b
    BY <1>5, <1>11, ZenonT(30) DEF OpenProposal
  <2> HIDE DEF oo
  <2>3. s.drafts = store.drafts /\ s.accepted = store.accepted
        /\ s.open = [store.open EXCEPT ![c] = oo] /\ s \in Store
    BY <1>4, <2>1, <2>2, SMTT(30) DEF Store
  <2> HIDE DEF s, c, o
  <2>4. NewStore(s)
    BY <2>3 DEF NewStore
  <2>5. NewKnowledge(s)
    BY <1>4, <1>5, <2>2, <2>3, SMTT(30) DEF NewKnowledge, Store
  <2>6. MeantIn(s)
    BY <1>4, <1>10, <1>11, <2>2, <2>3, SMTT(30) DEF MeantIn, Store
  <2> QED
    BY <1>1, <2>3, <2>4, <2>5, <2>6, ExecutePreserves, ZenonT(30)
<1>14. CASE /\ \A n \in Members : b[n] # None
            /\ s = [store EXCEPT !.open[c] = None,
                      !.accepted[c] = [proposalId |-> o.proposalId, data |-> o.data,
                                       intended |-> o.intended, finalVotes |-> b, seqno |-> Len(ledger) + 1]]
  <2> DEFINE a == [proposalId |-> o.proposalId, data |-> o.data, intended |-> o.intended,
                   finalVotes |-> b, seqno |-> Len(ledger) + 1]
  <2>0. Len(ledger) + 1 \in 2..MaxSeqno
    BY <1>0, <1>1, LedgerEntries, BoundsAssumption DEF Execute
  <2>1. a \in AcceptedItem
    BY <1>5, <1>11, <2>0, ZenonT(30) DEF OpenProposal, AcceptedItem
  <2>2. a.proposalId = o.proposalId /\ a.data = o.data /\ a.intended = o.data
        /\ (\A n \in Members : a.finalVotes[n] = o.data) /\ a.seqno = Len(ledger) + 1
    BY <1>10, <1>11, <1>14, ZenonT(30)
  <2>3. s = [store EXCEPT !.open[c] = None, !.accepted[c] = a]
    BY <1>14
  <2> HIDE DEF a
  <2> HIDE DEF s, c, o
  <2>4. s.drafts = store.drafts /\ s.accepted = [store.accepted EXCEPT ![c] = a]
        /\ s.open = [store.open EXCEPT ![c] = None] /\ s \in Store
    <3> DEFINE s1 == [store EXCEPT !.open[c] = None]
    <3>1. s1 \in Store /\ s1.drafts = store.drafts /\ s1.accepted = store.accepted
          /\ s1.open = [store.open EXCEPT ![c] = None]
      BY <1>4 DEF Store
    <3>2. s = [s1 EXCEPT !.accepted[c] = a]
      BY <2>3, SMTT(30)
    <3> HIDE DEF s1
    <3> QED
      BY <2>1, <3>1, <3>2 DEF Store
  <2>5. NewStore(s)
    BY <1>4, <2>2, <2>4, SMTT(30) DEF NewStore, Store
  <2>6. NewKnowledge(s)
    BY <1>1, <1>4, <1>5, <1>9, <2>2, <2>4, SMTT(30) DEF NewKnowledge, Store
  <2>7. MeantIn(s)
    BY <1>4, <2>2, <2>4, SMTT(30) DEF MeantIn, Store
  <2> QED
    BY <1>1, <2>4, <2>5, <2>6, <2>7, ExecutePreserves
<1> QED
  BY <1>12, <1>13, <1>14, ZenonT(30) DEF Voted, b

\* What members and their clients know.
LEMMA HeldIsKnown ==
    ASSUME IInv
    PROVE  /\ \A m \in Members, c \in Contracts : seen[m][c] # None =>
                /\ Knows(c, seen[m][c].version, seen[m][c].data)
                /\ KnowsProposal(c, seen[m][c].proposalId, seen[m][c].data)
           /\ \A m \in Members : call[m].pc = "propose" =>
                /\ Knows(call[m].contract, call[m].read.version, call[m].read.data)
                /\ KnowsProposal(call[m].contract, call[m].read.proposalId, call[m].read.data)
<1>1. ASSUME NEW m \in Members, NEW c \in Contracts, seen[m][c] # None
      PROVE  /\ Knows(c, seen[m][c].version, seen[m][c].data)
             /\ KnowsProposal(c, seen[m][c].proposalId, seen[m][c].data)
  BY <1>1 DEF Knows, KnowsProposal
<1>2. ASSUME NEW m \in Members, call[m].pc = "propose"
      PROVE  /\ Knows(call[m].contract, call[m].read.version, call[m].read.data)
             /\ KnowsProposal(call[m].contract, call[m].read.proposalId, call[m].read.data)
  BY <1>2, ZenonT(30) DEF Knows, KnowsProposal
<1> QED
  BY <1>1, <1>2, SMTT(30)

\* A step that writes nothing and by which nothing new is learnt.
LEMMA QuietAgree ==
    ASSUME IInv, ledger' = ledger, view' = view, writes' = writes,
           \A m \in Members, c \in Contracts : seen'[m][c] # None =>
             /\ Knows(c, seen'[m][c].version, seen'[m][c].data)
             /\ seen'[m][c].proposalId # None => KnowsProposal(c, seen'[m][c].proposalId, seen'[m][c].data),
           \A m \in Members : call'[m].pc = "propose" =>
             /\ Knows(call'[m].contract, call'[m].read.version, call'[m].read.data)
             /\ call'[m].read.proposalId # None =>
                  KnowsProposal(call'[m].contract, call'[m].read.proposalId, call'[m].read.data)
    PROVE  VersionsAgree' /\ ProposalsAgree'
<1>1. VersionsAgree /\ ProposalsAgree
  BY DEF IInv
<1>2. ASSUME NEW c \in Contracts, NEW v \in TxIds, NEW d \in Contents, Knows(c, v, d)'
      PROVE  Knows(c, v, d)
  <2>1. CASE \E m \in Members : seen'[m][c] # None /\ v = seen'[m][c].version /\ d = seen'[m][c].data
    BY <2>1, ZenonT(30)
  <2>2. CASE \E m \in Members : /\ call'[m].pc = "propose" /\ call'[m].contract = c
                                /\ v = call'[m].read.version /\ d = call'[m].read.data
    BY <2>2
  <2>3. CASE \E k \in 1..Len(ledger) :
               \/ /\ ledger[k].open[c] # None
                  /\ v = ledger[k].open[c].version /\ d = ledger[k].open[c].data
               \/ /\ ledger[k].drafts[c] # None
                  /\ v = Version(ledger[k].drafts[c].seqno) /\ d = ledger[k].drafts[c].data
               \/ /\ ledger[k].accepted[c] # None
                  /\ v = Version(ledger[k].accepted[c].seqno) /\ d = ledger[k].accepted[c].data
    BY <2>3, ZenonT(30) DEF Knows
  <2>4. \A x : Version(x)' = Version(x)
    BY ZenonT(30) DEF Version
  <2> QED
    BY <1>2, <2>1, <2>2, <2>3, <2>4, ZenonT(30) DEF Knows
<1>3. \A p \in TxIds : p # None
  BY NoneAssumption
<1>4. ASSUME NEW c \in Contracts, NEW p \in TxIds, NEW d \in Contents, KnowsProposal(c, p, d)'
      PROVE  KnowsProposal(c, p, d)
  <2>1. CASE \E m \in Members : seen'[m][c] # None /\ seen'[m][c].proposalId = p /\ d = seen'[m][c].data
    BY <1>3, <2>1
  <2>2. CASE \E m \in Members : /\ call'[m].pc = "propose" /\ call'[m].contract = c
                                /\ call'[m].read.proposalId = p /\ d = call'[m].read.data
    BY <1>3, <2>2
  <2>3. CASE \E k \in 1..Len(ledger) :
               \/ /\ ledger[k].open[c] # None
                  /\ p = ledger[k].open[c].proposalId /\ d = ledger[k].open[c].data
               \/ /\ ledger[k].accepted[c] # None
                  /\ p = ledger[k].accepted[c].proposalId /\ d = ledger[k].accepted[c].data
    BY <2>3, ZenonT(30) DEF KnowsProposal
  <2> QED
    BY <1>4, <2>1, <2>2, <2>3, ZenonT(30) DEF KnowsProposal
<1>5. \A x \in TxIds : Past(x)' = Past(x)
  BY SMTT(30) DEF Past
<1>6. VersionsAgree'
  BY <1>1, <1>2, <1>5 DEF VersionsAgree, TxIds, Contents
<1>7. ProposalsAgree'
  BY <1>1, <1>4, <1>5 DEF ProposalsAgree, TxIds, Contents
<1> QED
  BY <1>6, <1>7, SMTT(30)

LEMMA GetPreserves ==
    ASSUME IInv, NEW m \in Members, NEW c \in Contracts, Get(m, c)
    PROVE  IInv'
<1> DEFINE a == GetContract(c)
<1>0. TypeOK /\ Backward /\ Compared /\ Meant /\ Durable
  BY DEF IInv
<1>1. /\ call[m] = NoCall /\ a # None /\ seen' = [seen EXCEPT ![m][c] = a]
      /\ UNCHANGED <<ledger, commit, view, call, writes, confirmed>>
  BY DEF Get
<1>2. /\ a \in Answer /\ Knows(c, a.version, a.data)
      /\ a.proposalId # None => KnowsProposal(c, a.proposalId, a.data)
  BY <1>0, <1>1, AnswerIsKnown
<1> HIDE DEF a
<1>3. TypeOK'
  BY <1>0, <1>1, <1>2 DEF TypeOK
<1>4. \A p \in Members, b \in Contracts :
        seen'[p][b] = seen[p][b] \/ (p = m /\ b = c /\ seen'[p][b] = a)
  BY <1>0, <1>1, SMTT(30) DEF TypeOK
<1>5. VersionsAgree' /\ ProposalsAgree'
  BY <1>1, <1>2, <1>4, HeldIsKnown, QuietAgree
<1>6. Compared'
  <2>1. call[m].pc = "none"
    BY <1>1 DEF NoCall
  <2>2. ASSUME NEW p \in Members, p # m PROVE seen'[p] = seen[p]
    BY <1>0, <1>1, <2>2, SMTT(30) DEF TypeOK
  <2> QED
    BY <1>0, <1>1, <2>1, <2>2 DEF Compared
<1>7. Backward' /\ Meant' /\ Durable'
  BY <1>0, <1>1 DEF Backward, Meant, Durable
<1> QED
  BY <1>3, <1>5, <1>6, <1>7 DEF IInv

\* A step of a client that keeps the ledger: CreateProposal, Vote, Confirm, Fail.
LEMMA CallPreserves ==
    ASSUME IInv, NEW m \in Members, NEW q \in Call, call' = [call EXCEPT ![m] = q],
           UNCHANGED <<ledger, commit, view, seen, writes>>,
           q.pc = "propose" =>
             /\ seen[m][q.contract] # None /\ seen[m][q.contract].version = q.read.version
             /\ Knows(q.contract, q.read.version, q.read.data)
             /\ q.read.proposalId # None => KnowsProposal(q.contract, q.read.proposalId, q.read.data),
           q.pc = "vote" => seen[m][q.contract] # None /\ seen[m][q.contract].proposalId = q.proposalId,
           confirmed' \in TxIds \cup {None}, Durable'
    PROVE  IInv'
<1>0. TypeOK /\ Backward /\ Compared /\ Meant
  BY DEF IInv
<1>1. TypeOK'
  BY <1>0 DEF TypeOK
<1>2. \A p \in Members : call'[p] = call[p] \/ (p = m /\ call'[p] = q)
  BY <1>0, SMTT(30) DEF TypeOK
<1>3. VersionsAgree' /\ ProposalsAgree'
  BY <1>2, HeldIsKnown, QuietAgree, SMTT(30)
<1>4. Compared'
  BY <1>0, <1>2, SMTT(30) DEF Compared
<1>5. Backward' /\ Meant'
  BY <1>0, SMTT(30) DEF Backward, Meant
<1> QED
  BY <1>1, <1>3, <1>4, <1>5, ZenonT(30) DEF IInv

LEMMA CreateProposalPreserves ==
    ASSUME IInv, NEW m \in Members, NEW c \in Contracts, CreateProposal(m, c)
    PROVE  IInv'
<1> DEFINE a == GetContract(c)
           q == [pc |-> "propose", contract |-> c, read |-> a]
<1>1. /\ seen[m][c] # None /\ a # None /\ a.version = seen[m][c].version
      /\ call' = [call EXCEPT ![m] = q]
      /\ UNCHANGED <<ledger, commit, view, seen, writes, confirmed>>
  BY DEF CreateProposal, SameVersion
<1>2. /\ a \in Answer /\ Knows(c, a.version, a.data)
      /\ a.proposalId # None => KnowsProposal(c, a.proposalId, a.data)
  BY <1>1, AnswerIsKnown DEF IInv
<1> HIDE DEF a
<1>3. q \in Call
  BY <1>2 DEF Call
<1>4. q.pc = "propose" /\ q.contract = c /\ q.read = a
  OBVIOUS
<1>5. confirmed' \in TxIds \cup {None} /\ Durable'
  BY <1>1, SMTT(30) DEF IInv, TypeOK, Durable
<1> HIDE DEF q
<1> QED
  BY <1>1, <1>2, <1>3, <1>4, <1>5, CallPreserves, ZenonT(30)

LEMMA VotePreserves ==
    ASSUME IInv, NEW m \in Members, NEW c \in Contracts, Vote(m, c)
    PROVE  IInv'
<1> DEFINE a == GetContract(c)
           q == [pc |-> "vote", contract |-> c, proposalId |-> a.proposalId]
<1>1. /\ seen[m][c] # None /\ a # None /\ a.proposalId = seen[m][c].proposalId /\ a.proposalId # None
      /\ call' = [call EXCEPT ![m] = q]
      /\ UNCHANGED <<ledger, commit, view, seen, writes, confirmed>>
  BY SMTT(30) DEF Vote, SameProposal, IsProposed
<1>2. a \in Answer
  BY <1>1, AnswerIsKnown DEF IInv
<1> HIDE DEF a
<1>3. a.proposalId \in TxIds
  BY <1>1, <1>2, SMTT(30) DEF Answer
<1>4. q \in Call /\ q.pc = "vote" /\ q.contract = c /\ q.proposalId = a.proposalId
  BY <1>3 DEF Call
<1>5. confirmed' \in TxIds \cup {None} /\ Durable'
  BY <1>1, SMTT(30) DEF IInv, TypeOK, Durable
<1> HIDE DEF q
<1> QED
  BY <1>1, <1>4, <1>5, CallPreserves, ZenonT(30)

LEMMA ConfirmPreserves ==
    ASSUME IInv, NEW m \in Members, Confirm(m)
    PROVE  IInv'
<1>1. /\ call[m].pc = "commit" /\ confirmed' = call[m].tx /\ call' = [call EXCEPT ![m] = NoCall]
      /\ call[m].tx[2] <= commit /\ ledger[call[m].tx[2]].view = call[m].tx[1]
      /\ UNCHANGED <<ledger, commit, view, seen, writes>>
  BY SMTT(30) DEF Confirm, IsCommitted
<1>2. call[m].tx \in TxIds
  BY <1>1 DEF IInv, TypeOK, Call, NoCall
<1>3. Durable'
  BY <1>1 DEF Durable
<1>4. NoCall \in Call /\ NoCall.pc = "none"
  BY DEF Call, NoCall
<1> QED
  BY <1>1, <1>2, <1>3, <1>4, CallPreserves

LEMMA FailPreserves ==
    ASSUME IInv, NEW m \in Members, Fail(m)
    PROVE  IInv'
<1>1. /\ call' = [call EXCEPT ![m] = NoCall]
      /\ UNCHANGED <<ledger, commit, view, seen, writes, confirmed>>
  BY DEF Fail
<1>2. confirmed' \in TxIds \cup {None} /\ Durable'
  BY <1>1, SMTT(30) DEF IInv, TypeOK, Durable
<1>3. NoCall \in Call /\ NoCall.pc = "none"
  BY DEF Call, NoCall
<1> QED
  BY <1>1, <1>2, <1>3, CallPreserves

LEMMA CommitPreserves ==
    ASSUME IInv, Commit
    PROVE  IInv'
<1>0. TypeOK /\ Backward /\ Compared /\ Meant /\ Durable
  BY DEF IInv
<1>1. commit' \in commit + 1..Len(ledger) /\ UNCHANGED <<ledger, view, seen, call, writes, confirmed>>
  BY DEF Commit
<1>2. commit \in Nat /\ Len(ledger) \in Nat
  BY <1>0, LedgerEntries DEF TypeOK
<1>3. TypeOK'
  BY <1>0, <1>1, <1>2, SMTT(30) DEF TypeOK
<1>4. VersionsAgree' /\ ProposalsAgree'
  BY <1>1, HeldIsKnown, QuietAgree
<1>5. Durable'
  BY <1>0, <1>1, <1>2, BoundsAssumption DEF Durable, TypeOK, TxIds
<1>6. Backward' /\ Compared' /\ Meant'
  BY <1>0, <1>1, ZenonT(30) DEF Backward, Compared, Meant
<1> QED
  BY <1>3, <1>4, <1>5, <1>6 DEF IInv

\* A roll-back begins a new view: what was to come in the old one is past.
LEMMA RollbackPreserves ==
    ASSUME IInv, Rollback
    PROVE  IInv'
<1>0. TypeOK /\ VersionsAgree /\ ProposalsAgree /\ Backward /\ Compared /\ Meant /\ Durable
  BY DEF IInv
<1>1. PICK n \in commit..Len(ledger) : ledger' = SubSeq(ledger, 1, n)
  BY DEF Rollback
<1>2. /\ view < MaxView /\ view' = view + 1
      /\ UNCHANGED <<commit, seen, call, writes, confirmed>>
  BY DEF Rollback
<1>3. /\ ledger \in Seq(Store) /\ Len(ledger) \in Nat /\ commit \in Nat /\ 1 <= commit
      /\ view \in 1..MaxView /\ n \in Nat /\ n >= 1 /\ n <= Len(ledger)
  BY <1>0, LedgerEntries DEF TypeOK
<1>4. /\ Len(ledger') = n /\ ledger' \in Seq(Store)
      /\ \A k \in 1..n : ledger'[k] = ledger[k]
  BY <1>1, <1>3
<1>5. TypeOK'
  BY <1>0, <1>2, <1>3, <1>4, BoundsAssumption, SMTT(30) DEF TypeOK
<1>6. Backward' /\ Meant'
  BY <1>0, <1>3, <1>4, SMTT(30) DEF Backward, Meant
<1>7. Compared'
  BY <1>0, <1>2 DEF Compared
<1>8. Durable'
  <2>1. SUFFICES ASSUME confirmed # None
                 PROVE  confirmed[2] <= commit /\ ledger'[confirmed[2]].view = confirmed[1]
    BY <1>2 DEF Durable
  <2>2. confirmed[2] \in 1..n
    BY <1>0, <1>3, <2>1, BoundsAssumption DEF Durable, TypeOK, TxIds
  <2> QED
    BY <1>0, <1>4, <2>1, <2>2 DEF Durable
<1>9. \A x \in TxIds : Past(x) => Past(x)'
  BY <1>2, <1>3, BoundsAssumption, SMTT(30) DEF Past, TxIds
<1>10. \A k \in 1..n, c \in Contracts :
         /\ ledger[k].drafts[c] # None => Version(ledger[k].drafts[c].seqno)' = Version(ledger[k].drafts[c].seqno)
         /\ ledger[k].accepted[c] # None => Version(ledger[k].accepted[c].seqno)' = Version(ledger[k].accepted[c].seqno)
  <2> SUFFICES ASSUME NEW k \in 1..n, NEW c \in Contracts
               PROVE  /\ ledger[k].drafts[c] # None =>
                           Version(ledger[k].drafts[c].seqno)' = Version(ledger[k].drafts[c].seqno)
                      /\ ledger[k].accepted[c] # None =>
                           Version(ledger[k].accepted[c].seqno)' = Version(ledger[k].accepted[c].seqno)
    OBVIOUS
  <2>1. ledger'[k] = ledger[k] /\ ledger[k] \in Store /\ k \in 1..Len(ledger)
    BY <1>0, <1>3, <1>4, LedgerEntries
  <2>2. ASSUME ledger[k].drafts[c] # None
        PROVE  ledger[k].drafts[c].seqno \in 1..n
    BY <1>0, <1>3, <2>1, <2>2, BoundsAssumption DEF Backward, Store, Draft
  <2>3. ASSUME ledger[k].accepted[c] # None
        PROVE  ledger[k].accepted[c].seqno \in 1..n
    BY <1>0, <1>3, <2>1, <2>3, BoundsAssumption DEF Backward, Store, AcceptedItem
  <2> QED
    BY <1>4, <2>1, <2>2, <2>3 DEF Version
<1>11. ASSUME NEW c \in Contracts, NEW v \in TxIds, NEW d \in Contents, Knows(c, v, d)'
       PROVE  Knows(c, v, d)
  <2>1. CASE \E m \in Members : seen'[m][c] # None /\ v = seen'[m][c].version /\ d = seen'[m][c].data
    BY <1>2, <2>1, SMTT(30) DEF Knows
  <2>2. CASE \E m \in Members : /\ call'[m].pc = "propose" /\ call'[m].contract = c
                                /\ v = call'[m].read.version /\ d = call'[m].read.data
    BY <1>2, <2>2 DEF Knows
  <2>3. CASE \E k \in 1..n :
               \/ /\ ledger[k].open[c] # None
                  /\ v = ledger[k].open[c].version /\ d = ledger[k].open[c].data
               \/ /\ ledger[k].drafts[c] # None
                  /\ v = Version(ledger[k].drafts[c].seqno) /\ d = ledger[k].drafts[c].data
               \/ /\ ledger[k].accepted[c] # None
                  /\ v = Version(ledger[k].accepted[c].seqno) /\ d = ledger[k].accepted[c].data
    <3>1. 1..n \subseteq 1..Len(ledger)
      BY <1>3
    <3> QED
      BY <2>3, <3>1, ZenonT(30) DEF Knows
  <2> QED
    BY <1>4, <1>10, <1>11, <2>1, <2>2, <2>3, ZenonT(30) DEF Knows
<1>12. ASSUME NEW c \in Contracts, NEW p \in TxIds, NEW d \in Contents, KnowsProposal(c, p, d)'
       PROVE  KnowsProposal(c, p, d)
  <2>1. 1..n \subseteq 1..Len(ledger)
    BY <1>3
  <2> QED
    BY <1>2, <1>4, <1>12, <2>1, ZenonT(30) DEF KnowsProposal
<1>13. VersionsAgree'
  BY <1>0, <1>2, <1>9, <1>11 DEF VersionsAgree, TxIds, Contents
<1>14. ProposalsAgree'
  BY <1>0, <1>9, <1>12 DEF ProposalsAgree, TxIds, Contents
<1> QED
  BY <1>5, <1>6, <1>7, <1>8, <1>13, <1>14 DEF IInv

LEMMA InitIInv == Init => IInv
<1> SUFFICES ASSUME Init PROVE IInv
  OBVIOUS
<1>1. /\ ledger = <<EmptyStore>> /\ commit = 1 /\ view = 1 /\ writes = 0 /\ confirmed = None
      /\ seen = [m \in Members |-> [c \in Contracts |-> None]]
      /\ call = [m \in Members |-> NoCall]
  BY DEF Init
<1>2. EmptyStore \in Store
  BY BoundsAssumption DEF EmptyStore, Store
<1>3. Len(ledger) = 1 /\ ledger \in Seq(Store) /\ ledger[1] = EmptyStore
  BY <1>1, <1>2
<1>4. \A c \in Contracts : EmptyStore.drafts[c] = None /\ EmptyStore.open[c] = None
                           /\ EmptyStore.accepted[c] = None
  BY DEF EmptyStore
<1>5. NoCall \in Call /\ NoCall.pc = "none"
  BY DEF Call, NoCall
<1>6. TypeOK
  <2>1. call \in [Members -> Call] /\ seen \in [Members -> [Contracts -> Answer \cup {None}]]
    BY <1>1, <1>5
  <2> QED
    BY <1>1, <1>3, <2>1, BoundsAssumption DEF TypeOK
<1>7. \A k \in 1..Len(ledger) : ledger[k] = EmptyStore
  BY <1>3
<1>8. \A c \in Contracts, v \in TxIds, d \in Contents : ~Knows(c, v, d) /\ ~KnowsProposal(c, v, d)
  <2> SUFFICES ASSUME NEW c \in Contracts, NEW v \in TxIds, NEW d \in Contents
               PROVE  ~Knows(c, v, d) /\ ~KnowsProposal(c, v, d)
    OBVIOUS
  <2>1. \A m \in Members : seen[m][c] = None /\ call[m].pc # "propose"
    BY <1>1, <1>5
  <2>2. \A k \in 1..Len(ledger) : /\ ledger[k].drafts[c] = None /\ ledger[k].open[c] = None
                                  /\ ledger[k].accepted[c] = None
    BY <1>4, <1>7
  <2>3. ~Knows(c, v, d)
    BY <2>1, <2>2 DEF Knows
  <2>4. ~KnowsProposal(c, v, d)
    BY <2>1, <2>2 DEF KnowsProposal
  <2> QED
    BY <2>3, <2>4
<1>9. VersionsAgree /\ ProposalsAgree
  BY <1>8 DEF VersionsAgree, ProposalsAgree
<1>10. Backward /\ Meant
  BY <1>4, <1>7, SMTT(30) DEF Backward, Meant
<1>11. Compared /\ Durable
  BY <1>1, <1>5 DEF Compared, Durable
<1> QED
  BY <1>6, <1>9, <1>10, <1>11 DEF IInv

LEMMA NextIInv == IInv /\ [Next]_vars => IInv'
<1> SUFFICES ASSUME IInv, [Next]_vars PROVE IInv'
  OBVIOUS
<1>1. ASSUME NEW m \in Members, NEW c \in Contracts,
             Get(m, c) \/ Put(m, c) \/ CreateProposal(m, c) \/ Vote(m, c)
      PROVE  IInv'
  BY <1>1, GetPreserves, PutPreserves, CreateProposalPreserves, VotePreserves
<1>2. ASSUME NEW m \in Members, SubmitProposal(m) \/ Confirm(m) \/ Fail(m)
      PROVE  IInv'
  BY <1>2, SubmitProposalPreserves, ConfirmPreserves, FailPreserves
<1>3. ASSUME NEW m \in Members, NEW yes \in BOOLEAN, SubmitBallot(m, yes)
      PROVE  IInv'
  BY <1>3, SubmitBallotPreserves
<1>4. CASE Commit \/ Rollback
  BY <1>4, CommitPreserves, RollbackPreserves
<1>5. CASE UNCHANGED vars
  <2>1. TypeOK /\ Backward /\ Compared /\ Meant /\ Durable
    BY DEF IInv
  <2>2. UNCHANGED <<ledger, commit, view, seen, call, writes, confirmed>>
    BY <1>5, SMTT(60) DEF vars
  <2>3. VersionsAgree' /\ ProposalsAgree'
    BY <2>2, HeldIsKnown, QuietAgree, SMTT(30)
  <2>4. TypeOK' /\ Backward' /\ Compared' /\ Meant' /\ Durable'
    BY <2>1, <2>2, ZenonT(30) DEF TypeOK, Backward, Compared, Meant, Durable
  <2> QED
    BY <2>3, <2>4 DEF IInv
<1> QED
  BY <1>1, <1>2, <1>3, <1>4, <1>5 DEF Next

LEMMA IInvImplies == IInv => TypeOK /\ AcceptedWasSeen /\ ConfirmedStays
<1> SUFFICES ASSUME IInv PROVE TypeOK /\ AcceptedWasSeen /\ ConfirmedStays
  OBVIOUS
<1>1. TypeOK /\ Meant /\ Durable
  BY DEF IInv
<1>2. Len(ledger) \in 1..Len(ledger) /\ Len(ledger) \in Nat
  BY <1>1, LedgerEntries
<1>3. AcceptedWasSeen
  BY <1>1, <1>2 DEF Meant, AcceptedWasSeen, store
<1>4. ConfirmedStays
  BY <1>1, <1>2, BoundsAssumption, SMTT(30) DEF Durable, ConfirmedStays, TypeOK, TxIds
<1> QED
  BY <1>1, <1>3, <1>4

\* The ledger, the answers and the requests keep their types: committed
\* transactions stay, and every version shown is one of a transaction.
THEOREM TypeCorrect == Spec => []TypeOK
<1> QED
  BY InitIInv, NextIInv, IInvImplies, PTL DEF Spec

\* For any number of members, contracts, views and writes: a contract is
\* accepted with the content its proposer and every voter have read.
THEOREM AcceptedIsSeen == Spec => []AcceptedWasSeen
<1> QED
  BY InitIInv, NextIInv, IInvImplies, PTL DEF Spec

\* What the client has reported as done survives every change of primary.
THEOREM ConfirmedIsKept == Spec => []ConfirmedStays
<1> QED
  BY InitIInv, NextIInv, IInvImplies, PTL DEF Spec

-----------------------------------------------------------------------------
(***************************************************************************)
(* Drafts implement the register.                                          *)
(***************************************************************************)
DraftData(s) == [i \in Contracts |-> DataOf(s.drafts[i])]
History == [n \in 1..Len(ledger) |-> [i \in Contracts |-> DataOf(ledger[n].drafts[i])]]
Basis == [m \in Members |-> [i \in Contracts |-> DataOf(seen[m][i])]]

LEMMA HistoryIsSequence ==
    ASSUME TypeOK
    PROVE  /\ History \in Seq([Contracts -> Contents \cup {None}])
           /\ Len(History) = Len(ledger)
           /\ \A k \in 1..Len(ledger) : History[k] = DraftData(ledger[k])
           /\ History[Len(ledger)] = DraftData(store)
<1>1. Len(ledger) \in Nat /\ Len(ledger) >= 1
  BY LedgerEntries
<1>2. \A k \in 1..Len(ledger) : DraftData(ledger[k]) \in [Contracts -> Contents \cup {None}]
  <2> SUFFICES ASSUME NEW k \in 1..Len(ledger), NEW i \in Contracts
               PROVE  DataOf(ledger[k].drafts[i]) \in Contents \cup {None}
    BY DEF DraftData
  <2>1. ledger[k].drafts[i] \in Draft \cup {None}
    BY LedgerEntries DEF Store
  <2> QED
    BY <2>1 DEF DataOf, Draft
<1>3. \A k \in 1..Len(ledger) : History[k] = DraftData(ledger[k])
  BY DEF History, DraftData
<1>4. History \in [1..Len(ledger) -> [Contracts -> Contents \cup {None}]]
  BY <1>2 DEF History, DraftData
<1>5. History \in Seq([Contracts -> Contents \cup {None}]) /\ Len(History) = Len(ledger)
  BY <1>1, <1>4
<1> QED
  BY <1>1, <1>3, <1>5 DEF store

LEMMA ExecuteHistory ==
    ASSUME TypeOK, TypeOK', NEW m \in Members, NEW s \in Store, Execute(m, s)
    PROVE  History' = Append(History, DraftData(s))
<1> DEFINE n == Len(ledger)
<1>1. n \in Nat /\ n >= 1 /\ Len(ledger') = n + 1 /\ (\A k \in 1..n : ledger'[k] = ledger[k])
      /\ ledger'[n + 1] = [s EXCEPT !.view = view]
  BY LedgerEntries, ExecuteLedger
<1>2. ledger'[n + 1].drafts = s.drafts
  BY <1>1 DEF Store
<1>3. History' = [k \in 1..n + 1 |-> [i \in Contracts |-> DataOf(ledger'[k].drafts[i])]]
  BY <1>1 DEF History, DataOf
<1>4. \A k \in 1..n : History'[k] = History[k]
  BY <1>1, <1>3 DEF History
<1>5. History'[n + 1] = DraftData(s)
  <2>1. n + 1 \in 1..n + 1
    BY <1>1
  <2>2. History'[n + 1] = [i \in Contracts |-> DataOf(ledger'[n + 1].drafts[i])]
    BY <1>3, <2>1
  <2> QED
    BY <1>2, <2>2 DEF DraftData
<1>6. History \in Seq([Contracts -> Contents \cup {None}]) /\ Len(History) = n
  BY HistoryIsSequence
<1>7. DraftData(s) \in [Contracts -> Contents \cup {None}]
  <2> SUFFICES ASSUME NEW i \in Contracts
               PROVE  DataOf(s.drafts[i]) \in Contents \cup {None}
    BY DEF DraftData
  <2>1. s.drafts[i] \in Draft \cup {None}
    BY DEF Store
  <2> QED
    BY <2>1 DEF DataOf, Draft
<1> DEFINE h == History'
           g == Append(History, DraftData(s))
           S == [Contracts -> Contents \cup {None}]
<1>8. g \in Seq(S) /\ Len(g) = n + 1 /\ g[n + 1] = DraftData(s) /\ \A k \in 1..n : g[k] = History[k]
  BY <1>1, <1>6, <1>7, AppendProperties
<1>9. h \in Seq(S) /\ Len(h) = n + 1
  <2>1. h \in [1..n + 1 -> S]
    <3> SUFFICES ASSUME NEW k \in 1..n + 1 PROVE h[k] \in S
      BY <1>3
    <3>1. k \in 1..n \/ k = n + 1
      BY <1>1
    <3> QED
      BY <1>4, <1>5, <1>6, <1>7, <3>1
  <2> QED
    BY <1>1, <2>1
<1>10. \A k \in 1..n + 1 : h[k] = g[k]
  BY <1>1, <1>4, <1>5, <1>8
<1> HIDE DEF g, h, S
<1>11. h = g
  BY <1>8, <1>9, <1>10, SeqEqual
<1> QED
  BY <1>11 DEF h, g

LEMMA RegisterInit == Init => Register!RegInit
<1> SUFFICES ASSUME Init PROVE Register!RegInit
  OBVIOUS
<1>1. /\ ledger = <<EmptyStore>> /\ commit = 1 /\ writes = 0
      /\ seen = [m \in Members |-> [c \in Contracts |-> None]]
  BY DEF Init
<1>2. TypeOK
  BY InitIInv DEF IInv
<1>3. Len(ledger) = 1 /\ store = EmptyStore
  BY <1>1 DEF store
<1>4. \A i \in Contracts : DataOf(EmptyStore.drafts[i]) = None
  BY DEF EmptyStore, DataOf
<1>5. DraftData(EmptyStore) = [i \in Contracts |-> None]
  BY <1>4 DEF DraftData
<1>6. History \in Seq([Contracts -> Contents \cup {None}]) /\ Len(History) = 1
      /\ History[1] = [i \in Contracts |-> None]
  BY <1>2, <1>3, <1>5, HistoryIsSequence
<1>7. History = <<[i \in Contracts |-> None]>>
  <2> DEFINE e == [i \in Contracts |-> None]
             S == [Contracts -> Contents \cup {None}]
  <2>1. e \in S
    OBVIOUS
  <2>2. History \in Seq(S) /\ Len(History) = 1 /\ History[1] = e
    BY <1>6
  <2> HIDE DEF e, S
  <2>3. <<e>> \in Seq(S) /\ Len(<<e>>) = 1 /\ <<e>>[1] = e
    BY <2>1
  <2>4. \A k \in 1..Len(History) : History[k] = <<e>>[k]
    BY <2>2, <2>3
  <2>5. History = <<e>>
    BY <2>2, <2>3, <2>4, SeqEqual
  <2> QED
    BY <2>5 DEF e
<1>8. Basis = [m \in Members |-> [i \in Contracts |-> None]]
  BY <1>1 DEF Basis, DataOf
<1>9. 1..writes = {}
  BY <1>1, SMTT(30)
<1> QED
  BY <1>1, <1>7, <1>8, <1>9 DEF Register!RegInit, History, Basis

\* A request that leaves the drafts alone is another transaction.
LEMMA ExecuteIsOther ==
    ASSUME TypeOK, TypeOK', NEW m \in Members, NEW s \in Store, Execute(m, s),
           s.drafts = store.drafts, writes' = writes
    PROVE  Register!Other
<1>1. History' = Append(History, DraftData(s))
  BY ExecuteHistory
<1>2. DraftData(s) = History[Len(History)]
  BY HistoryIsSequence DEF DraftData
<1>3. commit' = commit /\ seen' = seen
  BY DEF Execute
<1>4. Basis' = Basis /\ (1..writes)' = 1..writes
  BY <1>3 DEF Basis
<1> QED
  BY <1>1, <1>2, <1>3, <1>4 DEF Register!Other, History, Basis

\* The member that puts a draft has read the content it replaces.
LEMMA PutIsWrite ==
    ASSUME IInv, IInv', NEW m \in Members, NEW c \in Contracts, Put(m, c)
    PROVE  Register!Write(m, c)
<1> DEFINE s == [store EXCEPT !.drafts[c] = [data |-> writes + 1, seqno |-> Len(ledger) + 1]]
<1>0. TypeOK /\ TypeOK' /\ VersionsAgree
  BY DEF IInv
<1>1. Execute(m, s) /\ VersionGiven(m, c) /\ writes' = writes + 1 /\ writes < MaxWrites
  BY DEF Put
<1>2. store \in Store /\ writes \in Nat
  BY <1>0, LedgerEntries DEF TypeOK
<1>3. writes + 1 \in Contents /\ Len(ledger) + 1 \in 2..MaxSeqno
  BY <1>0, <1>1, <1>2, LedgerEntries, BoundsAssumption DEF Contents, Execute
<1>4. s \in Store /\ s.drafts = [store.drafts EXCEPT ![c] = [data |-> writes + 1, seqno |-> Len(ledger) + 1]]
  BY <1>2, <1>3 DEF Store, Draft
<1>5. DataOf(s.drafts[c]) = writes + 1
  <2>1. s.drafts[c] = [data |-> writes + 1, seqno |-> Len(ledger) + 1]
    BY <1>2, <1>4 DEF Store
  <2>2. s.drafts[c] # None
    BY <1>3, <2>1, NoneAssumption DEF Draft
  <2> QED
    BY <2>1, <2>2 DEF DataOf
<1>6. DraftData(s) = [DraftData(store) EXCEPT ![c] = writes + 1]
  <2>1. \A i \in Contracts : i # c => s.drafts[i] = store.drafts[i]
    BY <1>2, <1>4 DEF Store
  <2> HIDE DEF s
  <2> QED
    BY <1>5, <2>1, ZenonT(30) DEF DraftData
<1> HIDE DEF s
<1>7. History' = Append(History, [History[Len(History)] EXCEPT ![c] = writes + 1])
  <2>1. History' = Append(History, DraftData(s))
    BY <1>0, <1>1, <1>4, ExecuteHistory
  <2>2. History[Len(History)] = DraftData(store)
    BY <1>0, HistoryIsSequence
  <2> QED
    BY <1>6, <2>1, <2>2
<1>8. History[Len(History)][c] = None \/ History[Len(History)][c] = Basis[m][c]
  <2>1. History[Len(History)][c] = DataOf(store.drafts[c]) /\ Basis[m][c] = DataOf(seen[m][c])
    BY <1>0, HistoryIsSequence DEF DraftData, Basis
  <2>2. CASE store.drafts[c] = None
    BY <2>1, <2>2 DEF DataOf
  <2>3. CASE store.drafts[c] # None
    <3> DEFINE v == Version(store.drafts[c].seqno)
               d == store.drafts[c].data
               e == seen[m][c].data
    <3>1. seen[m][c] # None /\ seen[m][c].version = v
      BY <1>1, <2>3, SMTT(30) DEF VersionGiven
    <3>2. v \in TxIds /\ d \in Contents /\ Knows(c, v, d)
      BY <2>3, StoreMeant, SMTT(30) DEF Draft
    <3>3. e \in Contents
      BY <1>0, <3>1, SMTT(30) DEF TypeOK, Answer
    <3>4. Knows(c, v, e)
      BY <3>1, HeldIsKnown
    <3> HIDE DEF v, d, e
    <3>5. d = e
      BY <1>0, <3>2, <3>3, <3>4 DEF VersionsAgree
    <3> QED
      BY <2>1, <2>3, <3>1, <3>5 DEF DataOf, d, e
  <2> QED
    BY <2>2, <2>3, SMTT(60)
<1>9. commit' = commit /\ seen' = seen
  BY <1>1 DEF Execute
<1>10. Basis' = Basis
  BY <1>9 DEF Basis
<1>11. writes + 1 \in Contents \ (1..writes) /\ 1..writes' = (1..writes) \cup {writes + 1}
  BY <1>1, <1>2, <1>3
<1> QED
  BY <1>7, <1>8, <1>9, <1>10, <1>11, ZenonT(30) DEF Register!Write, Register!Current, History, Basis

LEMMA GetIsRead ==
    ASSUME IInv, NEW m \in Members, NEW c \in Contracts, Get(m, c)
    PROVE  Register!Read(m, c)
<1> DEFINE a == GetContract(c)
<1>0. TypeOK /\ VersionsAgree /\ Backward
  BY DEF IInv
<1>1. /\ a # None /\ seen' = [seen EXCEPT ![m][c] = a]
      /\ UNCHANGED <<ledger, commit, writes>>
  BY DEF Get
<1>2. a \in Answer /\ Knows(c, a.version, a.data)
  BY <1>0, <1>1, AnswerIsKnown
<1> HIDE DEF a
<1>3. a.data \in 1..writes
  <2>1. a.version \in TxIds /\ a.data \in Contents
    BY <1>2 DEF Answer
  <2>2. a.data <= writes
    BY <1>0, <1>2, <2>1 DEF VersionsAgree
  <2> QED
    BY <1>0, <2>1, <2>2 DEF Contents, TypeOK
<1>4. Basis' = [Basis EXCEPT ![m][c] = a.data]
  <2>1. \A p \in Members, i \in Contracts :
          seen'[p][i] = IF p = m /\ i = c THEN a ELSE seen[p][i]
    BY <1>0, <1>1 DEF TypeOK
  <2>2. DataOf(a) = a.data
    BY <1>1 DEF DataOf
  <2>3. \A p \in Members, i \in Contracts :
          DataOf(seen'[p][i]) = IF p = m /\ i = c THEN a.data ELSE DataOf(seen[p][i])
    BY <2>1, <2>2
  <2>4. Basis' = [p \in Members |-> [i \in Contracts |-> DataOf(seen'[p][i])]]
    BY DEF Basis, DataOf
  <2>5. \A p \in Members :
          [i \in Contracts |-> DataOf(seen'[p][i])]
            = IF p = m THEN [Basis[m] EXCEPT ![c] = a.data] ELSE Basis[p]
    BY <2>3, SMTT(30) DEF Basis
  <2>6. Basis' = [p \in Members |-> IF p = m THEN [Basis[m] EXCEPT ![c] = a.data] ELSE Basis[p]]
    BY <2>4, <2>5
  <2> QED
    BY <2>6, ZenonT(30) DEF Basis
<1>5. History' = History
  BY <1>1 DEF History
<1> QED
  BY <1>1, <1>3, <1>4, <1>5, ZenonT(30) DEF Register!Read, History, Basis

LEMMA RollbackIsLose ==
    ASSUME IInv, IInv', Rollback
    PROVE  Register!Lose
<1>0. TypeOK /\ TypeOK'
  BY DEF IInv
<1>1. PICK n \in commit..Len(ledger) : ledger' = SubSeq(ledger, 1, n)
  BY DEF Rollback
<1>2. UNCHANGED <<commit, seen, writes>>
  BY DEF Rollback
<1>3. /\ ledger \in Seq(Store) /\ Len(ledger) \in Nat /\ n \in Nat /\ n >= 1 /\ n <= Len(ledger)
  BY <1>0, LedgerEntries DEF TypeOK
<1>4. Len(ledger') = n /\ \A k \in 1..n : ledger'[k] = ledger[k]
  BY <1>1, <1>3
<1> DEFINE S == [Contracts -> Contents \cup {None}]
           h == History'
           g == SubSeq(History, 1, n)
<1>5. History \in Seq(S) /\ Len(History) = Len(ledger)
      /\ \A k \in 1..Len(ledger) : History[k] = DraftData(ledger[k])
  BY <1>0, HistoryIsSequence
<1>6. h \in Seq(S) /\ Len(h) = n /\ \A k \in 1..n : h[k] = [i \in Contracts |-> DataOf(ledger'[k].drafts[i])]
  <2>1. h = [k \in 1..n |-> [i \in Contracts |-> DataOf(ledger'[k].drafts[i])]]
    BY <1>4 DEF History, DataOf
  <2>2. \A k \in 1..n : h[k] = History[k]
    BY <1>3, <1>4, <1>5, <2>1, SMTT(30) DEF DraftData
  <2>3. \A k \in 1..n : h[k] \in S
    BY <1>3, <1>5, <2>2
  <2>4. h \in [1..n -> S]
    BY <2>1, <2>3
  <2> QED
    BY <1>3, <2>1, <2>4
<1>7. g \in Seq(S) /\ Len(g) = n /\ \A k \in 1..n : g[k] = History[k]
  BY <1>3, <1>5
<1>8. \A k \in 1..n : h[k] = g[k]
  BY <1>3, <1>4, <1>5, <1>6, <1>7 DEF DraftData
<1> HIDE DEF S, h, g
<1>9. h = g
  BY <1>6, <1>7, <1>8, SeqEqual
<1>10. Basis' = Basis
  BY <1>2 DEF Basis
<1>11. History' = SubSeq(History, 1, n)
  BY <1>9 DEF h, g
<1> QED
  BY <1>1, <1>2, <1>5, <1>10, <1>11, SMTT(30) DEF Register!Lose, History, Basis

LEMMA CommitIsMakeDurable ==
    ASSUME Commit
    PROVE  Register!MakeDurable \/ ~TypeOK
<1> SUFFICES ASSUME TypeOK PROVE Register!MakeDurable
  OBVIOUS
<1>1. commit' \in commit + 1..Len(ledger) /\ UNCHANGED <<ledger, seen, writes>>
  BY SMTT(30) DEF Commit
<1>2. History' = History /\ Basis' = Basis /\ Len(History) = Len(ledger)
  BY <1>1, HistoryIsSequence DEF History, Basis
<1> QED
  BY <1>1, <1>2 DEF Register!MakeDurable, History, Basis

LEMMA ProposedStore ==
    ASSUME IInv, NEW m \in Members, SubmitProposal(m)
    PROVE  LET s == Proposed(m, call[m].contract, call[m].read)
           IN  s \in Store /\ s.drafts = store.drafts
<1> DEFINE c == call[m].contract
           r == call[m].read
           s == Proposed(m, c, r)
           o == [proposalId |-> NextTx, data |-> r.data, version |-> r.version,
                 intended |-> seen[m][c].data, ballots |-> [n \in Members |-> None]]
<1>0. TypeOK /\ Compared /\ store \in Store
  BY LedgerEntries DEF IInv
<1>1. call[m].pc = "propose" /\ Len(ledger) < MaxSeqno
  BY DEF SubmitProposal, Execute
<1>2. c \in Contracts /\ r \in Answer
  BY <1>0, <1>1, SMTT(30) DEF TypeOK, Call, NoCall
<1>3. seen[m][c] \in Answer
  BY <1>0, <1>1, <1>2 DEF Compared, TypeOK
<1>4. NextTx \in TxIds
  BY <1>0, <1>1, LedgerEntries, BoundsAssumption, SMTT(30) DEF NextTx, TxIds, TypeOK
<1>5. o \in OpenProposal
  BY <1>2, <1>3, <1>4 DEF OpenProposal, Ballots, Answer
<1>6. s = store \/ s = [store EXCEPT !.open[c] = o]
  BY DEF Proposed
<1> HIDE DEF o, c, r, s
<1>7. s \in Store /\ s.drafts = store.drafts
  BY <1>0, <1>5, <1>6 DEF Store
<1> QED
  BY <1>7 DEF s, c, r

LEMMA VotedStore ==
    ASSUME IInv, NEW m \in Members, NEW yes \in BOOLEAN, SubmitBallot(m, yes)
    PROVE  LET s == Voted(m, call[m].contract, yes)
           IN  s \in Store /\ s.drafts = store.drafts
<1> DEFINE c == call[m].contract
           o == store.open[c]
           b == [o.ballots EXCEPT ![m] = seen[m][c].data]
           a == [proposalId |-> o.proposalId, data |-> o.data, intended |-> o.intended,
                 finalVotes |-> b, seqno |-> Len(ledger) + 1]
           oo == [o EXCEPT !.ballots = b]
           s == Voted(m, c, yes)
<1> SUFFICES s \in Store /\ s.drafts = store.drafts
  OBVIOUS
<1>0. TypeOK /\ Compared /\ store \in Store
  BY LedgerEntries, SMTT(30) DEF IInv
<1>1. call[m].pc = "vote" /\ Len(ledger) < MaxSeqno /\ o # None
  BY DEF SubmitBallot, Execute
<1>2. c \in Contracts
  BY <1>0, <1>1, SMTT(30) DEF TypeOK, Call, NoCall
<1>3. seen[m][c] \in Answer /\ o \in OpenProposal
  BY <1>0, <1>1, <1>2, SMTT(30) DEF Compared, TypeOK, Store
<1>4. b \in Ballots
  BY <1>3 DEF OpenProposal, Ballots, Answer
<1>5. Len(ledger) + 1 \in 2..MaxSeqno
  BY <1>0, <1>1, LedgerEntries, BoundsAssumption
<1> HIDE DEF b
<1>6. a \in AcceptedItem /\ oo \in OpenProposal
  BY <1>3, <1>4, <1>5 DEF AcceptedItem, OpenProposal
<1>7. \/ s = [store EXCEPT !.open[c] = None]
      \/ s = [store EXCEPT !.open[c].ballots = b]
      \/ s = [store EXCEPT !.open[c] = None, !.accepted[c] = a]
  BY ZenonT(30) DEF Voted, b
<1>8. [store EXCEPT !.open[c].ballots = b] = [store EXCEPT !.open[c] = oo]
  BY <1>0, <1>2 DEF Store
<1> HIDE DEF a, oo, o, c, s
<1>9. \A e \in OpenProposal \cup {None} :
        [store EXCEPT !.open[c] = e] \in Store /\ [store EXCEPT !.open[c] = e].drafts = store.drafts
  BY <1>0 DEF Store
<1>10. ASSUME NEW s1 \in Store
       PROVE  [s1 EXCEPT !.accepted[c] = a] \in Store /\ [s1 EXCEPT !.accepted[c] = a].drafts = s1.drafts
  BY <1>6 DEF Store
<1>11. CASE s = [store EXCEPT !.open[c] = None, !.accepted[c] = a]
  BY <1>9, <1>10, <1>11, ZenonT(30)
<1>12. CASE s = [store EXCEPT !.open[c] = oo]
  BY <1>6, <1>9, <1>12
<1>13. CASE s = [store EXCEPT !.open[c] = None]
  BY <1>9, <1>13
<1> QED
  BY <1>7, <1>8, <1>11, <1>12, <1>13

LEMMA RegisterStep ==
    ASSUME IInv, IInv', [Next]_vars
    PROVE  [Register!RegNext]_Register!regVars
<1>0. TypeOK /\ TypeOK'
  BY DEF IInv
<1>1. ASSUME UNCHANGED <<ledger, commit, seen, writes>>
      PROVE  UNCHANGED Register!regVars
  BY <1>1 DEF Register!regVars
<1>2. ASSUME NEW m \in Members, NEW c \in Contracts, Get(m, c)
      PROVE  Register!RegNext
  BY <1>2, GetIsRead DEF Register!RegNext
<1>3. ASSUME NEW m \in Members, NEW c \in Contracts, Put(m, c)
      PROVE  Register!RegNext
  BY <1>3, PutIsWrite, SMTT(30) DEF Register!RegNext
<1>4. ASSUME NEW m \in Members, NEW c \in Contracts, CreateProposal(m, c) \/ Vote(m, c)
      PROVE  UNCHANGED Register!regVars
  BY <1>1, <1>4 DEF CreateProposal, Vote
<1>5. ASSUME NEW m \in Members, Confirm(m) \/ Fail(m)
      PROVE  UNCHANGED Register!regVars
  BY <1>1, <1>5 DEF Confirm, Fail
<1>6. ASSUME NEW m \in Members, SubmitProposal(m)
      PROVE  Register!RegNext
  <2> DEFINE s == Proposed(m, call[m].contract, call[m].read)
  <2>1. Execute(m, s) /\ writes' = writes
    BY <1>6 DEF SubmitProposal
  <2>2. s \in Store /\ s.drafts = store.drafts
    BY <1>6, ProposedStore
  <2> HIDE DEF s
  <2> QED
    BY <1>0, <2>1, <2>2, ExecuteIsOther DEF Register!RegNext
<1>7. ASSUME NEW m \in Members, NEW yes \in BOOLEAN, SubmitBallot(m, yes)
      PROVE  Register!RegNext
  <2> DEFINE s == Voted(m, call[m].contract, yes)
  <2>1. Execute(m, s) /\ writes' = writes
    BY <1>7 DEF SubmitBallot
  <2>2. s \in Store /\ s.drafts = store.drafts
    BY <1>7, VotedStore
  <2> HIDE DEF s
  <2> QED
    BY <1>0, <2>1, <2>2, ExecuteIsOther DEF Register!RegNext
<1>8. CASE Commit
  BY <1>0, <1>8, CommitIsMakeDurable DEF Register!RegNext
<1>9. CASE Rollback
  BY <1>9, RollbackIsLose DEF Register!RegNext
<1>10. CASE UNCHANGED vars
  BY <1>1, <1>10 DEF vars
<1> QED
  BY <1>2, <1>3, <1>4, <1>5, <1>6, <1>7, <1>8, <1>9, <1>10 DEF Next

\* Drafts implement the register for any members, contracts and bounds: a draft
\* is replaced only by a member that has read the content it replaces, whatever
\* was rolled back in between.
THEOREM DraftsAreRegisters == Spec => ImplementsRegister
<1>1. Spec => []IInv
  BY InitIInv, NextIInv, PTL DEF Spec
<1>2. IInv /\ IInv' /\ [Next]_vars => [Register!RegNext]_Register!regVars
  BY RegisterStep
<1> QED
  BY <1>1, <1>2, RegisterInit, PTL DEF Spec, ImplementsRegister, Register!RegSpec
=============================================================================
