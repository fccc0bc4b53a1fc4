------------------------ MODULE CgsGovernance_proofs ------------------------
(***************************************************************************)
(* Proofs about CgsGovernance, for any members, proposals and catalog.     *)
(***************************************************************************)
EXTENDS CgsGovernance, FiniteSetTheorems, WellFoundedInduction, TLAPS

(***************************************************************************)
(* Facts about the operators.                                              *)
(***************************************************************************)

\* The largest of the positions that write a key is one of them.
LEMMA MaxInSet ==
  ASSUME NEW n \in Nat, NEW S \in SUBSET (1 .. n), S # {}
  PROVE  Max(S) \in S
<1> DEFINE Below == {n - i : i \in S}
           Less == {ss \in Nat \X Nat : ss[1] < ss[2]}
<1>1. Below \subseteq Nat /\ Below # {}
  <2>1. \A i \in S : n - i \in Nat
    OBVIOUS
  <2>2. PICK i \in S : TRUE
    OBVIOUS
  <2> QED BY <2>1, <2>2
<1>2. IsWellFoundedOn(Less, Nat)
  BY NatLessThanWellFounded DEF OpToRel
<1>3. \E x \in Below : \A y \in Below : ~(<<y, x>> \in Less)
  <2> HIDE DEF Less, Below
  <2> QED BY <1>1, <1>2, WFMin
<1>4. PICK x \in Below : \A y \in Below : ~(y < x)
  BY <1>1, <1>3
<1>5. PICK i \in S : x = n - i
  OBVIOUS
<1>6. \A j \in S : i >= j
  BY <1>4, <1>5
<1> QED BY <1>6 DEF Max

\* The actions on members and of operators write none of the tables.
LEMMA TableNames ==
  /\ DOMAIN TableOf =
       {"set_contract", "set_member_document", "set_deployment_spec",
        "set_deployment_info", "set_contract_runtime_options_enable_logging",
        "set_contract_runtime_options_disable_logging",
        "set_contract_runtime_options_enable_telemetry",
        "set_contract_runtime_options_disable_telemetry",
        "set_cgs_runtime_options", "set_constitution", "set_js_app"}
  /\ {"set_member", "set_member_data", "remove_member"} \cap DOMAIN TableOf = {}
  /\ OperatorActions \cap DOMAIN TableOf = {}
  /\ OperatorActions \cap {"set_member", "set_member_data", "remove_member"} = {}
BY DEF TableOf, OperatorActions

\* Only set_contract and set_member_document write the tables whose items
\* carry the votes.
LEMMA KeepsVotesTables ==
  /\ TableOf["set_contract"] = "accepted_contracts"
  /\ TableOf["set_member_document"] = "accepted_member_documents"
  /\ \A n \in DOMAIN TableOf :
       /\ n # "set_contract" => TableOf[n] # "accepted_contracts"
       /\ n # "set_member_document" => TableOf[n] # "accepted_member_documents"
<1>1. TableOf["set_contract"] = "accepted_contracts"
  BY DEF TableOf
<1>2. TableOf["set_member_document"] = "accepted_member_documents"
  BY DEF TableOf
<1>3. ASSUME NEW n \in DOMAIN TableOf, n # "set_contract"
      PROVE  TableOf[n] # "accepted_contracts"
  BY <1>3 DEF TableOf
<1>4. ASSUME NEW n \in DOMAIN TableOf, n # "set_member_document"
      PROVE  TableOf[n] # "accepted_member_documents"
  BY <1>4 DEF TableOf
<1> QED BY <1>1, <1>2, <1>3, <1>4

\* What members propose is a sequence of well-formed actions.
LEMMA ProposalWellFormed ==
  ASSUME NEW acts, IsProposal(acts)
  PROVE  /\ Len(acts) \in Nat
         /\ DOMAIN acts = 1 .. Len(acts)
         /\ \A i \in DOMAIN acts : WellFormed(acts[i])
<1>1. CASE acts = <<>>
  BY <1>1
<1>2. ASSUME NEW k \in DOMAIN Catalog, acts = Catalog[k]
      PROVE  /\ Len(acts) \in Nat
             /\ DOMAIN acts = 1 .. Len(acts)
             /\ \A i \in DOMAIN acts : WellFormed(acts[i])
  <2>1. acts \in Seq(Range(acts)) /\ \A a \in Range(acts) : WellFormed(a)
    BY <1>2, CatalogAssumption
  <2>2. \A i \in DOMAIN acts : acts[i] \in Range(acts)
    BY DEF Range
  <2> QED BY <2>1, <2>2
<1> QED BY <1>1, <1>2 DEF IsProposal

\* set_member and remove_member leave every member with a status.
LEMMA StatusAfterType ==
  ASSUME TypeOK, NEW acts, NEW n, NEW m \in Members
  PROVE  StatusAfter(acts, n, m) \in Status
BY DEF StatusAfter, TypeOK, Status

\* The member data a proposal writes are operator roles.
LEMMA MemberDataAreRoles ==
  ASSUME NEW a, WellFormed(a), a.name \in {"set_member", "set_member_data"}
  PROVE  a.data \in SUBSET Role
BY TableNames DEF WellFormed

\* The roles of a member are those of the last action that writes them.
LEMMA RolesAfterType ==
  ASSUME TypeOK, NEW acts, IsProposal(acts), NEW m \in Members
  PROVE  RolesAfter(acts, Len(acts), m) \in SUBSET Role
<1> DEFINE Names == {"set_member", "set_member_data", "remove_member"}
           writes == {i \in 1 .. Len(acts) : acts[i].name \in Names /\ acts[i].id = m}
<1>1. CASE writes = {}
  BY <1>1 DEF RolesAfter, TypeOK
<1>2. CASE writes # {}
  <2>1. Len(acts) \in Nat /\ \A i \in 1 .. Len(acts) : WellFormed(acts[i])
    BY ProposalWellFormed
  <2>2. Max(writes) \in writes
    BY <1>2, <2>1, MaxInSet
  <2>3. acts[Max(writes)].name # "remove_member" => acts[Max(writes)].data \in SUBSET Role
    <3>1. WellFormed(acts[Max(writes)]) /\ acts[Max(writes)].name \in Names
      BY <2>1, <2>2
    <3> QED BY <3>1, MemberDataAreRoles
  <2> QED BY <1>2, <2>3 DEF RolesAfter
<1> QED BY <1>1, <1>2

\* A table holds what its actions store.
LEMMA TablesAfterType ==
  ASSUME TypeOK, NEW acts, IsProposal(acts), NEW p \in ProposalIds,
         NEW ballots \in [Members -> Vote],
         NEW t \in Tables, NEW id \in Ids
  PROVE  TablesAfter(acts, p, ballots)[t][id] \in {Absent} \cup ItemsOf(t)
<1> DEFINE writes == {i \in DOMAIN acts : /\ acts[i].name \in DOMAIN TableOf
                                          /\ TableOf[acts[i].name] = t
                                          /\ acts[i].id = id}
<1>1. CASE writes = {}
  BY <1>1 DEF TablesAfter, TypeOK
<1>2. CASE writes # {}
  <2> DEFINE a == acts[Max(writes)]
  <2>1. /\ Len(acts) \in Nat
        /\ DOMAIN acts = 1 .. Len(acts)
        /\ \A i \in DOMAIN acts : WellFormed(acts[i])
    BY ProposalWellFormed, SMTT(60)
  <2>2. Max(writes) \in writes
    BY <1>2, <2>1, MaxInSet
  <2>3. WellFormed(a) /\ a.name \in DOMAIN TableOf /\ TableOf[a.name] = t
    BY <2>1, <2>2
  <2>4. TablesAfter(acts, p, ballots)[t][id] = StoredItem(a, p, ballots)
    BY <1>2 DEF TablesAfter
  <2> HIDE DEF a
  <2>5. a.data \in Data
    BY <2>3, TableNames DEF WellFormed
  <2>6. StoredItem(a, p, ballots) \in ItemsOf(t)
    BY <2>3, <2>5, KeepsVotesTables, ConstantsAssumption
       DEF StoredItem, ItemsOf, AcceptedItem, KeepsVotes
  <2> QED BY <2>4, <2>6
<1> QED BY <1>1, <1>2

-----------------------------------------------------------------------------
(***************************************************************************)
(* Type correctness.                                                       *)
(***************************************************************************)

LEMMA InitTypeOK == Init => TypeOK
<1> SUFFICES ASSUME Init PROVE TypeOK
  OBVIOUS
<1>1. proposalsInfo \in [ProposalIds -> ProposalInfo]
  BY DEF Init, EmptyInfo, ProposalInfo, ProposalState, Vote
<1> QED BY <1>1, ConstantsAssumption DEF Init, TypeOK, IsProposal

\* The tables a request settles differ from the current ones only at p, which
\* is open in them.
SettlesOnly(P, info, p) ==
  /\ DOMAIN P = ProposalIds
  /\ \A q \in ProposalIds : IsProposal(P[q])
  /\ info \in [ProposalIds -> ProposalInfo]
  /\ info[p].state = "Open"
  /\ \A q \in ProposalIds \ {p} :
       P[q] = proposals[q] /\ info[q].state = proposalsInfo[q].state

\* Creating a proposal and submitting a ballot do so.
LEMMA CreateTables ==
  ASSUME TypeOK, NEW m \in Members, NEW k \in DOMAIN Catalog, NEW p \in ProposalIds,
         NEW P, P = [proposals EXCEPT ![p] = Catalog[k]],
         NEW info,
         info = [proposalsInfo EXCEPT ![p] = [EmptyInfo("Open") EXCEPT !.proposerId = m]]
  PROVE  SettlesOnly(P, info, p)
<1>1. [EmptyInfo("Open") EXCEPT !.proposerId = m] \in ProposalInfo
  BY DEF EmptyInfo, ProposalInfo, ProposalState, Vote
<1>2. [EmptyInfo("Open") EXCEPT !.proposerId = m].state = "Open"
  BY DEF EmptyInfo
<1>3. /\ info \in [ProposalIds -> ProposalInfo]
      /\ info[p].state = "Open"
      /\ \A q \in ProposalIds \ {p} : info[q].state = proposalsInfo[q].state
  BY <1>1, <1>2 DEF TypeOK
<1>4. /\ DOMAIN P = ProposalIds
      /\ \A q \in ProposalIds : IsProposal(P[q])
      /\ \A q \in ProposalIds \ {p} : P[q] = proposals[q]
  BY DEF TypeOK, IsProposal
<1> QED BY <1>3, <1>4 DEF SettlesOnly

LEMMA BallotTables ==
  ASSUME TypeOK, NEW m \in Members, NEW p \in ProposalIds, NEW v \in {"yes", "no"},
         proposalsInfo[p].state = "Open",
         NEW info, info = [proposalsInfo EXCEPT ![p].ballots[m] = v]
  PROVE  SettlesOnly(proposals, info, p)
<1>1. /\ info \in [ProposalIds -> ProposalInfo]
      /\ \A q \in ProposalIds : info[q].state = proposalsInfo[q].state
  BY ZenonT(60) DEF TypeOK, ProposalInfo, Vote
<1> QED BY <1>1 DEF SettlesOnly, TypeOK

\* Settling the tables keeps them well typed.
LEMMA SettleTypeOK ==
  ASSUME TypeOK, NEW p \in ProposalIds, NEW P, NEW info,
         SettlesOnly(P, info, p), Settle(P, info, p)
  PROVE  TypeOK'
<1> DEFINE outcome == Resolve(P, info, p)
           decided == [info EXCEPT ![p].state = outcome]
<1> SUFFICES ASSUME DOMAIN P = ProposalIds,
                    \A q \in ProposalIds : IsProposal(P[q]),
                    info \in [ProposalIds -> ProposalInfo]
             PROVE  TypeOK'
  BY DEF SettlesOnly
<1>1. CASE /\ outcome = "Open"
           /\ proposals' = P
           /\ proposalsInfo' = info
           /\ UNCHANGED <<memberStatus, memberRoles, kv>>
  BY <1>1 DEF TypeOK
<1> HIDE DEF outcome
<1>2. ASSUME outcome \in {"Rejected", "Accepted"}
      PROVE  /\ decided \in [ProposalIds -> ProposalInfo]
             /\ PrunedInfo(decided, p) \in [ProposalIds -> ProposalInfo]
             /\ DOMAIN PrunedProposals(P, decided, p) = ProposalIds
             /\ \A q \in ProposalIds : IsProposal(PrunedProposals(P, decided, p)[q])
             /\ PrunedInfo(decided, p)[p].ballots = info[p].ballots
  <2>1. decided \in [ProposalIds -> ProposalInfo]
    BY <1>2 DEF ProposalInfo, ProposalState
  <2>2. decided[p].ballots = info[p].ballots
    BY DEF ProposalInfo
  <2> HIDE DEF decided
  <2>3. EmptyInfo("Pruned") \in ProposalInfo
    BY DEF EmptyInfo, ProposalInfo, ProposalState, Vote
  <2>4. PrunedInfo(decided, p) \in [ProposalIds -> ProposalInfo]
    BY <2>1, <2>3 DEF PrunedInfo
  <2>5. PrunedInfo(decided, p)[p].ballots = info[p].ballots
    BY <2>2 DEF PrunedInfo, Keeps
  <2> QED BY <2>1, <2>4, <2>5 DEF PrunedProposals, IsProposal
<1>3. CASE /\ outcome = "Rejected"
           /\ proposals' = PrunedProposals(P, decided, p)
           /\ proposalsInfo' = PrunedInfo(decided, p)
           /\ UNCHANGED <<memberStatus, memberRoles, kv>>
  <2> HIDE DEF decided
  <2> QED BY <1>2, <1>3 DEF TypeOK
<1>4. CASE /\ outcome = "Accepted"
           /\ proposals' = PrunedProposals(P, decided, p)
           /\ apply(P[p], PrunedInfo(decided, p), p)
  <2> DEFINE pruned == PrunedInfo(decided, p)
  <2>1. /\ pruned \in [ProposalIds -> ProposalInfo]
        /\ pruned[p].ballots \in [Members -> Vote]
    BY <1>2, <1>4 DEF ProposalInfo
  <2> HIDE DEF decided
  <2>2. memberStatus' \in [Members -> Status]
    BY <1>4, StatusAfterType DEF apply
  <2>3. memberRoles' \in [Members -> SUBSET Role]
    BY <1>4, RolesAfterType DEF apply
  <2>4. proposalsInfo' \in [ProposalIds -> ProposalInfo]
    <3> HIDE DEF pruned
    <3>1. invalidateOtherOpenProposals(pruned, p) \in [ProposalIds -> ProposalInfo]
      BY <2>1, SMTT(60) DEF invalidateOtherOpenProposals, ProposalInfo, ProposalState
    <3> QED BY <1>4, <2>1, <3>1 DEF apply, pruned
  <2>5. DOMAIN kv' = Tables /\ \A t \in Tables : kv'[t] \in [Ids -> {Absent} \cup ItemsOf(t)]
    <3> DEFINE T == TablesAfter(P[p], p, pruned[p].ballots)
    <3>1. \A t \in Tables, id \in Ids : T[t][id] \in {Absent} \cup ItemsOf(t)
      BY <2>1, TablesAfterType
    <3>2. DOMAIN T = Tables /\ \A t \in Tables : T[t] = [id \in Ids |-> T[t][id]]
      BY DEF TablesAfter
    <3>3. kv' = T
      BY <1>4 DEF apply
    <3> HIDE DEF T
    <3> QED BY <3>1, <3>2, <3>3
  <2> QED BY <1>2, <1>4, <2>2, <2>3, <2>4, <2>5 DEF TypeOK
<1> QED BY <1>1, <1>3, <1>4 DEF Settle, outcome

\* Withdrawing a proposal takes it off the open ones and prunes the others.
LEMMA WithdrawTypeOK ==
  ASSUME TypeOK, NEW m \in Members, NEW p \in ProposalIds, WithdrawProposal(m, p)
  PROVE  TypeOK'
<1> DEFINE withdrawn == [proposalsInfo EXCEPT ![p].state = "Withdrawn"]
<1>1. withdrawn \in [ProposalIds -> ProposalInfo]
  BY DEF TypeOK, ProposalInfo, ProposalState
<1>2. EmptyInfo("Pruned") \in ProposalInfo
  BY DEF EmptyInfo, ProposalInfo, ProposalState, Vote
<1>3. /\ proposals' = PrunedProposals(proposals, withdrawn, p)
      /\ proposalsInfo' = PrunedInfo(withdrawn, p)
      /\ UNCHANGED <<memberStatus, memberRoles, kv>>
  BY DEF WithdrawProposal
<1> HIDE DEF withdrawn
<1>4. proposalsInfo' \in [ProposalIds -> ProposalInfo]
  BY <1>1, <1>2, <1>3 DEF PrunedInfo
<1>5. DOMAIN proposals' = ProposalIds /\ \A q \in ProposalIds : IsProposal(proposals'[q])
  BY <1>3 DEF TypeOK, PrunedProposals, IsProposal
<1> QED BY <1>3, <1>4, <1>5 DEF TypeOK

LEMMA NextTypeOK == TypeOK /\ [Next]_vars => TypeOK'
<1> SUFFICES ASSUME TypeOK, [Next]_vars PROVE TypeOK'
  OBVIOUS
<1>1. ASSUME NEW m \in Members, NEW k \in DOMAIN Catalog, NEW p \in ProposalIds,
             CreateProposal(m, k, p)
      PROVE  TypeOK'
  BY <1>1, CreateTables, SettleTypeOK DEF CreateProposal
<1>2. ASSUME NEW m \in Members, NEW p \in ProposalIds, NEW v \in {"yes", "no"},
             SubmitBallot(m, p, v)
      PROVE  TypeOK'
  BY <1>2, BallotTables, SettleTypeOK DEF SubmitBallot
<1>3. ASSUME NEW m \in Members, NEW p \in ProposalIds, WithdrawProposal(m, p)
      PROVE  TypeOK'
  BY <1>3, WithdrawTypeOK
<1>4. ASSUME NEW m \in Members, AckStateDigest(m)
      PROVE  TypeOK'
  BY <1>4 DEF AckStateDigest, TypeOK, Status
<1>5. CASE UNCHANGED vars
  BY <1>5 DEF vars, TypeOK
<1> QED BY <1>1, <1>2, <1>3, <1>4, <1>5 DEF Next

\* Every state is well typed, whatever actions are proposed together: what
\* apply() of an accepted proposal stores is what the readers of its table
\* expect.
THEOREM TypeCorrect == Spec => []TypeOK
BY InitTypeOK, NextTypeOK, PTL DEF Spec

-----------------------------------------------------------------------------
(***************************************************************************)
(* What resolve() guarantees.                                              *)
(***************************************************************************)

\* The actions on contracts and documents are none that an operator can pass
\* alone or that are accepted without votes, and all can be vetoed.
LEMMA KeepsVotesActions ==
  ASSUME NEW a, a.name \in KeepsVotes
  PROVE  /\ ~canOperatorPass(a)
         /\ ~canCgsOperatorPass(a)
         /\ ~canContractOperatorPass(a)
         /\ ~canAutoAccept(a)
         /\ canVetoAction(a)
BY DEF KeepsVotes, canOperatorPass, canCgsOperatorPass, canContractOperatorPass,
       canAutoAccept, canVetoAction, OperatorActions

\* A proposal that resolve() does not reject is the only open one for its
\* contracts and documents, and none of them was accepted before.
LEMMA ResolveUnique ==
  ASSUME NEW P, NEW info, NEW p, IsProposal(P[p]),
         Resolve(P, info, p) \in {"Open", "Accepted"},
         NEW i \in DOMAIN P[p], P[p][i].name \in KeepsVotes
  PROVE  ~proposal_already_exists(P, info, P[p][i].name, P[p][i].id)
<1> DEFINE acts == P[p]
           ballots == info[p].ballots
           proposer == info[p].proposerId
<1>1. ~operatorResolve(acts, proposer)
  BY KeepsVotesActions DEF operatorResolve, Every
<1>2. /\ ~(Some(acts, is_set_contract) /\ SetContractConflict(P, info, acts))
      /\ ~(Some(acts, is_set_member_document) /\ SetDocumentConflict(P, info, acts))
      /\ ~(Some(acts, is_set_member_document) /\ ~Every(acts, is_set_member_document))
  BY <1>1 DEF Resolve
<1>3. CASE acts[i].name = "set_contract"
  BY <1>2, <1>3 DEF Some, is_set_contract, SetContractConflict,
                    contractId_proposal_already_exists
<1>4. CASE acts[i].name = "set_member_document"
  <2>1. Every(acts, is_set_member_document)
    BY <1>2, <1>4 DEF Some, is_set_member_document
  <2>2. \A j \in 1 .. i : j \in DOMAIN acts
    BY ProposalWellFormed
  <2>3. \A j \in 1 .. i : is_set_member_document(acts[j])
    BY <2>1, <2>2 DEF Every
  <2>4. ~SetDocumentConflict(P, info, acts)
    BY <1>2, <1>4 DEF Some, is_set_member_document
  <2> QED BY <1>4, <2>3, <2>4 DEF SetDocumentConflict, documentId_proposal_already_exists
<1> QED BY <1>3, <1>4 DEF KeepsVotes

\* A contract is accepted by a quorum, of registered members, against no vote.
LEMMA ResolveContract ==
  ASSUME NEW P, NEW info, NEW p,
         Resolve(P, info, p) = "Accepted",
         NEW i \in DOMAIN P[p], P[p][i].name = "set_contract"
  PROVE  /\ No(info[p].ballots) = {}
         /\ \A m \in Yes(info[p].ballots) : Registered(m)
         /\ Quorum(P[p], info[p].ballots)
<1> DEFINE acts == P[p]
           ballots == info[p].ballots
           proposer == info[p].proposerId
<1>1. /\ ~Every(acts, canOperatorPass)
      /\ ~Every(acts, canCgsOperatorPass)
      /\ ~Every(acts, canContractOperatorPass)
      /\ ~Every(acts, canAutoAccept)
      /\ Some(acts, canVetoAction)
  BY KeepsVotesActions DEF Every, Some, KeepsVotes
<1>2. ~operatorResolve(acts, proposer)
  BY <1>1 DEF operatorResolve
<1> QED BY <1>1, <1>2 DEF Resolve

\* The two counts of a quorum are of the same members: a yes vote is counted
\* only for a member without operator roles, and when such a member is
\* registered and none is merely accepted, it is active.  A subset as large
\* as the whole is the whole.
LEMMA QuorumIsUnanimous ==
  ASSUME TypeOK, NEW ballots, NEW acts, Quorum(acts, ballots),
         Some(acts, is_set_contract),
         \A m \in Yes(ballots) : Registered(m)
  PROVE  /\ AcceptedCgsMembers = {}
         /\ \A m \in ActiveCgsMembers : ballots[m] = "yes"
<1>1. AcceptedCgsMembers = {}
  BY DEF Quorum, Some, is_set_contract, needsAcceptedMembersToVote
<1>2. MemberVotes(ballots) \subseteq ActiveCgsMembers
  BY <1>1 DEF MemberVotes, Yes, Registered, AcceptedCgsMembers, ActiveCgsMembers,
              TypeOK, Status
<1>3. IsFiniteSet(ActiveCgsMembers)
  BY ConstantsAssumption, FS_Subset DEF ActiveCgsMembers
<1>4. MemberVotes(ballots) = ActiveCgsMembers
  BY <1>2, <1>3, FS_Subset DEF Quorum
<1> QED BY <1>1, <1>4 DEF MemberVotes, Yes

-----------------------------------------------------------------------------
(***************************************************************************)
(* What a decided proposal does to the tables.                             *)
(***************************************************************************)

\* The tables change only by the apply() of an accepted proposal.
LEMMA SettleKv ==
  ASSUME NEW p \in ProposalIds, NEW P, NEW info \in [ProposalIds -> ProposalInfo],
         Settle(P, info, p), kv' # kv
  PROVE  /\ Resolve(P, info, p) = "Accepted"
         /\ kv' = TablesAfter(P[p], p, info[p].ballots)
<1> DEFINE decided == [info EXCEPT ![p].state = Resolve(P, info, p)]
<1>1. /\ Resolve(P, info, p) = "Accepted"
      /\ apply(P[p], PrunedInfo(decided, p), p)
  BY DEF Settle
<1>2. PrunedInfo(decided, p)[p].ballots = info[p].ballots
  BY DEF PrunedInfo, Keeps, ProposalInfo
<1> QED BY <1>1, <1>2 DEF apply

\* A key that an accepted proposal changes is written by one of its actions.
LEMMA ChangedByAction ==
  ASSUME NEW acts, IsProposal(acts), NEW p, NEW ballots,
         NEW t \in Tables, NEW id \in Ids,
         kv' = TablesAfter(acts, p, ballots), kv'[t][id] # kv[t][id]
  PROVE  \E i \in DOMAIN acts :
           /\ acts[i].name \in DOMAIN TableOf
           /\ TableOf[acts[i].name] = t
           /\ acts[i].id = id
           /\ kv'[t][id] = StoredItem(acts[i], p, ballots)
<1> DEFINE writes == {i \in DOMAIN acts : /\ acts[i].name \in DOMAIN TableOf
                                          /\ TableOf[acts[i].name] = t
                                          /\ acts[i].id = id}
<1>1. writes # {}
  BY DEF TablesAfter
<1>2. Max(writes) \in writes
  BY <1>1, MaxInSet, ProposalWellFormed
<1>3. kv'[t][id] = StoredItem(acts[Max(writes)], p, ballots)
  BY <1>1 DEF TablesAfter
<1> QED BY <1>2, <1>3

LEMMA VoteTables ==
  /\ "accepted_contracts" \in Tables
  /\ "accepted_member_documents" \in Tables
  /\ \A name \in KeepsVotes : name \in DOMAIN TableOf /\ TableOf[name] \in Tables
<1>1. \A name \in KeepsVotes : name \in DOMAIN TableOf
  BY TableNames DEF KeepsVotes
<1>2. \A name \in DOMAIN TableOf : TableOf[name] \in Tables
  BY DEF Tables, Range
<1> QED BY <1>1, <1>2, KeepsVotesTables DEF KeepsVotes

\* No accepted contract or document is overwritten.
LEMMA SettleFinal ==
  ASSUME TypeOK, NEW p \in ProposalIds,
         NEW P, IsProposal(P[p]), NEW info \in [ProposalIds -> ProposalInfo],
         Settle(P, info, p),
         NEW name \in KeepsVotes, NEW id \in Ids, kv[TableOf[name]][id] # Absent
  PROVE  kv'[TableOf[name]][id] = kv[TableOf[name]][id]
<1> SUFFICES ASSUME kv'[TableOf[name]][id] # kv[TableOf[name]][id] PROVE FALSE
  OBVIOUS
<1>1. /\ Resolve(P, info, p) = "Accepted"
      /\ kv' = TablesAfter(P[p], p, info[p].ballots)
  BY SettleKv
<1>2. PICK i \in DOMAIN P[p] : /\ P[p][i].name \in DOMAIN TableOf
                               /\ TableOf[P[p][i].name] = TableOf[name]
                               /\ P[p][i].id = id
  BY <1>1, ChangedByAction, VoteTables, SMTT(30)
<1>3. P[p][i].name = name
  BY <1>2, KeepsVotesTables DEF KeepsVotes
<1>4. ~proposal_already_exists(P, info, name, id)
  BY <1>1, <1>2, <1>3, ResolveUnique
<1> QED BY <1>4 DEF proposal_already_exists

\* A new contract has the yes vote of every member it needs.
LEMMA SettleContract ==
  ASSUME TypeOK, NEW p \in ProposalIds,
         NEW P, IsProposal(P[p]), NEW info \in [ProposalIds -> ProposalInfo],
         Settle(P, info, p), NEW c \in Ids,
         kv'["accepted_contracts"][c] # kv["accepted_contracts"][c]
  PROVE  /\ AcceptedCgsMembers = {}
         /\ \A m \in ActiveCgsMembers :
              kv'["accepted_contracts"][c].finalVotes[m] = "yes"
         /\ No(kv'["accepted_contracts"][c].finalVotes) = {}
<1> DEFINE ballots == info[p].ballots
<1>1. /\ Resolve(P, info, p) = "Accepted"
      /\ kv' = TablesAfter(P[p], p, ballots)
  BY SettleKv
<1>2. PICK i \in DOMAIN P[p] :
        /\ P[p][i].name \in DOMAIN TableOf
        /\ TableOf[P[p][i].name] = "accepted_contracts"
        /\ kv'["accepted_contracts"][c] = StoredItem(P[p][i], p, ballots)
  BY <1>1, ChangedByAction, VoteTables, SMTT(30)
<1>3. P[p][i].name = "set_contract"
  BY <1>2, KeepsVotesTables
<1>4. kv'["accepted_contracts"][c].finalVotes = ballots
  BY <1>2, <1>3 DEF StoredItem, KeepsVotes
<1>5. /\ No(ballots) = {}
      /\ \A m \in Yes(ballots) : Registered(m)
      /\ Quorum(P[p], ballots)
  BY <1>1, <1>3, ResolveContract
<1>6. Some(P[p], is_set_contract)
  BY <1>3 DEF Some, is_set_contract
<1> HIDE DEF ballots
<1> QED BY <1>4, <1>5, <1>6, QuorumIsUnanimous

\* Both facts, for any request.
LEMMA RequestSteps ==
  ASSUME TypeOK, [Next]_vars
  PROVE  KeepsAccepted /\ AcceptsUnanimously
<1>1. ASSUME NEW p \in ProposalIds, NEW P, NEW info,
             SettlesOnly(P, info, p), Settle(P, info, p)
      PROVE  KeepsAccepted /\ AcceptsUnanimously
  <2>1. KeepsAccepted
    BY <1>1, SettleFinal DEF KeepsAccepted, SettlesOnly
  <2>2. AcceptsUnanimously
    <3> SUFFICES ASSUME NEW c \in Ids,
                        kv["accepted_contracts"][c] = Absent,
                        kv'["accepted_contracts"][c] # Absent
                 PROVE  /\ AcceptedCgsMembers = {}
                        /\ \A m \in ActiveCgsMembers :
                             kv'["accepted_contracts"][c].finalVotes[m] = "yes"
                        /\ No(kv'["accepted_contracts"][c].finalVotes) = {}
      BY DEF AcceptsUnanimously
    <3> QED BY <1>1, SettleContract DEF SettlesOnly
  <2> QED BY <2>1, <2>2
<1>2. ASSUME UNCHANGED kv
      PROVE  KeepsAccepted /\ AcceptsUnanimously
  BY <1>2 DEF KeepsAccepted, AcceptsUnanimously
<1>3. ASSUME NEW m \in Members, NEW k \in DOMAIN Catalog, NEW p \in ProposalIds,
             CreateProposal(m, k, p)
      PROVE  KeepsAccepted /\ AcceptsUnanimously
  BY <1>1, <1>3, CreateTables DEF CreateProposal
<1>4. ASSUME NEW m \in Members, NEW p \in ProposalIds, NEW v \in {"yes", "no"},
             SubmitBallot(m, p, v)
      PROVE  KeepsAccepted /\ AcceptsUnanimously
  BY <1>1, <1>4, BallotTables DEF SubmitBallot
<1> QED BY <1>2, <1>3, <1>4 DEF Next, vars, WithdrawProposal, AckStateDigest

\* An accepted contract or member document never changes again, for any
\* members and any proposals.
THEOREM AcceptedStaysFinal == Spec => AcceptedIsFinal
<1>1. TypeOK /\ [Next]_vars => [KeepsAccepted]_vars
  BY RequestSteps
<1> QED BY <1>1, TypeCorrect, PTL DEF Spec, AcceptedIsFinal

\* A contract is accepted only by the yes votes of all active members, for any
\* history of joining, leaving and changing roles.
THEOREM ContractsAreUnanimous == Spec => ContractNeedsEveryMember
<1>1. TypeOK /\ [Next]_vars => [AcceptsUnanimously]_vars
  BY RequestSteps
<1> QED BY <1>1, TypeCorrect, PTL DEF Spec, ContractNeedsEveryMember

-----------------------------------------------------------------------------
(***************************************************************************)
(* One open proposal per contract and document, and deployments and        *)
(* options of accepted contracts only.                                     *)
(***************************************************************************)

\* Deciding a proposal opens no other one.
LEMMA DecidedOpens ==
  ASSUME NEW p \in ProposalIds, NEW P, NEW info, SettlesOnly(P, info, p),
         Settle(P, info, p), Resolve(P, info, p) # "Open"
  PROVE  \A q \in ProposalIds : proposalsInfo'[q].state = "Open" =>
           q # p /\ info[q].state = "Open" /\ proposals'[q] = P[q]
<1> DEFINE outcome == Resolve(P, info, p)
           decided == [info EXCEPT ![p].state = outcome]
           pruned == PrunedInfo(decided, p)
<1>1. outcome \in {"Rejected", "Accepted"} /\ proposals' = PrunedProposals(P, decided, p)
  BY DEF Settle
<1>2. /\ decided[p].state # "Open"
      /\ \A q \in ProposalIds \ {p} : decided[q] = info[q]
  BY DEF SettlesOnly, ProposalInfo
<1>3. \A q \in ProposalIds : pruned[q].state = "Open" => q # p /\ decided[q].state = "Open"
  BY <1>2 DEF PrunedInfo, Keeps, EmptyInfo
<1>4. proposalsInfo' \in {pruned, invalidateOtherOpenProposals(pruned, p)}
  BY <1>1 DEF Settle, apply
<1>5. \A q \in ProposalIds :
        invalidateOtherOpenProposals(pruned, p)[q].state = "Open" => pruned[q].state = "Open"
  <2> HIDE DEF pruned
  <2> QED BY DEF invalidateOtherOpenProposals
<1>6. \A q \in ProposalIds : proposalsInfo'[q].state = "Open" => pruned[q].state = "Open"
  <2> HIDE DEF pruned
  <2> QED BY <1>4, <1>5
<1>7. \A q \in ProposalIds : decided[q].state = "Open" => proposals'[q] = P[q]
  <2> HIDE DEF decided
  <2> QED BY <1>1 DEF PrunedProposals, Keeps
<1> QED BY <1>2, <1>3, <1>6, <1>7

LEMMA SettleOpenAtMostOnce ==
  ASSUME TypeOK, OpenAtMostOnce, NEW p \in ProposalIds, NEW P, NEW info,
         SettlesOnly(P, info, p), Settle(P, info, p)
  PROVE  OpenAtMostOnce'
<1> SUFFICES ASSUME NEW name \in KeepsVotes, NEW id \in Ids,
                    NEW q \in ProposalIds, NEW r \in ProposalIds,
                    NEW i \in DOMAIN proposals'[q], NEW j \in DOMAIN proposals'[r],
                    OccursOpen(proposals', proposalsInfo', q, i, name, id),
                    OccursOpen(proposals', proposalsInfo', r, j, name, id)
             PROVE  q = r /\ i = j
  BY DEF OpenAtMostOnce, OccursOpen
<1>1. ASSUME q # p, r # p,
             OccursOpen(P, info, q, i, name, id), i \in DOMAIN P[q],
             OccursOpen(P, info, r, j, name, id), j \in DOMAIN P[r]
      PROVE  q = r /\ i = j
  BY <1>1 DEF OpenAtMostOnce, OccursOpen, SettlesOnly
<1>2. CASE Resolve(P, info, p) = "Open"
  <2>1. proposals' = P /\ proposalsInfo' = info
    BY <1>2 DEF Settle
  <2>2. \A x \in DOMAIN P[p] : P[p][x].name = name /\ P[p][x].id = id =>
          ~proposal_already_exists(P, info, name, id)
    BY <1>2, ResolveUnique DEF SettlesOnly
  <2>3. CASE q = p \/ r = p
    BY <2>1, <2>2, <2>3 DEF OccursOpen, proposal_already_exists
  <2> QED BY <1>1, <2>1, <2>3
<1>3. CASE Resolve(P, info, p) # "Open"
  BY <1>1, <1>3, DecidedOpens DEF OccursOpen
<1> QED BY <1>2, <1>3

LEMMA WithdrawOpens ==
  ASSUME TypeOK, NEW m \in Members, NEW p \in ProposalIds, WithdrawProposal(m, p)
  PROVE  \A q \in ProposalIds : proposalsInfo'[q].state = "Open" =>
           proposalsInfo[q].state = "Open" /\ proposals'[q] = proposals[q]
<1> DEFINE withdrawn == [proposalsInfo EXCEPT ![p].state = "Withdrawn"]
<1>1. /\ withdrawn[p].state # "Open"
      /\ \A q \in ProposalIds \ {p} : withdrawn[q] = proposalsInfo[q]
  BY DEF TypeOK, ProposalInfo
<1>2. /\ proposals' = PrunedProposals(proposals, withdrawn, p)
      /\ proposalsInfo' = PrunedInfo(withdrawn, p)
  BY DEF WithdrawProposal
<1> HIDE DEF withdrawn
<1> QED BY <1>1, <1>2 DEF PrunedProposals, PrunedInfo, Keeps, EmptyInfo

\* At most one open proposal is about a contract or a document, in every
\* state: the type invariant makes OpenAtMostOnce inductive.
THEOREM OneOpenProposalEach == Spec => []OpenAtMostOnce
<1>1. Init => OpenAtMostOnce
  BY DEF Init, OpenAtMostOnce, OccursOpen, EmptyInfo
<1>2. TypeOK /\ OpenAtMostOnce /\ [Next]_vars => OpenAtMostOnce'
  <2> SUFFICES ASSUME TypeOK, OpenAtMostOnce, [Next]_vars PROVE OpenAtMostOnce'
    OBVIOUS
  <2>1. ASSUME NEW m \in Members, NEW k \in DOMAIN Catalog, NEW p \in ProposalIds,
               CreateProposal(m, k, p)
        PROVE  OpenAtMostOnce'
    BY <2>1, CreateTables, SettleOpenAtMostOnce DEF CreateProposal
  <2>2. ASSUME NEW m \in Members, NEW p \in ProposalIds, NEW v \in {"yes", "no"},
               SubmitBallot(m, p, v)
        PROVE  OpenAtMostOnce'
    BY <2>2, BallotTables, SettleOpenAtMostOnce DEF SubmitBallot
  <2>3. ASSUME NEW m \in Members, NEW p \in ProposalIds, WithdrawProposal(m, p)
        PROVE  OpenAtMostOnce'
    BY <2>3, WithdrawOpens DEF OpenAtMostOnce, OccursOpen
  <2>4. CASE UNCHANGED <<proposals, proposalsInfo>>
    BY <2>4 DEF OpenAtMostOnce, OccursOpen
  <2> QED BY <2>1, <2>2, <2>3, <2>4 DEF Next, vars, AckStateDigest
<1> QED BY <1>1, <1>2, TypeCorrect, PTL DEF Spec

\* What a proposal needs when it is created: the contracts its actions are
\* about are accepted.
ContractsAccepted(acts) ==
  \A i \in DOMAIN acts : acts[i].name \in RequiresAcceptedContract =>
     acts[i].id \in Ids /\ kv["accepted_contracts"][acts[i].id] # Absent

\* The inductive invariant behind OptionsNeedContract: what validate() checked
\* of an open proposal still holds when the proposal is applied.
OptionsInv ==
  /\ OptionsNeedContract
  /\ \A p \in ProposalIds : proposalsInfo[p].state = "Open" => ContractsAccepted(proposals[p])

OptionTables == {"deployment_specs", "deployment_info",
                 "contracts_logging_status", "contracts_telemetry_status"}

\* These tables are written by actions on accepted contracts only.
LEMMA OptionActions ==
  /\ OptionTables \subseteq Tables
  /\ \A n \in DOMAIN TableOf :
       TableOf[n] \in OptionTables <=> n \in RequiresAcceptedContract
<1>1. \A n \in DOMAIN TableOf : TableOf[n] \in Tables
  BY DEF Tables, Range
<1>2. /\ TableOf["set_deployment_spec"] = "deployment_specs"
      /\ TableOf["set_deployment_info"] = "deployment_info"
      /\ TableOf["set_contract_runtime_options_enable_logging"] = "contracts_logging_status"
      /\ TableOf["set_contract_runtime_options_enable_telemetry"] = "contracts_telemetry_status"
  BY DEF TableOf
<1>3. OptionTables \subseteq Tables
  BY <1>1, <1>2, TableNames DEF OptionTables
<1>4. \A n \in DOMAIN TableOf :
        TableOf[n] \in OptionTables <=> n \in RequiresAcceptedContract
  BY DEF TableOf, OptionTables, RequiresAcceptedContract
<1> QED BY <1>3, <1>4

\* An action on an accepted contract has the id of the contract.
LEMMA OptionActionId ==
  ASSUME NEW a, WellFormed(a), a.name \in RequiresAcceptedContract
  PROVE  a.id \in Ids
BY TableNames DEF WellFormed, RequiresAcceptedContract, OperatorActions

\* A validated proposal is about accepted contracts.
LEMMA ValidatedContracts ==
  ASSUME NEW acts, IsProposal(acts), validate(acts)
  PROVE  ContractsAccepted(acts)
BY ProposalWellFormed, OptionActionId DEF validate, Every, ValidAction, ContractsAccepted

LEMMA SettleOptionsInv ==
  ASSUME TypeOK, OptionsInv, NEW p \in ProposalIds, NEW P, NEW info,
         SettlesOnly(P, info, p), Settle(P, info, p),
         ContractsAccepted(P[p]), KeepsAccepted
  PROVE  OptionsInv'
<1>1. \A c \in Ids : kv["accepted_contracts"][c] # Absent
                       => kv'["accepted_contracts"][c] # Absent
  BY KeepsVotesTables DEF KeepsAccepted, KeepsVotes
<1>2. \A q \in ProposalIds : info[q].state = "Open" => ContractsAccepted(P[q])
  BY DEF OptionsInv, SettlesOnly
<1>3. \A q \in ProposalIds : proposalsInfo'[q].state = "Open" => ContractsAccepted(proposals[q])'
  <2>1. CASE Resolve(P, info, p) = "Open"
    <3>1. proposals' = P /\ proposalsInfo' = info
      BY <2>1 DEF Settle
    <3> QED BY <1>1, <1>2, <3>1 DEF ContractsAccepted
  <2>2. CASE Resolve(P, info, p) # "Open"
    BY <1>1, <1>2, <2>2, DecidedOpens, SMTT(30) DEF ContractsAccepted
  <2> QED BY <2>1, <2>2
<1>4. ASSUME NEW c \in Ids, NEW t \in OptionTables, kv'[t][c] # Absent
      PROVE  kv'["accepted_contracts"][c] # Absent
  <2>1. CASE kv'[t][c] = kv[t][c]
    BY <1>1, <1>4, <2>1 DEF OptionsInv, OptionsNeedContract, OptionTables
  <2>2. CASE kv'[t][c] # kv[t][c]
    <3>1. kv' = TablesAfter(P[p], p, info[p].ballots)
      BY <2>2, SettleKv DEF SettlesOnly
    <3>2. t \in Tables /\ IsProposal(P[p])
      BY OptionActions DEF SettlesOnly
    <3>3. PICK i \in DOMAIN P[p] : /\ P[p][i].name \in DOMAIN TableOf
                                   /\ TableOf[P[p][i].name] = t
                                   /\ P[p][i].id = c
      BY <2>2, <3>1, <3>2, ChangedByAction, SMTT(30)
    <3>4. P[p][i].name \in RequiresAcceptedContract
      BY <3>3, OptionActions
    <3> QED BY <1>1, <3>3, <3>4 DEF ContractsAccepted
  <2> QED BY <2>1, <2>2
<1>5. OptionsNeedContract'
  BY <1>4 DEF OptionsNeedContract, OptionTables
<1> QED BY <1>3, <1>5 DEF OptionsInv

\* Deployments, logging and telemetry are only ever configured for accepted
\* contracts, however long a validated proposal waits for its last vote.
THEOREM OptionsOfAcceptedContracts == Spec => []OptionsNeedContract
<1>1. Init => OptionsInv
  BY OptionActions DEF Init, OptionsInv, OptionsNeedContract, OptionTables, EmptyInfo
<1>2. TypeOK /\ OptionsInv /\ [Next]_vars => OptionsInv'
  <2> SUFFICES ASSUME TypeOK, OptionsInv, [Next]_vars PROVE OptionsInv'
    OBVIOUS
  <2>1. KeepsAccepted
    BY RequestSteps
  <2>2. ASSUME NEW m \in Members, NEW k \in DOMAIN Catalog, NEW p \in ProposalIds,
               CreateProposal(m, k, p)
        PROVE  OptionsInv'
    <3> DEFINE P == [proposals EXCEPT ![p] = Catalog[k]]
               info == [proposalsInfo EXCEPT
                          ![p] = [EmptyInfo("Open") EXCEPT !.proposerId = m]]
    <3>1. ContractsAccepted(Catalog[k])
      BY <2>2, ValidatedContracts DEF CreateProposal, IsProposal
    <3>2. P[p] = Catalog[k]
      BY DEF TypeOK
    <3>3. SettlesOnly(P, info, p) /\ Settle(P, info, p)
      BY <2>2, CreateTables DEF CreateProposal
    <3> HIDE DEF P, info
    <3> QED BY <2>1, <3>1, <3>2, <3>3, SettleOptionsInv
  <2>3. ASSUME NEW m \in Members, NEW p \in ProposalIds, NEW v \in {"yes", "no"},
               SubmitBallot(m, p, v)
        PROVE  OptionsInv'
    <3>1. ContractsAccepted(proposals[p])
      BY <2>3 DEF SubmitBallot, OptionsInv
    <3> QED BY <2>1, <2>3, <3>1, BallotTables, SettleOptionsInv DEF SubmitBallot
  <2>4. ASSUME NEW m \in Members, NEW p \in ProposalIds, WithdrawProposal(m, p)
        PROVE  OptionsInv'
    <3>1. kv' = kv
      BY <2>4 DEF WithdrawProposal
    <3> QED BY <2>4, <3>1, WithdrawOpens DEF OptionsInv, OptionsNeedContract, ContractsAccepted
  <2>5. CASE UNCHANGED <<proposals, proposalsInfo, kv>>
    BY <2>5 DEF OptionsInv, OptionsNeedContract, ContractsAccepted
  <2> QED BY <2>2, <2>3, <2>4, <2>5 DEF Next, vars, AckStateDigest
<1>3. OptionsInv => OptionsNeedContract
  BY DEF OptionsInv
<1> QED BY <1>1, <1>2, <1>3, TypeCorrect, PTL DEF Spec

-----------------------------------------------------------------------------
(***************************************************************************)
(* Changing the constitution.                                              *)
(***************************************************************************)

LEMMA SettleConstitution ==
  ASSUME TypeOK, NEW p \in ProposalIds, NEW P, NEW info,
         SettlesOnly(P, info, p), Settle(P, info, p)
  PROVE  DropsOpenProposals
<1> SUFFICES ASSUME kv'["constitution"] # kv["constitution"],
                    NEW q \in ProposalIds, proposalsInfo'[q].state = "Open"
             PROVE  FALSE
  BY DEF DropsOpenProposals
<1> DEFINE decided == [info EXCEPT ![p].state = Resolve(P, info, p)]
           pruned == PrunedInfo(decided, p)
<1>1. /\ Resolve(P, info, p) = "Accepted"
      /\ kv' = TablesAfter(P[p], p, info[p].ballots)
      /\ apply(P[p], pruned, p)
  BY SettleKv DEF Settle, SettlesOnly
<1>2. "constitution" \in Tables
  <2>1. TableOf["set_constitution"] = "constitution"
    BY DEF TableOf
  <2> QED BY <2>1, TableNames DEF Tables, Range
<1>3. \E id \in Ids : kv'["constitution"][id] # kv["constitution"][id]
  BY <1>1, <1>2 DEF TablesAfter, TypeOK
<1>4. PICK i \in DOMAIN P[p] : /\ P[p][i].name \in DOMAIN TableOf
                               /\ TableOf[P[p][i].name] = "constitution"
  BY <1>1, <1>2, <1>3, ChangedByAction DEF SettlesOnly
<1>5. P[p][i].name = "set_constitution"
  BY <1>4, SMTT(30) DEF TableOf
<1>6. proposalsInfo' = invalidateOtherOpenProposals(pruned, p)
  BY <1>1, <1>5 DEF apply, Some, is_set_constitution
<1>7. q # p
  BY <1>1, DecidedOpens
<1> HIDE DEF pruned
<1>8. CASE pruned[q].state = "Open"
  <2>1. pruned \in [ProposalIds -> ProposalInfo]
    <3>1. decided \in [ProposalIds -> ProposalInfo]
      BY <1>1, ZenonT(60) DEF SettlesOnly, ProposalInfo, ProposalState
    <3>2. EmptyInfo("Pruned") \in ProposalInfo
      BY DEF EmptyInfo, ProposalInfo, ProposalState, Vote
    <3> QED BY <3>1, <3>2 DEF pruned, PrunedInfo
  <2>2. [pruned[q] EXCEPT !.state = "Dropped"].state = "Dropped"
    BY <2>1 DEF ProposalInfo
  <2> QED BY <1>6, <1>7, <1>8, <2>2 DEF invalidateOtherOpenProposals
<1>9. CASE pruned[q].state # "Open"
  BY <1>6, <1>9 DEF invalidateOtherOpenProposals
<1> QED BY <1>8, <1>9

\* No proposal is open when a new constitution takes effect, for any proposals.
THEOREM ConstitutionChangeIsClean == Spec => ConstitutionChangeDropsProposals
<1>1. TypeOK /\ [Next]_vars => [DropsOpenProposals]_vars
  <2> SUFFICES ASSUME TypeOK, [Next]_vars PROVE DropsOpenProposals
    OBVIOUS
  <2>1. ASSUME NEW m \in Members, NEW k \in DOMAIN Catalog, NEW p \in ProposalIds,
               CreateProposal(m, k, p)
        PROVE  DropsOpenProposals
    BY <2>1, CreateTables, SettleConstitution DEF CreateProposal
  <2>2. ASSUME NEW m \in Members, NEW p \in ProposalIds, NEW v \in {"yes", "no"},
               SubmitBallot(m, p, v)
        PROVE  DropsOpenProposals
    BY <2>2, BallotTables, SettleConstitution DEF SubmitBallot
  <2>3. CASE kv' = kv
    BY <2>3 DEF DropsOpenProposals
  <2> QED BY <2>1, <2>2, <2>3 DEF Next, vars, WithdrawProposal, AckStateDigest
<1> QED BY <1>1, TypeCorrect, PTL DEF Spec, ConstitutionChangeDropsProposals

-----------------------------------------------------------------------------
(***************************************************************************)
(* Proposals that wait for nobody, and the application's modules: what     *)
(* holds while no member is removed or registered again.                   *)
(***************************************************************************)

\* A step that removes no member and registers none again.
MembersStay ==
  \A m \in Members :
    /\ memberStatus[m] # "None" => memberStatus'[m] # "None"
    /\ memberStatus[m] = "Active" => memberStatus'[m] = "Active"

\* What an open proposal can say of its votes as long as members stay: whoever
\* voted is active, and a no vote would have rejected what members can veto.
VotesStand(acts, ballots) ==
  /\ \A m \in Members : ballots[m] # "none" => memberStatus[m] = "Active"
  /\ Some(acts, canVetoAction) => No(ballots) = {}

WaitsForSomeone(acts, ballots) ==
  Some(acts, canVetoAction) => \E m \in Members : Registered(m) /\ ballots[m] = "none"

\* The inductive invariant behind NoStrandedProposal.
WaitingInv ==
  \A p \in ProposalIds : proposalsInfo[p].state = "Open" =>
    /\ VotesStand(proposals[p], proposalsInfo[p].ballots)
    /\ WaitsForSomeone(proposals[p], proposalsInfo[p].ballots)

\* When every registered member has voted, and nobody voted no or is yet to
\* become active, there is a quorum.
LEMMA AllVotedIsQuorum ==
  ASSUME TypeOK, NEW acts, NEW ballots \in [Members -> Vote],
         \A m \in Members : ballots[m] # "none" => memberStatus[m] = "Active",
         No(ballots) = {},
         \A m \in Members : Registered(m) => ballots[m] # "none"
  PROVE  Quorum(acts, ballots)
<1>1. MemberVotes(ballots) = ActiveCgsMembers
  BY DEF MemberVotes, Yes, No, ActiveCgsMembers, Registered, Vote
<1>2. AcceptedCgsMembers = {}
  BY DEF AcceptedCgsMembers, Registered
<1> QED BY <1>1, <1>2 DEF Quorum

\* A proposal that resolve() leaves open has no quorum, and no veto.
LEMMA ResolveOpen ==
  ASSUME NEW P, NEW info, NEW p, Resolve(P, info, p) = "Open"
  PROVE  /\ Some(P[p], canVetoAction) => No(info[p].ballots) = {}
         /\ ~Quorum(P[p], info[p].ballots)
BY DEF Resolve

\* A proposal that is still open once another one is decided is as it was.
LEMMA DecidedKeeps ==
  ASSUME NEW p \in ProposalIds, NEW P, NEW info, SettlesOnly(P, info, p),
         Settle(P, info, p), Resolve(P, info, p) # "Open"
  PROVE  \A q \in ProposalIds :
           proposalsInfo'[q].state = "Open" => q # p /\ proposalsInfo'[q] = info[q]
<1> DEFINE outcome == Resolve(P, info, p)
           decided == [info EXCEPT ![p].state = outcome]
           pruned == PrunedInfo(decided, p)
<1>1. outcome \in {"Rejected", "Accepted"}
  BY DEF Settle
<1>2. /\ decided[p].state # "Open"
      /\ \A q \in ProposalIds \ {p} : decided[q] = info[q]
  BY DEF SettlesOnly, ProposalInfo
<1>3. \A q \in ProposalIds : pruned[q].state = "Open" => q # p /\ pruned[q] = info[q]
  BY <1>2 DEF PrunedInfo, Keeps, EmptyInfo
<1>4. decided \in [ProposalIds -> ProposalInfo]
  BY <1>1, ZenonT(60) DEF SettlesOnly, ProposalInfo, ProposalState
<1>5. pruned \in [ProposalIds -> ProposalInfo]
  <2>1. EmptyInfo("Pruned") \in ProposalInfo
    BY DEF EmptyInfo, ProposalInfo, ProposalState, Vote
  <2> HIDE DEF decided
  <2> QED BY <1>4, <2>1 DEF PrunedInfo
<1>6. proposalsInfo' \in {pruned, invalidateOtherOpenProposals(pruned, p)}
  BY <1>1 DEF Settle, apply
<1> HIDE DEF pruned
<1>7. \A q \in ProposalIds : [pruned[q] EXCEPT !.state = "Dropped"].state # "Open"
  BY <1>5 DEF ProposalInfo
<1>8. \A q \in ProposalIds :
        invalidateOtherOpenProposals(pruned, p)[q].state = "Open" =>
          invalidateOtherOpenProposals(pruned, p)[q] = pruned[q]
  BY <1>7 DEF invalidateOtherOpenProposals
<1> QED BY <1>3, <1>6, <1>8

\* A request that settles p leaves every open proposal waiting for someone, when
\* the voters of p are active and p is new or waits for no one but the voter.
LEMMA SettleWaiting ==
  ASSUME TypeOK, WaitingInv, MembersStay, NEW p \in ProposalIds, NEW P, NEW info,
         SettlesOnly(P, info, p), Settle(P, info, p),
         \A q \in ProposalIds \ {p} : info[q] = proposalsInfo[q],
         \A m \in Members : info[p].ballots[m] # "none" => memberStatus[m] = "Active"
  PROVE  WaitingInv'
<1> SUFFICES ASSUME NEW q \in ProposalIds, proposalsInfo'[q].state = "Open"
             PROVE  /\ VotesStand(proposals[q], proposalsInfo[q].ballots)'
                    /\ WaitsForSomeone(proposals[q], proposalsInfo[q].ballots)'
  BY DEF WaitingInv
<1>1. proposalsInfo'[q] = info[q] /\ proposals'[q] = P[q]
  <2>1. CASE Resolve(P, info, p) = "Open"
    BY <2>1 DEF Settle
  <2>2. CASE Resolve(P, info, p) # "Open"
    BY <2>2, DecidedOpens, DecidedKeeps
  <2> QED BY <2>1, <2>2
<1>2. VotesStand(P[q], info[q].ballots) /\ WaitsForSomeone(P[q], info[q].ballots)
  <2>1. CASE q # p
    BY <1>1, <2>1 DEF WaitingInv, SettlesOnly
  <2>2. CASE q = p
    <3>1. Resolve(P, info, p) = "Open"
      BY <2>2, DecidedOpens, SMTT(60)
    <3>2. VotesStand(P[p], info[p].ballots) /\ ~Quorum(P[p], info[p].ballots)
      BY <3>1, ResolveOpen DEF VotesStand
    <3>3. info[p].ballots \in [Members -> Vote]
      BY DEF SettlesOnly, ProposalInfo
    <3> DEFINE ballots == info[p].ballots
               acts == P[p]
    <3> HIDE DEF ballots, acts
    <3>4. ASSUME Some(acts, canVetoAction)
          PROVE  \E m \in Members : Registered(m) /\ ballots[m] = "none"
      BY <3>2, <3>3, <3>4, AllVotedIsQuorum DEF VotesStand, ballots, acts
    <3> QED BY <2>2, <3>2, <3>4 DEF WaitsForSomeone, ballots, acts
  <2> QED BY <2>1, <2>2
<1>3. VotesStand(proposals[q], proposalsInfo[q].ballots)'
  BY <1>1, <1>2 DEF VotesStand, MembersStay
<1>4. WaitsForSomeone(proposals[q], proposalsInfo[q].ballots)'
  BY <1>1, <1>2 DEF WaitsForSomeone, Registered, MembersStay
<1> QED BY <1>3, <1>4

\* A withdrawn proposal is no longer open; the others keep their votes.
LEMMA WithdrawKeeps ==
  ASSUME TypeOK, NEW m \in Members, NEW p \in ProposalIds, WithdrawProposal(m, p)
  PROVE  \A q \in ProposalIds :
           proposalsInfo'[q].state = "Open" => proposalsInfo'[q] = proposalsInfo[q]
<1> DEFINE withdrawn == [proposalsInfo EXCEPT ![p].state = "Withdrawn"]
<1>1. /\ withdrawn[p].state # "Open"
      /\ \A q \in ProposalIds \ {p} : withdrawn[q] = proposalsInfo[q]
  BY DEF TypeOK, ProposalInfo
<1>2. proposalsInfo' = PrunedInfo(withdrawn, p)
  BY DEF WithdrawProposal
<1> HIDE DEF withdrawn
<1> QED BY <1>1, <1>2 DEF PrunedInfo, Keeps, EmptyInfo

LEMMA NextWaiting ==
  ASSUME TypeOK, WaitingInv, [Next]_vars, MembersStay \/ UNCHANGED vars
  PROVE  WaitingInv'
<1>1. CASE UNCHANGED vars
  BY <1>1 DEF vars, WaitingInv, VotesStand, WaitsForSomeone, Registered
<1> SUFFICES ASSUME MembersStay, Next PROVE WaitingInv'
  BY <1>1
<1>2. ASSUME NEW m \in Members, NEW k \in DOMAIN Catalog, NEW p \in ProposalIds,
             CreateProposal(m, k, p)
      PROVE  WaitingInv'
  <2> DEFINE P == [proposals EXCEPT ![p] = Catalog[k]]
             new == [EmptyInfo("Open") EXCEPT !.proposerId = m]
             info == [proposalsInfo EXCEPT ![p] = new]
  <2>1. SettlesOnly(P, info, p) /\ Settle(P, info, p)
    BY <1>2, CreateTables DEF CreateProposal
  <2>2. new.ballots = [x \in Members |-> "none"]
    BY DEF EmptyInfo
  <2>3. info[p] = new /\ \A q \in ProposalIds \ {p} : info[q] = proposalsInfo[q]
    BY DEF TypeOK
  <2> HIDE DEF P, info, new
  <2> QED BY <2>1, <2>2, <2>3, SettleWaiting
<1>3. ASSUME NEW m \in Members, NEW p \in ProposalIds, NEW v \in {"yes", "no"},
             SubmitBallot(m, p, v)
      PROVE  WaitingInv'
  <2> DEFINE info == [proposalsInfo EXCEPT ![p].ballots[m] = v]
  <2>1. SettlesOnly(proposals, info, p) /\ Settle(proposals, info, p)
    BY <1>3, BallotTables DEF SubmitBallot
  <2>2. /\ \A q \in ProposalIds \ {p} : info[q] = proposalsInfo[q]
        /\ \A x \in Members \ {m} : info[p].ballots[x] = proposalsInfo[p].ballots[x]
    BY DEF TypeOK, ProposalInfo
  <2>3. \A x \in Members : info[p].ballots[x] # "none" => memberStatus[x] = "Active"
    BY <1>3, <2>2 DEF SubmitBallot, WaitingInv, VotesStand
  <2> HIDE DEF info
  <2> QED BY <2>1, <2>2, <2>3, SettleWaiting
<1>4. ASSUME NEW m \in Members, NEW p \in ProposalIds, WithdrawProposal(m, p)
      PROVE  WaitingInv'
  <2>1. memberStatus' = memberStatus
    BY <1>4 DEF WithdrawProposal
  <2>2. \A q \in ProposalIds : proposalsInfo'[q].state = "Open" =>
          proposalsInfo'[q] = proposalsInfo[q] /\ proposals'[q] = proposals[q]
    BY <1>4, WithdrawKeeps, WithdrawOpens
  <2> QED BY <2>1, <2>2 DEF WaitingInv, VotesStand, WaitsForSomeone, Registered
<1>5. ASSUME NEW m \in Members, AckStateDigest(m)
      PROVE  WaitingInv'
  <2>1. UNCHANGED <<proposals, proposalsInfo>>
    BY <1>5 DEF AckStateDigest
  <2> QED BY <2>1 DEF WaitingInv, VotesStand, WaitsForSomeone, Registered, MembersStay
<1> QED BY <1>2, <1>3, <1>4, <1>5 DEF Next

LEMMA AlwaysWaiting == Spec /\ [][MembersStay]_vars => []WaitingInv
<1>1. Init => WaitingInv
  BY DEF Init, WaitingInv, EmptyInfo
<1>2. TypeOK /\ WaitingInv /\ [Next]_vars /\ [MembersStay]_vars => WaitingInv'
  BY NextWaiting
<1> QED BY <1>1, <1>2, TypeCorrect, PTL DEF Spec

\* As long as no member is removed or registered again, an open proposal that
\* members can veto waits for the ballot of a registered member: the ballot that
\* would leave it waiting for nobody completes the quorum resolve() looks for.
THEOREM NobodyStranded == Spec /\ [][MembersStay]_vars => []NoStrandedProposal
<1>1. WaitingInv => NoStrandedProposal
  BY SMTT(60) DEF WaitingInv, WaitsForSomeone, NoStrandedProposal
<1> QED BY <1>1, AlwaysWaiting, PTL

\* No option lets the CGS operator pass a new application alone.
JsAppIsVoted == ~isRuntimeOptionEnabled("autoapprove-jsapp-proposal")

\* A proposal that replaces the application is accepted by a quorum only.
LEMMA ResolveJsApp ==
  ASSUME NEW P, NEW info, NEW p, JsAppIsVoted,
         Resolve(P, info, p) = "Accepted",
         NEW i \in DOMAIN P[p], P[p][i].name = "set_js_app"
  PROVE  Quorum(P[p], info[p].ballots)
<1> DEFINE acts == P[p]
           proposer == info[p].proposerId
<1>1. /\ ~canOperatorPass(acts[i])
      /\ ~canCgsOperatorPass(acts[i])
      /\ ~canContractOperatorPass(acts[i])
      /\ ~canAutoAccept(acts[i])
  BY DEF canOperatorPass, canCgsOperatorPass, canContractOperatorPass, canAutoAccept,
         OperatorActions, JsAppIsVoted
<1>2. /\ ~operatorResolve(acts, proposer)
      /\ ~Every(acts, canCgsOperatorPass)
      /\ ~Every(acts, canContractOperatorPass)
      /\ ~Every(acts, canAutoAccept)
  BY <1>1 DEF Every, operatorResolve
<1> QED BY <1>2 DEF Resolve

\* When every voter is active, a quorum is every active member.
LEMMA QuorumOfVoters ==
  ASSUME NEW acts, NEW ballots, Quorum(acts, ballots),
         \A m \in Members : ballots[m] # "none" => memberStatus[m] = "Active"
  PROVE  \A m \in ActiveCgsMembers : ballots[m] = "yes"
<1>1. MemberVotes(ballots) \subseteq ActiveCgsMembers
  BY DEF MemberVotes, Yes, ActiveCgsMembers
<1>2. IsFiniteSet(ActiveCgsMembers)
  BY ConstantsAssumption, FS_Subset DEF ActiveCgsMembers
<1>3. MemberVotes(ballots) = ActiveCgsMembers
  BY <1>1, <1>2, FS_Subset DEF Quorum
<1> QED BY <1>3 DEF MemberVotes, Yes

\* Only the proposal a request settles is accepted by it, with the votes that
\* resolve() saw.
LEMMA SettledAccepted ==
  ASSUME NEW p \in ProposalIds, NEW P, NEW info, SettlesOnly(P, info, p),
         Settle(P, info, p), NEW q \in ProposalIds, info[q].state = "Open",
         proposalsInfo'[q].state = "Accepted"
  PROVE  /\ q = p
         /\ Resolve(P, info, p) = "Accepted"
         /\ proposalsInfo'[p].ballots = info[p].ballots
<1> DEFINE outcome == Resolve(P, info, p)
           decided == [info EXCEPT ![p].state = outcome]
           pruned == PrunedInfo(decided, p)
<1>1. CASE outcome = "Open"
  <2>1. proposalsInfo' = info
    BY <1>1 DEF Settle
  <2> QED BY <2>1
<1>2. CASE outcome # "Open"
  <2>1. proposalsInfo' \in {pruned, invalidateOtherOpenProposals(pruned, p)}
    BY <1>2 DEF Settle, apply
  <2>2. /\ decided[p].state = outcome /\ decided[p].ballots = info[p].ballots
        /\ \A r \in ProposalIds \ {p} : decided[r] = info[r]
    BY DEF SettlesOnly, ProposalInfo
  <2> HIDE DEF outcome, decided
  <2>3. /\ pruned[p] = decided[p]
        /\ q # p => pruned[q] = info[q]
    BY <2>2 DEF PrunedInfo, Keeps
  <2> HIDE DEF pruned
  <2>4. /\ invalidateOtherOpenProposals(pruned, p)[p] = pruned[p]
        /\ q # p => invalidateOtherOpenProposals(pruned, p)[q] =
                       [info[q] EXCEPT !.state = "Dropped"]
    BY <2>3 DEF invalidateOtherOpenProposals
  <2>5. q # p => /\ info[q].state # "Accepted"
                 /\ [info[q] EXCEPT !.state = "Dropped"].state = "Dropped"
    BY DEF SettlesOnly, ProposalInfo
  <2>6. q = p
    BY <2>1, <2>3, <2>4, <2>5
  <2>7. proposalsInfo'[p] = decided[p]
    BY <2>1, <2>3, <2>4
  <2> QED BY <2>2, <2>6, <2>7 DEF outcome
<1> QED BY <1>1, <1>2

\* As long as no member is removed or registered again and no option lets the
\* CGS operator decide, the application is replaced only with the yes vote of
\* every active member: the early acceptance of a proposal whose voter was
\* registered again takes exactly that, a vote that outlives its voter's status.
THEOREM JsAppsAreUnanimous ==
  Spec /\ [][MembersStay]_vars /\ []JsAppIsVoted => JsAppNeedsEveryMember
<1> DEFINE Unanimous ==
      \A p \in ProposalIds :
        /\ proposalsInfo[p].state = "Open" /\ proposalsInfo'[p].state = "Accepted"
        /\ \E i \in DOMAIN proposals[p] : proposals[p][i].name = "set_js_app"
        => \A m \in ActiveCgsMembers : proposalsInfo'[p].ballots[m] = "yes"
<1>1. TypeOK /\ WaitingInv /\ JsAppIsVoted /\ [Next]_vars => [Unanimous]_vars
  <2> SUFFICES ASSUME TypeOK, WaitingInv, JsAppIsVoted, Next,
                      NEW q \in ProposalIds,
                      proposalsInfo[q].state = "Open", proposalsInfo'[q].state = "Accepted",
                      NEW i \in DOMAIN proposals[q], proposals[q][i].name = "set_js_app"
               PROVE  \A m \in ActiveCgsMembers : proposalsInfo'[q].ballots[m] = "yes"
    OBVIOUS
  <2>1. ASSUME NEW m \in Members, NEW k \in DOMAIN Catalog, NEW p \in ProposalIds,
               CreateProposal(m, k, p)
        PROVE  FALSE
    <3> DEFINE P == [proposals EXCEPT ![p] = Catalog[k]]
               info == [proposalsInfo EXCEPT
                          ![p] = [EmptyInfo("Open") EXCEPT !.proposerId = m]]
    <3>1. SettlesOnly(P, info, p) /\ Settle(P, info, p)
      BY <2>1, CreateTables DEF CreateProposal
    <3>2. q # p
      BY <2>1 DEF CreateProposal
    <3> HIDE DEF P, info
    <3>3. info[q].state = "Open"
      BY <3>1, <3>2 DEF SettlesOnly
    <3> QED BY <3>1, <3>2, <3>3, SettledAccepted
  <2>2. ASSUME NEW m \in Members, NEW p \in ProposalIds, NEW v \in {"yes", "no"},
               SubmitBallot(m, p, v)
        PROVE  \A x \in ActiveCgsMembers : proposalsInfo'[q].ballots[x] = "yes"
    <3> DEFINE info == [proposalsInfo EXCEPT ![p].ballots[m] = v]
    <3>1. SettlesOnly(proposals, info, p) /\ Settle(proposals, info, p)
      BY <2>2, BallotTables DEF SubmitBallot
    <3>2. \A x \in Members \ {m} : info[p].ballots[x] = proposalsInfo[p].ballots[x]
      BY DEF TypeOK, ProposalInfo
    <3>3. \A x \in Members : info[p].ballots[x] # "none" => memberStatus[x] = "Active"
      BY <2>2, <3>2 DEF SubmitBallot, WaitingInv, VotesStand
    <3> HIDE DEF info
    <3>4. info[q].state = "Open"
      BY <3>1 DEF SettlesOnly
    <3>5. /\ q = p /\ Resolve(proposals, info, p) = "Accepted"
          /\ proposalsInfo'[p].ballots = info[p].ballots
      BY <3>1, <3>4, SettledAccepted
    <3>6. Quorum(proposals[p], info[p].ballots)
      BY <3>5, ResolveJsApp
    <3> QED BY <3>3, <3>5, <3>6, QuorumOfVoters
  <2>3. ASSUME NEW m \in Members, NEW p \in ProposalIds, WithdrawProposal(m, p)
        PROVE  FALSE
    <3> DEFINE withdrawn == [proposalsInfo EXCEPT ![p].state = "Withdrawn"]
    <3>1. /\ withdrawn[p].state = "Withdrawn"
          /\ \A r \in ProposalIds \ {p} : withdrawn[r] = proposalsInfo[r]
      BY DEF TypeOK, ProposalInfo
    <3>2. proposalsInfo' = PrunedInfo(withdrawn, p)
      BY <2>3 DEF WithdrawProposal
    <3> HIDE DEF withdrawn
    <3> QED BY <3>1, <3>2 DEF PrunedInfo, Keeps, EmptyInfo
  <2> QED BY <2>1, <2>2, <2>3 DEF Next, AckStateDigest
<1> QED BY <1>1, AlwaysWaiting, TypeCorrect, PTL DEF Spec, JsAppNeedsEveryMember

=============================================================================
