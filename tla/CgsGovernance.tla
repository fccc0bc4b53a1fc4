---------------------------- MODULE CgsGovernance ----------------------------
(***************************************************************************)
(* Governance of the Clean Room Governance Service (CGS), a CCF            *)
(* application: the members, the proposals they submit and vote on, and    *)
(* the tables an accepted proposal writes.                                 *)
(*                                                                         *)
(* CCF runs every request as one transaction, so one action is one         *)
(* request: submitting a proposal or a ballot records it, runs resolve()   *)
(* and, on "Accepted", applies the actions, all in the same step.  An      *)
(* exception in validate(), resolve() or apply() discards the transaction: *)
(* here, the action is not enabled.                                        *)
(*                                                                         *)
(* An action of a proposal is a record with the name of the action, the    *)
(* id it is about (contractId, documentId, option, member) and its data.   *)
(***************************************************************************)
EXTENDS Integers, Sequences, FiniteSets, FiniteSetsExt, Functions

CONSTANTS
  Members,        \* the members that are ever registered
  InitialStatus,  \* the status of each member when the model starts
  InitialRoles,   \* and the operator roles in its member_data
  RecoveryMembers,    \* the members registered with an encryption key
  RecoveryThreshold,  \* recovery_threshold of the service configuration
  ProposalIds,    \* bound: the proposals that can be submitted
  Catalog,        \* the action lists members propose, indexed by a name
  Ids,            \* the keys of the tables: contracts, documents, options...
  Data,           \* what a proposal can write under a key
  Absent          \* the value of a key that was never written

VARIABLES
  memberStatus,   \* members.info: status, "None" when not registered
  memberRoles,    \* members.info: the operator roles in member_data
  proposals,      \* proposals: the actions of each proposal
  proposalsInfo,  \* proposals_info: state, proposer and ballots
  kv              \* the tables accepted proposals write

vars == <<memberStatus, memberRoles, proposals, proposalsInfo, kv>>

Status == {"None", "Accepted", "Active"}

Role == {"isOperator", "isRecoveryOperator", "cgsOperator", "contractOperator"}

ProposalState ==
  {"None", "Open", "Accepted", "Rejected", "Withdrawn", "Dropped", "Pruned"}

Vote == {"none", "yes", "no"}

(***************************************************************************)
(* The table each action name writes.  Actions of the base constitution    *)
(* that write none of these tables (nodes, JWT issuers, ...) have no entry.*)
(***************************************************************************)
TableOf ==
  [set_contract            |-> "accepted_contracts",
   set_member_document     |-> "accepted_member_documents",
   set_deployment_spec     |-> "deployment_specs",
   set_deployment_info     |-> "deployment_info",
   set_contract_runtime_options_enable_logging    |-> "contracts_logging_status",
   set_contract_runtime_options_disable_logging   |-> "contracts_logging_status",
   set_contract_runtime_options_enable_telemetry  |-> "contracts_telemetry_status",
   set_contract_runtime_options_disable_telemetry |-> "contracts_telemetry_status",
   set_cgs_runtime_options |-> "cgs_runtime_options",
   set_constitution        |-> "constitution",
   set_js_app              |-> "modules"]

Tables == Range(TableOf)

\* Final versions of a contract or a member document carry the proposal that
\* accepted them and its votes; every other table holds what was proposed.
KeepsVotes == {"set_contract", "set_member_document"}

RuntimeOptions ==
  {"autoapprove-constitution-proposal", "autoapprove-jsapp-proposal",
   "autoapprove-deploymentspec-proposal", "autoapprove-deploymentinfo-proposal",
   "autoapprove-cleanroompolicy-proposal"}

\* The actions an operator's proposal may consist of.
OperatorActions ==
  {"add_snp_uvm_endorsement", "remove_ca_cert_bundle", "remove_jwt_issuer",
   "remove_node", "remove_snp_minimum_tcb_version", "remove_snp_uvm_endorsement",
   "set_ca_cert_bundle", "set_jwt_issuer", "set_node_certificate_validity",
   "set_node_data", "set_service_certificate_validity", "set_recovery_threshold",
   "set_snp_minimum_tcb_version_hex", "transition_node_to_trusted",
   "transition_service_to_open", "trigger_ledger_chunk", "trigger_snapshot"}

\* An action a member can propose.  The recovery threshold stays what it is.
WellFormed(a) ==
  \/ a.name \in DOMAIN TableOf /\ a.id \in Ids /\ a.data \in Data
  \/ /\ a.name \in {"set_member", "set_member_data"}
     /\ a.id \in Members /\ a.data \in SUBSET Role
  \/ a.name = "remove_member" /\ a.id \in Members /\ a.data \in Members \cup {Absent}
  \/ a.name \in OperatorActions \ {"set_recovery_threshold"}

ASSUME ConstantsAssumption ==
  /\ IsFiniteSet(Members)
  /\ InitialStatus \in [Members -> Status]
  /\ InitialRoles \in [Members -> SUBSET Role]
  /\ RuntimeOptions \subseteq Ids
  /\ {"enabled", "disabled"} \subseteq Data
  /\ Absent \notin Data
  /\ Absent \notin Members

ASSUME CatalogAssumption ==
  \A k \in DOMAIN Catalog : /\ Catalog[k] \in Seq(Range(Catalog[k]))
                            /\ \A a \in Range(Catalog[k]) : WellFormed(a)

Registered(m) == memberStatus[m] # "None"

HasRole(m, r) == r \in memberRoles[m]

\* A member that is none of operator, recovery operator, CGS operator and
\* contract operator: the members whose votes count.
IsCgsMember(m) == memberRoles[m] = {}

\* A mutant: operators count as active members.
ActiveCgsMembersAll == {m \in Members : memberStatus[m] = "Active"}

ActiveCgsMembers == {m \in Members : memberStatus[m] = "Active" /\ IsCgsMember(m)}

AcceptedCgsMembers == {m \in Members : memberStatus[m] = "Accepted" /\ IsCgsMember(m)}

isRuntimeOptionEnabled(option) == kv["cgs_runtime_options"][option] = "enabled"

-----------------------------------------------------------------------------
(***************************************************************************)
(* Which actions pass without the members' votes, and which they can veto. *)
(***************************************************************************)
\* remove_member is recognised by the certificate in its arguments (a.data),
\* although it is applied to its member_id (a.id).
canOperatorPass(a) ==
  \/ a.name \in OperatorActions
  \/ a.name = "set_member" /\ "isOperator" \in a.data
  \/ a.name = "remove_member" /\ a.data \in Members /\ HasRole(a.data, "isOperator")

\* pemToId() of a missing certificate, and getMemberInfo() of a member that
\* is not registered, throw.
OperatorPassThrows(a) ==
  a.name = "remove_member" /\ (a.data \notin Members \/ ~Registered(a.data))

canCgsOperatorPass(a) ==
  \/ /\ a.name = "set_constitution"
     /\ isRuntimeOptionEnabled("autoapprove-constitution-proposal")
  \/ /\ a.name = "set_js_app"
     /\ isRuntimeOptionEnabled("autoapprove-jsapp-proposal")

canContractOperatorPass(a) ==
  \/ /\ a.name = "set_deployment_spec"
     /\ isRuntimeOptionEnabled("autoapprove-deploymentspec-proposal")
  \/ /\ a.name = "set_deployment_info"
     /\ isRuntimeOptionEnabled("autoapprove-deploymentinfo-proposal")
  \/ /\ a.name = "set_clean_room_policy"
     /\ isRuntimeOptionEnabled("autoapprove-cleanroompolicy-proposal")

canAutoAccept(a) ==
  a.name \in {"set_contract_runtime_options_disable_telemetry",
              "set_contract_runtime_options_disable_logging"}

canVetoAction(a) ==
  a.name \in {"set_contract", "set_clean_room_policy", "set_deployment_spec",
              "set_deployment_info", "set_contract_runtime_options_enable_logging",
              "set_contract_runtime_options_enable_telemetry", "set_member_document"}

needsAcceptedMembersToVote(a) == a.name = "set_contract"

Every(acts, Test(_)) == \A i \in DOMAIN acts : Test(acts[i])

Some(acts, Test(_)) == \E i \in DOMAIN acts : Test(acts[i])

is_set_contract(a) == a.name = "set_contract"

is_set_member_document(a) == a.name = "set_member_document"

-----------------------------------------------------------------------------
(***************************************************************************)
(* resolve().  P and info are the proposals and proposals_info tables as   *)
(* the function reads them: with the new proposal or ballot recorded.      *)
(***************************************************************************)

\* Action i of proposal q is an action called name, for id, and q is open.
OccursOpen(P, info, q, i, name, id) ==
  info[q].state = "Open" /\ P[q][i].name = name /\ P[q][i].id = id

\* Mutants: only accepted ids are found, or only ids of open proposals.
AcceptedBefore(P, info, name, id) == kv[TableOf[name]][id] # Absent

OpenTwice(P, info, name, id) ==
  \E q, r \in ProposalIds : \E i \in DOMAIN P[q], j \in DOMAIN P[r] :
    /\ <<q, i>> # <<r, j>>
    /\ OccursOpen(P, info, q, i, name, id)
    /\ OccursOpen(P, info, r, j, name, id)

\* The id was accepted before, or occurs more than once in open proposals:
\* the proposal being resolved is open itself and counts as one.
proposal_already_exists(P, info, name, id) ==
  \/ kv[TableOf[name]][id] # Absent
  \/ \E q, r \in ProposalIds : \E i \in DOMAIN P[q], j \in DOMAIN P[r] :
       /\ <<q, i>> # <<r, j>>
       /\ OccursOpen(P, info, q, i, name, id)
       /\ OccursOpen(P, info, r, j, name, id)

contractId_proposal_already_exists(P, info, id) ==
  proposal_already_exists(P, info, "set_contract", id)

documentId_proposal_already_exists(P, info, id) ==
  proposal_already_exists(P, info, "set_member_document", id)

\* A proposal of operator actions only, as Array.every() finds it: it stops
\* at the first action that is not one, and throws where the test throws.
OperatorResolveThrows(acts, proposer) ==
  \/ \E i \in DOMAIN acts : /\ OperatorPassThrows(acts[i])
                            /\ \A j \in 1 .. i - 1 : canOperatorPass(acts[j])
  \/ Every(acts, canOperatorPass) /\ ~Registered(proposer)

operatorResolve(acts, proposer) ==
  Every(acts, canOperatorPass) /\ HasRole(proposer, "isOperator")

Yes(ballots) == {m \in Members : ballots[m] = "yes"}

No(ballots) == {m \in Members : ballots[m] = "no"}

\* The yes votes of members without an operator role.
MemberVotes(ballots) == {m \in Yes(ballots) : IsCgsMember(m)}

SetContractConflict(P, info, acts) ==
  \/ ~Every(acts, is_set_contract)
  \/ \E i, j \in DOMAIN acts : i # j /\ acts[i].id = acts[j].id
  \/ \E i \in DOMAIN acts : contractId_proposal_already_exists(P, info, acts[i].id)

\* args.documentId is looked up for every action in turn: a document that
\* exists stops the search, an action without a documentId throws.
SetDocumentConflict(P, info, acts) ==
  \E i \in DOMAIN acts :
    /\ \A j \in 1 .. i : is_set_member_document(acts[j])
    /\ documentId_proposal_already_exists(P, info, acts[i].id)

\* A mutant: members that are yet to become active are not waited for.
QuorumOfActive(acts, ballots) ==
  Cardinality(MemberVotes(ballots)) = Cardinality(ActiveCgsMembers)

Quorum(acts, ballots) ==
  /\ Cardinality(MemberVotes(ballots)) = Cardinality(ActiveCgsMembers)
  /\ Some(acts, needsAcceptedMembersToVote) => AcceptedCgsMembers = {}

\* The outcome of resolve() for proposal p: "Accepted", "Rejected", "Open",
\* or "Throw" when it raises an exception.
Resolve(P, info, p) ==
  LET acts == P[p]
      ballots == info[p].ballots
      proposer == info[p].proposerId
  IN  IF OperatorResolveThrows(acts, proposer) THEN "Throw"
      ELSE IF operatorResolve(acts, proposer) THEN "Accepted"
      ELSE IF Some(acts, canVetoAction) /\ No(ballots) # {} THEN "Rejected"
      ELSE IF Some(acts, is_set_contract) /\ SetContractConflict(P, info, acts)
           THEN "Rejected"
      ELSE IF Some(acts, is_set_member_document) /\ SetDocumentConflict(P, info, acts)
           THEN "Rejected"
      ELSE IF \/ /\ Some(acts, is_set_member_document)
                 /\ ~Every(acts, is_set_member_document)
              \/ \E m \in Yes(ballots) : ~Registered(m)
           THEN "Throw"
      ELSE IF Every(acts, canAutoAccept) \/ Quorum(acts, ballots) THEN "Accepted"
      ELSE IF Every(acts, canCgsOperatorPass) /\ ~Registered(proposer) THEN "Throw"
      ELSE IF Every(acts, canCgsOperatorPass) /\ HasRole(proposer, "cgsOperator")
           THEN "Accepted"
      ELSE IF Every(acts, canContractOperatorPass) /\ ~Registered(proposer)
           THEN "Throw"
      ELSE IF Every(acts, canContractOperatorPass) /\ HasRole(proposer, "contractOperator")
           THEN "Accepted"
      ELSE "Open"

-----------------------------------------------------------------------------
(***************************************************************************)
(* validate(), run when a proposal is submitted, and apply(), run when it  *)
(* is accepted.                                                            *)
(***************************************************************************)
\* A mutant: deployment specs are not checked.
RequiresAcceptedContractNoSpec ==
  {"set_deployment_info", "set_clean_room_policy",
   "set_contract_runtime_options_enable_logging",
   "set_contract_runtime_options_disable_logging",
   "set_contract_runtime_options_enable_telemetry",
   "set_contract_runtime_options_disable_telemetry"}

RequiresAcceptedContract ==
  {"set_deployment_spec", "set_deployment_info", "set_clean_room_policy",
   "set_contract_runtime_options_enable_logging",
   "set_contract_runtime_options_disable_logging",
   "set_contract_runtime_options_enable_telemetry",
   "set_contract_runtime_options_disable_telemetry"}

ValidAction(a) ==
  /\ a.name \in RequiresAcceptedContract => kv["accepted_contracts"][a.id] # Absent
  /\ a.name = "set_cgs_runtime_options" =>
       a.id \in RuntimeOptions /\ a.data \in {"enabled", "disabled"}

validate(acts) == Every(acts, ValidAction)

\* The status and the roles of member m once the first n actions are applied.
StatusAfter(acts, n, m) ==
  LET writes == {i \in 1 .. n : /\ acts[i].name \in {"set_member", "remove_member"}
                                /\ acts[i].id = m}
  IN  IF writes = {} THEN memberStatus[m]
      ELSE IF acts[Max(writes)].name = "set_member" THEN "Accepted" ELSE "None"

RolesAfter(acts, n, m) ==
  LET writes == {i \in 1 .. n :
                   /\ acts[i].name \in {"set_member", "set_member_data", "remove_member"}
                   /\ acts[i].id = m}
  IN  IF writes = {} THEN memberRoles[m]
      ELSE IF acts[Max(writes)].name = "remove_member" THEN {}
      ELSE acts[Max(writes)].data

\* set_member_data of an unknown member throws, and so does remove_member
\* when too few active recovery members would be left.
ApplyThrows(acts) ==
  \E i \in DOMAIN acts :
    \/ /\ acts[i].name = "set_member_data"
       /\ StatusAfter(acts, i - 1, acts[i].id) = "None"
    \/ LET recoverers == {m \in RecoveryMembers : StatusAfter(acts, i - 1, m) = "Active"}
       IN  /\ acts[i].name = "remove_member"
           /\ acts[i].id \in recoverers
           /\ Cardinality(recoverers) - 1 < RecoveryThreshold

\* A mutant: the id of the contract is stored in place of the proposal's.
StoredItemOwnId(a, p, ballots) ==
  IF a.name \in KeepsVotes
  THEN [data |-> a.data, proposalId |-> a.id, finalVotes |-> ballots] ELSE a.data

\* What action a of proposal p stores: the runtime options of a contract are
\* set by the name of the action alone.
StoredItem(a, p, ballots) ==
  IF a.name \in KeepsVotes
  THEN [data |-> a.data, proposalId |-> p, finalVotes |-> ballots]
  ELSE IF a.name \in {"set_contract_runtime_options_enable_logging",
                      "set_contract_runtime_options_enable_telemetry"} THEN "enabled"
  ELSE IF a.name \in {"set_contract_runtime_options_disable_logging",
                      "set_contract_runtime_options_disable_telemetry"} THEN "disabled"
  ELSE a.data

\* The actions are applied in order: the last one that writes a key wins.
TablesAfter(acts, p, ballots) ==
  [t \in Tables |-> [id \in Ids |->
     LET writes == {i \in DOMAIN acts : /\ acts[i].name \in DOMAIN TableOf
                                        /\ TableOf[acts[i].name] = t
                                        /\ acts[i].id = id}
     IN  IF writes = {} THEN kv[t][id] ELSE StoredItem(acts[Max(writes)], p, ballots)]]

\* A mutant: the other proposals stay open.
KeepOtherOpenProposals(info, p) == info

\* set_constitution drops every other open proposal.
invalidateOtherOpenProposals(info, p) ==
  [q \in ProposalIds |-> IF q # p /\ info[q].state = "Open"
                         THEN [info[q] EXCEPT !.state = "Dropped"] ELSE info[q]]

is_set_constitution(a) == a.name = "set_constitution"

apply(acts, info, p) ==
  /\ ~ApplyThrows(acts)
  /\ memberStatus' = [m \in Members |-> StatusAfter(acts, Len(acts), m)]
  /\ memberRoles' = [m \in Members |-> RolesAfter(acts, Len(acts), m)]
  /\ kv' = TablesAfter(acts, p, info[p].ballots)
  /\ proposalsInfo' = IF Some(acts, is_set_constitution)
                      THEN invalidateOtherOpenProposals(info, p) ELSE info

-----------------------------------------------------------------------------
(***************************************************************************)
(* The requests members send.                                              *)
(***************************************************************************)

EmptyInfo(state) ==
  [state |-> state, proposerId |-> Absent, ballots |-> [m \in Members |-> "none"]]

\* When a proposal leaves the open state, CCF removes every other proposal
\* that is not open from both tables: only the latest decision is kept.
Keeps(info, p, q) == q = p \/ info[q].state \in {"None", "Open"}

PrunedProposals(P, info, p) ==
  [q \in ProposalIds |-> IF Keeps(info, p, q) THEN P[q] ELSE <<>>]

PrunedInfo(info, p) ==
  [q \in ProposalIds |-> IF Keeps(info, p, q) THEN info[q] ELSE EmptyInfo("Pruned")]

\* CCF calls resolve() once the proposal or the ballot is recorded, and
\* follows its outcome.
Settle(P, info, p) ==
  LET outcome == Resolve(P, info, p)
      decided == [info EXCEPT ![p].state = outcome]
  IN  \/ /\ outcome = "Open"
         /\ proposals' = P
         /\ proposalsInfo' = info
         /\ UNCHANGED <<memberStatus, memberRoles, kv>>
      \/ /\ outcome = "Rejected"
         /\ proposals' = PrunedProposals(P, decided, p)
         /\ proposalsInfo' = PrunedInfo(decided, p)
         /\ UNCHANGED <<memberStatus, memberRoles, kv>>
      \/ /\ outcome = "Accepted"
         /\ proposals' = PrunedProposals(P, decided, p)
         /\ apply(P[p], PrunedInfo(decided, p), p)

\* POST gov/members/proposals:create
CreateProposal(m, k, p) ==
  /\ memberStatus[m] = "Active"
  /\ proposalsInfo[p].state = "None"
  /\ validate(Catalog[k])
  /\ Settle([proposals EXCEPT ![p] = Catalog[k]],
            [proposalsInfo EXCEPT ![p] = [EmptyInfo("Open") EXCEPT !.proposerId = m]],
            p)

\* POST gov/members/proposals/{p}/ballots/{m}:submit
SubmitBallot(m, p, v) ==
  /\ memberStatus[m] = "Active"
  /\ proposalsInfo[p].state = "Open"
  /\ proposalsInfo[p].ballots[m] = "none"
  /\ Settle(proposals, [proposalsInfo EXCEPT ![p].ballots[m] = v], p)

\* POST gov/members/proposals/{p}:withdraw
WithdrawProposal(m, p) ==
  /\ memberStatus[m] = "Active"
  /\ proposalsInfo[p].state = "Open"
  /\ proposalsInfo[p].proposerId = m
  /\ LET withdrawn == [proposalsInfo EXCEPT ![p].state = "Withdrawn"]
     IN  /\ proposals' = PrunedProposals(proposals, withdrawn, p)
         /\ proposalsInfo' = PrunedInfo(withdrawn, p)
  /\ UNCHANGED <<memberStatus, memberRoles, kv>>

\* POST gov/members/state-digests/{m}:ack
AckStateDigest(m) ==
  /\ memberStatus[m] = "Accepted"
  /\ memberStatus' = [memberStatus EXCEPT ![m] = "Active"]
  /\ UNCHANGED <<memberRoles, proposals, proposalsInfo, kv>>

Init ==
  /\ memberStatus = InitialStatus
  /\ memberRoles = InitialRoles
  /\ proposals = [p \in ProposalIds |-> <<>>]
  /\ proposalsInfo = [p \in ProposalIds |-> EmptyInfo("None")]
  /\ kv = [t \in Tables |-> [id \in Ids |-> Absent]]

Next ==
  \/ \E m \in Members, k \in DOMAIN Catalog, p \in ProposalIds : CreateProposal(m, k, p)
  \/ \E m \in Members, p \in ProposalIds, v \in {"yes", "no"} : SubmitBallot(m, p, v)
  \/ \E m \in Members, p \in ProposalIds : WithdrawProposal(m, p)
  \/ \E m \in Members : AckStateDigest(m)

Spec == Init /\ [][Next]_vars

-----------------------------------------------------------------------------
(***************************************************************************)
(* Properties.                                                             *)
(***************************************************************************)

IsProposal(acts) == acts = <<>> \/ \E k \in DOMAIN Catalog : acts = Catalog[k]

ProposalInfo ==
  [state : ProposalState, proposerId : Members \cup {Absent}, ballots : [Members -> Vote]]

AcceptedItem == [data : Data, proposalId : ProposalIds, finalVotes : [Members -> Vote]]

ItemsOf(t) ==
  IF t \in {"accepted_contracts", "accepted_member_documents"} THEN AcceptedItem ELSE Data

\* Every table holds what its actions store: an accepted contract or document
\* with the proposal and the votes that accepted it.
TypeOK ==
  /\ memberStatus \in [Members -> Status]
  /\ memberRoles \in [Members -> SUBSET Role]
  /\ DOMAIN proposals = ProposalIds
  /\ \A p \in ProposalIds : IsProposal(proposals[p])
  /\ proposalsInfo \in [ProposalIds -> ProposalInfo]
  /\ DOMAIN kv = Tables
  /\ \A t \in Tables : kv[t] \in [Ids -> {Absent} \cup ItemsOf(t)]

\* A contract or a member document is the subject of at most one action of at
\* most one open proposal, so two versions of it are never voted on together:
\* a later proposal for the same id is rejected by resolve() when it is created.
OpenAtMostOnce ==
  \A name \in KeepsVotes, id \in Ids, q, r \in ProposalIds :
    \A i \in DOMAIN proposals[q], j \in DOMAIN proposals[r] :
      /\ OccursOpen(proposals, proposalsInfo, q, i, name, id)
      /\ OccursOpen(proposals, proposalsInfo, r, j, name, id)
      => q = r /\ i = j

KeepsAccepted ==
  \A name \in KeepsVotes, id \in Ids :
    kv[TableOf[name]][id] # Absent => kv'[TableOf[name]][id] = kv[TableOf[name]][id]

\* An accepted contract or member document never changes again, although the
\* apply() of set_contract and set_member_document overwrites the table without
\* looking: resolve() has to reject every later proposal for the same id.
AcceptedIsFinal == [][KeepsAccepted]_vars

AcceptsUnanimously ==
  \A c \in Ids :
    LET before == kv["accepted_contracts"][c]
        after  == kv'["accepted_contracts"][c]
    IN  before = Absent /\ after # Absent =>
          /\ AcceptedCgsMembers = {}
          /\ \A m \in ActiveCgsMembers : after.finalVotes[m] = "yes"
          /\ No(after.finalVotes) = {}

\* A contract is accepted only with the yes vote of every active member that
\* has no operator role, while no such member is still to become active, and
\* without a no vote of anyone: resolve() compares two counts, and the votes it
\* counts were cast under earlier memberships and roles.
ContractNeedsEveryMember == [][AcceptsUnanimously]_vars

\* Deployment information and logging and telemetry options exist only for
\* accepted contracts: validate() checks it when the proposal is created, the
\* table is written when it is accepted, any number of steps later.
OptionsNeedContract ==
  \A c \in Ids, t \in {"deployment_specs", "deployment_info",
                       "contracts_logging_status", "contracts_telemetry_status"} :
    kv[t][c] # Absent => kv["accepted_contracts"][c] # Absent

DropsOpenProposals ==
  kv'["constitution"] # kv["constitution"]
    => \A p \in ProposalIds : proposalsInfo'[p].state # "Open"

\* No proposal stays open across a change of the constitution it would be
\* resolved by: set_constitution drops every other open proposal.
ConstitutionChangeDropsProposals == [][DropsOpenProposals]_vars

\* An open proposal that members can veto waits for the ballot of someone who
\* is registered: were every registered member's vote already in, nothing would
\* run resolve() again and the proposal would stay open, its ids blocked, until
\* it is withdrawn.  True as long as members join and change roles, but are
\* neither removed nor registered again.
NoStrandedProposal ==
  \A p \in ProposalIds :
    proposalsInfo[p].state = "Open" /\ Some(proposals[p], canVetoAction)
      => \E m \in Members : Registered(m) /\ proposalsInfo[p].ballots[m] = "none"

\* By default, when no operator passes proposals alone, the application's
\* modules are replaced only with the yes vote of every active member.
JsAppNeedsEveryMember ==
  [][\A p \in ProposalIds :
       /\ proposalsInfo[p].state = "Open" /\ proposalsInfo'[p].state = "Accepted"
       /\ \E i \in DOMAIN proposals[p] : proposals[p][i].name = "set_js_app"
       => \A m \in ActiveCgsMembers : proposalsInfo'[p].ballots[m] = "yes"]_vars
=============================================================================
