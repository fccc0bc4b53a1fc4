--------------------------- MODULE MCCgsGovernance ---------------------------
(***************************************************************************)
(* Instances of CgsGovernance: three or four members and the proposals     *)
(* that make each question interesting.                                    *)
(***************************************************************************)
EXTENDS CgsGovernance, TLC

CONSTANTS alice, bob, carol, op  \* members
CONSTANTS p1, p2, p3             \* proposals

ProposalSymmetry == Permutations(ProposalIds)

MCIds == {"c1", "c2", "singleton"} \cup RuntimeOptions

MCData == {"d1", "d2", "enabled", "disabled"}

\* alice and bob are active members and hold recovery keys, op operates the
\* service, and carol is not registered yet.
MCInitialStatus ==
  [m \in Members |-> IF m = carol THEN "None" ELSE "Active"]

MCInitialRoles ==
  [m \in Members |-> IF m = op THEN {"isOperator"} ELSE {}]

MCRecoveryMembers == Members \ {op}

Act(name, id, data) == [name |-> name, id |-> id, data |-> data]

\* Competing and malformed contract proposals, while carol joins and bob is
\* removed.
ContractCatalog ==
  [propose   |-> <<Act("set_contract", "c1", "d1")>>,
   compete   |-> <<Act("set_contract", "c1", "d2"), Act("set_contract", "c2", "d2")>>,
   duplicate |-> <<Act("set_contract", "c1", "d1"), Act("set_contract", "c1", "d2")>>,
   mix       |-> <<Act("set_contract", "c2", "d1"), Act("set_member", carol, {})>>,
   join      |-> <<Act("set_member", carol, {})>>,
   leave     |-> <<Act("remove_member", bob, bob)>>,
   leaveById |-> <<Act("remove_member", bob, Absent)>>]

\* bob operates the service, CGS and the contracts.
OperatorRoles ==
  [m \in Members |-> IF m = bob
                    THEN {"isOperator", "cgsOperator", "contractOperator"} ELSE {}]

\* Proposals that some operator may pass alone, the options that allow it, and
\* others that every member votes on while carol joins, bob loses all roles and
\* alice is given one; nobody is removed or registered again.
OperatorCatalog ==
  [contract     |-> <<Act("set_contract", "c1", "d1")>>,
   options      |-> <<Act("set_cgs_runtime_options", "autoapprove-deploymentspec-proposal", "enabled"),
                      Act("set_cgs_runtime_options", "autoapprove-constitution-proposal", "enabled")>>,
   spec         |-> <<Act("set_deployment_spec", "c1", "d1")>>,
   constitution |-> <<Act("set_constitution", "singleton", "d1")>>,
   logging      |-> <<Act("set_contract_runtime_options_enable_logging", "c1", "enabled")>>,
   nologging    |-> <<Act("set_contract_runtime_options_disable_logging", "c1", "enabled")>>,
   trust        |-> <<Act("transition_node_to_trusted", "n1", "n1")>>,
   document     |-> <<Act("set_member_document", "c2", "d1")>>,
   promote      |-> <<Act("set_member_data", alice, {"cgsOperator"})>>,
   demote       |-> <<Act("set_member_data", bob, {})>>]

\* carol was registered and has yet to become active.
JoinStatus == [m \in Members |-> IF m = carol THEN "Accepted" ELSE "Active"]

AllActive == [m \in Members |-> "Active"]

\* A new application is voted on while alice is registered again.
RenewCatalog ==
  [jsapp |-> <<Act("set_js_app", "singleton", "d1")>>,
   renew |-> <<Act("set_member", alice, {})>>]
=============================================================================
