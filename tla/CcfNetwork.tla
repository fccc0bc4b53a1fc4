----------------------------- MODULE CcfNetwork -----------------------------
(***************************************************************************)
(* How the CCF provider changes the number of nodes of a running network:  *)
(* UpdateNetwork of CcfNetworkProvider.cs, its node addition, removal and  *)
(* replacement, driven by a client that may crash between any two steps    *)
(* and is called again.                                                    *)
(*                                                                         *)
(* Two systems are kept in step.  The infra provider knows machines by     *)
(* NAME (network name and ordinal); CCF knows nodes by node id, and keeps  *)
(* the name of the machine in the node's data.  A name is used again once  *)
(* its machine is gone, so a node is a pair <<ordinal, incarnation>>.      *)
(***************************************************************************)
EXTENDS Naturals, FiniteSets, FiniteSetsExt

CONSTANTS
  MaxOrdinal,       \* bound: the infra has room for the names 0..MaxOrdinal
  MaxIncarnation,   \* bound: nodes of one name that CCF lists at a time
  Targets,          \* the node counts the operator asks for
  MaxCrashes,       \* bound: crashes of the client
  MaxLost           \* bound: DELETEs refused and cleanup waits that time out

Names == 0 .. MaxOrdinal
NodeIds == Names \X (1 .. MaxIncarnation)

ASSUME BoundsAssumption ==
  /\ MaxOrdinal \in Nat \ {0} /\ MaxIncarnation \in Nat \ {0}
  /\ MaxCrashes \in Nat /\ MaxLost \in Nat /\ Targets \subseteq Nat

VARIABLES
  machine,   \* infra: name -> the incarnation its machine runs, 0 for no machine
  sick,      \* infra: the names whose health is NeedsReplacement
  status,    \* CCF: the status of every node ("none": not listed)
  primary,   \* CCF: the primary of the consensus
  lb,        \* the names the load balancer serves
  pc,        \* the client: the phase of the UpdateNetwork call it is in
  task,      \* the client: the step each of its parallel tasks is at
  target,    \* the client: nodeCount
  prim,      \* the client: primaryNodeId, read when the call started
  changed,   \* the client: retiredAny || addedAny || removedAny
  crashes, lost

ccf == <<status, primary>>
infra == <<machine, sick>>
call == <<target, prim, changed>>
budget == <<crashes, lost>>
vars == <<machine, sick, status, primary, lb, pc, task, target, prim, changed,
          crashes, lost>>

Phases == {"idle", "cleanup", "add", "remove", "replace", "drop", "done"}
JoinSteps == {"create", "appear", "ready"}
RemoveSteps == {"propose", "retired", "removable", "delete", "forget"}
Steps == JoinSteps \cup RemoveSteps \cup {"none", "held", "failed"}
Statuses == {"none", "Pending", "Trusted", "Retired", "Removable"}

NoTasks == [n \in NodeIds |-> "none"]
Listed == {n \in NodeIds : status[n] # "none"}
Trusted == {n \in NodeIds : status[n] = "Trusted"}
RetiredNodes == {n \in NodeIds : status[n] \in {"Retired", "Removable"}}
Machines == {o \in Names : machine[o] # 0}          \* nodeProvider.GetNodes

(* The network CreateNetwork leaves: nodes 0 and 1 are trusted and served. *)
Init ==
  /\ machine = [o \in Names |-> IF o < 2 THEN 1 ELSE 0]
  /\ sick = {}
  /\ status = [n \in NodeIds |-> IF n \in {<<0, 1>>, <<1, 1>>} THEN "Trusted" ELSE "none"]
  /\ primary = <<0, 1>>
  /\ lb = {0, 1}
  /\ pc = "idle" /\ task = NoTasks
  /\ target = 2 /\ prim = <<0, 1>> /\ changed = FALSE
  /\ crashes = 0 /\ lost = 0

-----------------------------------------------------------------------------
(* CCF and the infra, which the client does not control.                   *)

(* A machine that came up asks the primary to join and is listed as Pending. *)
Join(n) ==
  /\ machine[n[1]] = n[2] /\ n[1] \notin sick
  /\ status[n] = "none"
  /\ status' = [status EXCEPT ![n] = "Pending"]
  /\ UNCHANGED <<infra, primary, lb, pc, task, call, budget>>

(* The retirement of a node is committed: removable_nodes lists the node.  *)
CommitRetirement(n) ==
  /\ status[n] = "Retired"
  /\ status' = [status EXCEPT ![n] = "Removable"]
  /\ UNCHANGED <<infra, primary, lb, pc, task, call, budget>>

(* An election: another trusted node becomes the primary.                  *)
Elect(n) ==
  /\ status[n] = "Trusted" /\ n # primary
  /\ primary' = n
  /\ UNCHANGED <<infra, status, lb, pc, task, call, budget>>

(* A machine fails and its health becomes NeedsReplacement for good.       *)
FallSick(o) ==
  /\ machine[o] # 0 /\ o \notin sick
  /\ sick' = sick \cup {o}
  /\ UNCHANGED <<machine, ccf, lb, pc, task, call, budget>>

-----------------------------------------------------------------------------
(* The tasks of AddNodes.  A task that throws leaves its machine behind.   *)

Throw(n) == task' = [task EXCEPT ![n] = "failed"]
Advance(n, step) == task' = [task EXCEPT ![n] = step]
OnlyTask == UNCHANGED <<ccf, infra, lb, pc, call, budget>>

(* CreateJoinNode, which fails when the infra has no room for the name, and *)
(* the health check before the wait.                                       *)
CreateJoinNode(n) ==
  /\ task[n] = "create"
  /\ \/ /\ machine' = [machine EXCEPT ![n[1]] = n[2]]
        /\ Advance(n, "appear")
        /\ UNCHANGED <<sick, ccf, lb, pc, call, budget>>
     \/ Throw(n) /\ OnlyTask

(* WaitForNodeToAppearOnNetwork looks for a Pending or Trusted node of that *)
(* NAME and checks the health of the machine on every retry; a Pending node *)
(* is then proposed to be trusted.  The wait may also time out.            *)
OfName(o) == {m \in NodeIds : m[1] = o /\ status[m] \in {"Pending", "Trusted"}}
WaitForJoinNode(n) ==
  /\ task[n] = "appear"
  /\ \/ \E m \in OfName(n[1]) :
          /\ status' = [status EXCEPT ![m] = "Trusted"]
          /\ Advance(n, "ready")
          /\ UNCHANGED <<infra, primary, lb, pc, call, budget>>
     \/ Throw(n) /\ OnlyTask

(* The wait for PartOfNetwork: reached by a machine that is up, or timed out. *)
WaitForPartOfNetwork(n) ==
  /\ task[n] = "ready"
  /\ \/ n[1] \notin sick /\ Advance(n, "none")
     \/ Throw(n)
  /\ OnlyTask

-----------------------------------------------------------------------------
(* The tasks of RemoveNodes and, from "removable" on, CleanupRetiredNodes. *)

(* remove_node deletes the entry of a Pending node and retires a trusted one. *)
RemoveNodeAction(s) == IF s = "Pending" THEN "none" ELSE "Retired"
ProposeRemoveNode(n) ==
  /\ task[n] = "propose"
  /\ status' = [status EXCEPT ![n] = RemoveNodeAction(@)]
  /\ Advance(n, "retired")
  /\ primary' \in IF n = primary THEN Trusted \ {n} ELSE {primary}
  /\ UNCHANGED <<infra, lb, pc, call, budget>>

(* Mutant: the machine is deleted without the wait for removable_nodes.    *)
RetiredIsEnough(n) == status[n] \in {"Retired", "Removable"}
IsRemovable(n) == status[n] = "Removable"

WaitForNodeStatus(n) ==
  /\ task[n] = "retired"
  /\ \/ status[n] \in {"Retired", "Removable"} /\ Advance(n, "removable")
     \/ Throw(n)
  /\ OnlyTask

(* A timeout ends a removal; the cleanup ignores it (CCF issue 6604).      *)
WaitForNodeToAppearAsRemovable(n) ==
  /\ task[n] = "removable"
  /\ \/ IsRemovable(n) /\ Advance(n, "delete") /\ UNCHANGED budget
     \/ pc # "cleanup" /\ Throw(n) /\ UNCHANGED budget
     \/ /\ pc = "cleanup" /\ lost < MaxLost
        /\ lost' = lost + 1 /\ UNCHANGED crashes
        /\ Advance(n, "none")
  /\ UNCHANGED <<ccf, infra, lb, pc, call>>

(* Mutant: the health of a machine outlives the machine.                   *)
DeleteMachineOnly(n) ==
  /\ task[n] = "delete"
  /\ machine' = [machine EXCEPT ![n[1]] = 0]
  /\ Advance(n, "forget")
  /\ UNCHANGED <<sick, ccf, lb, pc, call, budget>>

(* DeleteNode deletes whatever machine has the NAME in the node's data.    *)
DeleteNode(n) ==
  /\ task[n] = "delete"
  /\ machine' = [machine EXCEPT ![n[1]] = 0]
  /\ sick' = sick \ {n[1]}
  /\ Advance(n, "forget")
  /\ UNCHANGED <<ccf, lb, pc, call, budget>>

(* DELETE /node/network/nodes/{id}: the status of the response is not read, *)
(* so a refused request looks like one that succeeded.                     *)
ForgetNode(n) ==
  /\ task[n] = "forget"
  /\ Advance(n, "none")
  /\ \/ status' = [status EXCEPT ![n] = "none"] /\ UNCHANGED budget
     \/ /\ lost < MaxLost
        /\ lost' = lost + 1 /\ UNCHANGED <<status, crashes>>
  /\ UNCHANGED <<primary, infra, lb, pc, call>>

-----------------------------------------------------------------------------
(* UpdateNetwork.                                                          *)

(* Mutant: the call goes straight to the counts.                           *)
NoneRetired == {}
NodesToClean == RetiredNodes

RemoveTasks(S) ==
  [n \in NodeIds |-> IF n \notin S THEN "none"
                     ELSE IF n \in RetiredNodes THEN "removable" ELSE "propose"]

UpdateNetwork(count) ==
  /\ pc = "idle" /\ count >= 1
  /\ machine[primary[1]] # 0
  /\ pc' = "cleanup" /\ target' = count /\ prim' = primary
  /\ task' = RemoveTasks(NodesToClean)
  /\ changed' = (NodesToClean # {})
  /\ UNCHANGED <<ccf, infra, lb, budget>>

(* Task.WhenAll: the phase is over when every task is, and throws if one did. *)
WhenAll(phase) == pc = phase /\ \A n \in NodeIds : task[n] \in {"none", "held"}

Return(phase) ==
  /\ pc' = phase
  /\ task' = NoTasks
  /\ UNCHANGED <<ccf, infra, lb, call, budget>>

UpdateThrows ==
  /\ \A n \in NodeIds : task[n] \in {"none", "held", "failed"}
  /\ \E n \in NodeIds : task[n] = "failed"
  /\ Return("idle")

(* AddNodes: the next ordinals after the highest one of the infra.  A name *)
(* the infra has no room for is a CreateJoinNode that throws.              *)
FreshId(o) ==
  <<o, Min({k \in 1 .. MaxIncarnation : status[<<o, k>>] = "none"} \cup {MaxIncarnation})>>
(* Mutant: the names go on from the number of machines.                    *)
NamesFromCount(num) == Cardinality(Machines) .. (Cardinality(Machines) + num - 1)
NewNames(num) == (Max(Machines) + 1) .. (Max(Machines) + num)
HasRoom(num) == \A o \in NewNames(num) :
                  o \in Names /\ \E k \in 1 .. MaxIncarnation : status[<<o, k>>] = "none"

AddNodes(phase, num, held) ==
  IF HasRoom(num)
  THEN /\ pc' = phase
       /\ task' = [n \in NodeIds |-> IF n[1] \in NewNames(num) /\ n = FreshId(n[1]) THEN "create"
                                     ELSE IF n \in held THEN "held" ELSE "none"]
       /\ changed' = TRUE
       /\ UNCHANGED <<ccf, infra, lb, target, prim, budget>>
  ELSE Return("idle")

ScaleUp ==
  /\ WhenAll("cleanup") /\ target > Cardinality(Machines)
  /\ AddNodes("add", target - Cardinality(Machines), {})

(* PickNodesToRemove: nodes whose machine needs replacement first, then the *)
(* nodes the primary hears acks from, slowest first (any order here).      *)
Unhealthy == {n \in Listed \ RetiredNodes : n[1] \in sick}
Candidates == Unhealthy \cup (Trusted \ {prim})
Picks(num) ==
  {S \in SUBSET Candidates :
     /\ Cardinality(S) = Min({num, Cardinality(Candidates)})
     /\ S \subseteq Unhealthy \/ Unhealthy \subseteq S}

(* Mutant: any pick is removed, the primary of the call included.          *)
AnyPick(S) == TRUE
NotPrimary(S) == primary \notin S /\ prim \notin S

RemoveNodes(phase, S) ==
  /\ pc' = phase
  /\ task' = RemoveTasks(S)
  /\ changed' = (changed \/ S # {})
  /\ UNCHANGED <<ccf, infra, lb, target, prim, budget>>

ScaleDown ==
  /\ WhenAll("cleanup") /\ target < Cardinality(Machines)
  /\ \/ primary # prim /\ Return("idle")
     \/ /\ primary = prim
        /\ \E S \in Picks(Cardinality(Machines) - target) :
             IF NotPrimary(S) THEN RemoveNodes("remove", S) ELSE Return("idle")

(* The replacement of the machines that need it: new nodes are added first, *)
(* and the nodes found before that are removed after it.                   *)
Replace ==
  LET nodesToRemove == {n \in Listed : n[1] \in sick}
  IN /\ \/ WhenAll("cleanup") /\ target = Cardinality(Machines)
        \/ WhenAll("add") \/ WhenAll("remove")
     /\ IF target = Cardinality(Machines) /\ sick # {} /\ NotPrimary(nodesToRemove)
        THEN AddNodes("replace", Cardinality(sick), nodesToRemove)
        ELSE Return("done")

RemoveReplaced ==
  /\ WhenAll("replace")
  /\ RemoveNodes("drop", {n \in NodeIds : task[n] = "held"})

(* The load balancer is given the machines that are not sick, when a node was *)
(* added, removed or cleaned up; the call returns the count of the machines. *)
UpdateLoadBalancer ==
  /\ WhenAll("done") \/ WhenAll("drop")
  /\ lb' = IF changed THEN Machines \ sick ELSE lb
  /\ pc' = "idle"
  /\ UNCHANGED <<ccf, infra, task, call, budget>>

(* The client dies; what it asked of CCF and of the infra stays done.      *)
Crash ==
  /\ pc # "idle" /\ crashes < MaxCrashes
  /\ crashes' = crashes + 1
  /\ pc' = "idle" /\ task' = NoTasks
  /\ UNCHANGED <<ccf, infra, lb, call, lost>>

-----------------------------------------------------------------------------
TaskStep(n) ==
  \/ CreateJoinNode(n) \/ WaitForJoinNode(n) \/ WaitForPartOfNetwork(n)
  \/ ProposeRemoveNode(n) \/ WaitForNodeStatus(n)
  \/ WaitForNodeToAppearAsRemovable(n) \/ DeleteNode(n) \/ ForgetNode(n)

ClientStep ==
  \/ \E n \in NodeIds : TaskStep(n)
  \/ UpdateThrows \/ ScaleUp \/ ScaleDown \/ Replace \/ RemoveReplaced
  \/ UpdateLoadBalancer

Retry == \E count \in Targets : UpdateNetwork(count)

Next ==
  \/ ClientStep \/ Retry \/ Crash
  \/ \E n \in NodeIds : Join(n) \/ CommitRetirement(n) \/ Elect(n)
  \/ \E o \in Names : FallSick(o)

Spec == Init /\ [][Next]_vars

(* Every step of the client ends (each wait has a timeout), a committed    *)
(* ledger commits retirements, and the operator calls UpdateNetwork again. *)
FairSpec ==
  /\ Spec
  /\ WF_vars(ClientStep) /\ WF_vars(Retry)
  /\ \A n \in NodeIds : WF_vars(CommitRetirement(n))

-----------------------------------------------------------------------------
(* The state of the network, of the infra and of the call is well formed:  *)
(* what the client of CcfNetworkProvider works on is always a node, a name *)
(* and a phase that exist, and the primary is a trusted node.              *)
TypeOK ==
  /\ machine \in [Names -> 0 .. MaxIncarnation]
  /\ sick \subseteq Machines
  /\ status \in [NodeIds -> Statuses]
  /\ primary \in Trusted
  /\ lb \subseteq Names
  /\ pc \in Phases /\ task \in [NodeIds -> Steps]
  /\ target \in Nat /\ prim \in NodeIds /\ changed \in BOOLEAN
  /\ crashes \in 0 .. MaxCrashes /\ lost \in 0 .. MaxLost

(* A node that still counts in the consensus (trusted, or retired and not  *)
(* yet removable) keeps its machine: no removal, replacement or cleanup, of *)
(* this call or of one that crashed, takes it away.                        *)
MachineUntilRemovable ==
  \A n \in NodeIds : status[n] \in {"Trusted", "Retired"} => machine[n[1]] = n[2]

(* The primary a call started from stays a trusted node while the call runs, *)
(* whatever elections and sick machines it meets: UpdateNetwork never      *)
(* removes the node all its requests go through.                           *)
PickedPrimaryStays == pc # "idle" => status[prim] = "Trusted"

(* "Clean up any nodes already in Retired state": a node that a failed or  *)
(* crashed call left retired is forgotten by CCF in a later call.          *)
RetiredIsCleaned ==
  \A n \in NodeIds : (status[n] = "Retired") ~> (status[n] = "none")

(* What the cleanup deletes is stale: the machine CleanupRetiredNodes gives *)
(* up is never the one a trusted node runs on.                             *)
CleanupDeletesStale ==
  [][\A o \in Names : pc = "cleanup" /\ machine[o] # 0 /\ machine'[o] = 0
        => status[<<o, machine[o]>>] # "Trusted"]_vars

Lifecycle == INSTANCE NodeLifecycle WITH Incarnations <- 1 .. MaxIncarnation

(* UpdateNetwork implements the life cycle of a node, across phases, calls *)
(* and crashes: a machine is created only under a name that no listed node *)
(* has and deleted only when CCF no longer needs its node, and CCF forgets *)
(* a node only once its machine is gone.                                   *)
ImplementsLifecycle == Lifecycle!LifeSpec
=============================================================================
