------------------------- MODULE CcfNetwork_proofs -------------------------
(***************************************************************************)
(* Proofs about CcfNetwork.  What the primary of a call needs is inductive *)
(* for every value of the constants (PrimaryInv); what the machines need   *)
(* (MachineInv) rests on it, and on the assumption that no DELETE of a     *)
(* node is lost and no wait of the cleanup times out: without it the name  *)
(* of a retired node is given away and the next cleanup deletes a machine  *)
(* in use, which is what the run ccf_cleanup_by_name shows.                *)
(***************************************************************************)
EXTENDS CcfNetwork, FiniteSetTheorems, WellFoundedInduction, TLAPS

(* A nonempty set of naturals has a least element.                         *)
LEMMA HasLeast ==
  ASSUME NEW T \in SUBSET Nat, T # {}
  PROVE  \E d \in T : \A e \in T : d <= e
<1> DEFINE R == OpToRel(<, Nat)
<1>1. IsWellFoundedOn(R, Nat)
  BY NatLessThanWellFounded
<1>2. \A d, e \in Nat : <<e, d>> \in R <=> e < d
  BY DEF OpToRel
<1> HIDE DEF R
<1>3. PICK d \in T : \A e \in T : ~ (<<e, d>> \in R)
  BY <1>1, WFMin, ZenonT(30)
<1>4. \A e \in T : d <= e
  <2> TAKE e \in T
  <2>1. d \in Nat /\ e \in Nat
    OBVIOUS
  <2>2. ~ (e < d)
    BY <1>2, <1>3, <2>1, ZenonT(30)
  <2> QED
    BY <2>1, <2>2
<1> QED
  BY <1>4

(* A nonempty set of names has a highest one: the ordinal AddNodes counts  *)
(* on from.                                                                *)
LEMMA HasMax ==
  ASSUME NEW S \in SUBSET Names, S # {}
  PROVE  /\ Max(S) \in S
         /\ \A o \in S : o <= Max(S)
<1> DEFINE T == {d \in Nat : \E o \in S : d = MaxOrdinal - o}
<1>1. T \in SUBSET Nat
  OBVIOUS
<1>2. \A o \in S : o \in Nat /\ MaxOrdinal - o \in Nat
  BY BoundsAssumption DEF Names
<1>3. T # {}
  BY <1>2
<1>4. PICK d \in T : \A e \in T : d <= e
  <2> HIDE DEF T
  <2> QED BY <1>1, <1>3, HasLeast
<1>5. PICK x \in S : d = MaxOrdinal - x
  BY <1>4
<1>6. \A y \in S : x >= y
  <2> TAKE y \in S
  <2>1. MaxOrdinal - y \in T
    BY <1>2
  <2>2. d <= MaxOrdinal - y
    BY <1>4, <2>1
  <2> QED BY <1>2, <1>5, <2>2, BoundsAssumption
<1>7. \E z \in S : \A y \in S : z >= y
  BY <1>6
<1>8. Max(S) \in S /\ \A y \in S : Max(S) >= y
  BY <1>7 DEF Max
<1> QED
  BY <1>2, <1>8

-----------------------------------------------------------------------------
(* The steps a task may be at in each phase: AddNodes and the removals never *)
(* run at the same time, and an idle client has no tasks.                  *)
StepsOf(phase) ==
  CASE phase \in {"cleanup", "remove", "drop"} -> RemoveSteps \cup {"none", "failed"}
    [] phase = "add" -> JoinSteps \cup {"none", "failed"}
    [] phase = "replace" -> JoinSteps \cup {"none", "failed", "held"}
    [] OTHER -> {"none"}

(* What the primary needs: a node that is proposed for removal, or held for *)
(* it, is not the primary of the call, and only removable nodes are        *)
(* forgotten.                                                              *)
PrimaryInv ==
  /\ TypeOK
  /\ PickedPrimaryStays
  /\ \A n \in NodeIds :
       /\ task[n] \in StepsOf(pc)
       /\ task[n] \in {"propose", "held"} => n # prim
       /\ task[n] = "propose" => status[n] \in {"Pending", "Trusted"}
       /\ task[n] = "held" => status[n] # "none"
       /\ task[n] \in {"delete", "forget"} => status[n] = "Removable"

(* What the machines need, when every DELETE is answered: the name of a    *)
(* removable node has not been given to another machine, because a call    *)
(* adds machines only when nothing is retired any more.                    *)
MachineInv ==
  /\ PrimaryInv
  /\ \A n \in NodeIds :
       /\ status[n] \in {"Pending", "Trusted", "Retired"} => machine[n[1]] = n[2]
       /\ status[n] = "Removable" => machine[n[1]] \in {n[2], 0}
       /\ task[n] \in {"create", "forget"} => machine[n[1]] = 0
       /\ task[n] = "held" => status[n] \in {"Pending", "Trusted"}
       /\ n \in RetiredNodes =>
            /\ pc \notin {"add", "replace", "done"}
            /\ pc # "idle" => task[n] \in {"retired", "removable", "delete", "forget", "failed"}
  /\ \A n, m \in NodeIds : task[n] = "create" /\ task[m] = "create" /\ n[1] = m[1] => n = m

-----------------------------------------------------------------------------
(* A node id is a name and an incarnation, and nothing else.               *)
LEMMA NodeFacts ==
  /\ \A n \in NodeIds : n[1] \in Names /\ n[2] \in 1 .. MaxIncarnation
  /\ \A n, m \in NodeIds : n[1] = m[1] /\ n[2] = m[2] => n = m
  /\ <<0, 1>> \in NodeIds /\ <<1, 1>> \in NodeIds
  /\ \A o \in Names : o \in Nat
  /\ 0 \in Names /\ 1 \in Names /\ 1 \in 0 .. MaxIncarnation
  BY BoundsAssumption DEF NodeIds, Names

(* The network CreateNetwork leaves satisfies PrimaryInv.                  *)
LEMMA PrimaryInit == Init => PrimaryInv
<1> SUFFICES ASSUME Init PROVE PrimaryInv
  OBVIOUS
<1> USE NodeFacts DEF Init
<1>1. machine \in [Names -> 0 .. MaxIncarnation]
  BY BoundsAssumption
<1>2. /\ status \in [NodeIds -> Statuses] /\ primary \in Trusted
      /\ task \in [NodeIds -> Steps]
  BY DEF Statuses, Trusted, Steps, NoTasks
<1>3. TypeOK
  <2>1. sick \subseteq Machines /\ lb \subseteq Names
    OBVIOUS
  <2>2. changed \in BOOLEAN
    BY Zenon
  <2>3. /\ pc \in Phases /\ target \in Nat /\ prim \in NodeIds
        /\ crashes \in 0 .. MaxCrashes /\ lost \in 0 .. MaxLost
    BY BoundsAssumption DEF Phases
  <2> QED
    BY <1>1, <1>2, <2>1, <2>2, <2>3 DEF TypeOK
<1>4. \A n \in NodeIds : task[n] = "none"
  BY DEF NoTasks
<1>5. pc = "idle" /\ "none" \in StepsOf("idle")
  <2> HIDE NodeFacts
  <2> QED BY DEF StepsOf
<1> QED
  BY <1>3, <1>4, <1>5 DEF PrimaryInv, PickedPrimaryStays


(* Every step of UpdateNetwork, of CCF and of the infra keeps PrimaryInv.   *)
LEMMA PrimaryStep == PrimaryInv /\ [Next]_vars => PrimaryInv'
<1> SUFFICES ASSUME PrimaryInv, [Next]_vars PROVE PrimaryInv'
  OBVIOUS
<1> USE NodeFacts
<1> USE DEF PrimaryInv, TypeOK, PickedPrimaryStays, Trusted, Machines
<1>1. CASE UNCHANGED vars
  BY <1>1 DEF vars
<1>2. ASSUME NEW n \in NodeIds, Join(n) PROVE PrimaryInv'
  BY <1>2 DEF Join, infra, call, budget, Statuses
<1>3. ASSUME NEW n \in NodeIds, CommitRetirement(n) PROVE PrimaryInv'
  BY <1>3 DEF CommitRetirement, infra, call, budget, Statuses
<1>4. ASSUME NEW n \in NodeIds, Elect(n) PROVE PrimaryInv'
  BY <1>4 DEF Elect, infra, call, budget
<1>5. ASSUME NEW o \in Names, FallSick(o) PROVE PrimaryInv'
  BY <1>5 DEF FallSick, ccf, call, budget
<1>6. ASSUME NEW n \in NodeIds, CreateJoinNode(n) PROVE PrimaryInv'
  BY <1>6 DEF CreateJoinNode, Advance, Throw, OnlyTask, ccf, infra, call, budget,
     Steps, JoinSteps, RemoveSteps, StepsOf, Phases
<1>7. ASSUME NEW n \in NodeIds, WaitForJoinNode(n) PROVE PrimaryInv'
  BY <1>7 DEF WaitForJoinNode, OfName, Advance, Throw, OnlyTask, ccf, infra, call,
     budget, Steps, JoinSteps, RemoveSteps, StepsOf, Statuses, Phases
<1>8. ASSUME NEW n \in NodeIds, WaitForPartOfNetwork(n) PROVE PrimaryInv'
  BY <1>8 DEF WaitForPartOfNetwork, Advance, Throw, OnlyTask, ccf, infra, call,
     budget, Steps, JoinSteps, RemoveSteps, StepsOf, Phases
<1>9. ASSUME NEW n \in NodeIds, ProposeRemoveNode(n) PROVE PrimaryInv'
  BY <1>9 DEF ProposeRemoveNode, RemoveNodeAction, Advance, infra, call, budget,
     Steps, JoinSteps, RemoveSteps, StepsOf, Statuses, Phases
<1>10. ASSUME NEW n \in NodeIds, WaitForNodeStatus(n) PROVE PrimaryInv'
  BY <1>10 DEF WaitForNodeStatus, Advance, Throw, OnlyTask, ccf, infra, call,
     budget, Steps, JoinSteps, RemoveSteps, StepsOf, Phases
<1>11. ASSUME NEW n \in NodeIds, WaitForNodeToAppearAsRemovable(n) PROVE PrimaryInv'
  BY <1>11, BoundsAssumption DEF WaitForNodeToAppearAsRemovable, IsRemovable,
     Advance, Throw, ccf, infra, call, budget, Steps, JoinSteps, RemoveSteps,
     StepsOf, Phases
<1>12. ASSUME NEW n \in NodeIds, DeleteNode(n) PROVE PrimaryInv'
  <2> USE <1>12 DEF DeleteNode, Advance
  <2>1. machine' \in [Names -> 0 .. MaxIncarnation] /\ (sick \subseteq Machines)'
    <3>1. /\ machine' \in [Names -> 0 .. MaxIncarnation]
          /\ \A o \in Names : o # n[1] => machine'[o] = machine[o]
      BY BoundsAssumption
    <3>2. \A o \in sick' : o \in sick /\ o # n[1]
      OBVIOUS
    <3> QED
      BY <3>1, <3>2
  <2>2. /\ task' \in [NodeIds -> Steps] /\ task'[n] = "forget"
        /\ \A m \in NodeIds : m # n => task'[m] = task[m]
    BY DEF Steps, RemoveSteps
  <2>3. task[n] \in StepsOf(pc) => "forget" \in StepsOf(pc)
    BY DEF StepsOf, RemoveSteps, JoinSteps, Phases
  <2>4. UNCHANGED <<status, primary, lb, pc, target, prim, changed, crashes, lost>>
    BY DEF ccf, call, budget
  <2> HIDE <1>12 DEF DeleteNode, Advance
  <2>5. task[n] = "delete"
    BY <1>12 DEF DeleteNode
  <2>6. TypeOK'
    BY <2>1, <2>2, <2>4
  <2>7. \A m \in NodeIds : task'[m] \in StepsOf(pc')
    BY <2>2, <2>3, <2>4
  <2> QED
    BY <2>2, <2>4, <2>5, <2>6, <2>7
<1>13. ASSUME NEW n \in NodeIds, ForgetNode(n) PROVE PrimaryInv'
  BY <1>13, BoundsAssumption DEF ForgetNode, Advance, infra, call, budget, Steps,
     JoinSteps, RemoveSteps, StepsOf, Statuses, Phases
<1>14. ASSUME NEW count \in Targets, UpdateNetwork(count) PROVE PrimaryInv'
  BY <1>14, BoundsAssumption DEF UpdateNetwork, RemoveTasks, NodesToClean,
     RetiredNodes, ccf, infra, budget, Steps, JoinSteps, RemoveSteps, StepsOf,
     Statuses, Phases
<1>15. CASE Crash
  BY <1>15, BoundsAssumption DEF Crash, NoTasks, ccf, infra, call, StepsOf, Steps, Phases
<1>16. ASSUME NEW ph \in {"idle", "done"}, Return(ph), pc # "idle" PROVE PrimaryInv'
  BY <1>16 DEF Return, NoTasks, ccf, infra, call, budget, StepsOf, Steps, Phases
<1>17. ASSUME NEW ph \in {"add", "replace"}, NEW num, NEW held, AddNodes(ph, num, held), pc # "idle",
              prim \notin held, ph = "add" => held = {}, \A n \in held : n \in Listed
       PROVE PrimaryInv'
  <2>1. CASE HasRoom(num)
    <3>1. /\ pc' = ph /\ changed' = TRUE
          /\ task' = [n \in NodeIds |-> IF n[1] \in NewNames(num) /\ n = FreshId(n[1]) THEN "create"
                                        ELSE IF n \in held THEN "held" ELSE "none"]
          /\ UNCHANGED <<machine, sick, status, primary, lb, target, prim, crashes, lost>>
      BY <1>17, <2>1 DEF AddNodes, ccf, infra, budget
    <3>2. /\ task' \in [NodeIds -> Steps]
          /\ \A n \in NodeIds : /\ task'[n] \in {"create", "held", "none"}
                                /\ task'[n] = "held" => n \in held
      BY <3>1 DEF Steps, JoinSteps
    <3>3. changed' \in BOOLEAN
      BY <3>1, Zenon
    <3>4. TypeOK'
      BY <3>1, <3>2, <3>3 DEF Phases
    <3>5. \A n \in NodeIds : task'[n] \in StepsOf(pc')
      BY <1>17, <3>1, <3>2 DEF StepsOf, JoinSteps
    <3> QED
      BY <1>17, <3>1, <3>2, <3>4, <3>5 DEF Listed
  <2>2. CASE ~ HasRoom(num)
    BY <1>16, <1>17, <2>2 DEF AddNodes
  <2> QED
    BY <2>1, <2>2
<1>18. ASSUME NEW ph \in {"remove", "drop"}, NEW S, RemoveNodes(ph, S), pc # "idle",
              prim \notin S, \A n \in S : n \in Listed
       PROVE PrimaryInv'
  BY <1>18 DEF RemoveNodes, RemoveTasks, Listed, RetiredNodes, ccf, infra, call,
     budget, Steps, JoinSteps, RemoveSteps, StepsOf, Statuses, Phases
<1>19. CASE UpdateThrows
  <2>1. pc # "idle"
    BY <1>19 DEF UpdateThrows, StepsOf
  <2> QED
    BY <1>16, <1>19, <2>1 DEF UpdateThrows
<1>20. CASE ScaleUp
  BY <1>17, <1>20 DEF ScaleUp, WhenAll
<1>21. CASE ScaleDown
  <2>1. pc # "idle"
    BY <1>21 DEF ScaleDown, WhenAll
  <2>2. CASE Return("idle")
    BY <1>16, <2>1, <2>2
  <2>3. ASSUME NEW S \in Picks(Cardinality(Machines) - target), NotPrimary(S),
               RemoveNodes("remove", S)
        PROVE  PrimaryInv'
    <3>1. \A n \in S : n \in Listed
      BY <2>3, SMTT(60) DEF Picks, Candidates, Unhealthy, Listed
    <3> QED
      BY <1>18, <2>1, <2>3, <3>1 DEF NotPrimary
  <2> QED
    BY <1>21, <2>2, <2>3 DEF ScaleDown
<1>22. CASE Replace
  <2>1. pc # "idle"
    BY <1>22 DEF Replace, WhenAll
  <2>2. CASE Return("done")
    BY <1>16, <2>1, <2>2
  <2> DEFINE R == {n \in Listed : n[1] \in sick}
  <2>3. ASSUME NotPrimary(R), AddNodes("replace", Cardinality(sick), R)
        PROVE  PrimaryInv'
    BY <1>17, <2>1, <2>3 DEF NotPrimary
  <2> QED
    BY <1>22, <2>2, <2>3 DEF Replace
<1>23. CASE RemoveReplaced
  <2> DEFINE H == {n \in NodeIds : task[n] = "held"}
  <2>1. prim \notin H /\ \A n \in H : n \in Listed
    BY DEF Listed
  <2>2. pc # "idle" /\ RemoveNodes("drop", H)
    BY <1>23 DEF RemoveReplaced, WhenAll
  <2> QED
    BY <1>18, <2>1, <2>2
<1>24. CASE UpdateLoadBalancer
  <2>1. \A n \in NodeIds : task[n] = "none"
    BY <1>24 DEF UpdateLoadBalancer, WhenAll, StepsOf, RemoveSteps
  <2> QED
    BY <1>24, <2>1 DEF UpdateLoadBalancer, ccf, infra, call, budget, StepsOf, Phases
<1> QED
  BY <1>1, <1>2, <1>3, <1>4, <1>5, <1>6, <1>7, <1>8, <1>9, <1>10, <1>11, <1>12,
     <1>13, <1>14, <1>15, <1>19, <1>20, <1>21, <1>22, <1>23, <1>24, ZenonT(30)
     DEF Next, ClientStep, TaskStep, Retry

(* The state UpdateNetwork works on is well formed and the primary of the  *)
(* consensus is a trusted node, for every value of the constants: crashes, *)
(* lost DELETEs and elections included.                                    *)
THEOREM TypeCorrect == Spec => []TypeOK
<1>1. PrimaryInv => TypeOK
  BY DEF PrimaryInv
<1> QED
  BY PrimaryInit, PrimaryStep, <1>1, PTL DEF Spec

(* UpdateNetwork never retires the node its requests go through, for every *)
(* value of the constants, whatever is lost and whoever is elected.        *)
THEOREM PrimarySurvives == Spec => []PickedPrimaryStays
<1>1. PrimaryInv => PickedPrimaryStays
  BY DEF PrimaryInv
<1> QED
  BY PrimaryInit, PrimaryStep, <1>1, PTL DEF Spec

-----------------------------------------------------------------------------
(* The network CreateNetwork leaves satisfies MachineInv.                  *)
LEMMA MachineInit == Init => MachineInv
<1> SUFFICES ASSUME Init PROVE MachineInv
  OBVIOUS
<1>1. PrimaryInv
  BY PrimaryInit
<1>2. \A n \in NodeIds : task[n] = "none"
  BY DEF Init, NoTasks
<1>3. \A n \in NodeIds : status[n] # "none" => status[n] = "Trusted" /\ machine[n[1]] = n[2]
  <2>1. machine[0] = 1 /\ machine[1] = 1
    BY NodeFacts DEF Init
  <2>2. \A n \in NodeIds : status[n] # "none" => n \in {<<0, 1>>, <<1, 1>>} /\ status[n] = "Trusted"
    BY NodeFacts DEF Init
  <2>3. <<0, 1>>[1] = 0 /\ <<0, 1>>[2] = 1 /\ <<1, 1>>[1] = 1 /\ <<1, 1>>[2] = 1
    OBVIOUS
  <2>4. ASSUME NEW n \in NodeIds, status[n] # "none"
        PROVE  status[n] = "Trusted" /\ machine[n[1]] = n[2]
    <3>1. CASE n = <<0, 1>>
      BY <2>1, <2>2, <2>3, <2>4, <3>1
    <3>2. CASE n = <<1, 1>>
      BY <2>1, <2>2, <2>3, <2>4, <3>2, SMTT(30)
    <3> QED
      BY <2>2, <2>4, <3>1, <3>2
  <2> QED
    BY <2>4
<1> QED
  BY <1>1, <1>2, <1>3 DEF MachineInv, RetiredNodes

(* Every step keeps MachineInv when no DELETE is lost and no wait of the   *)
(* cleanup times out.                                                      *)
LEMMA MachineStep ==
  ASSUME MaxLost = 0, MachineInv, PrimaryInv', [Next]_vars
  PROVE  MachineInv'
<1> USE NodeFacts
<1> DEFINE Typed == /\ machine \in [Names -> 0 .. MaxIncarnation]
                    /\ status \in [NodeIds -> Statuses] /\ task \in [NodeIds -> Steps]
                    /\ \A n \in NodeIds : /\ task[n] \in {"delete", "forget"} => status[n] = "Removable"
                                          /\ task[n] = "propose" => status[n] \in {"Pending", "Trusted"}
                                          /\ task[n] \in StepsOf(pc)
                    /\ pc \in Phases /\ primary \in Trusted /\ lost = 0
<1>t. Typed
  <2>1. PrimaryInv
    BY DEF MachineInv
  <2>2. lost = 0
    BY <2>1, SMT DEF PrimaryInv, TypeOK
  <2> QED
    BY <2>1, <2>2 DEF PrimaryInv, TypeOK
<1> USE <1>t DEF MachineInv, RetiredNodes
<1>1. CASE UNCHANGED vars
  BY <1>1 DEF vars
<1>2. ASSUME NEW n \in NodeIds, Join(n) PROVE MachineInv'
  BY <1>2 DEF Join, infra, call, budget, Statuses
<1>3. ASSUME NEW n \in NodeIds, CommitRetirement(n) PROVE MachineInv'
  BY <1>3 DEF CommitRetirement, infra, call, budget, Statuses
<1>4. ASSUME NEW n \in NodeIds, Elect(n) PROVE MachineInv'
  BY <1>4 DEF Elect, infra, call, budget
<1>5. ASSUME NEW o \in Names, FallSick(o) PROVE MachineInv'
  BY <1>5 DEF FallSick, ccf, call, budget
<1>6. ASSUME NEW n \in NodeIds, CreateJoinNode(n) PROVE MachineInv'
  BY <1>6 DEF CreateJoinNode, Advance, Throw, OnlyTask, ccf, infra, call, budget,
     JoinSteps, RemoveSteps, StepsOf
<1>7. ASSUME NEW n \in NodeIds, WaitForJoinNode(n) PROVE MachineInv'
  BY <1>7 DEF WaitForJoinNode, OfName, Advance, Throw, OnlyTask, ccf, infra, call,
     budget, Statuses
<1>8. ASSUME NEW n \in NodeIds, WaitForPartOfNetwork(n) PROVE MachineInv'
  BY <1>8 DEF WaitForPartOfNetwork, Advance, Throw, OnlyTask, ccf, infra, call, budget
<1>9. ASSUME NEW n \in NodeIds, ProposeRemoveNode(n) PROVE MachineInv'
  BY <1>9 DEF ProposeRemoveNode, RemoveNodeAction, Advance, infra, call, budget,
     JoinSteps, RemoveSteps, StepsOf
<1>10. ASSUME NEW n \in NodeIds, WaitForNodeStatus(n) PROVE MachineInv'
  BY <1>10 DEF WaitForNodeStatus, Advance, Throw, OnlyTask, ccf, infra, call, budget
<1>11. ASSUME NEW n \in NodeIds, WaitForNodeToAppearAsRemovable(n) PROVE MachineInv'
  BY <1>11 DEF WaitForNodeToAppearAsRemovable, Advance, Throw, ccf, infra, call, budget
<1>12. ASSUME NEW n \in NodeIds, DeleteNode(n) PROVE MachineInv'
  BY <1>12 DEF DeleteNode, Advance, ccf, call, budget, JoinSteps, RemoveSteps, StepsOf
<1>13. ASSUME NEW n \in NodeIds, ForgetNode(n) PROVE MachineInv'
  BY <1>13 DEF ForgetNode, Advance, infra, call, budget, Statuses
<1>14. ASSUME NEW count \in Targets, UpdateNetwork(count) PROVE MachineInv'
  BY <1>14 DEF UpdateNetwork, RemoveTasks, NodesToClean, ccf, infra, budget
<1>15. CASE Crash
  BY <1>15 DEF Crash, NoTasks, ccf, infra, call
<1>16. ASSUME Return("idle") PROVE MachineInv'
  BY <1>16 DEF Return, NoTasks, ccf, infra, call, budget
(* Task.WhenAll of a phase that had no failure: nothing is retired.        *)
<1>17. ASSUME NEW ph \in Phases \ {"idle"}, WhenAll(ph)
       PROVE  \A n \in NodeIds : status[n] \notin {"Retired", "Removable"}
  BY <1>17 DEF WhenAll
<1>18. ASSUME NEW ph \in Phases \ {"idle"}, WhenAll(ph), Return("done") PROVE MachineInv'
  BY <1>17, <1>18 DEF Return, NoTasks, ccf, infra, call, budget
<1>19. ASSUME NEW ph \in {"add", "replace"}, NEW num \in Int, NEW held, AddNodes(ph, num, held),
              NEW was \in Phases \ {"idle"}, WhenAll(was), \A n \in held : n \in Listed
       PROVE MachineInv'
  <2>1. CASE HasRoom(num)
    <3>1. /\ pc' = ph
          /\ task' = [n \in NodeIds |-> IF n[1] \in NewNames(num) /\ n = FreshId(n[1]) THEN "create"
                                        ELSE IF n \in held THEN "held" ELSE "none"]
          /\ UNCHANGED <<machine, status>>
      BY <1>19, <2>1 DEF AddNodes, ccf, infra
    <3>2. \A n \in NodeIds : /\ task'[n] \in {"create", "held", "none"}
                             /\ task'[n] = "held" => n \in held
                             /\ task'[n] = "create" => n[1] \in NewNames(num) /\ n = FreshId(n[1])
      BY <3>1
    <3>3. \A n \in NodeIds : n[1] \in NewNames(num) => machine[n[1]] = 0
      <4>1. Machines \in SUBSET Names /\ Machines # {}
        <5>1. primary \in NodeIds /\ machine[primary[1]] = primary[2] /\ primary[2] # 0
          BY DEF Trusted
        <5> QED
          BY <5>1 DEF Machines
      <4>2. Max(Machines) \in Nat /\ \A o \in Machines : o <= Max(Machines)
        BY <4>1, HasMax
      <4>3. \A o \in NewNames(num) : o > Max(Machines)
        BY <4>2 DEF NewNames
      <4>4. \A o \in Names : o \in NewNames(num) => o \notin Machines
        <5> TAKE o \in Names
        <5> HAVE o \in NewNames(num)
        <5>1. o > Max(Machines) /\ o \in Nat
          BY <4>3
        <5>2. o \in Machines => o <= Max(Machines)
          BY <4>2
        <5> HIDE <1>t DEF MachineInv, RetiredNodes
        <5> QED
          BY <4>2, <5>1, <5>2
      <4> QED
        BY <4>4 DEF Machines
    <3>4. \A n, m \in NodeIds : task'[n] = "create" /\ task'[m] = "create" /\ n[1] = m[1] => n = m
      BY <3>2
    <3>5. \A n \in NodeIds : task'[n] = "held" => status[n] \in {"Pending", "Trusted"}
      BY <1>17, <1>19, <3>2 DEF Listed, Statuses
    <3> QED
      BY <1>17, <1>19, <3>1, <3>2, <3>3, <3>4, <3>5
  <2>2. CASE ~ HasRoom(num)
    BY <1>16, <1>19, <2>2 DEF AddNodes
  <2> QED
    BY <2>1, <2>2
<1>20. ASSUME NEW ph \in {"remove", "drop"}, NEW S, RemoveNodes(ph, S),
              NEW was \in Phases \ {"idle"}, WhenAll(was)
       PROVE MachineInv'
  BY <1>17, <1>20 DEF RemoveNodes, RemoveTasks, ccf, infra, call, budget
<1>21. Cardinality(Machines) \in Nat /\ Cardinality(sick) \in Nat /\ target \in Nat
  <2>1. IsFiniteSet(Names)
    BY FS_Interval, BoundsAssumption DEF Names
  <2>2. IsFiniteSet(Machines)
    BY <2>1, FS_Subset DEF Machines
  <2>3. sick \subseteq Machines /\ target \in Nat
    BY DEF PrimaryInv, TypeOK
  <2>4. IsFiniteSet(sick)
    BY <2>2, <2>3, FS_Subset
  <2> QED
    BY <2>2, <2>3, <2>4, FS_CardinalityType
<1>22. CASE UpdateThrows
  BY <1>16, <1>22 DEF UpdateThrows
<1>23. CASE ScaleUp
  BY <1>19, <1>21, <1>23, SMTT(60) DEF ScaleUp, Phases
<1>24. CASE ScaleDown
  BY <1>16, <1>20, <1>24, SMTT(60) DEF ScaleDown, Phases
<1>25. CASE Replace
  <2>1. PICK ph \in {"cleanup", "add", "remove"} : WhenAll(ph)
    BY <1>25 DEF Replace
  <2> QED
    BY <1>18, <1>19, <1>21, <1>25, <2>1 DEF Replace, Phases
<1>26. CASE RemoveReplaced
  BY <1>20, <1>26 DEF RemoveReplaced, Phases
<1>27. CASE UpdateLoadBalancer
  BY <1>27 DEF UpdateLoadBalancer, WhenAll, ccf, infra, call, budget
<1> QED
  BY <1>1, <1>2, <1>3, <1>4, <1>5, <1>6, <1>7, <1>8, <1>9, <1>10, <1>11, <1>12,
     <1>13, <1>14, <1>15, <1>22, <1>23, <1>24, <1>25, <1>26, <1>27, ZenonT(30)
     DEF Next, ClientStep, TaskStep, Retry

(* A trusted or retired node keeps its machine, for every number of names, *)
(* every list of targets and any number of crashes, if every DELETE of a   *)
(* node is answered.                                                       *)
THEOREM MachineKept == (MaxLost = 0) /\ Spec => []MachineUntilRemovable
<1>1. MachineInv => MachineUntilRemovable
  BY DEF MachineInv, MachineUntilRemovable
<1>2. MachineInv => PrimaryInv
  BY DEF MachineInv
<1>3. ASSUME MaxLost = 0 PROVE Spec => []MachineUntilRemovable
  <2>1. MachineInv /\ [Next]_vars => MachineInv'
    BY <1>2, <1>3, PrimaryStep, MachineStep
  <2> QED
    BY MachineInit, <1>1, <2>1, PTL DEF Spec
<1> QED
  BY <1>3

(* What only concerns the client, the load balancer or the choice of a primary *)
(* leaves the machines and the entries of the nodes as they are.            *)
LEMMA QuietStep ==
  /\ UpdateThrows \/ ScaleUp \/ ScaleDown \/ Replace \/ RemoveReplaced => UNCHANGED <<machine, status>>
  /\ UpdateLoadBalancer \/ Retry \/ Crash => UNCHANGED <<machine, status>>
  /\ \A n \in NodeIds :
        Elect(n) \/ WaitForPartOfNetwork(n) \/ WaitForNodeStatus(n)
          \/ WaitForNodeToAppearAsRemovable(n) => UNCHANGED <<machine, status>>
  /\ \A o \in Names : FallSick(o) => UNCHANGED <<machine, status>>
<1>1. UpdateThrows => UNCHANGED <<machine, status>>
  BY DEF UpdateThrows, Return, ccf, infra
<1>2. ScaleUp => UNCHANGED <<machine, status>>
  BY DEF ScaleUp, AddNodes, Return, ccf, infra
<1>3. ScaleDown => UNCHANGED <<machine, status>>
  BY DEF ScaleDown, RemoveNodes, Return, ccf, infra
<1>4. Replace => UNCHANGED <<machine, status>>
  BY DEF Replace, AddNodes, Return, ccf, infra
<1>5. RemoveReplaced => UNCHANGED <<machine, status>>
  BY DEF RemoveReplaced, RemoveNodes, Return, ccf, infra
<1>6. UpdateLoadBalancer \/ Crash => UNCHANGED <<machine, status>>
  BY DEF UpdateLoadBalancer, Crash, ccf, infra
<1>7. Retry => UNCHANGED <<machine, status>>
  BY DEF Retry, UpdateNetwork, RemoveNodes, Return, ccf, infra
<1>8. \A n \in NodeIds :
         Elect(n) \/ WaitForPartOfNetwork(n) \/ WaitForNodeStatus(n)
           \/ WaitForNodeToAppearAsRemovable(n) => UNCHANGED <<machine, status>>
  BY DEF Elect, WaitForPartOfNetwork, WaitForNodeStatus, WaitForNodeToAppearAsRemovable,
     OnlyTask, ccf, infra
<1>9. \A o \in Names : FallSick(o) => UNCHANGED <<machine, status>>
  BY DEF FallSick, ccf, infra
<1> QED
  BY <1>1, <1>2, <1>3, <1>4, <1>5, <1>6, <1>7, <1>8, <1>9

(* What a cleanup deletes is no machine of a trusted node, for every value  *)
(* of the other constants, if every DELETE of a node is answered: the loss *)
(* that the run ccf_cleanup_by_name starts from is needed for its outcome. *)
THEOREM CleanupIsSafe == (MaxLost = 0) /\ Spec => CleanupDeletesStale
<1> DEFINE Stale == \A o \in Names : pc = "cleanup" /\ machine[o] # 0 /\ machine'[o] = 0
                                    => status[<<o, machine[o]>>] # "Trusted"
<1>1. MachineInv /\ [Next]_vars => [Stale]_vars
  <2> SUFFICES ASSUME MachineInv, Next, NEW o \in Names,
                      machine[o] # 0, machine'[o] = 0, status[<<o, machine[o]>>] = "Trusted"
               PROVE  FALSE
    OBVIOUS
  <2>1. machine \in [Names -> 0 .. MaxIncarnation]
    BY DEF MachineInv, PrimaryInv, TypeOK
  <2>2. ASSUME NEW n \in NodeIds, CreateJoinNode(n) PROVE FALSE
    BY <2>1, <2>2, NodeFacts, BoundsAssumption, SMTT(60)
       DEF CreateJoinNode, Throw, OnlyTask, infra
  <2>3. ASSUME NEW n \in NodeIds, DeleteNode(n) PROVE FALSE
    <3>1. n[1] = o /\ status[n] = "Removable" /\ machine[o] \in {n[2], 0}
      BY <2>1, <2>3, NodeFacts DEF DeleteNode, MachineInv, PrimaryInv
    <3>2. n = <<o, machine[o]>>
      BY <3>1 DEF NodeIds
    <3> QED
      BY <3>1, <3>2, SMTT(60)
  <2>4. CASE UNCHANGED machine
    BY <2>4
  <2>5. ASSUME NEW n \in NodeIds,
               Join(n) \/ CommitRetirement(n) \/ WaitForJoinNode(n) \/ ProposeRemoveNode(n)
                 \/ ForgetNode(n)
        PROVE  UNCHANGED machine
    BY <2>5 DEF Join, CommitRetirement, WaitForJoinNode, ProposeRemoveNode, ForgetNode,
       OnlyTask, infra
  <2> QED
    BY <2>2, <2>3, <2>4, <2>5, QuietStep DEF Next, ClientStep, TaskStep
<1>2. ASSUME MaxLost = 0 PROVE Spec => CleanupDeletesStale
  <2>1. MachineInv /\ [Next]_vars => MachineInv'
    BY <1>2, PrimaryStep, MachineStep DEF MachineInv
  <2> QED
    BY MachineInit, <1>1, <2>1, PTL DEF Spec, CleanupDeletesStale
<1> QED
  BY <1>2, ZenonT(60)

-----------------------------------------------------------------------------
(* The life cycle of a node.                                               *)

(* Two nodes are trusted when the network starts, and run.                 *)
LEMMA LifecycleInit == Init => Lifecycle!LifeInit
<1> SUFFICES ASSUME Init PROVE Lifecycle!LifeInit
  OBVIOUS
<1>1. machine \in [Names -> {0} \cup 1 .. MaxIncarnation]
  BY NodeFacts, BoundsAssumption DEF Init
<1>2. \A n \in NodeIds : machine[n[1]] = n[2] <=> n \in {<<0, 1>>, <<1, 1>>}
  <2> TAKE n \in NodeIds
  <2>1. PICK o \in Names, k \in 1 .. MaxIncarnation : n = <<o, k>>
    BY DEF NodeIds
  <2>2. machine[o] = IF o < 2 THEN 1 ELSE 0
    BY DEF Init
  <2>3. o \in Nat /\ k \in Nat /\ k # 0
    BY NodeFacts, BoundsAssumption
  <2>4. machine[o] = k <=> k = 1 /\ (o = 0 \/ o = 1)
    BY <2>2, <2>3
  <2>5. n[1] = o /\ n[2] = k
    BY <2>1
  <2> QED
    BY <2>1, <2>4, <2>5
<1>3. NodeIds = Lifecycle!Nodes
  BY DEF NodeIds, Lifecycle!Nodes
<1>4. status = [n \in NodeIds |-> IF machine[n[1]] = n[2] THEN "Trusted" ELSE "none"]
  BY <1>2 DEF Init
<1> QED
  BY <1>1, <1>3, <1>4 DEF Lifecycle!LifeInit, Lifecycle!Runs

(* Every step that touches a machine or the status of a node is a step of  *)
(* the life cycle of that node; the others are none.                       *)
LEMMA LifecycleStep ==
  ASSUME MaxLost = 0, MachineInv, [Next]_vars
  PROVE  [Lifecycle!LifeNext]_Lifecycle!lifeVars
<1> DEFINE Life == [Lifecycle!LifeNext]_Lifecycle!lifeVars
<1>0. /\ machine \in [Names -> 0 .. MaxIncarnation]
      /\ status \in [NodeIds -> Statuses]
      /\ NodeIds = Lifecycle!Nodes
      /\ \A n \in NodeIds : n[1] \in Names /\ n[2] # 0
      /\ lost = 0
  <2>1. lost = 0
    BY SMT DEF MachineInv, PrimaryInv, TypeOK
  <2>2. \A n \in NodeIds : n[1] \in Names /\ n[2] # 0
    BY NodeFacts, BoundsAssumption
  <2> QED
    BY <2>1, <2>2 DEF MachineInv, PrimaryInv, TypeOK, NodeIds, Lifecycle!Nodes
<1>1. ASSUME UNCHANGED <<machine, status>> PROVE Life
  BY <1>1 DEF Lifecycle!lifeVars
<1>2. ASSUME NEW n \in NodeIds, Join(n) PROVE Life
  <2>1. Lifecycle!Join(n)
    BY <1>2 DEF Join, infra, Lifecycle!Join, Lifecycle!Runs, Lifecycle!Moves
  <2> QED
    BY <1>0, <2>1 DEF Lifecycle!LifeNext
<1>3. ASSUME NEW n \in NodeIds, CommitRetirement(n) PROVE Life
  <2>1. Lifecycle!Commit(n)
    BY <1>3 DEF CommitRetirement, infra, MachineInv, Lifecycle!Commit, Lifecycle!Runs,
       Lifecycle!Moves
  <2> QED
    BY <1>0, <2>1 DEF Lifecycle!LifeNext
<1>4. ASSUME NEW n \in NodeIds, CreateJoinNode(n), machine' # machine PROVE Life
  <2>1. /\ task[n] = "create" /\ machine[n[1]] = 0
        /\ machine' = [machine EXCEPT ![n[1]] = n[2]]
        /\ UNCHANGED status
    BY <1>4 DEF CreateJoinNode, OnlyTask, ccf, infra, MachineInv
  <2>2. pc \in {"add", "replace"}
    <3>1. task[n] \in StepsOf(pc) /\ pc \in Phases
      BY DEF MachineInv, PrimaryInv, TypeOK
    <3> QED
      BY <2>1, <3>1 DEF StepsOf, RemoveSteps, Phases
  <2>3. \A m \in NodeIds : m[1] = n[1] => status[m] = "none"
    BY <1>0, <2>1, <2>2 DEF MachineInv, RetiredNodes, Statuses
  <2>4. Lifecycle!Create(n)
    BY <1>0, <2>1, <2>3 DEF Lifecycle!Create
  <2> QED
    BY <1>0, <2>4 DEF Lifecycle!LifeNext
<1>5. ASSUME NEW n \in NodeIds, WaitForJoinNode(n) PROVE Life
  <2>1. CASE UNCHANGED <<machine, status>>
    BY <1>1, <2>1
  <2>2. ASSUME NEW m \in OfName(n[1]), status' = [status EXCEPT ![m] = "Trusted"],
               UNCHANGED machine
        PROVE  Life
    <3>1. m \in NodeIds /\ status[m] \in {"Pending", "Trusted"}
      BY DEF OfName
    <3>2. CASE status[m] = "Trusted"
      <4>1. status' = status
        BY <1>0, <2>2, <3>1, <3>2
      <4> QED
        BY <1>1, <2>2, <4>1
    <3>3. CASE status[m] = "Pending"
      <4>1. Lifecycle!Trust(m)
        BY <2>2, <3>1, <3>3 DEF MachineInv, Lifecycle!Trust, Lifecycle!Runs, Lifecycle!Moves
      <4> QED
        BY <1>0, <3>1, <4>1 DEF Lifecycle!LifeNext
    <3> QED
      BY <3>1, <3>2, <3>3
  <2> QED
    BY <1>5, <2>1, <2>2 DEF WaitForJoinNode, OnlyTask, ccf, infra
<1>6. ASSUME NEW n \in NodeIds, ProposeRemoveNode(n) PROVE Life
  <2>1. status[n] \in {"Pending", "Trusted"} /\ machine[n[1]] = n[2]
    BY <1>6 DEF ProposeRemoveNode, MachineInv, PrimaryInv
  <2>2. /\ status' = [status EXCEPT ![n] = RemoveNodeAction(status[n])]
        /\ UNCHANGED machine
    BY <1>6 DEF ProposeRemoveNode, infra
  <2>3. Lifecycle!Refuse(n) \/ Lifecycle!Retire(n)
    BY <2>1, <2>2 DEF RemoveNodeAction, Lifecycle!Refuse, Lifecycle!Retire, Lifecycle!Runs,
       Lifecycle!Moves
  <2> QED
    BY <1>0, <2>3 DEF Lifecycle!LifeNext
<1>7. ASSUME NEW n \in NodeIds, DeleteNode(n) PROVE Life
  <2>1. /\ status[n] = "Removable" /\ machine[n[1]] \in {n[2], 0}
        /\ machine' = [machine EXCEPT ![n[1]] = 0]
        /\ UNCHANGED status
    BY <1>7 DEF DeleteNode, ccf, MachineInv, PrimaryInv
  <2>2. CASE machine[n[1]] = n[2]
    <3>1. Lifecycle!Delete(n)
      BY <2>1, <2>2 DEF Lifecycle!Delete, Lifecycle!Runs
    <3> QED
      BY <1>0, <3>1 DEF Lifecycle!LifeNext
  <2>3. CASE machine[n[1]] = 0
    <3>1. machine' = machine
      BY <1>0, <2>1, <2>3
    <3> QED
      BY <1>1, <2>1, <3>1
  <2> QED
    BY <2>1, <2>2, <2>3
<1>8. ASSUME NEW n \in NodeIds, ForgetNode(n) PROVE Life
  <2>1. status[n] = "Removable" /\ machine[n[1]] = 0
    BY <1>8 DEF ForgetNode, MachineInv, PrimaryInv
  <2>2. status' = [status EXCEPT ![n] = "none"] /\ UNCHANGED machine
    BY <1>0, <1>8, BoundsAssumption DEF ForgetNode, infra
  <2>3. Lifecycle!Forget(n)
    BY <2>1, <2>2 DEF Lifecycle!Forget, Lifecycle!Moves
  <2> QED
    BY <1>0, <2>3 DEF Lifecycle!LifeNext
<1>9. ASSUME UNCHANGED vars PROVE Life
  BY <1>1, <1>9 DEF vars
<1>10. ASSUME NEW n \in NodeIds, CreateJoinNode(n), machine' = machine PROVE Life
  BY <1>1, <1>10 DEF CreateJoinNode, OnlyTask, ccf
<1> HIDE DEF Life
<1>11. Life
  BY <1>1, <1>2, <1>3, <1>4, <1>5, <1>6, <1>7, <1>8, <1>9, <1>10, QuietStep, SMTT(60)
     DEF Next, ClientStep, TaskStep
<1> QED
  BY <1>11 DEF Life

(* UpdateNetwork, called and interrupted any number of times, implements the *)
(* life cycle of the nodes for every number of names and incarnations, if  *)
(* every DELETE of a node is answered.                                     *)
THEOREM LifecycleKept == (MaxLost = 0) /\ Spec => ImplementsLifecycle
<1>1. ASSUME MaxLost = 0 PROVE Spec => ImplementsLifecycle
  <2>1. MachineInv /\ [Next]_vars => MachineInv'
    BY <1>1, PrimaryStep, MachineStep DEF MachineInv
  <2>2. MachineInv /\ [Next]_vars => [Lifecycle!LifeNext]_Lifecycle!lifeVars
    BY <1>1, LifecycleStep
  <2> QED
    BY MachineInit, LifecycleInit, <2>1, <2>2, PTL
       DEF Spec, ImplementsLifecycle, Lifecycle!LifeSpec
<1> QED
  BY <1>1
=============================================================================
