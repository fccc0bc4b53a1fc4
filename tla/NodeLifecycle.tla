---------------------------- MODULE NodeLifecycle ----------------------------
(***************************************************************************)
(* What an update of a CCF network promises of every node, whoever asks    *)
(* for it and wherever it is interrupted: a node gets a machine of its own *)
(* under a name no listed node has, keeps it until CCF says the node can   *)
(* be removed, and is forgotten only when the machine is gone.  There is   *)
(* no client here, no phases, no health and no primary.                    *)
(***************************************************************************)
EXTENDS Naturals

CONSTANTS
  Names,         \* the names of machines
  Incarnations   \* which machine of a name: positive numbers

VARIABLES
  machine,       \* the incarnation each name runs, 0 for no machine
  status         \* the status of each node, "none" when it is not listed

lifeVars == <<machine, status>>

Nodes == Names \X Incarnations
Runs(n) == machine[n[1]] = n[2]

(* The trusted nodes are those with a machine.                             *)
LifeInit ==
  /\ machine \in [Names -> {0} \cup Incarnations]
  /\ status = [n \in Nodes |-> IF Runs(n) THEN "Trusted" ELSE "none"]

(* Node n moves from one status to another.                                *)
Moves(n, from, to) ==
  /\ status[n] = from
  /\ status' = [status EXCEPT ![n] = to]
  /\ UNCHANGED machine

Create(n) ==
  /\ machine[n[1]] = 0
  /\ \A m \in Nodes : m[1] = n[1] => status[m] = "none"
  /\ machine' = [machine EXCEPT ![n[1]] = n[2]]
  /\ UNCHANGED status

Join(n) == Runs(n) /\ Moves(n, "none", "Pending")
Trust(n) == Runs(n) /\ Moves(n, "Pending", "Trusted")
Refuse(n) == Runs(n) /\ Moves(n, "Pending", "none")
Retire(n) == Runs(n) /\ Moves(n, "Trusted", "Retired")
Commit(n) == Runs(n) /\ Moves(n, "Retired", "Removable")

Delete(n) ==
  /\ status[n] = "Removable" /\ Runs(n)
  /\ machine' = [machine EXCEPT ![n[1]] = 0]
  /\ UNCHANGED status

Forget(n) == machine[n[1]] = 0 /\ Moves(n, "Removable", "none")

LifeNext ==
  \E n \in Nodes :
    \/ Create(n) \/ Join(n) \/ Trust(n) \/ Refuse(n)
    \/ Retire(n) \/ Commit(n) \/ Delete(n) \/ Forget(n)

LifeSpec == LifeInit /\ [][LifeNext]_lifeVars
=============================================================================
