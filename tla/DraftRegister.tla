---------------------------- MODULE DraftRegister ----------------------------
(***************************************************************************)
(* What the drafts of CGS promise their authors: a replicated register per  *)
(* item whose current value is replaced only by someone who has read that   *)
(* very value.  Nothing here knows of versions, views or sequence numbers.  *)
(*                                                                         *)
(* The service may lose the values that are not durable yet, and a reader   *)
(* may be told any value that was ever written.                            *)
(***************************************************************************)
EXTENDS Integers, Sequences

CONSTANTS Clients, Items, Values, None

VARIABLES
    history,  \* the values of the items, step by step
    durable,  \* how much of the history cannot be lost
    basis,    \* the value of each item a client has read last
    written   \* every value ever written, lost ones included

regVars == <<history, durable, basis, written>>

Current(i) == history[Len(history)][i]

RegInit ==
    /\ history = <<[i \in Items |-> None]>>
    /\ durable = 1
    /\ basis = [c \in Clients |-> [i \in Items |-> None]]
    /\ written = {}

Read(c, i) ==
    /\ UNCHANGED <<written, durable, history>>
    /\ \E v \in written : basis' = [basis EXCEPT ![c][i] = v]

Write(c, i) ==
    /\ UNCHANGED <<durable, basis>>
    /\ Current(i) = None \/ Current(i) = basis[c][i]
    /\ \E v \in Values \ written :
         /\ written' = written \cup {v}
         /\ history' = Append(history, [history[Len(history)] EXCEPT ![i] = v])

\* Another transaction of the service.
Other ==
    /\ UNCHANGED <<written, durable, basis>>
    /\ history' = Append(history, history[Len(history)])

MakeDurable ==
    /\ durable' \in durable + 1..Len(history)
    /\ UNCHANGED <<history, basis, written>>

Lose ==
    /\ UNCHANGED <<written, durable, basis>>
    /\ \E n \in durable..Len(history) : history' = SubSeq(history, 1, n)

RegNext ==
    \/ \E c \in Clients, i \in Items : Read(c, i) \/ Write(c, i)
    \/ Other \/ MakeDurable \/ Lose

RegSpec == RegInit /\ [][RegNext]_regVars
=============================================================================
