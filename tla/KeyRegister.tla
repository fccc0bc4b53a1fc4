----------------------------- MODULE KeyRegister -----------------------------
(***************************************************************************)
(* What the recovery service promises of its keys: a register per name     *)
(* that is given a key once, a key of its own, and is never changed.       *)
(* Whoever asks for a name is told its key, and the join policy is signed  *)
(* with the key of the signer.  There are no copies, no requests and no    *)
(* caches here, and nothing fails half way.                                *)
(***************************************************************************)
EXTENDS Naturals

CONSTANTS Members, PolicySigner, Keys, Agents, None

VARIABLES
    value,    \* the key of each name, or None
    told,     \* <<name, key>> that callers were told
    policy    \* the join policy in force, or None

registerVars == <<value, told, policy>>

\* A member has two keys, the policy signer one.
Signer == <<PolicySigner, "signing">>
Names == (Members \X {"signing", "enc"}) \cup {Signer}

RegisterInit ==
    /\ value = [n \in Names |-> None]
    /\ told = {}
    /\ policy = None

\* A member's signing key is there before its encryption key.
Choose(n, k) ==
    /\ value[n] = None
    /\ n[2] = "enc" => value[<<n[1], "signing">>] # None
    /\ \A other \in Names : value[other] # k
    /\ value' = [value EXCEPT ![n] = k]
    /\ UNCHANGED <<told, policy>>

Tell(n) ==
    /\ value[n] # None
    /\ told' = told \cup {<<n, value[n]>>}
    /\ UNCHANGED <<value, policy>>

\* A policy that admits nobody is not taken.
Sign(hostData) ==
    /\ value[Signer] # None
    /\ hostData # {}
    /\ policy' = [hostData |-> hostData, signer |-> value[Signer],
                  signature |-> value[Signer]]
    /\ UNCHANGED <<value, told>>

RegisterNext ==
    \/ \E n \in Names : Tell(n) \/ \E k \in Keys : Choose(n, k)
    \/ \E hostData \in SUBSET Agents : Sign(hostData)

RegisterSpec == RegisterInit /\ [][RegisterNext]_registerVars
=============================================================================
