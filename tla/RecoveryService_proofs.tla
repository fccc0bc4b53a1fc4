------------------------ MODULE RecoveryService_proofs ------------------------
(***************************************************************************)
(* Proofs about RecoveryService, for any number of copies, requests,       *)
(* members, key pairs and agents.                                          *)
(*                                                                         *)
(* None of the four properties is inductive alone.  What carries them is   *)
(* what each request knows at each step (RequestOK), that an encryption    *)
(* key has a signing key beside it, and that the caches agree with the     *)
(* vault.  All of it survives a vault that only grows, so the other        *)
(* requests are dealt with once, by RequestKept.                           *)
(***************************************************************************)
EXTENDS RecoveryService, TLAPS

(* What a request at q knows of a vault v with reports rs and certs cs.    *)
RequestOK(q, v, rs, cs) ==
  LET n == <<q.kid, q.kind>>
  IN  /\ q.pc \in {"report", "cert", "import"} => q.pair # None
      /\ q.pc \in {"cert", "import"} => q.pair \in rs
      /\ (q.pc = "import" /\ q.kind = "signing") => q.pair \in cs
      /\ q.pc \in {"conflict", "read", "release", "write"} => n \in DOMAIN v
      /\ q.pc \in {"read", "release", "write"} => q.key = v[n]
      /\ q.pc = "write" => q.pair = q.key
      /\ q.pc \in {"release", "write"} => q.kid = PolicySigner /\ q.kind = "signing"
      /\ q.pc \in {"unwrap", "sign"} => q.kid \in Members
      /\ q.pc = "unwrap" => q.kind = "enc"
      /\ q.pc = "sign" => q.kind = "signing"
      /\ (q.kind = "enc" /\ q.pc # "unwrap") =>
           q.kid \in Members /\ <<q.kid, "signing">> \in DOMAIN v

ReadableIn(n, k, rs, cs) == k \in rs /\ (n[2] = "signing" => k \in cs)

(* What the vault, the caches, the keys handed out and the policy satisfy. *)
VaultOK(v, rs, cs) ==
  /\ DOMAIN v \subseteq KeyNames
  /\ v \in [DOMAIN v -> Keys]
  /\ \A n \in DOMAIN v : ReadableIn(n, v[n], rs, cs)
  /\ \A m \in Members : <<m, "enc">> \in DOMAIN v => <<m, "signing">> \in DOMAIN v

CacheOK(c, v) ==
  \A i \in Instances, m \in Members :
    c[i][m] # None => /\ <<m, "signing">> \in DOMAIN v
                      /\ c[i][m] = v[<<m, "signing">>]

GivenOK(g, v) ==
  \A x \in g : x[1] \in DOMAIN v /\ x[2] = v[x[1]]

PolicyOK(p, v) ==
  p # None => LET n == <<PolicySigner, "signing">>
              IN  n \in DOMAIN v /\ p.signer = v[n] /\ p.signature = v[n]

Types ==
  /\ reports \subseteq Keys
  /\ certs \subseteq Keys
  /\ policy \in Policies \cup {None}
  /\ used \subseteq Keys
  /\ req \in [Requests -> RequestStates]
  /\ cache \in [Instances -> [Members -> Keys \cup {None}]]
  /\ given \subseteq KeyNames \X Keys
  /\ crashes \in 0..MaxCrashes

IInv ==
  /\ Types
  /\ VaultOK(vault, reports, certs)
  /\ \A r \in Requests : RequestOK(req[r], vault, reports, certs)
  /\ CacheOK(cache, vault)
  /\ GivenOK(given, vault)
  /\ PolicyOK(policy, vault)

(* w has what v has. *)
Extends(w, v) ==
  DOMAIN v \subseteq DOMAIN w /\ \A n \in DOMAIN v : w[n] = v[n]

-----------------------------------------------------------------------------
(* Nothing a request knows is lost when the vault and its secrets grow.    *)
LEMMA RequestKept ==
  ASSUME NEW q, NEW v, NEW w, NEW rs, NEW ss, NEW cs, NEW ds,
         RequestOK(q, v, rs, cs), Extends(w, v), rs \subseteq ss, cs \subseteq ds
  PROVE  RequestOK(q, w, ss, ds)
  BY DEF RequestOK, Extends

(* An idle slot, and a request that has just come in, know nothing yet.    *)
LEMMA NoRequestOK ==
  ASSUME NEW v, NEW rs, NEW cs
  PROVE  NoRequest \in RequestStates /\ RequestOK(NoRequest, v, rs, cs)
  BY DEF NoRequest, Request, RequestStates, RequestOK, Kids, Kinds, Steps

LEMMA GrownFrame ==
  ASSUME NEW v, NEW w, NEW c, NEW g, NEW p, Extends(w, v),
         CacheOK(c, v), GivenOK(g, v), PolicyOK(p, v)
  PROVE  CacheOK(c, w) /\ GivenOK(g, w) /\ PolicyOK(p, w)
  BY DEF Extends, CacheOK, GivenOK, PolicyOK

(* A step of request r that takes it to q, and leaves the other requests.  *)
LEMMA RequestStep ==
  ASSUME IInv, NEW r \in Requests, NEW q \in RequestStates,
         req' = [req EXCEPT ![r] = q],
         RequestOK(q, vault', reports', certs'),
         Extends(vault', vault), reports \subseteq reports', certs \subseteq certs'
  PROVE  /\ req' \in [Requests -> RequestStates]
         /\ \A s \in Requests : RequestOK(req'[s], vault', reports', certs')
<1>1. req \in [Requests -> RequestStates]
  BY DEF IInv, Types
<1>2. req' \in [Requests -> RequestStates]
  BY <1>1
<1>3. ASSUME NEW s \in Requests PROVE RequestOK(req'[s], vault', reports', certs')
  <2>1. CASE s = r
    BY <2>1, <1>1
  <2>2. CASE s # r
    <3>1. req'[s] = req[s] BY <2>2, <1>1
    <3>2. RequestOK(req[s], vault, reports, certs) BY DEF IInv
    <3> QED BY <3>1, <3>2, RequestKept
  <2> QED BY <2>1, <2>2
<1> QED BY <1>2, <1>3

(* The same where neither the vault nor its secrets change.                *)
LEMMA LocalStep ==
  ASSUME IInv, NEW r \in Requests, NEW q \in RequestStates,
         req' = [req EXCEPT ![r] = q],
         RequestOK(q, vault, reports, certs),
         UNCHANGED <<vault, reports, certs>>
  PROVE  /\ req' \in [Requests -> RequestStates]
         /\ \A s \in Requests : RequestOK(req'[s], vault', reports', certs')
         /\ VaultOK(vault', reports', certs')
<1>1. Extends(vault', vault) /\ reports \subseteq reports' /\ certs \subseteq certs'
  BY DEF Extends
<1>2. RequestOK(q, vault', reports', certs')
  BY SMT
<1>3. VaultOK(vault', reports', certs')
  BY DEF IInv
<1> QED BY <1>1, <1>2, <1>3, RequestStep

-----------------------------------------------------------------------------
LEMMA InitOK == Init => IInv
<1> SUFFICES ASSUME Init PROVE IInv OBVIOUS
<1>1. DOMAIN vault = {} BY DEF Init
<1>2. VaultOK(vault, reports, certs) BY <1>1 DEF VaultOK
<1>3. \A r \in Requests : req[r] = NoRequest BY DEF Init
<1>4. \A r \in Requests : RequestOK(req[r], vault, reports, certs)
  BY <1>3, NoRequestOK
<1>5. CacheOK(cache, vault) BY DEF Init, CacheOK
<1>6. GivenOK(given, vault) /\ PolicyOK(policy, vault) BY DEF Init, GivenOK, PolicyOK
<1>7. Types
  BY NoRequestOK, ConstantsAssumption DEF Init, Types
<1> QED BY <1>2, <1>4, <1>5, <1>6, <1>7 DEF IInv

-----------------------------------------------------------------------------
(* One lemma per step.                                                     *)

LEMMA StartOK ==
  ASSUME IInv, NEW r \in Requests, NEW pc \in {"lookup", "sign", "unwrap"},
         NEW kid \in Kids, NEW kind \in Kinds, NEW hostData \in SUBSET Agents,
         pc = "lookup" => kind = "signing",
         pc = "sign" => kid \in Members /\ kind = "signing",
         pc = "unwrap" => kid \in Members /\ kind = "enc",
         Start(r, pc, kid, kind, hostData)
  PROVE  IInv'
<1> DEFINE q == Request(pc, kid, kind, hostData)
<1>1. q = [pc |-> pc, kid |-> kid, kind |-> kind, pair |-> None, key |-> None,
           hostData |-> hostData]
  BY DEF Request
<1>2. q \in RequestStates
  BY <1>1 DEF RequestStates, Steps
<1>3. RequestOK(q, vault, reports, certs)
  BY <1>1 DEF RequestOK, Kinds
<1>4. req' = [req EXCEPT ![r] = q]
  BY DEF Start
<1>5. UNCHANGED <<vault, reports, certs, policy, used, cache, given, crashes>>
  BY DEF Start
<1> HIDE DEF q
<1>6. /\ req' \in [Requests -> RequestStates]
      /\ \A s \in Requests : RequestOK(req'[s], vault', reports', certs')
      /\ VaultOK(vault', reports', certs')
  BY <1>2, <1>3, <1>4, <1>5, LocalStep
<1> QED
  BY <1>5, <1>6 DEF IInv, Types

(* A step that only moves its request, and perhaps generates a pair.       *)
LEMMA QuietStep ==
  ASSUME IInv, NEW r \in Requests, NEW q \in RequestStates,
         req' = [req EXCEPT ![r] = q],
         RequestOK(q, vault, reports, certs),
         used' \subseteq Keys,
         UNCHANGED <<vault, reports, certs, policy, cache, given, crashes>>
  PROVE  IInv'
<1>1. UNCHANGED <<vault, reports, certs>> OBVIOUS
<1>2. /\ req' \in [Requests -> RequestStates]
      /\ \A s \in Requests : RequestOK(req'[s], vault', reports', certs')
      /\ VaultOK(vault', reports', certs')
  BY <1>1, LocalStep
<1> QED
  BY <1>2 DEF IInv, Types

(* The lookup never finds a key: no key has a name with two suffixes.      *)
LEMMA LookupFindsNothing ==
  ASSUME IInv, NEW r \in Requests
  PROVE  GetKey(ToKeyName(NameOf(r), req[r].kind)) = None
<1>1. req[r].kid \in Kids /\ req[r].kind \in Kinds
  BY DEF IInv, Types, RequestStates
<1>2. NameOf(r) \in KeyNames
  BY <1>1 DEF NameOf, ToKeyName, KeyNames
<1>3. NameOf(r) \notin Kids
  BY <1>2, NamesAssumption
<1>4. ToKeyName(NameOf(r), req[r].kind) \notin KeyNames
  BY <1>3 DEF ToKeyName, KeyNames
<1>5. DOMAIN vault \subseteq KeyNames
  BY DEF IInv, VaultOK
<1> QED
  BY <1>4, <1>5 DEF GetKey

LEMMA GenerateKeyPairOK ==
  ASSUME IInv, NEW r \in Requests, GenerateKeyPair(r)
  PROVE  IInv'
<1>1. PICK k \in Keys \ used :
        /\ used' = used \cup {k}
        /\ req' = [req EXCEPT ![r].pair = k, ![r].pc = "report"]
  BY LookupFindsNothing DEF GenerateKeyPair, NewPairs
<1> DEFINE q == [req[r] EXCEPT !.pair = k, !.pc = "report"]
<1>2. req[r] \in RequestStates /\ RequestOK(req[r], vault, reports, certs)
  BY DEF IInv, Types
<1>3. q \in RequestStates
  BY <1>2 DEF RequestStates, Steps
<1>4. req[r].pc = "lookup" BY DEF GenerateKeyPair, At
<1>5. k # None BY ConstantsAssumption
<1>6. RequestOK(q, vault, reports, certs)
  BY <1>2, <1>4, <1>5 DEF RequestOK, RequestStates
<1>7. req' = [req EXCEPT ![r] = q]
  BY <1>1
<1>8. used' \subseteq Keys
  BY <1>1 DEF IInv, Types
<1> HIDE DEF q
<1> QED
  BY <1>3, <1>6, <1>7, <1>8, QuietStep DEF GenerateKeyPair

LEMMA SetAttestationReportSecretOK ==
  ASSUME IInv, NEW r \in Requests, SetAttestationReportSecret(r)
  PROVE  IInv'
<1> DEFINE q == [req[r] EXCEPT !.pc = AfterReport(req[r].kind)]
<1>1. req[r] \in RequestStates /\ RequestOK(req[r], vault, reports, certs)
  BY DEF IInv, Types
<1>2. q \in RequestStates
  BY <1>1 DEF RequestStates, Steps, AfterReport
<1>3. /\ req[r].pc = "report"
      /\ req' = [req EXCEPT ![r] = q]
      /\ reports' = reports \cup {req[r].pair}
      /\ UNCHANGED <<vault, certs, policy, used, cache, given, crashes>>
  BY DEF SetAttestationReportSecret, At
<1>4. req[r].pair \in Keys
  BY <1>1, <1>3 DEF RequestOK, RequestStates
<1>5. RequestOK(q, vault', reports', certs')
  <2>1. q.pc \in {"cert", "import"} /\ (q.pc = "import" => q.kind # "signing")
    BY <1>1 DEF AfterReport, RequestStates
  <2>2. /\ q.kid = req[r].kid /\ q.kind = req[r].kind
        /\ q.pair = req[r].pair /\ q.key = req[r].key
    BY <1>1 DEF RequestStates
  <2> HIDE DEF q
  <2> QED BY <1>1, <1>3, <2>1, <2>2 DEF RequestOK
<1>6. Extends(vault', vault) /\ reports \subseteq reports' /\ certs \subseteq certs'
  BY <1>3 DEF Extends
<1> HIDE DEF q
<1>7. /\ req' \in [Requests -> RequestStates]
      /\ \A s \in Requests : RequestOK(req'[s], vault', reports', certs')
  BY <1>2, <1>3, <1>5, <1>6, RequestStep
<1>8. VaultOK(vault', reports', certs')
  BY <1>3 DEF IInv, VaultOK, ReadableIn
<1> QED
  BY <1>3, <1>4, <1>7, <1>8 DEF IInv, Types

LEMMA SetSigningCertSecretOK ==
  ASSUME IInv, NEW r \in Requests, SetSigningCertSecret(r)
  PROVE  IInv'
<1> DEFINE q == [req[r] EXCEPT !.pc = "import"]
<1>1. req[r] \in RequestStates /\ RequestOK(req[r], vault, reports, certs)
  BY DEF IInv, Types
<1>2. q \in RequestStates
  BY <1>1 DEF RequestStates, Steps
<1>3. /\ req[r].pc = "cert"
      /\ req' = [req EXCEPT ![r] = q]
      /\ certs' = certs \cup {req[r].pair}
      /\ UNCHANGED <<vault, reports, policy, used, cache, given, crashes>>
  BY DEF SetSigningCertSecret, At
<1>4. req[r].pair \in Keys
  BY <1>1, <1>3 DEF RequestOK, RequestStates
<1>5. RequestOK(q, vault', reports', certs')
  <2>1. /\ q.pc = "import" /\ q.kid = req[r].kid /\ q.kind = req[r].kind
        /\ q.pair = req[r].pair /\ q.key = req[r].key
    BY <1>1 DEF RequestStates
  <2> HIDE DEF q
  <2> QED BY <1>1, <1>3, <2>1 DEF RequestOK
<1>6. Extends(vault', vault) /\ reports \subseteq reports' /\ certs \subseteq certs'
  BY <1>3 DEF Extends
<1> HIDE DEF q
<1>7. /\ req' \in [Requests -> RequestStates]
      /\ \A s \in Requests : RequestOK(req'[s], vault', reports', certs')
  BY <1>2, <1>3, <1>5, <1>6, RequestStep
<1>8. VaultOK(vault', reports', certs')
  BY <1>3 DEF IInv, VaultOK, ReadableIn
<1> QED
  BY <1>3, <1>4, <1>7, <1>8 DEF IInv, Types

(* The import of a name that is not there: w is the vault with it.         *)
LEMMA ImportNewOK ==
  ASSUME IInv, NEW r \in Requests, ImportKey(r), NameOf(r) \notin DOMAIN vault
  PROVE  IInv'
<1> DEFINE n == NameOf(r)
           k == req[r].pair
<1>1. req[r] \in RequestStates /\ RequestOK(req[r], vault, reports, certs)
  BY DEF IInv, Types
<1>2. /\ req[r].pc = "import"
      /\ vault' = [x \in DOMAIN vault \cup {n} |-> IF x = n THEN k ELSE vault[x]]
      /\ UNCHANGED <<reports, certs, policy, used, cache, given, crashes>>
  BY DEF ImportKey, At
<1>3. k \in Keys /\ k \in reports /\ (req[r].kind = "signing" => k \in certs)
  BY <1>1, <1>2 DEF RequestOK, RequestStates
<1>4. n = <<req[r].kid, req[r].kind>> /\ n \in KeyNames
  BY <1>1 DEF NameOf, ToKeyName, RequestStates, KeyNames
<1>5. (req[r].kind = "enc") => /\ req[r].kid \in Members
                               /\ <<req[r].kid, "signing">> \in DOMAIN vault
  BY <1>1, <1>2 DEF RequestOK
<1>6. Extends(vault', vault) /\ reports \subseteq reports' /\ certs \subseteq certs'
  BY <1>2 DEF Extends
<1>7. DOMAIN vault' = DOMAIN vault \cup {n} /\ vault'[n] = k
  BY <1>2
<1>8. VaultOK(vault', reports', certs')
  <2>1. VaultOK(vault, reports, certs) BY DEF IInv
  <2>2. DOMAIN vault' \subseteq KeyNames
    BY <2>1, <1>4, <1>7 DEF VaultOK
  <2>3. vault' \in [DOMAIN vault' -> Keys]
    BY <2>1, <1>2, <1>3, <1>7 DEF VaultOK
  <2>4. ReadableIn(n, k, reports', certs')
    BY <1>2, <1>3, <1>4 DEF ReadableIn
  <2>5. \A x \in DOMAIN vault' : ReadableIn(x, vault'[x], reports', certs')
    BY <2>1, <2>4, <1>2, <1>7 DEF VaultOK, ReadableIn
  <2>6. ASSUME NEW m \in Members, <<m, "enc">> \in DOMAIN vault'
        PROVE  <<m, "signing">> \in DOMAIN vault'
    <3>1. CASE <<m, "enc">> \in DOMAIN vault
      BY <3>1, <2>1, <1>7 DEF VaultOK
    <3>2. CASE <<m, "enc">> = n
      BY <3>2, <1>4, <1>5, <1>7
    <3> QED BY <2>6, <3>1, <3>2, <1>7
  <2> QED BY <2>2, <2>3, <2>5, <2>6 DEF VaultOK
<1>9. PICK q \in {[req[r] EXCEPT !.key = k, !.pc = "read"],
                  [req[r] EXCEPT !.pc = "conflict"]} :
        req' = [req EXCEPT ![r] = q]
  BY DEF ImportKey, Imported
<1>10. q \in RequestStates
  BY <1>1, <1>3, <1>9 DEF RequestStates, Steps
<1>11. RequestOK(q, vault', reports', certs')
  <2>1. /\ q.pc \in {"read", "conflict"} /\ (q.pc = "read" => q.key = k)
        /\ q.kid = req[r].kid /\ q.kind = req[r].kind
    BY <1>1, <1>9 DEF RequestStates
  <2>2. <<q.kid, q.kind>> = n
    BY <2>1, <1>4
  <2> HIDE DEF n, k
  <2> QED BY <2>1, <2>2, <1>5, <1>7 DEF RequestOK
<1>12. /\ req' \in [Requests -> RequestStates]
       /\ \A s \in Requests : RequestOK(req'[s], vault', reports', certs')
  BY <1>9, <1>10, <1>11, <1>6, RequestStep
<1>13. CacheOK(cache, vault') /\ GivenOK(given, vault') /\ PolicyOK(policy, vault')
  BY <1>6, GrownFrame DEF IInv
<1> QED
  BY <1>2, <1>8, <1>12, <1>13 DEF IInv, Types

LEMMA ImportKeyOK ==
  ASSUME IInv, NEW r \in Requests, ImportKey(r)
  PROVE  IInv'
<1>1. CASE NameOf(r) \notin DOMAIN vault
  BY <1>1, ImportNewOK
<1>2. CASE NameOf(r) \in DOMAIN vault
  <2> DEFINE q == [req[r] EXCEPT !.pc = "conflict"]
  <2>1. req[r] \in RequestStates /\ RequestOK(req[r], vault, reports, certs)
    BY DEF IInv, Types
  <2>2. q \in RequestStates
    BY <2>1 DEF RequestStates, Steps
  <2>3. req[r].pc = "import" /\ req' = [req EXCEPT ![r] = q]
    BY <1>2 DEF ImportKey, At
  <2>4. RequestOK(q, vault, reports, certs)
    <3>1. q.pc = "conflict" /\ q.kid = req[r].kid /\ q.kind = req[r].kind
      BY <2>1 DEF RequestStates
    <3> HIDE DEF q
    <3> QED BY <3>1, <2>1, <2>3, <1>2 DEF RequestOK, NameOf, ToKeyName
  <2>5. used' \subseteq Keys
    BY DEF ImportKey, IInv, Types
  <2> HIDE DEF q
  <2> QED BY <2>2, <2>3, <2>4, <2>5, <1>2, QuietStep DEF ImportKey
<1> QED BY <1>1, <1>2

LEMMA GetWinningKeyOK ==
  ASSUME IInv, NEW r \in Requests, GetWinningKey(r)
  PROVE  IInv'
<1> DEFINE k == WinningPair(r)
           q == [req[r] EXCEPT !.key = k, !.pc = "read"]
<1>1. req[r] \in RequestStates /\ RequestOK(req[r], vault, reports, certs)
  BY DEF IInv, Types
<1>2. req[r].pc = "conflict" /\ req' = [req EXCEPT ![r] = q]
  BY DEF GetWinningKey, At
<1>3. <<req[r].kid, req[r].kind>> \in DOMAIN vault
  BY <1>1, <1>2 DEF RequestOK
<1>4. k = vault[<<req[r].kid, req[r].kind>>] /\ k \in Keys
  BY <1>3 DEF WinningPair, GetKey, NameOf, ToKeyName, IInv, VaultOK
<1> HIDE DEF k
<1>5. q \in RequestStates
  BY <1>1, <1>4 DEF RequestStates, Steps
<1>6. RequestOK(q, vault, reports, certs)
  <2>1. /\ q.pc = "read" /\ q.key = k
        /\ q.kid = req[r].kid /\ q.kind = req[r].kind
    BY <1>1 DEF RequestStates
  <2> HIDE DEF q
  <2> QED BY <2>1, <1>1, <1>2, <1>3, <1>4 DEF RequestOK
<1>7. used' \subseteq Keys
  BY DEF GetWinningKey, IInv, Types
<1> HIDE DEF q
<1> QED BY <1>2, <1>5, <1>6, <1>7, QuietStep DEF GetWinningKey

(* A step that hands out x and moves its request: the vault is as it was.  *)
LEMMA HandOut ==
  ASSUME IInv, NEW r \in Requests, NEW q \in RequestStates,
         NEW n \in DOMAIN vault,
         req' = [req EXCEPT ![r] = q],
         RequestOK(q, vault, reports, certs),
         given' = given \cup {<<n, vault[n]>>},
         cache' \in [Instances -> [Members -> Keys \cup {None}]],
         CacheOK(cache', vault),
         UNCHANGED <<vault, reports, certs, policy, used, crashes>>
  PROVE  IInv'
<1>1. UNCHANGED <<vault, reports, certs>> OBVIOUS
<1>2. /\ req' \in [Requests -> RequestStates]
      /\ \A s \in Requests : RequestOK(req'[s], vault', reports', certs')
      /\ VaultOK(vault', reports', certs')
  BY <1>1, LocalStep
<1>3. n \in KeyNames /\ vault[n] \in Keys
  BY DEF IInv, VaultOK
<1>4. GivenOK(given', vault') /\ given' \subseteq KeyNames \X Keys
  BY <1>3 DEF IInv, Types, GivenOK
<1> QED
  BY <1>2, <1>4 DEF IInv, Types

LEMMA ReturnKeyOK ==
  ASSUME IInv, NEW r \in Requests, ReturnKey(r)
  PROVE  IInv'
<1> DEFINE n == NameOf(r)
           q == IF req[r].kid = PolicySigner
                THEN [req[r] EXCEPT !.pc = "release"]
                ELSE IF req[r].kind = FirstKind
                THEN Request("lookup", req[r].kid, OtherKind(FirstKind), {})
                ELSE NoRequest
<1>1. req[r] \in RequestStates /\ RequestOK(req[r], vault, reports, certs)
  BY DEF IInv, Types
<1>2. req[r].pc = "read" /\ req' = [req EXCEPT ![r] = q]
  BY DEF ReturnKey, At
<1>3. /\ n = <<req[r].kid, req[r].kind>>
      /\ n \in DOMAIN vault /\ req[r].key = vault[n]
  BY <1>1, <1>2 DEF RequestOK, NameOf, ToKeyName
<1>4. q \in RequestStates /\ RequestOK(q, vault, reports, certs)
  <2>1. CASE req[r].kid = PolicySigner
    <3>1. q = [req[r] EXCEPT !.pc = "release"] BY <2>1
    <3>2. q \in RequestStates BY <3>1, <1>1 DEF RequestStates, Steps
    <3>3. /\ q.pc = "release" /\ q.kid = req[r].kid
          /\ q.kind = req[r].kind /\ q.key = req[r].key
      BY <3>1, <1>1 DEF RequestStates
    <3>4. q.kind = "signing"
      BY <3>3, <2>1, <1>1, <1>2, ConstantsAssumption DEF RequestOK, RequestStates, Kinds
    <3> HIDE DEF q, n
    <3> QED BY <3>2, <3>3, <3>4, <2>1, <1>3 DEF RequestOK
  <2>2. CASE req[r].kid # PolicySigner /\ req[r].kind = FirstKind
    <3>1. q = [pc |-> "lookup", kid |-> req[r].kid, kind |-> "enc",
               pair |-> None, key |-> None, hostData |-> {}]
      BY <2>2 DEF Request, OtherKind, FirstKind
    <3>2. q \in RequestStates
      BY <3>1, <1>1 DEF RequestStates, Steps, Kinds
    <3>3. req[r].kid \in Members /\ <<req[r].kid, "signing">> \in DOMAIN vault
      BY <2>2, <1>1, <1>3 DEF RequestStates, Kids, FirstKind
    <3>4. q.pc = "lookup" /\ q.kind = "enc" /\ q.kid = req[r].kid
      BY <3>1
    <3> HIDE DEF q
    <3> QED BY <3>2, <3>3, <3>4 DEF RequestOK
  <2>3. CASE req[r].kid # PolicySigner /\ req[r].kind # FirstKind
    BY <2>3, NoRequestOK
  <2> QED BY <2>1, <2>2, <2>3
<1>5. given' = given \cup {<<n, vault[n]>>}
  BY <1>3 DEF ReturnKey
<1>6. /\ UNCHANGED <<vault, reports, certs, policy, used, crashes>>
      /\ cache' \in [Instances -> [Members -> Keys \cup {None}]]
      /\ CacheOK(cache', vault)
  BY DEF ReturnKey, IInv, Types
<1> HIDE DEF q, n
<1> QED BY <1>2, <1>3, <1>4, <1>5, <1>6, HandOut

LEMMA ReleasePolicySigningKeyOK ==
  ASSUME IInv, NEW r \in Requests, ReleasePolicySigningKey(r)
  PROVE  IInv'
<1> DEFINE k == ReleasedKey(r)
           q == [req[r] EXCEPT !.pair = k, !.pc = "write"]
<1>1. req[r] \in RequestStates /\ RequestOK(req[r], vault, reports, certs)
  BY DEF IInv, Types
<1>2. req[r].pc = "release" /\ req' = [req EXCEPT ![r] = q]
  BY DEF ReleasePolicySigningKey, At
<1>3. <<req[r].kid, req[r].kind>> \in DOMAIN vault
  BY <1>1, <1>2 DEF RequestOK
<1>4. k = vault[<<req[r].kid, req[r].kind>>] /\ k \in Keys
  BY <1>3 DEF ReleasedKey, GetKey, NameOf, ToKeyName, IInv, VaultOK
<1> HIDE DEF k
<1>5. q \in RequestStates
  BY <1>1, <1>4 DEF RequestStates, Steps
<1>6. RequestOK(q, vault, reports, certs)
  <2>1. /\ q.pc = "write" /\ q.pair = k /\ q.key = req[r].key
        /\ q.kid = req[r].kid /\ q.kind = req[r].kind
    BY <1>1 DEF RequestStates
  <2> HIDE DEF q
  <2> QED BY <2>1, <1>1, <1>2, <1>3, <1>4 DEF RequestOK
<1>7. used' \subseteq Keys
  BY DEF ReleasePolicySigningKey, IInv, Types
<1> HIDE DEF q
<1> QED BY <1>2, <1>5, <1>6, <1>7, QuietStep DEF ReleasePolicySigningKey

LEMMA SetSignedPolicyDocumentOK ==
  ASSUME IInv, NEW r \in Requests, SetSignedPolicyDocument(r)
  PROVE  IInv'
<1>1. req[r] \in RequestStates /\ RequestOK(req[r], vault, reports, certs)
  BY DEF IInv, Types
<1>2. /\ req[r].pc = "write"
      /\ req' = [req EXCEPT ![r] = NoRequest]
      /\ policy' = [hostData |-> req[r].hostData, signer |-> req[r].key,
                    signature |-> req[r].pair]
      /\ UNCHANGED <<vault, reports, certs, used, cache, given, crashes>>
  BY DEF SetSignedPolicyDocument, At
<1>3. /\ <<PolicySigner, "signing">> \in DOMAIN vault
      /\ req[r].key = vault[<<PolicySigner, "signing">>]
      /\ req[r].pair = req[r].key
  BY <1>1, <1>2 DEF RequestOK
<1>4. req[r].key \in Keys
  BY <1>3 DEF IInv, VaultOK
<1>5. policy' \in Policies /\ PolicyOK(policy', vault')
  BY <1>1, <1>2, <1>3, <1>4 DEF Policies, PolicyOK, RequestStates
<1>6. UNCHANGED <<vault, reports, certs>>
  BY <1>2
<1>7. /\ req' \in [Requests -> RequestStates]
      /\ \A s \in Requests : RequestOK(req'[s], vault', reports', certs')
      /\ VaultOK(vault', reports', certs')
  BY <1>2, <1>6, NoRequestOK, LocalStep
<1> QED
  BY <1>2, <1>5, <1>7 DEF IInv, Types

LEMMA ReleaseEncryptionKeyOK ==
  ASSUME IInv, NEW r \in Requests, ReleaseEncryptionKey(r)
  PROVE  IInv'
<1> DEFINE n == NameOf(r)
           q == [req[r] EXCEPT !.kind = "signing", !.pc = "sign"]
<1>1. req[r] \in RequestStates /\ RequestOK(req[r], vault, reports, certs)
  BY DEF IInv, Types
<1>2. /\ req[r].pc = "unwrap"
      /\ req' = [req EXCEPT ![r] = q]
      /\ given' = given \cup {<<n, vault[n]>>}
  BY DEF ReleaseEncryptionKey, At
<1>3. n \in DOMAIN vault
  BY DEF ReleaseEncryptionKey, GetKey
<1>4. q \in RequestStates
  BY <1>1 DEF RequestStates, Steps, Kinds
<1>5. RequestOK(q, vault, reports, certs)
  <2>1. q.pc = "sign" /\ q.kind = "signing" /\ q.kid = req[r].kid
    BY <1>1 DEF RequestStates
  <2> HIDE DEF q
  <2> QED BY <2>1, <1>1, <1>2 DEF RequestOK
<1>6. /\ UNCHANGED <<vault, reports, certs, policy, used, crashes>>
      /\ cache' \in [Instances -> [Members -> Keys \cup {None}]]
      /\ CacheOK(cache', vault)
  BY DEF ReleaseEncryptionKey, IInv, Types
<1> HIDE DEF q, n
<1> QED BY <1>2, <1>3, <1>4, <1>5, <1>6, HandOut

(* A key out of the cache is the vault's, one that is not is now cached.   *)
LEMMA ReleaseSigningKeyOK ==
  ASSUME IInv, NEW r \in Requests, ReleaseSigningKey(r)
  PROVE  IInv'
<1> DEFINE i == InstanceOf[r]
           m == req[r].kid
           n == <<m, "signing">>
           k == IF cache[i][m] # None THEN cache[i][m] ELSE GetKey(n)
<1>1. req[r] \in RequestStates /\ RequestOK(req[r], vault, reports, certs)
  BY DEF IInv, Types
<1>2. req[r].pc = "sign"
  BY DEF ReleaseSigningKey, At
<1>3. m \in Members /\ NameOf(r) = n /\ i \in Instances
  BY <1>1, <1>2, ConstantsAssumption DEF RequestOK, NameOf, ToKeyName
<1>4. /\ cache[i][m] = None => k # None
      /\ cache' = [cache EXCEPT ![i][m] = k]
      /\ given' = given \cup {<<n, k>>}
      /\ req' = [req EXCEPT ![r] = NoRequest]
      /\ UNCHANGED <<vault, reports, certs, policy, used, crashes>>
  BY <1>3 DEF ReleaseSigningKey
<1>5. n \in DOMAIN vault /\ k = vault[n]
  BY <1>3, <1>4 DEF GetKey, IInv, CacheOK
<1>6. k \in Keys
  BY <1>5 DEF IInv, VaultOK
<1> HIDE DEF k
<1>7. cache \in [Instances -> [Members -> Keys \cup {None}]] /\ CacheOK(cache, vault)
  BY DEF IInv, Types
<1>8. cache' \in [Instances -> [Members -> Keys \cup {None}]]
  BY <1>3, <1>4, <1>6, <1>7
<1>9. CacheOK(cache', vault)
  <2> SUFFICES ASSUME NEW j \in Instances, NEW x \in Members, cache'[j][x] # None
               PROVE  /\ <<x, "signing">> \in DOMAIN vault
                      /\ cache'[j][x] = vault[<<x, "signing">>]
    BY DEF CacheOK
  <2>1. CASE j = i /\ x = m
    BY <2>1, <1>3, <1>4, <1>5, <1>7
  <2>2. CASE ~(j = i /\ x = m)
    <3>1. cache'[j][x] = cache[j][x] BY <2>2, <1>3, <1>4, <1>7
    <3> QED BY <3>1, <1>7 DEF CacheOK
  <2> QED BY <2>1, <2>2
<1>10. given' = given \cup {<<n, vault[n]>>}
  BY <1>4, <1>5
<1> HIDE DEF n, m, i
<1> QED BY <1>4, <1>5, <1>8, <1>9, <1>10, NoRequestOK, HandOut

LEMMA ThrowOK ==
  ASSUME IInv, NEW r \in Requests, Throw(r)
  PROVE  IInv'
<1>1. used' \subseteq Keys
  BY DEF Throw, IInv, Types
<1> QED BY <1>1, NoRequestOK, QuietStep DEF Throw

LEMMA CrashOK ==
  ASSUME IInv, NEW i \in Instances, Crash(i)
  PROVE  IInv'
<1>1. /\ crashes < MaxCrashes /\ crashes' = crashes + 1
      /\ req' = [r \in Requests |-> IF InstanceOf[r] = i THEN NoRequest ELSE req[r]]
      /\ cache' = [cache EXCEPT ![i] = [m \in Members |-> None]]
      /\ UNCHANGED <<vault, reports, certs, policy, used, given>>
  BY DEF Crash
<1>2. crashes' \in 0..MaxCrashes
  BY <1>1, ConstantsAssumption DEF IInv, Types
<1>3. req' \in [Requests -> RequestStates]
  BY <1>1, NoRequestOK DEF IInv, Types
<1>4. \A r \in Requests : RequestOK(req'[r], vault', reports', certs')
  BY <1>1, NoRequestOK DEF IInv
<1>5. cache' \in [Instances -> [Members -> Keys \cup {None}]] /\ CacheOK(cache', vault')
  BY <1>1 DEF IInv, Types, CacheOK
<1> QED BY <1>1, <1>2, <1>3, <1>4, <1>5 DEF IInv, Types

LEMMA ArriveOK ==
  ASSUME IInv, NEW r \in Requests, Arrive(r)
  PROVE  IInv'
<1>1. PICK a \in Agents :
        \/ \E m \in Members : \/ GenerateMember(r, a, m)
                              \/ GenerateStateDigestMessage(r, a, m)
                              \/ GenerateRecoveryShareMessage(r, a, m)
        \/ \E hostData \in SUBSET Agents : SetNetworkJoinPolicy(r, a, hostData)
  BY DEF Arrive
<1>2. ASSUME NEW m \in Members, GenerateMember(r, a, m) PROVE IInv'
  BY <1>2, StartOK DEF GenerateMember, FirstKind, Kids, Kinds
<1>3. ASSUME NEW m \in Members, GenerateStateDigestMessage(r, a, m) PROVE IInv'
  BY <1>3, StartOK DEF GenerateStateDigestMessage, Kids, Kinds
<1>4. ASSUME NEW m \in Members, GenerateRecoveryShareMessage(r, a, m) PROVE IInv'
  BY <1>4, StartOK DEF GenerateRecoveryShareMessage, Kids, Kinds
<1>5. ASSUME NEW hostData \in SUBSET Agents, SetNetworkJoinPolicy(r, a, hostData)
      PROVE  IInv'
  BY <1>5, StartOK DEF SetNetworkJoinPolicy, Kids, Kinds
<1> QED BY <1>1, <1>2, <1>3, <1>4, <1>5

LEMMA NextOK == IInv /\ [Next]_vars => IInv'
<1> SUFFICES ASSUME IInv, [Next]_vars PROVE IInv' OBVIOUS
<1>1. ASSUME NEW r \in Requests, Arrive(r) \/ Serve(r) \/ Throw(r) PROVE IInv'
  <2>1. CASE Arrive(r) BY <2>1, ArriveOK
  <2>2. CASE Throw(r) BY <2>2, ThrowOK
  <2>3. CASE Serve(r)
    <3>1. CASE GenerateKeyPair(r) BY <3>1, GenerateKeyPairOK
    <3>2. CASE SetAttestationReportSecret(r) BY <3>2, SetAttestationReportSecretOK
    <3>3. CASE SetSigningCertSecret(r) BY <3>3, SetSigningCertSecretOK
    <3>4. CASE ImportKey(r) BY <3>4, ImportKeyOK
    <3>5. CASE GetWinningKey(r) BY <3>5, GetWinningKeyOK
    <3>6. CASE ReturnKey(r) BY <3>6, ReturnKeyOK
    <3>7. CASE ReleasePolicySigningKey(r) BY <3>7, ReleasePolicySigningKeyOK
    <3>8. CASE SetSignedPolicyDocument(r) BY <3>8, SetSignedPolicyDocumentOK
    <3>9. CASE ReleaseEncryptionKey(r) BY <3>9, ReleaseEncryptionKeyOK
    <3>10. CASE ReleaseSigningKey(r) BY <3>10, ReleaseSigningKeyOK
    <3> QED BY <2>3, <3>1, <3>2, <3>3, <3>4, <3>5, <3>6, <3>7, <3>8, <3>9, <3>10
            DEF Serve
  <2> QED BY <1>1, <2>1, <2>2, <2>3
<1>2. ASSUME NEW i \in Instances, Crash(i) PROVE IInv'
  BY <1>2, CrashOK
<1>3. CASE UNCHANGED vars
  BY <1>3 DEF vars, IInv, Types
<1> QED BY <1>1, <1>2, <1>3 DEF Next

-----------------------------------------------------------------------------
(* The inductive invariant holds.                                          *)
LEMMA Invariance == Spec => []IInv
  BY InitOK, NextOK, PTL DEF Spec

(* Every state has the shape TypeOK gives it: a request has the pair it    *)
(* uploads and the key it returns when AkvKeyStore needs them.             *)
THEOREM TypeCorrect == Spec => []TypeOK
<1>1. IInv => TypeOK
  <2> SUFFICES ASSUME IInv PROVE TypeOK OBVIOUS
  <2>1. ASSUME NEW r \in Requests
        PROVE  /\ req[r].pc \in {"report", "cert", "import", "write"} => req[r].pair # None
               /\ req[r].pc \in {"read", "release", "write"} => req[r].key # None
    <3>1. RequestOK(req[r], vault, reports, certs) /\ VaultOK(vault, reports, certs)
      BY DEF IInv
    <3>2. req[r].pc \in {"read", "release", "write"} => req[r].key \in Keys
      BY <3>1 DEF RequestOK, VaultOK
    <3> QED BY <3>1, <3>2, ConstantsAssumption DEF RequestOK
  <2> QED BY <2>1 DEF IInv, Types, VaultOK, TypeOK
<1> QED BY <1>1, Invariance, PTL

(* A key in the vault always has its report and certificate, at whichever  *)
(* call of GenerateSigningKey or GenerateEncryptionKey a request stopped.  *)
THEOREM ImportedStaysReadable == Spec => []ImportedIsReadable
<1>1. IInv => ImportedIsReadable
  BY DEF IInv, VaultOK, ReadableIn, ImportedIsReadable, Readable, HasReport, HasCert
<1> QED BY <1>1, Invariance, PTL

(* However many calls generate a member's keys, in whichever order, with   *)
(* whichever failures, they and the later signatures all use one key.      *)
THEOREM GenerateIsIdempotent == Spec => []OneKeyPerName
<1>1. IInv => OneKeyPerName
  BY DEF IInv, GivenOK, OneKeyPerName
<1> QED BY <1>1, Invariance, PTL

(* GetMember finds every member that GetMembers lists.                     *)
THEOREM ListedMembersAreWhole == Spec => []ListedIsWhole
<1>1. IInv => ListedIsWhole
  <2> SUFFICES ASSUME IInv, NEW m \in GetMembers, NEW kind \in Kinds
               PROVE  /\ GetKey(<<m, kind>>) # None
                      /\ Readable(<<m, kind>>, vault[<<m, kind>>])
    BY DEF ListedIsWhole, GetMember, ToKeyName
  <2>1. m \in Members /\ <<m, "enc">> \in DOMAIN vault
    BY DEF GetMembers, GetKey, ToKeyName
  <2>2. <<m, kind>> \in DOMAIN vault
    BY <2>1 DEF IInv, VaultOK, Kinds
  <2>3. vault[<<m, kind>>] \in Keys /\ ReadableIn(<<m, kind>>, vault[<<m, kind>>], reports, certs)
    BY <2>2 DEF IInv, VaultOK
  <2> QED BY <2>2, <2>3, ConstantsAssumption
          DEF GetKey, ReadableIn, Readable, HasReport, HasCert
<1> QED BY <1>1, Invariance, PTL

(* A join policy that SetNetworkJoinPolicy stored passes the checks of     *)
(* ValidateSignedPolicy, so that no request is locked out by it.           *)
THEOREM StoredPolicyVerifies == Spec => []PolicyVerifies
<1>1. IInv => PolicyVerifies
  <2> SUFFICES ASSUME IInv, policy # None PROVE ValidateSignedPolicy(policy)
    BY DEF PolicyVerifies
  <2> DEFINE n == <<PolicySigner, "signing">>
  <2>1. n \in DOMAIN vault /\ policy.signer = vault[n] /\ policy.signature = vault[n]
    BY DEF IInv, PolicyOK
  <2>2. vault[n] \in Keys /\ ReadableIn(n, vault[n], reports, certs)
    BY <2>1 DEF IInv, VaultOK
  <2> QED BY <2>1, <2>2, ConstantsAssumption
          DEF ValidateSignedPolicy, ToKeyName, GetKey, ReadableIn, Readable, HasReport, HasCert
<1> QED BY <1>1, Invariance, PTL

-----------------------------------------------------------------------------
(* Every name has a key of its own.  A pair is in one place until it is in *)
(* the vault: it is uploaded by one request, and is not in the vault yet.  *)

Uploading(q) == q.pc \in {"report", "cert", "import"}

PairsInv ==
  /\ \A r \in Requests : Uploading(req[r]) =>
       req[r].pair \in used /\ \A n \in DOMAIN vault : vault[n] # req[r].pair
  /\ \A r, s \in Requests : r # s /\ Uploading(req[r]) /\ Uploading(req[s]) =>
       req[r].pair # req[s].pair
  /\ \A n \in DOMAIN vault : vault[n] \in used
  /\ \A n1, n2 \in DOMAIN vault : vault[n1] = vault[n2] => n1 = n2
  /\ \A r \in Requests :
       req[r].pc # "idle" /\ req[r].kid = PolicySigner => req[r].hostData # {}

(* A request moves to q with the pair it had, with a new one, or without   *)
(* any; the vault stays.                                                   *)
LEMMA PairMoves ==
  ASSUME IInv, PairsInv, NEW r \in Requests, NEW q,
         req' = [req EXCEPT ![r] = q], vault' = vault, used \subseteq used',
         Uploading(q) => \/ Uploading(req[r]) /\ q.pair = req[r].pair
                         \/ q.pair \in used' \ used,
         q.pc # "idle" /\ q.kid = PolicySigner => q.hostData # {}
  PROVE  PairsInv'
<1>1. \A s \in Requests : req'[s] = IF s = r THEN q ELSE req[s]
  BY DEF IInv, Types
<1>2. ASSUME NEW s \in Requests, Uploading(req'[s])
      PROVE  req'[s].pair \in used' /\ \A n \in DOMAIN vault' : vault'[n] # req'[s].pair
  BY <1>1, <1>2 DEF PairsInv
<1>3. ASSUME NEW s \in Requests, NEW t \in Requests, s # t,
             Uploading(req'[s]), Uploading(req'[t])
      PROVE  req'[s].pair # req'[t].pair
  BY <1>1, <1>3 DEF PairsInv
<1>4. \A s \in Requests :
        req'[s].pc # "idle" /\ req'[s].kid = PolicySigner => req'[s].hostData # {}
  BY <1>1 DEF PairsInv
<1>5. /\ \A n \in DOMAIN vault' : vault'[n] \in used'
      /\ \A n1, n2 \in DOMAIN vault' : vault'[n1] = vault'[n2] => n1 = n2
  BY DEF PairsInv
<1> QED BY <1>2, <1>3, <1>4, <1>5 DEF PairsInv, Uploading

(* An import puts the pair of its request in the vault, and the request    *)
(* uploads it no more.                                                     *)
LEMMA PairImported ==
  ASSUME IInv, PairsInv, NEW r \in Requests, ImportKey(r), NameOf(r) \notin DOMAIN vault
  PROVE  PairsInv'
<1> DEFINE n == NameOf(r)
           k == req[r].pair
<1>1. /\ Uploading(req[r])
      /\ vault' = [x \in DOMAIN vault \cup {n} |-> IF x = n THEN k ELSE vault[x]]
      /\ used' = used
  BY DEF ImportKey, At, Uploading
<1>2. PICK q \in {[req[r] EXCEPT !.key = k, !.pc = "read"],
                  [req[r] EXCEPT !.pc = "conflict"]} :
        req' = [req EXCEPT ![r] = q]
  BY DEF ImportKey, Imported
<1>3. req[r] \in RequestStates /\ \A s \in Requests : req'[s] = IF s = r THEN q ELSE req[s]
  BY <1>2 DEF IInv, Types
<1>4. /\ ~Uploading(q)
      /\ q.kid = req[r].kid /\ q.hostData = req[r].hostData
  BY <1>2, <1>3 DEF RequestStates, Uploading
<1>5. k \in used /\ \A x \in DOMAIN vault : vault[x] # k
  BY <1>1 DEF PairsInv
<1>6. DOMAIN vault' = DOMAIN vault \cup {n} /\ vault'[n] = k
      /\ \A x \in DOMAIN vault : vault'[x] = vault[x]
  BY <1>1
<1>7. req[r].pc # "idle" BY <1>1 DEF Uploading
<1> HIDE DEF n
<1>8. ASSUME NEW s \in Requests, Uploading(req'[s])
      PROVE  /\ s # r /\ req'[s] = req[s] /\ Uploading(req[s])
             /\ req'[s].pair \in used' /\ \A x \in DOMAIN vault' : vault'[x] # req'[s].pair
  <2>1. s # r /\ req'[s] = req[s] /\ Uploading(req[s]) BY <1>3, <1>4, <1>8
  <2>2. req[s].pair # k /\ req[s].pair \in used /\ \A x \in DOMAIN vault : vault[x] # req[s].pair
    BY <2>1, <1>1 DEF PairsInv
  <2> QED BY <2>1, <2>2, <1>1, <1>6
<1>9. ASSUME NEW s \in Requests, NEW t \in Requests, s # t,
             Uploading(req'[s]), Uploading(req'[t])
      PROVE  req'[s].pair # req'[t].pair
  BY <1>8, <1>9 DEF PairsInv
<1>10. \A s \in Requests :
         req'[s].pc # "idle" /\ req'[s].kid = PolicySigner => req'[s].hostData # {}
  BY <1>3, <1>4, <1>7 DEF PairsInv
<1>11. /\ \A x \in DOMAIN vault' : vault'[x] \in used'
       /\ \A n1, n2 \in DOMAIN vault' : vault'[n1] = vault'[n2] => n1 = n2
  BY <1>1, <1>5, <1>6 DEF PairsInv
<1> QED BY <1>8, <1>9, <1>10, <1>11 DEF PairsInv, Uploading

LEMMA StartPairs ==
  ASSUME IInv, PairsInv, NEW r \in Requests, NEW pc \in {"lookup", "sign", "unwrap"},
         NEW kid, NEW kind, NEW hostData, kid = PolicySigner => hostData # {},
         Start(r, pc, kid, kind, hostData)
  PROVE  PairsInv'
<1> DEFINE q == Request(pc, kid, kind, hostData)
<1>1. q.pc = pc /\ q.kid = kid /\ q.hostData = hostData /\ ~Uploading(q)
  BY DEF Request, Uploading
<1>2. req' = [req EXCEPT ![r] = q] /\ vault' = vault /\ used' = used
  BY DEF Start
<1> HIDE DEF q
<1> QED BY <1>1, <1>2, PairMoves

LEMMA ArrivePairs ==
  ASSUME IInv, PairsInv, NEW r \in Requests, Arrive(r)
  PROVE  PairsInv'
<1>1. PICK a \in Agents :
        \/ \E m \in Members : \/ GenerateMember(r, a, m)
                              \/ GenerateStateDigestMessage(r, a, m)
                              \/ GenerateRecoveryShareMessage(r, a, m)
        \/ \E hostData \in SUBSET Agents : SetNetworkJoinPolicy(r, a, hostData)
  BY DEF Arrive
<1>2. ASSUME NEW m \in Members, GenerateMember(r, a, m) PROVE PairsInv'
  BY <1>2, StartPairs, ConstantsAssumption DEF GenerateMember
<1>3. ASSUME NEW m \in Members, GenerateStateDigestMessage(r, a, m) PROVE PairsInv'
  BY <1>3, StartPairs, ConstantsAssumption DEF GenerateStateDigestMessage
<1>4. ASSUME NEW m \in Members, GenerateRecoveryShareMessage(r, a, m) PROVE PairsInv'
  BY <1>4, StartPairs, ConstantsAssumption DEF GenerateRecoveryShareMessage
<1>5. ASSUME NEW hostData \in SUBSET Agents, SetNetworkJoinPolicy(r, a, hostData)
      PROVE  PairsInv'
  <2>1. hostData # {} BY <1>5 DEF SetNetworkJoinPolicy
  <2> QED BY <1>5, <2>1, StartPairs DEF SetNetworkJoinPolicy
<1> QED BY <1>1, <1>2, <1>3, <1>4, <1>5

(* The steps of a request but for the import of a new name.                *)
LEMMA ServePairs ==
  ASSUME IInv, PairsInv, NEW r \in Requests, Serve(r),
         ImportKey(r) => NameOf(r) \in DOMAIN vault
  PROVE  PairsInv'
<1>1. req[r] \in RequestStates
  BY DEF IInv, Types
<1>2. req[r].pc # "idle" /\ req[r].kid = PolicySigner => req[r].hostData # {}
  BY DEF PairsInv
<1>3. NoRequest.pc = "idle" /\ ~Uploading(NoRequest)
  BY DEF NoRequest, Request, Uploading
(* A step to q with other fields than these as they were.                  *)
<1>4. ASSUME NEW q, req' = [req EXCEPT ![r] = q], vault' = vault, used' = used,
             req[r].pc # "idle", q.kid = req[r].kid, q.hostData = req[r].hostData,
             Uploading(q) => Uploading(req[r]) /\ q.pair = req[r].pair
      PROVE  PairsInv'
  BY <1>2, <1>4, PairMoves
<1>5. CASE GenerateKeyPair(r)
  <2>1. PICK k \in Keys \ used :
          /\ used' = used \cup {k}
          /\ req' = [req EXCEPT ![r].pair = k, ![r].pc = "report"]
    BY <1>5, LookupFindsNothing DEF GenerateKeyPair, NewPairs
  <2> DEFINE q == [req[r] EXCEPT !.pair = k, !.pc = "report"]
  <2>2. q.pair = k /\ q.kid = req[r].kid /\ q.hostData = req[r].hostData
    BY <1>1 DEF RequestStates
  <2>3. req' = [req EXCEPT ![r] = q] BY <2>1
  <2>4. req[r].pc # "idle" /\ vault' = vault BY <1>5 DEF GenerateKeyPair, At
  <2> HIDE DEF q
  <2> QED BY <1>2, <2>1, <2>2, <2>3, <2>4, PairMoves
<1>6. CASE SetAttestationReportSecret(r)
  <2> DEFINE q == [req[r] EXCEPT !.pc = AfterReport(req[r].kind)]
  <2>1. q.pair = req[r].pair /\ q.kid = req[r].kid /\ q.hostData = req[r].hostData
    BY <1>1 DEF RequestStates
  <2>2. /\ req' = [req EXCEPT ![r] = q] /\ vault' = vault /\ used' = used
        /\ req[r].pc # "idle" /\ Uploading(req[r])
    BY <1>6 DEF SetAttestationReportSecret, At, Uploading
  <2> HIDE DEF q
  <2> QED BY <1>4, <2>1, <2>2
<1>7. CASE SetSigningCertSecret(r)
  <2> DEFINE q == [req[r] EXCEPT !.pc = "import"]
  <2>1. q.pair = req[r].pair /\ q.kid = req[r].kid /\ q.hostData = req[r].hostData
    BY <1>1 DEF RequestStates
  <2>2. /\ req' = [req EXCEPT ![r] = q] /\ vault' = vault /\ used' = used
        /\ req[r].pc # "idle" /\ Uploading(req[r])
    BY <1>7 DEF SetSigningCertSecret, At, Uploading
  <2> HIDE DEF q
  <2> QED BY <1>4, <2>1, <2>2
<1>8. CASE ImportKey(r)
  <2> DEFINE q == [req[r] EXCEPT !.pc = "conflict"]
  <2>1. ~Uploading(q) /\ q.kid = req[r].kid /\ q.hostData = req[r].hostData
    BY <1>1 DEF RequestStates, Uploading
  <2>2. /\ req' = [req EXCEPT ![r] = q] /\ vault' = vault /\ used' = used
        /\ req[r].pc # "idle"
    BY <1>8 DEF ImportKey, At
  <2> HIDE DEF q
  <2> QED BY <1>4, <2>1, <2>2
<1>9. CASE GetWinningKey(r)
  <2> DEFINE q == [req[r] EXCEPT !.key = WinningPair(r), !.pc = "read"]
  <2>1. ~Uploading(q) /\ q.kid = req[r].kid /\ q.hostData = req[r].hostData
    BY <1>1 DEF RequestStates, Uploading
  <2>2. /\ req' = [req EXCEPT ![r] = q] /\ vault' = vault /\ used' = used
        /\ req[r].pc # "idle"
    BY <1>9 DEF GetWinningKey, At
  <2> HIDE DEF q
  <2> QED BY <1>4, <2>1, <2>2
<1>10. CASE ReturnKey(r)
  <2> DEFINE q == IF req[r].kid = PolicySigner
                  THEN [req[r] EXCEPT !.pc = "release"]
                  ELSE IF req[r].kind = FirstKind
                  THEN Request("lookup", req[r].kid, OtherKind(FirstKind), {})
                  ELSE NoRequest
  <2>1. /\ req' = [req EXCEPT ![r] = q] /\ vault' = vault /\ used' = used
        /\ req[r].pc # "idle"
    BY <1>10 DEF ReturnKey, At
  <2>2. CASE req[r].kid = PolicySigner
    <3>1. ~Uploading(q) /\ q.kid = req[r].kid /\ q.hostData = req[r].hostData
      BY <2>2, <1>1 DEF RequestStates, Uploading
    <3> HIDE DEF q
    <3> QED BY <1>4, <2>1, <3>1
  <2>3. CASE req[r].kid # PolicySigner
    <3>1. ~Uploading(q) /\ (q.pc # "idle" => q.kid # PolicySigner)
      BY <2>3, <1>3 DEF Request, Uploading
    <3> HIDE DEF q
    <3> QED BY <2>1, <3>1, PairMoves
  <2> QED BY <2>2, <2>3
<1>11. CASE ReleasePolicySigningKey(r)
  <2> DEFINE q == [req[r] EXCEPT !.pair = ReleasedKey(r), !.pc = "write"]
  <2>1. ~Uploading(q) /\ q.kid = req[r].kid /\ q.hostData = req[r].hostData
    BY <1>1 DEF RequestStates, Uploading
  <2>2. /\ req' = [req EXCEPT ![r] = q] /\ vault' = vault /\ used' = used
        /\ req[r].pc # "idle"
    BY <1>11 DEF ReleasePolicySigningKey, At
  <2> HIDE DEF q
  <2> QED BY <1>4, <2>1, <2>2
<1>12. CASE ReleaseEncryptionKey(r)
  <2> DEFINE q == [req[r] EXCEPT !.kind = "signing", !.pc = "sign"]
  <2>1. ~Uploading(q) /\ q.kid = req[r].kid /\ q.hostData = req[r].hostData
    BY <1>1 DEF RequestStates, Uploading
  <2>2. /\ req' = [req EXCEPT ![r] = q] /\ vault' = vault /\ used' = used
        /\ req[r].pc # "idle"
    BY <1>12 DEF ReleaseEncryptionKey, At
  <2> HIDE DEF q
  <2> QED BY <1>4, <2>1, <2>2
<1>13. CASE SetSignedPolicyDocument(r) \/ ReleaseSigningKey(r)
  <2>1. req' = [req EXCEPT ![r] = NoRequest] /\ vault' = vault /\ used' = used
    BY <1>13 DEF SetSignedPolicyDocument, ReleaseSigningKey
  <2> QED BY <1>3, <2>1, PairMoves
<1> QED BY <1>5, <1>6, <1>7, <1>8, <1>9, <1>10, <1>11, <1>12, <1>13 DEF Serve

LEMMA NextPairs == IInv /\ PairsInv /\ [Next]_vars => PairsInv'
<1> SUFFICES ASSUME IInv, PairsInv, [Next]_vars PROVE PairsInv' OBVIOUS
<1>1. NoRequest.pc = "idle" /\ ~Uploading(NoRequest)
  BY DEF NoRequest, Request, Uploading
<1>2. ASSUME NEW r \in Requests, Throw(r) PROVE PairsInv'
  <2>1. req' = [req EXCEPT ![r] = NoRequest] /\ vault' = vault /\ used' = used
    BY <1>2 DEF Throw
  <2> QED BY <1>1, <2>1, PairMoves
<1>3. ASSUME NEW r \in Requests, Serve(r) PROVE PairsInv'
  BY <1>3, ServePairs, PairImported
<1>4. ASSUME NEW i \in Instances, Crash(i) PROVE PairsInv'
  <2>1. /\ vault' = vault /\ used' = used
        /\ \A r \in Requests : req'[r] = req[r] \/ req'[r] = NoRequest
    BY <1>4 DEF Crash
  <2>2. \A r \in Requests : Uploading(req'[r]) => req'[r] = req[r]
    BY <1>1, <2>1
  <2>3. ASSUME NEW r \in Requests, Uploading(req'[r])
        PROVE  req'[r].pair \in used' /\ \A n \in DOMAIN vault' : vault'[n] # req'[r].pair
    BY <2>1, <2>2, <2>3 DEF PairsInv
  <2>4. ASSUME NEW r \in Requests, NEW s \in Requests, r # s,
               Uploading(req'[r]), Uploading(req'[s])
        PROVE  req'[r].pair # req'[s].pair
    BY <2>2, <2>4 DEF PairsInv
  <2>5. \A r \in Requests :
          req'[r].pc # "idle" /\ req'[r].kid = PolicySigner => req'[r].hostData # {}
    BY <1>1, <2>1 DEF PairsInv
  <2>6. /\ \A n \in DOMAIN vault' : vault'[n] \in used'
        /\ \A n1, n2 \in DOMAIN vault' : vault'[n1] = vault'[n2] => n1 = n2
    BY <2>1 DEF PairsInv
  <2> QED BY <2>3, <2>4, <2>5, <2>6 DEF PairsInv, Uploading
<1>5. CASE UNCHANGED vars
  BY <1>5 DEF vars, PairsInv, Uploading
<1> QED BY <1>2, <1>3, <1>4, <1>5, ArrivePairs DEF Next

LEMMA AlwaysPairs == Spec => []PairsInv
<1>1. Init => PairsInv
  <2> SUFFICES ASSUME Init PROVE PairsInv OBVIOUS
  <2>1. DOMAIN vault = {} /\ \A r \in Requests : req[r] = NoRequest
    BY DEF Init
  <2>2. NoRequest.pc = "idle" /\ ~Uploading(NoRequest)
    BY DEF NoRequest, Request, Uploading
  <2> QED BY <2>1, <2>2 DEF PairsInv
<1> QED BY <1>1, NextPairs, Invariance, PTL DEF Spec

-----------------------------------------------------------------------------
(* The register.                                                           *)

LEMMA RegisterNames ==
  /\ DOMAIN Value = Register!Names
  /\ Register!Names \subseteq KeyNames
  /\ \A n \in Register!Names : Value[n] = GetKey(n)
  /\ \A n \in KeyNames : n[1] \in Members \/ n[2] = "signing" => n \in Register!Names
  BY DEF Value, Register!Names, Register!Signer, KeyNames, Kids, Kinds, ToKeyName, GetKey

LEMMA RegisterInitOK == Init => Register!RegisterInit
<1> SUFFICES ASSUME Init PROVE Register!RegisterInit OBVIOUS
<1>1. \A n \in Register!Names : GetKey(n) = None
  BY DEF Init, GetKey
<1>2. Value = [n \in Register!Names |-> None]
  BY <1>1 DEF Value, Register!Names, Register!Signer, Kinds, ToKeyName
<1> QED BY <1>2 DEF Init, Register!RegisterInit

(* An import of a new name gives it its key.                               *)
LEMMA ImportChooses ==
  ASSUME IInv, PairsInv, NEW r \in Requests, ImportKey(r), NameOf(r) \notin DOMAIN vault
  PROVE  Register!RegisterNext
<1>1. PICK n \in KeyNames : n = NameOf(r) /\ n = <<req[r].kid, req[r].kind>>
  BY DEF NameOf, ToKeyName, IInv, Types, RequestStates, KeyNames
<1>2. PICK k \in Keys : k = req[r].pair
  BY DEF ImportKey, At, IInv, Types, RequestStates, RequestOK
<1>3. /\ req[r].pc = "import"
      /\ vault' = [x \in DOMAIN vault \cup {n} |-> IF x = n THEN k ELSE vault[x]]
      /\ UNCHANGED <<given, policy>>
  BY <1>1, <1>2 DEF ImportKey, At
<1>4. req[r].kind = "enc" => /\ req[r].kid \in Members
                             /\ <<req[r].kid, "signing">> \in DOMAIN vault
  BY <1>3 DEF IInv, RequestOK
<1>5. n \in Register!Names
  BY <1>1, <1>4, RegisterNames DEF KeyNames, Kinds
<1>6. Value[n] = None
  BY <1>1, <1>5, RegisterNames DEF GetKey
<1>7. n[2] = "enc" => Value[<<n[1], "signing">>] # None
  <2> SUFFICES ASSUME n[2] = "enc" PROVE Value[<<n[1], "signing">>] # None OBVIOUS
  <2> DEFINE s == <<n[1], "signing">>
  <2>1. s \in DOMAIN vault BY <1>1, <1>4
  <2>2. vault[s] \in Keys /\ s \in KeyNames BY <2>1 DEF IInv, VaultOK
  <2>3. s \in Register!Names BY <2>2, RegisterNames
  <2> QED BY <2>1, <2>2, <2>3, RegisterNames, ConstantsAssumption DEF GetKey
<1>8. \A other \in Register!Names : Value[other] # k
  <2>1. \A x \in DOMAIN vault : vault[x] # k
    BY <1>2, <1>3 DEF PairsInv, Uploading
  <2> QED BY <2>1, RegisterNames, ConstantsAssumption DEF GetKey
<1>9. Value' = [Value EXCEPT ![n] = k]
  <2>1. \A x \in Register!Names : GetKey(x)' = IF x = n THEN k ELSE GetKey(x)
    BY <1>3 DEF GetKey
  <2>2. Value' = [x \in Register!Names |-> GetKey(x)']
    BY DEF Value, Register!Names, Register!Signer, Kinds, ToKeyName
  <2>3. Value = [x \in Register!Names |-> GetKey(x)]
    BY DEF Value, Register!Names, Register!Signer, Kinds, ToKeyName
  <2> QED BY <1>5, <2>1, <2>2, <2>3
<1>10. Register!Choose(n, k)
  BY <1>3, <1>6, <1>7, <1>8, <1>9 DEF Register!Choose
<1> QED BY <1>5, <1>10, SMTT(60) DEF Register!RegisterNext

(* What is handed out is the key of a name.                                *)
LEMMA HandOutTells ==
  ASSUME IInv, NEW n \in DOMAIN vault, n \in Register!Names,
         given' = given \cup {<<n, vault[n]>>}, UNCHANGED <<vault, policy>>
  PROVE  Register!RegisterNext
<1>1. Value[n] = vault[n] /\ Value[n] # None
  BY RegisterNames, ConstantsAssumption DEF GetKey, IInv, VaultOK
<1>2. Value' = Value
  BY DEF Value, GetKey
<1>3. Register!Tell(n)
  BY <1>1, <1>2 DEF Register!Tell
<1> QED BY <1>3 DEF Register!RegisterNext

(* Every step is one of the register, or changes nothing it shows.         *)
LEMMA RegisterStep ==
  IInv /\ PairsInv /\ [Next]_vars =>
    [Register!RegisterNext]_(Register!registerVars)
<1> SUFFICES ASSUME IInv, PairsInv, [Next]_vars
             PROVE  Register!RegisterNext \/ UNCHANGED Register!registerVars
  OBVIOUS
<1>1. UNCHANGED <<vault, given, policy>> => UNCHANGED Register!registerVars
  BY DEF Register!registerVars, Value, GetKey
<1>2. ASSUME NEW r \in Requests, ImportKey(r)
      PROVE  Register!RegisterNext \/ UNCHANGED Register!registerVars
  <2>1. CASE NameOf(r) \in DOMAIN vault
    BY <1>1, <1>2, <2>1 DEF ImportKey
  <2> QED BY <1>2, <2>1, ImportChooses
<1>3. ASSUME NEW r \in Requests, ReturnKey(r) PROVE Register!RegisterNext
  <2>1. PICK n : n = NameOf(r) /\ n = <<req[r].kid, req[r].kind>>
    BY DEF NameOf, ToKeyName
  <2>2. RequestOK(req[r], vault, reports, certs) /\ req[r] \in RequestStates
    BY DEF IInv, Types
  <2>3. /\ req[r].pc = "read" /\ given' = given \cup {<<n, req[r].key>>}
        /\ UNCHANGED <<vault, policy>>
    BY <1>3, <2>1 DEF ReturnKey, At
  <2>4. n \in DOMAIN vault /\ req[r].key = vault[n]
    BY <2>1, <2>2, <2>3 DEF RequestOK
  <2>5. n \in KeyNames /\ (req[r].kind = "enc" => req[r].kid \in Members)
    BY <2>1, <2>2, <2>3 DEF RequestOK, RequestStates, KeyNames
  <2>6. n \in Register!Names
    BY <2>1, <2>5, RegisterNames DEF KeyNames, Kinds
  <2> QED BY <2>3, <2>4, <2>6, HandOutTells
<1>4. ASSUME NEW r \in Requests, ReleaseEncryptionKey(r) PROVE Register!RegisterNext
  <2>1. PICK n : n = NameOf(r) /\ n = <<req[r].kid, req[r].kind>>
    BY DEF NameOf, ToKeyName
  <2>2. RequestOK(req[r], vault, reports, certs) /\ req[r] \in RequestStates
    BY DEF IInv, Types
  <2>3. /\ req[r].pc = "unwrap" /\ given' = given \cup {<<n, vault[n]>>}
        /\ n \in DOMAIN vault /\ UNCHANGED <<vault, policy>>
    BY <1>4, <2>1 DEF ReleaseEncryptionKey, At, GetKey
  <2>4. n \in KeyNames /\ req[r].kid \in Members
    BY <2>1, <2>2, <2>3 DEF RequestOK, RequestStates, KeyNames
  <2>5. n \in Register!Names
    BY <2>1, <2>4, RegisterNames, SMTT(60)
  <2> QED BY <2>3, <2>5, HandOutTells
<1>5. ASSUME NEW r \in Requests, ReleaseSigningKey(r) PROVE Register!RegisterNext
  <2> DEFINE i == InstanceOf[r]
             m == req[r].kid
  <2>1. PICK n : n = <<m, "signing">> OBVIOUS
  <2>2. m \in Members /\ NameOf(r) = n /\ i \in Instances
    BY <1>5, <2>1, ConstantsAssumption
    DEF ReleaseSigningKey, At, IInv, RequestOK, NameOf, ToKeyName
  <2>3. PICK k : k = IF cache[i][m] # None THEN cache[i][m] ELSE GetKey(n)
    OBVIOUS
  <2>4. /\ cache[i][m] = None => k # None
        /\ given' = given \cup {<<n, k>>}
        /\ UNCHANGED <<vault, policy>>
    BY <1>5, <2>2, <2>3, SMTT(60) DEF ReleaseSigningKey
  <2>5. n \in DOMAIN vault /\ k = vault[n]
    BY <2>1, <2>2, <2>3, <2>4 DEF GetKey, IInv, CacheOK
  <2>6. n \in Register!Names
    BY <2>1, <2>2, RegisterNames, SMTT(60) DEF KeyNames, Kids, Kinds
  <2> QED BY <2>4, <2>5, <2>6, HandOutTells
<1>6. ASSUME NEW r \in Requests, SetSignedPolicyDocument(r) PROVE Register!RegisterNext
  <2> DEFINE n == <<PolicySigner, "signing">>
  <2>1. RequestOK(req[r], vault, reports, certs) /\ req[r] \in RequestStates
    BY DEF IInv, Types
  <2>2. PICK hostData \in SUBSET Agents : hostData = req[r].hostData
    BY <2>1 DEF RequestStates
  <2>3. /\ req[r].pc = "write"
        /\ policy' = [hostData |-> hostData, signer |-> req[r].key, signature |-> req[r].pair]
        /\ UNCHANGED <<vault, given>>
    BY <1>6, <2>2 DEF SetSignedPolicyDocument, At
  <2>4. /\ req[r].kid = PolicySigner /\ n \in DOMAIN vault
        /\ req[r].key = vault[n] /\ req[r].pair = vault[n]
    BY <2>1, <2>3 DEF RequestOK
  <2>5. hostData # {}
    BY <2>2, <2>3, <2>4 DEF PairsInv
  <2>6. n = Register!Signer /\ n \in Register!Names
    BY DEF Register!Signer, Register!Names
  <2>7. Value[n] = vault[n] /\ Value[n] # None
    BY <2>4, <2>6, RegisterNames, ConstantsAssumption DEF GetKey, IInv, VaultOK
  <2>8. Value' = Value
    BY <2>3 DEF Value, GetKey
  <2> HIDE DEF n
  <2>9. Register!Sign(hostData)
    BY <2>3, <2>4, <2>5, <2>6, <2>7, <2>8 DEF Register!Sign
  <2> QED BY <2>2, <2>9 DEF Register!RegisterNext
<1>7. ASSUME NEW r \in Requests, Serve(r)
      PROVE  Register!RegisterNext \/ UNCHANGED Register!registerVars
  <2>1. CASE GenerateKeyPair(r) BY <1>1, <2>1 DEF GenerateKeyPair
  <2>2. CASE SetAttestationReportSecret(r) BY <1>1, <2>2 DEF SetAttestationReportSecret
  <2>3. CASE SetSigningCertSecret(r) BY <1>1, <2>3 DEF SetSigningCertSecret
  <2>4. CASE GetWinningKey(r) BY <1>1, <2>4 DEF GetWinningKey
  <2>5. CASE ReleasePolicySigningKey(r) BY <1>1, <2>5 DEF ReleasePolicySigningKey
  <2> QED BY <1>2, <1>3, <1>4, <1>5, <1>6, <1>7, <2>1, <2>2, <2>3, <2>4, <2>5 DEF Serve
<1>8. ASSUME NEW r \in Requests, Arrive(r) PROVE UNCHANGED Register!registerVars
  BY <1>1, <1>8 DEF Arrive, GenerateMember, GenerateStateDigestMessage,
     GenerateRecoveryShareMessage, SetNetworkJoinPolicy, Start
<1>9. ASSUME NEW r \in Requests, Throw(r) PROVE UNCHANGED Register!registerVars
  BY <1>1, <1>9 DEF Throw
<1>10. ASSUME NEW i \in Instances, Crash(i) PROVE UNCHANGED Register!registerVars
  BY <1>1, <1>10 DEF Crash
<1>11. CASE UNCHANGED vars
  BY <1>1, <1>11 DEF vars
<1> QED BY <1>7, <1>8, <1>9, <1>10, <1>11 DEF Next

(* However GenerateMember, SetNetworkJoinPolicy and the requests that sign *)
(* race, fail between two calls to the vault or lose a cache in a crash,   *)
(* callers see registers that are set once, each to a key of its own.      *)
THEOREM KeysAreARegister == Spec => ImplementsKeyRegister
<1>1. Spec => Register!RegisterInit /\ [][Register!RegisterNext]_(Register!registerVars)
  BY RegisterInitOK, RegisterStep, Invariance, AlwaysPairs, PTL DEF Spec
<1> QED BY <1>1 DEF ImplementsKeyRegister, Register!RegisterSpec

=============================================================================
