--------------------------- MODULE RecoveryService ---------------------------
(***************************************************************************)
(* The confidential recovery service of a CCF network and the key store it *)
(* keeps its members' keys in (src/ccf/recovery/ccf-recovery-service,      *)
(* src/ccf/ccf-common/Stores).  The service has no state of its own but a  *)
(* cache: the keys, their attestation reports and certificates, and the    *)
(* signed join policy are in an Azure Key Vault that several requests, and *)
(* several instances with the same host data, use without a lock.  Every   *)
(* call to the vault is a step, so requests interleave between any two, an *)
(* instance may crash between any two, and any one may fail.               *)
(*                                                                         *)
(* A key pair is a model value.  All instances have the same host data:    *)
(* the host data is part of every key's and policy's name, so instances    *)
(* with different host data share nothing.                                 *)
(***************************************************************************)
EXTENDS Naturals, FiniteSets

CONSTANTS Instances,     \* running copies of the service
          Requests,      \* request slots of the copies
          InstanceOf,    \* the copy a slot belongs to
          Members,       \* names of recovery members
          PolicySigner,  \* the key id of the policy signer
          Keys,          \* key pairs that may be generated
          Agents,        \* host data of the recovery agents
          InitialPolicy, \* host data the service is deployed to admit
          None,
          MaxCrashes     \* bound on crashes of a copy

VARIABLES vault,    \* key name -> key pair, for the names imported so far
          reports,  \* key pairs whose attestation report secret is set
          certs,    \* key pairs whose signing certificate secret is set
          policy,   \* the signed join policy secret, or None
          used,     \* key pairs generated so far
          req,      \* per slot, the request being served
          cache,    \* per copy, cachedSigningKeys of MemberStore
          given,    \* <<key name, key pair>> handed to callers so far
          crashes

vars == <<vault, reports, certs, policy, used, req, cache, given, crashes>>

(* Key ids, and the names their keys have in the vault: id plus suffix.    *)
Kids == Members \cup {PolicySigner}
Kinds == {"signing", "enc"}
ToKeyName(kid, kind) == <<kid, kind>>
KeyNames == Kids \X Kinds

ASSUME ConstantsAssumption ==
  /\ InstanceOf \in [Requests -> Instances]
  /\ PolicySigner \notin Members
  /\ None \notin Keys
  /\ InitialPolicy \in SUBSET Agents
  /\ MaxCrashes \in Nat

(* An id ends with the host data, a key name with the suffix of its kind.  *)
ASSUME NamesAssumption == Kids \cap KeyNames = {}

Steps == {"idle", "lookup", "report", "cert", "import", "conflict", "read",
          "release", "write", "unwrap", "sign"}

Policies == [hostData : SUBSET Agents, signer : Keys, signature : Keys]

(* A request: its step, the key it is at, the pair it generated, the pair   *)
(* it found to be in the vault, and the policy it was asked to set.         *)
RequestStates ==
  [pc : Steps, kid : Kids, kind : Kinds, pair : Keys \cup {None},
   key : Keys \cup {None}, hostData : SUBSET Agents]

Request(pc, kid, kind, hostData) ==
  [pc |-> pc, kid |-> kid, kind |-> kind, pair |-> None, key |-> None,
   hostData |-> hostData]

NoRequest == Request("idle", PolicySigner, "signing", {})

Init ==
  /\ vault = << >>
  /\ reports = {}
  /\ certs = {}
  /\ policy = None
  /\ used = {}
  /\ req = [r \in Requests |-> NoRequest]
  /\ cache = [i \in Instances |-> [m \in Members |-> None]]
  /\ given = {}
  /\ crashes = 0

-----------------------------------------------------------------------------
(* Reading the vault.                                                      *)

GetKey(n) == IF n \in DOMAIN vault THEN vault[n] ELSE None

HasReport(k) == k \in reports
HasCert(k) == k \in certs

(* GetEncryptionKey and GetSigningKey: what the report and, of a signing   *)
(* key, the certificate are stored under is the key itself; a secret that  *)
(* is not there makes the call throw.                                      *)
Readable(n, k) == HasReport(k) /\ (n[2] = "signing" => HasCert(k))

(* ListEncryptionKeys, GetMembers: only the encryption keys are listed.    *)
GetMembers == {m \in Members : GetKey(ToKeyName(m, "enc")) # None}

(* GetMember: neither not found nor an exception.                          *)
GetMember(m) ==
  \A kind \in Kinds :
    LET n == ToKeyName(m, kind)
    IN  GetKey(n) # None /\ Readable(n, vault[n])

(* ValidateSignedPolicy: signed once, by the signer that the vault has now. *)
ValidateSignedPolicy(p) ==
  LET n == ToKeyName(PolicySigner, "signing")
  IN  /\ GetKey(n) # None
      /\ Readable(n, vault[n])
      /\ p.signer = vault[n]
      /\ p.signature = vault[n]

(* VerifyAttestationReport: the policy in force admits the calling agent.  *)
(* A policy that fails its validation makes every call throw.              *)
VerifyAttestationReport(a) ==
  IF policy = None
  THEN a \in InitialPolicy
  ELSE ValidateSignedPolicy(policy) /\ a \in policy.hostData

-----------------------------------------------------------------------------
(* Requests.  One that is not admitted changes nothing.                    *)

(* Mutant: the encryption key is generated first. *)
EncFirst == "enc"

(* GenerateMember generates the signing key first. *)
FirstKind == "signing"

Start(r, pc, kid, kind, hostData) ==
  /\ req[r].pc = "idle"
  /\ req' = [req EXCEPT ![r] = Request(pc, kid, kind, hostData)]
  /\ UNCHANGED <<vault, reports, certs, policy, used, cache, given, crashes>>

(* POST members/generate. *)
GenerateMember(r, a, m) ==
  /\ VerifyAttestationReport(a)
  /\ Start(r, "lookup", m, FirstKind, {})

(* POST network/joinpolicy/set: the agent sends the join policy of its     *)
(* network, whatever that is then; a policy without the agent is refused.  *)
SetNetworkJoinPolicy(r, a, hostData) ==
  /\ VerifyAttestationReport(a)
  /\ a \in hostData
  /\ Start(r, "lookup", PolicySigner, "signing", hostData)

(* POST members/generateStateDigestMessage, ...AckMessage. *)
GenerateStateDigestMessage(r, a, m) ==
  /\ VerifyAttestationReport(a)
  /\ Start(r, "sign", m, "signing", {})

(* POST members/generateRecoveryShareMessage. *)
GenerateRecoveryShareMessage(r, a, m) ==
  /\ VerifyAttestationReport(a)
  /\ Start(r, "unwrap", m, "enc", {})

-----------------------------------------------------------------------------
(* GenerateSigningKey and GenerateEncryptionKey, a step per vault call.    *)

At(r, pc) == req[r].pc = pc
NameOf(r) == ToKeyName(req[r].kid, req[r].kind)

(* Mutant: the pair is the one in a file, as outside SNP, and not a new one. *)
PairInFile(r) == IF used = {} THEN Keys ELSE used

(* Attestation generates a pair that is like no other.                     *)
NewPairs(r) == Keys \ used

(* The existing key is looked up under a name to which the suffix was      *)
(* added twice; where nothing has that name a new pair is generated.       *)
GenerateKeyPair(r) ==
  /\ At(r, "lookup")
  /\ LET existing == GetKey(ToKeyName(NameOf(r), req[r].kind))
     IN  IF existing # None
         THEN /\ req' = [req EXCEPT ![r].key = existing, ![r].pc = "read"]
              /\ UNCHANGED used
         ELSE \E k \in NewPairs(r) :
                /\ used' = used \cup {k}
                /\ req' = [req EXCEPT ![r].pair = k, ![r].pc = "report"]
  /\ UNCHANGED <<vault, reports, certs, policy, cache, given, crashes>>

(* Mutant: a signing key is imported without its certificate. *)
ImportAtOnce(kind) == "import"

(* A signing key has a certificate, which is uploaded after the report. *)
AfterReport(kind) == IF kind = "signing" THEN "cert" ELSE "import"

SetAttestationReportSecret(r) ==
  /\ At(r, "report")
  /\ reports' = reports \cup {req[r].pair}
  /\ req' = [req EXCEPT ![r].pc = AfterReport(req[r].kind)]
  /\ UNCHANGED <<vault, certs, policy, used, cache, given, crashes>>

SetSigningCertSecret(r) ==
  /\ At(r, "cert")
  /\ certs' = certs \cup {req[r].pair}
  /\ req' = [req EXCEPT ![r].pc = "import"]
  /\ UNCHANGED <<vault, reports, policy, used, cache, given, crashes>>

(* Mutant: the imported pair is not kept for the answer. *)
ForgetImported(r) == None

(* The vault takes a name once: the release policy is immutable.  When the *)
(* answer to the import is lost the vault client repeats the call, which   *)
(* is refused as any other import of a name that is there.                 *)
Imported(r) == req[r].pair

ImportKey(r) ==
  /\ At(r, "import")
  /\ IF NameOf(r) \in DOMAIN vault
     THEN /\ req' = [req EXCEPT ![r].pc = "conflict"]
          /\ UNCHANGED vault
     ELSE /\ vault' = [n \in DOMAIN vault \cup {NameOf(r)} |->
                         IF n = NameOf(r) THEN req[r].pair ELSE vault[n]]
          /\ \/ req' = [req EXCEPT ![r].key = Imported(r), ![r].pc = "read"]
             \/ req' = [req EXCEPT ![r].pc = "conflict"]
  /\ UNCHANGED <<reports, certs, policy, used, cache, given, crashes>>

(* Mutant: the request that lost the race returns its own pair. *)
OwnPair(r) == req[r].pair

(* The catch of AKV.SKR.1020: the key in the vault is the member's key.    *)
WinningPair(r) == GetKey(NameOf(r))

GetWinningKey(r) ==
  /\ At(r, "conflict")
  /\ req' = [req EXCEPT ![r].key = WinningPair(r), ![r].pc = "read"]
  /\ UNCHANGED <<vault, reports, certs, policy, used, cache, given, crashes>>

(* The report and the certificate are read back and the key is returned;   *)
(* GenerateMember goes on to the encryption key, SetNetworkJoinPolicy to   *)
(* the release of the signer's key.                                        *)
OtherKind(kind) == IF kind = "signing" THEN "enc" ELSE "signing"

ReturnKey(r) ==
  /\ At(r, "read")
  /\ Readable(NameOf(r), req[r].key)
  /\ given' = given \cup {<<NameOf(r), req[r].key>>}
  /\ req' = [req EXCEPT ![r] =
               IF req[r].kid = PolicySigner
               THEN [req[r] EXCEPT !.pc = "release"]
               ELSE IF req[r].kind = FirstKind
               THEN Request("lookup", req[r].kid, OtherKind(FirstKind), {})
               ELSE NoRequest]
  /\ UNCHANGED <<vault, reports, certs, policy, used, cache, crashes>>

-----------------------------------------------------------------------------
(* Using the keys.                                                         *)

(* Mutant: the policy is signed with the pair this request generated. *)
FreshPair(r) == IF req[r].pair # None THEN req[r].pair ELSE req[r].key

(* The policy is signed with the released key of the signer, and the       *)
(* signature filed under the certificate that was returned for it.         *)
ReleasedKey(r) == GetKey(NameOf(r))

ReleasePolicySigningKey(r) ==
  /\ At(r, "release")
  /\ Readable(NameOf(r), ReleasedKey(r))
  /\ req' = [req EXCEPT ![r].pair = ReleasedKey(r), ![r].pc = "write"]
  /\ UNCHANGED <<vault, reports, certs, policy, used, cache, given, crashes>>

SetSignedPolicyDocument(r) ==
  /\ At(r, "write")
  /\ policy' = [hostData |-> req[r].hostData, signer |-> req[r].key,
                signature |-> req[r].pair]
  /\ req' = [req EXCEPT ![r] = NoRequest]
  /\ UNCHANGED <<vault, reports, certs, used, cache, given, crashes>>

(* ReleaseEncryptionKey, for the recovery share; the vault refuses a name  *)
(* it does not have, and the request fails.                                *)
ReleaseEncryptionKey(r) ==
  /\ At(r, "unwrap")
  /\ GetKey(NameOf(r)) # None
  /\ Readable(NameOf(r), vault[NameOf(r)])
  /\ given' = given \cup {<<NameOf(r), vault[NameOf(r)]>>}
  /\ req' = [req EXCEPT ![r].kind = "signing", ![r].pc = "sign"]
  /\ UNCHANGED <<vault, reports, certs, policy, used, cache, crashes>>

(* ReleaseSigningKey of MemberStore: from the cache of the copy, else from *)
(* the vault and kept.  The message is signed with it and answered.        *)
ReleaseSigningKey(r) ==
  LET i == InstanceOf[r]
      m == req[r].kid
      n == NameOf(r)
      cached == cache[i][m]
      k == IF cached # None THEN cached ELSE GetKey(n)
  IN  /\ At(r, "sign")
      /\ cached = None => k # None /\ Readable(n, k)
      /\ cache' = [cache EXCEPT ![i][m] = k]
      /\ given' = given \cup {<<n, k>>}
      /\ req' = [req EXCEPT ![r] = NoRequest]
      /\ UNCHANGED <<vault, reports, certs, policy, used, crashes>>

(* Any vault call may fail: the exception ends the request.                *)
Throw(r) ==
  /\ ~At(r, "idle")
  /\ req' = [req EXCEPT ![r] = NoRequest]
  /\ UNCHANGED <<vault, reports, certs, policy, used, cache, given, crashes>>

(* A copy of the service crashes and restarts, with an empty cache.        *)
Crash(i) ==
  /\ crashes < MaxCrashes
  /\ crashes' = crashes + 1
  /\ req' = [r \in Requests |-> IF InstanceOf[r] = i THEN NoRequest ELSE req[r]]
  /\ cache' = [cache EXCEPT ![i] = [m \in Members |-> None]]
  /\ UNCHANGED <<vault, reports, certs, policy, used, given>>

Arrive(r) ==
  \E a \in Agents :
    \/ \E m \in Members : \/ GenerateMember(r, a, m)
                          \/ GenerateStateDigestMessage(r, a, m)
                          \/ GenerateRecoveryShareMessage(r, a, m)
    \/ \E hostData \in SUBSET Agents : SetNetworkJoinPolicy(r, a, hostData)

Serve(r) ==
  \/ GenerateKeyPair(r)
  \/ SetAttestationReportSecret(r)
  \/ SetSigningCertSecret(r)
  \/ ImportKey(r)
  \/ GetWinningKey(r)
  \/ ReturnKey(r)
  \/ ReleasePolicySigningKey(r)
  \/ SetSignedPolicyDocument(r)
  \/ ReleaseEncryptionKey(r)
  \/ ReleaseSigningKey(r)

Next ==
  \/ \E r \in Requests : Arrive(r) \/ Serve(r) \/ Throw(r)
  \/ \E i \in Instances : Crash(i)

Spec == Init /\ [][Next]_vars

-----------------------------------------------------------------------------
(* Properties.                                                             *)

(* The shape of the state, and what a request has by the time it needs it: *)
(* a generated pair from its upload to its import, and the key it returns  *)
(* from when it reads the secrets of that key.                             *)
TypeOK ==
  /\ DOMAIN vault \subseteq KeyNames
  /\ vault \in [DOMAIN vault -> Keys]
  /\ reports \subseteq Keys
  /\ certs \subseteq Keys
  /\ policy \in Policies \cup {None}
  /\ used \subseteq Keys
  /\ req \in [Requests -> RequestStates]
  /\ \A r \in Requests :
       /\ req[r].pc \in {"report", "cert", "import", "write"} => req[r].pair # None
       /\ req[r].pc \in {"read", "release", "write"} => req[r].key # None
  /\ cache \in [Instances -> [Members -> Keys \cup {None}]]
  /\ given \subseteq KeyNames \X Keys
  /\ crashes \in 0..MaxCrashes

(* A key that is in the vault can be read for good: its report, and the    *)
(* certificate of a signing key, were uploaded before it was imported,     *)
(* wherever a request failed and whichever import won (the order in        *)
(* GenerateSigningKey and GenerateEncryptionKey).  Otherwise GetMember     *)
(* throws for that member for ever, as the name cannot be imported again.  *)
ImportedIsReadable ==
  \A n \in DOMAIN vault : Readable(n, vault[n])

(* Whatever key was ever handed out under a name, to a caller that         *)
(* generated it, lost a race for it, retried, or had a message signed with *)
(* it out of the cache, is the key the vault has: a member registered with *)
(* CCF under one certificate never acks or recovers under another.         *)
OneKeyPerName ==
  \A g \in given : g[1] \in DOMAIN vault /\ g[2] = vault[g[1]]

(* A member that GetMembers lists is one that GetMember returns: members   *)
(* are listed by their encryption key only, so the signing key must be     *)
(* complete before that is imported, also when a request stops half way.   *)
ListedIsWhole ==
  \A m \in GetMembers : GetMember(m)

(* A join policy that was set can be read back: it is signed with the key, *)
(* and filed under the certificate, that the vault has for the policy      *)
(* signer, even where several first calls raced to create that signer.     *)
(* Otherwise ValidateSignedPolicy throws in every request, the ones that   *)
(* would set a new policy included.                                        *)
PolicyVerifies ==
  policy # None => ValidateSignedPolicy(policy)

(* The keys of the names, as callers can see them. *)
Value == [n \in (Members \X Kinds) \cup {ToKeyName(PolicySigner, "signing")} |-> GetKey(n)]

Register == INSTANCE KeyRegister WITH value <- Value, told <- given

(* The service implements a register: a name gets a key once and keeps it, *)
(* no two names share one, a member's signing key comes first, whatever a  *)
(* caller is told is the key of the name, and a policy is signed with the  *)
(* signer's key and admits somebody.  Two GenerateMember calls that race,  *)
(* one that is retried after a failure at any call to the vault, and the   *)
(* caches of copies that crash are all steps of it or nothing.             *)
ImplementsKeyRegister == Register!RegisterSpec

=============================================================================
