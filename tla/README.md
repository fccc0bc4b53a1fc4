# Verification of Azure Clean Room

TLA+ models of the clean room services in `src/`, the TLC runs that check them on
small instances, and TLAPS proofs of the properties that matter most. Paths below
are relative to `src/`. Seven parts of the system are modelled:

| Component | Modules | Source |
|---|---|---|
| Governance by proposal (CGS) | `CgsGovernance`, `CgsGovernance_proofs`, `MCCgsGovernance` | `src/governance/ccf-app/js/constitution`, `src/ccf/ccf-provider-common/constitution`, `src/governance/client` |
| Contract drafts and the client that proposes them | `VersionedDrafts`, `DraftRegister`, `VersionedDrafts_proofs`, `MCVersionedDrafts` | `src/governance/ccf-app/js/src/endpoints/contracts.ts`, `src/governance/client` |
| Users, user documents and consent | `UserDocuments`, `BallotBox`, `UserDocuments_proofs`, `MCUserDocuments` | `src/governance/ccf-app/js/src/endpoints/user*.ts`, `.../constitution/actions.js` |
| Nodes of a CCF network | `CcfNetwork`, `NodeLifecycle`, `CcfNetwork_proofs`, `MCCcfNetwork` | `src/ccf/ccf-provider/CcfNetworkProvider.cs` |
| Recovery service and member keys | `RecoveryService`, `KeyRegister`, `RecoveryService_proofs`, `MCRecoveryService` | `src/ccf/recovery/ccf-recovery-service`, `src/ccf/ccf-common/Stores` |
| Encrypting file system layer | `Encryptor`, `Encryptor_proofs`, `MCEncryptor` | `src/blobfuse-launcher/encryptor` |
| Job records of the analytics frontend | `JobRecord`, `RunLedger`, `JobRecord_proofs`, `MCJobRecord` | `src/workloads/analytics/cleanroom-spark-frontend` |

`PROJECT.json` maps every definition to the lines it models and lists the runs, the
mutants that show each property can fail, the findings, the hazards and the theorems.

## 1. The system

A clean room lets parties that do not trust each other run an agreed computation on
their joint data. What they agree on is recorded by the Clean Room Governance Service
(CGS), an application on a CCF network; everything else asks CGS before it acts.

| Part | State | Operations | What is hard | What it should guarantee |
|---|---|---|---|---|
| Constitution of CGS | members, proposals, ballots, accepted contracts and documents, options | propose, vote, withdraw, acknowledge | votes outlive the membership they were cast under; validation and application are different requests | unanimity, finality, no two open versions of a contract |
| CGS endpoints: contracts, documents | drafts with versions | put, propose, enable, disable | roll-back reuses sequence numbers; read-then-propose in the client | what was voted on is what was read |
| CGS endpoints: user proposals | proposals, approvers, ballots | propose, vote, withdraw | competing proposals, order of ballots | all approvers accepted |
| CGS endpoints: secrets, tokens, events | secrets, policies, event log | put, get, list | consent changes between requests; paging | release only under consent and policy; no event skipped |
| CGS keys | signing, CA and OIDC keys | enable, generate, rotate | rotation overwrites the only key | published keys match signatures |
| CGS users | invitations, identities | invite, accept, finalize, remove | removed and repeated invitations | one identity per accepted invitation |
| CCF network provider | nodes, members, recovery data | create, scale, replace, recover | primary changes, crashes between calls | quorum is kept, retired nodes are cleaned up |
| Recovery service, recovery agent, consortium manager | member keys, reports, certificates and the join policy in a key vault | generate, list, sign, unwrap, set the policy | several copies without a lock, failures and crashes between vault calls | one readable key per member, a policy that verifies |
| Code launcher | containers | start, status | consent checked before awaits, errors swallowed | started only with consent, at most once |
| blobfuse launcher and encryptor | mounts, marker files, cipher files | mount; create, stage, commit, read | retries, stale markers; concurrent uploads, crashes | files read back as written |
| Analytics frontend | jobs, job records, pods | submit, status, schedule | replicas, optimistic lock, lost answers | every run is counted once |
| Analytics agent, workload frontend, inferencing | requests in flight | submit, forward | consent per request | runs only with consent |
| api-server-proxy, cluster providers, proxies, identity, telemetry, tools, SDK | little or none of their own | | | |

Interactions. The CGS client turns a member's commands into signed requests to CCF,
which runs the constitution. The governance sidecar of a clean room asks CGS for
consent, secrets and tokens. The code launcher waits for the marker files of the
blobfuse launchers, asks for consent and starts the application, whose files go through
the block cache and the encryptor. The analytics frontend creates Spark applications,
reports their state and records their runs in the Kubernetes API. The network provider
creates and removes the nodes CCF runs on; the recovery service holds the keys of the
members that recover the network, and admits the agents its join policy names.

The modules meet where one takes as given what another shows. `VersionedDrafts` reduces
voting to the outcome `CgsGovernance` establishes (one open proposal per contract, an
accepted contract is final, acceptance is unanimous); `UserDocuments` and `CcfNetwork` take
the acceptance of a members' proposal as a step that may happen at any later time.

## 2. CgsGovernance

**State.** `memberStatus` and `memberRoles` are the table `members.info` (status, and
the operator roles of `member_data`); `proposals` and `proposalsInfo` are CCF's tables of
the same names; `kv` holds the tables that accepted proposals write, one function from
keys to values per table. An action of a proposal is a record of its name, the key it is
about and its data.

**Actions.** CCF runs a request as one transaction, so a request is one step:
`CreateProposal`, `SubmitBallot`, `WithdrawProposal` and `AckStateDigest`. The first two
record the proposal or ballot and call `Settle`, which evaluates `Resolve` (`resolve()`,
with its early returns in the order of the code) and, on acceptance, `apply`. An exception
discards the transaction, so the step is not enabled; where exceptions come from is
modelled (`OperatorResolveThrows`, `OperatorPassThrows`, `ApplyThrows`, the vote of a
member that is no longer registered, a document mixed with other actions).

**External.** CCF itself: transactions, ballots of active members only, and the removal
of decided proposals other than the latest. Votes are constant ballots. The recovery
threshold and the set of members with recovery keys do not change.

**Not modelled here.** The clean room policy is known to `resolve()` but its table is not
written, so no instance proposes it. The actions on users are in `UserDocuments`, those on
nodes in `CcfNetwork`; keys and the service life cycle are not modelled.

| Run | Instance | Checks |
|---|---|---|
| `contracts` | 3 members, one joining and one leaving; 3 proposals from 7 action lists: competing, duplicate and mixed contracts, membership changes | `TypeOK`, `OpenAtMostOnce`, `AcceptedIsFinal`, `ContractNeedsEveryMember` |
| `operators` | 3 members, one with three operator roles and one joining; 2 proposals at a time from 10 lists, role changes included | `OptionsNeedContract`, `ConstitutionChangeDropsProposals`, `NoStrandedProposal` |
| `renew_accepts_early` (violation) | 3 members, one registered again | `JsAppNeedsEveryMember` |

Three proposals are what a conflict needs: one that is accepted or open, one that
competes with it and one that changes the members, the options or the constitution in
between. Proposal ids are interchangeable, members are not. Deadlock is not checked: the
proposals of an instance are used up.

The violation: `resolve()` compares the *number* of yes votes of registered members with
the *number* of active members, and `set_member` puts a member who is registered already
back to `Accepted`, so their vote is counted and they are not. The proposal is accepted
without the vote of an active member. Contracts are safe because they also require that no
member is `Accepted`. `NoStrandedProposal` is checked without removal and re-registration:
a voter who is registered again leaves a proposal open with every vote in, and the yes vote
of a removed member makes `getMemberInfo()` throw in every later ballot, so that the
proposal can only be withdrawn or rejected. Both are proved for histories in which members
stay (section 9).

## 3. VersionedDrafts and DraftRegister

**State.** `ledger` is the sequence of states of the key-value store, one per transaction,
each with the view it was written in; `commit` and `view` are those of CCF. `seen` is the
last answer each member got about each contract, `call` what the CGS client of each member
is doing, `confirmed` the transaction last reported as committed (history).

**Actions.** `Get` and `Put` are the client's requests to `getContract` and `putContract`.
`CreateProposal` reads the draft and compares its version with the one the member gave;
`SubmitProposal` is the second request, which may meet another draft, and carries what was
read. `Vote` reads the contract and compares the proposal id, `SubmitBallot` sends the
ballot. Every write ends in the wait for the commit, `Confirm`, or in `Fail` when the
transaction became invalid. `Commit` and `Rollback` are CCF: a failed primary loses any
transactions that are not committed, and a new view begins.

**Abstraction.** Each write of a draft has content of its own, a number. Members are active
and have no role. Errors that end a request before it writes are guards.

**Refinement.** `DraftRegister` says what authors may rely on: the value of an item is
replaced only by a client that has read that very value. It has no versions.
`ImplementsRegister` maps the ledger to the sequence of contents; a put that CGS accepts
because the versions agree is a `Write` whose contents agree. It fails if versions are
sequence numbers without the view.

| Run | Instance | Checks |
|---|---|---|
| `drafts` | 2 members, 1 contract, 2 views, 5 transactions, 3 drafts | `TypeOK`, `AcceptedWasSeen`, `ConfirmedStays`, `ImplementsRegister` |

Two views let every sequence number be used twice. Five transactions are a first draft,
a second, a proposal, two ballots, or any of these again after a roll-back. The third draft
is the one written over a draft whose sequence number was used before. Members are
interchangeable. Deadlock is not checked, as the ledger of an instance fills up.

## 4. UserDocuments

**State.** The tables of the application: `invitations` (the users whose token meets the
claims), `info` (who accepted), `finalized`, `identities`, the `proposals` of users with
their ballots, `accepted` documents, and `status`, the approvers who disabled an option.
`gov` holds the members' open proposals about users.

**Actions.** One per endpoint: `AcceptInvitation`, `PutUserProposal`,
`WithdrawUserProposal`, `SubmitUserProposalBallot` (whose last ballot applies
`set_user_document`), `SetUserDocumentRuntimeOptionStatus`. Members' actions are proposed
(`Propose`, with the checks of the client and of `validate`) and later accepted or dropped
(`Resolve`, which applies `set_user_identity`, `remove_user_identity`, the addition and
removal of claims, or the removal of the invitation).

**Abstraction.** Identities are proposed as the client's `AddUserIdentity` does: for an
invitation, or directly. A member who writes the action by hand may give other arguments;
that is not modelled. Claims are the set of users they match, tenants are left out.

**Abstract specification.** `BallotBox` has no proposals: a box per document holds at most one
ballot, the last consent of its approvers decides the document for good, and then each
approver may object and lift its own objection. `ImplementsBox` maps the open proposal of a
document to its ballot and the accepted document to the decision; withdrawn and rejected
proposals are gone from the box, and all about users is invisible there.

| Run | Instance | Checks |
|---|---|---|
| `user_documents` | 1 member, 2 users, 1 invitation, 1 document, 2 proposals, 1 open members' proposal, 3 lists of approvers | `TypeOK`, `SettledOnce`, `Unanimous`, `OneUserPerInvitation`, `AcceptedForGood`, `ObjectionStands`, `ImplementsBox` |

Two users and one invitation that is removed and issued again are what a second user needs
to get in; two proposals of one document are what a conflict needs. Deadlock is checked.

What the code does not promise, and the model shows to happen: an open user proposal whose
approver lost the identity stays open until its proposer withdraws it, and an objection of
such an approver cannot be taken back.

## 5. CcfNetwork

`UpdateNetwork` brings a network to a number of nodes. The infra provider knows machines by
name, CCF knows nodes by id, and a name is used again, so a node is a name and an
incarnation.

**State.** `machine` and `sick` are the infra, `status` and `primary` CCF, `lb` the load
balancer. The client has a phase `pc`, the step of each parallel `task`, and what it read
when the call started (`target`, `prim`, `changed`).

**Actions.** A call is clean-up of retired nodes, then `ScaleUp` or `ScaleDown`, then
`Replace` and `RemoveReplaced`, then `UpdateLoadBalancer`. The tasks of a phase interleave:
to add a node `CreateJoinNode`, `WaitForJoinNode` (which looks for the name and proposes to
trust the node), `WaitForPartOfNetwork`; to remove one `ProposeRemoveNode`,
`WaitForNodeStatus`, `WaitForNodeToAppearAsRemovable`, `DeleteNode`, `ForgetNode`. Each wait
may time out, which ends the call (`UpdateThrows`) or is ignored in the clean-up. `Crash`
ends the client anywhere; what it asked for stays done.

**External.** CCF lists a machine that came up as Pending (`Join`), commits retirements and
elects primaries; machines fall sick. One client calls at a time.

**Abstract specification.** `NodeLifecycle` has no client: a node is created under a free name
of which no entry is left, joins, is trusted (or refused), retires, has its retirement
committed, loses its machine and is forgotten, in that order. `ImplementsLifecycle` keeps
`machine` and `status` and hides the client, its tasks and its crashes.

| Run | Instance | Checks |
|---|---|---|
| `ccf_network` | 2 nodes scaled to 1 or 2, 3 names, 2 incarnations, 2 crashes, every DELETE succeeds | `TypeOK`, `MachineUntilRemovable`, `PickedPrimaryStays`, `RetiredIsCleaned`, `ImplementsLifecycle` |
| `ccf_cleanup_by_name` (violation) | 1 crash, 1 DELETE or clean-up wait that fails | `CleanupDeletesStale` |

The third name is room for a replacement, the second incarnation a name that is used again.
Deadlock is checked.

Fairness, for `RetiredIsCleaned`: each step of the client ends, since each wait has a
timeout (weak fairness of `ClientStep`); the operator calls again (`Retry`); CCF commits
retirements (`CommitRetirement`). Crashes are bounded.

The violation: the status of the DELETE of a retired node is not read. If it has no effect,
the entry stays, the machine is gone and its name is given to a new node. The next clean-up
deletes the machine of the new, trusted node, because it deletes by name. For the same
reason `MachineUntilRemovable`, `RetiredIsCleaned` and `ImplementsLifecycle` are checked with
`MaxLost = 0`.

## 6. RecoveryService

The service keeps nothing but a cache; keys, reports, certificates and the join policy are
in a key vault that its copies use without a lock.

**State.** `vault` (key name to key pair), `reports`, `certs`, `policy`; `req`, the request
each slot serves, `cache`, the signing keys each copy has released; `used` and `given` are
history: the pairs generated and those handed to callers.

**Actions.** A request arrives (`GenerateMember`, `SetNetworkJoinPolicy`,
`GenerateStateDigestMessage`, `GenerateRecoveryShareMessage`), admitted by the policy in
force, and takes a step per vault call: look up and generate, `SetAttestationReportSecret`,
`SetSigningCertSecret`, `ImportKey`, `GetWinningKey` when the name was taken, `ReturnKey`
and the releases. `Throw` is a call that fails, `Crash` a copy that stops. An import whose
answer is lost is repeated by the vault client and then refused like any other.

**Abstraction.** A key pair is a model value; signatures name the pair that made them. The
look-up before the generation is for a name with its suffix twice and finds nothing, as in
the code (`NamesAssumption`). Pairs are generated (`NewPairs`), as in a confidential
container; outside one the code reads a fixed pair from a file, which is not modelled.

**Abstract specification.** `KeyRegister` is a register per key name that is set once, to a key
no other name has, a member's signing key before its encryption key; callers are told its
value, and a policy is signed with the signer's key and admits somebody.
`ImplementsKeyRegister` maps the vault to the registers and hides requests, caches, reports
and certificates.

| Run | Instance | Checks |
|---|---|---|
| `recovery_service` | 2 copies, 3 requests, 1 member, 3 key pairs, 2 agents, 1 crash | `TypeOK`, `ImportedIsReadable`, `OneKeyPerName`, `ListedIsWhole`, `PolicyVerifies`, `ImplementsKeyRegister` |

Two requests on one copy share the cache, the third races from another copy. Three pairs
are a member's two keys and one that loses a race, or the policy signer's.

## 7. Encryptor

A plain text file is stored as encrypted blocks and an 8 byte trailer that holds the
padding of the last block.

**State.** `file` is the cipher file behind one name, `handleMap` and `metaMap` are the
entries of the two maps, `metas` the `LastChunkMeta` objects, and `worker` the call each
upload thread is in. `staged` and `use` are history: what was written where, and whether
the file was written once, again, or interrupted.

**Actions.** `StageData` is four steps or more: look the name up, perhaps open the file
(`OpenFile`) and read its trailer (`StoreLastChunkMeta`), write the block (`WriteChunk`),
and update the meta object under its lock (`UpdateLastChunkMeta`). `CommitData` looks up
and then writes the trailer (`WritePaddingLength`). `StageFails` and `CommitFails` are the
error paths; a failed commit leaves a closed handle in the map. `CreateFile`, `DeleteFile`
and `Restart` complete the model. `GetAttrSize` and `ReadInBuffer` are the observations.

**External.** The block cache uploads a block with one thread at a time, and commits,
creates and deletes a file when no upload of it is in flight. A failed write leaves the
file unchanged. The size and the trailer of a reopened file are read in one step. Encryption is abstract: a block
either decrypts to what was staged or is `Torn`.

| Run | Checks |
|---|---|
| `encryptor_write_once` | `TypeOK`, `WriteOnceSize`, `WriteOnceReads` |
| `encryptor_reopen` (violation) | `FarthestIsWritten`: a reopened file records its number of blocks as an index |

The two `WriteOnce` properties are about files that are created, written once and
committed. They do not hold for others: staging the last block again with another length
keeps the old padding (`encryptor.go:268`), and two threads that both open a committed file
work with two meta objects (`utils.go:56`), so that the trailer may be written over a block.

Bounds: 2 threads, 2 blocks, block lengths 1 and the full block, 2 creations of the file.
Two threads and two blocks suffice for every order of writing and recording; a second
creation reaches stale map entries. A file that is reopened has room for one more block
(`MaxBlocks`), since the off-by-one index would leave the bounded file otherwise. The
nonce, tag and trailer sizes are those of the code, the block size is 1 MB (the code takes
a configured number of MB, 16 by default). Deadlock is checked.

## 8. JobRecord

A status request that finds a finished run adds it to the `JobRecord` of its query and
marks the Spark application.

**State.** `app` holds the state of each run and its `recorded` annotation, `record` the
JobRecord with its resource version, `request` the request each replica serves.
`added` is history; `failures` is the budget used. Metrics are left out.

**Actions.** One per API call: `get_status`, `get_job_record`, `create_job_record`,
`patch_job_record_status` (its answer may be lost), `Conflict` (the retry),
`patch_spark_app_annotation`, and `Fail` for a call that fails or a replica that stops.
Durations and row counts are left out of the summary. The handler blocks, so a replica
serves one request at a time.

**Abstract specification.** `RunLedger` adds a run that ended and counts it in one step, unless
it is among the last `Limit` runs, and marks runs that were counted. `ImplementsLedger` maps
the record to the ledger and hides replicas, requests, versions and failures.

| Run | Instance | Checks |
|---|---|---|
| `job_record` | 2 replicas, 3 runs, history of 2, 2 attempts, 5 additions, 1 failure | `TypeOK`, `NoLostUpdate`, `HistoryIsDistinct`, `RecordedIsCounted`, `RepeatsAreApart`, `EventuallyRecorded`, `ImplementsLedger` |
| `job_record_evicted` (violation) | 1 replica, 3 runs, 1 failure | `DuplicatesAreSkipped` |

The history is shorter than the number of runs, so runs are evicted; fewer attempts
than the code's 5, and a shorter history than its 20, keep eviction and the exhausted retry
in reach. There are more additions than runs, so a run can be added twice.
`RepeatsAreApart` says how far apart at least, which is what is left of `DuplicatesAreSkipped`.

Fairness: a client that waits for a run keeps asking and is served again and again
(strong fairness of `get_status` per run, since a replica is not always free), and a
started request goes on (weak fairness of `Step` per replica). Failures are bounded: under
an API that fails forever nothing can be promised. Deadlock is not checked: once every run
is recorded nothing is left to do.

## 9. Proofs

All proofs hold for every value of the constants that satisfies the named assumptions:
any members, proposals and action lists; any number of threads, blocks and sizes; any
number of views, transactions, users, documents, nodes, copies of a service, requests and
runs.

**CgsGovernance_proofs** (`ConstantsAssumption`: finitely many members, well-typed initial
values; `CatalogAssumption`: proposals are sequences of well-formed actions).

- `TypeCorrect`: `TypeOK` is inductive; the work is in what `apply` leaves in the tables.
- `AcceptedStaysFinal`: `ResolveUnique` shows that a proposal is not accepted when its
  contract or document was accepted before; `ChangedByAction` that only such an action
  changes the tables.
- `ContractsAreUnanimous`: `QuorumIsUnanimous` turns the comparison of two counts into
  unanimity. With no member `Accepted`, the counted votes, all of registered members
  without a role, are a subset of the active members without a role, and a subset of a
  finite set with the same cardinality is that set.
- `OneOpenProposalEach`: `OpenAtMostOnce` with `TypeOK` is inductive.
- `OptionsOfAcceptedContracts`: not inductive alone, since validation and application are
  different requests. `OptionsInv` adds that the contracts of every open proposal's options
  are accepted, which finality keeps true.
- `ConstitutionChangeIsClean`: from `TypeOK` and the definition of acceptance.
- `NobodyStranded`, under `[][MembersStay]_vars` (no member is removed or registered again):
  whoever voted is active and no vote rejects what members can veto (`VotesStand`), so if all
  registered members had voted the counts would be equal and the proposal decided
  (`AllVotedIsQuorum`). A withdrawal or decision of one proposal leaves the others as they are.
- `JsAppsAreUnanimous`, under `MembersStay` and while no option lets the operator pass a new
  application alone: with every voter active, equal counts are equal sets. Without
  `MembersStay` the statement is false, which is the run `renew_accepts_early`.

**Encryptor_proofs** (`SizesAssumption`, `NamesAssumption`). The invariant
`IInv == TypeOK /\ CallsInv /\ OnceInv`. `CallsInv`: a commit runs alone, uploads are about
different blocks, and calls use the inode of the map. `OnceInv`, for a file that was written
once: the written blocks are in the file (`BlocksInv`); while it is open, every written block
is at most the farthest one or is about to be recorded, and the padding is that of the
farthest (`OpenInv`); once closed, the trailer holds the padding of the last block
(`ClosedInv`). `TypeCorrect`, `WriteOnceSizeHolds` and `WriteOnceReadsHolds` follow, and
`FarthestWhileOnce`: what `encryptor_reopen` shows needs a file that is opened or written again.

**VersionedDrafts_proofs** (`BoundsAssumption`, `NoneAssumption`). A version or a proposal id
names a transaction, and a transaction that is yet to come has a name nobody knows, because a
new view begins whenever sequence numbers are used again (`Past`). So all that is known about
a version or a proposal agrees, with members, in requests between their two steps and in the
ledger (`VersionsAgree`, `ProposalsAgree`); `Compared` keeps what a client has checked,
`Meant` what a proposal and its ballots stand for. `AcceptedIsSeen`, `ConfirmedIsKept` and
`TypeCorrect` follow, and `DraftsAreRegisters`: each step is a step of `DraftRegister` under
the mapping, or leaves its variables unchanged.

**UserDocuments_proofs** (`ConstantsAssumption`). An accepted proposal is the one its document
was accepted by (`AcceptedIsStored`), which makes the two checks at submission enough for
`SettledOnceHolds`, `UnanimousHolds` and `AcceptedForGoodHolds`. An identity proposed for an
invitation is that of the user who accepted it for as long as the members take
(`IdentityIsInvited`): `OneUserPerInvitationHolds`. `ObjectionStandsHolds` follows from the
definitions of the endpoints. `DocumentsAreBallotBoxes` is the refinement of `BallotBox`: by
`SettledOnce` an open proposal is the only one of its document (`OneOpen`), so that a change of
one proposal changes the box of its document and no other (`BoxMoves`).

**CcfNetwork_proofs** (`BoundsAssumption`). `PrimaryInv` holds for every value of the
constants: a node that is proposed for removal or held for replacement is not the primary of
the call, only removable nodes are forgotten, and each phase has its own steps (`StepsOf`).
`TypeCorrect` and `PrimarySurvives` follow. `MachineKept` assumes `MaxLost = 0`. Its
`MachineInv` adds that a call that adds machines has nothing retired left to clean up, that
a name being created has no machine (it is beyond the highest ordinal, `HasMax`) and is
created once, and that the machine under the name of a removable node is its own or gone.
Without the assumption the theorem is false: that is the run `ccf_cleanup_by_name`. From the
same invariant, and under the same assumption, `CleanupIsSafe` (the clean-up deletes the machine
of the retired node and no other) and `LifecycleKept`, the refinement of `NodeLifecycle`: each
step of the client, of CCF and of the infra is one step in the life of one node or none.

**RecoveryService_proofs** (`ConstantsAssumption`, `NamesAssumption`). `RequestOK` says what a
request knows at each step; it survives a vault that only grows (`RequestKept`), so other
requests are dealt with once. With it, `VaultOK`, `CacheOK`, `GivenOK` and `PolicyOK` give
`ImportedStaysReadable`, `GenerateIsIdempotent`, `ListedMembersAreWhole` and
`StoredPolicyVerifies`. `KeysAreARegister` is the refinement of `KeyRegister`. That no two names share a
key needs `PairsInv`: until it is imported, a generated pair is with one request and not in the
vault.

**JobRecord_proofs** (`LimitsAssumption`, `NoneAssumption`). The version of the record is the
number of runs added and its totals count them (`RecordOK`); a request that holds the current version holds
the current record (`RequestOK`). Added runs have ended, so totals stay right.
`NoUpdateIsLost`, `HistoryStaysDistinct` and `RecordedRunsAreCounted` follow. A patch that is
applied was computed from the current record (`PatchCurrent`); so a run that is added again is
no longer among the last `HISTORY_LIMIT` (`RepeatsStayApart`), and a patch is one step of
`RunLedger` (`RecordIsALedger`). `FewRunsAreCountedOnce` draws the line for the finding: with no
more runs than the history keeps, `DuplicatesAreSkipped` holds, because `HISTORY_LIMIT` + 1
consecutive additions would be of that many different runs.

The four properties that a violation run refutes are each proved under the hypothesis that
excludes its cause: `JsAppsAreUnanimous` (no removal or renewal), `FarthestWhileOnce` (no reopening),
`FewRunsAreCountedOnce` (no eviction), `CleanupIsSafe` (no lost DELETE).

**Only model-checked.** The liveness properties `EventuallyRecorded` and `RetiredIsCleaned`:
liveness under fairness and `ENABLED` are beyond the prover, as are induction over data, so what
a recursive definition computes for every input, and anything about `RECURSIVE` operators (no
module here declares one). Every invariant, action property and refinement that a passing run checks is
proved, three of them under a hypothesis that the run's bounds also impose: `MachineKept` and
`LifecycleKept` without lost calls, `NobodyStranded` while members stay.

## 10. Next

In this order:

1. Consent to contracts (`contractruntimeoptions.ts`) composed with `CgsGovernance`, with a
   removed member who had disabled a contract; the recovery threshold.
2. The keys of CGS (signing, CA, OIDC), the clean room policy with secrets and tokens.
3. The paging of events as an algorithm, compared with the list of all events.
4. The code launcher and the blobfuse launcher, composed over marker files and consent.
5. Admission of pods by count under concurrency.
6. Disaster recovery of a network: it needs a model of CCF's recovery of ledgers.

## 11. Not modelled

Cryptography (COSE, attestation, encryption), infrastructure APIs (Azure, Docker, Helm,
Kubernetes beyond the job record), generated clients and specifications, command line
tools, telemetry and user interfaces: I/O and translation without a protocol of their
own. The models cover the parts where requests, threads, replicas or crashes interact;
most of the remaining code provisions infrastructure or translates one interface to another,
which leaves a model checker nothing to find. Disaster recovery (`RecoverNetwork`) depends on
how CCF recovers ledgers, which is not in this repository. `PROJECT.json` gives the reason for
each component and, for every hazard without a property, what is missing.

Known hazards that neither a property nor the list in `PROJECT.json` covers: with no active
member left without a role both counts in `resolve()` are zero; registering a recovery member
again does not check the threshold `remove_member` checks; rotation overwrites the only
signing key; the next-page link of events drops the page size; a file whose process stopped
before the commit reads as empty; metrics of a run that cannot be marked are reported again; a
container that fails to start is reported as started; a restarted blobfuse launcher may find
both marker files; `remove_node` on a Pending node leaves its machine; two calls of
`UpdateNetwork`, or of the join policy, at a time; the look-up of an existing member key under
a name with its suffix twice, which only costs an unused report.
