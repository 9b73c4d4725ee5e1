# PayReality: specification, model checking and proofs

PayReality puts a deterministic gate in front of what an AI agent does: an agent, or an
Adapter on its behalf, submits a signed *intent*; the server decides ALLOW, DENY or
HUMAN_REVIEW with Open Policy Agent (OPA); a person may resolve a review; an authorised
decision yields one single-use *capability*; what was done is reported in *execution receipts*
and reconciled; every step leaves a signed, hash-chained *Evidence* row. The server is a FastAPI
application (`src/server/app`) over PostgreSQL, its clients use the Python SDK
(`src/sdk-python`).

This directory specifies the parts whose correctness depends on how requests interleave and
fail, and the algorithms a decision rests on. TLC checks them on small instances; TLAPS proves their
safety properties for every instance, with one exception (see *Only model-checked*).

All modules rest on the same facts about the program:

* one request is one SQLAlchemy session; most are one transaction, some commit several times
  (`db/session.py`); a request that dies is rolled back to its last commit;
* PostgreSQL runs at READ COMMITTED: every SELECT sees what is committed at that moment, and
  nothing stops a row from changing after it was read;
* `autoflush=False`: rows reach the database at `flush` or `commit`; an UPDATE names the primary
  key and writes the columns that changed; no table has a version column;
* what does order requests is explicit: the `FOR UPDATE` lock on the organisation's row
  (the *chain lock*), the unique indexes, and one conditional UPDATE.

So a request is a sequence of steps, one for each read whose result is used later and one for
each write that others can see; everything between two such points is one action.

## Inventory

| Component | State | Operations | Talks to | What makes it hard | Correct means |
|---|---|---|---|---|---|
| Evidence chain (`intent_service`, `evidence_service`) | `evidence` rows, chain lock | append, verify | every component that records something | concurrent appends; verification during appends; timestamps that do not follow commits | one unforked chain per organisation; verification reports tampering and nothing else |
| Human review (`resolution_service`) | `decision_resolutions` | resolve | Evidence, capabilities | two reviewers; Evidence flushed before the UNIQUE constraint decides | one resolution, one Evidence row, never replaced |
| Capabilities (`capability_service`, `domain/capability`) | `capability_tokens` | issue (two paths), verify and consume | decisions, reviews, all parties | double issue, double consumption, revocation meanwhile, expiry | at most one permission, used at most once, only for an authorised decision |
| Agents (`agent_service`) | `agents.status`, `certificates` | create, activate, suspend, retire, revoke, rotate | intake, capabilities | check-then-write without a lock | one signing key; certificates follow status; ended is final |
| Runtime policies (`runtime_policy_service`, `runtime_policy_lifecycle_service`, safety checks) | `runtime_policy_records`, `policies`, schedules, OPA's memory | create, edit, submit, approve, reject, compile, deploy, activate, retire, archive, roll back, schedule, sweep, attest, deprecate, reconcile | OPA, decisions | two stores without a common transaction; several commits per request; overlapping sweeps | only reviewed versions enforced; OPA and database agree; the history is true; requests end |
| Rules (`domain/runtime_policy`, `compiler_v2`, `policy_simulation`) | none | validate, compile, evaluate, simulate, explain, diff | decisions, reviewers | intervals, absent fields, null; two implementations of one language | no contradiction at run time; simulator and engine agree |
| Decision evaluation (`_evaluate_and_record`, `domain/decision`) | `decisions` | evaluate | OPA, policies, facts | reads several stores that others change | the decision is what was in force while it was made |
| Facts (`fact_service`, `runtime_truth_service`) | fact sources, facts | ingest, revoke, resolve | evaluation | expiry, revocation, contradicting sources | only trusted, agreed values decide |
| Intent intake (`intent_service`, `integration_runtime_service`, `operation_identity_service`) | `intents` | submit, submit attested | parties, evaluation, Evidence | retries and duplicates in flight; three unique indexes | one decision per nonce and per operation; answers and refusals are true |
| Integration trust (`integration_identity_`, `integration_contract_`, `enforcement_binding_service`) | contracts, identities with certificates, bindings with allow-lists | draft, validate, approve, activate, suspend, rotate, retire, revoke | intake, capabilities | activation racing retirement; numbers and slots claimed at once | one grounded live binding per scope; ended is final |
| Organisations (`organization_lifecycle_`, `organization_`, `auth_service`) | status, settings, users, invitations, sessions, API keys | create, deactivate, reactivate, archive, invite, accept, log in | everything | accept twice; saves that overlap; requests across a deactivation | one user per email, an invitation admits one person, the kill switch stops work |
| Sandboxes (`routers/sandbox`, `sandbox_limits`) | sandbox organisations | provision, count, sweep | organisations, policies, agents | seven commits per provisioning; count, then insert | one per email, capped, usable once its key exists |
| Authoring (`ai_authority_builder_`, `ai_policy_builder_service`, `domain/authority_graph`) | corpora, discoveries, relationships, conflicts, candidates, approvals | extract, resolve, activate, approve, promote | principals, policies | snapshot read in sections; version race; promotion commits twice | approvals form a chain of consistent snapshots; policies cite reviewed people |
| Receipts and reconciliation (`execution_receipt_`, `execution_reconciliation_service`) | receipts, results | submit, reconcile | capabilities, Evidence | checks before the lock; overlapping runs | one receipt per status, told alike by Evidence; outcomes only move up |
| Python SDK (`client.py`, `agent.py`, `enforcement.py`, `configuration.py`) | keys, credentials file | request with resends, wait, enforce, register, rotate | the whole API | lost answers, late copies, crash between server and file | the operation runs at most once; calls return; the file names what the server knows |
| Signing keys (`signing_key_service`, `main.py`) | `signing_keys` | register at start, sign, verify | Evidence | failed registration, instances booting together, reuse of ids | registered keys keep Evidence verifiable |
| Frontend, Terraform, migrations | - | - | - | - | not modelled |

`PROJECT.json` lists the components with their status and the hazards with the line at which
each bites.

## Modules

### The decision path

**EvidenceChain.** `tx` is the transaction of each session, `rowLock` the `FOR UPDATE` locks,
`evidence` the committed rows, `ver` a verification. `Begin`, `LockChainScope`,
`PreviousChainHash`, `NextChainSequence`, `CommitAppend`, `Rollback` are the statements of
`append_evidence`; `SelectRecords`, `CheckLinks`, `RespondVerified` those of `verify_chain`, which reads
the table twice. A row's payload hash is its id (payloads hold unique ids). A principal without
an organisation appends without a lock, as in the code; nothing is claimed of that chain.

**CapabilityLifecycle** covers `resolve_decision`, both issuance paths and
`verify_and_consume_capability`, with the live rechecks of organisation, agent, identity and
binding as one step each (`CheckParty`), while those parties are paused, resumed and ended.
**SingleUsePermission** is its abstract specification: a decision's basis is settled once, an
authorised basis may give one permission, which may be used once. `ImplementsPermission` states
that the detailed module implements it under the mapping at its end.

**AgentLifecycle** has one agent, its certificates and concurrent administrators: read and test
the status (`CheckTransition`), read the certificate (`FindCertificate`), write both (`Commit`).
Activations, suspensions and rotations may overlap as they like: there the partial unique index is
what keeps a rotated certificate from becoming active again beside its successor. The history variable
`endRaced` says whether a retirement or a revocation and another request have ever been under way at
once; what the code does not guarantee then is stated under `~endRaced`, and two configurations under Findings show what happens.

**PolicyDeployment** has the policies of one organisation, the deployment rows, and OPA. A
deployment is `ReadBundle`, `ReadPrior`, `ReadNext`, `Flush` (claims the version; a loser is
retried), `Upload`, `CommitDeploy`, each of the last two able to fail (`DeployFails`) and to be
repaired by `ReconcileRead`/`ReconcilePush`, which may fail too. `Restart` empties OPA's memory
and reconciles. `ReadActivePolicy`, `QueryOpa`, `RecordDecision` are a decision's reads. A bundle
is the set of (policy, version) compiled into it.

**OperationIntake** has concurrent requests on both paths: the parties checked in the code's
order (`CheckParty`), the operation look-up (`LookUp`), the insert against the three unique
indexes (`Flush`, which waits for a colliding uncommitted row), the look-up after a failed insert
(`Relook`), evaluation, Evidence under the chain lock, commit. Signature, timestamp window and the
comparison with the contract only end a request before it has an effect, which `Abandon` covers.

### Around it

**PolicyRules** has no concurrency: it is the rule language four times over, as the code has it.
`Matches`/`Evaluated`/`Flags`/`evaluate` are the generated Rego as OPA evaluates it and the
engine's reading of the flags; `policies_can_jointly_match` and `Conflict` the compiler's overlap
analysis by intervals, in Python's comparison; `simulate` and `ExplainedMatch` the simulator's own
evaluation; `risk_impact` the diff summary. The reference definition for each is one of the others. A value is
a boolean, a number, a text or a list and stands for its place in OPA's order of all values; Python has
no order between most kinds, and takes False and True for 0 and 1. `compiles` says whether a bundle can
come of a compilation, `uploads` whether OPA takes it, `Raises` whether the compiler ends in an exception.

**PolicyGovernance** extends it with the rows of each policy key (all versions), schedules, fact
sources and facts, and requests that read (`Begin`), write and commit step by step. `Write` holds
the operations that commit once; `rollback_policy`/`TagRollback`, `compile_policy` and
`deploy_policy`/`StampActivation` the ones that commit more often, `process_due_schedules`,
`TakeUp`, `MarkSchedule` the sweep, whose actions are those same requests. A decision is
`Recognise`, `ResolveFacts`, `Query`, `Freshness`, `Record`. Deployment itself is one step here:
PolicyDeployment takes it apart. `GovSpec` lets anybody ask for anything at any time; MCGovernance checks its
behaviours by area.

**IntegrationTrust**, **Tenancy**, **AuthorityAuthoring** share one form: a request is `Idle`, or has
read its rows and passed its checks (`Load`, or the operation's own name, which returns what it
will write), and then commits: `Merge` writes the changed columns by primary key, the unique
indexes refuse the loser, which is retried where the code retries. Every operation of the service
is an operator named as in the code. Requests that commit several times are scripts (sandbox
provisioning, the sweep, promotion) and may be cut off between two commits.
`overlapped`/`disturbed` record which rows two requests worked on at once.

**ExecutionLoop** follows one external operation: SDK clients (`Begin`, `Handle`, `Return`,
`NoAnswer`, `HandleLate`, `NextAttempt`) that attest, wait for the review, ask for the capability,
consume it and run the operation (`RunDownstream`); answers may be lost and late copies arrive.
Server workers accept receipts and reconcile, reads and commit apart. Its capability endpoints and
attestation are atomic; CapabilityLifecycle and OperationIntake take those apart. Of the Evidence it
keeps how many rows of each kind there are, which is what receipts are compared with.

**KeyCustody** has agent processes that register, rotate and retire through the SDK over one
credentials file (read and rewritten as a whole), the server's agents and certificates, and server
instances that boot, register their signing key in two statements, or fail to, and sign.

`MC*` modules give these their instances, and cut the state space as described below.
Definitions whose comment begins with "Fault" are broken variants of the definition after them:
they are not part of any specification and document which mistake each property would expose.
`*Proofs` hold the theorems of the module they extend.

## What is checked

| Run | Instance | Shows |
|---|---|---|
| `evidence_chain` | 2 transactions, 1 organisation and the unscoped chain, 3 rows, clock 0..1 | `ChainLinear`; `FullVerificationIntact` (a full verification during appends is clean); `TamperEvident` (deleting any row but the last, or exchanging two, is reported); `AppendCompletes` |
| `lifecycle` | 1 Adapter-mediated decision of any outcome, 2 requests, tokens that expire at the next tick; 1 agent, 2 administrators, 3 certificates, any request cut short | `ReviewEvidenceExact`, `EndedPartyNeverUsed`, `ImplementsPermission`, `RequestsEnd`; until a retirement or revocation overlaps with another request, `CertificateFollowsStatus`, `EndedAloneIsFinal` |
| `policy_sole` | 1 administrator, 2 policies x 2 versions, 1 decision, 1 failure or restart, another organisation taking a version | `ReviewedOnly`, `OpaAgrees` |
| `policy_concurrent` | 2 administrators, 2 policies and another organisation taking a version, or 1 policy x 2 versions; 1 failure or restart | `OpaServesPolicyRow`, `OneActiveVersion`, `RequestsEnd` |
| `intake` | 2 agents, 2 identities, 1 nonce, 1 operation, 2 requests, organisation changing status | `OperationDecidedOnce`, `AnswerIsRecorded`, `RefusalJustified`, `EndedNeverAdmitted`, `RequestsEnd` |
| `integration_trust` | 1 contract, 2 operations, 1 identity with 2 certificates, 2 bindings, 2 requests | `ActivationSound`, `RecordsSound`, `EndedStaysEnded` |
| `tenancy` | 2 organisations, 3 users and addresses, 1 invitation, 1 session, 2 keys, 2 agents, 2 requests | `MembershipSound`, `SandboxesSound`, `TenantsRespected` |
| `authoring` | 3 discoveries, 3 relationships, 2 candidates, 2 approvals, 2 requests, all webs of 3 names, a name with a blank | `GraphSound`, `ApprovalsSound`, `CompilationSound` |
| `execution` | 2 SDK clients with 2 attempts each, 2 server workers, 3 agent processes, 2 server instances, 3 signing keys | `ExecutionSound`, `ReceiptsSound`, `OutcomeNeverRegresses`, `CallsReturn`, `CredentialsSound`, `SigningSound` |
| `policy_governance` | pairs of policies with up to 2 conditions, over values of every kind; 2 policies, up to 3 versions, 2 administrators, 2 schedules, 2 fact sources, 1 decision, 1 failure | `RulesAgree`, `GovernanceSound`, `DecisionCurrent`, `ArchivedStays` |
| `policy_explained` | a policy with `contains` on a field that may be a list | **fails** `ExplanationMechanical`: see Findings |
| `policy_shadow` | the decisions of the instance above | **fails** `DraftHarmless`: see Findings |

Most properties of the modules around the decision path are conjunctions of named parts, each with its own statement and
comment:

* `ActivationSound`: `OneLiveBindingPerScope`, `LiveBindingGrounded` (a live binding rests on
  an approved contract and names an agent, unless requests overlapped on its rows), `RacesAnswered` (the
  two operations that retry answer a lost race with a conflict; only six named others can surface a unique index as
  a server error, and two of them even when no requests overlap).
  `RecordsSound`: `ContentMatchesHash`, `EndedIdentityHasNoCertificate`, and the types.
* `MembershipSound`: `OneUserPerEmail`, `InvitationAdmitsOnce`, `SessionsEnd`. `SandboxesSound`:
  `SandboxCapped` (the cap on agents is exceeded by at most the requests that raced for the last place),
  `OneSandboxPerEmail`, `KeyMeansStarter` (whoever holds a key finds the starter content).
  `TenantsRespected`: `DeactivatedIsFrozen` (no members, invitations, agents or API keys of its own making, but for the
  key of a sandbox deactivated while it is provisioned, `routers/sandbox.py:122`), `ArchivedIsFinal`, `SettingsMerged`.
* `GraphSound`: `CyclesReported` (against a reference definition by transitive closure), `PartiesGrounded`.
  `ApprovalsSound`: `ApprovalChain`, `LineageMonotone`, `SnapshotConsistent`. `CompilationSound`:
  `ConflictBlocks`, `AuthorityGrounded` (a compiled policy cites an Authority, if the delegating party gives it or
  the person found is stored without space around the name), `DecidedOnce` (one policy per promotion, with
  exactly one orphan for each promotion that was cut off before it named its policy).
* `ExecutionSound`: `ExecutedAtMostOnce`, `NothingRunsUnauthorised`. `ReceiptsSound`:
  `ReceiptsMatchEvidence`, `DestinationConsistent`, `RequiredMeansSpent`. `CredentialsSound`: `StoreGrounded`,
  `StoreCurrent`, `HolderCanSign`, `RegisteredOnce`. `SigningSound`: `EvidenceVerifiable`, `OneKeyInForce`.
* `RulesAgree`: `OverlapSound`, `OneVerdict`, `SimulationFaithful` (of policies where no boolean is written beside a number on
  one field, `KindsApart`, and which OPA takes), `ExplanationAgrees` (of values of the kind a condition is
  written for, `OfKind`), `RiskSummary`. What lies outside these conditions is listed under Findings.
  `GovernanceSound`: `ScheduleHonest` (a schedule marked executed was performed), `HistoryHonest`,
  `SafeTogether` (active policies never delegate in a circle, except after the deployments its comment names).

Several parts are claimed only until two requests touch the same row, by a history variable
(`overlapped`, `disturbed`, `endRaced`): the code has no lock there, and the counterexamples below show what a race
then does. Unconditional parts are the ones a unique index, a conditional UPDATE or a lock secures.

*Bounds.* Two concurrent requests suffice for every race named in the hazards: each is a pair
of check and write around another request's commit; the theorems remove the bound where there is
one. Three Evidence rows give a first, a middle and a last row. Two policies are needed for a
bundle to lack one, two versions for one to replace another, and a third version for a rollback
beside an edit. `MaxAttempts = 3` of the deployment is the code's `MAX_DEPLOY_ATTEMPTS`; one failure is
enough for the failure of an upload, of a commit or of a restart at every step, and for the failure of
the reconciliation that follows a retirement. A failed deployment whose reconciliation fails too
needs two failures: TLC leaves it out, the theorems hold for any number.
In `intake` two identities and two agents make a nonce collide by agent, by identity, or not at
all, for the same operation; `IntakeLarge.cfg` is a larger instance for its safety properties.
Three names are the fewest with a delegation cycle longer than an exchange. SDK attempts, polls and
approval attempts are cut to two: the first may fail, the second is the last. The values of a field are
false, true, two numbers, two texts of which one contains the other, and a list: every kind, and for numbers a value on and off each
bound. Two versions of one policy let a loser of the version claim retry beside
another deployment of the same key. `Max*` constants
bound counters and id supplies in guards.

*Areas.* `lifecycle`, `policy_concurrent` and the larger instances split behaviours into areas (`area`, chosen initially and constant): the
operations that can affect one another stay together, and no property relates variables that
different areas change. In `integration_trust`, `tenancy` and `authoring`, `MeetOrWait` starts a second request only
where it touches a row of the first, those of the calls a script has still to make included (requests that share no row
commute), and `OneRace`
explores every behaviour up to and through one race; what comes after a lost update has
been seen is not searched, except where `MCAuthorityAuthoring` says so.

*Symmetry* is used only in `integration_trust`, `tenancy` and `authoring`, which check no liveness, and only over sets whose
members appear in no definition by name.

*Deadlock* is checked for the Evidence chain, deployment and intake. It is off where the system really stops: an ended
agent takes no further operation, a consumed or expired permission none either, the SDK's calls
have returned, all invitations and rows of an instance are used up.

*Fairness.* A request the server has accepted runs on (weak fairness of its steps): nothing but a
crash, a separate unfair action, stops a worker thread. A statement that waits for a row lock or
a colliding row has strong fairness, because PostgreSQL queues waiters and serves them in order.
An SDK call in progress goes on, since each of its waits has a timeout (weak fairness of `Proceed`).
Nobody is obliged to start a request, to change a status, to resolve a review or to answer one.

## What is proved

The theorems hold for any finite or infinite sets of sessions, agents, policies, rows and so on,
from the named assumptions of each module: sentinels such as `NoOrg` are not members of the sets
they stand outside of, numeric bounds are natural numbers, `Mediated`, `Operations` and `Unstable`
are subsets of what they select from, and `HUMAN_REVIEW` is an outcome. What a theorem states and a
stronger checked property entails (`TypeOK`, `CapabilityJustified`, `SingleUse`, `FirstResolutionStands`,
`NonceOnce`) is not repeated in a run.

* **RecordProofs**, of EvidenceChain: `ChainTypeOK`, `ChainLinear`, `FullVerificationIntact`, `TamperEvident`. `ChainLinear` alone is
  not inductive: the proof adds that a transaction past the lock step holds the lock, that the hash
  and sequence it read are still the latest, that sequences are dense 1..n, and, for the
  verification, that its first read saw a prefix of the chain. `TamperEvident` follows from the chain and from
  the ids being unique: a row moved or removed leaves a successor whose link is to another hash.
  Of OperationIntake: `TypeOK`, `NonceOnce`, `OperationDecidedOnce`, `AnswerIsRecorded`,
  `RefusalJustified`, `EndedNeverAdmitted`. Uniqueness of committed rows needs `Clear` (an uncommitted
  intent collides with no committed and no other uncommitted one); the rest needs `Sound` (what a
  request has learnt stays true since intents only grow and an ended party stays ended).
* **LifecycleProofs**, of CapabilityLifecycle: `TypeOK`, `CapabilityJustified`, `SingleUse`, `ReviewEvidenceExact`,
  `EndedPartyNeverUsed`, `FirstResolutionStands` and the refinement `ImplementsPermission`. The
  invariant carries what each request has read: an authorised basis stays authorised, an issued
  token stays issued, a party ended before the request began cannot have passed a check.
  Of AgentLifecycle: `AgentTypeOK` whatever overlaps; `CertificateFollowsStatus` and
  `EndedAloneIsFinal` for any number of administrators, activations, suspensions and rotations at once, until a retirement or a
  revocation has overlapped with another request. The invariant says what a stale request may still find: the certificate it
  read, once replaced, is not the active one, and a commit that would activate it meets the index. `AgentTerminal.cfg` and
  `AgentKeys.cfg` show that the condition cannot be dropped.
* **PolicyDeploymentProofs**: `TypeOK`, `ReviewedOnly`, `OneActiveVersion`, `OpaServesPolicyRow` for any
  number of administrators and failures; `OpaAgrees` under `SoleSession`. The key facts: whoever is
  past `Flush` owns the claim and read the current rows, so uploads and commits alternate; every
  bundle under way consists of approved versions; the version to be replaced is the only active one.
  `PolicySplitBrain.cfg` shows that `SoleSession` cannot be dropped.
* **ExecutionProofs**, of ExecutionLoop: `TypeOK` (no SDK call exceeds its attempts or polls), `ExecutionSound`,
  `ReceiptsSound`, `OutcomeNeverRegresses`, and `LoopImplementsPermission`, the refinement of SingleUsePermission
  with the start of the downstream operation as the one use. The invariant ties each client to the
  server: at most one client holds the answer that its consumption succeeded, and it holds it only while the
  capability is consumed and the operation not yet started (`SpentOnce`). Receipts and Evidence agree row by
  row by the unique index; the destination and the order of results need that the one request under
  way has read what is still there (`OneDestination`, `InOrder`). Of KeyCustody: `SigningSound` and
  `CredentialsSound`. Signing needs that what an instance signs with is registered with that material, or known
  not to be (`KeysRegistered`), and that one instance at a time registers; credentials need, for every process at every step of its script, what file, process and server
  still have in common as long as nothing that can separate them (a lost answer, a second writer of the file) has
  happened.
* **IntegrationTrustProofs**: `ActivationSound`, `RecordsSound`, `EndedStaysEnded`, for any number of contracts, identities,
  bindings and requests. Requests that share a row are known to overlap on it (`Exclusive`), so that what a request has read
  of any other row still holds when it writes (`Basis`); the unconditional parts follow from the unique
  indexes alone (`Indexed`).
* **TenancyProofs**: `MembershipSound`, `SandboxesSound`, `TenantsRespected`, for any number of organisations, users and requests.
  The invariant describes each kind of request by what it has established (its job) and adds: a row that is
  not in `overlapped` is as its reader saw it; requests that share a row or an email are on record as
  overlapping (`Exclusive`); a row that is not there yet belongs to one request (`Alone`), a sandbox to the one that
  provisions it (`Sole`); and the agents of a sandbox and the requests about to add one stay together below the cap plus
  the number of workers (`Capped`).
* **AuthorityAuthoringProofs**: `ApprovalsSound`, `CompilationSound` and `PartiesGrounded`, for any graphs, reviewers and numbers of
  approvals. The rows only move forward (`Onward`): a discovery is resolved once, a relationship becomes active and
  stays so, conflicts only appear. So a section that was read, in an approval or by a request still reading, is
  behind the rows of now, and an approval is behind the next. `SnapshotConsistent` and `ConflictBlocks` rest on the order in which the
  sections are read. For `DecidedOnce`, every promotion about to mark a candidate owns the policy it created, a
  bijection that makes the two cardinalities equal; the policies of cut-off promotions are set apart (`orphans`). `AuthorityGrounded`
  follows the gate's first match of a stripped name to the row it was read from, which the look-up finds again if it is stored as looked up.
* **GovernanceProofs**, of PolicyRules: `RulesAgree`, for any policies and Intents over any booleans, numbers, texts and lists. Finitely many bounds
  have a tightest one (`Extreme`, from the well-foundedness of finite subsets), so `FieldsCanOverlap` is false only
  where no value satisfies both sides (`JointMatch`), as long as Python's comparison and OPA's agree on them (`KindsApart`); in a bundle without conflicts an Intent therefore matches one policy at
  most, the flags have one effect, and the engine, the simulator and the explanation say the same condition by condition.
  Of PolicyGovernance: `GovernanceSound`, `ArchivedStays`, `DecisionCurrent`, for any policies, administrators, sweeps,
  decisions and failures. The invariant `GInv` has four parts. `TypeInv` bounds every row, schedule and request.
  `RequestsInv` ties each request to the step it is at (`Shape`) and to what it may still rely on (`Knows`): as long
  as it is not stale, its version is the latest, in a status its operation allows; what it is about to label or roll back to was
  enforced; and an activation past its checks saw every active policy of the bundle it compiled. `PoliciesInv` says that the timeline
  tells only what was enforced, that OPA still takes the active versions as one bundle (`Together`), and that their delegations
  are acyclic until a deployment that `SafeTogether` excepts. `SchedulesOk` counts, per schedule, its mark and the action of the request that holds it. A decision adds `FactsInv` and
  `DecisionsInv`: while nothing disturbs it, what it has worked out so far (`Worked`) is what the present rows, facts
  and OPA make of its Intent, and every step of another request that changes one of them marks it disturbed. From the rules these proofs take
  that a bundle which compiles matches an Intent at most once, and that `Matches` reads only the facts `FactKeys` names.
  TLC checked each part of the invariants before it was proved.

*Assumptions.* Besides the sentinels and bounds: identifiers of different tables are disjoint and fresh (they are UUIDs);
the tables and workers that are counted are finite; what a language model returns refers to rows, names and contents of the instance
(`GraphsAssumption`); what stripping makes of a name is a name (`StripAssumption`); values are placed kind by kind, as OPA orders
them, `contains` relates texts to texts and lists to values, and `None` and `Absent` are no values (`ValuesAssumption`); conditions are on
fields that exist, and the value of `in` is a list ( `QuestionsAssumption`, `GovernanceAssumption`: what `Policies` and
`Inputs` may hold); every field is in one section of OPA's input (`SectionAssumption`). TLC evaluates each on the run of
its module.

*Only model-checked:*
* all liveness (`AppendCompletes`, `RequestsEnd`, `CallsReturn`), which is outside the prover's reach;
* the rest of `GraphSound`: `CyclesReported` compares a depth-first search, a recursive function over paths, with a transitive
  closure, which needs induction over that recursion, and the names in `conflicts` are what that search computes;
* what a run expects to fail, and the configurations listed under Findings.

## Findings

What a document or a comment says and the code does not do. Two are runs; each other names the configuration with which TLC
prints a counterexample (`tlc -config X.cfg M`).

*An ended agent comes back or keeps a key* (`AgentTerminal.cfg`, `AgentKeys.cfg`, of AgentLifecycle). `agent_service` reads the agent and its
certificate without a lock. A request that tested the status before a revocation committed writes its own status afterwards
(`:411`), although `:404` calls revocation "terminal, cannot be reactivated"; a rotation or an activation that
commits beside a retirement leaves its certificate active (`:384`), although `:373` says that a retired agent "has no live
certificate". The status check of intake still refuses it.

*A replay of something else* (`IntakeReplay.cfg`, of OperationIntake). After a failed insert for which no row of the operation exists,
`integration_runtime_service.py:354` says that "the collision could only have been the (integration_identity_id, nonce) index".
`uq_intents_agent_nonce` covers attested rows as well: the agent may have used the nonce itself, or through another identity.
`RefusalJustified` says what does hold: the nonce is taken, by the agent or by the identity.

*Compiled without Authority* (`AuthorityNames.cfg`, of MCAuthorityAuthoring). The compilation gate strips stored names, the look-up of promotion compares
`lower(name)` as stored (`ai_policy_builder_service.py:403`). A discovery "CFO " passes the gate as resolved, and the policy gets no
Authority, against `:450`.

*Overlap that is no proof* (`PolicyOverlap.cfg`, of MCGovernance). The analysis calls its "no" "a proof, not a guess" (`scope_overlap.py:164`), but Python
compares False as 0 and True as 1, OPA does not: `>= 0` in one policy against `<= 0` and `!= false` in the other leaves it no
value, while an Intent with 0 matches both.

*The compiler raises* (`PolicyCompiler.cfg`, of MCGovernance). `compiler_errors.py:3` promises that `compile_bundle` "never raises". The validator does not
look at the value of `exists`, for which the generator raises a ValueError unless it is a boolean (`rego_generator.py:153`); a
text equality next to a numeric bound, or a list in `!=`, raises a TypeError (`scope_overlap.py:53`).

*The explanation is not the Rego* (run `policy_explained`). `explainer.py:9` calls the two "mechanically guaranteed to agree", and
`conditions.py:27` calls `contains` "a substring/element check". The generated `contains(field, literal)` (`rego_generator.py:146`)
is OPA's function on texts, undefined of a list, where the explainer finds the element (`explainer.py:73`) and reports a match. Likewise a
numeric condition on a text: OPA's order of kinds decides it, the explainer fails it.

*A draft changes live decisions* (run `policy_shadow`). `list_latest_policies` takes the latest version of a key
and only then filters by status. Editing an active policy makes a draft the latest version, so
`list_active_scope_actions` no longer names the policy's action and intents of that action stop at
HUMAN_REVIEW as unrecognised, although the active version is still deployed and, per
`runtime_policy_service.py:321`, its action is one the organisation's "currently-active RuntimePolicies actually
govern".

Further behaviours a reader may want to see:

| Configuration, module | Violates | What happens |
|---|---|---|
| `EvidenceRange`, EvidenceChain | `RangeVerificationIntact` | `verify_chain` selects a range by `created_at`, the start of the appending transaction, while links follow `sequence`: an untouched chain can be reported broken (`evidence_service.py:120`, `:141`) |
| `PolicySplitBrain`, PolicyDeployment | `EveryActiveEnforced` | a deployment that commits between another's bundle and its later reads is missing from the other's bundle (`runtime_policy_service.py:828`, `:1027`) |
| `PolicyPinning`, PolicyDeployment | `DecisionPinned` | retiring a policy changes OPA and not the active `policies` row; a deployment changes OPA before it commits (`runtime_policy_lifecycle_service.py:315`) |
| `IntegrationScope`, MCIntegrationTrust | `ScopeIsTheContracts` | a binding keeps the scope it was drafted with while its draft contract is edited to another operation (`models.py:2050`) |
| `AuthorityParties`, MCAuthorityAuthoring | `ActivePartiesStand` | where two discoveries of one name are resolved to different principals, resolving an active relationship again can exchange its party, although the docstring calls it idempotent (`ai_authority_builder_service.py:465`) |
| `ReconciledHistory`, MCExecution | `ReconciledOnTheRecords` | reconciling again after the binding's assurance level was changed gives another outcome for the same consumption and receipts (`execution_reconciliation_service.py:35`) |
| `IdempotentRegister`, MCExecution | `IdempotentPerKey` | a registration whose answer is lost is sent again, or two processes share a key: the key is registered twice (`sdk-python/payreality/agent.py:219`) |

Noticed while modelling, and part of the model as they are:

* a login opens a session for a member of a deactivated organisation (requests with it are refused
  later, `dependencies.py`), and `accept_invitation` does not look at the organisation's status;
* the founder of a sandbox may be invited to somebody else's as an owner, and a stale reactivation revives an
  archived sandbox: `OneSandboxPerEmail` counts founders, and only where no requests overlapped on the sandbox;
* `activate_policy` runs the safety checks on the version it read first, while `compile_policy` and `deploy_policy` read
  the latest one again (`runtime_policy_lifecycle_service.py:104`, `:121`): a version edited and approved meanwhile is
  activated unchecked. `SafeTogether` excepts what follows (`history.crossed`), and a version deployed again after a
  stale write put it back;
* archiving acts on the latest version: an older active version stays active and can no longer be retired;
* a live `"amount": null` orders below every number in OPA, while the simulator leaves the field out;
* overlap analysis compares `in` with neither equality nor intervals, which errs towards reporting
  a conflict;
* the explanation of a simulation ignores the `enterprise_knowledge` prefix and the agent a policy is narrowed to;
* a version that was deployed directly and then superseded has no activation time and cannot be rolled back to;
* the risk summary of a diff calls changed `==` and `in` values unchanged and ignores deny effects;
* overlapping sweeps can mark a performed schedule failed; a schedule acts on the latest version of its
  key, whatever version it names; a retirement whose OPA reconciliation fails is marked failed though
  the policy is retired;
* a conflict between sources on one fact key empties all facts of the decision;
* `upload_policy` is refused by OPA's type check when a `contains` condition names anything but a text, which no
  validator looks at;
* an edit that moves a mapping onto a source operation where its version number is taken, and a draft whose allow-list names an
  agent twice, are answered with a server error even without a race (`RacesAnswered`); so is the second of two
  concurrent additions of one agent to an allow-list;
* a promotion cut off between its two commits leaves a policy that no candidate names, and the retry makes another (`DecidedOnce`).

## Not modelled, and abstractions to know

* The lost updates of agents (`TerminalIsFinal`) are not carried into the other modules: in
  CapabilityLifecycle and OperationIntake an ended party stays ended.
* A lost COMMIT answer may or may not have committed; other late database errors of a deployment are
  treated alike. PolicyGovernance takes a deployment as one step, ExecutionLoop an attestation and each
  capability call.
* Of values, negative numbers and a condition on null are left out. Which field the overlap analysis looks at first is the order of
  a Python set: where one field raises and another rules the pair out, the code may do either, and `compiles` takes
  the favourable one. The sweep catches every exception, so one is a refusal there. `evaluate_rule`'s `matched` is read from OPA; its
  summary is what the explainer recomputes.
* Of names, `Strip` takes the space around a stored name away; names that differ in case only are one name.
* Hashes, signatures, tokens and canonical encodings are taken to be injective; graphs extracted by
  the language model are any graph of a set.
* Not modelled: heartbeat, transfer and bulk transitions of agents; `create_integration`; the in-memory rate
  limiter; caps on sandbox rows other than agents, which are counted in the same way; business units,
  departments, teams and enterprise systems; the permission table; password hashing; read-only lists, previews, dashboards and
  searches; `authority_context_service`, `authorization_receipt_service`, `decision_explanation_service`,
  `review_service`, which only read; the text of the Rego; prompts and text extraction; SDK adapter templates and
  command line; response schemas. Frontend, Terraform and migrations have no protocol of their own.

## Plan

Written and proved: what the sections above list. What remains worth doing, in this order:

1. Bulk transitions of agents as repeated requests, and the lost updates of AgentLifecycle as an input of
   CapabilityLifecycle.
2. Heartbeats, transfers and `create_integration`; the other caps of a sandbox, which are counted like agents.
