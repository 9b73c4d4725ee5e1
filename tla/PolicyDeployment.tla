--------------------------- MODULE PolicyDeployment ---------------------------
(***************************************************************************)
(* The runtime policies of one organisation: their reviewed lifecycle      *)
(* (runtime_policy_records), the deployment record decisions are pinned to *)
(* (policies), and the bundle the policy engine OPA really serves.         *)
(*                                                                         *)
(* The two tables are transactional, OPA is not.  Requests run at READ     *)
(* COMMITTED and lock nothing they only read, so each is a sequence of     *)
(* steps: read and test, write; a deployment reads three times, claims     *)
(* the next row of policies, uploads to OPA and commits.                   *)
(*                                                                         *)
(* A bundle is the set of <<policy_key, version>> compiled into it: its    *)
(* hash is content-addressed, so equal hashes are equal sets.              *)
(***************************************************************************)
EXTENDS Integers, FiniteSets

CONSTANTS
    Keys,           \* policy_key
    MaxVersion,     \* bound: versions per key
    Sessions,       \* concurrent administrative requests
    Nobody,
    Deciders,       \* concurrent intent evaluations
    Operations,     \* the operations requested
    MaxAttempts,    \* MAX_DEPLOY_ATTEMPTS
    MaxFaults,      \* bound: failures of OPA, the database or the process
    MaxLast         \* bound: policies.version that other organisations may take

ASSUME BoundsAssumption ==
    /\ MaxVersion \in Nat /\ MaxFaults \in Nat /\ MaxLast \in Nat
    /\ MaxAttempts \in Nat \ {0}

ASSUME KeysAssumption == Keys # {}

ASSUME NobodyAssumption == Nobody \notin Sessions

VARIABLES
    versions,   \* how many versions of each key there are
    status,     \* runtime_policy_records.status
    hash,       \* runtime_policy_records.bundle_hash
    policy,     \* policies: the active row's version (0: none) and bundle, the last version
    claim,      \* the transaction with an uncommitted row in policies
    opa,        \* the bundle OPA serves for this organisation
    request,    \* each session's request
    decision,   \* each decider's evaluation
    approved,   \* history: the versions a reviewer approved
    repaired,   \* history: OPA was ever written by a reconciliation
    dirty,      \* history: the last reconciliation failed
    faults

rows == <<versions, status, hash, approved>>
vars == <<rows, policy, claim, opa, request, decision, repaired, dirty, faults>>

Versions == 1..MaxVersion
Bundles == SUBSET (Keys \X Versions)
RowStatuses == {"none", "draft", "pending_review", "approved", "rejected", "compiled",
                "active", "retired", "archived"}
AllOperations == {"submit", "approve", "reject", "compile", "edit", "archive", "retire", "deploy"}

ASSUME OperationsAssumption == Operations \subseteq AllOperations

Policy == [active: Nat, bundle: Bundles, last: Nat]

Request == [pc: {"idle", "write", "bundle", "prior", "next", "flush", "upload", "commit",
                 "reconcile", "push"},
            op: AllOperations, key: Keys, ver: 0..MaxVersion, bundle: Bundles,
            prior: Nat, next: Nat, replaces: 0..MaxVersion, tries: 0..MaxAttempts]

Decision == [pc: {"idle", "asked", "decided"}, pinned: Bundles, served: Bundles]
IdleDecision == [pc |-> "idle", pinned |-> {}, served |-> {}]

Fresh(k, op) == [pc |-> "idle", op |-> op, key |-> k, ver |-> 0, bundle |-> {},
                 prior |-> 0, next |-> 0, replaces |-> 0, tries |-> 0]
Idle == Fresh(CHOOSE k \in Keys : TRUE, "edit")

-----------------------------------------------------------------------------
\* Every active version of the organisation
Active == {p \in Keys \X Versions : status[p[1]][p[2]] = "active"}

\* get_latest(...).status
LatestStatus(k) == status[k][versions[k]]

\* compile_bundle([this_policy] + _other_active_policies)
Bundle(k, v) == {<<k, v>>} \cup {p \in Active : p[1] # k}

\* Fault: a version still under review may be compiled
AllowedFromUnreviewed(op) ==
    CASE op = "submit" -> {"draft"}
      [] op \in {"approve", "reject"} -> {"pending_review"}
      [] op = "compile" -> {"pending_review", "approved"}
      [] op = "retire" -> {"active"}
      [] op = "archive" -> RowStatuses \ {"none", "active", "archived"}
      [] OTHER -> RowStatuses \ {"none", "archived"}

\* The status each operation requires of the latest version
AllowedFrom(op) ==
    CASE op = "submit" -> {"draft"}
      [] op \in {"approve", "reject"} -> {"pending_review"}
      [] op = "compile" -> {"approved"}
      [] op = "retire" -> {"active"}
      [] op = "archive" -> RowStatuses \ {"none", "active", "archived"}
      [] OTHER -> RowStatuses \ {"none", "archived"}

\* and the status it writes
StatusAfter(op) == [submit |-> "pending_review", approve |-> "approved", reject |-> "rejected",
                    compile |-> "compiled", archive |-> "archived", retire |-> "retired"][op]

-----------------------------------------------------------------------------
Init ==
    /\ versions = [k \in Keys |-> 0]
    /\ status = [k \in Keys |-> [v \in Versions |-> "none"]]
    /\ hash = [k \in Keys |-> [v \in Versions |-> {}]]
    /\ policy = [active |-> 0, bundle |-> {}, last |-> 0]
    /\ claim = Nobody
    /\ opa = {}
    /\ request = [s \in Sessions |-> Idle]
    /\ decision = [d \in Deciders |-> IdleDecision]
    /\ approved = {}
    /\ repaired = FALSE
    /\ dirty = FALSE
    /\ faults = 0

AddDraft(k) ==
    /\ versions[k] < MaxVersion
    /\ versions' = [versions EXCEPT ![k] = @ + 1]
    /\ status' = [status EXCEPT ![k][versions[k] + 1] = "draft"]
    /\ UNCHANGED <<hash, approved>>

\* create_policy: a fresh policy_key
CreatePolicy(k) ==
    /\ versions[k] = 0
    /\ AddDraft(k)
    /\ UNCHANGED <<policy, claim, opa, request, decision, repaired, dirty, faults>>

(* The lifecycle operations: get_latest and the test of its status, then    *)
(* the write by primary key.                                               *)
Begin(s, k, op) ==
    /\ request[s].pc = "idle"
    /\ op # "deploy"
    /\ versions[k] > 0
    /\ op = "edit" => versions[k] < MaxVersion
    /\ LatestStatus(k) \in AllowedFrom(op)
    /\ request' = [request EXCEPT ![s] =
          [Fresh(k, op) EXCEPT !.pc = "write", !.ver = versions[k],
                               !.bundle = IF op = "compile" THEN Bundle(k, versions[k]) ELSE {}]]
    /\ UNCHANGED <<rows, policy, claim, opa, decision, repaired, dirty, faults>>

\* edit_policy's INSERT; another edit may have taken the version number
\* (uq_runtime_policy_records_key_version).
InsertVersion(s) ==
    LET r == request[s] IN
    /\ r.pc = "write" /\ r.op = "edit"
    /\ IF versions[r.key] = r.ver THEN AddDraft(r.key) ELSE UNCHANGED rows
    /\ request' = [request EXCEPT ![s] = Idle]
    /\ UNCHANGED <<policy, claim, opa, decision, repaired, dirty, faults>>

\* submit_for_review, approve, reject, compile_policy, archive_policy and the
\* commit of retire_policy, which then reconciles OPA
WriteStatus(s) ==
    LET r == request[s] IN
    /\ r.pc = "write" /\ r.op # "edit"
    /\ status' = [status EXCEPT ![r.key][r.ver] = StatusAfter(r.op)]
    /\ hash' = IF r.op = "compile" THEN [hash EXCEPT ![r.key][r.ver] = r.bundle] ELSE hash
    /\ approved' = IF r.op = "approve" THEN approved \cup {<<r.key, r.ver>>} ELSE approved
    /\ request' = [request EXCEPT ![s] =
          IF r.op = "retire" THEN [r EXCEPT !.pc = "reconcile"] ELSE Idle]
    /\ repaired' = (repaired \/ r.op = "retire")
    /\ UNCHANGED <<versions, policy, claim, opa, decision, dirty, faults>>

-----------------------------------------------------------------------------
(* deploy_policy                                                           *)

Deploy(s, k) ==
    /\ request[s].pc = "idle"
    /\ versions[k] > 0
    /\ request' = [request EXCEPT ![s] = [Fresh(k, "deploy") EXCEPT !.pc = "bundle"]]
    /\ UNCHANGED <<rows, policy, claim, opa, decision, repaired, dirty, faults>>

\* The latest version must be compiled, and recompiling it with the other
\* active policies must give the bundle it was compiled to; otherwise
\* InvalidTransitionError or BundleChangedSinceCompileError ends the request.
ReadBundle(s) ==
    LET r == request[s]
        v == versions[r.key]
    IN
    /\ r.pc = "bundle"
    /\ request' = [request EXCEPT ![s] =
          IF LatestStatus(r.key) = "compiled" /\ hash[r.key][v] = Bundle(r.key, v)
          THEN [r EXCEPT !.pc = "prior", !.ver = v, !.bundle = Bundle(r.key, v)]
          ELSE Idle]
    /\ UNCHANGED <<rows, policy, claim, opa, decision, repaired, dirty, faults>>

\* prior_active
ReadPrior(s) ==
    /\ request[s].pc = "prior"
    /\ request' = [request EXCEPT ![s] = [@ EXCEPT !.pc = "next", !.prior = policy.active]]
    /\ UNCHANGED <<rows, policy, claim, opa, decision, repaired, dirty, faults>>

\* next_version
ReadNext(s) ==
    /\ request[s].pc = "next"
    /\ request' = [request EXCEPT ![s] = [@ EXCEPT !.pc = "flush", !.next = policy.last + 1]]
    /\ UNCHANGED <<rows, policy, claim, opa, decision, repaired, dirty, faults>>

\* Fault: the row is not flushed before the upload, so nothing is claimed
FlushLate(s) ==
    /\ request[s].pc = "flush"
    /\ request' = [request EXCEPT ![s] = [@ EXCEPT !.pc = "upload"]]
    /\ UNCHANGED <<rows, policy, claim, opa, decision, repaired, dirty, faults>>

\* The flush that claims the version and the organisation's active slot.  It
\* waits for another uncommitted row with the same version; it fails on a
\* version already taken (uq_policies_version) or when the row read as active
\* no longer is (idx_policies_single_active_per_org), and is then retried from
\* the start, MaxAttempts times in all.
Flush(s) ==
    LET r == request[s]
        lost == r.next # policy.last + 1 \/ r.prior # policy.active
        again == r.tries + 1 < MaxAttempts
    IN
    /\ r.pc = "flush"
    /\ claim = Nobody \/ r.next # policy.last + 1
    /\ \/ /\ ~lost
          /\ claim' = s
          /\ request' = [request EXCEPT ![s] = [r EXCEPT !.pc = "upload"]]
          /\ UNCHANGED repaired
       \/ /\ lost
          /\ request' = [request EXCEPT ![s] =
                [r EXCEPT !.pc = IF again THEN "bundle" ELSE "reconcile", !.tries = @ + 1]]
          /\ repaired' = (repaired \/ ~again)
          /\ UNCHANGED claim
    /\ UNCHANGED <<rows, policy, opa, decision, dirty, faults>>

\* The key's active version, 0 if there is none
ActiveVersion(k) ==
    IF \E v \in Versions : status[k][v] = "active"
    THEN CHOOSE v \in Versions : status[k][v] = "active"
    ELSE 0

\* OPA is given the bundle; then the version to replace is read
\* (prior_active_rp).
Upload(s) ==
    LET r == request[s] IN
    /\ r.pc = "upload"
    /\ opa' = r.bundle
    /\ request' = [request EXCEPT ![s] =
          [r EXCEPT !.pc = "commit", !.replaces = ActiveVersion(r.key)]]
    /\ UNCHANGED <<rows, policy, claim, decision, repaired, dirty, faults>>

\* Fault: the version it replaces is left active
CommittedBesidePrior(s) ==
    LET r == request[s] IN
    /\ status' = [status EXCEPT ![r.key][r.ver] = "active"]
    /\ policy' = [active |-> r.next, bundle |-> r.bundle, last |-> r.next]

\* What the commit makes durable: the version read as active is retired, this
\* one active, and the claimed row is the organisation's active row of policies.
Committed(s) ==
    LET r == request[s] IN
    /\ status' = [status EXCEPT ![r.key] =
          [v \in Versions |-> IF v = r.ver THEN "active"
                              ELSE IF v = r.replaces THEN "retired"
                              ELSE status[r.key][v]]]
    /\ policy' = [active |-> r.next, bundle |-> r.bundle, last |-> r.next]

CommitDeploy(s) ==
    /\ request[s].pc = "commit"
    /\ Committed(s)
    /\ claim' = Nobody
    /\ request' = [request EXCEPT ![s] = Idle]
    /\ dirty' = FALSE
    /\ UNCHANGED <<versions, hash, approved, opa, decision, repaired, faults>>

\* Fault: the error leaves as it came, OPA is not reconciled
DeployFailsUnrepaired(s) ==
    LET r == request[s] IN
    /\ r.pc \in {"upload", "commit"}
    /\ faults < MaxFaults
    /\ faults' = faults + 1
    /\ \/ r.pc = "upload" /\ UNCHANGED <<status, policy>> /\ opa' \in {opa, r.bundle}
       \/ r.pc = "commit" /\ UNCHANGED opa /\ (Committed(s) \/ UNCHANGED <<status, policy>>)
    /\ claim' = Nobody
    /\ request' = [request EXCEPT ![s] = Idle]
    /\ UNCHANGED <<versions, hash, approved, decision, repaired, dirty>>

\* Fault: the transaction is left open, the claim with it
DeployFailsUnreleased(s) ==
    LET r == request[s] IN
    /\ r.pc \in {"upload", "commit"}
    /\ faults < MaxFaults
    /\ faults' = faults + 1
    /\ r.pc = "upload" => opa' \in {opa, r.bundle}
    /\ r.pc = "commit" => UNCHANGED opa
    /\ request' = [request EXCEPT ![s] = [r EXCEPT !.pc = "reconcile"]]
    /\ repaired' = TRUE
    /\ UNCHANGED <<rows, policy, claim, decision, dirty>>

\* The upload fails (with or without effect), or the commit does (a connection
\* lost during COMMIT may have committed): rollback, then reconcile.
DeployFails(s) ==
    LET r == request[s] IN
    /\ r.pc \in {"upload", "commit"}
    /\ faults < MaxFaults
    /\ faults' = faults + 1
    /\ \/ r.pc = "upload" /\ UNCHANGED <<status, policy>> /\ opa' \in {opa, r.bundle}
       \/ r.pc = "commit" /\ UNCHANGED opa /\ (Committed(s) \/ UNCHANGED <<status, policy>>)
    /\ claim' = Nobody
    /\ request' = [request EXCEPT ![s] = [r EXCEPT !.pc = "reconcile"]]
    /\ repaired' = TRUE
    /\ UNCHANGED <<versions, hash, approved, decision, dirty>>

-----------------------------------------------------------------------------
(* _reconcile_organization_opa_state                                       *)

ReconcileRead(s) ==
    /\ request[s].pc = "reconcile"
    /\ request' = [request EXCEPT ![s] = [@ EXCEPT !.pc = "push", !.bundle = Active]]
    /\ UNCHANGED <<rows, policy, claim, opa, decision, repaired, dirty, faults>>

\* Uploads the bundle, or deletes OPA's policy when nothing is active
ReconcilePush(s) ==
    /\ request[s].pc = "push"
    /\ opa' = request[s].bundle
    /\ dirty' = FALSE
    /\ request' = [request EXCEPT ![s] = Idle]
    /\ UNCHANGED <<rows, policy, claim, decision, repaired, faults>>

ReconcileFails(s) ==
    /\ request[s].pc = "push"
    /\ faults < MaxFaults
    /\ faults' = faults + 1
    /\ dirty' = TRUE
    /\ request' = [request EXCEPT ![s] = Idle]
    /\ UNCHANGED <<rows, policy, claim, opa, decision, repaired>>

\* The container restarts: requests and OPA's memory are gone, and startup
\* reconciles OPA; a failure there is logged and swallowed.
Restart ==
    /\ faults < MaxFaults
    /\ faults' = faults + 1
    /\ request' = [s \in Sessions |-> Idle]
    /\ decision' = [d \in Deciders |-> IdleDecision]
    /\ claim' = Nobody
    /\ repaired' = TRUE
    /\ \/ opa' = Active /\ dirty' = FALSE
       \/ Active # {} /\ opa' = {} /\ dirty' = TRUE
    /\ UNCHANGED <<rows, policy>>

\* Another organisation's deployment takes the next platform-wide version.
OtherOrgDeploys ==
    /\ claim = Nobody
    /\ policy.last < MaxLast
    /\ policy' = [policy EXCEPT !.last = @ + 1]
    /\ UNCHANGED <<rows, claim, opa, request, decision, repaired, dirty, faults>>

-----------------------------------------------------------------------------
(* decision_engine.evaluate: the active row of policies, then OPA          *)

ReadActivePolicy(d) ==
    /\ decision[d].pc = "idle"
    /\ policy.active # 0
    /\ decision' = [decision EXCEPT ![d] = [pc |-> "asked", pinned |-> policy.bundle, served |-> {}]]
    /\ UNCHANGED <<rows, policy, claim, opa, request, repaired, dirty, faults>>

QueryOpa(d) ==
    /\ decision[d].pc = "asked"
    /\ decision' = [decision EXCEPT ![d] = [@ EXCEPT !.pc = "decided", !.served = opa]]
    /\ UNCHANGED <<rows, policy, claim, opa, request, repaired, dirty, faults>>

RecordDecision(d) ==
    /\ decision[d].pc = "decided"
    /\ decision' = [decision EXCEPT ![d] = IdleDecision]
    /\ UNCHANGED <<rows, policy, claim, opa, request, repaired, dirty, faults>>

-----------------------------------------------------------------------------
\* The steps a session takes once its request is under way
Progress(s) ==
    \/ InsertVersion(s) \/ WriteStatus(s)
    \/ ReadBundle(s) \/ ReadPrior(s) \/ ReadNext(s) \/ Flush(s) \/ Upload(s) \/ CommitDeploy(s)
    \/ ReconcileRead(s) \/ ReconcilePush(s)

Next ==
    \/ \E k \in Keys : CreatePolicy(k)
    \/ \E s \in Sessions, k \in Keys, op \in Operations :
          Begin(s, k, op) \/ (op = "deploy" /\ Deploy(s, k))
    \/ \E s \in Sessions : Progress(s) \/ DeployFails(s) \/ ReconcileFails(s)
    \/ \E d \in Deciders : ReadActivePolicy(d) \/ QueryOpa(d) \/ RecordDecision(d)
    \/ Restart
    \/ OtherOrgDeploys

Spec == Init /\ [][Next]_vars

\* The server runs every request it has accepted to its end.
FairSpec == Spec /\ \A s \in Sessions : WF_vars(Progress(s))

-----------------------------------------------------------------------------
(* Every variable keeps its type: no request writes a version that was     *)
(* never created, and claims are held by requests that exist.              *)
TypeOK ==
    /\ versions \in [Keys -> 0..MaxVersion]
    /\ status \in [Keys -> [Versions -> RowStatuses]]
    /\ hash \in [Keys -> [Versions -> Bundles]]
    /\ policy \in Policy
    /\ claim \in Sessions \cup {Nobody}
    /\ opa \in Bundles
    /\ request \in [Sessions -> Request]
    /\ decision \in [Deciders -> Decision]
    /\ approved \in Bundles
    /\ repaired \in BOOLEAN
    /\ dirty \in BOOLEAN
    /\ faults \in 0..MaxFaults

Quiet == \A s \in Sessions : request[s].pc = "idle"

(* "Nothing unapproved is ever enforced": every version OPA serves, and    *)
(* every version a decision was made with, was approved by a reviewer,     *)
(* across failed deployments, reconciliations and restarts.                *)
ReviewedOnly ==
    /\ opa \subseteq approved
    /\ \A d \in Deciders : decision[d].served \subseteq approved

(* When no request is under way and the last reconciliation did not fail,  *)
(* OPA serves exactly the active versions: deploy_policy and               *)
(* _reconcile_organization_opa_state promise that OPA and the database are *)
(* never left disagreeing.  It takes requests that come one at a time.     *)
OpaAgrees == Quiet /\ ~dirty => opa = Active

(* "deploying a single-policy edit must not silently drop every other rule *)
(* already governing real traffic": every active version is in the bundle  *)
(* OPA serves.                                                             *)
EveryActiveEnforced == Quiet /\ ~dirty => Active \subseteq opa

(* However many deployments race, while no reconciliation was ever needed  *)
(* OPA serves the bundle of the active row of policies: the claim taken    *)
(* before the upload orders uploads like commits.                          *)
OpaServesPolicyRow == Quiet /\ ~repaired => opa = policy.bundle

(* At most one version of a policy key is active, however deployments,     *)
(* retirements and edits of that key interleave.                           *)
OneActiveVersion ==
    \A k \in Keys, v, w \in Versions : status[k][v] = "active" /\ status[k][w] = "active" => v = w

(* "bound permanently to the exact policy version that governed it": the   *)
(* bundle recorded with a decision is the one OPA evaluated.               *)
DecisionPinned == \A d \in Deciders : decision[d].pc = "decided" => decision[d].served = decision[d].pinned

(* Every accepted request ends: retries are bounded and every claim is     *)
(* released, also when OPA or the database fails.                          *)
RequestsEnd == \A s \in Sessions : request[s].pc # "idle" ~> request[s].pc = "idle"

=============================================================================
