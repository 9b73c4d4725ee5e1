------------------------ MODULE PolicyDeploymentProofs ------------------------
(***************************************************************************)
(* Proofs about PolicyDeployment, for any number of keys, versions,        *)
(* sessions, deciders and faults.                                          *)
(***************************************************************************)
EXTENDS PolicyDeployment, TLAPS

Claiming == {"upload", "commit"}
Deploying == {"prior", "next", "flush"} \cup Claiming

\* A request under way is about a version that exists.
Ranged(r) ==
    /\ r.pc # "idle" => versions[r.key] >= 1
    /\ r.pc \in {"write"} \cup Deploying => r.ver \in Versions
    /\ r.pc = "write" => r.op # "deploy"
    /\ r.pc \notin {"reconcile", "push"} => r.tries < MaxAttempts

\* What a request has read to compile or to push was approved.
Reviewed(r) ==
    /\ r.pc \in Deploying \/ (r.pc = "write" /\ r.op = "compile") => <<r.key, r.ver>> \in approved
    /\ r.pc \in Deploying \cup {"push"} => r.bundle \subseteq approved

\* The version a deployment is about to replace is the key's only active one.
Replacing(r) ==
    r.pc = "commit" => \A v \in Versions : status[r.key][v] = "active" => v = r.replaces

RequestsRanged == \A s \in Sessions : Ranged(request[s])

\* The uncommitted row of policies belongs to the one request between its
\* flush and its commit.
ClaimHeld == \A s \in Sessions : request[s].pc \in Claiming <=> claim = s

RepairKnown == \A s \in Sessions : request[s].pc \in {"reconcile", "push"} => repaired

RequestsReviewed ==
    /\ \A s \in Sessions : Reviewed(request[s])
    /\ \A k \in Keys, v \in Versions :
          status[k][v] \in {"approved", "compiled", "active"} => <<k, v>> \in approved

RequestsReplacing == \A s \in Sessions : Replacing(request[s])

\* Uploads and commits come in pairs, in the same order.
UploadOrder ==
    ~repaired =>
        /\ \A s \in Sessions : request[s].pc = "commit" => opa = request[s].bundle
        /\ (\A s \in Sessions : request[s].pc # "commit") => opa = policy.bundle

IInv ==
    /\ TypeOK
    /\ RequestsRanged
    /\ ClaimHeld
    /\ RepairKnown
    /\ RequestsReviewed
    /\ ReviewedOnly
    /\ RequestsReplacing
    /\ OneActiveVersion
    /\ UploadOrder

-----------------------------------------------------------------------------
\* A fresh request is a request, and so is the idle one.
LEMMA FreshType ==
    ASSUME NEW k \in Keys, NEW op \in AllOperations
    PROVE  Fresh(k, op) \in Request
BY BoundsAssumption DEF Fresh, Request, Bundles, Versions

\* An idle request is a request.
LEMMA IdleType == Idle \in Request /\ Idle.pc = "idle" /\ Idle.tries = 0
<1>1. (CHOOSE k \in Keys : TRUE) \in Keys  BY KeysAssumption
<1>2. "edit" \in AllOperations  BY DEF AllOperations
<1> QED  BY <1>1, <1>2, FreshType DEF Idle, Fresh

\* The bundles that requests compute are bundles.
LEMMA BundleType ==
    ASSUME NEW k \in Keys, NEW v \in Versions
    PROVE  Bundle(k, v) \in Bundles /\ Active \in Bundles
BY DEF Bundle, Active, Bundles

\* One row of runtime_policy_records is written, the others stay.
LEMMA RowWrite ==
    ASSUME NEW f \in [Keys -> [Versions -> RowStatuses]], NEW k \in Keys, NEW v \in Versions,
           NEW x \in RowStatuses
    PROVE  /\ [f EXCEPT ![k][v] = x] \in [Keys -> [Versions -> RowStatuses]]
           /\ \A j \in Keys, w \in Versions :
                 [f EXCEPT ![k][v] = x][j][w] = IF j = k /\ w = v THEN x ELSE f[j][w]
OBVIOUS

\* Initially nothing is under way and OPA is empty.
LEMMA InitInv == Init => IInv
<1> SUFFICES ASSUME Init PROVE IInv
  OBVIOUS
<1>0. \A s \in Sessions : request[s] \in Request /\ request[s].pc = "idle"
  BY IdleType DEF Init
<1>t. \A s \in Sessions : request[s].tries < MaxAttempts
  BY IdleType, BoundsAssumption DEF Init
<1>1. TypeOK
  <2>1. request \in [Sessions -> Request]  BY <1>0 DEF Init
  <2>2. decision \in [Deciders -> Decision]  BY DEF Init, IdleDecision, Decision, Bundles
  <2>3. policy \in Policy  BY DEF Init, Policy, Bundles
  <2>4. hash \in [Keys -> [Versions -> Bundles]]  BY DEF Init, Bundles
  <2>5. status \in [Keys -> [Versions -> RowStatuses]]  BY DEF Init, RowStatuses
  <2>6. versions \in [Keys -> 0..MaxVersion] /\ faults \in 0..MaxFaults
    BY BoundsAssumption DEF Init
  <2>7. claim \in Sessions \cup {Nobody} /\ opa \in Bundles /\ approved \in Bundles
    BY DEF Init, Bundles
  <2>8. repaired \in BOOLEAN /\ dirty \in BOOLEAN  BY DEF Init
  <2> QED  BY <2>1, <2>2, <2>3, <2>4, <2>5, <2>6, <2>7, <2>8 DEF TypeOK
<1>2. RequestsRanged /\ RepairKnown /\ RequestsReplacing
  BY <1>0, <1>t DEF RequestsRanged, Ranged, RepairKnown, RequestsReplacing, Replacing, Deploying, Claiming
<1>3. ClaimHeld  BY <1>0, NobodyAssumption DEF Init, ClaimHeld, Claiming
<1>4. RequestsReviewed
  BY <1>0 DEF Init, RequestsReviewed, Reviewed, Deploying, Claiming
<1>5. ReviewedOnly  BY DEF Init, ReviewedOnly, IdleDecision
<1>6. OneActiveVersion  BY DEF Init, OneActiveVersion
<1>7. UploadOrder
  <2>1. opa = policy.bundle  BY DEF Init
  <2> QED  BY <1>0, <2>1 DEF UploadOrder
<1> QED  BY <1>1, <1>2, <1>3, <1>4, <1>5, <1>6, <1>7 DEF IInv

-----------------------------------------------------------------------------
(* Steps that touch neither policies, nor OPA, nor a decision.             *)

\* What holds of a request that such a step has changed
Renewed(t) ==
    /\ request[t].pc # "commit" /\ request'[t].pc # "commit"
    /\ Ranged(request[t])'
    /\ request'[t].pc \in Claiming <=> claim = t
    /\ request'[t].pc \in {"reconcile", "push"} => repaired'
    /\ Reviewed(request[t])'

\* What holds of the rows after such a step
RowsKept ==
    /\ versions' \in [Keys -> 0..MaxVersion]
    /\ \A k \in Keys : versions'[k] >= versions[k]
    /\ status' \in [Keys -> [Versions -> RowStatuses]]
    /\ hash' \in [Keys -> [Versions -> Bundles]]
    /\ approved' \in Bundles /\ approved \subseteq approved'
    /\ \A k \in Keys, v \in Versions : status'[k][v] = "active" => status[k][v] = "active"
    /\ \A k \in Keys, v \in Versions :
          status'[k][v] \in {"approved", "compiled", "active"} => <<k, v>> \in approved'

\* Such a step keeps the invariant.
LEMMA LifecycleStep ==
    ASSUME IInv, RowsKept, UNCHANGED <<policy, claim, opa, decision>>,
           request' \in [Sessions -> Request],
           \A t \in Sessions : request'[t] = request[t] \/ Renewed(t),
           repaired' \in BOOLEAN, repaired => repaired', dirty' \in BOOLEAN, faults' \in 0..MaxFaults
    PROVE  IInv'
<1>0. \A t \in Sessions : request[t] \in Request /\ request[t].key \in Keys
  BY DEF IInv, TypeOK, Request
<1>1. TypeOK'  BY DEF IInv, TypeOK, RowsKept
<1>2. RequestsRanged'
  <2> SUFFICES ASSUME NEW t \in Sessions PROVE Ranged(request[t])'
    BY DEF RequestsRanged
  <2>1. CASE Renewed(t)  BY <2>1 DEF Renewed
  <2>2. CASE request'[t] = request[t]
    <3>1. versions[request[t].key] \in Int /\ versions'[request[t].key] \in Int
      BY <1>0 DEF IInv, TypeOK, RowsKept
    <3> QED  BY <1>0, <2>2, <3>1 DEF IInv, RequestsRanged, Ranged, RowsKept
  <2> QED  BY <2>1, <2>2
<1>3. ClaimHeld'  BY DEF IInv, ClaimHeld, Renewed
<1>4. RepairKnown'  BY DEF IInv, RepairKnown, Renewed
<1>5. RequestsReviewed'
  <2>1. \A t \in Sessions : Reviewed(request[t])'
    BY DEF IInv, RequestsReviewed, Reviewed, Renewed, RowsKept
  <2> QED  BY <2>1 DEF RequestsReviewed, RowsKept
<1>6. ReviewedOnly'  BY DEF IInv, ReviewedOnly, RowsKept
<1>7. RequestsReplacing'
  BY <1>0 DEF IInv, RequestsReplacing, Replacing, Renewed, RowsKept
<1>8. OneActiveVersion'  BY DEF IInv, OneActiveVersion, RowsKept
<1>9. UploadOrder'  BY DEF IInv, UploadOrder, Renewed
<1> QED  BY <1>1, <1>2, <1>3, <1>4, <1>5, <1>6, <1>7, <1>8, <1>9 DEF IInv

\* With the rows unchanged, RowsKept holds.
LEMMA RowsUnchanged == IInv /\ UNCHANGED rows => RowsKept
<1> SUFFICES ASSUME IInv, UNCHANGED rows PROVE RowsKept
  OBVIOUS
<1>1. \A k \in Keys : versions[k] >= versions[k]  BY DEF IInv, TypeOK
<1> QED  BY <1>1 DEF rows, RowsKept, IInv, TypeOK, RequestsReviewed

\* A new draft
LEMMA DraftKept == ASSUME IInv, NEW k \in Keys, AddDraft(k) PROVE RowsKept
<1>1. versions[k] \in 0..MaxVersion /\ versions[k] + 1 \in Versions
  BY BoundsAssumption DEF IInv, TypeOK, AddDraft, Versions
<1>2. "draft" \in RowStatuses  BY DEF RowStatuses
<1>3. /\ status' \in [Keys -> [Versions -> RowStatuses]]
      /\ \A j \in Keys, w \in Versions :
            status'[j][w] = IF j = k /\ w = versions[k] + 1 THEN "draft" ELSE status[j][w]
  BY <1>1, <1>2, RowWrite DEF IInv, TypeOK, AddDraft
<1>4. /\ versions' \in [Keys -> 0..MaxVersion]
      /\ \A j \in Keys : versions'[j] >= versions[j]
  BY <1>1 DEF IInv, TypeOK, AddDraft, Versions
<1> QED  BY <1>3, <1>4 DEF RowsKept, AddDraft, IInv, TypeOK, RequestsReviewed

-----------------------------------------------------------------------------
\* A step of one session that replaces its request by x
LEMMA RequestStep ==
    ASSUME IInv, RowsKept, UNCHANGED <<policy, claim, opa, decision, dirty>>,
           NEW s \in Sessions, NEW x \in Request, request' = [request EXCEPT ![s] = x],
           request[s].pc # "commit", x.pc # "commit",
           Ranged(x)', Reviewed(x)', x.pc \in Claiming <=> claim = s,
           x.pc \in {"reconcile", "push"} => repaired',
           repaired' \in BOOLEAN, repaired => repaired', UNCHANGED faults
    PROVE  IInv'
<1>1. request' \in [Sessions -> Request]  BY DEF IInv, TypeOK
<1>2. request'[s] = x /\ \A t \in Sessions : t # s => request'[t] = request[t]
  BY DEF IInv, TypeOK
<1>3. Renewed(s)  BY <1>2 DEF Renewed, Ranged, Reviewed
<1>4. dirty' \in BOOLEAN /\ faults' \in 0..MaxFaults  BY DEF IInv, TypeOK
<1> QED  BY <1>1, <1>2, <1>3, <1>4, LifecycleStep

\* CreatePolicy touches no request.
LEMMA CreateStep == ASSUME IInv, NEW k \in Keys, CreatePolicy(k) PROVE IInv'
<1>1. RowsKept  BY DraftKept DEF CreatePolicy
<1> QED  BY <1>1, LifecycleStep DEF CreatePolicy, IInv, TypeOK

\* What the invariant says of one request
LEMMA RequestFacts ==
    ASSUME IInv, NEW s \in Sessions
    PROVE  /\ request[s] \in Request /\ request[s].key \in Keys /\ request[s].op \in AllOperations
           /\ request[s].bundle \in Bundles
           /\ Ranged(request[s]) /\ Reviewed(request[s]) /\ Replacing(request[s])
           /\ request[s].pc \in Claiming <=> claim = s
           /\ request[s].pc \in {"reconcile", "push"} => repaired
BY DEF IInv, TypeOK, Request, RequestsRanged, RequestsReviewed, RequestsReplacing, ClaimHeld, RepairKnown

\* Going back to idle is always possible outside a claim.
LEMMA IdleStep ==
    ASSUME IInv, RowsKept, UNCHANGED <<policy, claim, opa, decision, dirty, repaired, faults>>,
           NEW s \in Sessions, request[s].pc \notin Claiming,
           request' = [request EXCEPT ![s] = Idle]
    PROVE  IInv'
<1>1. Ranged(Idle)' /\ Reviewed(Idle)' /\ Idle.pc # "commit" /\ Idle.pc \notin Claiming
  BY IdleType, BoundsAssumption DEF Ranged, Reviewed, Deploying, Claiming
<1>2. request[s].pc # "commit" /\ claim # s  BY RequestFacts DEF Claiming
<1>3. repaired' \in BOOLEAN  BY DEF IInv, TypeOK
<1> QED  BY <1>1, <1>2, <1>3, IdleType, RequestStep

\* Accepting a lifecycle operation.
LEMMA BeginStep ==
    ASSUME IInv, NEW s \in Sessions, NEW k \in Keys, NEW op \in Operations, Begin(s, k, op)
    PROVE  IInv'
<1>1. versions[k] \in Versions /\ versions[k] \in 0..MaxVersion /\ op \in AllOperations
  BY OperationsAssumption, BoundsAssumption DEF Begin, IInv, TypeOK, Versions
<1>2. PICK v \in Versions : v = versions[k]  BY <1>1
<1>3. PICK b \in Bundles : b = IF op = "compile" THEN Bundle(k, v) ELSE {}
  BY BundleType DEF Bundles
<1>4. PICK x : x = [Fresh(k, op) EXCEPT !.pc = "write", !.ver = v, !.bundle = b]
  OBVIOUS
<1>5. x \in Request /\ x.pc = "write" /\ x.op = op /\ x.key = k /\ x.ver = v /\ x.tries = 0
  BY <1>1, <1>2, <1>4, FreshType DEF Request, Fresh
<1>6. request' = [request EXCEPT ![s] = x]  BY <1>2, <1>3, <1>4 DEF Begin
<1>7. op = "compile" => <<k, v>> \in approved
  BY <1>2 DEF Begin, LatestStatus, AllowedFrom, IInv, RequestsReviewed
<1>8. Ranged(x)'
  <2>1. op # "deploy" /\ versions'[k] >= 1  BY <1>1 DEF Begin, rows, Versions
  <2> QED  BY <1>5, <2>1, BoundsAssumption DEF Ranged
<1>9. Reviewed(x)'  BY <1>5, <1>7 DEF Begin, rows, Reviewed, Deploying, Claiming
<1>10. request[s].pc = "idle" /\ claim # s  BY RequestFacts DEF Begin, Claiming
<1>11. RowsKept  BY RowsUnchanged DEF Begin
<1> QED
  BY <1>5, <1>6, <1>8, <1>9, <1>10, <1>11, RequestStep DEF Begin, Claiming, IInv, TypeOK

\* edit_policy's INSERT.
LEMMA InsertStep == ASSUME IInv, NEW s \in Sessions, InsertVersion(s) PROVE IInv'
<1>1. RowsKept
  BY RequestFacts, DraftKept, RowsUnchanged DEF InsertVersion
<1> QED  BY <1>1, IdleStep DEF InsertVersion, Claiming

\* The status write of a lifecycle operation.
LEMMA WriteStep == ASSUME IInv, NEW s \in Sessions, WriteStatus(s) PROVE IInv'
<1> DEFINE r == request[s]
<1>1. /\ r \in Request /\ r.key \in Keys /\ r.ver \in Versions /\ r.bundle \in Bundles
      /\ r.op \in {"submit", "approve", "reject", "compile", "archive", "retire"}
      /\ versions[r.key] >= 1
      /\ r.op = "compile" => <<r.key, r.ver>> \in approved
      /\ r.pc = "write" /\ claim # s
  BY RequestFacts DEF WriteStatus, Ranged, Reviewed, AllOperations, Claiming, Deploying
<1>2. /\ StatusAfter(r.op) \in RowStatuses \ {"active"}
      /\ StatusAfter(r.op) = "approved" => r.op = "approve"
      /\ StatusAfter(r.op) = "compiled" => r.op = "compile"
  BY <1>1 DEF StatusAfter, RowStatuses
<1>3. RowsKept
  <2>1. /\ status' \in [Keys -> [Versions -> RowStatuses]]
        /\ \A j \in Keys, w \in Versions :
              status'[j][w] = IF j = r.key /\ w = r.ver THEN StatusAfter(r.op) ELSE status[j][w]
    BY <1>1, <1>2, RowWrite DEF IInv, TypeOK, WriteStatus
  <2>2. hash' \in [Keys -> [Versions -> Bundles]]  BY <1>1 DEF IInv, TypeOK, WriteStatus
  <2>3. approved' \in Bundles /\ approved \subseteq approved'
    BY <1>1 DEF IInv, TypeOK, WriteStatus, Bundles
  <2>4. r.op = "approve" => <<r.key, r.ver>> \in approved'  BY DEF WriteStatus
  <2>5. \A j \in Keys, w \in Versions :
           status'[j][w] \in {"approved", "compiled", "active"} => <<j, w>> \in approved'
    BY <1>1, <1>2, <2>1, <2>3, <2>4 DEF IInv, RequestsReviewed
  <2>6. \A j \in Keys, w \in Versions : status'[j][w] = "active" => status[j][w] = "active"
    BY <1>2, <2>1
  <2>7. UNCHANGED versions /\ \A k \in Keys : versions[k] >= versions[k]
    BY DEF WriteStatus, IInv, TypeOK
  <2> QED  BY <2>1, <2>2, <2>3, <2>5, <2>6, <2>7 DEF RowsKept, IInv, TypeOK
<1>4. CASE r.op = "retire"
  <2>0. PICK x : x = [r EXCEPT !.pc = "reconcile"]  OBVIOUS
  <2>1. x \in Request /\ x.pc = "reconcile" /\ x.key = r.key  BY <1>1, <2>0 DEF Request
  <2>2. request' = [request EXCEPT ![s] = x] /\ repaired'
    BY <1>4, <2>0 DEF WriteStatus
  <2>3. Ranged(x)' /\ Reviewed(x)'
    BY <1>1, <2>1 DEF WriteStatus, Ranged, Reviewed, Deploying, Claiming
  <2> QED
    BY <1>1, <1>3, <2>1, <2>2, <2>3, RequestStep DEF WriteStatus, Claiming, IInv, TypeOK
<1>5. CASE r.op # "retire"
  <2>1. UNCHANGED repaired  BY <1>5 DEF WriteStatus, IInv, TypeOK
  <2> QED  BY <1>1, <1>3, <1>5, <2>1, IdleStep DEF WriteStatus, Claiming
<1> QED  BY <1>4, <1>5

\* Accepting a deployment, and its bundle read.
LEMMA DeployStep ==
    ASSUME IInv, NEW s \in Sessions, NEW k \in Keys, Deploy(s, k)  PROVE IInv'
<1> DEFINE x == [Fresh(k, "deploy") EXCEPT !.pc = "bundle"]
<1>1. x \in Request /\ x.pc = "bundle" /\ x.key = k /\ x.tries = 0
  <2>1. Fresh(k, "deploy") \in Request  BY FreshType DEF AllOperations
  <2> QED  BY <2>1 DEF Request, Fresh
<1>2. request' = [request EXCEPT ![s] = x] /\ RowsKept  BY RowsUnchanged DEF Deploy
<1> HIDE DEF x
<1>3. Ranged(x)' /\ Reviewed(x)'
  <2>1. versions[k] \in Int  BY DEF IInv, TypeOK
  <2> QED  BY <1>1, <2>1, BoundsAssumption DEF Deploy, rows, Ranged, Reviewed, Deploying, Claiming
<1>4. request[s].pc = "idle" /\ claim # s  BY RequestFacts DEF Deploy, Claiming
<1> QED  BY <1>1, <1>2, <1>3, <1>4, RequestStep DEF Deploy, Claiming, IInv, TypeOK

\* The latest row and the other active ones were approved.
LEMMA ReadBundleStep == ASSUME IInv, NEW s \in Sessions, ReadBundle(s) PROVE IInv'
<1> DEFINE r == request[s]
<1>1. /\ r \in Request /\ r.key \in Keys /\ r.pc = "bundle" /\ versions[r.key] >= 1
      /\ claim # s /\ r.tries < MaxAttempts
  BY RequestFacts DEF ReadBundle, Ranged, Claiming
<1>2. PICK v \in Versions : v = versions[r.key]
  BY <1>1, BoundsAssumption DEF IInv, TypeOK, Versions
<1>3. RowsKept  BY RowsUnchanged DEF ReadBundle
<1>4. CASE LatestStatus(r.key) = "compiled" /\ hash[r.key][v] = Bundle(r.key, v)
  <2>1. PICK b \in Bundles : b = Bundle(r.key, v)  BY <1>1, BundleType
  <2>2. PICK x : x = [r EXCEPT !.pc = "prior", !.ver = v, !.bundle = b]  OBVIOUS
  <2>3. /\ x \in Request /\ x.pc = "prior" /\ x.key = r.key /\ x.ver = v /\ x.bundle = b
        /\ x.tries = r.tries
    <3>1. v \in 0..MaxVersion  BY <1>2 DEF IInv, TypeOK, Versions
    <3> QED  BY <1>1, <2>2, <3>1 DEF Request
  <2>4. request' = [request EXCEPT ![s] = x]
    BY <1>2, <1>4, <2>1, <2>2 DEF ReadBundle
  <2>5. <<r.key, v>> \in approved
    BY <1>1, <1>2, <1>4 DEF LatestStatus, IInv, RequestsReviewed
  <2>6. Active \subseteq approved  BY DEF Active, IInv, RequestsReviewed
  <2>7. b \subseteq approved  BY <2>1, <2>5, <2>6 DEF Bundle
  <2>8. Ranged(x)' /\ Reviewed(x)'
    BY <1>1, <1>2, <2>3, <2>5, <2>7 DEF ReadBundle, rows, Ranged, Reviewed
  <2> QED
    BY <1>1, <1>3, <2>3, <2>4, <2>8, RequestStep DEF ReadBundle, Claiming, IInv, TypeOK
<1>5. CASE ~(LatestStatus(r.key) = "compiled" /\ hash[r.key][v] = Bundle(r.key, v))
  <2>1. request' = [request EXCEPT ![s] = Idle]  BY <1>2, <1>5 DEF ReadBundle
  <2> QED  BY <1>1, <1>3, <2>1, IdleStep DEF ReadBundle, Claiming
<1> QED  BY <1>4, <1>5

\* Reading the active row of policies.
LEMMA ReadPriorStep == ASSUME IInv, NEW s \in Sessions, ReadPrior(s) PROVE IInv'
<1>1. PICK x : x = [request[s] EXCEPT !.pc = "next", !.prior = policy.active]  OBVIOUS
<1>2. /\ x \in Request /\ x.pc = "next" /\ x.key = request[s].key /\ x.ver = request[s].ver
      /\ x.bundle = request[s].bundle /\ x.tries = request[s].tries
  <2>1. policy.active \in Nat  BY DEF IInv, TypeOK, Policy
  <2>2. request[s] \in Request  BY RequestFacts
  <2> QED  BY <1>1, <2>1, <2>2 DEF Request
<1>3. Ranged(x)' /\ Reviewed(x)'
  BY <1>2, RequestFacts DEF ReadPrior, rows, Ranged, Reviewed, Deploying
<1>4. request[s].pc = "prior" /\ claim # s  BY RequestFacts DEF ReadPrior, Claiming
<1>5. request' = [request EXCEPT ![s] = x] /\ RowsKept  BY <1>1, RowsUnchanged DEF ReadPrior
<1> QED
  BY <1>2, <1>3, <1>4, <1>5, RequestStep DEF ReadPrior, Claiming, IInv, TypeOK

\* Reading the next version.
LEMMA ReadNextStep == ASSUME IInv, NEW s \in Sessions, ReadNext(s) PROVE IInv'
<1>1. PICK x : x = [request[s] EXCEPT !.pc = "flush", !.next = policy.last + 1]  OBVIOUS
<1>2. /\ x \in Request /\ x.pc = "flush" /\ x.key = request[s].key /\ x.ver = request[s].ver
      /\ x.bundle = request[s].bundle /\ x.tries = request[s].tries
  <2>1. policy.last + 1 \in Nat  BY DEF IInv, TypeOK, Policy
  <2>2. request[s] \in Request  BY RequestFacts
  <2> QED  BY <1>1, <2>1, <2>2 DEF Request
<1>3. Ranged(x)' /\ Reviewed(x)'
  BY <1>2, RequestFacts DEF ReadNext, rows, Ranged, Reviewed, Deploying
<1>4. request[s].pc = "next" /\ claim # s  BY RequestFacts DEF ReadNext, Claiming
<1>5. request' = [request EXCEPT ![s] = x] /\ RowsKept  BY <1>1, RowsUnchanged DEF ReadNext
<1> QED
  BY <1>2, <1>3, <1>4, <1>5, RequestStep DEF ReadNext, Claiming, IInv, TypeOK

\* Reading the active versions for a reconciliation.
LEMMA ReconcileReadStep == ASSUME IInv, NEW s \in Sessions, ReconcileRead(s) PROVE IInv'
<1>0. Active \in Bundles /\ Active \subseteq approved
  BY DEF Active, Bundles, IInv, RequestsReviewed
<1>1. PICK x : x = [request[s] EXCEPT !.pc = "push", !.bundle = Active]  OBVIOUS
<1>2. x \in Request /\ x.pc = "push" /\ x.key = request[s].key /\ x.bundle \subseteq approved
  BY <1>0, <1>1, RequestFacts DEF Request
<1>3. Ranged(x)' /\ Reviewed(x)'
  BY <1>2, RequestFacts DEF ReconcileRead, rows, Ranged, Reviewed, Deploying, Claiming
<1>4. request[s].pc = "reconcile" /\ claim # s /\ repaired'
  BY RequestFacts DEF ReconcileRead, Claiming
<1>5. request' = [request EXCEPT ![s] = x] /\ RowsKept
  BY <1>1, RowsUnchanged DEF ReconcileRead
<1> QED
  BY <1>2, <1>3, <1>4, <1>5, RequestStep DEF ReconcileRead, Claiming, IInv, TypeOK

\* A failed reconciliation changes only the history.
LEMMA ReconcileFailsStep == ASSUME IInv, NEW s \in Sessions, ReconcileFails(s) PROVE IInv'
<1>1. request' = [request EXCEPT ![s] = Idle] /\ request[s].pc = "push" /\ claim # s
  BY RequestFacts DEF ReconcileFails, Claiming
<1>2. request' \in [Sessions -> Request]  BY <1>1, IdleType DEF IInv, TypeOK
<1>3. request'[s] = Idle /\ \A t \in Sessions : t # s => request'[t] = request[t]
  BY <1>1 DEF IInv, TypeOK
<1>4. Renewed(s)
  BY <1>1, <1>3, IdleType, BoundsAssumption DEF Renewed, Ranged, Reviewed, Deploying, Claiming
<1>5. faults' \in 0..MaxFaults
  BY BoundsAssumption DEF ReconcileFails, IInv, TypeOK
<1>6. RowsKept  BY RowsUnchanged DEF ReconcileFails
<1>7. dirty' \in BOOLEAN /\ repaired' \in BOOLEAN /\ repaired' = repaired
  BY DEF ReconcileFails, IInv, TypeOK
<1>8. UNCHANGED <<policy, claim, opa, decision>>  BY DEF ReconcileFails
<1> QED  BY <1>2, <1>3, <1>4, <1>5, <1>6, <1>7, <1>8, LifecycleStep

-----------------------------------------------------------------------------
(* Steps that touch policies, OPA or the claim.                            *)

\* The flush claims the row, or is lost and starts again.
LEMMA FlushStep == ASSUME IInv, NEW s \in Sessions, Flush(s) PROVE IInv'
<1> DEFINE r == request[s]
<1>1. /\ r \in Request /\ r.key \in Keys /\ r.pc = "flush" /\ claim # s
      /\ Ranged(r) /\ Reviewed(r)
  BY RequestFacts DEF Flush, Claiming
<1>2. RowsKept  BY RowsUnchanged DEF Flush
<1>3. ASSUME UNCHANGED claim,
             request' = [request EXCEPT ![s] =
                [r EXCEPT !.pc = IF r.tries + 1 < MaxAttempts THEN "bundle" ELSE "reconcile",
                          !.tries = @ + 1]],
             repaired' = (repaired \/ ~(r.tries + 1 < MaxAttempts))
      PROVE  IInv'
  <2>1. PICK x : x = [r EXCEPT !.pc = IF r.tries + 1 < MaxAttempts THEN "bundle" ELSE "reconcile",
                               !.tries = @ + 1]
    OBVIOUS
  <2>2. r.tries + 1 \in 0..MaxAttempts
    BY <1>1, BoundsAssumption DEF Ranged, Request
  <2>3. /\ x \in Request /\ x.key = r.key
        /\ x.pc = IF r.tries + 1 < MaxAttempts THEN "bundle" ELSE "reconcile"
        /\ x.tries = r.tries + 1
    BY <1>1, <2>1, <2>2 DEF Request
  <2>4. Ranged(x)'
    BY <1>1, <2>3 DEF Flush, rows, Ranged, Deploying, Claiming
  <2>5. Reviewed(x)'  BY <2>3 DEF Reviewed, Deploying, Claiming
  <2>6. repaired' \in BOOLEAN /\ (repaired => repaired') /\ (x.pc = "reconcile" => repaired')
    BY <1>3, <2>3 DEF IInv, TypeOK
  <2>7. /\ request' = [request EXCEPT ![s] = x]
        /\ UNCHANGED <<policy, claim, opa, decision, dirty, faults>>
    BY <1>3, <2>1 DEF Flush
  <2>8. /\ r.pc # "commit" /\ x.pc \in {"bundle", "reconcile"}
        /\ x.pc \notin Claiming /\ claim # s
    BY <1>1, <2>3 DEF Claiming
  <2> QED  BY <1>2, <2>3, <2>4, <2>5, <2>6, <2>7, <2>8, RequestStep
<1>4. ASSUME claim = Nobody, claim' = s, UNCHANGED repaired,
             request' = [request EXCEPT ![s] = [r EXCEPT !.pc = "upload"]]
      PROVE  IInv'
  <2>1. /\ request' \in [Sessions -> Request]
        /\ \A t \in Sessions : t # s => request'[t] = request[t]
        /\ request'[s] = [r EXCEPT !.pc = "upload"]
    <3>1. [r EXCEPT !.pc = "upload"] \in Request  BY <1>1 DEF Request
    <3> QED  BY <1>4, <3>1 DEF IInv, TypeOK
  <2>2. /\ request'[s].pc = "upload" /\ request'[s].key = r.key /\ request'[s].ver = r.ver
        /\ request'[s].bundle = r.bundle /\ request'[s].tries = r.tries
    BY <1>1, <2>1 DEF Request
  <2>3. \A t \in Sessions : request[t].pc \notin Claiming
    BY <1>4, NobodyAssumption DEF IInv, ClaimHeld
  <2>4. TypeOK'
    BY <1>4, <2>1 DEF Flush, rows, IInv, TypeOK
  <2>5. RequestsRanged' /\ RequestsReviewed' /\ RequestsReplacing'
    <3>1. Ranged(request[s])' /\ Reviewed(request[s])' /\ Replacing(request[s])'
      BY <1>1, <2>2 DEF Flush, rows, Ranged, Reviewed, Replacing, Deploying, Claiming
    <3>2. ASSUME NEW t \in Sessions, t # s
          PROVE  Ranged(request[t])' /\ Reviewed(request[t])' /\ Replacing(request[t])'
      BY <2>1, <3>2, RequestFacts DEF Flush, rows, Ranged, Reviewed, Replacing
    <3> QED  BY <3>1, <3>2 DEF RequestsRanged, RequestsReviewed, RequestsReplacing, Flush, rows, IInv
  <2>6. ClaimHeld'
    BY <1>4, <2>1, <2>2, <2>3 DEF ClaimHeld, Claiming
  <2>7. RepairKnown'  BY <1>4, <2>1, <2>2 DEF IInv, RepairKnown
  <2>8. ReviewedOnly' /\ OneActiveVersion'
    BY DEF Flush, rows, IInv, ReviewedOnly, OneActiveVersion
  <2>9. UploadOrder'
    BY <1>1, <1>4, <2>1, <2>2 DEF Flush, IInv, UploadOrder
  <2> QED  BY <2>4, <2>5, <2>6, <2>7, <2>8, <2>9 DEF IInv
<1> QED
  <2>1. \/ /\ UNCHANGED claim
           /\ request' = [request EXCEPT ![s] =
                [r EXCEPT !.pc = IF r.tries + 1 < MaxAttempts THEN "bundle" ELSE "reconcile",
                          !.tries = @ + 1]]
           /\ repaired' = (repaired \/ ~(r.tries + 1 < MaxAttempts))
        \/ /\ claim = Nobody /\ claim' = s /\ UNCHANGED repaired
           /\ request' = [request EXCEPT ![s] = [r EXCEPT !.pc = "upload"]]
    BY DEF Flush
  <2> QED  BY <2>1, <1>3, <1>4

\* No other deployment can commit between the upload and the commit.
LEMMA UploadStep == ASSUME IInv, NEW s \in Sessions, Upload(s) PROVE IInv'
<1> DEFINE r == request[s]
<1>1. /\ r \in Request /\ r.key \in Keys /\ r.bundle \in Bundles /\ r.pc = "upload"
      /\ claim = s /\ Ranged(r) /\ Reviewed(r)
  BY RequestFacts DEF Upload, Claiming
<1>2. /\ ActiveVersion(r.key) \in 0..MaxVersion
      /\ \A v \in Versions : status[r.key][v] = "active" => v = ActiveVersion(r.key)
  <2>1. CASE \E v \in Versions : status[r.key][v] = "active"
    <3>1. /\ ActiveVersion(r.key) \in Versions
          /\ status[r.key][ActiveVersion(r.key)] = "active"
      BY <2>1 DEF ActiveVersion
    <3> QED  BY <1>1, <3>1, BoundsAssumption DEF IInv, OneActiveVersion, Versions
  <2>2. CASE ~\E v \in Versions : status[r.key][v] = "active"
    BY <2>2, BoundsAssumption DEF ActiveVersion
  <2> QED  BY <2>1, <2>2
<1>3. PICK x : x = [r EXCEPT !.pc = "commit", !.replaces = ActiveVersion(r.key)]  OBVIOUS
<1>4. /\ x \in Request /\ x.pc = "commit" /\ x.key = r.key /\ x.ver = r.ver
      /\ x.bundle = r.bundle /\ x.tries = r.tries /\ x.replaces = ActiveVersion(r.key)
  BY <1>1, <1>2, <1>3 DEF Request
<1>5. request' = [request EXCEPT ![s] = x] /\ opa' = r.bundle  BY <1>3 DEF Upload
<1>6. /\ request' \in [Sessions -> Request] /\ request'[s] = x
      /\ \A t \in Sessions : t # s => request'[t] = request[t]
  BY <1>4, <1>5 DEF IInv, TypeOK
<1>7. TypeOK'  BY <1>1, <1>5, <1>6 DEF Upload, rows, IInv, TypeOK
<1>8. RequestsRanged' /\ RequestsReviewed' /\ RequestsReplacing'
  <2>1. Ranged(request[s])' /\ Reviewed(request[s])' /\ Replacing(request[s])'
    BY <1>1, <1>2, <1>4, <1>6 DEF Upload, rows, Ranged, Reviewed, Replacing, Deploying, Claiming
  <2>2. ASSUME NEW t \in Sessions, t # s
        PROVE  Ranged(request[t])' /\ Reviewed(request[t])' /\ Replacing(request[t])'
    BY <1>6, <2>2, RequestFacts DEF Upload, rows, Ranged, Reviewed, Replacing
  <2> QED  BY <2>1, <2>2 DEF RequestsRanged, RequestsReviewed, RequestsReplacing, Upload, rows, IInv
<1>9. ClaimHeld' /\ RepairKnown'
  BY <1>1, <1>4, <1>6 DEF Upload, IInv, ClaimHeld, RepairKnown, Claiming
<1>10. ReviewedOnly'
  <2>1. r.bundle \subseteq approved  BY <1>1 DEF Reviewed, Deploying, Claiming
  <2> QED  BY <1>5, <2>1 DEF Upload, rows, IInv, ReviewedOnly
<1>11. OneActiveVersion'  BY DEF Upload, rows, IInv, OneActiveVersion
<1>12. UploadOrder'
  <2>1. \A t \in Sessions : t # s => request[t].pc # "commit"
    BY <1>1 DEF IInv, ClaimHeld, Claiming
  <2> QED  BY <1>4, <1>5, <1>6, <2>1 DEF UploadOrder
<1> QED  BY <1>7, <1>8, <1>9, <1>10, <1>11, <1>12 DEF IInv

\* What the commit does to the rows
LEMMA CommittedRows ==
    ASSUME IInv, NEW s \in Sessions, request[s].pc = "commit", Committed(s)
    PROVE  /\ status' \in [Keys -> [Versions -> RowStatuses]] /\ policy' \in Policy
           /\ policy'.bundle = request[s].bundle
           /\ \A k \in Keys, v \in Versions :
                 status'[k][v] = IF k # request[s].key THEN status[k][v]
                                 ELSE IF v = request[s].ver THEN "active"
                                 ELSE IF v = request[s].replaces THEN "retired"
                                 ELSE status[k][v]
           /\ \A k \in Keys, v \in Versions : status'[k][v] = "active" =>
                 IF k = request[s].key THEN v = request[s].ver ELSE status[k][v] = "active"
<1> DEFINE r == request[s]
<1>1. /\ r \in Request /\ r.key \in Keys /\ r.bundle \in Bundles /\ Replacing(r)
  BY RequestFacts
<1>2. policy' \in Policy /\ policy'.bundle = r.bundle
  <2>1. r.next \in Nat  BY <1>1 DEF Request
  <2> QED  BY <1>1, <2>1 DEF Committed, Policy
<1>3. \A v \in Versions : status[r.key][v] = "active" => v = r.replaces
  BY <1>1 DEF Replacing
<1>4. status \in [Keys -> [Versions -> RowStatuses]]  BY DEF IInv, TypeOK
<1>5. /\ status' \in [Keys -> [Versions -> RowStatuses]]
      /\ \A k \in Keys, v \in Versions :
            status'[k][v] = IF k # r.key THEN status[k][v]
                            ELSE IF v = r.ver THEN "active"
                            ELSE IF v = r.replaces THEN "retired"
                            ELSE status[k][v]
  <2>1. [v \in Versions |-> IF v = r.ver THEN "active"
                            ELSE IF v = r.replaces THEN "retired"
                            ELSE status[r.key][v]] \in [Versions -> RowStatuses]
    BY <1>1, <1>4 DEF RowStatuses
  <2> QED  BY <1>1, <1>4, <2>1 DEF Committed
<1> QED  BY <1>1, <1>2, <1>3, <1>5

\* After the commit or the failure of a claim holder: the rows are kept and
\* nobody holds a claim.
LEMMA ReleaseStep ==
    ASSUME IInv, NEW s \in Sessions, request[s].pc \in Claiming, NEW x \in Request,
           x.pc \in {"idle", "reconcile"}, x.pc = "idle" => x.tries = 0, x.key = request[s].key \/ x.pc = "idle",
           request' = [request EXCEPT ![s] = x], claim' = Nobody,
           UNCHANGED <<versions, hash, approved, decision>>,
           \/ UNCHANGED <<status, policy>>
           \/ request[s].pc = "commit" /\ Committed(s),
           opa' \in {opa, request[s].bundle},
           x.pc = "reconcile" => repaired',
           repaired' \in BOOLEAN, repaired => repaired',
           ~repaired' => /\ request[s].pc = "commit" /\ UNCHANGED opa /\ Committed(s),
           dirty' \in BOOLEAN, faults' \in 0..MaxFaults
    PROVE  IInv'
<1> DEFINE r == request[s]
<1>1. /\ r \in Request /\ r.key \in Keys /\ r.ver \in Versions /\ r.bundle \in Bundles
      /\ claim = s /\ versions[r.key] >= 1
      /\ <<r.key, r.ver>> \in approved /\ r.bundle \subseteq approved
  BY RequestFacts DEF Ranged, Reviewed, Deploying, Claiming
<1>2. /\ request' \in [Sessions -> Request] /\ request'[s] = x
      /\ \A t \in Sessions : t # s => request'[t] = request[t]
  BY DEF IInv, TypeOK
<1>3. /\ status' \in [Keys -> [Versions -> RowStatuses]] /\ policy' \in Policy
      /\ \A k \in Keys, v \in Versions : status'[k][v] = "active" =>
            status[k][v] = "active" \/ (k = r.key /\ v = r.ver)
      /\ \A k \in Keys, v \in Versions :
            status'[k][v] \in {"approved", "compiled"} => status'[k][v] = status[k][v]
      /\ OneActiveVersion'
  <2>1. CASE UNCHANGED <<status, policy>>
    BY <2>1 DEF IInv, TypeOK, OneActiveVersion
  <2>2. CASE r.pc = "commit" /\ Committed(s)
    <3>1. /\ status' \in [Keys -> [Versions -> RowStatuses]] /\ policy' \in Policy
          /\ \A k \in Keys, v \in Versions :
                status'[k][v] = IF k # r.key THEN status[k][v]
                                ELSE IF v = r.ver THEN "active"
                                ELSE IF v = r.replaces THEN "retired"
                                ELSE status[k][v]
          /\ \A k \in Keys, v \in Versions : status'[k][v] = "active" =>
                IF k = r.key THEN v = r.ver ELSE status[k][v] = "active"
      BY <2>2, CommittedRows
    <3>2. OneActiveVersion'
      BY <3>1 DEF IInv, OneActiveVersion
    <3> QED  BY <3>1, <3>2
  <2> QED  BY <2>1, <2>2
<1>4. \A t \in Sessions : t # s => request[t].pc \notin Claiming
  BY <1>1 DEF IInv, ClaimHeld
<1>5. TypeOK'
  BY <1>1, <1>2, <1>3 DEF IInv, TypeOK
<1>6. \A t \in Sessions : Ranged(request[t])'
  <2>1. Ranged(request[s])'
    BY <1>1, <1>2, BoundsAssumption DEF Ranged, Deploying, Claiming
  <2>2. ASSUME NEW t \in Sessions, t # s  PROVE Ranged(request[t])'
    BY <1>2, <2>2, RequestFacts DEF Ranged
  <2> QED  BY <2>1, <2>2
<1>7. RequestsReviewed'
  <2>1. Reviewed(request[s])'  BY <1>2 DEF Reviewed, Deploying, Claiming
  <2>2. ASSUME NEW t \in Sessions, t # s  PROVE Reviewed(request[t])'
    BY <1>2, <2>2, RequestFacts DEF Reviewed
  <2>3. \A k \in Keys, v \in Versions :
          status'[k][v] \in {"approved", "compiled", "active"} => <<k, v>> \in approved
    BY <1>1, <1>3 DEF IInv, RequestsReviewed
  <2> QED  BY <2>1, <2>2, <2>3 DEF RequestsReviewed
<1>8. ClaimHeld' /\ RepairKnown' /\ RequestsReplacing'
  <2>1. \A t \in Sessions : request'[t].pc \notin Claiming  BY <1>2, <1>4 DEF Claiming
  <2> QED
    BY <1>2, <2>1, NobodyAssumption
    DEF IInv, ClaimHeld, RepairKnown, RequestsReplacing, Replacing, Claiming
<1>9. ReviewedOnly'  BY <1>1 DEF IInv, ReviewedOnly
<1>10. UploadOrder'
  <2> SUFFICES ASSUME ~repaired' PROVE opa' = policy'.bundle /\ \A t \in Sessions : request'[t].pc # "commit"
    BY DEF UploadOrder
  <2>1. opa = r.bundle  BY DEF IInv, UploadOrder
  <2>2. policy'.bundle = r.bundle  BY CommittedRows
  <2>3. \A t \in Sessions : request'[t].pc # "commit"  BY <1>2, <1>4 DEF Claiming
  <2> QED  BY <2>1, <2>2, <2>3
<1> QED  BY <1>3, <1>5, <1>6, <1>7, <1>8, <1>9, <1>10 DEF IInv, RequestsRanged

\* The commit of a deployment.
LEMMA CommitStep == ASSUME IInv, NEW s \in Sessions, CommitDeploy(s) PROVE IInv'
<1>1. /\ request[s].pc = "commit" /\ Committed(s) /\ claim' = Nobody
      /\ request' = [request EXCEPT ![s] = Idle]
      /\ UNCHANGED <<versions, hash, approved, decision>> /\ UNCHANGED opa
  BY DEF CommitDeploy
<1>2. repaired' \in BOOLEAN /\ repaired' = repaired /\ dirty' \in BOOLEAN /\ faults' \in 0..MaxFaults
  BY DEF CommitDeploy, IInv, TypeOK
<1>3. request[s].pc \in Claiming  BY <1>1 DEF Claiming
<1> QED  BY <1>1, <1>2, <1>3, IdleType, ReleaseStep

\* A deployment that fails in its upload or its commit.
LEMMA DeployFailsStep == ASSUME IInv, NEW s \in Sessions, DeployFails(s) PROVE IInv'
<1>1. PICK x : x = [request[s] EXCEPT !.pc = "reconcile"]  OBVIOUS
<1>2. x \in Request /\ x.pc = "reconcile" /\ x.key = request[s].key
  BY <1>1, RequestFacts DEF Request
<1>3. /\ request[s].pc \in Claiming /\ claim' = Nobody
      /\ request' = [request EXCEPT ![s] = x]
      /\ UNCHANGED <<versions, hash, approved, decision>> /\ repaired' = TRUE
      /\ \/ UNCHANGED <<status, policy>>
         \/ request[s].pc = "commit" /\ Committed(s)
      /\ opa' \in {opa, request[s].bundle}
  BY <1>1 DEF DeployFails, Claiming
<1>4. dirty' \in BOOLEAN /\ faults' \in 0..MaxFaults
  BY BoundsAssumption DEF DeployFails, IInv, TypeOK
<1> QED  BY <1>2, <1>3, <1>4, ReleaseStep

\* A reconciliation pushes approved versions only; it makes no claim about
\* the active row of policies.
LEMMA ReconcilePushStep == ASSUME IInv, NEW s \in Sessions, ReconcilePush(s) PROVE IInv'
<1>1. /\ request[s].pc = "push" /\ request[s].bundle \in Bundles
      /\ request[s].bundle \subseteq approved /\ repaired /\ claim # s
  BY RequestFacts DEF ReconcilePush, Reviewed, Claiming
<1>2. /\ request' \in [Sessions -> Request] /\ request'[s] = Idle
      /\ \A t \in Sessions : t # s => request'[t] = request[t]
  BY IdleType DEF ReconcilePush, IInv, TypeOK
<1>3. TypeOK'  BY <1>1, <1>2 DEF ReconcilePush, rows, IInv, TypeOK
<1>4. RequestsRanged' /\ RequestsReviewed' /\ RequestsReplacing'
  <2>1. Ranged(request[s])' /\ Reviewed(request[s])' /\ Replacing(request[s])'
    BY <1>2, IdleType, BoundsAssumption DEF Ranged, Reviewed, Replacing, Deploying, Claiming
  <2>2. ASSUME NEW t \in Sessions, t # s
        PROVE  Ranged(request[t])' /\ Reviewed(request[t])' /\ Replacing(request[t])'
    BY <1>2, <2>2, RequestFacts DEF ReconcilePush, rows, Ranged, Reviewed, Replacing
  <2> QED
    BY <2>1, <2>2 DEF RequestsRanged, RequestsReviewed, RequestsReplacing, ReconcilePush, rows, IInv
<1>5. ClaimHeld' /\ RepairKnown'
  BY <1>1, <1>2, IdleType DEF ReconcilePush, IInv, ClaimHeld, RepairKnown, Claiming
<1>6. ReviewedOnly'  BY <1>1 DEF ReconcilePush, rows, IInv, ReviewedOnly
<1>7. OneActiveVersion'  BY DEF ReconcilePush, rows, IInv, OneActiveVersion
<1>8. UploadOrder'  BY <1>1 DEF ReconcilePush, UploadOrder
<1> QED  BY <1>3, <1>4, <1>5, <1>6, <1>7, <1>8 DEF IInv

\* A restart of the container.
LEMMA RestartStep == IInv /\ Restart => IInv'
<1> SUFFICES ASSUME IInv, Restart PROVE IInv'
  OBVIOUS
<1>0. \A t \in Sessions : request'[t] = Idle /\ request'[t] \in Request
  BY IdleType DEF Restart
<1>1. Active \in Bundles /\ Active \subseteq approved /\ {} \in Bundles
  BY DEF Active, Bundles, IInv, RequestsReviewed
<1>2. TypeOK'
  <2>1. request' \in [Sessions -> Request]  BY <1>0 DEF Restart
  <2>2. decision' \in [Deciders -> Decision]  BY DEF Restart, IdleDecision, Decision, Bundles
  <2>3. opa' \in Bundles /\ dirty' \in BOOLEAN /\ repaired' \in BOOLEAN
    BY <1>1 DEF Restart
  <2>4. faults' \in 0..MaxFaults  BY BoundsAssumption DEF Restart, IInv, TypeOK
  <2> QED  BY <2>1, <2>2, <2>3, <2>4 DEF Restart, rows, IInv, TypeOK
<1>3. \A t \in Sessions : Ranged(request[t])' /\ Reviewed(request[t])' /\ Replacing(request[t])'
  BY <1>0, IdleType, BoundsAssumption DEF Ranged, Reviewed, Replacing, Deploying, Claiming
<1>4. ClaimHeld' /\ RepairKnown'
  BY <1>0, IdleType, NobodyAssumption DEF Restart, ClaimHeld, RepairKnown, Claiming
<1>5. ReviewedOnly'
  <2>1. \A d \in Deciders : decision'[d].served = {}  BY DEF Restart, IdleDecision
  <2>2. opa' \subseteq approved  BY <1>1 DEF Restart
  <2> QED  BY <2>1, <2>2 DEF Restart, rows, ReviewedOnly
<1>6. OneActiveVersion' /\ UploadOrder'
  BY DEF Restart, rows, IInv, OneActiveVersion, UploadOrder
<1> QED
  BY <1>2, <1>3, <1>4, <1>5, <1>6
  DEF Restart, rows, IInv, RequestsRanged, RequestsReviewed, RequestsReplacing

\* A deployment of another organisation.
LEMMA OtherStep == IInv /\ OtherOrgDeploys => IInv'
<1> SUFFICES ASSUME IInv, OtherOrgDeploys PROVE IInv'
  OBVIOUS
<1>1. policy' \in Policy /\ policy'.bundle = policy.bundle
  BY DEF OtherOrgDeploys, IInv, TypeOK, Policy
<1>2. TypeOK'  BY <1>1 DEF OtherOrgDeploys, rows, IInv, TypeOK
<1> QED
  BY <1>1, <1>2 DEF OtherOrgDeploys, rows, IInv, RequestsRanged, Ranged, ClaimHeld, RepairKnown,
     RequestsReviewed, Reviewed, ReviewedOnly, RequestsReplacing, Replacing, OneActiveVersion,
     UploadOrder

\* A decision's evaluation changes nothing but itself.
LEMMA DecisionStep ==
    ASSUME IInv, NEW d \in Deciders, ReadActivePolicy(d) \/ QueryOpa(d) \/ RecordDecision(d)
    PROVE  IInv'
<1>1. PICK x \in Decision : decision' = [decision EXCEPT ![d] = x] /\ x.served \subseteq approved
  <2>1. /\ decision[d] \in Decision /\ opa \in Bundles /\ policy.bundle \in Bundles
        /\ opa \subseteq approved
    BY DEF IInv, TypeOK, Policy, ReviewedOnly
  <2>2. CASE ReadActivePolicy(d)
    <3>1. [pc |-> "asked", pinned |-> policy.bundle, served |-> {}] \in Decision
      BY <2>1 DEF Decision, Bundles
    <3> QED  BY <2>2, <3>1 DEF ReadActivePolicy
  <2>3. CASE QueryOpa(d)
    <3>1. [decision[d] EXCEPT !.pc = "decided", !.served = opa] \in Decision
      BY <2>1 DEF Decision
    <3>2. [decision[d] EXCEPT !.pc = "decided", !.served = opa].served = opa
      BY <2>1 DEF Decision
    <3> QED  BY <2>1, <2>3, <3>1, <3>2 DEF QueryOpa
  <2>4. CASE RecordDecision(d)
    <3>1. IdleDecision \in Decision /\ IdleDecision.served = {}
      BY DEF IdleDecision, Decision, Bundles
    <3> QED  BY <2>4, <3>1 DEF RecordDecision
  <2> QED  BY <2>2, <2>3, <2>4
<1>2. UNCHANGED <<rows, policy, claim, opa, request, repaired, dirty, faults>>
  BY DEF ReadActivePolicy, QueryOpa, RecordDecision
<1>3. TypeOK' /\ ReviewedOnly'
  BY <1>1, <1>2 DEF rows, IInv, TypeOK, ReviewedOnly
<1> QED
  BY <1>2, <1>3 DEF rows, IInv, RequestsRanged, Ranged, ClaimHeld, RepairKnown,
     RequestsReviewed, Reviewed, RequestsReplacing, Replacing, OneActiveVersion, UploadOrder

\* IInv is inductive.
LEMMA Inductive == IInv /\ [Next]_vars => IInv'
<1> SUFFICES ASSUME IInv, [Next]_vars PROVE IInv'
  OBVIOUS
<1>1. CASE \E k \in Keys : CreatePolicy(k)  BY <1>1, CreateStep
<1>2. CASE \E s \in Sessions, k \in Keys, op \in Operations :
             Begin(s, k, op) \/ (op = "deploy" /\ Deploy(s, k))
  BY <1>2, BeginStep, DeployStep
<1>3. CASE \E s \in Sessions : Progress(s) \/ DeployFails(s) \/ ReconcileFails(s)
  BY <1>3, InsertStep, WriteStep, ReadBundleStep, ReadPriorStep, ReadNextStep, FlushStep,
     UploadStep, CommitStep, ReconcileReadStep, ReconcilePushStep, DeployFailsStep,
     ReconcileFailsStep
  DEF Progress
<1>4. CASE \E d \in Deciders : ReadActivePolicy(d) \/ QueryOpa(d) \/ RecordDecision(d)
  BY <1>4, DecisionStep
<1>5. CASE Restart  BY <1>5, RestartStep
<1>6. CASE OtherOrgDeploys  BY <1>6, OtherStep
<1>7. CASE UNCHANGED vars
  <2>1. UNCHANGED <<policy, claim, opa, decision, request, repaired, dirty, faults>> /\ UNCHANGED rows
    BY <1>7 DEF vars
  <2>2. RowsKept  BY <2>1, RowsUnchanged
  <2> QED  BY <2>1, <2>2, LifecycleStep DEF IInv, TypeOK
<1> QED  BY <1>1, <1>2, <1>3, <1>4, <1>5, <1>6, <1>7 DEF Next

\* IInv is an invariant of the specification.
LEMMA Invariance == Spec => []IInv
BY InitInv, Inductive, PTL DEF Spec

-----------------------------------------------------------------------------
(* Every variable keeps its type, for any number of racing requests.       *)
THEOREM PolicyTypeCorrect == Spec => []TypeOK
BY Invariance, PTL DEF IInv

(* OPA never serves, and no decision is ever made with, a version nobody   *)
(* approved: not by racing deployments, a failed one, a reconciliation or  *)
(* a restart.                                                              *)
THEOREM OnlyReviewedEnforced == Spec => []ReviewedOnly
BY Invariance, PTL DEF IInv

(* Racing deployments, retirements and edits never leave a policy key two  *)
(* active versions.                                                        *)
THEOREM SingleActiveVersion == Spec => []OneActiveVersion
BY Invariance, PTL DEF IInv

(* As long as no reconciliation was needed, OPA serves the bundle of the   *)
(* active row of policies whenever no request is under way, however many   *)
(* deployments raced.                                                      *)
THEOREM ServedBundleRecorded == Spec => []OpaServesPolicyRow
<1>1. IInv => OpaServesPolicyRow  BY DEF IInv, UploadOrder, OpaServesPolicyRow, Quiet
<1> QED  BY <1>1, Invariance, PTL

-----------------------------------------------------------------------------
(* Requests that come one at a time.                                       *)

SoleSession == \A s, t \in Sessions : s = t

Drifting == {"commit", "reconcile", "push"}

\* What the request under way has read is still so.
Current(r) ==
    /\ r.pc \in {"write"} \cup Deploying => r.ver <= versions[r.key]
    /\ r.pc = "write" => r.ver = versions[r.key] /\ status[r.key][r.ver] \in AllowedFrom(r.op)
    /\ r.pc \in Deploying => r.bundle = Bundle(r.key, r.ver)
    /\ r.pc = "commit" => opa = r.bundle
    /\ r.pc = "push" => r.bundle = Active

\* Outside the steps that move OPA, it agrees with the rows.
InStep == (\A s \in Sessions : request[s].pc \notin Drifting) /\ ~dirty => opa = Active

\* A version not created yet is not active.
Unused == \A k \in Keys, v \in Versions : v > versions[k] => status[k][v] # "active"

RequestsCurrent == \A s \in Sessions : Current(request[s])

AInv == RequestsCurrent /\ InStep /\ Unused

\* Initially nothing is active and OPA is empty.
LEMMA SoleInit == Init => AInv
<1> SUFFICES ASSUME Init PROVE AInv
  OBVIOUS
<1>1. \A s \in Sessions : request[s].pc = "idle"  BY IdleType DEF Init
<1>2. RequestsCurrent  BY <1>1 DEF RequestsCurrent, Current, Deploying, Claiming
<1>3. Unused  BY DEF Init, Unused
<1>4. Active = {}  BY DEF Init, Active
<1>5. InStep  BY <1>4 DEF Init, InStep
<1> QED  BY <1>2, <1>3, <1>5 DEF AInv

\* The bundles depend only on which versions are active.
LEMMA SameBundles ==
    Active' = Active => \A k, v : Bundle(k, v)' = Bundle(k, v)
BY DEF Bundle

\* Equal statuses have equal active versions.
LEMMA SameActive ==
    ASSUME \A k \in Keys, v \in Versions : status'[k][v] = "active" <=> status[k][v] = "active"
    PROVE  Active' = Active
BY DEF Active

\* The steps of the sole session that leave OPA, the active versions and the
\* outcome of the last reconciliation as they are.
LEMMA SoleRequestStep ==
    ASSUME SoleSession, IInv, AInv, NEW s \in Sessions, NEW x \in Request,
           request' = [request EXCEPT ![s] = x],
           Active' = Active, Unused', Current(x)',
           UNCHANGED opa, UNCHANGED dirty,
           x.pc \notin Drifting => request[s].pc \notin Drifting
    PROVE  AInv'
<1>1. request'[s] = x /\ \A t \in Sessions : t = s
  BY DEF SoleSession, IInv, TypeOK
<1>2. RequestsCurrent'
  <2> SUFFICES ASSUME NEW t \in Sessions PROVE Current(request[t])'
    BY DEF RequestsCurrent
  <2>1. request'[t] = x  BY <1>1
  <2> QED  BY <2>1 DEF Current
<1>3. InStep'
  <2> SUFFICES ASSUME x.pc \notin Drifting, ~dirty PROVE opa = Active
    BY <1>1 DEF InStep
  <2> QED  BY <1>1 DEF AInv, InStep
<1> QED  BY <1>2, <1>3 DEF AInv

\* One lemma for each step that a session takes: with nobody else at work,
\* what it read is still so when it writes.
LEMMA SoleReadStep ==
    ASSUME SoleSession, IInv, AInv, NEW s \in Sessions,
           ReadBundle(s) \/ ReadPrior(s) \/ ReadNext(s) \/ Flush(s) \/ ReconcileRead(s)
    PROVE  AInv'
<1> DEFINE r == request[s]
<1>1. /\ r \in Request /\ r.key \in Keys /\ Ranged(r) /\ Current(r) /\ Active' = Active
  BY RequestFacts, SameActive
  DEF ReadBundle, ReadPrior, ReadNext, Flush, ReconcileRead, rows, AInv, RequestsCurrent
<1>2. Unused'
  BY DEF ReadBundle, ReadPrior, ReadNext, Flush, ReconcileRead, rows, AInv, Unused
<1>3. UNCHANGED <<versions, status, opa, dirty>>
  BY DEF ReadBundle, ReadPrior, ReadNext, Flush, ReconcileRead, rows
<1>4. \A k, v : Bundle(k, v)' = Bundle(k, v)  BY <1>1, SameBundles
<1>5. PICK x \in Request :
        /\ request' = [request EXCEPT ![s] = x]
        /\ r.pc \in Drifting => x.pc \in Drifting
        /\ \/ x.pc \in {"idle", "bundle", "reconcile"}
           \/ x.pc = "push" /\ x.bundle = Active
           \/ /\ x.pc \in Deploying \ {"commit"}
              /\ x.ver <= versions[x.key] /\ x.bundle = Bundle(x.key, x.ver)
  <2>0. request' \in [Sessions -> Request] /\ request \in [Sessions -> Request]
    BY ReadBundleStep, ReadPriorStep, ReadNextStep, FlushStep, ReconcileReadStep DEF IInv, TypeOK
  <2>1. CASE ReadBundle(s)
    <3>1. PICK v \in Versions : v = versions[r.key] /\ v <= versions[r.key] /\ v \in 0..MaxVersion
      BY <1>1, <2>1, BoundsAssumption DEF ReadBundle, Ranged, IInv, TypeOK, Versions
    <3>2. Bundle(r.key, v) \in Bundles  BY <1>1, BundleType
    <3>3. CASE LatestStatus(r.key) = "compiled" /\ hash[r.key][v] = Bundle(r.key, v)
      <4>1. PICK b \in Bundles : b = Bundle(r.key, v)  BY <3>2
      <4>2. PICK x : x = [r EXCEPT !.pc = "prior", !.ver = v, !.bundle = b]  OBVIOUS
      <4>3. x \in Request /\ x.pc = "prior" /\ x.key = r.key /\ x.ver = v /\ x.bundle = b
        BY <1>1, <3>1, <4>2 DEF Request
      <4>4. request' = [request EXCEPT ![s] = x]
        BY <2>1, <3>1, <3>3, <4>1, <4>2 DEF ReadBundle
      <4> QED  BY <2>1, <3>1, <4>1, <4>3, <4>4 DEF ReadBundle, Deploying, Claiming, Drifting
    <3>4. CASE ~(LatestStatus(r.key) = "compiled" /\ hash[r.key][v] = Bundle(r.key, v))
      <4>1. request' = [request EXCEPT ![s] = Idle]  BY <2>1, <3>1, <3>4 DEF ReadBundle
      <4> QED  BY <2>1, <4>1, IdleType DEF ReadBundle, Drifting
    <3> QED  BY <3>3, <3>4
  <2>2. CASE ReadPrior(s) \/ ReadNext(s)
    <3>1. PICK x : x = request'[s]  OBVIOUS
    <3>2. request' = [request EXCEPT ![s] = x] /\ x \in Request
      BY <2>0, <2>2, <3>1 DEF ReadPrior, ReadNext
    <3>3. x.pc \in {"next", "flush"} /\ x.key = r.key /\ x.ver = r.ver /\ x.bundle = r.bundle
      <4>1. \/ x = [r EXCEPT !.pc = "next", !.prior = policy.active]
            \/ x = [r EXCEPT !.pc = "flush", !.next = policy.last + 1]
        BY <2>0, <2>2, <3>1 DEF ReadPrior, ReadNext
      <4> QED  BY <1>1, <4>1 DEF Request
    <3> QED
      BY <1>1, <2>2, <3>2, <3>3 DEF ReadPrior, ReadNext, Current, Deploying, Claiming, Drifting
  <2>3. CASE Flush(s)
    <3>1. PICK x : x = request'[s]  OBVIOUS
    <3>2. request' = [request EXCEPT ![s] = x] /\ x \in Request
      BY <2>0, <2>3, <3>1 DEF Flush
    <3>3. /\ x.pc \in {"upload", "bundle", "reconcile"}
          /\ x.key = r.key /\ x.ver = r.ver /\ x.bundle = r.bundle
      <4>1. \/ x = [r EXCEPT !.pc = "upload"]
            \/ x = [r EXCEPT !.pc = "bundle", !.tries = @ + 1]
            \/ x = [r EXCEPT !.pc = "reconcile", !.tries = @ + 1]
        BY <2>0, <2>3, <3>1 DEF Flush
      <4> QED  BY <1>1, <4>1 DEF Request
    <3> QED  BY <1>1, <2>3, <3>2, <3>3 DEF Flush, Current, Deploying, Claiming, Drifting
  <2>4. CASE ReconcileRead(s)
    <3>1. PICK x : x = request'[s]  OBVIOUS
    <3>2. request' = [request EXCEPT ![s] = x] /\ x \in Request
      BY <2>0, <2>4, <3>1 DEF ReconcileRead
    <3>3. x.pc = "push" /\ x.bundle = Active
      BY <1>1, <2>0, <2>4, <3>1 DEF ReconcileRead, Request
    <3> QED  BY <3>2, <3>3 DEF Drifting
  <2> QED  BY <2>1, <2>2, <2>3, <2>4
<1>6. Current(x)'
  BY <1>1, <1>3, <1>4, <1>5 DEF Current, Deploying, Claiming
<1> QED  BY <1>1, <1>2, <1>3, <1>5, <1>6, SoleRequestStep

\* A step that leaves the session idle and OPA with the active versions
LEMMA SoleSettled ==
    ASSUME SoleSession, IInv, NEW s \in Sessions, request' = [request EXCEPT ![s] = Idle],
           Unused', ~dirty' => opa' = Active'
    PROVE  AInv'
<1>1. \A t \in Sessions : request'[t].pc = "idle"
  BY IdleType DEF SoleSession, IInv, TypeOK
<1>2. RequestsCurrent'  BY <1>1 DEF RequestsCurrent, Current, Deploying, Claiming
<1> QED  BY <1>2 DEF AInv, InStep

\* The sole session accepts a lifecycle operation.
LEMMA SoleBeginStep ==
    ASSUME SoleSession, IInv, AInv, NEW s \in Sessions, NEW k \in Keys, NEW op \in Operations,
           Begin(s, k, op) \/ Deploy(s, k)
    PROVE  AInv'
<1>1. Active' = Active /\ Unused'
  BY SameActive DEF Begin, Deploy, rows, AInv, Unused
<1>2. PICK x : x = request'[s]  OBVIOUS
<1>3. request' = [request EXCEPT ![s] = x] /\ x \in Request /\ request[s].pc = "idle"
  BY <1>2, BeginStep, DeployStep DEF Begin, Deploy, IInv, TypeOK
<1>4. Current(x)'
  <2>1. CASE Begin(s, k, op)
    <3>1. x = [Fresh(k, op) EXCEPT !.pc = "write", !.ver = versions[k],
                     !.bundle = IF op = "compile" THEN Bundle(k, versions[k]) ELSE {}]
      BY <1>2, <2>1 DEF Begin, IInv, TypeOK
    <3>2. x.pc = "write" /\ x.key = k /\ x.ver = versions[k] /\ x.op = op
      BY <3>1 DEF Fresh
    <3>3. versions[k] <= versions[k] /\ status[k][versions[k]] \in AllowedFrom(op)
      BY <2>1 DEF Begin, LatestStatus, IInv, TypeOK
    <3> QED  BY <2>1, <3>2, <3>3 DEF Begin, rows, Current, Deploying, Claiming, AllowedFrom
  <2>2. CASE Deploy(s, k)
    <3>1. x = [Fresh(k, "deploy") EXCEPT !.pc = "bundle"]  BY <1>2, <2>2 DEF Deploy, IInv, TypeOK
    <3>2. x.pc = "bundle"  BY <3>1 DEF Fresh
    <3> QED  BY <3>2 DEF Current, Deploying, Claiming
  <2> QED  BY <2>1, <2>2
<1>5. UNCHANGED opa /\ UNCHANGED dirty /\ request[s].pc \notin Drifting
  BY <1>3 DEF Begin, Deploy, Drifting
<1> QED  BY <1>1, <1>3, <1>4, <1>5, SoleRequestStep

\* A new draft makes no version active and leaves none behind.
LEMMA DraftSame ==
    ASSUME IInv, Unused, NEW k \in Keys, AddDraft(k)
    PROVE  Active' = Active /\ Unused' /\ \A j \in Keys : j # k => versions'[j] = versions[j]
<1>1. /\ versions \in [Keys -> 0..MaxVersion]
      /\ status \in [Keys -> [Versions -> RowStatuses]]
      /\ versions[k] + 1 \in Versions
  BY BoundsAssumption DEF IInv, TypeOK, AddDraft, Versions
<1>2. "draft" \in RowStatuses  BY DEF RowStatuses
<1>3. \A j \in Keys, w \in Versions :
         status'[j][w] = IF j = k /\ w = versions[k] + 1 THEN "draft" ELSE status[j][w]
  BY <1>1, <1>2, RowWrite DEF AddDraft
<1>4. status[k][versions[k] + 1] # "active"
  <2>1. versions[k] \in Int /\ versions[k] + 1 > versions[k]  BY <1>1
  <2> QED  BY <1>1, <2>1 DEF Unused
<1>5. \A j \in Keys : versions'[j] = IF j = k THEN versions[k] + 1 ELSE versions[j]
  BY <1>1 DEF AddDraft
<1>6. Active' = Active  BY <1>3, <1>4, SameActive
<1>7. Unused'
  <2> SUFFICES ASSUME NEW j \in Keys, NEW w \in Versions, w > versions'[j]
               PROVE  status'[j][w] # "active"
    BY DEF Unused
  <2>1. w > versions[j]  BY <1>1, <1>5 DEF Versions
  <2> QED  BY <1>3, <2>1 DEF Unused
<1> QED  BY <1>5, <1>6, <1>7

\* The sole session inserts a version.
LEMMA SoleInsertStep ==
    ASSUME SoleSession, IInv, AInv, NEW s \in Sessions, InsertVersion(s)  PROVE AInv'
<1>1. Active' = Active /\ Unused'
  <2>1. CASE AddDraft(request[s].key)  BY <2>1, RequestFacts, DraftSame DEF AInv
  <2>2. CASE UNCHANGED rows  BY <2>2, SameActive DEF rows, AInv, Unused
  <2> QED  BY <2>1, <2>2 DEF InsertVersion
<1>2. ~dirty => opa = Active
  <2>1. \A t \in Sessions : request[t].pc = "write"  BY DEF InsertVersion, SoleSession
  <2> QED  BY <2>1 DEF AInv, InStep, Drifting
<1> QED  BY <1>1, <1>2, SoleSettled DEF InsertVersion

\* A policy is created beside the sole session.
LEMMA SoleCreateStep ==
    ASSUME SoleSession, IInv, AInv, NEW k \in Keys, CreatePolicy(k)  PROVE AInv'
<1>1. /\ Active' = Active /\ Unused' /\ \A j \in Keys : j # k => versions'[j] = versions[j]
  BY DraftSame DEF CreatePolicy, AInv
<1>2. RequestsCurrent'
  <2> SUFFICES ASSUME NEW t \in Sessions PROVE Current(request[t])'
    BY DEF RequestsCurrent
  <2> DEFINE r == request[t]
  <2>1. r \in Request /\ r.key \in Keys /\ Ranged(r) /\ Current(r) /\ request'[t] = r
    BY RequestFacts DEF AInv, RequestsCurrent, CreatePolicy
  <2>2. CASE r.pc = "idle"  BY <2>1, <2>2 DEF Current, Deploying, Claiming
  <2>3. CASE r.pc # "idle"
    <3>1. r.key # k  BY <2>1, <2>3 DEF Ranged, CreatePolicy
    <3>2. versions'[r.key] = versions[r.key] /\ status'[r.key] = status[r.key]
      BY <1>1, <2>1, <3>1 DEF CreatePolicy, AddDraft, IInv, TypeOK
    <3>3. \A j, v : Bundle(j, v)' = Bundle(j, v)  BY <1>1, SameBundles
    <3> QED  BY <1>1, <2>1, <3>2, <3>3 DEF Current, CreatePolicy
  <2> QED  BY <2>2, <2>3
<1>3. InStep'  BY <1>1 DEF CreatePolicy, AInv, InStep
<1> QED  BY <1>1, <1>2, <1>3 DEF AInv

\* Only a retirement takes a version out of the active ones, and it goes on
\* to reconcile.
LEMMA SoleWriteStep ==
    ASSUME SoleSession, IInv, AInv, NEW s \in Sessions, WriteStatus(s)  PROVE AInv'
<1> DEFINE r == request[s]
<1>1. /\ r \in Request /\ r.key \in Keys /\ r.ver \in Versions /\ r.pc = "write"
      /\ r.op \in {"submit", "approve", "reject", "compile", "archive", "retire"}
      /\ status[r.key][r.ver] \in AllowedFrom(r.op)
  BY RequestFacts DEF WriteStatus, Ranged, AllOperations, AInv, RequestsCurrent, Current
<1>2. StatusAfter(r.op) \in RowStatuses \ {"active"}
  BY <1>1 DEF StatusAfter, RowStatuses
<1>3. \A j \in Keys, w \in Versions :
         status'[j][w] = IF j = r.key /\ w = r.ver THEN StatusAfter(r.op) ELSE status[j][w]
  BY <1>1, <1>2, RowWrite DEF IInv, TypeOK, WriteStatus
<1>4. Unused'
  BY <1>2, <1>3 DEF WriteStatus, AInv, Unused
<1>5. CASE r.op = "retire"
  <2>1. request' = [request EXCEPT ![s] = [r EXCEPT !.pc = "reconcile"]]  BY <1>5 DEF WriteStatus
  <2>2. \A t \in Sessions : request'[t].pc = "reconcile"
    <3>1. [r EXCEPT !.pc = "reconcile"].pc = "reconcile"  BY <1>1 DEF Request
    <3> QED  BY <2>1, <3>1 DEF SoleSession, IInv, TypeOK
  <2> QED
    BY <1>4, <2>2 DEF AInv, InStep, RequestsCurrent, Current, Deploying, Claiming, Drifting
<1>6. CASE r.op # "retire"
  <2>1. status[r.key][r.ver] # "active"  BY <1>1, <1>6 DEF AllowedFrom
  <2>2. Active' = Active  BY <1>2, <1>3, <2>1, SameActive
  <2>3. ~dirty => opa = Active
    <3>1. \A t \in Sessions : request[t].pc = "write"  BY <1>1 DEF SoleSession
    <3> QED  BY <3>1 DEF AInv, InStep, Drifting
  <2> QED  BY <1>4, <1>6, <2>2, <2>3, SoleSettled DEF WriteStatus
<1> QED  BY <1>5, <1>6

\* The sole session uploads its bundle.
LEMMA SoleUploadStep ==
    ASSUME SoleSession, IInv, AInv, NEW s \in Sessions, Upload(s)  PROVE AInv'
<1> DEFINE r == request[s]
<1>1. /\ r \in Request /\ r.pc = "upload" /\ r.ver <= versions[r.key]
      /\ r.bundle = Bundle(r.key, r.ver)
  BY RequestFacts DEF Upload, AInv, RequestsCurrent, Current, Deploying, Claiming
<1>2. request'[s] = [r EXCEPT !.pc = "commit", !.replaces = ActiveVersion(r.key)]
  BY DEF Upload, IInv, TypeOK
<1>3. /\ request'[s].pc = "commit" /\ request'[s].key = r.key /\ request'[s].ver = r.ver
      /\ request'[s].bundle = r.bundle
  BY <1>1, <1>2 DEF Request
<1>4. Active' = Active /\ Unused'  BY SameActive DEF Upload, rows, AInv, Unused
<1>5. \A j, v : Bundle(j, v)' = Bundle(j, v)  BY <1>4, SameBundles
<1>6. Current(request[s])'
  BY <1>1, <1>3, <1>5 DEF Upload, rows, Current, Claiming
<1>7. \A t \in Sessions : t = s  BY DEF SoleSession
<1> QED  BY <1>3, <1>4, <1>6, <1>7 DEF AInv, RequestsCurrent, InStep, Drifting

\* The bundle uploaded is exactly what the commit makes active.
LEMMA CommittedActive ==
    ASSUME IInv, AInv, NEW s \in Sessions, request[s].pc = "commit", Committed(s), UNCHANGED versions
    PROVE  Active' = request[s].bundle /\ Unused'
<1> DEFINE r == request[s]
<1>1. /\ r.key \in Keys /\ r.ver \in Versions /\ r.ver <= versions[r.key]
      /\ r.bundle = Bundle(r.key, r.ver)
  BY RequestFacts DEF Ranged, AInv, RequestsCurrent, Current, Deploying, Claiming
<1>2. /\ \A k \in Keys, v \in Versions :
            status'[k][v] = IF k # r.key THEN status[k][v]
                            ELSE IF v = r.ver THEN "active"
                            ELSE IF v = r.replaces THEN "retired"
                            ELSE status[k][v]
      /\ \A k \in Keys, v \in Versions : status'[k][v] = "active" =>
            IF k = r.key THEN v = r.ver ELSE status[k][v] = "active"
  BY CommittedRows
<1>3. \A k \in Keys, v \in Versions :
         status'[k][v] = "active" <=> IF k = r.key THEN v = r.ver ELSE status[k][v] = "active"
  BY <1>2
<1>4. Active' = r.bundle
  BY <1>1, <1>3 DEF Active, Bundle
<1>5. Unused'
  <2> SUFFICES ASSUME NEW k \in Keys, NEW v \in Versions, v > versions[k]
               PROVE  status'[k][v] # "active"
    BY DEF Unused
  <2>1. CASE k = r.key
    <3>1. v # r.ver
      <4>1. v \in Int /\ r.ver \in Int /\ versions[k] \in Int
        BY <1>1 DEF Versions, IInv, TypeOK
      <4> QED  BY <1>1, <2>1, <4>1
    <3> QED  BY <1>3, <2>1, <3>1
  <2>2. CASE k # r.key  BY <1>3, <2>2 DEF AInv, Unused
  <2> QED  BY <2>1, <2>2
<1> QED  BY <1>4, <1>5

\* The sole session commits its deployment.
LEMMA SoleCommitStep ==
    ASSUME SoleSession, IInv, AInv, NEW s \in Sessions, CommitDeploy(s)  PROVE AInv'
<1>1. Active' = request[s].bundle /\ Unused'  BY CommittedActive DEF CommitDeploy
<1>2. opa' = request[s].bundle  BY DEF CommitDeploy, AInv, RequestsCurrent, Current
<1> QED  BY <1>1, <1>2, SoleSettled DEF CommitDeploy

\* The sole session's deployment fails.
LEMMA SoleFailStep ==
    ASSUME SoleSession, IInv, AInv, NEW s \in Sessions, DeployFails(s)  PROVE AInv'
<1>1. Unused'
  <2>1. CASE UNCHANGED status  BY <2>1 DEF DeployFails, AInv, Unused
  <2>2. CASE request[s].pc = "commit" /\ Committed(s)  BY <2>2, CommittedActive DEF DeployFails
  <2> QED  BY <2>1, <2>2 DEF DeployFails
<1>2. \A t \in Sessions : request'[t].pc = "reconcile"
  <2>1. [request[s] EXCEPT !.pc = "reconcile"].pc = "reconcile"  BY RequestFacts DEF Request
  <2> QED  BY <2>1 DEF DeployFails, SoleSession, IInv, TypeOK
<1> QED
  BY <1>1, <1>2 DEF AInv, InStep, RequestsCurrent, Current, Deploying, Claiming, Drifting

\* The sole session reconciles OPA.
LEMMA SoleReconcileStep ==
    ASSUME SoleSession, IInv, AInv, NEW s \in Sessions, ReconcilePush(s) \/ ReconcileFails(s)
    PROVE  AInv'
<1>1. Active' = Active /\ Unused'
  BY SameActive DEF ReconcilePush, ReconcileFails, rows, AInv, Unused
<1>2. ~dirty' => opa' = Active
  BY DEF ReconcilePush, ReconcileFails, AInv, RequestsCurrent, Current
<1> QED  BY <1>1, <1>2, SoleSettled DEF ReconcilePush, ReconcileFails

\* A restart leaves OPA reconciled, or the failure on record.
LEMMA SoleRestartStep == IInv /\ AInv /\ Restart => AInv'
<1> SUFFICES ASSUME IInv, AInv, Restart PROVE AInv'
  OBVIOUS
<1>1. \A t \in Sessions : request'[t].pc = "idle"  BY IdleType DEF Restart
<1>2. Active' = Active /\ Unused'  BY SameActive DEF Restart, rows, AInv, Unused
<1>3. RequestsCurrent'  BY <1>1 DEF RequestsCurrent, Current, Deploying, Claiming
<1>4. InStep'  BY <1>2 DEF Restart, InStep
<1> QED  BY <1>2, <1>3, <1>4 DEF AInv

\* Nothing AInv speaks of changes.
LEMMA SoleOtherStep ==
    ASSUME AInv, UNCHANGED <<versions, status, opa, request, dirty>>
    PROVE  AInv'
<1>1. Active' = Active  BY SameActive
<1>2. \A j, v : Bundle(j, v)' = Bundle(j, v)  BY <1>1, SameBundles
<1> QED  BY <1>1, <1>2 DEF AInv, RequestsCurrent, Current, InStep, Unused

\* With one session, AInv is inductive relative to IInv.
LEMMA SoleInductive == ASSUME SoleSession, IInv, AInv, [Next]_vars PROVE AInv'
<1>1. CASE \E k \in Keys : CreatePolicy(k)  BY <1>1, SoleCreateStep
<1>2. CASE \E s \in Sessions, k \in Keys, op \in Operations :
             Begin(s, k, op) \/ (op = "deploy" /\ Deploy(s, k))
  BY <1>2, SoleBeginStep
<1>3. CASE \E s \in Sessions : Progress(s) \/ DeployFails(s) \/ ReconcileFails(s)
  BY <1>3, SoleInsertStep, SoleWriteStep, SoleReadStep, SoleUploadStep, SoleCommitStep,
     SoleFailStep, SoleReconcileStep
  DEF Progress
<1>4. CASE \E d \in Deciders : ReadActivePolicy(d) \/ QueryOpa(d) \/ RecordDecision(d)
  BY <1>4, SoleOtherStep DEF ReadActivePolicy, QueryOpa, RecordDecision, rows
<1>5. CASE Restart  BY <1>5, SoleRestartStep
<1>6. CASE OtherOrgDeploys  BY <1>6, SoleOtherStep DEF OtherOrgDeploys, rows
<1>7. CASE UNCHANGED vars  BY <1>7, SoleOtherStep DEF vars, rows
<1> QED  BY <1>1, <1>2, <1>3, <1>4, <1>5, <1>6, <1>7 DEF Next

(* When administrative requests come one at a time, OPA serves exactly the *)
(* active versions whenever none is under way and the last reconciliation  *)
(* did not fail: failed uploads, failed commits and restarts included.     *)
THEOREM EngineAgrees == SoleSession => (Spec => []OpaAgrees)
<1> SUFFICES ASSUME SoleSession PROVE Spec => []OpaAgrees
  OBVIOUS
<1>1. IInv /\ AInv /\ [Next]_vars => AInv'  BY SoleInductive
<1>2. AInv => OpaAgrees  BY DEF AInv, InStep, OpaAgrees, Quiet, Drifting
<1> QED  BY <1>1, <1>2, SoleInit, Invariance, PTL DEF Spec

=============================================================================
