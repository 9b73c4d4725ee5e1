-------------------------- MODULE PolicyGovernance --------------------------
(***************************************************************************)
(* The life of an organisation's RuntimePolicies as their administrators,  *)
(* the schedule sweep and the decision path share it: authoring, review,   *)
(* activation behind the safety checks, schedules, labels, rollback,       *)
(* trusted enterprise facts, and what a live decision makes of them.       *)
(*                                                                         *)
(* A request reads the latest version and checks it, then writes by        *)
(* primary key in a later step; what it does after a commit is a further   *)
(* step.  PolicyDeployment has the deployment itself in detail; here it is *)
(* one step that succeeds or fails.  A policy here also has delegated_by   *)
(* and risk, of its constraints.                                           *)
(***************************************************************************)
EXTENDS PolicyRules

CONSTANTS
    Keys,          \* policy keys
    Policies,      \* what an administrator may write
    KnownScopes,   \* actions recognised whatever is active
    Principals,    \* names a Principal row has
    Inputs,        \* Intents
    Clients,       \* administrators and sweeps
    Deciders,      \* decisions under way
    FactSources, Nonces,
    MaxVersion, MaxSchedules, MaxFaults

VARIABLES
    rows,       \* runtime_policies, per key its versions
    schedules,  \* policy_activation_schedules
    opa,        \* the versions whose Rego OPA serves
    sources,    \* fact_sources: their status
    facts,      \* enterprise_facts about the counterparty
    req,        \* what each client's request is doing
    dec,        \* what each decision is doing
    faults,     \* failures and crashes so far
    history     \* what happened, for the properties

ASSUME GovernanceAssumption ==
    /\ None \notin Keys
    /\ \A p \in Policies : IsPolicy(p)
    /\ \A i \in Inputs : IsInput(i)
    /\ MaxVersion \in Nat \ {0} /\ MaxSchedules \in Nat /\ MaxFaults \in Nat

governing == <<rows, opa, sources, facts>>
govVars == <<rows, schedules, opa, sources, facts, req, dec, faults, history>>

Statuses == {"draft", "pending_review", "approved", "rejected", "compiled", "active", "retired", "archived"}

Row(content) ==
    [status |-> "draft", content |-> content, activated |-> FALSE, labels |-> {},
     rollbackOf |-> 0, hash |-> {}, expired |-> FALSE]

\* ok: how the scheduled action of a sweep ended; seen: the active versions
\* when the safety checks ran; stale: another request wrote to the same key
Idle ==
    [op |-> "none", step |-> "idle", key |-> None, ver |-> 0, arg |-> None, seen |-> {},
     stale |-> FALSE, sched |-> 0, due |-> {}, ok |-> TRUE]

NoDecision == [step |-> "idle", input |-> None, outcome |-> None, matched |-> {}, disturbed |-> FALSE]

GovInit ==
    /\ rows = [k \in Keys |-> << >>]
    /\ schedules = << >>
    /\ opa = {}
    /\ sources = [s \in FactSources |-> "unregistered"]
    /\ facts = {}
    /\ req = [c \in Clients |-> Idle]
    /\ dec = [d \in Deciders |-> NoDecision]
    /\ faults = 0
    /\ history = [approved |-> {}, enforced |-> {}, raced |-> {}, crossed |-> FALSE,
                  contested |-> {}, performed |-> [i \in 1..MaxSchedules |-> 0]]

-----------------------------------------------------------------------------
(* Reads                                                                   *)

\* get_latest
Latest(k) == rows[k][Len(rows[k])]

Active == UNION {{<<k, v>> : v \in {w \in DOMAIN rows[k] : rows[k][w].status = "active"}} : k \in Keys}

\* _other_active_policies
OthersActive(k) == {a \in Active : a[1] # k}

PolicyOf(a) == rows[a[1]][a[2]].content
AsBundle(S) == [a \in S |-> PolicyOf(a)]

\* The bundle a version is compiled to
BundleWith(k) == {<<k, Len(rows[k])>>} \cup OthersActive(k)

\* list_latest_policies(status="active")
LatestActive == {k \in Keys : rows[k] # << >> /\ Latest(k).status = "active"}

\* get_version and rollback_policy's test of it
MayRollBackTo(k, t) ==
    t \in DOMAIN rows[k] /\ (rows[k][t].activated \/ rows[k][t].status = "active")

-----------------------------------------------------------------------------
(* run_safety_checks                                                       *)

\* _check_circular_delegation: some principals each delegate to another of them
Delegations(policies) ==
    {<<p.delegated_by, p.principal>> : p \in {q \in policies : q.delegated_by # None}}
Circular(edges) ==
    \E S \in SUBSET {e[1] : e \in edges} : S # {} /\ \A n \in S : \E m \in S : <<n, m>> \in edges

\* _authority_signature
Signature(p) == <<p.principal, p.action, p.agent, p.resource, p.effect, Conditions(p)>>

\* The candidate is the latest version of k.  Principals named by text need
\* no row of their own (_check_missing_principal).
run_safety_checks(k) ==
    LET p == Latest(k).content
        others == {PolicyOf(a) : a \in OthersActive(k)}
    IN /\ validate(p)
       /\ \A q \in others : Signature(q) # Signature(p)
       /\ p.delegated_by \in {None} \cup Principals \cup {q.principal : q \in others \cup {p}}
       /\ ~Circular(Delegations(others \cup {p}))

\* Fault: an archived policy can be edited
EditableWhenArchived(op) ==
    CASE op \in {"edit", "rollback"} -> Statuses
      [] op = "submit" -> {"draft"}
      [] op \in {"approve", "reject"} -> {"pending_review"}
      [] op = "compile" -> {"approved"}
      [] op \in {"activate", "schedule_activation"} -> {"approved", "compiled"}
      [] op = "deploy" -> {"compiled"}
      [] op \in {"retire", "schedule_retirement", "deprecate", "attest"} -> {"active"}
      [] op = "archive" -> Statuses \ {"active", "archived"}

\* The status each operation demands of the latest version
AllowedFrom(op) ==
    CASE op \in {"edit", "rollback"} -> Statuses \ {"archived"}
      [] op = "submit" -> {"draft"}
      [] op \in {"approve", "reject"} -> {"pending_review"}
      [] op = "compile" -> {"approved"}
      [] op \in {"activate", "schedule_activation"} -> {"approved", "compiled"}
      [] op = "deploy" -> {"compiled"}
      [] op \in {"retire", "schedule_retirement", "deprecate", "attest"} -> {"active"}
      [] op = "archive" -> Statuses \ {"active", "archived"}

Permitted(op, k) ==
    /\ rows[k] # << >> /\ Latest(k).status \in AllowedFrom(op)
    /\ op \in {"activate", "schedule_activation"} => run_safety_checks(k)

-----------------------------------------------------------------------------
(* Requests                                                                *)

\* Whoever else works on k works with what it read before.
Touch(c, k, r) ==
    [d \in Clients |-> IF d = c THEN r
                       ELSE IF req[d].key = k THEN [req[d] EXCEPT !.stale = TRUE]
                       ELSE req[d]]

\* The end of an operation: a sweep goes on to mark its schedule.
End(c, ok) == IF req[c].sched = 0 THEN Idle ELSE [req[c] EXCEPT !.step = "mark", !.ok = ok]

Note(c) == IF req[c].stale THEN history.raced \cup {req[c].key} ELSE history.raced

Perform(i) == [history.performed EXCEPT ![i] = @ + 1]
Performed(c) == IF req[c].sched = 0 THEN history.performed ELSE Perform(req[c].sched)

create_policy(k, content) ==
    /\ rows[k] = << >>
    /\ rows' = [rows EXCEPT ![k] = <<Row(content)>>]
    /\ UNCHANGED <<schedules, opa, sources, facts, req, faults, history>>

\* The step after get_latest and its checks
FirstStep(op, k) ==
    CASE op = "activate" -> IF Latest(k).status = "approved" THEN "compile" ELSE "deploy"
      [] op \in {"compile", "deploy"} -> op
      [] op = "rollback" -> "insert"
      [] OTHER -> "write"

\* The beginning of every operation on a policy.  arg: the new content of an
\* edit, the target of a rollback.
Begin(c, op, k, arg) ==
    /\ req[c].step = "idle"
    /\ Permitted(op, k)
    /\ op = "rollback" => MayRollBackTo(k, arg)
    /\ op \in {"edit", "rollback"} => Len(rows[k]) < MaxVersion
    /\ op \in {"schedule_activation", "schedule_retirement"} => Len(schedules) < MaxSchedules
    /\ req' = [req EXCEPT ![c] =
          [Idle EXCEPT !.op = op, !.step = FirstStep(op, k), !.key = k, !.ver = Len(rows[k]),
                       !.arg = arg, !.seen = Active]]
    /\ UNCHANGED <<rows, schedules, opa, sources, facts, faults, history>>

\* What the commit of a one-step operation makes of the row it read
Written(row, op) ==
    CASE op = "submit" -> [row EXCEPT !.status = "pending_review"]
      [] op = "approve" -> [row EXCEPT !.status = "approved"]
      [] op = "reject" -> [row EXCEPT !.status = "rejected"]
      [] op = "archive" -> [row EXCEPT !.status = "archived"]
      [] op = "retire" -> [row EXCEPT !.status = "retired"]
      [] op = "deprecate" -> [row EXCEPT !.labels = @ \cup {"deprecated"}]
      [] op = "attest" -> [row EXCEPT !.labels = @ \cup {"attested"}]

\* submit_for_review, approve, reject, archive_policy, deprecate_policy,
\* attest_policy and the commit of retire_policy
Write(c) ==
    LET r == req[c] IN
    /\ r.step = "write"
    /\ r.op \in {"submit", "approve", "reject", "archive", "retire", "deprecate", "attest"}
    /\ rows' = [rows EXCEPT ![r.key][r.ver] = Written(@, r.op)]
    /\ req' = Touch(c, r.key, IF r.op = "retire" THEN [r EXCEPT !.step = "reconcile"] ELSE End(c, TRUE))
    /\ history' = [history EXCEPT
          !.raced = Note(c),
          !.approved = IF r.op = "approve" THEN @ \cup {<<r.key, r.ver>>} ELSE @,
          !.performed = IF r.op = "retire" THEN Performed(c) ELSE @]
    /\ UNCHANGED <<schedules, opa, sources, facts, faults>>

\* edit_policy's INSERT.  A version number taken meanwhile is refused
\* (uq_runtime_policy_records_key_version).
edit_policy(c) ==
    LET r == req[c] IN
    /\ r.step = "write" /\ r.op = "edit"
    /\ rows' = IF Len(rows[r.key]) = r.ver THEN [rows EXCEPT ![r.key] = Append(@, Row(r.arg))] ELSE rows
    /\ req' = IF Len(rows[r.key]) = r.ver THEN Touch(c, r.key, Idle) ELSE [req EXCEPT ![c] = Idle]
    /\ history' = [history EXCEPT !.raced = Note(c)]
    /\ UNCHANGED <<schedules, opa, sources, facts, faults>>

\* rollback_policy: edit_policy reads the latest version again; the new
\* version is tagged in a second transaction.
rollback_policy(c) ==
    LET r == req[c]
        target == rows[r.key][r.arg]
    IN
    /\ r.step = "insert"
    /\ IF Permitted("edit", r.key) /\ Len(rows[r.key]) < MaxVersion
       THEN /\ rows' = [rows EXCEPT ![r.key] = Append(@, Row(target.content))]
            /\ req' = Touch(c, r.key, [r EXCEPT !.step = "tag", !.ver = Len(rows[r.key]) + 1])
       ELSE UNCHANGED rows /\ req' = [req EXCEPT ![c] = Idle]
    /\ UNCHANGED <<schedules, opa, sources, facts, faults, history>>

TagRollback(c) ==
    LET r == req[c] IN
    /\ r.step = "tag"
    /\ rows' = [rows EXCEPT ![r.key][r.ver].rollbackOf = r.arg]
    /\ req' = [req EXCEPT ![c] = Idle]
    /\ UNCHANGED <<schedules, opa, sources, facts, faults, history>>

\* compile_policy, on its own or within an activation: the version is the
\* latest one now.
compile_policy(c) ==
    LET r == req[c]
        k == r.key
        bundle == BundleWith(k)
    IN
    /\ r.step = "compile"
    /\ IF Permitted("compile", k) /\ compiles(AsBundle(bundle))
       THEN /\ rows' = [rows EXCEPT ![k][Len(rows[k])] = [@ EXCEPT !.status = "compiled", !.hash = bundle]]
            /\ req' = Touch(c, k, IF r.op = "compile" THEN Idle ELSE [r EXCEPT !.step = "deploy"])
            /\ history' = [history EXCEPT !.raced = Note(c),
                              !.crossed = @ \/ (r.op = "activate" /\ r.seen # Active)]
       ELSE UNCHANGED <<rows, history>> /\ req' = [req EXCEPT ![c] = End(c, FALSE)]
    /\ UNCHANGED <<schedules, opa, sources, facts, faults>>

\* deploy_policy's conditions, on the latest version now
MayDeploy(k) ==
    /\ Permitted("deploy", k) /\ uploads(AsBundle(BundleWith(k)))
    /\ Latest(k).hash = BundleWith(k)

\* deploy_policy: OPA has the bundle, the version is active, the one before
\* it retired.  Deployed directly it has passed no safety check.
deploy_policy(c) ==
    LET r == req[c]
        k == r.key
        v == Len(rows[k])
    IN
    /\ r.step = "deploy"
    /\ IF MayDeploy(k)
       THEN /\ opa' = BundleWith(k)
            /\ rows' = [rows EXCEPT ![k] =
                  [w \in DOMAIN @ |-> IF w = v THEN [@[w] EXCEPT !.status = "active"]
                                      ELSE IF @[w].status = "active" THEN [@[w] EXCEPT !.status = "retired"]
                                      ELSE @[w]]]
            /\ req' = Touch(c, k, IF r.op = "deploy" THEN Idle ELSE [r EXCEPT !.step = "stamp"])
            /\ history' = [history EXCEPT !.raced = Note(c),
                              !.crossed = @ \/ r.op = "deploy" \/ r.stale \/ <<k, v>> \in history.enforced,
                              !.enforced = @ \cup {<<k, v>>}, !.performed = Performed(c)]
       ELSE UNCHANGED <<opa, rows, history>> /\ req' = [req EXCEPT ![c] = End(c, FALSE)]
    /\ UNCHANGED <<schedules, sources, facts, faults>>

\* The end of activate_policy: the latest version, whichever it is now, gets
\* the time of the activation.
StampActivation(c) ==
    LET r == req[c] IN
    /\ r.step = "stamp"
    /\ rows' = [rows EXCEPT ![r.key][Len(rows[r.key])].activated = TRUE]
    /\ req' = Touch(c, r.key, End(c, TRUE))
    /\ history' = [history EXCEPT !.raced = Note(c)]
    /\ UNCHANGED <<schedules, opa, sources, facts, faults>>

\* The end of retire_policy: _reconcile_organization_opa_state
ReconcileOpa(c) ==
    /\ req[c].step = "reconcile"
    /\ opa' = IF uploads(AsBundle(Active)) THEN Active ELSE opa
    /\ req' = [req EXCEPT ![c] = End(c, uploads(AsBundle(Active)))]
    /\ UNCHANGED <<rows, schedules, sources, facts, faults, history>>

\* OPA or the database fails.  A deployment is undone; a retirement is not,
\* and a sweep calls it failed all the same.
Fail(c) ==
    LET r == req[c] IN
    /\ faults < MaxFaults
    /\ r.step \in {"deploy", "reconcile"}
    /\ faults' = faults + 1
    /\ req' = [req EXCEPT ![c] = End(c, FALSE)]
    /\ history' = IF r.step = "reconcile" THEN [history EXCEPT !.contested = @ \cup {r.sched}] ELSE history
    /\ UNCHANGED <<rows, schedules, opa, sources, facts>>

\* The process dies; what it committed stays.
CutOff(c) ==
    LET r == req[c] IN
    /\ faults < MaxFaults
    /\ r.step # "idle"
    /\ faults' = faults + 1
    /\ req' = [req EXCEPT ![c] = Idle]
    /\ history' = [history EXCEPT !.contested = @ \cup {r.sched}]
    /\ UNCHANGED <<rows, schedules, opa, sources, facts>>

-----------------------------------------------------------------------------
(* Schedules                                                               *)

\* schedule_activation and schedule_retirement
RecordSchedule(c) ==
    LET r == req[c] IN
    /\ r.step = "write" /\ r.op \in {"schedule_activation", "schedule_retirement"}
    /\ Len(schedules) < MaxSchedules
    /\ schedules' = Append(schedules,
          [key |-> r.key, version |-> r.ver, status |-> "pending", due |-> FALSE,
           action |-> IF r.op = "schedule_activation" THEN "activate" ELSE "retire"])
    /\ req' = [req EXCEPT ![c] = Idle]
    /\ UNCHANGED <<rows, opa, sources, facts, faults, history>>

BecomesDue(i) ==
    /\ ~schedules[i].due
    /\ schedules' = [schedules EXCEPT ![i].due = TRUE]
    /\ UNCHANGED <<rows, opa, sources, facts, req, faults, history>>

\* cancel_schedule: the read, then the write by primary key
BeginCancel(c, i) ==
    /\ req[c].step = "idle"
    /\ schedules[i].status = "pending"
    /\ req' = [req EXCEPT ![c] = [Idle EXCEPT !.op = "cancel", !.step = "cancel", !.arg = i]]
    /\ UNCHANGED <<rows, schedules, opa, sources, facts, faults, history>>

\* Two requests write the status of one schedule, or a cancelled one has
\* already been taken up.
Contested(c, i) ==
    schedules[i].status # "pending" \/ \E d \in Clients \ {c} : i \in req[d].due \cup {req[d].sched}

cancel_schedule(c) ==
    LET i == req[c].arg IN
    /\ req[c].step = "cancel"
    /\ schedules' = [schedules EXCEPT ![i].status = "cancelled"]
    /\ history' = IF Contested(c, i) THEN [history EXCEPT !.contested = @ \cup {i}] ELSE history
    /\ req' = [req EXCEPT ![c] = Idle]
    /\ UNCHANGED <<rows, opa, sources, facts, faults>>

\* Fault: schedules are taken up again whatever became of them
EveryDue == {i \in DOMAIN schedules : schedules[i].due}

DueSchedules == {i \in DOMAIN schedules : schedules[i].due /\ schedules[i].status = "pending"}

\* process_due_schedules reads what is due once.
process_due_schedules(c) ==
    /\ req[c].step = "idle"
    /\ DueSchedules # {}
    /\ req' = [req EXCEPT ![c] = [Idle EXCEPT !.op = "sweep", !.step = "next", !.due = DueSchedules]]
    /\ UNCHANGED <<rows, schedules, opa, sources, facts, faults, history>>

\* The next schedule: activate_policy or retire_policy on the key's latest
\* version.
TakeUp(c, i) ==
    LET r == req[c]
        k == schedules[i].key
        op == schedules[i].action
        taken == [r EXCEPT !.op = op, !.key = k, !.ver = Len(rows[k]), !.seen = Active,
                           !.stale = FALSE, !.sched = i, !.due = @ \ {i}]
    IN
    /\ r.step = "next" /\ i \in r.due
    /\ req' = [req EXCEPT ![c] = IF Permitted(op, k) THEN [taken EXCEPT !.step = FirstStep(op, k)]
                                 ELSE [taken EXCEPT !.step = "mark", !.ok = FALSE]]
    /\ UNCHANGED <<rows, schedules, opa, sources, facts, faults, history>>

Marked(ok) == IF ok THEN "executed" ELSE "failed"

MarkSchedule(c) ==
    LET r == req[c] IN
    /\ r.step = "mark"
    /\ schedules' = [schedules EXCEPT ![r.sched].status = Marked(r.ok)]
    /\ history' = IF Contested(c, r.sched) THEN [history EXCEPT !.contested = @ \cup {r.sched}] ELSE history
    /\ req' = [req EXCEPT ![c] = [Idle EXCEPT !.op = "sweep", !.step = "next", !.due = r.due]]
    /\ UNCHANGED <<rows, opa, sources, facts, faults>>

SweepDone(c) ==
    /\ req[c].step = "next" /\ req[c].due = {}
    /\ req' = [req EXCEPT ![c] = Idle]
    /\ UNCHANGED <<rows, schedules, opa, sources, facts, faults, history>>

-----------------------------------------------------------------------------
(* fact_service                                                            *)

register_fact_source(s) ==
    /\ sources[s] = "unregistered"
    /\ sources' = [sources EXCEPT ![s] = "active"]
    /\ UNCHANGED <<rows, schedules, opa, facts, req, faults, history>>

revoke_fact_source(s) ==
    /\ sources[s] = "active"
    /\ sources' = [sources EXCEPT ![s] = "revoked"]
    /\ UNCHANGED <<rows, schedules, opa, facts, req, faults, history>>

\* ingest_fact, with a valid signature and a nonce its source has not used
ingest_fact(s, n, f, v) ==
    /\ sources[s] = "active"
    /\ \A x \in facts : <<x.source, x.nonce>> # <<s, n>>
    /\ facts' = facts \cup {[source |-> s, nonce |-> n, key |-> f, value |-> v, expired |-> FALSE]}
    /\ UNCHANGED <<rows, schedules, opa, sources, req, faults, history>>

FactExpires(x) ==
    /\ ~x.expired
    /\ facts' = (facts \ {x}) \cup {[x EXCEPT !.expired = TRUE]}
    /\ UNCHANGED <<rows, schedules, opa, sources, req, faults, history>>

\* authority_expires_at passes; nothing in the program sets it.
AuthorityExpires(k, v) ==
    /\ ~rows[k][v].expired
    /\ rows' = [rows EXCEPT ![k][v].expired = TRUE]
    /\ UNCHANGED <<schedules, opa, sources, facts, req, faults, history>>

\* Fault: what a revoked source said is still believed
TrustRevoked(keys) ==
    LET said == [f \in keys |-> {x.value : x \in {y \in facts : y.key = f /\ ~y.expired}}]
        one == {f \in keys : Cardinality(said[f]) = 1}
    IN IF \E f \in keys : Cardinality(said[f]) > 1 THEN << >> ELSE [f \in one |-> CHOOSE v \in said[f] : TRUE]

\* resolve_facts.  FactConflictError on one key loses them all.
resolve_facts(keys) ==
    LET said == [f \in keys |-> {x.value : x \in {y \in facts :
                                    y.key = f /\ ~y.expired /\ sources[y.source] = "active"}}]
        one == {f \in keys : Cardinality(said[f]) = 1}
    IN IF \E f \in keys : Cardinality(said[f]) > 1 THEN << >> ELSE [f \in one |-> CHOOSE v \in said[f] : TRUE]

-----------------------------------------------------------------------------
(* A live decision                                                         *)

\* list_active_scope_actions
ActiveScopeActions == {Latest(k).content.action : k \in LatestActive}

\* list_enterprise_knowledge_keys_for_active_policies
NeededFacts == FactKeys({Latest(k).content : k \in LatestActive})

Decided(d, outcome) == [dec EXCEPT ![d] = [@ EXCEPT !.step = "decided", !.outcome = outcome]]

\* is_recognized_scope
Recognise(d, input) ==
    /\ dec[d].step = "idle"
    /\ dec' = [dec EXCEPT ![d] =
          IF input.action \in KnownScopes \cup ActiveScopeActions
          THEN [NoDecision EXCEPT !.step = "facts", !.input = input]
          ELSE [NoDecision EXCEPT !.step = "decided", !.input = input, !.outcome = "HUMAN_REVIEW"]]

ResolveFacts(d) ==
    /\ dec[d].step = "facts"
    /\ dec' = [dec EXCEPT ![d] = [@ EXCEPT !.step = "query",
                                          !.input = WithFacts(dec[d].input, resolve_facts(NeededFacts))]]

\* decision_engine.evaluate
Query(d) ==
    LET input == dec[d].input
        outcome == evaluate(AsBundle(opa), input, FALSE)
    IN
    /\ dec[d].step = "query"
    /\ dec' = [dec EXCEPT ![d] = [@ EXCEPT !.step = IF outcome = "ALLOW" THEN "freshness" ELSE "decided",
                                          !.outcome = outcome, !.matched = Evaluated(AsBundle(opa), input)]]

\* find_expired_high_risk_authority: the key's active version, not the one OPA
\* evaluated
Freshness(d) ==
    LET overdue == \E a \in Active : /\ a[1] \in {m[1] : m \in dec[d].matched}
                                     /\ PolicyOf(a).risk = "high"
                                     /\ rows[a[1]][a[2]].expired
    IN
    /\ dec[d].step = "freshness"
    /\ dec' = Decided(d, IF overdue THEN "HUMAN_REVIEW" ELSE "ALLOW")

Record(d) ==
    /\ dec[d].step = "decided"
    /\ dec' = [dec EXCEPT ![d] = NoDecision]

-----------------------------------------------------------------------------
ClientStep(c) ==
    \/ Write(c) \/ edit_policy(c) \/ rollback_policy(c) \/ TagRollback(c)
    \/ compile_policy(c) \/ deploy_policy(c) \/ StampActivation(c) \/ ReconcileOpa(c)
    \/ Fail(c) \/ CutOff(c)
    \/ RecordSchedule(c) \/ cancel_schedule(c)
    \/ \E i \in req[c].due : TakeUp(c, i)
    \/ MarkSchedule(c) \/ SweepDone(c)

FactStep ==
    \/ \E s \in FactSources : register_fact_source(s) \/ revoke_fact_source(s)
    \/ \E s \in FactSources, n \in Nonces, f \in Facts, v \in Values : ingest_fact(s, n, f, v)
    \/ \E x \in facts : FactExpires(x)

Decide(d) ==
    \/ \E input \in Inputs : Recognise(d, input)
    \/ ResolveFacts(d) \/ Query(d) \/ Freshness(d) \/ Record(d)

\* A decision under way notices nothing of what changes meanwhile.
Unnoticed ==
    dec' = [d \in Deciders |-> IF dec[d].step # "idle" /\ governing' # governing
                               THEN [dec[d] EXCEPT !.disturbed = TRUE] ELSE dec[d]]

Operations ==
    {"edit", "rollback", "submit", "approve", "reject", "compile", "activate", "deploy", "retire", "archive",
     "deprecate", "attest", "schedule_activation", "schedule_retirement"}

Argument(op) == IF op = "edit" THEN Policies ELSE IF op = "rollback" THEN 1..MaxVersion ELSE {None}

GovStep ==
    \/ \E k \in Keys, p \in Policies : create_policy(k, p)
    \/ \E c \in Clients, k \in Keys, op \in Operations : \E arg \in Argument(op) : Begin(c, op, k, arg)
    \/ \E c \in Clients : ClientStep(c) \/ process_due_schedules(c)
    \/ \E i \in DOMAIN schedules : BecomesDue(i) \/ \E c \in Clients : BeginCancel(c, i)
    \/ FactStep
    \/ \E k \in Keys : \E v \in DOMAIN rows[k] : AuthorityExpires(k, v)

GovNext ==
    \/ GovStep /\ Unnoticed
    \/ (\E d \in Deciders : Decide(d)) /\ UNCHANGED <<rows, schedules, opa, sources, facts, req, faults, history>>

GovSpec == GovInit /\ [][GovNext]_govVars

-----------------------------------------------------------------------------
(* Every variable has its type: requests work on versions that exist, and  *)
(* a schedule has a status its table knows.                                *)
GovTypeOK ==
    /\ \A k \in Keys : /\ Len(rows[k]) <= MaxVersion
                       /\ \A v \in DOMAIN rows[k] : /\ rows[k][v].status \in Statuses
                                                    /\ rows[k][v].rollbackOf \in 0..(v - 1)
    /\ \A i \in DOMAIN schedules :
          /\ schedules[i].status \in {"pending", "executed", "failed", "cancelled"}
          /\ schedules[i].version \in DOMAIN rows[schedules[i].key]
    /\ \A a \in opa : a[2] \in DOMAIN rows[a[1]]
    /\ \A c \in Clients : req[c].key # None => req[c].ver \in DOMAIN rows[req[c].key]

(* A schedule says what became of it.  Executed means that its activation  *)
(* or retirement took effect, however many sweeps met it, whatever other   *)
(* requests did to the policy, and wherever a sweep was cut off.  That it  *)
(* took effect once, and that anything else means that it did not, takes   *)
(* one sweep at a time, no cancellation of a schedule being executed, no   *)
(* crash between the action and the mark, and a retirement that reaches    *)
(* OPA.                                                                    *)
ScheduleHonest ==
    /\ \A i \in DOMAIN schedules : schedules[i].status = "executed" => history.performed[i] >= 1
    /\ \A i \in DOMAIN schedules \ history.contested :
        /\ schedules[i].status = "executed" => history.performed[i] = 1
        /\ schedules[i].status \in {"failed", "cancelled"} => history.performed[i] = 0
        /\ schedules[i].status = "pending" /\ (\A c \in Clients : req[c].sched # i) => history.performed[i] = 0

(* The timeline tells what was enforced: only versions that were live have *)
(* an activation time, a label or a rollback to them ("any previous ACTIVE *)
(* version"), and only approved versions ever were.  Requests that write   *)
(* what they read before another request changed it are excepted.          *)
HistoryHonest ==
    /\ history.enforced \subseteq history.approved
    /\ \A k \in Keys \ history.raced, v \in 1..MaxVersion : v \in DOMAIN rows[k] =>
          /\ rows[k][v].activated \/ rows[k][v].labels # {} => <<k, v>> \in history.enforced
          /\ rows[k][v].rollbackOf # 0 => <<k, rows[k][v].rollbackOf>> \in history.enforced

(* What the safety checks are for: the active policies never delegate in a *)
(* circle, however activations interleave, since deploy_policy refuses a   *)
(* bundle other than the one compiled.  Excepted are deployments past the  *)
(* safety checks, a change to the active set between an activation's       *)
(* checks and its own compilation, an activation that deploys a version    *)
(* another request wrote after the checks, and a version deployed again    *)
(* after such a request put it back.                                       *)
SafeTogether ==
    ~history.crossed => ~Circular(Delegations({PolicyOf(a) : a \in Active}))

\* The facts every trusted source that says anything agrees on
TrustedValues(f) ==
    {v \in Values : \E x \in facts : x.key = f /\ x.value = v /\ ~x.expired /\ sources[x.source] = "active"}

\* What the active versions and the trusted facts make of an Intent
Rightful(input) ==
    LET given == [input EXCEPT !.data = [f \in Fields |->
                    IF f \notin Facts THEN input.data[f]
                    ELSE IF TrustedValues(f) = {} THEN Absent
                    ELSE CHOOSE v \in TrustedValues(f) : TRUE]]
        deciding == {a \in Active : Matches(PolicyOf(a), given)}
        overdue == \E a \in deciding : PolicyOf(a).risk = "high" /\ rows[a[1]][a[2]].expired
    IN IF input.action \notin KnownScopes \cup {PolicyOf(a).action : a \in Active} \/ Active = {}
       THEN "HUMAN_REVIEW"
       ELSE IF deciding = {} THEN "DENY"
       ELSE LET effect == PolicyOf(CHOOSE a \in deciding : TRUE).effect
            IN CASE effect = "allow" -> IF overdue THEN "HUMAN_REVIEW" ELSE "ALLOW"
                 [] effect = "deny" -> "DENY"
                 [] effect = "require_human_review" -> "HUMAN_REVIEW"

\* Decisions during which nothing changed, with OPA up to date, no fact two
\* sources disagree on, and no boolean beside a number in the active policies
Settled(d) ==
    /\ dec[d].step = "decided" /\ ~dec[d].disturbed
    /\ opa = Active
    /\ \A a, b \in Active : KindsApart(PolicyOf(a), PolicyOf(b))
    /\ \A f \in Facts : Cardinality(TrustedValues(f)) <= 1

\* A newer version hides the active one from list_latest_policies.
Shadowed(k) == \E a \in Active : a[1] = k /\ a[2] # Len(rows[k])

(* A decision is what the active versions, the facts trusted now and the   *)
(* expiry of high-risk authority make it, after any history of versions,   *)
(* facts and sources, as long as every active version is its key's latest. *)
DecisionCurrent ==
    \A d \in Deciders : Settled(d) /\ (\A k \in Keys : ~Shadowed(k)) => dec[d].outcome = Rightful(dec[d].input)

(* "the set of actions any of this organization's currently-active         *)
(* RuntimePolicies actually govern" (list_active_scope_actions): a draft   *)
(* nobody has reviewed changes no live decision.                           *)
DraftHarmless ==
    \A d \in Deciders : Settled(d) => dec[d].outcome = Rightful(dec[d].input)

(* An archived policy is not revived by an edit, a rollback, a schedule or *)
(* an activation under way, unless by a request that read it before it was *)
(* archived.                                                               *)
ArchivedStays ==
    [][\A k \in Keys : rows[k] # << >> /\ Latest(k).status = "archived" /\ k \notin history'.raced
                         => Latest(k)'.status = "archived" /\ Len(rows'[k]) = Len(rows[k])]_govVars

(* What administrators, sweeps and the safety checks leave behind: schedules *)
(* and the timeline say what happened, and what is active was checked        *)
(* together (process_due_schedules, rollback_policy, run_safety_checks).     *)
GovernanceSound == GovTypeOK /\ ScheduleHonest /\ HistoryHonest /\ SafeTogether

=============================================================================
