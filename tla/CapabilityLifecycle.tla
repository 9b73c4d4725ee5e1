------------------------- MODULE CapabilityLifecycle -------------------------
(***************************************************************************)
(* From a Decision to the single execution permission it may give rise to: *)
(* human review (resolution_service.resolve_decision), capability issuance *)
(* and online consumption (capability_service), by concurrent sessions,    *)
(* while the organisation, agent, integration identity and enforcement     *)
(* binding a decision depends on change status.                            *)
(*                                                                         *)
(* A session runs one request at a time.  Every SELECT whose result is     *)
(* used later is a step of its own (READ COMMITTED), and so is the commit. *)
(***************************************************************************)
EXTENDS Integers, FiniteSets

CONSTANTS
    Decisions,     \* decisions of one organisation
    Mediated,      \* the decisions of Adapter-mediated intents
    Sessions,      \* concurrent requests
    TTL,           \* DEFAULT_CAPABILITY_TOKEN_TTL_SECONDS, in clock units
    MaxTime,       \* bound on the clock
    NoDecision

ASSUME MediatedAssumption == Mediated \subseteq Decisions
ASSUME TTLAssumption == TTL \in Nat
ASSUME MaxTimeAssumption == MaxTime \in Nat
ASSUME NoDecisionAssumption == NoDecision \notin Decisions

VARIABLES
    outcome,       \* Decision.outcome, written once by submit_intent
    resolution,    \* decision_resolutions (UNIQUE decision_id): its value, or "none"
    reviewed,      \* committed review Evidence rows per decision
    capability,    \* capability_tokens (UNIQUE decision_id)
    granted,       \* verify_and_consume calls that returned success, per decision
    standing,      \* status of the parties a decision depends on
    chainLock,     \* the session holding the organisation's Evidence chain lock
    session,       \* what each session is doing
    clock

vars == <<outcome, resolution, reviewed, capability, granted, standing,
          chainLock, session, clock>>

Parties == {"organization", "agent", "identity", "binding"}

\* The order of the _check_*_active calls, at issuance and at consumption
Checks == <<"organization", "agent", "identity", "binding">>

\* Fault: every decision is treated as an agent-direct one
NumChecksAgentDirect(d) == 2

\* An agent-direct intent has no integration identity and no binding.
NumChecks(d) == IF d \in Mediated THEN 4 ELSE 2

Verdicts == {"approved", "denied"}

NoCapability == [issued |-> FALSE, expires |-> 0, consumed |-> FALSE]
Capability == [issued: BOOLEAN, expires: Nat, consumed: BOOLEAN]

Idle == [pc |-> "idle", on |-> NoDecision, verdict |-> "denied", checked |-> 0,
         ended |-> {}, expires |-> 0]

Session == [pc: {"idle", "review", "append", "issue", "signed", "consume", "update"},
            on: Decisions \cup {NoDecision}, verdict: Verdicts,
            checked: 0..4, ended: SUBSET Parties, expires: Nat]

-----------------------------------------------------------------------------
Init ==
    /\ outcome \in [Decisions -> {"ALLOW", "DENY", "HUMAN_REVIEW"}]
    /\ resolution = [d \in Decisions |-> "none"]
    /\ reviewed = [d \in Decisions |-> 0]
    /\ capability = [d \in Decisions |-> NoCapability]
    /\ granted = [d \in Decisions |-> 0]
    /\ standing = [p \in Parties |-> "active"]
    /\ chainLock = {}
    /\ session = [s \in Sessions |-> Idle]
    /\ clock = 0

dataVars == <<outcome, resolution, reviewed, capability, granted>>

Finish(s) == session' = [session EXCEPT ![s] = Idle]

-----------------------------------------------------------------------------
(* resolve_decision                                                        *)

\* The outcome and "already resolved?" reads, both refusals included: a request
\* they turn away changes nothing.
ReviewCheck(s, d, v) ==
    /\ session[s].pc = "idle"
    /\ outcome[d] = "HUMAN_REVIEW"
    /\ resolution[d] = "none"
    /\ session' = [session EXCEPT ![s] = [Idle EXCEPT !.pc = "review", !.on = d, !.verdict = v]]
    /\ UNCHANGED <<dataVars, standing, chainLock, clock>>

\* append_evidence: waits for the chain lock, then flushes the review Evidence
ReviewAppend(s) ==
    /\ session[s].pc = "review"
    /\ chainLock = {}
    /\ chainLock' = {s}
    /\ session' = [session EXCEPT ![s].pc = "append"]
    /\ UNCHANGED <<dataVars, standing, clock>>

\* Fault: the losing reviewer's Evidence is committed before the conflict
ReviewCommitKeepsEvidence(s) ==
    /\ session[s].pc = "append"
    /\ resolution' = [resolution EXCEPT ![session[s].on] =
                         IF @ = "none" THEN session[s].verdict ELSE @]
    /\ reviewed' = [reviewed EXCEPT ![session[s].on] = @ + 1]
    /\ chainLock' = {}
    /\ Finish(s)
    /\ UNCHANGED <<outcome, capability, granted, standing, clock>>

\* The INSERT of the resolution and the commit.  The UNIQUE constraint refuses
\* a second resolution; the rollback takes the flushed Evidence with it.
ReviewCommit(s) ==
    /\ session[s].pc = "append"
    /\ \/ /\ resolution[session[s].on] = "none"
          /\ resolution' = [resolution EXCEPT ![session[s].on] = session[s].verdict]
          /\ reviewed' = [reviewed EXCEPT ![session[s].on] = @ + 1]
       \/ /\ resolution[session[s].on] # "none"
          /\ UNCHANGED <<resolution, reviewed>>
    /\ chainLock' = {}
    /\ Finish(s)
    /\ UNCHANGED <<outcome, capability, granted, standing, clock>>

-----------------------------------------------------------------------------
(* issue_capability_for_decision / issue_capability_for_reviewed_decision  *)

\* What the two entry points require of the decision
Authorized(d) ==
    \/ outcome[d] = "ALLOW"
    \/ outcome[d] = "HUMAN_REVIEW" /\ resolution[d] = "approved"

\* Entry point and pre-check for an existing capability
IssueCheck(s, d) ==
    /\ session[s].pc = "idle"
    /\ Authorized(d)
    /\ ~capability[d].issued
    /\ session' = [session EXCEPT ![s] = [Idle EXCEPT !.pc = "issue", !.on = d]]
    /\ UNCHANGED <<dataVars, standing, chainLock, clock>>

Checking(s) ==
    /\ session[s].pc \in {"issue", "consume"}
    /\ session[s].checked < NumChecks(session[s].on)

PartyChecked(s) == Checks[session[s].checked + 1]

\* Fault: waits for the party to become active instead of refusing
CheckPartyWaits(s) ==
    /\ Checking(s)
    /\ standing[PartyChecked(s)] = "active"
    /\ session' = [session EXCEPT ![s].checked = @ + 1]
    /\ UNCHANGED <<dataVars, standing, chainLock, clock>>

\* One _check_*_active: a party that is not active ends the request
CheckParty(s) ==
    /\ Checking(s)
    /\ \/ /\ standing[PartyChecked(s)] = "active"
          /\ session' = [session EXCEPT ![s].checked = @ + 1]
       \/ /\ standing[PartyChecked(s)] # "active"
          /\ Finish(s)
    /\ UNCHANGED <<dataVars, standing, chainLock, clock>>

\* issue_capability_token: the expiry is fixed when the token is signed
SignToken(s) ==
    /\ session[s].pc = "issue"
    /\ session[s].checked = NumChecks(session[s].on)
    /\ session' = [session EXCEPT ![s] = [@ EXCEPT !.pc = "signed", !.expires = clock + TTL]]
    /\ UNCHANGED <<dataVars, standing, chainLock, clock>>

\* Fault: the INSERT overwrites the decision's capability instead of failing
IssueCommitUpsert(s) ==
    /\ session[s].pc = "signed"
    /\ capability' = [capability EXCEPT ![session[s].on] =
             [issued |-> TRUE, expires |-> session[s].expires, consumed |-> FALSE]]
    /\ Finish(s)
    /\ UNCHANGED <<outcome, resolution, reviewed, granted, standing, chainLock, clock>>

\* The INSERT; UNIQUE(decision_id) refuses a second capability for the decision
IssueCommit(s) ==
    /\ session[s].pc = "signed"
    /\ \/ /\ ~capability[session[s].on].issued
          /\ capability' = [capability EXCEPT ![session[s].on] =
                   [issued |-> TRUE, expires |-> session[s].expires, consumed |-> FALSE]]
       \/ /\ capability[session[s].on].issued
          /\ UNCHANGED capability
    /\ Finish(s)
    /\ UNCHANGED <<outcome, resolution, reviewed, granted, standing, chainLock, clock>>

-----------------------------------------------------------------------------
(* verify_and_consume_capability                                           *)

\* Row lookup by token hash, signature, claims and expiry.  "ended" remembers,
\* for the properties only, which parties had already been ended for good.
ConsumeVerify(s, d) ==
    /\ session[s].pc = "idle"
    /\ capability[d].issued
    /\ clock <= capability[d].expires
    /\ session' = [session EXCEPT ![s] = [Idle EXCEPT !.pc = "consume", !.on = d,
                      !.ended = {p \in Parties : standing[p] = "ended"}]]
    /\ UNCHANGED <<dataVars, standing, chainLock, clock>>

\* _check_consumption_freshness found every party active
FreshnessDone(s) ==
    /\ session[s].pc = "consume"
    /\ session[s].checked = NumChecks(session[s].on)
    /\ session' = [session EXCEPT ![s].pc = "update"]
    /\ UNCHANGED <<dataVars, standing, chainLock, clock>>

\* UPDATE ... WHERE consumed_at IS NULL, commit, and the test of rowcount
ConsumeCommit(s) ==
    /\ session[s].pc = "update"
    /\ \/ /\ ~capability[session[s].on].consumed
          /\ capability' = [capability EXCEPT ![session[s].on].consumed = TRUE]
          /\ granted' = [granted EXCEPT ![session[s].on] = @ + 1]
       \/ /\ capability[session[s].on].consumed
          /\ UNCHANGED <<capability, granted>>
    /\ Finish(s)
    /\ UNCHANGED <<outcome, resolution, reviewed, standing, chainLock, clock>>

-----------------------------------------------------------------------------
(* The rest of the system.                                                 *)

\* Deactivate, suspend; reactivate, activate; archive, revoke, retire.  Only
\* bindings cannot be paused, and only a deactivated organisation is archived.
Pause(p) ==
    /\ p # "binding"
    /\ standing[p] = "active"
    /\ standing' = [standing EXCEPT ![p] = "paused"]
    /\ UNCHANGED <<dataVars, chainLock, session, clock>>

Resume(p) ==
    /\ standing[p] = "paused"
    /\ standing' = [standing EXCEPT ![p] = "active"]
    /\ UNCHANGED <<dataVars, chainLock, session, clock>>

EndParty(p) ==
    /\ \/ standing[p] = "paused"
       \/ standing[p] = "active" /\ p # "organization"
    /\ standing' = [standing EXCEPT ![p] = "ended"]
    /\ UNCHANGED <<dataVars, chainLock, session, clock>>

\* The worker dies or the request times out: its transaction is rolled back.
Abandon(s) ==
    /\ session[s].pc # "idle"
    /\ Finish(s)
    /\ chainLock' = chainLock \ {s}
    /\ UNCHANGED <<dataVars, standing, clock>>

Tick ==
    /\ clock < MaxTime
    /\ clock' = clock + 1
    /\ UNCHANGED <<dataVars, standing, chainLock, session>>

Step(s) ==
    \/ ReviewCommit(s)
    \/ CheckParty(s)
    \/ SignToken(s)
    \/ IssueCommit(s)
    \/ FreshnessDone(s)
    \/ ConsumeCommit(s)

Next ==
    \/ \E s \in Sessions, d \in Decisions, v \in Verdicts : ReviewCheck(s, d, v)
    \/ \E s \in Sessions, d \in Decisions : IssueCheck(s, d) \/ ConsumeVerify(s, d)
    \/ \E s \in Sessions : ReviewAppend(s) \/ Step(s) \/ Abandon(s)
    \/ \E p \in Parties : Pause(p) \/ Resume(p) \/ EndParty(p)
    \/ Tick

Spec == Init /\ [][Next]_vars

(* A request runs to its end unless its worker dies; PostgreSQL grants the *)
(* chain lock in arrival order.  Nobody is obliged to start a request.     *)
Fairness ==
    \A s \in Sessions : SF_vars(ReviewAppend(s)) /\ WF_vars(Step(s))

FairSpec == Spec /\ Fairness

-----------------------------------------------------------------------------
\* What a decision's permission rests on
DependsOn(d) == IF d \in Mediated THEN Parties ELSE {"organization", "agent"}

(* Every variable has its type; the chain lock has at most one holder.     *)
TypeOK ==
    /\ outcome \in [Decisions -> {"ALLOW", "DENY", "HUMAN_REVIEW"}]
    /\ resolution \in [Decisions -> Verdicts \cup {"none"}]
    /\ reviewed \in [Decisions -> Nat]
    /\ capability \in [Decisions -> Capability]
    /\ granted \in [Decisions -> Nat]
    /\ standing \in [Parties -> {"active", "paused", "ended"}]
    /\ chainLock \in {{}} \cup {{s} : s \in Sessions}
    /\ session \in [Sessions -> Session]
    /\ clock \in Nat

(* A capability exists only for a decision Runtime Authority allowed, or   *)
(* one a reviewer approved: however the review and the two issuance paths  *)
(* interleave, a denied or unresolved review never yields one.             *)
CapabilityJustified ==
    \A d \in Decisions : capability[d].issued =>
        \/ outcome[d] = "ALLOW"
        \/ outcome[d] = "HUMAN_REVIEW" /\ resolution[d] = "approved"

(* verify_and_consume_capability: of all the presentations of a decision's *)
(* token at most one is ever told it succeeded, and exactly then the row   *)
(* is marked consumed.                                                     *)
SingleUse ==
    \A d \in Decisions : granted[d] = IF capability[d].consumed THEN 1 ELSE 0

(* resolve_decision: a resolved decision has exactly one review Evidence   *)
(* row and an unresolved one none, although the Evidence is flushed before *)
(* the UNIQUE constraint decides which reviewer won.                       *)
ReviewEvidenceExact ==
    \A d \in Decisions : reviewed[d] = IF resolution[d] = "none" THEN 0 ELSE 1

(* "created once, immutable, never updated": the first reviewer to commit  *)
(* decides, and no later or concurrent review replaces that resolution.    *)
FirstResolutionStands ==
    [][\A d \in Decisions : resolution[d] # "none" => resolution'[d] = resolution[d]]_vars

(* _check_consumption_freshness: a presentation that begins after a party  *)
(* the decision depends on was archived, revoked or retired never gets as  *)
(* far as the consuming UPDATE, whatever else changes status meanwhile.    *)
EndedPartyNeverUsed ==
    \A s \in Sessions : session[s].pc = "update" =>
        \A p \in session[s].ended :
            p \notin DependsOn(session[s].on)

(* Every request for a review, a capability or a consumption is answered:  *)
(* none waits for ever on the chain lock or on a party's status.           *)
RequestsEnd ==
    \A s \in Sessions : session[s].pc # "idle" ~> session[s].pc = "idle"

-----------------------------------------------------------------------------
(* What a decision's permission promises, in the terms of an observer who  *)
(* sees neither requests nor the database.                                 *)

Basis(d) ==
    IF outcome[d] = "HUMAN_REVIEW"
    THEN [none |-> "open", approved |-> "authorized", denied |-> "refused"][resolution[d]]
    ELSE [ALLOW |-> "authorized", DENY |-> "refused"][outcome[d]]

Permission == INSTANCE SingleUsePermission WITH
    basis <- [d \in Decisions |-> Basis(d)],
    permitted <- {d \in Decisions : capability[d].issued},
    uses <- granted

(* Reviews, issuance and consumption implement the single-use permission:  *)
(* a basis is settled once, a permission needs an authorised basis and is  *)
(* never withdrawn or renewed, and it is used at most once.                *)
ImplementsPermission == Permission!Spec

=============================================================================
