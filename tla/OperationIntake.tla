---------------------------- MODULE OperationIntake ----------------------------
(***************************************************************************)
(* How an intent becomes a decision, once: submit_intent for a request an  *)
(* agent signed itself, submit_attested_intent for one an Adapter signed   *)
(* with its integration identity and an external operation id.             *)
(*                                                                         *)
(* Requests are retried and repeated by callers who lost the answer, so    *)
(* the same request, the same nonce or the same operation may be in two    *)
(* transactions at once.  Each checks its parties one SELECT at a time,    *)
(* inserts the intent (the unique indexes of "intents" make it wait for,   *)
(* or lose to, a colliding row), evaluates it, appends Evidence under the  *)
(* organisation's chain lock and commits intent, decision and Evidence     *)
(* together.  One organisation, integration and environment.               *)
(***************************************************************************)
EXTENDS Integers, Sequences, FiniteSets

CONSTANTS
    Agents,
    Identities,    \* integration identities
    Direct,        \* the signer of a request without an Adapter
    Nonces,
    Operations,    \* external_operation_id
    NoOperation,
    Meanings,      \* what the fingerprint covers besides the agent
    Outcomes,      \* the outcomes an evaluation may have
    Sessions,      \* concurrent requests
    Unstable       \* the parties whose status changes

ASSUME SignersAssumption == Direct \notin Identities
ASSUME OperationsAssumption == NoOperation \notin Operations
ASSUME OutcomesAssumption == "HUMAN_REVIEW" \in Outcomes

VARIABLES
    intents,     \* committed rows of "intents", each with its decision's outcome
    standing,    \* status of the parties a request depends on
    request,     \* what each session is doing
    chainLock    \* the sessions holding the Evidence chain lock

vars == <<intents, standing, request, chainLock>>

Parties == Agents \cup Identities \cup {"organization", "binding"}

Intent == [agent: Agents, nonce: Nonces, signer: Identities \cup {Direct},
           operation: Operations \cup {NoOperation}, meaning: Meanings, outcome: Outcomes]

ASSUME UnstableAssumption == Unstable \subseteq Parties

\* A new row: only an attested intent has an operation
NewIntent == {r \in Intent : /\ r.signer = Direct <=> r.operation = NoOperation
                             /\ r.outcome = "HUMAN_REVIEW"}

\* The transaction has flushed its intent and not yet ended
Pending == {"flushed", "evaluated", "appended"}

Request == [pc: {"checking", "lookup", "flush", "relook", "decided", "conflict", "replay"} \cup Pending,
            intent: Intent, checked: 0..4, suspended: BOOLEAN, ended: SUBSET Parties, answer: Intent]

Idle == [pc |-> "idle"]

-----------------------------------------------------------------------------
\* Fault: an agent-direct request does not look at its organisation
ChecksAgentOnly(r) ==
    IF r.signer = Direct THEN <<r.agent>>
                         ELSE <<r.signer, "organization", "binding", r.agent>>

\* The parties each path reads, in order
Checks(r) ==
    IF r.signer = Direct THEN <<r.agent, "organization">>
                         ELSE <<r.signer, "organization", "binding", r.agent>>

\* A suspended agent may still submit for itself; its intent goes to review.
Passes(r, p) ==
    \/ standing[p] = "active"
    \/ standing[p] = "paused" /\ p = r.agent /\ r.signer = Direct

\* uq_intents_agent_nonce and idx_intents_integration_identity_nonce
SameNonce(q, r) ==
    /\ q.nonce = r.nonce
    /\ q.agent = r.agent \/ (q.signer = r.signer /\ r.signer # Direct)

\* Fault: an operation is identified within its signer's requests only
SameOperationOfSigner(q, r) ==
    q.operation = r.operation /\ r.operation # NoOperation /\ q.signer = r.signer

\* idx_intents_external_operation_scope
SameOperation(q, r) == q.operation = r.operation /\ r.operation # NoOperation

Collide(q, r) == SameNonce(q, r) \/ SameOperation(q, r)

\* Fault: the fingerprint leaves out the agent
SameMeaningOnly(q, r) == q.meaning = r.meaning

\* compute_canonical_operation_fingerprint
SameFingerprint(q, r) == q.agent = r.agent /\ q.meaning = r.meaning

\* find_existing_operation
Existing(r) == {q \in intents : SameOperation(q, r)}

-----------------------------------------------------------------------------
Init ==
    /\ intents = {}
    /\ standing = [p \in Parties |-> "active"]
    /\ request = [s \in Sessions |-> Idle]
    /\ chainLock = {}

Goto(s, pc) == request' = [request EXCEPT ![s] = [@ EXCEPT !.pc = pc]]

\* A signed request arrives, for the first time or not.  "ended" remembers, for
\* the properties only, which parties had already been ended for good.
Submit(s, r) ==
    /\ request[s] = Idle
    /\ request' = [request EXCEPT ![s] =
          [pc |-> "checking", intent |-> r, checked |-> 0, suspended |-> FALSE,
           ended |-> {p \in Parties : standing[p] = "ended"}, answer |-> r]]
    /\ UNCHANGED <<intents, standing, chainLock>>

\* The next party's status; one that does not pass ends the request
CheckParty(s) ==
    LET r == request[s].intent
        p == Checks(r)[request[s].checked + 1]
    IN
    /\ request[s].pc = "checking"
    /\ request[s].checked < Len(Checks(r))
    /\ \/ /\ Passes(r, p)
          /\ request' = [request EXCEPT ![s] =
                [@ EXCEPT !.checked = request[s].checked + 1,
                          !.suspended = request[s].suspended \/ standing[p] = "paused"]]
       \/ /\ ~Passes(r, p)
          /\ request' = [request EXCEPT ![s] = Idle]
    /\ UNCHANGED <<intents, standing, chainLock>>

Admitted(s) ==
    /\ request[s].pc = "checking"
    /\ request[s].checked = Len(Checks(request[s].intent))
    /\ Goto(s, IF request[s].intent.signer = Direct THEN "flush" ELSE "lookup")
    /\ UNCHANGED <<intents, standing, chainLock>>

\* _resolve_existing_or_conflict
Resolve(s) ==
    \E q \in Existing(request[s].intent) :
        request' = [request EXCEPT ![s] =
            [@ EXCEPT !.pc = IF SameFingerprint(q, request[s].intent) THEN "decided" ELSE "conflict",
                      !.answer = q]]

\* The fast path before the insert
LookUp(s) ==
    /\ request[s].pc = "lookup"
    /\ \/ Resolve(s)
       \/ Existing(request[s].intent) = {} /\ Goto(s, "flush")
    /\ UNCHANGED <<intents, standing, chainLock>>

\* The INSERT.  It waits for a transaction whose uncommitted row collides and
\* fails on a committed one: an agent-direct request is then a replay, an
\* attested one is rolled back and looks its operation up again.
Flush(s) ==
    LET r == request[s].intent IN
    /\ request[s].pc = "flush"
    /\ \/ /\ \E q \in intents : Collide(q, r)
          /\ Goto(s, IF r.signer = Direct THEN "replay" ELSE "relook")
       \/ /\ \A q \in intents : ~Collide(q, r)
          /\ \A t \in Sessions : request[t].pc \in Pending => ~Collide(request[t].intent, r)
          /\ Goto(s, "flushed")
    /\ UNCHANGED <<intents, standing, chainLock>>

\* Fault: the failed insert is always taken for a replay
RelookAsReplay(s) ==
    /\ request[s].pc = "relook"
    /\ Goto(s, "replay")
    /\ UNCHANGED <<intents, standing, chainLock>>

Relook(s) ==
    /\ request[s].pc = "relook"
    /\ \/ Resolve(s)
       \/ Existing(request[s].intent) = {} /\ Goto(s, "replay")
    /\ UNCHANGED <<intents, standing, chainLock>>

\* decision_engine.evaluate, or AGENT_SUSPENDED without it
Evaluate(s) ==
    /\ request[s].pc = "flushed"
    /\ \E o \in IF request[s].suspended THEN {"HUMAN_REVIEW"} ELSE Outcomes :
          request' = [request EXCEPT ![s] = [@ EXCEPT !.pc = "evaluated", !.intent.outcome = o]]
    /\ UNCHANGED <<intents, standing, chainLock>>

\* append_evidence waits for the chain lock, which the transaction then holds
AppendEvidence(s) ==
    /\ request[s].pc = "evaluated"
    /\ chainLock = {}
    /\ chainLock' = {s}
    /\ Goto(s, "appended")
    /\ UNCHANGED <<intents, standing>>

Commit(s) ==
    /\ request[s].pc = "appended"
    /\ intents' = intents \cup {request[s].intent}
    /\ chainLock' = {}
    /\ request' = [request EXCEPT ![s] =
          [@ EXCEPT !.pc = "decided", !.answer = request[s].intent]]
    /\ UNCHANGED standing

\* The answer leaves, or is lost
Respond(s) ==
    /\ request[s].pc \in {"decided", "conflict", "replay"}
    /\ request' = [request EXCEPT ![s] = Idle]
    /\ UNCHANGED <<intents, standing, chainLock>>

\* Fault: a lock that outlives the transaction
AbandonKeepsLock(s) ==
    /\ request[s] # Idle
    /\ request' = [request EXCEPT ![s] = Idle]
    /\ UNCHANGED <<intents, standing, chainLock>>

\* The worker dies or the request fails: the transaction is rolled back.
Abandon(s) ==
    /\ request[s] # Idle
    /\ request' = [request EXCEPT ![s] = Idle]
    /\ chainLock' = chainLock \ {s}
    /\ UNCHANGED <<intents, standing>>

\* Suspend or deactivate; activate again; revoke, retire or archive.  A binding
\* cannot be paused, and only a deactivated organisation is archived.
Pause(p) ==
    /\ p # "binding"
    /\ standing[p] = "active"
    /\ standing' = [standing EXCEPT ![p] = "paused"]
    /\ UNCHANGED <<intents, request, chainLock>>

Resume(p) ==
    /\ standing[p] = "paused"
    /\ standing' = [standing EXCEPT ![p] = "active"]
    /\ UNCHANGED <<intents, request, chainLock>>

EndParty(p) ==
    /\ \/ standing[p] = "paused"
       \/ standing[p] = "active" /\ p # "organization"
    /\ standing' = [standing EXCEPT ![p] = "ended"]
    /\ UNCHANGED <<intents, request, chainLock>>

Step(s) ==
    \/ CheckParty(s) \/ Admitted(s) \/ LookUp(s) \/ Relook(s) \/ Evaluate(s)
    \/ Commit(s) \/ Respond(s)

Next ==
    \/ \E s \in Sessions, r \in NewIntent : Submit(s, r)
    \/ \E s \in Sessions : Step(s) \/ Flush(s) \/ AppendEvidence(s) \/ Abandon(s)
    \/ \E p \in Unstable : Pause(p) \/ Resume(p) \/ EndParty(p)

Spec == Init /\ [][Next]_vars

(* A request runs to its end unless its worker dies, and PostgreSQL serves *)
(* those who wait for a row in arrival order.                              *)
Fairness == \A s \in Sessions : SF_vars(Flush(s)) /\ SF_vars(AppendEvidence(s)) /\ WF_vars(Step(s))

FairSpec == Spec /\ Fairness

-----------------------------------------------------------------------------
(* Every variable has its type; the chain lock has at most one holder.     *)
TypeOK ==
    /\ intents \subseteq Intent
    /\ standing \in [Parties -> {"active", "paused", "ended"}]
    /\ request \in [Sessions -> Request \cup {Idle}]
    /\ chainLock \in {{}} \cup {{s} : s \in Sessions}

(* Replay protection: a nonce is accepted once from an agent and once from *)
(* an integration identity, on whichever path and however many copies of   *)
(* the request are in flight.                                              *)
NonceOnce == \A q, r \in intents : SameNonce(q, r) => q = r

(* Operation identity: an external operation is decided once, whatever the *)
(* nonce, the identity or the agent of the requests that name it.          *)
OperationDecidedOnce == \A q, r \in intents :
    q.operation = r.operation /\ q.operation # NoOperation => q = r

(* An answer is a record: the decision a caller is told is committed, and  *)
(* it was made for this caller's agent and meaning, and for its operation, *)
(* also when another, concurrent request made it.                          *)
AnswerIsRecorded ==
    \A s \in Sessions : request[s].pc = "decided" =>
        LET r == request[s].intent
            a == request[s].answer
        IN  a \in intents /\ <<a.agent, a.operation, a.meaning>> = <<r.agent, r.operation, r.meaning>>

(* "Already recorded with different authority-relevant semantics": a       *)
(* conflict is answered only when that is so, and a replay only when the   *)
(* agent or the integration identity has used the nonce: never to a        *)
(* request that merely lost the race for its operation.  The agent counts  *)
(* for attested requests too, since uq_intents_agent_nonce covers their    *)
(* rows: ReplayIsOfThisIdentity is what the code says instead.             *)
RefusalJustified ==
    \A s \in Sessions : LET r == request[s].intent IN
        /\ request[s].pc = "conflict" =>
              \E q \in intents : q.operation = r.operation /\ <<q.agent, q.meaning>> # <<r.agent, r.meaning>>
        /\ request[s].pc = "replay" => \E q \in intents : SameNonce(q, r)

(* "The collision could only have been the (integration_identity_id,       *)
(* nonce) index": an attested request that is answered with a replay comes *)
(* from an integration identity that has used the nonce.                   *)
ReplayIsOfThisIdentity ==
    \A s \in Sessions : LET r == request[s].intent IN
        request[s].pc = "replay" /\ r.signer # Direct =>
            \E q \in intents : q.signer = r.signer /\ q.nonce = r.nonce

(* A request that arrives after its agent, organisation, integration       *)
(* identity or binding was ended never gets its intent inserted.           *)
EndedNeverAdmitted ==
    \A s \in Sessions : request[s].pc \in Pending =>
        LET r == request[s].intent
            parties == IF r.signer = Direct THEN {r.agent, "organization"}
                       ELSE {r.agent, r.signer, "organization", "binding"}
        IN  parties \cap request[s].ended = {}

(* Every request is answered: the waits for a colliding row and for the    *)
(* chain lock never form a cycle.                                          *)
RequestsEnd == \A s \in Sessions : request[s] # Idle ~> request[s] = Idle

===============================================================================
