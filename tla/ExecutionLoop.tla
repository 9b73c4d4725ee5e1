---------------------------- MODULE ExecutionLoop ----------------------------
(***************************************************************************)
(* One external operation from its attestation to its reconciliation.      *)
(*                                                                         *)
(* Clients are processes that use the Python SDK: the Adapter that attests *)
(* the operation, the orchestrator that waits for a review and asks for a  *)
(* Capability, the checkpoints that consume it and run the operation.      *)
(* Their HttpClient resends a request that got no answer; a request that   *)
(* timed out may still reach the server later, and an answer may be lost   *)
(* after the server acted.                                                 *)
(*                                                                         *)
(* Workers are server requests: execution receipts and reconciliation.     *)
(* Their reads and their commit are separate steps (READ COMMITTED).  The  *)
(* commit appends Evidence under the organisation's chain lock, so that    *)
(* append and commit are one step.                                         *)
(*                                                                         *)
(* The capability endpoints are atomic here; CapabilityLifecycle takes     *)
(* them apart, OperationIntake does so for the attestation.                *)
(***************************************************************************)
EXTENDS Integers, Sequences, FiniteSets

CONSTANTS
    Clients,
    Workers,
    MaxAttempts,   \* RetryPolicy.max_retries + 1
    MaxPolls,      \* polls that fit into wait_for_resolution's timeout
    MaxLate,       \* bound: requests of one kind that timed out but still travel
    MaxClock,      \* bound: submitted_at and computed_at
    Destinations,
    ReceiptStatuses,
    NONE

ASSUME BoundsAssumption ==
    MaxAttempts \in Nat \ {0} /\ MaxPolls \in Nat \ {0} /\ MaxLate \in Nat /\ MaxClock \in Nat

VARIABLES
    decision,      \* the operation's Decision and its resolution, or NONE
    active,        \* which of the parties it depends on are active
    assurance,     \* EnforcementBinding.enforcement_assurance
    capability,    \* the Decision's CapabilityToken
    told,          \* what the clients have learnt from answers
    call,          \* what each client is doing
    late,          \* timed-out requests still on their way, by kind
    ran,           \* times the downstream operation was started
    receipts,      \* execution_receipts of the operation
    evidence,      \* Evidence events about it, how many of each (EvidenceChain has their order)
    results,       \* reconciliation_results of the decision, in commit order
    request,       \* what each worker is doing
    overlapped,    \* history: kinds of server request two of which overlapped
    relabelled     \* history: the binding's assurance label was changed

clientVars == <<told, call, late, ran>>
serverVars == <<receipts, evidence, results, request, overlapped>>
recordVars == <<decision, active, assurance, capability, relabelled>>
vars == <<clientVars, serverVars, recordVars>>

Parties == {"organization", "agent", "identity", "binding"}
Outcomes == {"ALLOW", "DENY", "HUMAN_REVIEW"}

\* _TERMINAL_PRECEDENCE, weakest first
Precedence == <<"ACCEPTED", "UNKNOWN", "FAILED", "PARTIALLY_SUCCEEDED", "SUCCEEDED">>

\* _STATUS_TO_OUTCOME
StatusToOutcome ==
    [ACCEPTED |-> "INDETERMINATE", UNKNOWN |-> "INDETERMINATE", FAILED |-> "EXECUTION_FAILED",
     PARTIALLY_SUCCEEDED |-> "PARTIAL", SUCCEEDED |-> "MATCHED"]

Decision == [outcome: Outcomes, resolution: {NONE, "approved", "denied"}]
Receipt == [status: ReceiptStatuses, destination: Destinations, capability: BOOLEAN, at: Nat]
Reconciled == {"MISMATCHED", "RECEIPT_MISSING", "INDETERMINATE", "EXECUTION_FAILED", "PARTIAL", "MATCHED"}
Result == [outcome: Reconciled, capability: BOOLEAN, receipt: ReceiptStatuses \cup {NONE}, at: Nat,
           basis: [consumed: BOOLEAN, statuses: SUBSET ReceiptStatuses]]

ASSUME ValuesAssumption ==
    /\ ReceiptStatuses \subseteq DOMAIN StatusToOutcome
    /\ NONE \notin Decision \cup ReceiptStatuses \cup {"ok", "pending", "refused", "approved", "denied"}

\* The Evidence events of receipts and of reconciliations
Accepted(status) == [event |-> "EXECUTION_RECEIPT_ACCEPTED", of |-> status]
ReconciledAs(outcome) == [event |-> "RECONCILIATION_OUTCOME", of |-> outcome]
Events == {Accepted(s) : s \in ReceiptStatuses} \cup {ReconciledAs(o) : o \in Reconciled}

\* The SDK methods that make an HTTP request
Kinds == {"attest", "get_decision", "request_capability", "verify_capability"}

NoCall == [doing |-> "nothing", attempt |-> 1, answer |-> NONE, polls |-> 0]
Idle == [stage |-> "idle"]

Init ==
    /\ decision = NONE
    /\ active = Parties
    /\ assurance \in {"ADVISORY", "CAPABILITY_REQUIRED"}
    /\ capability = "none"
    /\ told = {}
    /\ call = [c \in Clients |-> NoCall]
    /\ late = [k \in Kinds |-> 0]
    /\ ran = 0
    /\ receipts = {}
    /\ evidence = [e \in Events |-> 0]
    /\ results = << >>
    /\ request = [w \in Workers |-> Idle]
    /\ overlapped = {}
    /\ relabelled = FALSE

-----------------------------------------------------------------------------
(* The endpoints the SDK calls, each as the answer it gives and its write. *)

\* A repeated attestation of the same operation returns the original Decision.
attest(answer) ==
    /\ \/ /\ decision = NONE /\ active = Parties /\ answer = "ok"
          /\ \E o \in Outcomes : decision' = [outcome |-> o, resolution |-> NONE]
       \/ /\ answer = IF decision # NONE THEN "ok" ELSE "refused"
          /\ decision # NONE \/ active # Parties
          /\ UNCHANGED decision
    /\ UNCHANGED capability

Pending == decision.outcome = "HUMAN_REVIEW" /\ decision.resolution = NONE

get_decision(answer) ==
    /\ answer = IF decision = NONE THEN "refused" ELSE IF Pending THEN "pending" ELSE "ok"
    /\ UNCHANGED <<decision, capability>>

\* The preconditions of the two issuing endpoints; also _decision_is_authorized
Authorized ==
    /\ decision # NONE
    /\ \/ decision.outcome = "ALLOW"
       \/ decision.outcome = "HUMAN_REVIEW" /\ decision.resolution = "approved"

\* A token is issued once; a lost answer loses it for good.
request_capability(answer) ==
    /\ \/ /\ Authorized /\ capability = "none" /\ active = Parties
          /\ answer = "ok" /\ capability' = "issued"
       \/ /\ ~Authorized \/ capability # "none" \/ active # Parties
          /\ answer = "refused" /\ UNCHANGED capability
    /\ UNCHANGED decision

\* Fault: consuming again is answered like the first time
VerifyIdempotent(answer) ==
    /\ \/ /\ capability \in {"issued", "consumed"} /\ active = Parties
          /\ answer = "ok" /\ capability' = "consumed"
       \/ /\ capability \notin {"issued", "consumed"} \/ active # Parties
          /\ answer = "refused" /\ UNCHANGED capability
    /\ UNCHANGED decision

verify_capability(answer) ==
    /\ \/ /\ capability = "issued" /\ active = Parties
          /\ answer = "ok" /\ capability' = "consumed"
       \/ /\ capability # "issued" \/ active # Parties
          /\ answer = "refused" /\ UNCHANGED capability
    /\ UNCHANGED decision

Endpoint(kind, answer) ==
    \/ kind = "attest" /\ attest(answer)
    \/ kind = "get_decision" /\ get_decision(answer)
    \/ kind = "request_capability" /\ request_capability(answer)
    \/ kind = "verify_capability" /\ verify_capability(answer)

Answers == {"ok", "pending", "refused"}

-----------------------------------------------------------------------------
(* HttpClient.request and the methods built on it.                         *)

\* What a method needs before it can be called: a decision id, or the token
Needs == [attest |-> {}, get_decision |-> {"decision"}, request_capability |-> {"decision"},
          verify_capability |-> {"token"}]

Learns == [attest |-> {"decision"}, get_decision |-> {}, request_capability |-> {"token"},
           verify_capability |-> {}]

Begin(c, kind) ==
    /\ call[c].doing = "nothing"
    /\ Needs[kind] \subseteq told
    /\ call' = [call EXCEPT ![c] = [NoCall EXCEPT !.doing = kind]]
    /\ UNCHANGED <<told, late, ran, serverVars, recordVars>>

\* The server handles the current attempt.
Handle(c) ==
    /\ call[c].doing \in Kinds
    /\ call[c].answer = NONE
    /\ \E a \in Answers :
          /\ Endpoint(call[c].doing, a)
          /\ call' = [call EXCEPT ![c].answer = a]
    /\ UNCHANGED <<told, late, ran, serverVars, active, assurance, relabelled>>

\* The server handles an attempt its client has given up on.
HandleLate(kind) ==
    /\ late[kind] > 0
    /\ \E a \in Answers : Endpoint(kind, a)
    /\ late' = [late EXCEPT ![kind] = @ - 1]
    /\ UNCHANGED <<told, call, ran, serverVars, active, assurance, relabelled>>

\* wait_for_resolution sleeps and asks again until its deadline.
AfterAnswer(c) ==
    LET r == call[c]
    IN  CASE r.doing = "verify_capability" /\ r.answer = "ok" -> [NoCall EXCEPT !.doing = "downstream"]
          [] r.answer = "pending" /\ r.polls + 1 < MaxPolls ->
                [NoCall EXCEPT !.doing = "get_decision", !.polls = r.polls + 1]
          [] OTHER -> NoCall

Return(c) ==
    /\ call[c].answer # NONE
    /\ told' = IF call[c].answer = "ok" THEN told \cup Learns[call[c].doing] ELSE told
    /\ call' = [call EXCEPT ![c] = AfterAnswer(c)]
    /\ UNCHANGED <<late, ran, serverVars, recordVars>>

\* Fault: the attempts are not counted
RetryForever(c) == [call[c] EXCEPT !.answer = NONE]

\* The next attempt, or NetworkError
NextAttempt(c) ==
    IF call[c].attempt < MaxAttempts
    THEN [call[c] EXCEPT !.attempt = @ + 1, !.answer = NONE]
    ELSE NoCall

\* A connection error, a timeout or a 5xx.  The server may have acted already,
\* may act later, or may never see the request.
NoAnswer(c) ==
    /\ call[c].doing \in Kinds
    /\ call' = [call EXCEPT ![c] = NextAttempt(c)]
    /\ \/ UNCHANGED late
       \/ /\ call[c].answer = NONE
          /\ late[call[c].doing] < MaxLate
          /\ late' = [late EXCEPT ![call[c].doing] = @ + 1]
    /\ UNCHANGED <<told, ran, serverVars, recordVars>>

\* CapabilityEnforcer.enforce, past verify(); run() of the reference adapter
RunDownstream(c) ==
    /\ call[c].doing = "downstream"
    /\ ran' = ran + 1
    /\ call' = [call EXCEPT ![c] = NoCall]
    /\ UNCHANGED <<told, late, serverVars, recordVars>>

\* The client's process dies.
CutOff(c) ==
    /\ call[c] # NoCall
    /\ call' = [call EXCEPT ![c] = NoCall]
    /\ UNCHANGED <<told, late, ran, serverVars, recordVars>>

-----------------------------------------------------------------------------
(* Execution receipts.                                                     *)

SetMax(S) == IF S = {} THEN 0 ELSE CHOOSE n \in S : \A m \in S : m <= n

Busy(stages) == {w \in Workers : request[w].stage \in stages}

\* Later than any of these moments
After(moments) == 1 + SetMax(moments)

Overlap(w, stages) ==
    overlapped' = overlapped \cup
        IF \E v \in Workers \ {w} : request[v].stage \in stages THEN stages ELSE {}

\* _resolve_capability_linkage
CapabilityLinked(claimed) ==
    IF claimed THEN capability = "consumed" ELSE assurance # "CAPABILITY_REQUIRED"

\* _check_destination_consistency: the first receipt establishes it.
DestinationAgrees(status, destination) ==
    \A r \in receipts : (\A q \in receipts : r.at <= q.at) => r.destination = destination

\* The checks and reads of a receipt that reports on this Decision's own
\* identity, binding, action and operation: any other is refused, and so is
\* one that fails a check.  A recorded (operation, status) is answered at once:
\* with the row if the claim is the same, with a conflict if it is not.
submit_execution_receipt(w, status, destination, claimed) ==
    /\ request[w] = Idle
    /\ {"identity", "organization"} \subseteq active
    /\ decision # NONE
    /\ CapabilityLinked(claimed)
    /\ DestinationAgrees(status, destination)
    /\ \A r \in receipts : r.status # status
    /\ LET now == After({r.at : r \in receipts} \cup {request[v].row.at : v \in Busy({"receipt"})})
       IN  /\ now <= MaxClock
           /\ request' = [request EXCEPT ![w] =
                 [stage |-> "receipt",
                  row |-> [status |-> status, destination |-> destination,
                           capability |-> claimed, at |-> now]]]
    /\ Overlap(w, {"receipt"})
    /\ UNCHANGED <<clientVars, receipts, evidence, results, recordVars>>

\* Fault: the Evidence is committed before the row is refused
CommitReceiptKeepsEvidence(w) ==
    /\ request[w].stage = "receipt"
    /\ evidence' = [evidence EXCEPT ![Accepted(request[w].row.status)] = @ + 1]
    /\ receipts' = IF \E r \in receipts : r.status = request[w].row.status
                   THEN receipts ELSE receipts \cup {request[w].row}
    /\ request' = [request EXCEPT ![w] = Idle]
    /\ UNCHANGED <<clientVars, results, overlapped, recordVars>>

\* append_generic_evidence_event, INSERT and commit.  A row of the same status
\* committed meanwhile makes the unique index refuse this one; the rollback
\* takes the Evidence with it, and the other row answers.
CommitReceipt(w) ==
    /\ request[w].stage = "receipt"
    /\ \/ /\ \A r \in receipts : r.status # request[w].row.status
          /\ receipts' = receipts \cup {request[w].row}
          /\ evidence' = [evidence EXCEPT ![Accepted(request[w].row.status)] = @ + 1]
       \/ /\ \E r \in receipts : r.status = request[w].row.status
          /\ UNCHANGED <<receipts, evidence>>
    /\ request' = [request EXCEPT ![w] = Idle]
    /\ UNCHANGED <<clientVars, results, overlapped, recordVars>>

-----------------------------------------------------------------------------
(* Reconciliation.                                                         *)

\* The transaction begins, which fixes computed_at, and reads the decision,
\* its resolution, the binding and the capability.
reconcile_decision(w) ==
    /\ request[w] = Idle
    /\ Authorized
    /\ LET now == After({results[i].at : i \in DOMAIN results} \cup
                         {request[v].at : v \in Busy({"reconcile", "persist"})})
       IN  /\ now <= MaxClock
           /\ request' = [request EXCEPT ![w] =
                 [stage |-> "reconcile", label |-> assurance, exists |-> capability # "none",
                  consumed |-> capability = "consumed", at |-> now]]
    /\ Overlap(w, {"reconcile", "persist"})
    /\ UNCHANGED <<clientVars, receipts, evidence, results, recordVars>>

\* Fault: the last status in the list wins, not the first one found
FirstReported(statuses) ==
    Precedence[CHOOSE i \in DOMAIN Precedence :
        Precedence[i] \in statuses /\ \A j \in DOMAIN Precedence : Precedence[j] \in statuses => i <= j]

\* next(s for s in _TERMINAL_PRECEDENCE if s in by_status)
ChosenStatus(statuses) ==
    Precedence[SetMax({i \in DOMAIN Precedence : Precedence[i] \in statuses})]

Finding(q, statuses) ==
    LET new(outcome, receipt) ==
            [outcome |-> outcome, capability |-> q.exists, receipt |-> receipt, at |-> q.at,
             basis |-> [consumed |-> q.consumed, statuses |-> statuses]]
    IN  IF q.label = "CAPABILITY_REQUIRED" /\ ~q.consumed THEN new("MISMATCHED", NONE)
        ELSE IF statuses = {} THEN new("RECEIPT_MISSING", NONE)
        ELSE new(StatusToOutcome[ChosenStatus(statuses)], ChosenStatus(statuses))

\* _latest_existing_result
Latest == results[CHOOSE i \in DOMAIN results : \A j \in DOMAIN results : results[j].at <= results[i].at]

\* _result_digest
SameDigest(p, q) == p.outcome = q.outcome /\ p.capability = q.capability /\ p.receipt = q.receipt

IsNew(row) == results = << >> \/ ~SameDigest(Latest, row)

\* The receipts and the latest result are read; nothing new is answered with
\* the row there is.
ReadReceipts(w) ==
    /\ request[w].stage = "reconcile"
    /\ LET row == Finding(request[w], {r.status : r \in receipts})
       IN  request' = [request EXCEPT ![w] =
                IF IsNew(row) THEN [stage |-> "persist", row |-> row, at |-> row.at] ELSE Idle]
    /\ UNCHANGED <<clientVars, receipts, evidence, results, overlapped, recordVars>>

PersistResult(w) ==
    /\ request[w].stage = "persist"
    /\ results' = Append(results, request[w].row)
    /\ evidence' = [evidence EXCEPT ![ReconciledAs(request[w].row.outcome)] = @ + 1]
    /\ request' = [request EXCEPT ![w] = Idle]
    /\ UNCHANGED <<clientVars, receipts, overlapped, recordVars>>

\* The server stops before the commit: the transaction is rolled back.
Abandon(w) ==
    /\ request[w] # Idle
    /\ request' = [request EXCEPT ![w] = Idle]
    /\ UNCHANGED <<clientVars, receipts, evidence, results, overlapped, recordVars>>

-----------------------------------------------------------------------------
(* The rest of the system.                                                 *)

\* resolution_service.resolve_decision
resolve_decision(verdict) ==
    /\ decision # NONE /\ Pending
    /\ decision' = [decision EXCEPT !.resolution = verdict]
    /\ UNCHANGED <<clientVars, serverVars, active, assurance, capability, relabelled>>

\* A party is suspended, revoked, retired or deactivated.
PartyEnds(p) ==
    /\ p \in active
    /\ active' = active \ {p}
    /\ UNCHANGED <<clientVars, serverVars, decision, assurance, capability, relabelled>>

set_enforcement_assurance(label) ==
    /\ label # assurance
    /\ assurance' = label
    /\ relabelled' = TRUE
    /\ UNCHANGED <<clientVars, serverVars, decision, active, capability>>

\* DEFAULT_CAPABILITY_TOKEN_TTL_SECONDS have passed.
CapabilityExpires ==
    /\ capability = "issued"
    /\ capability' = "expired"
    /\ UNCHANGED <<clientVars, serverVars, decision, active, assurance, relabelled>>

ClientStep(c) ==
    \/ \E k \in Kinds : Begin(c, k)
    \/ Handle(c) \/ Return(c) \/ NoAnswer(c) \/ RunDownstream(c) \/ CutOff(c)

WorkerStep(w) ==
    \/ \E s \in ReceiptStatuses, d \in Destinations, b \in BOOLEAN :
          submit_execution_receipt(w, s, d, b)
    \/ CommitReceipt(w)
    \/ reconcile_decision(w) \/ ReadReceipts(w) \/ PersistResult(w) \/ Abandon(w)

Environment ==
    \/ \E k \in Kinds : HandleLate(k)
    \/ \E v \in {"approved", "denied"} : resolve_decision(v)
    \/ \E p \in Parties : PartyEnds(p)
    \/ \E l \in {"ADVISORY", "CAPABILITY_REQUIRED"} : set_enforcement_assurance(l)
    \/ CapabilityExpires

Next == (\E c \in Clients : ClientStep(c)) \/ (\E w \in Workers : WorkerStep(w)) \/ Environment

Spec == Init /\ [][Next]_vars

\* What a live client's own process does: requests.Session.request returns or
\* raises within the configured timeout, and the loop goes on.
Proceed(c) == Return(c) \/ NoAnswer(c) \/ RunDownstream(c)

-----------------------------------------------------------------------------
(***************************************************************************)
(* Clients and the server keep to their types: no client makes more than   *)
(* RetryPolicy's attempts or polls, and every result is of a listed kind.  *)
(***************************************************************************)
TypeOK ==
    /\ decision \in Decision \cup {NONE}
    /\ active \subseteq Parties
    /\ assurance \in {"ADVISORY", "CAPABILITY_REQUIRED"}
    /\ capability \in {"none", "issued", "consumed", "expired"}
    /\ told \subseteq {"decision", "token"}
    /\ \A c \in Clients :
          /\ call[c].doing \in Kinds \cup {"nothing", "downstream"}
          /\ call[c].attempt \in 1..MaxAttempts
          /\ call[c].answer \in Answers \cup {NONE}
          /\ call[c].polls \in 0..(MaxPolls - 1)
    /\ late \in [Kinds -> 0..MaxLate]
    /\ receipts \subseteq Receipt
    /\ \A i \in DOMAIN results : results[i] \in Result

(***************************************************************************)
(* Two checkpoints given the same token, attempts resent after a lost      *)
(* answer and attempts that arrive late start the downstream operation at  *)
(* most once (CapabilityEnforcer.enforce; verify_and_consume_capability).  *)
(***************************************************************************)
ExecutedAtMostOnce == ran <= 1

(***************************************************************************)
(* The downstream operation is started only for a Decision that allowed it *)
(* or that a reviewer approved, whatever the clients ask for and however   *)
(* late it reaches the server (enforce; issue_capability_for_...).         *)
(***************************************************************************)
NothingRunsUnauthorised ==
    ran > 0 => decision.outcome = "ALLOW" \/ decision.resolution = "approved"

(***************************************************************************)
(* The execution-receipt Evidence and the recorded receipts tell the same  *)
(* story: one row per status and one event per row, whichever submission   *)
(* lost the race for a status (submit_execution_receipt's rollback).       *)
(***************************************************************************)
ReceiptsMatchEvidence ==
    \A s \in ReceiptStatuses :
        /\ evidence[Accepted(s)] = Cardinality({r \in receipts : r.status = s})
        /\ evidence[Accepted(s)] <= 1

(***************************************************************************)
(* "The first-ever receipt for an operation establishes its destination;   *)
(* every later receipt for that same operation must agree with it."  Two   *)
(* submissions in flight together read no common first receipt.            *)
(***************************************************************************)
DestinationConsistent ==
    "receipt" \notin overlapped => \A p, q \in receipts : p.destination = q.destination

(***************************************************************************)
(* While a binding is declared CAPABILITY_REQUIRED throughout, whatever is *)
(* reported as executed, and whatever reconciles as anything but a         *)
(* mismatch, spent the Decision's one Capability.                          *)
(***************************************************************************)
RequiredMeansSpent ==
    assurance = "CAPABILITY_REQUIRED" /\ ~relabelled =>
        /\ \A r \in receipts : r.capability /\ capability = "consumed"
        /\ \A i \in DOMAIN results :
               results[i].outcome # "MISMATCHED" => capability = "consumed" /\ Authorized

\* How far a result is along the fixed order
Standing(r) ==
    CASE r.outcome = "MISMATCHED" -> 0
      [] r.outcome = "RECEIPT_MISSING" -> 1
      [] OTHER -> 1 + (CHOOSE i \in DOMAIN Precedence : Precedence[i] = r.receipt)

(***************************************************************************)
(* Out-of-order receipts never take a reconciled outcome back: the current *)
(* result (the latest by computed_at) only moves up the fixed precedence,  *)
(* and a row is added only when it says something new, as long as          *)
(* reconciliations do not overlap and the label is left alone.             *)
(***************************************************************************)
OutcomeNeverRegresses ==
    [][results # << >> /\ results' # results /\ "persist" \notin overlapped /\ ~relabelled
         => Standing(Latest') >= Standing(Latest) /\ ~SameDigest(Latest', Latest)]_vars

(***************************************************************************)
(* "Reconciling ... still produces the same result today as it would have  *)
(* the day the Decision was made": results computed from the same          *)
(* capability consumption and the same receipts agree.                     *)
(***************************************************************************)
ReconciledOnTheRecords ==
    \A i, j \in DOMAIN results :
        results[i].basis = results[j].basis => results[i].outcome = results[j].outcome

(***************************************************************************)
(* Every SDK call ends, with an answer or with NetworkError or             *)
(* ResolutionTimeoutError, whatever the server does and even if it never   *)
(* answers again.                                                          *)
(***************************************************************************)
CallsReturn == \A c \in Clients : call[c] # NoCall ~> call[c] = NoCall

(***************************************************************************)
(* The point of the whole loop: however requests are lost, resent and      *)
(* delayed, the operation is started at most once, and only if authorised. *)
(***************************************************************************)
ExecutionSound == TypeOK /\ ExecutedAtMostOnce /\ NothingRunsUnauthorised

(***************************************************************************)
(* What the receipts say: submissions that race leave rows that agree with *)
(* the Evidence, with each other and with what the binding demands.        *)
(***************************************************************************)
ReceiptsSound == ReceiptsMatchEvidence /\ DestinationConsistent /\ RequiredMeansSpent

=============================================================================
