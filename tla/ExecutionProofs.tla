--------------------------- MODULE ExecutionProofs ---------------------------
(***************************************************************************)
(* Theorems of ExecutionLoop and KeyCustody: the operation runs at most    *)
(* once and only if authorised, receipts agree with Evidence, a reconciled *)
(* outcome never goes back, signed Evidence stays verifiable.              *)
(***************************************************************************)
EXTENDS ExecutionLoop, KeyCustody, FiniteSetTheorems, TLAPS

-----------------------------------------------------------------------------
(* Numbers.  The least number of a set of naturals exists because strict   *)
(* inclusion of the finite sets 0..x is well-founded.                      *)

LEMMA LeastNatural ==
    ASSUME NEW T \in SUBSET Nat, T # {}
    PROVE  \E x \in T : \A y \in T : x <= y
<1> DEFINE F == {0..x : x \in T}
           S == FiniteSubsetsOf(Nat)
           R == StrictSubsetOrdering(Nat)
<1>1. \A x \in T : 0..x \in S  BY FS_Interval DEF FiniteSubsetsOf
<1>2. F \subseteq S /\ F # {}  BY <1>1
<1>3. IsWellFoundedOn(R, S)  BY FS_StrictSubsetOrderingWellFounded
<1>4. \A b, a \in SUBSET Nat : b \subseteq a /\ b # a => <<b, a>> \in R
  BY DEF StrictSubsetOrdering
<1>5. PICK a \in F : \A b \in F : <<b, a>> \notin R
  <2> HIDE DEF F, S, R
  <2> QED  BY <1>2, <1>3, WFMin
<1>6. PICK x \in T : a = 0..x  OBVIOUS
<1>7. ASSUME NEW y \in T, y < x  PROVE FALSE
  <2>1. 0..y \subseteq 0..x /\ x \in 0..x /\ x \notin 0..y  BY <1>7
  <2>2. <<0..y, a>> \in R  BY <1>4, <1>6, <2>1
  <2> QED  BY <1>5, <2>2
<1> QED  BY <1>7

LEMMA GreatestNatural ==
    ASSUME NEW T \in SUBSET Nat, T # {}, NEW n \in Nat, \A x \in T : x <= n
    PROVE  \E x \in T : \A y \in T : y <= x
<1> DEFINE U == {n - x : x \in T}
<1>1. U \in SUBSET Nat
  <2>1. \A x \in T : n - x \in Nat  OBVIOUS
  <2> QED  BY <2>1
<1>2. U # {}  OBVIOUS
<1>3. PICK u \in U : \A v \in U : u <= v
  <2> HIDE DEF U
  <2> QED  BY <1>1, <1>2, LeastNatural
<1>4. PICK x \in T : u = n - x  OBVIOUS
<1>5. \A y \in T : n - x <= n - y  BY <1>3, <1>4
<1> QED  BY <1>5

LEMMA SetMaxGreatest ==
    ASSUME NEW T \in SUBSET Nat, NEW n \in Nat, \A x \in T : x <= n
    PROVE  /\ SetMax(T) \in Nat
           /\ \A x \in T : x <= SetMax(T)
           /\ T # {} => SetMax(T) \in T
<1>1. CASE T = {}  BY <1>1 DEF SetMax
<1>2. CASE T # {}
  <2>1. \E x \in T : \A y \in T : y <= x  BY <1>2, GreatestNatural
  <2>2. SetMax(T) = CHOOSE x \in T : \A y \in T : y <= x  BY <1>2 DEF SetMax
  <2>3. SetMax(T) \in T /\ \A y \in T : y <= SetMax(T)  BY <2>1, <2>2
  <2> QED  BY <2>3
<1> QED  BY <1>1, <1>2

\* After(moments) is later than all of them.
LEMMA AfterLater ==
    ASSUME NEW T \in SUBSET Nat, NEW n \in Nat, \A x \in T : x <= n
    PROVE  After(T) \in Nat /\ \A x \in T : x < After(T)
<1>1. SetMax(T) \in Nat /\ \A x \in T : x <= SetMax(T)  BY SetMaxGreatest
<1> QED  BY <1>1 DEF After

-----------------------------------------------------------------------------
(* Types, with the shape of every call and request.                        *)

CallRecord ==
    [doing : Kinds \cup {"nothing", "downstream"}, attempt : 1..MaxAttempts,
     answer : Answers \cup {NONE}, polls : 0..(MaxPolls - 1)]

Labels == {"ADVISORY", "CAPABILITY_REQUIRED"}

ReceiptRequest == [stage : {"receipt"}, row : Receipt]
ReconcileRequest ==
    [stage : {"reconcile"}, label : Labels, exists : BOOLEAN, consumed : BOOLEAN, at : Nat]
PersistRequest == [stage : {"persist"}, row : Result, at : Nat]

ClientTypes ==
    /\ told \subseteq {"decision", "token"}
    /\ call \in [Clients -> CallRecord]
    /\ \A c \in Clients : call[c].answer # NONE => call[c].doing \in Kinds
    /\ late \in [Kinds -> 0..MaxLate]
    /\ ran \in Nat

RecordTypes ==
    /\ decision \in Decision \cup {NONE}
    /\ active \subseteq Parties
    /\ assurance \in Labels
    /\ capability \in {"none", "issued", "consumed", "expired"}
    /\ relabelled \in BOOLEAN

ServerTypes ==
    /\ receipts \subseteq Receipt
    /\ \A r \in receipts : r.at <= MaxClock
    /\ evidence \in [Events -> Nat]
    /\ results \in Seq(Result)
    /\ \A i \in DOMAIN results : results[i].at <= MaxClock
    /\ request \in [Workers -> {Idle} \cup ReceiptRequest \cup ReconcileRequest \cup PersistRequest]
    /\ \A w \in Workers :
          /\ request[w].stage = "receipt" => request[w].row.at <= MaxClock
          /\ request[w].stage \in {"reconcile", "persist"} => request[w].at <= MaxClock
          /\ request[w].stage = "persist" => request[w].row.at = request[w].at
    /\ overlapped \subseteq {"receipt", "reconcile", "persist"}

Types == ClientTypes /\ RecordTypes /\ ServerTypes

\* A request is one of its shapes, told apart by the stage.
LEMMA RequestShape ==
    ASSUME ServerTypes, NEW w \in Workers
    PROVE  /\ request[w].stage \in {"idle", "receipt", "reconcile", "persist"}
           /\ request[w].stage = "idle" <=> request[w] = Idle
           /\ request[w].stage = "receipt" => request[w] \in ReceiptRequest
           /\ request[w].stage = "reconcile" => request[w] \in ReconcileRequest
           /\ request[w].stage = "persist" => request[w] \in PersistRequest
  BY DEF ServerTypes, Idle, ReceiptRequest, ReconcileRequest, PersistRequest

LEMMA TypesImplied == Types => TypeOK
<1> SUFFICES ASSUME Types PROVE TypeOK  OBVIOUS
<1>1. \A c \in Clients : call[c] \in CallRecord  BY DEF Types, ClientTypes
<1>2. \A i \in DOMAIN results : results[i] \in Result  BY DEF Types, ServerTypes
<1> QED  BY <1>1, <1>2 DEF Types, ClientTypes, RecordTypes, ServerTypes, TypeOK, CallRecord, Labels

LEMMA InitTypes == Init => Types
<1> SUFFICES ASSUME Init PROVE Types  OBVIOUS
<1>1. ClientTypes
  BY BoundsAssumption DEF Init, ClientTypes, CallRecord, NoCall, Answers
<1>2. RecordTypes  BY DEF Init, RecordTypes, Labels
<1>3. ServerTypes  BY DEF Init, ServerTypes, Idle
<1> QED  BY <1>1, <1>2, <1>3 DEF Types

\* The endpoints keep the decision's and the capability's types.
LEMMA EndpointTypes ==
    ASSUME RecordTypes, NEW kind \in Kinds, NEW a \in Answers, Endpoint(kind, a)
    PROVE  /\ decision' \in Decision \cup {NONE}
           /\ capability' \in {"none", "issued", "consumed", "expired"}
<1>1. CASE attest(a)  BY <1>1 DEF attest, RecordTypes, Decision
<1>2. CASE get_decision(a)  BY <1>2 DEF get_decision, RecordTypes
<1>3. CASE request_capability(a)  BY <1>3 DEF request_capability, RecordTypes
<1>4. CASE verify_capability(a)  BY <1>4 DEF verify_capability, RecordTypes
<1> QED  BY <1>1, <1>2, <1>3, <1>4 DEF Endpoint

LEMMA ClientTypesStep ==
    ASSUME Types, NEW c \in Clients, ClientStep(c)
    PROVE  Types'
<1> USE DEF Types
<1>0. call[c] \in CallRecord /\ NoCall \in CallRecord
  BY BoundsAssumption DEF ClientTypes, CallRecord, NoCall, Answers
<1>1. ASSUME NEW k \in Kinds, Begin(c, k) PROVE Types'
  <2>1. [NoCall EXCEPT !.doing = k] \in CallRecord /\ [NoCall EXCEPT !.doing = k].doing = k
    BY <1>0 DEF CallRecord, NoCall
  <2> QED  BY <1>1, <2>1 DEF Begin, ClientTypes, RecordTypes, ServerTypes, serverVars, recordVars
<1>2. CASE Handle(c)
  <2>1. PICK a \in Answers : Endpoint(call[c].doing, a) /\ call' = [call EXCEPT ![c].answer = a]
    BY <1>2 DEF Handle
  <2>2. [call[c] EXCEPT !.answer = a] \in CallRecord /\ call[c].doing \in Kinds
    BY <1>0, <1>2 DEF CallRecord, Handle
  <2>3. RecordTypes'  BY <1>2, <2>1, <2>2, EndpointTypes DEF RecordTypes, Handle
  <2>4. ClientTypes'  BY <1>2, <2>1, <2>2 DEF ClientTypes, Handle, CallRecord
  <2> QED  BY <1>2, <2>3, <2>4 DEF Handle, ServerTypes, serverVars
<1>3. CASE Return(c)
  <2>1. AfterAnswer(c) \in CallRecord /\ AfterAnswer(c).answer = NONE
    <3>1. call[c].polls \in 0..(MaxPolls - 1)  BY <1>0 DEF CallRecord
    <3>2. CASE call[c].doing = "verify_capability" /\ call[c].answer = "ok"
      <4>1. AfterAnswer(c) = [NoCall EXCEPT !.doing = "downstream"]  BY <3>2 DEF AfterAnswer
      <4> QED  BY <1>0, <4>1 DEF CallRecord, NoCall
    <3>3. CASE ~(call[c].doing = "verify_capability" /\ call[c].answer = "ok")
               /\ call[c].answer = "pending" /\ call[c].polls + 1 < MaxPolls
      <4>1. AfterAnswer(c) = [NoCall EXCEPT !.doing = "get_decision", !.polls = call[c].polls + 1]
        BY <3>3 DEF AfterAnswer
      <4>2. call[c].polls + 1 \in 0..(MaxPolls - 1)  BY <3>1, <3>3, BoundsAssumption
      <4>3. AfterAnswer(c) =
              [doing |-> "get_decision", attempt |-> 1, answer |-> NONE, polls |-> call[c].polls + 1]
        BY <4>1 DEF NoCall
      <4> QED  BY <4>2, <4>3, BoundsAssumption DEF CallRecord, Kinds
    <3>4. CASE ~(call[c].doing = "verify_capability" /\ call[c].answer = "ok")
               /\ ~(call[c].answer = "pending" /\ call[c].polls + 1 < MaxPolls)
      BY <1>0, <3>4 DEF AfterAnswer, NoCall
    <3> QED  BY <3>2, <3>3, <3>4
  <2>2. call[c].doing \in Kinds  BY <1>3 DEF Return, ClientTypes
  <2>3. Learns[call[c].doing] \subseteq {"decision", "token"}  BY <2>2 DEF Learns, Kinds
  <2> QED  BY <1>3, <2>1, <2>3 DEF Return, ClientTypes, RecordTypes, ServerTypes, serverVars, recordVars
<1>4. CASE NoAnswer(c)
  <2>1. NextAttempt(c) \in CallRecord /\ NextAttempt(c).answer = NONE
    <3>1. CASE call[c].attempt < MaxAttempts
      <4>1. call[c].attempt + 1 \in 1..MaxAttempts
        BY <1>0, <3>1, BoundsAssumption DEF CallRecord
      <4>2. NextAttempt(c) = [doing |-> call[c].doing, attempt |-> call[c].attempt + 1,
                              answer |-> NONE, polls |-> call[c].polls]
        BY <1>0, <3>1 DEF NextAttempt, CallRecord
      <4> QED  BY <1>0, <4>1, <4>2 DEF CallRecord
    <3>2. CASE ~(call[c].attempt < MaxAttempts)  BY <1>0, <3>2 DEF NextAttempt, NoCall
    <3> QED  BY <3>1, <3>2
  <2>2. late' \in [Kinds -> 0..MaxLate]
    BY <1>4, BoundsAssumption DEF NoAnswer, ClientTypes
  <2> QED  BY <1>4, <2>1, <2>2 DEF NoAnswer, ClientTypes, RecordTypes, ServerTypes, serverVars, recordVars
<1>5. CASE RunDownstream(c)
  BY <1>0, <1>5 DEF RunDownstream, NoCall, ClientTypes, RecordTypes, ServerTypes, serverVars, recordVars
<1>6. CASE CutOff(c)
  BY <1>0, <1>6 DEF CutOff, NoCall, ClientTypes, RecordTypes, ServerTypes, serverVars, recordVars
<1> QED  BY <1>1, <1>2, <1>3, <1>4, <1>5, <1>6 DEF ClientStep

\* The chosen status is one of those reported.
LEMMA ChosenReported ==
    ASSUME NEW X \in SUBSET ReceiptStatuses, X # {}
    PROVE  ChosenStatus(X) \in X
<1> DEFINE I == {i \in DOMAIN Precedence : Precedence[i] \in X}
<1>1. DOMAIN Precedence = 1..5  BY DEF Precedence
<1>2. I \in SUBSET Nat /\ \A i \in I : i <= 5  BY <1>1
<1>3. PICK x \in X : TRUE  OBVIOUS
<1>4. x \in {"ACCEPTED", "UNKNOWN", "FAILED", "PARTIALLY_SUCCEEDED", "SUCCEEDED"}
  BY ValuesAssumption DEF StatusToOutcome
<1>5. \E i \in 1..5 : Precedence[i] = x  BY <1>4 DEF Precedence
<1>6. I # {}  BY <1>1, <1>3, <1>5
<1>7. SetMax(I) \in I
  <2> HIDE DEF I
  <2> QED  BY <1>2, <1>6, SetMaxGreatest
<1>8. ChosenStatus(X) = Precedence[SetMax(I)]  BY DEF ChosenStatus
<1> QED  BY <1>7, <1>8

\* What a finding says, arm by arm.
LEMMA FindingArms ==
    ASSUME NEW q \in ReconcileRequest, NEW X \in SUBSET ReceiptStatuses
    PROVE  /\ Finding(q, X) \in Result
           /\ Finding(q, X).at = q.at
           /\ Finding(q, X).capability = q.exists
           /\ Finding(q, X).basis = [consumed |-> q.consumed, statuses |-> X]
           /\ Finding(q, X).outcome = "MISMATCHED" <=> (q.label = "CAPABILITY_REQUIRED" /\ ~q.consumed)
           /\ Finding(q, X).outcome = "RECEIPT_MISSING" <=>
                 ~(q.label = "CAPABILITY_REQUIRED" /\ ~q.consumed) /\ X = {}
           /\ Finding(q, X).outcome \notin {"MISMATCHED", "RECEIPT_MISSING"} =>
                 X # {} /\ Finding(q, X).receipt = ChosenStatus(X)
           /\ Finding(q, X).outcome \in {"MISMATCHED", "RECEIPT_MISSING"} => Finding(q, X).receipt = NONE
<1> DEFINE new(o, r) ==
        [outcome |-> o, capability |-> q.exists, receipt |-> r, at |-> q.at,
         basis |-> [consumed |-> q.consumed, statuses |-> X]]
<1>1. \A o \in Reconciled, r \in ReceiptStatuses \cup {NONE} : new(o, r) \in Result
  BY DEF Result, ReconcileRequest
<1>2. CASE q.label = "CAPABILITY_REQUIRED" /\ ~q.consumed
  <2>1. Finding(q, X) = new("MISMATCHED", NONE)  BY <1>2 DEF Finding
  <2> QED  BY <1>1, <1>2, <2>1 DEF Reconciled
<1>3. CASE ~(q.label = "CAPABILITY_REQUIRED" /\ ~q.consumed) /\ X = {}
  <2>1. Finding(q, X) = new("RECEIPT_MISSING", NONE)  BY <1>3 DEF Finding
  <2> QED  BY <1>1, <1>3, <2>1 DEF Reconciled
<1>4. CASE ~(q.label = "CAPABILITY_REQUIRED" /\ ~q.consumed) /\ X # {}
  <2>1. Finding(q, X) = new(StatusToOutcome[ChosenStatus(X)], ChosenStatus(X))  BY <1>4 DEF Finding
  <2>2. ChosenStatus(X) \in X  BY <1>4, ChosenReported
  <2>3. StatusToOutcome[ChosenStatus(X)] \in Reconciled \ {"MISMATCHED", "RECEIPT_MISSING"}
    BY <2>2, ValuesAssumption DEF StatusToOutcome, Reconciled
  <2> HIDE DEF new
  <2>4. new(StatusToOutcome[ChosenStatus(X)], ChosenStatus(X)) \in Result  BY <1>1, <2>2, <2>3
  <2>5. /\ Finding(q, X).at = q.at
        /\ Finding(q, X).capability = q.exists
        /\ Finding(q, X).basis = [consumed |-> q.consumed, statuses |-> X]
        /\ Finding(q, X).outcome = StatusToOutcome[ChosenStatus(X)]
        /\ Finding(q, X).receipt = ChosenStatus(X)
    BY <2>1 DEF new
  <2> QED  BY <1>4, <2>1, <2>3, <2>4, <2>5
<1> QED  BY <1>2, <1>3, <1>4

\* The moments a new receipt, or a new reconciliation, must come after
ReceiptMoments == {r.at : r \in receipts} \cup {request[v].row.at : v \in Busy({"receipt"})}
ResultMoments ==
    {results[i].at : i \in DOMAIN results} \cup {request[v].at : v \in Busy({"reconcile", "persist"})}

LEMMA MomentsBounded ==
    ASSUME ServerTypes
    PROVE  /\ ReceiptMoments \in SUBSET Nat /\ \A x \in ReceiptMoments : x <= MaxClock
           /\ ResultMoments \in SUBSET Nat /\ \A x \in ResultMoments : x <= MaxClock
<1>1. \A r \in receipts : r.at \in Nat /\ r.at <= MaxClock  BY DEF ServerTypes, Receipt
<1>2. \A w \in Busy({"receipt"}) : request[w].row.at \in Nat /\ request[w].row.at <= MaxClock
  BY RequestShape DEF Busy, ServerTypes, ReceiptRequest, Receipt
<1>3. \A i \in DOMAIN results : results[i].at \in Nat /\ results[i].at <= MaxClock
  <2>1. \A i \in DOMAIN results : results[i] \in Result  BY DEF ServerTypes
  <2> QED  BY <2>1 DEF ServerTypes, Result
<1>4. \A w \in Busy({"reconcile", "persist"}) : request[w].at \in Nat /\ request[w].at <= MaxClock
  BY RequestShape DEF Busy, ServerTypes, ReconcileRequest, PersistRequest
<1>5. ReceiptMoments \in SUBSET Nat /\ \A x \in ReceiptMoments : x <= MaxClock
  BY <1>1, <1>2 DEF ReceiptMoments
<1>6. ResultMoments \in SUBSET Nat /\ \A x \in ResultMoments : x <= MaxClock
  BY <1>3, <1>4 DEF ResultMoments
<1> QED  BY <1>5, <1>6

\* A worker that becomes idle keeps the types.
LEMMA IdleTypes ==
    ASSUME ServerTypes, NEW w \in Workers, request' = [request EXCEPT ![w] = Idle],
           UNCHANGED <<receipts, evidence, results, overlapped>>
    PROVE  ServerTypes'
  BY DEF ServerTypes, Idle

\* The steps of a worker that only touch what it is doing itself.
LEMMA RequestTypes ==
    ASSUME ServerTypes, NEW w \in Workers,
           NEW q \in ReceiptRequest \cup ReconcileRequest \cup PersistRequest,
           request' = [request EXCEPT ![w] = q],
           q.stage = "receipt" => q.row.at <= MaxClock,
           q.stage \in {"reconcile", "persist"} => q.at <= MaxClock,
           q.stage = "persist" => q.row.at = q.at,
           UNCHANGED <<receipts, evidence, results>>,
           overlapped' \subseteq {"receipt", "reconcile", "persist"}
    PROVE  ServerTypes'
  BY DEF ServerTypes

LEMMA WorkerTypesStep ==
    ASSUME Types, NEW w \in Workers, WorkerStep(w)
    PROVE  Types'
<1>0. ClientTypes /\ RecordTypes /\ ServerTypes  BY DEF Types
<1>1. ASSUME UNCHANGED <<clientVars, recordVars>>
      PROVE  ClientTypes' /\ RecordTypes'
  BY <1>0, <1>1 DEF ClientTypes, RecordTypes, clientVars, recordVars
<1>2. ASSUME NEW s \in ReceiptStatuses, NEW d \in Destinations, NEW b \in BOOLEAN,
             submit_execution_receipt(w, s, d, b)
      PROVE  Types'
  <2> DEFINE now == After(ReceiptMoments)
             q == [stage |-> "receipt",
                   row |-> [status |-> s, destination |-> d, capability |-> b, at |-> now]]
  <2>1. now \in Nat  BY <1>0, MomentsBounded, AfterLater, BoundsAssumption
  <2>2. now <= MaxClock /\ request' = [request EXCEPT ![w] = q]
    BY <1>2 DEF submit_execution_receipt, ReceiptMoments
  <2>3. q \in ReceiptRequest /\ q.stage = "receipt" /\ q.row.at = now
    <3> HIDE DEF now
    <3> QED  BY <2>1 DEF ReceiptRequest, Receipt
  <2>4. overlapped' \subseteq {"receipt", "reconcile", "persist"}
    BY <1>0, <1>2 DEF submit_execution_receipt, Overlap, ServerTypes
  <2>5. UNCHANGED <<receipts, evidence, results, clientVars, recordVars>>
    BY <1>2 DEF submit_execution_receipt
  <2> HIDE DEF q, now
  <2>6. ServerTypes'  BY <1>0, <2>2, <2>3, <2>4, <2>5, RequestTypes
  <2> QED  BY <1>1, <2>5, <2>6 DEF Types
<1>3. CASE CommitReceipt(w)
  <2>1. request[w] \in ReceiptRequest /\ request[w].row.at <= MaxClock
    BY <1>0, <1>3, RequestShape DEF CommitReceipt, ServerTypes
  <2>2. request[w].row \in Receipt /\ Accepted(request[w].row.status) \in Events
    BY <2>1 DEF ReceiptRequest, Receipt, Events
  <2>3. receipts' \subseteq Receipt /\ \A r \in receipts' : r.at <= MaxClock
    BY <1>0, <1>3, <2>1, <2>2 DEF CommitReceipt, ServerTypes
  <2>4. evidence' \in [Events -> Nat]
    BY <1>0, <1>3, <2>2 DEF CommitReceipt, ServerTypes
  <2>5. request' = [request EXCEPT ![w] = Idle] /\ UNCHANGED <<results, overlapped, clientVars, recordVars>>
    BY <1>3 DEF CommitReceipt
  <2>6. ServerTypes'  BY <1>0, <2>3, <2>4, <2>5 DEF ServerTypes, Idle
  <2> QED  BY <1>1, <2>5, <2>6 DEF Types
<1>4. CASE reconcile_decision(w)
  <2> DEFINE now == After(ResultMoments)
             q == [stage |-> "reconcile", label |-> assurance, exists |-> capability # "none",
                   consumed |-> capability = "consumed", at |-> now]
  <2>1. now \in Nat  BY <1>0, MomentsBounded, AfterLater, BoundsAssumption
  <2>2. now <= MaxClock /\ request' = [request EXCEPT ![w] = q]
    BY <1>4 DEF reconcile_decision, ResultMoments
  <2>3. q \in ReconcileRequest /\ q.stage = "reconcile" /\ q.at = now
    <3> HIDE DEF now
    <3> QED  BY <1>0, <2>1 DEF ReconcileRequest, RecordTypes
  <2>4. overlapped' \subseteq {"receipt", "reconcile", "persist"}
    BY <1>0, <1>4 DEF reconcile_decision, Overlap, ServerTypes
  <2>5. UNCHANGED <<receipts, evidence, results, clientVars, recordVars>>
    BY <1>4 DEF reconcile_decision
  <2> HIDE DEF q, now
  <2>6. ServerTypes'  BY <1>0, <2>2, <2>3, <2>4, <2>5, RequestTypes
  <2> QED  BY <1>1, <2>5, <2>6 DEF Types
<1>5. CASE ReadReceipts(w)
  <2> DEFINE X == {r.status : r \in receipts}
             row == Finding(request[w], X)
             q == [stage |-> "persist", row |-> row, at |-> row.at]
  <2>1. request[w] \in ReconcileRequest /\ request[w].at <= MaxClock
    BY <1>0, <1>5, RequestShape DEF ReadReceipts, ServerTypes
  <2>2. X \in SUBSET ReceiptStatuses  BY <1>0 DEF ServerTypes, Receipt
  <2>3. row \in Result /\ row.at = request[w].at
    <3> HIDE DEF X
    <3> QED  BY <2>1, <2>2, FindingArms
  <2>4. /\ request' = [request EXCEPT ![w] = IF IsNew(row) THEN q ELSE Idle]
        /\ UNCHANGED <<receipts, evidence, results, overlapped, clientVars, recordVars>>
    BY <1>5 DEF ReadReceipts
  <2> HIDE DEF row
  <2>5. q \in PersistRequest /\ q.stage = "persist" /\ q.at = row.at /\ q.row.at = row.at /\ q.at <= MaxClock
    BY <2>1, <2>3 DEF PersistRequest, Result, ReconcileRequest
  <2> HIDE DEF q
  <2>6. ServerTypes'
    <3>1. CASE IsNew(row)
      <4>1. request' = [request EXCEPT ![w] = q]  BY <2>4, <3>1
      <4>2. overlapped' \subseteq {"receipt", "reconcile", "persist"}  BY <1>0, <2>4 DEF ServerTypes
      <4> QED  BY <1>0, <2>4, <2>5, <4>1, <4>2, RequestTypes
    <3>2. CASE ~IsNew(row)  BY <1>0, <2>4, <3>2, IdleTypes
    <3> QED  BY <3>1, <3>2
  <2> QED  BY <1>1, <2>4, <2>6 DEF Types
<1>6. CASE PersistResult(w)
  <2>1. request[w] \in PersistRequest /\ request[w].row.at <= MaxClock
    BY <1>0, <1>6, RequestShape DEF PersistResult, ServerTypes
  <2>2. request[w].row \in Result /\ ReconciledAs(request[w].row.outcome) \in Events
    BY <2>1 DEF PersistRequest, Result, Events
  <2>3. results' \in Seq(Result) /\ \A i \in DOMAIN results' : results'[i].at <= MaxClock
    BY <1>0, <1>6, <2>1, <2>2 DEF PersistResult, ServerTypes
  <2>4. evidence' \in [Events -> Nat]
    BY <1>0, <1>6, <2>2 DEF PersistResult, ServerTypes
  <2>5. request' = [request EXCEPT ![w] = Idle] /\ UNCHANGED <<receipts, overlapped, clientVars, recordVars>>
    BY <1>6 DEF PersistResult
  <2>6. ServerTypes'  BY <1>0, <2>3, <2>4, <2>5 DEF ServerTypes, Idle
  <2> QED  BY <1>1, <2>5, <2>6 DEF Types
<1>7. CASE Abandon(w)
  <2>1. /\ request' = [request EXCEPT ![w] = Idle]
        /\ UNCHANGED <<receipts, evidence, results, overlapped, clientVars, recordVars>>
    BY <1>7 DEF Abandon
  <2> QED  BY <1>0, <1>1, <2>1, IdleTypes DEF Types
<1> QED  BY <1>2, <1>3, <1>4, <1>5, <1>6, <1>7 DEF WorkerStep

LEMMA EnvironmentTypesStep ==
    ASSUME Types, Environment
    PROVE  Types'
<1>0. ClientTypes /\ RecordTypes /\ ServerTypes  BY DEF Types
<1>1. ASSUME NEW k \in Kinds, HandleLate(k) PROVE Types'
  <2>1. PICK a \in Answers : Endpoint(k, a)  BY <1>1 DEF HandleLate
  <2>2. RecordTypes'  BY <1>0, <1>1, <2>1, EndpointTypes DEF RecordTypes, HandleLate
  <2>3. late' \in [Kinds -> 0..MaxLate]  BY <1>0, <1>1, BoundsAssumption DEF HandleLate, ClientTypes
  <2> QED  BY <1>0, <1>1, <2>2, <2>3 DEF Types, HandleLate, ClientTypes, ServerTypes, serverVars
<1>2. ASSUME UNCHANGED <<clientVars, serverVars>> PROVE ClientTypes' /\ ServerTypes'
  BY <1>0, <1>2 DEF ClientTypes, ServerTypes, clientVars, serverVars
<1>3. ASSUME NEW v \in {"approved", "denied"}, resolve_decision(v) PROVE Types'
  <2>1. decision \in Decision  BY <1>0, <1>3 DEF resolve_decision, RecordTypes
  <2>2. decision' = [outcome |-> decision.outcome, resolution |-> v]
    BY <1>3, <2>1 DEF resolve_decision, Decision
  <2>3. decision' \in Decision  BY <2>1, <2>2 DEF Decision
  <2> QED  BY <1>0, <1>2, <1>3, <2>3 DEF Types, RecordTypes, resolve_decision
<1>4. ASSUME NEW p \in Parties, PartyEnds(p) PROVE Types'
  BY <1>0, <1>2, <1>4 DEF Types, RecordTypes, PartyEnds
<1>5. ASSUME NEW l \in {"ADVISORY", "CAPABILITY_REQUIRED"}, set_enforcement_assurance(l) PROVE Types'
  BY <1>0, <1>2, <1>5 DEF Types, RecordTypes, set_enforcement_assurance, Labels
<1>6. CASE CapabilityExpires
  BY <1>0, <1>2, <1>6 DEF Types, RecordTypes, CapabilityExpires
<1> QED  BY <1>1, <1>3, <1>4, <1>5, <1>6 DEF Environment

LEMMA TypesStep == Types /\ [Next]_vars => Types'
<1> SUFFICES ASSUME Types, [Next]_vars PROVE Types'  OBVIOUS
<1>1. CASE UNCHANGED vars
  BY <1>1 DEF Types, ClientTypes, RecordTypes, ServerTypes, vars, clientVars, serverVars, recordVars
<1> QED  BY <1>1, ClientTypesStep, WorkerTypesStep, EnvironmentTypesStep DEF Next

LEMMA TypesInvariant == Spec => []Types
  BY InitTypes, TypesStep, PTL DEF Spec

(***************************************************************************)
(* Clients, records and the server keep to their types, for any number of  *)
(* clients, workers, attempts and polls: no SDK call makes more than       *)
(* max_retries + 1 attempts (HttpClient.request) or polls past             *)
(* wait_for_resolution's deadline, and every reconciliation is of a listed *)
(* kind.                                                                   *)
(***************************************************************************)
THEOREM ExecutionTypes == Spec => []TypeOK
  BY TypesInvariant, TypesImplied, PTL

-----------------------------------------------------------------------------
(* The permission to run.  A client holds it from the answer that consumed *)
(* the Capability to the start of the downstream operation.                *)

Holds(c) ==
    \/ call[c].doing = "downstream"
    \/ call[c].doing = "verify_capability" /\ call[c].answer = "ok"

SpentOnce ==
    /\ ran \in {0, 1}
    /\ capability # "consumed" => ran = 0 /\ \A c \in Clients : ~Holds(c)
    /\ ran = 1 => \A c \in Clients : ~Holds(c)
    /\ \A c, d \in Clients : Holds(c) /\ Holds(d) => c = d
    /\ capability # "none" => Authorized

\* What an endpoint may do to the Capability: it is consumed once, by the
\* request that is answered so, and issued only if authorised.
LEMMA EndpointSpends ==
    ASSUME RecordTypes, capability # "none" => Authorized,
           NEW kind \in Kinds, NEW a \in Answers, Endpoint(kind, a)
    PROVE  /\ capability' # "none" => Authorized'
           /\ \/ capability' = capability
              \/ capability = "none" /\ capability' = "issued"
              \/ capability = "issued" /\ capability' = "consumed"
           /\ kind = "verify_capability" /\ a = "ok" => capability = "issued" /\ capability' = "consumed"
<1>1. CASE kind = "attest" /\ attest(a)
  <2>1. capability' = capability /\ (decision = NONE \/ decision' = decision)
    BY <1>1 DEF attest
  <2> QED  BY <1>1, <2>1 DEF Authorized
<1>2. CASE kind = "get_decision" /\ get_decision(a)  BY <1>2 DEF get_decision, Authorized
<1>3. CASE kind = "request_capability" /\ request_capability(a)
  BY <1>3 DEF request_capability, Authorized
<1>4. CASE kind = "verify_capability" /\ verify_capability(a)
  BY <1>4 DEF verify_capability, Authorized
<1> QED  BY <1>1, <1>2, <1>3, <1>4 DEF Endpoint

\* A step after which no more clients hold the permission than before.
LEMMA NoNewHolder ==
    ASSUME SpentOnce, \A c \in Clients : Holds(c)' => Holds(c), UNCHANGED ran,
           capability' # "none" => Authorized',
           capability = "consumed" => capability' = "consumed"
    PROVE  SpentOnce'
  BY DEF SpentOnce

LEMMA ClientSpends ==
    ASSUME Types, SpentOnce, NEW c \in Clients, ClientStep(c)
    PROVE  SpentOnce'
<1>0. /\ call \in [Clients -> CallRecord] /\ RecordTypes
      /\ \A d \in Clients : call[d].answer # NONE => call[d].doing \in Kinds
      /\ ran \in Nat
  BY DEF Types, ClientTypes
<1>1. ASSUME UNCHANGED recordVars
      PROVE  /\ capability' # "none" => Authorized'
             /\ capability' = capability
  BY <1>1 DEF SpentOnce, recordVars, Authorized
<1>2. ASSUME NEW r, call' = [call EXCEPT ![c] = r],
             ~(r.doing = "downstream" \/ (r.doing = "verify_capability" /\ r.answer = "ok")) \/ Holds(c)
      PROVE  \A d \in Clients : Holds(d)' => Holds(d)
  <2>1. call'[c] = r /\ \A d \in Clients : d # c => call'[d] = call[d]  BY <1>0, <1>2
  <2>2. Holds(c)' => Holds(c)  BY <1>2, <2>1 DEF Holds
  <2>3. \A d \in Clients : d # c => (Holds(d)' => Holds(d))  BY <2>1 DEF Holds
  <2> QED  BY <2>2, <2>3
<1>3. ASSUME NEW k \in Kinds, Begin(c, k) PROVE SpentOnce'
  <2> DEFINE r == [NoCall EXCEPT !.doing = k]
  <2>1. r.doing = k /\ r.answer = NONE  BY DEF NoCall
  <2>2. k # "downstream" /\ NONE # "ok"  BY ValuesAssumption DEF Kinds
  <2>3. call' = [call EXCEPT ![c] = r] /\ UNCHANGED ran /\ UNCHANGED recordVars
    BY <1>3 DEF Begin
  <2> HIDE DEF r
  <2> QED  BY <1>1, <1>2, <2>1, <2>2, <2>3, NoNewHolder
<1>4. CASE Handle(c)
  <2>1. PICK a \in Answers : Endpoint(call[c].doing, a) /\ call' = [call EXCEPT ![c].answer = a]
    BY <1>4 DEF Handle
  <2>2. call[c].doing \in Kinds /\ call[c].answer = NONE /\ UNCHANGED ran  BY <1>4 DEF Handle
  <2>3. /\ capability' # "none" => Authorized'
        /\ \/ capability' = capability
           \/ capability = "none" /\ capability' = "issued"
           \/ capability = "issued" /\ capability' = "consumed"
        /\ call[c].doing = "verify_capability" /\ a = "ok" => capability = "issued" /\ capability' = "consumed"
    BY <1>0, <2>1, <2>2, EndpointSpends DEF SpentOnce
  <2>4. \A d \in Clients : d # c => Holds(d)' = Holds(d)  BY <1>0, <2>1 DEF Holds
  <2>5. Holds(c)' => call[c].doing = "verify_capability" /\ a = "ok"
    BY <1>0, <2>1, <2>2 DEF Holds, CallRecord, Kinds
  <2>6. CASE ~Holds(c)'
    BY <2>2, <2>3, <2>4, <2>6, NoNewHolder
  <2>7. CASE Holds(c)'
    <3>1. capability = "issued" /\ capability' = "consumed"  BY <2>3, <2>5, <2>7
    <3>2. ran = 0 /\ \A d \in Clients : ~Holds(d)  BY <3>1 DEF SpentOnce
    <3>3. \A d \in Clients : Holds(d)' => d = c  BY <2>4, <3>2
    <3> QED  BY <2>2, <2>3, <3>1, <3>2, <3>3 DEF SpentOnce
  <2> QED  BY <2>6, <2>7
<1>5. CASE Return(c)
  <2> DEFINE r == AfterAnswer(c)
  <2>1. r.doing = "downstream" => Holds(c)
    BY DEF AfterAnswer, Holds, NoCall
  <2>2. r.doing # "verify_capability"
    BY DEF AfterAnswer, NoCall
  <2>3. call' = [call EXCEPT ![c] = r] /\ UNCHANGED ran /\ UNCHANGED recordVars
    BY <1>5 DEF Return
  <2> HIDE DEF r
  <2> QED  BY <1>1, <1>2, <2>1, <2>2, <2>3, NoNewHolder
<1>6. CASE NoAnswer(c)
  <2> DEFINE r == NextAttempt(c)
  <2>1. r.answer = NONE /\ (r.doing = call[c].doing \/ r.doing = "nothing")
    BY <1>0 DEF NextAttempt, NoCall, CallRecord
  <2>2. call[c].doing # "downstream" /\ NONE # "ok"
    BY <1>6, ValuesAssumption DEF NoAnswer, Kinds
  <2>3. call' = [call EXCEPT ![c] = r] /\ UNCHANGED ran /\ UNCHANGED recordVars
    BY <1>6 DEF NoAnswer
  <2> HIDE DEF r
  <2> QED  BY <1>1, <1>2, <2>1, <2>2, <2>3, NoNewHolder
<1>7. ASSUME call' = [call EXCEPT ![c] = NoCall]
      PROVE  ~Holds(c)' /\ \A d \in Clients : Holds(d)' => Holds(d)
  BY <1>0, <1>7 DEF Holds, NoCall
<1>8. CASE RunDownstream(c)
  <2>1. Holds(c) /\ ran' = ran + 1 /\ UNCHANGED recordVars /\ call' = [call EXCEPT ![c] = NoCall]
    BY <1>8 DEF RunDownstream, Holds
  <2>2. capability = "consumed" /\ ran = 0 /\ \A d \in Clients : Holds(d) => d = c
    BY <2>1 DEF SpentOnce
  <2>3. \A d \in Clients : ~Holds(d)'  BY <1>7, <2>1, <2>2
  <2> QED  BY <1>1, <2>1, <2>2, <2>3 DEF SpentOnce
<1>9. CASE CutOff(c)
  <2>1. UNCHANGED ran /\ UNCHANGED recordVars /\ call' = [call EXCEPT ![c] = NoCall]
    BY <1>9 DEF CutOff
  <2> QED  BY <1>1, <1>7, <2>1, NoNewHolder
<1> QED  BY <1>3, <1>4, <1>5, <1>6, <1>8, <1>9 DEF ClientStep

LEMMA SpentOnceStep == Types /\ SpentOnce /\ [Next]_vars => SpentOnce'
<1> SUFFICES ASSUME Types, SpentOnce, [Next]_vars PROVE SpentOnce'  OBVIOUS
<1>1. ASSUME UNCHANGED clientVars, capability' # "none" => Authorized',
             capability = "consumed" => capability' = "consumed"
      PROVE  SpentOnce'
  BY <1>1, NoNewHolder DEF clientVars, Holds
<1>2. ASSUME UNCHANGED recordVars
      PROVE  (capability' # "none" => Authorized') /\ capability' = capability
  BY <1>2 DEF SpentOnce, recordVars, Authorized
<1>3. ASSUME NEW w \in Workers, WorkerStep(w) PROVE SpentOnce'
  <2>1. UNCHANGED clientVars /\ UNCHANGED recordVars
    BY <1>3 DEF WorkerStep, submit_execution_receipt, CommitReceipt, reconcile_decision,
                ReadReceipts, PersistResult, Abandon
  <2> QED  BY <1>1, <1>2, <2>1
<1>4. ASSUME NEW k \in Kinds, HandleLate(k) PROVE SpentOnce'
  <2>1. PICK a \in Answers : Endpoint(k, a)  BY <1>4 DEF HandleLate
  <2>2. /\ capability' # "none" => Authorized'
        /\ capability = "consumed" => capability' = "consumed"
    BY <2>1, EndpointSpends DEF SpentOnce, Types
  <2>3. \A d \in Clients : Holds(d)' => Holds(d)  BY <1>4 DEF HandleLate, Holds
  <2> QED  BY <1>4, <2>2, <2>3, NoNewHolder DEF HandleLate
<1>5. ASSUME NEW v \in {"approved", "denied"}, resolve_decision(v) PROVE SpentOnce'
  <2>1. ~Authorized /\ UNCHANGED capability /\ UNCHANGED clientVars
    BY <1>5, ValuesAssumption DEF resolve_decision, Pending, Authorized
  <2> QED  BY <1>1, <2>1 DEF SpentOnce
<1>6. ASSUME NEW p \in Parties, PartyEnds(p) PROVE SpentOnce'
  BY <1>1, <1>6 DEF PartyEnds, SpentOnce, Authorized
<1>7. ASSUME NEW l \in {"ADVISORY", "CAPABILITY_REQUIRED"}, set_enforcement_assurance(l) PROVE SpentOnce'
  BY <1>1, <1>7 DEF set_enforcement_assurance, SpentOnce, Authorized
<1>8. CASE CapabilityExpires
  BY <1>1, <1>8 DEF CapabilityExpires, SpentOnce, Authorized
<1>9. CASE UNCHANGED vars
  BY <1>1, <1>2, <1>9 DEF vars
<1> QED  BY ClientSpends, <1>3, <1>4, <1>5, <1>6, <1>7, <1>8, <1>9 DEF Next, Environment

LEMMA SpentOnceInvariant == Spec => []SpentOnce
<1>1. Init => SpentOnce
  BY DEF Init, SpentOnce, Holds, NoCall
<1> QED  BY <1>1, SpentOnceStep, TypesInvariant, PTL DEF Spec

(***************************************************************************)
(* However requests are lost, resent and delayed, and however many         *)
(* checkpoints share the token, the downstream operation is started at     *)
(* most once, and only for a Decision that allows it                       *)
(* (CapabilityEnforcer.enforce over verify_and_consume_capability).        *)
(***************************************************************************)
THEOREM ExecutionIsSound == Spec => []ExecutionSound
<1>1. Types /\ SpentOnce => ExecutionSound
  <2> SUFFICES ASSUME Types, SpentOnce PROVE ExecutionSound  OBVIOUS
  <2>1. TypeOK  BY TypesImplied
  <2>2. ExecutedAtMostOnce  BY DEF SpentOnce, ExecutedAtMostOnce
  <2>3. NothingRunsUnauthorised
    BY DEF SpentOnce, NothingRunsUnauthorised, Authorized
  <2> QED  BY <2>1, <2>2, <2>3 DEF ExecutionSound
<1> QED  BY <1>1, TypesInvariant, SpentOnceInvariant, PTL

-----------------------------------------------------------------------------
(* The receipts.                                                           *)

ReceiptRows ==
    /\ \A r, q \in receipts : r.status = q.status => r = q
    /\ \A s \in ReceiptStatuses :
          evidence[Accepted(s)] = IF \E r \in receipts : r.status = s THEN 1 ELSE 0

OneDestination ==
    "receipt" \notin overlapped =>
        /\ \A p, q \in receipts : p.destination = q.destination
        /\ \A w \in Workers : request[w].stage = "receipt" =>
              \A r \in receipts : r.destination = request[w].row.destination
        /\ \A v, w \in Workers : request[v].stage = "receipt" /\ request[w].stage = "receipt" => v = w

RequiredSpent ==
    assurance = "CAPABILITY_REQUIRED" /\ ~relabelled =>
        /\ \A r \in receipts : r.capability /\ capability = "consumed"
        /\ \A w \in Workers : request[w].stage = "receipt" =>
              request[w].row.capability /\ capability = "consumed"
        /\ \A w \in Workers : request[w].stage = "reconcile" =>
              request[w].label = "CAPABILITY_REQUIRED" /\ (request[w].consumed => capability = "consumed")
        /\ \A w \in Workers : request[w].stage = "persist" =>
              (request[w].row.outcome # "MISMATCHED" => capability = "consumed")
        /\ \A i \in DOMAIN results : results[i].outcome # "MISMATCHED" => capability = "consumed"

ReceiptInv == ReceiptRows /\ OneDestination /\ RequiredSpent

\* What happens outside the workers leaves the server's rows alone, and what
\* was consumed stays so.
LEMMA OutsideSteps ==
    ASSUME Types, SpentOnce, (\E c \in Clients : ClientStep(c)) \/ Environment
    PROVE  /\ UNCHANGED serverVars
           /\ capability = "consumed" => capability' = "consumed"
           /\ (relabelled' = relabelled /\ assurance' = assurance) \/ relabelled'
<1>1. ASSUME NEW k \in Kinds, NEW a \in Answers, Endpoint(k, a)
      PROVE  capability = "consumed" => capability' = "consumed"
  BY <1>1, EndpointSpends DEF Types, SpentOnce
<1>2. ASSUME NEW c \in Clients, Handle(c)
      PROVE  /\ UNCHANGED <<serverVars, assurance, relabelled>>
             /\ capability = "consumed" => capability' = "consumed"
  <2>1. PICK a \in Answers : Endpoint(call[c].doing, a)  BY <1>2 DEF Handle
  <2>2. call[c].doing \in Kinds /\ UNCHANGED <<serverVars, assurance, relabelled>>  BY <1>2 DEF Handle
  <2> QED  BY <1>1, <2>1, <2>2
<1>3. ASSUME NEW k \in Kinds, HandleLate(k)
      PROVE  /\ UNCHANGED <<serverVars, assurance, relabelled>>
             /\ capability = "consumed" => capability' = "consumed"
  <2>1. PICK a \in Answers : Endpoint(k, a)  BY <1>3 DEF HandleLate
  <2>2. UNCHANGED <<serverVars, assurance, relabelled>>  BY <1>3 DEF HandleLate
  <2> QED  BY <1>1, <2>1, <2>2
<1>4. ASSUME NEW c \in Clients, ClientStep(c), ~Handle(c)
      PROVE  UNCHANGED <<serverVars, recordVars>>
  BY <1>4 DEF ClientStep, Begin, Return, NoAnswer, RunDownstream, CutOff
<1>5. CASE \E c \in Clients : ClientStep(c)
  <2>1. PICK c \in Clients : ClientStep(c)  BY <1>5
  <2>2. CASE Handle(c)  BY <1>2, <2>2
  <2>3. CASE ~Handle(c)  BY <1>4, <2>1, <2>3 DEF recordVars
  <2> QED  BY <2>2, <2>3
<1>6. CASE Environment
  <2>1. ASSUME NEW v \in {"approved", "denied"}, resolve_decision(v)
        PROVE  UNCHANGED <<serverVars, assurance, relabelled, capability>>
    BY <2>1 DEF resolve_decision
  <2>2. ASSUME NEW q \in Parties, PartyEnds(q)
        PROVE  UNCHANGED <<serverVars, assurance, relabelled, capability>>
    BY <2>2 DEF PartyEnds
  <2>3. ASSUME NEW l \in {"ADVISORY", "CAPABILITY_REQUIRED"}, set_enforcement_assurance(l)
        PROVE  UNCHANGED <<serverVars, capability>> /\ relabelled'
    BY <2>3 DEF set_enforcement_assurance
  <2>4. CASE CapabilityExpires  BY <2>4 DEF CapabilityExpires
  <2> QED  BY <1>3, <1>6, <2>1, <2>2, <2>3, <2>4 DEF Environment
<1> QED  BY <1>5, <1>6

LEMMA OutsideReceipts ==
    ASSUME ReceiptInv, UNCHANGED serverVars, capability = "consumed" => capability' = "consumed",
           (relabelled' = relabelled /\ assurance' = assurance) \/ relabelled'
    PROVE  ReceiptInv'
<1>1. ReceiptRows' /\ OneDestination'
  BY DEF ReceiptInv, ReceiptRows, OneDestination, serverVars
<1>2. RequiredSpent'  BY DEF ReceiptInv, RequiredSpent, serverVars
<1> QED  BY <1>1, <1>2 DEF ReceiptInv

\* The first receipt agrees, so all do.
LEMMA FirstSpeaksForAll ==
    ASSUME ServerTypes, NEW s, NEW d, DestinationAgrees(s, d),
           \A p, q \in receipts : p.destination = q.destination
    PROVE  \A r \in receipts : r.destination = d
<1> SUFFICES ASSUME NEW r \in receipts PROVE r.destination = d  OBVIOUS
<1> DEFINE T == {q.at : q \in receipts}
<1>1. T \in SUBSET Nat /\ T # {}  BY DEF ServerTypes, Receipt
<1>2. PICK x \in T : \A y \in T : x <= y
  <2> HIDE DEF T
  <2> QED  BY <1>1, LeastNatural
<1>3. PICK f \in receipts : f.at = x  OBVIOUS
<1>4. \A q \in receipts : f.at <= q.at  BY <1>2, <1>3
<1>5. f.destination = d  BY <1>4 DEF DestinationAgrees
<1> QED  BY <1>5

\* Becoming idle, the rows left alone
LEMMA IdleReceipts ==
    ASSUME ServerTypes, ReceiptInv, NEW w \in Workers, request' = [request EXCEPT ![w] = Idle],
           UNCHANGED <<receipts, evidence, results, overlapped, recordVars>>
    PROVE  ReceiptInv'
<1>1. /\ request'[w].stage = "idle"
      /\ \A v \in Workers : v # w => request'[v] = request[v]
  BY DEF ServerTypes, Idle
<1>2. ReceiptRows'  BY DEF ReceiptInv, ReceiptRows
<1>3. OneDestination'  BY <1>1 DEF ReceiptInv, OneDestination
<1>4. RequiredSpent'  BY <1>1 DEF ReceiptInv, RequiredSpent, recordVars
<1> QED  BY <1>2, <1>3, <1>4 DEF ReceiptInv

LEMMA SubmitKeepsReceipts ==
    ASSUME Types, ReceiptInv, NEW w \in Workers,
           NEW s \in ReceiptStatuses, NEW d \in Destinations, NEW b \in BOOLEAN,
           submit_execution_receipt(w, s, d, b)
    PROVE  ReceiptInv'
<1>0. ServerTypes /\ RecordTypes /\ UNCHANGED <<receipts, evidence, results, recordVars>>
  BY DEF Types, submit_execution_receipt
<1>1. /\ request'[w].stage = "receipt" /\ request'[w].row.destination = d
      /\ request'[w].row.capability = b
      /\ \A v \in Workers : v # w => request'[v] = request[v]
  BY <1>0 DEF submit_execution_receipt, ServerTypes
<1>2. ReceiptRows'  BY <1>0 DEF ReceiptInv, ReceiptRows
<1>3. OneDestination'
  <2> SUFFICES ASSUME "receipt" \notin overlapped'
               PROVE  /\ \A p, q \in receipts : p.destination = q.destination
                      /\ \A v \in Workers : request'[v].stage = "receipt" =>
                            \A r \in receipts : r.destination = request'[v].row.destination
                      /\ \A v, u \in Workers :
                            request'[v].stage = "receipt" /\ request'[u].stage = "receipt" => v = u
    BY <1>0 DEF OneDestination
  <2>1. "receipt" \notin overlapped /\ \A v \in Workers \ {w} : request[v].stage # "receipt"
    BY DEF submit_execution_receipt, Overlap
  <2>2. \A p, q \in receipts : p.destination = q.destination
    BY <2>1 DEF ReceiptInv, OneDestination
  <2>3. \A r \in receipts : r.destination = d
    BY <1>0, <2>2, FirstSpeaksForAll DEF submit_execution_receipt
  <2> QED  BY <1>1, <2>1, <2>2, <2>3
<1>4. RequiredSpent'
  <2>1. assurance = "CAPABILITY_REQUIRED" => b /\ capability = "consumed"
    BY DEF submit_execution_receipt, CapabilityLinked
  <2> QED  BY <1>0, <1>1, <2>1 DEF ReceiptInv, RequiredSpent, recordVars
<1> QED  BY <1>2, <1>3, <1>4 DEF ReceiptInv

LEMMA CommitKeepsReceipts ==
    ASSUME Types, ReceiptInv, NEW w \in Workers, CommitReceipt(w)
    PROVE  ReceiptInv'
<1>0. ServerTypes /\ request[w].stage = "receipt" /\ request' = [request EXCEPT ![w] = Idle]
      /\ UNCHANGED <<results, overlapped, recordVars>>
  BY DEF Types, CommitReceipt
<1>1. CASE UNCHANGED <<receipts, evidence>>  BY <1>0, <1>1, IdleReceipts
<1>2. CASE /\ \A r \in receipts : r.status # request[w].row.status
           /\ receipts' = receipts \cup {request[w].row}
           /\ evidence' = [evidence EXCEPT ![Accepted(request[w].row.status)] = @ + 1]
  <2> DEFINE row == request[w].row
  <2>1. row \in Receipt  BY <1>0, RequestShape DEF ReceiptRequest
  <2>2. /\ request'[w].stage = "idle"
        /\ \A v \in Workers : v # w => request'[v] = request[v]
    BY <1>0 DEF ServerTypes, Idle
  <2>3. ReceiptRows'
    <3>1. \A r, q \in receipts' : r.status = q.status => r = q
      BY <1>2 DEF ReceiptInv, ReceiptRows
    <3>2. ASSUME NEW s \in ReceiptStatuses
          PROVE  evidence'[Accepted(s)] = IF \E r \in receipts' : r.status = s THEN 1 ELSE 0
      <4>1. Accepted(s) \in Events /\ Accepted(row.status) \in Events
        BY <2>1 DEF Events, Receipt
      <4>2. evidence[Accepted(s)] = IF \E r \in receipts : r.status = s THEN 1 ELSE 0
        BY DEF ReceiptInv, ReceiptRows
      <4>3. CASE s = row.status
        BY <1>0, <1>2, <4>1, <4>2, <4>3 DEF ServerTypes
      <4>4. CASE s # row.status
        <5>1. Accepted(s) # Accepted(row.status)  BY <4>4 DEF Accepted
        <5>2. evidence'[Accepted(s)] = evidence[Accepted(s)]
          BY <1>0, <1>2, <4>1, <5>1 DEF ServerTypes
        <5> QED  BY <1>2, <4>2, <4>4, <5>2
      <4> QED  BY <4>3, <4>4
    <3> QED  BY <3>1, <3>2 DEF ReceiptRows
  <2>4. OneDestination'
    <3> SUFFICES ASSUME "receipt" \notin overlapped
                 PROVE  /\ \A p, q \in receipts' : p.destination = q.destination
                        /\ \A v \in Workers : request'[v].stage # "receipt"
      BY <1>0 DEF OneDestination
    <3>1. \A r \in receipts : r.destination = row.destination
      BY <1>0 DEF ReceiptInv, OneDestination
    <3>2. \A v \in Workers : v # w => request[v].stage # "receipt"
      BY <1>0 DEF ReceiptInv, OneDestination
    <3> QED  BY <1>2, <2>2, <3>1, <3>2
  <2>5. RequiredSpent'  BY <1>0, <1>2, <2>2 DEF ReceiptInv, RequiredSpent, recordVars
  <2> QED  BY <2>3, <2>4, <2>5 DEF ReceiptInv
<1> QED  BY <1>1, <1>2 DEF CommitReceipt

LEMMA ReconcileKeepsReceipts ==
    ASSUME Types, ReceiptInv, NEW w \in Workers,
           reconcile_decision(w) \/ ReadReceipts(w) \/ PersistResult(w)
    PROVE  ReceiptInv'
<1>0. ServerTypes /\ RecordTypes  BY DEF Types
<1>1. CASE reconcile_decision(w)
  <2>1. /\ UNCHANGED <<receipts, evidence, results, recordVars>>
        /\ request'[w].stage = "reconcile" /\ request'[w].label = assurance
        /\ request'[w].consumed = (capability = "consumed")
        /\ \A v \in Workers : v # w => request'[v] = request[v]
        /\ "receipt" \in overlapped' <=> "receipt" \in overlapped
    BY <1>0, <1>1 DEF reconcile_decision, ServerTypes, Overlap
  <2>2. ReceiptRows'  BY <2>1 DEF ReceiptInv, ReceiptRows
  <2>3. OneDestination'  BY <2>1 DEF ReceiptInv, OneDestination
  <2>4. RequiredSpent'  BY <2>1 DEF ReceiptInv, RequiredSpent, recordVars
  <2> QED  BY <2>2, <2>3, <2>4 DEF ReceiptInv
<1>2. CASE ReadReceipts(w)
  <2> DEFINE X == {r.status : r \in receipts}
             row == Finding(request[w], X)
  <2>1. request[w] \in ReconcileRequest /\ request[w].stage = "reconcile"
    BY <1>0, <1>2, RequestShape DEF ReadReceipts
  <2>2. X \in SUBSET ReceiptStatuses  BY <1>0 DEF ServerTypes, Receipt
  <2>3. row.outcome = "MISMATCHED" <=> (request[w].label = "CAPABILITY_REQUIRED" /\ ~request[w].consumed)
    <3> HIDE DEF X
    <3> QED  BY <2>1, <2>2, FindingArms
  <2>4. /\ UNCHANGED <<receipts, evidence, results, overlapped, recordVars>>
        /\ request' = [request EXCEPT ![w] =
              IF IsNew(row) THEN [stage |-> "persist", row |-> row, at |-> row.at] ELSE Idle]
    BY <1>2 DEF ReadReceipts
  <2>5. CASE ~IsNew(row)  BY <1>0, <2>4, <2>5, IdleReceipts
  <2>6. CASE IsNew(row)
    <3> HIDE DEF row
    <3>1. /\ request'[w].stage = "persist" /\ request'[w].row = row
          /\ \A v \in Workers : v # w => request'[v] = request[v]
      BY <1>0, <2>4, <2>6 DEF ServerTypes
    <3>2. ReceiptRows'  BY <2>4 DEF ReceiptInv, ReceiptRows
    <3>3. OneDestination'  BY <2>4, <3>1 DEF ReceiptInv, OneDestination
    <3>4. RequiredSpent'  BY <2>1, <2>3, <2>4, <3>1 DEF ReceiptInv, RequiredSpent, recordVars
    <3> QED  BY <3>2, <3>3, <3>4 DEF ReceiptInv
  <2> QED  BY <2>5, <2>6
<1>3. CASE PersistResult(w)
  <2>1. request[w] \in PersistRequest /\ request[w].stage = "persist"
    BY <1>0, <1>3, RequestShape DEF PersistResult
  <2>2. /\ UNCHANGED <<receipts, overlapped, recordVars>>
        /\ request'[w].stage = "idle"
        /\ \A v \in Workers : v # w => request'[v] = request[v]
        /\ results' = Append(results, request[w].row)
    BY <1>0, <1>3 DEF PersistResult, ServerTypes, Idle
  <2>3. \A s \in ReceiptStatuses : evidence'[Accepted(s)] = evidence[Accepted(s)]
    <3>1. \A s \in ReceiptStatuses : Accepted(s) \in Events /\ Accepted(s) # ReconciledAs(request[w].row.outcome)
      BY DEF Events, Accepted, ReconciledAs
    <3> QED  BY <1>0, <1>3, <3>1 DEF PersistResult, ServerTypes
  <2>4. ReceiptRows'  BY <2>2, <2>3 DEF ReceiptInv, ReceiptRows
  <2>5. OneDestination'  BY <2>2 DEF ReceiptInv, OneDestination
  <2>6. \A i \in DOMAIN results' :
            results'[i] = request[w].row \/ (i \in DOMAIN results /\ results'[i] = results[i])
    BY <1>0, <2>1, <2>2 DEF ServerTypes, PersistRequest
  <2>7. RequiredSpent'  BY <2>1, <2>2, <2>6 DEF ReceiptInv, RequiredSpent, recordVars
  <2> QED  BY <2>4, <2>5, <2>7 DEF ReceiptInv
<1> QED  BY <1>1, <1>2, <1>3

LEMMA ReceiptInvStep == Types /\ SpentOnce /\ ReceiptInv /\ [Next]_vars => ReceiptInv'
<1> SUFFICES ASSUME Types, SpentOnce, ReceiptInv, [Next]_vars PROVE ReceiptInv'  OBVIOUS
<1>1. ASSUME NEW w \in Workers, Abandon(w) PROVE ReceiptInv'
  BY <1>1, IdleReceipts DEF Abandon, Types
<1>2. ASSUME NEW w \in Workers, WorkerStep(w) PROVE ReceiptInv'
  BY <1>1, <1>2, SubmitKeepsReceipts, CommitKeepsReceipts, ReconcileKeepsReceipts DEF WorkerStep
<1>3. CASE (\E c \in Clients : ClientStep(c)) \/ Environment
  BY <1>3, OutsideSteps, OutsideReceipts
<1>4. CASE UNCHANGED vars
  BY <1>4, OutsideReceipts DEF vars, recordVars
<1> QED  BY <1>2, <1>3, <1>4 DEF Next

LEMMA ReceiptInvariant == Spec => []ReceiptInv
<1>1. Init => ReceiptInv
  BY DEF Init, ReceiptInv, ReceiptRows, OneDestination, RequiredSpent, Idle, Events
<1> QED  BY <1>1, ReceiptInvStep, TypesInvariant, SpentOnceInvariant, PTL DEF Spec

(***************************************************************************)
(* However submissions race, the receipts agree with the Evidence row by   *)
(* row and with each other on the destination (unless two were in flight   *)
(* together), and under CAPABILITY_REQUIRED each stands for the spent      *)
(* Capability (submit_execution_receipt, reconcile_decision).              *)
(***************************************************************************)
THEOREM ReceiptsAreSound == Spec => []ReceiptsSound
<1>1. Types /\ SpentOnce /\ ReceiptInv => ReceiptsSound
  <2> SUFFICES ASSUME Types, SpentOnce, ReceiptInv PROVE ReceiptsSound  OBVIOUS
  <2>1. ReceiptsMatchEvidence
    <3> SUFFICES ASSUME NEW s \in ReceiptStatuses
                 PROVE  /\ evidence[Accepted(s)] = Cardinality({r \in receipts : r.status = s})
                        /\ evidence[Accepted(s)] <= 1
      BY DEF ReceiptsMatchEvidence
    <3>1. CASE \E r \in receipts : r.status = s
      <4>1. PICK r \in receipts : r.status = s  BY <3>1
      <4>2. {q \in receipts : q.status = s} = {r}  BY <4>1 DEF ReceiptInv, ReceiptRows
      <4>3. Cardinality({q \in receipts : q.status = s}) = 1  BY <4>2, FS_Singleton
      <4> QED  BY <3>1, <4>3 DEF ReceiptInv, ReceiptRows
    <3>2. CASE ~\E r \in receipts : r.status = s
      <4>1. {q \in receipts : q.status = s} = {}  BY <3>2
      <4>2. Cardinality({q \in receipts : q.status = s}) = 0  BY <4>1, FS_EmptySet
      <4> QED  BY <3>2, <4>2 DEF ReceiptInv, ReceiptRows
    <3> QED  BY <3>1, <3>2
  <2>2. DestinationConsistent  BY DEF ReceiptInv, OneDestination, DestinationConsistent
  <2>3. RequiredMeansSpent
    BY DEF ReceiptInv, RequiredSpent, RequiredMeansSpent, SpentOnce
  <2> QED  BY <2>1, <2>2, <2>3 DEF ReceiptsSound
<1> QED  BY <1>1, TypesInvariant, SpentOnceInvariant, ReceiptInvariant, PTL

-----------------------------------------------------------------------------
(* Reconciled outcomes.  Without overlap a reconciliation sees every result *)
(* before it, so the results are in the order of computed_at and each was  *)
(* found on records that have only grown since.                            *)

Rank(X) == SetMax({i \in DOMAIN Precedence : Precedence[i] \in X})

LEMMA RankGrows ==
    ASSUME NEW X, NEW Y, X \subseteq Y
    PROVE  Rank(X) \in Nat /\ Rank(Y) \in Nat /\ Rank(X) <= Rank(Y)
<1> DEFINE I(Z) == {i \in DOMAIN Precedence : Precedence[i] \in Z}
<1>1. DOMAIN Precedence = 1..5  BY DEF Precedence
<1>2. \A Z : I(Z) \in SUBSET Nat /\ \A i \in I(Z) : i <= 5  BY <1>1
<1>3. I(X) \subseteq I(Y)  OBVIOUS
<1>4. Rank(X) = SetMax(I(X)) /\ Rank(Y) = SetMax(I(Y))  BY DEF Rank
<1> HIDE DEF I
<1>5. /\ SetMax(I(X)) \in Nat /\ SetMax(I(Y)) \in Nat
      /\ I(X) # {} => SetMax(I(X)) \in I(X)
      /\ \A i \in I(Y) : i <= SetMax(I(Y))
  BY <1>2, SetMaxGreatest
<1>6. I(X) = {} => SetMax(I(X)) = 0  BY DEF SetMax
<1> QED  BY <1>3, <1>4, <1>5, <1>6

\* How far a finding is along the fixed order.
LEMMA FindingStanding ==
    ASSUME NEW q \in ReconcileRequest, NEW X \in SUBSET ReceiptStatuses
    PROVE  Standing(Finding(q, X)) =
              IF q.label = "CAPABILITY_REQUIRED" /\ ~q.consumed THEN 0 ELSE 1 + Rank(X)
<1> DEFINE f == Finding(q, X)
<1>0. /\ f.outcome = "MISMATCHED" <=> (q.label = "CAPABILITY_REQUIRED" /\ ~q.consumed)
      /\ f.outcome = "RECEIPT_MISSING" <=> ~(q.label = "CAPABILITY_REQUIRED" /\ ~q.consumed) /\ X = {}
      /\ f.outcome \notin {"MISMATCHED", "RECEIPT_MISSING"} => X # {} /\ f.receipt = ChosenStatus(X)
  BY FindingArms
<1> HIDE DEF f
<1>1. CASE q.label = "CAPABILITY_REQUIRED" /\ ~q.consumed  BY <1>0, <1>1 DEF Standing, f
<1>2. CASE ~(q.label = "CAPABILITY_REQUIRED" /\ ~q.consumed) /\ X = {}
  <2>1. Rank(X) = 0  BY <1>2 DEF Rank, SetMax
  <2> QED  BY <1>0, <1>2, <2>1 DEF Standing, f
<1>3. CASE ~(q.label = "CAPABILITY_REQUIRED" /\ ~q.consumed) /\ X # {}
  <2>1. f.outcome \notin {"MISMATCHED", "RECEIPT_MISSING"} /\ f.receipt = Precedence[Rank(X)]
    BY <1>0, <1>3 DEF ChosenStatus, Rank
  <2>2. Rank(X) \in 1..5
    <3>1. ChosenStatus(X) \in X  BY <1>3, ChosenReported
    <3>2. ChosenStatus(X) \in {Precedence[i] : i \in 1..5}
      BY <3>1, ValuesAssumption DEF StatusToOutcome, Precedence
    <3>3. PICK i \in 1..5 : ChosenStatus(X) = Precedence[i]  BY <3>2
    <3>4. i \in {j \in DOMAIN Precedence : Precedence[j] \in X}  BY <3>1, <3>3 DEF Precedence
    <3>5. {j \in DOMAIN Precedence : Precedence[j] \in X} \in SUBSET (1..5)  BY DEF Precedence
    <3>6. SetMax({j \in DOMAIN Precedence : Precedence[j] \in X}) \in {j \in DOMAIN Precedence : Precedence[j] \in X}
      BY <3>4, <3>5, SetMaxGreatest
    <3> QED  BY <3>5, <3>6 DEF Rank
  <2>3. \A i, j \in 1..5 : Precedence[i] = Precedence[j] => i = j  BY DEF Precedence
  <2>4. DOMAIN Precedence = 1..5  BY DEF Precedence
  <2>5. (CHOOSE i \in DOMAIN Precedence : Precedence[i] = f.receipt) = Rank(X)
    BY <2>1, <2>2, <2>3, <2>4
  <2>6. Standing(f) = 1 + (CHOOSE i \in DOMAIN Precedence : Precedence[i] = f.receipt)
    BY <2>1 DEF Standing
  <2> QED  BY <1>3, <2>5, <2>6 DEF f
<1> QED  BY <1>1, <1>2, <1>3

\* The row a reconciliation under this label finds on these records, or on
\* fewer: spent says that the Capability was consumed.
FoundOn(row, label, spent, statuses) ==
    /\ \E q \in ReconcileRequest : q.label = label /\ row = Finding(q, row.basis.statuses)
    /\ row.basis.consumed => spent
    /\ row.basis.statuses \subseteq statuses

Spent == capability = "consumed"
Reported == {r.status : r \in receipts}

Reconciling(w) == request[w].stage \in {"reconcile", "persist"}

\* A row that follows the latest result
Advances(row) ==
    results # << >> =>
        /\ Standing(row) >= Standing(results[Len(results)])
        /\ ~SameDigest(results[Len(results)], row)

InOrder ==
    "persist" \notin overlapped /\ ~relabelled =>
        /\ \A v, w \in Workers : Reconciling(v) /\ Reconciling(w) => v = w
        /\ \A i, j \in DOMAIN results : i < j => results[i].at < results[j].at
        /\ \A w \in Workers, i \in DOMAIN results : Reconciling(w) => results[i].at < request[w].at
        /\ \A i \in DOMAIN results : FoundOn(results[i], assurance, Spent, Reported)
        /\ \A w \in Workers : request[w].stage = "reconcile" =>
              /\ request[w].label = assurance
              /\ request[w].consumed => Spent
              /\ \A i \in DOMAIN results : results[i].basis.consumed => request[w].consumed
        /\ \A w \in Workers : request[w].stage = "persist" =>
              FoundOn(request[w].row, assurance, Spent, Reported) /\ Advances(request[w].row)

\* The latest result by computed_at is the last one.
LEMMA LatestIsLast ==
    ASSUME results \in Seq(Result), results # << >>,
           \A i, j \in DOMAIN results : i < j => results[i].at < results[j].at
    PROVE  Latest = results[Len(results)]
<1> DEFINE n == Len(results)
<1>1. n \in DOMAIN results /\ DOMAIN results = 1..n /\ n \in Nat  OBVIOUS
<1>2. \A i \in DOMAIN results : results[i].at \in Nat
  <2>1. \A i \in DOMAIN results : results[i] \in Result  OBVIOUS
  <2> QED  BY <2>1 DEF Result
<1>3. \A j \in DOMAIN results : results[j].at <= results[n].at
  <2> SUFFICES ASSUME NEW j \in DOMAIN results PROVE results[j].at <= results[n].at  OBVIOUS
  <2>1. CASE j = n  BY <1>1, <1>2, <2>1
  <2>2. CASE j # n
    <3>1. j < n  BY <1>1, <2>2
    <3> QED  BY <1>1, <1>2, <3>1
  <2> QED  BY <2>1, <2>2
<1>4. \A i \in DOMAIN results : (\A j \in DOMAIN results : results[j].at <= results[i].at) => i = n
  <2> SUFFICES ASSUME NEW i \in DOMAIN results, i # n PROVE ~(results[n].at <= results[i].at)
    BY <1>1
  <2>1. i < n  BY <1>1
  <2> QED  BY <1>1, <1>2, <2>1
<1>5. (CHOOSE i \in DOMAIN results : \A j \in DOMAIN results : results[j].at <= results[i].at) = n
  BY <1>1, <1>3, <1>4
<1> QED  BY <1>5 DEF Latest

LEMMA FoundOnMore ==
    ASSUME NEW row, NEW label, NEW spent, NEW more, NEW X, NEW Y,
           FoundOn(row, label, spent, X), spent => more, X \subseteq Y
    PROVE  FoundOn(row, label, more, Y)
  BY DEF FoundOn

\* A step that neither adds a result nor moves a reconciliation on.
LEMMA QuietInOrder ==
    ASSUME InOrder, UNCHANGED results, Spent => Spent', Reported \subseteq Reported',
           (relabelled' = relabelled /\ assurance' = assurance) \/ relabelled',
           "persist" \in overlapped => "persist" \in overlapped',
           \A w \in Workers : Reconciling(w)' => request'[w] = request[w]
    PROVE  InOrder'
<1> SUFFICES ASSUME "persist" \notin overlapped', ~relabelled' PROVE InOrder'  BY DEF InOrder
<1>0. "persist" \notin overlapped /\ ~relabelled /\ assurance' = assurance  OBVIOUS
<1>1. \A w \in Workers : Reconciling(w)' => Reconciling(w)  BY DEF Reconciling
<1>2. \A i \in DOMAIN results : FoundOn(results[i], assurance', Spent', Reported')
  BY <1>0, FoundOnMore DEF InOrder
<1>3. ASSUME NEW w \in Workers, request'[w].stage = "persist"
      PROVE  FoundOn(request'[w].row, assurance', Spent', Reported') /\ Advances(request'[w].row)
  <2>1. request'[w] = request[w]  BY <1>3 DEF Reconciling
  <2>2. FoundOn(request[w].row, assurance, Spent, Reported) /\ Advances(request[w].row)
    BY <1>0, <1>3, <2>1 DEF InOrder
  <2> QED  BY <1>0, <2>1, <2>2, FoundOnMore
<1>4. ASSUME NEW w \in Workers, request'[w].stage = "reconcile"
      PROVE  /\ request'[w].label = assurance'
             /\ request'[w].consumed => Spent'
             /\ \A i \in DOMAIN results : results[i].basis.consumed => request'[w].consumed
  <2>1. request'[w] = request[w]  BY <1>4 DEF Reconciling
  <2> QED  BY <1>0, <1>4, <2>1 DEF InOrder
<1>5. \A v, w \in Workers : Reconciling(v)' /\ Reconciling(w)' => v = w  BY <1>0, <1>1 DEF InOrder
<1>6. /\ \A i, j \in DOMAIN results : i < j => results[i].at < results[j].at
      /\ \A w \in Workers, i \in DOMAIN results : Reconciling(w)' => results[i].at < request'[w].at
  BY <1>0, <1>1 DEF InOrder
<1>7. \A w \in Workers : request'[w].stage = "persist" => Advances(request[w].row)'
  BY <1>3 DEF Advances, Reconciling
<1> QED  BY <1>2, <1>3, <1>4, <1>5, <1>6, <1>7 DEF InOrder

LEMMA ReconcileInOrder ==
    ASSUME Types, InOrder, NEW w \in Workers, reconcile_decision(w)
    PROVE  InOrder'
<1> SUFFICES ASSUME "persist" \notin overlapped', ~relabelled' PROVE InOrder'  BY DEF InOrder
<1> DEFINE now == After(ResultMoments)
<1>0. /\ ServerTypes /\ RecordTypes
      /\ UNCHANGED <<results, receipts, assurance, capability, relabelled>>
  BY DEF Types, reconcile_decision, recordVars
<1>1. /\ request'[w].stage = "reconcile" /\ request'[w].label = assurance
      /\ request'[w].consumed = Spent /\ request'[w].at = now
      /\ \A v \in Workers : v # w => request'[v] = request[v]
  BY <1>0 DEF reconcile_decision, ServerTypes, ResultMoments, Spent
<1>2. "persist" \notin overlapped /\ ~relabelled /\ \A v \in Workers : v # w => ~Reconciling(v)
  BY <1>0 DEF reconcile_decision, Overlap, Reconciling
<1>3. \A v \in Workers : Reconciling(v)' => v = w
  BY <1>1, <1>2 DEF Reconciling
<1>4. \A i \in DOMAIN results : results[i].at < now
  <2>1. \A i \in DOMAIN results : results[i].at \in ResultMoments  BY DEF ResultMoments
  <2> QED  BY <1>0, <2>1, MomentsBounded, AfterLater, BoundsAssumption
<1>5. /\ \A i, j \in DOMAIN results : i < j => results[i].at < results[j].at
      /\ \A i \in DOMAIN results : FoundOn(results[i], assurance, Spent, Reported)
  BY <1>2 DEF InOrder
<1>6. \A i \in DOMAIN results : results[i].basis.consumed => Spent  BY <1>5 DEF FoundOn
<1>7. Spent' = Spent /\ Reported' = Reported  BY <1>0 DEF Spent, Reported
<1>8. \A v \in Workers : request'[v].stage = "persist" => v # w  BY <1>1
<1> HIDE DEF now
<1> QED  BY <1>0, <1>1, <1>3, <1>4, <1>5, <1>6, <1>7, <1>8 DEF InOrder, Reconciling

\* A finding on the records of a result, or on more, stands no lower.
LEMMA StandingGrows ==
    ASSUME NEW row, NEW X \in SUBSET ReceiptStatuses, NEW q \in ReconcileRequest,
           NEW spent, FoundOn(row, q.label, spent, X), row.basis.consumed => q.consumed
    PROVE  Standing(Finding(q, X)) >= Standing(row)
<1>1. PICK p \in ReconcileRequest : p.label = q.label /\ row = Finding(p, row.basis.statuses)
  BY DEF FoundOn
<1> DEFINE Y == row.basis.statuses
<1>2. Y \in SUBSET ReceiptStatuses /\ Y \subseteq X  BY DEF FoundOn
<1>3. row.basis.consumed = p.consumed
  <2>1. Finding(p, Y).basis = [consumed |-> p.consumed, statuses |-> Y]  BY <1>2, FindingArms
  <2> QED  BY <1>1, <2>1
<1> HIDE DEF Y
<1>4. Standing(row) = IF q.label = "CAPABILITY_REQUIRED" /\ ~p.consumed THEN 0 ELSE 1 + Rank(Y)
  BY <1>1, <1>2, FindingStanding DEF Y
<1>5. Standing(Finding(q, X)) = IF q.label = "CAPABILITY_REQUIRED" /\ ~q.consumed THEN 0 ELSE 1 + Rank(X)
  BY FindingStanding
<1>6. Rank(Y) \in Nat /\ Rank(X) \in Nat /\ Rank(Y) <= Rank(X)  BY <1>2, RankGrows
<1> QED  BY <1>3, <1>4, <1>5, <1>6

LEMMA ReadInOrder ==
    ASSUME Types, InOrder, NEW w \in Workers, ReadReceipts(w)
    PROVE  InOrder'
<1> SUFFICES ASSUME "persist" \notin overlapped', ~relabelled' PROVE InOrder'  BY DEF InOrder
<1> DEFINE row == Finding(request[w], Reported)
<1>0. /\ ServerTypes
      /\ UNCHANGED <<results, receipts, overlapped, assurance, capability, relabelled>>
      /\ request' = [request EXCEPT ![w] =
            IF IsNew(row) THEN [stage |-> "persist", row |-> row, at |-> row.at] ELSE Idle]
      /\ request[w] \in ReconcileRequest /\ request[w].stage = "reconcile"
  BY RequestShape DEF Types, ReadReceipts, recordVars, Reported
<1>1. "persist" \notin overlapped /\ ~relabelled  BY <1>0
<1>2. Reported \in SUBSET ReceiptStatuses  BY <1>0 DEF ServerTypes, Receipt, Reported
<1>3. row.at = request[w].at /\ row.basis = [consumed |-> request[w].consumed, statuses |-> Reported]
  BY <1>0, <1>2, FindingArms
<1>4. /\ request[w].label = assurance /\ (request[w].consumed => Spent)
      /\ \A i \in DOMAIN results : results[i].basis.consumed => request[w].consumed
      /\ \A i \in DOMAIN results : results[i].at < request[w].at
      /\ \A i \in DOMAIN results : FoundOn(results[i], assurance, Spent, Reported)
      /\ \A i, j \in DOMAIN results : i < j => results[i].at < results[j].at
      /\ \A v \in Workers : v # w => ~Reconciling(v)
  BY <1>0, <1>1 DEF InOrder, Reconciling
<1>5. FoundOn(row, assurance, Spent, Reported)
  <2>1. row = Finding(request[w], row.basis.statuses)  BY <1>3
  <2> QED  BY <1>0, <1>1, <1>3, <1>4, <2>1 DEF FoundOn, InOrder
<1>6. IsNew(row) => Advances(row)
  <2> SUFFICES ASSUME IsNew(row), results # << >>
               PROVE  /\ Standing(row) >= Standing(results[Len(results)])
                      /\ ~SameDigest(results[Len(results)], row)
    BY DEF Advances
  <2>1. results \in Seq(Result) /\ Len(results) \in DOMAIN results  BY <1>0 DEF ServerTypes
  <2>2. Latest = results[Len(results)]  BY <1>4, <2>1, LatestIsLast
  <2>3. ~SameDigest(results[Len(results)], row)  BY <2>2 DEF IsNew
  <2>4. /\ FoundOn(results[Len(results)], request[w].label, Spent, Reported)
        /\ results[Len(results)].basis.consumed => request[w].consumed
    BY <1>0, <1>1, <1>4, <2>1 DEF InOrder
  <2>5. Standing(row) >= Standing(results[Len(results)])
    BY <1>0, <1>2, <2>4, StandingGrows
  <2> QED  BY <2>3, <2>5
<1> HIDE DEF row
<1>7. Spent' = Spent /\ Reported' = Reported  BY <1>0 DEF Spent, Reported
<1>8. \A v \in Workers : v # w => request'[v] = request[v]  BY <1>0 DEF ServerTypes
<1>9. CASE IsNew(row)
  <2>1. request'[w].stage = "persist" /\ request'[w].row = row /\ request'[w].at = row.at
    BY <1>0, <1>9 DEF ServerTypes
  <2>2. \A v \in Workers : Reconciling(v)' => v = w  BY <1>4, <1>8 DEF Reconciling
  <2>3. \A v \in Workers : request'[v].stage = "persist" => v = w  BY <2>2 DEF Reconciling
  <2>4. \A v \in Workers : request'[v].stage # "reconcile"  BY <2>1, <2>2 DEF Reconciling
  <2>5. \A v \in Workers : request'[v].stage = "persist" => Advances(request[v].row)'
    BY <1>0, <1>6, <1>9, <2>1, <2>3 DEF Advances
  <2>6. \A v \in Workers : request'[v].stage = "persist" =>
           FoundOn(request'[v].row, assurance', Spent', Reported')
    BY <1>0, <1>5, <1>7, <2>1, <2>3
  <2>7. \A v \in Workers, i \in DOMAIN results : Reconciling(v)' => results[i].at < request'[v].at
    BY <1>3, <1>4, <2>1, <2>2
  <2> QED  BY <1>0, <1>4, <1>7, <2>2, <2>4, <2>5, <2>6, <2>7 DEF InOrder
<1>10. CASE ~IsNew(row)
  <2>1. request'[w].stage = "idle"  BY <1>0, <1>10 DEF ServerTypes, Idle
  <2>2. \A v \in Workers : ~Reconciling(v)'  BY <1>4, <1>8, <2>1 DEF Reconciling
  <2> QED  BY <1>0, <1>4, <1>7, <2>2 DEF InOrder, Reconciling
<1> QED  BY <1>9, <1>10

LEMMA PersistInOrder ==
    ASSUME Types, InOrder, NEW w \in Workers, PersistResult(w)
    PROVE  /\ InOrder'
           /\ results # << >> /\ "persist" \notin overlapped /\ ~relabelled =>
                 Standing(Latest') >= Standing(Latest) /\ ~SameDigest(Latest', Latest)
<1> SUFFICES ASSUME "persist" \notin overlapped, ~relabelled
             PROVE  /\ InOrder'
                    /\ results # << >> =>
                          Standing(Latest') >= Standing(Latest) /\ ~SameDigest(Latest', Latest)
  BY DEF InOrder, PersistResult, recordVars
<1> DEFINE row == request[w].row
           n == Len(results)
<1>0. /\ ServerTypes
      /\ UNCHANGED <<receipts, overlapped, assurance, capability, relabelled>>
      /\ request' = [request EXCEPT ![w] = Idle]
      /\ results' = Append(results, row)
      /\ request[w] \in PersistRequest /\ request[w].stage = "persist"
  BY RequestShape DEF Types, PersistResult, recordVars
<1>1. /\ \A v \in Workers : v # w => ~Reconciling(v)
      /\ \A i \in DOMAIN results : results[i].at < row.at
      /\ \A i, j \in DOMAIN results : i < j => results[i].at < results[j].at
      /\ \A i \in DOMAIN results : FoundOn(results[i], assurance, Spent, Reported)
      /\ FoundOn(row, assurance, Spent, Reported) /\ Advances(row)
  <2>1. row.at = request[w].at  BY <1>0 DEF ServerTypes
  <2> QED  BY <1>0, <2>1 DEF InOrder, Reconciling
<1>2. row \in Result /\ results \in Seq(Result)  BY <1>0 DEF PersistRequest, ServerTypes
<1>3. /\ results' \in Seq(Result) /\ Len(results') = n + 1 /\ results'[n + 1] = row
      /\ DOMAIN results' = DOMAIN results \cup {n + 1} /\ n \in Nat /\ DOMAIN results = 1..n
      /\ \A i \in DOMAIN results : results'[i] = results[i] /\ i < n + 1
  BY <1>0, <1>2
<1> HIDE DEF row, n
<1>4. \A i, j \in DOMAIN results' : i < j => results'[i].at < results'[j].at
  <2> SUFFICES ASSUME NEW i \in DOMAIN results', NEW j \in DOMAIN results', i < j
               PROVE  results'[i].at < results'[j].at
    OBVIOUS
  <2>1. i \in DOMAIN results  BY <1>3
  <2>2. CASE j = n + 1  BY <1>1, <1>3, <2>1, <2>2
  <2>3. CASE j \in DOMAIN results  BY <1>1, <1>3, <2>1, <2>3
  <2> QED  BY <1>3, <2>2, <2>3
<1>5. \A i \in DOMAIN results' : FoundOn(results'[i], assurance, Spent, Reported)  BY <1>1, <1>3
<1>6. \A v \in Workers : ~Reconciling(v)'
  BY <1>0, <1>1 DEF ServerTypes, Reconciling, Idle
<1>7. Spent' = Spent /\ Reported' = Reported  BY <1>0 DEF Spent, Reported
<1>8. InOrder'  BY <1>0, <1>4, <1>5, <1>6, <1>7 DEF InOrder, Reconciling
<1>9. ASSUME results # << >>
      PROVE  Standing(Latest') >= Standing(Latest) /\ ~SameDigest(Latest', Latest)
  <2>1. Latest = results[n]  BY <1>1, <1>2, <1>9, LatestIsLast DEF n
  <2>2. Latest' = row
    <3>1. results' # << >>  BY <1>3
    <3>2. ((results \in Seq(Result) /\ results # << >>
             /\ \A i, j \in DOMAIN results : i < j => results[i].at < results[j].at)
          => Latest = results[Len(results)])'
      BY LatestIsLast, PTL
    <3>3. Latest' = results'[Len(results')]  BY <1>3, <1>4, <3>1, <3>2
    <3> QED  BY <1>3, <3>3
  <2>3. Standing(row) >= Standing(results[n]) /\ ~SameDigest(results[n], row)
    BY <1>1, <1>9 DEF Advances, n
  <2> QED  BY <2>1, <2>2, <2>3 DEF SameDigest
<1> QED  BY <1>8, <1>9

LEMMA InOrderStep == Types /\ SpentOnce /\ InOrder /\ [Next]_vars => InOrder'
<1> SUFFICES ASSUME Types, SpentOnce, InOrder, [Next]_vars PROVE InOrder'  OBVIOUS
<1>0. ServerTypes  BY DEF Types
<1>1. ASSUME NEW w \in Workers, NEW s \in ReceiptStatuses, NEW d \in Destinations, NEW b \in BOOLEAN,
             submit_execution_receipt(w, s, d, b)
      PROVE  InOrder'
  <2>1. /\ UNCHANGED <<results, receipts, capability, assurance, relabelled>>
        /\ request'[w].stage = "receipt" /\ \A v \in Workers : v # w => request'[v] = request[v]
        /\ overlapped \subseteq overlapped'
    BY <1>0, <1>1 DEF submit_execution_receipt, recordVars, ServerTypes, Overlap
  <2>2. \A v \in Workers : Reconciling(v)' => request'[v] = request[v]  BY <2>1 DEF Reconciling
  <2>3. Spent' = Spent /\ Reported' = Reported  BY <2>1 DEF Spent, Reported
  <2> QED  BY <2>1, <2>2, <2>3, QuietInOrder
<1>2. ASSUME NEW w \in Workers, CommitReceipt(w) \/ Abandon(w) PROVE InOrder'
  <2>1. /\ UNCHANGED <<results, overlapped, capability, assurance, relabelled>>
        /\ request' = [request EXCEPT ![w] = Idle] /\ receipts \subseteq receipts'
    BY <1>2 DEF CommitReceipt, Abandon, recordVars
  <2>2. \A v \in Workers : Reconciling(v)' => request'[v] = request[v]
    BY <1>0, <2>1 DEF Reconciling, ServerTypes, Idle
  <2>3. Spent' = Spent /\ Reported \subseteq Reported'  BY <2>1 DEF Spent, Reported
  <2> QED  BY <2>1, <2>2, <2>3, QuietInOrder
<1>3. ASSUME NEW w \in Workers, WorkerStep(w) PROVE InOrder'
  BY <1>1, <1>2, <1>3, ReconcileInOrder, ReadInOrder, PersistInOrder DEF WorkerStep
<1>4. ASSUME UNCHANGED serverVars, capability = "consumed" => capability' = "consumed",
             (relabelled' = relabelled /\ assurance' = assurance) \/ relabelled'
      PROVE  InOrder'
  <2>1. /\ UNCHANGED <<results, overlapped, request>>
        /\ (Spent => Spent') /\ Reported' = Reported
    BY <1>4 DEF serverVars, Spent, Reported
  <2> QED  BY <1>4, <2>1, QuietInOrder
<1>5. CASE (\E c \in Clients : ClientStep(c)) \/ Environment  BY <1>4, <1>5, OutsideSteps
<1>6. CASE UNCHANGED vars  BY <1>4, <1>6 DEF vars, recordVars
<1> QED  BY <1>3, <1>5, <1>6 DEF Next

LEMMA InOrderInvariant == Spec => []InOrder
<1>1. Init => InOrder  BY DEF Init, InOrder, Reconciling, Idle
<1> QED  BY <1>1, InOrderStep, TypesInvariant, SpentOnceInvariant, PTL DEF Spec

(***************************************************************************)
(* Out-of-order receipts never take a reconciled outcome back: while       *)
(* reconciliations do not overlap and the label is left alone, each new    *)
(* result stands no lower in _TERMINAL_PRECEDENCE than the one it follows  *)
(* and says something else (reconcile_decision, _latest_existing_result).  *)
(***************************************************************************)
THEOREM OutcomesAdvance == Spec => OutcomeNeverRegresses
<1>1. Types /\ SpentOnce /\ InOrder /\ [Next]_vars =>
        [results # << >> /\ results' # results /\ "persist" \notin overlapped /\ ~relabelled
           => Standing(Latest') >= Standing(Latest) /\ ~SameDigest(Latest', Latest)]_vars
  <2> SUFFICES ASSUME Types, SpentOnce, InOrder, [Next]_vars, results # << >>, results' # results,
                      "persist" \notin overlapped, ~relabelled
               PROVE  Standing(Latest') >= Standing(Latest) /\ ~SameDigest(Latest', Latest)
    OBVIOUS
  <2>1. ~UNCHANGED serverVars /\ ~UNCHANGED vars  BY DEF vars, serverVars
  <2>2. PICK w \in Workers : WorkerStep(w)
    BY <2>1, OutsideSteps DEF Next
  <2>3. PersistResult(w)
    BY <2>2 DEF WorkerStep, submit_execution_receipt, CommitReceipt, reconcile_decision, ReadReceipts, Abandon
  <2> QED  BY <2>3, PersistInOrder
<1> QED  BY <1>1, TypesInvariant, SpentOnceInvariant, InOrderInvariant, PTL DEF Spec, OutcomeNeverRegresses

-----------------------------------------------------------------------------
(* The loop implements SingleUsePermission, for one decision: a permission *)
(* is an issued Capability, and its use is the start of the downstream     *)
(* operation.                                                              *)

BasisNow ==
    IF decision = NONE THEN "open"
    ELSE IF Authorized THEN "authorized"
    ELSE IF Pending THEN "open" ELSE "refused"

Basis == [d \in {"operation"} |-> BasisNow]
Permitted == IF capability = "none" THEN {} ELSE {"operation"}
Uses == [d \in {"operation"} |-> ran]

Permission == INSTANCE SingleUsePermission WITH
    Decisions <- {"operation"}, basis <- Basis, permitted <- Permitted, uses <- Uses

\* A decision's basis is settled once.
LEMMA EndpointSettles ==
    ASSUME RecordTypes, NEW kind \in Kinds, NEW a \in Answers, Endpoint(kind, a)
    PROVE  \/ BasisNow' = BasisNow
           \/ /\ capability' = capability /\ BasisNow = "open"
              /\ BasisNow' \in {"authorized", "refused"}
<1>1. CASE UNCHANGED decision  BY <1>1 DEF BasisNow, Authorized, Pending
<1>2. CASE decision = NONE /\ attest(a)
  <2>1. capability' = capability /\ BasisNow = "open" /\ BasisNow' \in {"open", "authorized", "refused"}
    BY <1>2 DEF attest, BasisNow
  <2> QED  BY <2>1
<1> QED  BY <1>1, <1>2 DEF Endpoint, attest, get_decision, request_capability, verify_capability

\* What is issued is authorised then.
LEMMA EndpointPermits ==
    ASSUME RecordTypes, NEW kind \in Kinds, NEW a \in Answers, Endpoint(kind, a),
           capability = "none", capability' # "none"
    PROVE  Authorized /\ UNCHANGED decision
  BY DEF Endpoint, attest, get_decision, request_capability, verify_capability

\* An endpoint's step is a step of the permission or a stutter.
LEMMA EndpointPermission ==
    ASSUME RecordTypes, SpentOnce, NEW kind \in Kinds, NEW a \in Answers, Endpoint(kind, a),
           UNCHANGED ran
    PROVE  [Permission!Next]_<<Basis, Permitted, Uses>>
<1>0. Uses' = Uses  BY DEF Uses
<1>1. /\ \/ capability' = capability
         \/ capability = "none" /\ capability' = "issued"
         \/ capability = "issued" /\ capability' = "consumed"
  BY EndpointSpends DEF SpentOnce
<1>2. CASE capability = "none" /\ capability' # "none"
  <2>1. Authorized /\ UNCHANGED decision  BY <1>2, EndpointPermits
  <2>2. BasisNow = "authorized" /\ Basis' = Basis
    BY <2>1 DEF Basis, BasisNow, Authorized, Pending
  <2>3. Permitted = {} /\ Permitted' = {"operation"}  BY <1>2 DEF Permitted
  <2>4. Basis["operation"] = "authorized"  BY <2>2 DEF Basis
  <2>5. Permission!Permit("operation")
    BY <1>0, <2>2, <2>3, <2>4 DEF Permission!Permit
  <2> QED  BY <2>5 DEF Permission!Next
<1>3. CASE ~(capability = "none" /\ capability' # "none")
  <2>1. Permitted' = Permitted  BY <1>1, <1>3 DEF Permitted
  <2>2. CASE BasisNow' = BasisNow  BY <1>0, <2>1, <2>2 DEF Basis
  <2>3. CASE BasisNow = "open" /\ BasisNow' \in {"authorized", "refused"}
    <3>1. Basis["operation"] = "open" /\ Basis' = [Basis EXCEPT !["operation"] = BasisNow']
      BY <2>3 DEF Basis
    <3>2. Permission!Settle("operation")
      BY <1>0, <2>1, <2>3, <3>1 DEF Permission!Settle
    <3> QED  BY <3>2 DEF Permission!Next
  <2> QED  BY <2>2, <2>3, EndpointSettles
<1> QED  BY <1>2, <1>3

LEMMA PermissionStep ==
    ASSUME Types, SpentOnce, [Next]_vars
    PROVE  [Permission!Next]_<<Basis, Permitted, Uses>>
<1>0. RecordTypes  BY DEF Types
<1>1. ASSUME UNCHANGED <<decision, capability, ran>>
      PROVE  UNCHANGED <<Basis, Permitted, Uses>>
  BY <1>1 DEF Basis, BasisNow, Authorized, Pending, Permitted, Uses
<1>2. ASSUME NEW c \in Clients, Handle(c) PROVE [Permission!Next]_<<Basis, Permitted, Uses>>
  <2>1. PICK a \in Answers : Endpoint(call[c].doing, a)  BY <1>2 DEF Handle
  <2>2. call[c].doing \in Kinds /\ UNCHANGED ran  BY <1>2 DEF Handle
  <2> QED  BY <1>0, <2>1, <2>2, EndpointPermission
<1>3. ASSUME NEW k \in Kinds, HandleLate(k) PROVE [Permission!Next]_<<Basis, Permitted, Uses>>
  <2>1. PICK a \in Answers : Endpoint(k, a)  BY <1>3 DEF HandleLate
  <2>2. UNCHANGED ran  BY <1>3 DEF HandleLate
  <2> QED  BY <1>0, <2>1, <2>2, EndpointPermission
<1>4. ASSUME NEW c \in Clients, RunDownstream(c) PROVE Permission!Next
  <2>1. Holds(c) /\ ran' = ran + 1 /\ UNCHANGED <<decision, capability>>
    BY <1>4 DEF RunDownstream, Holds, recordVars
  <2>2. capability = "consumed" /\ ran = 0  BY <2>1 DEF SpentOnce
  <2>3. "operation" \in Permitted /\ Permitted' = Permitted  BY <2>1, <2>2 DEF Permitted
  <2>4. Uses["operation"] = 0 /\ Uses' = [Uses EXCEPT !["operation"] = 1]  BY <2>1, <2>2 DEF Uses
  <2>5. Basis' = Basis  BY <2>1 DEF Basis, BasisNow, Authorized, Pending
  <2>6. Permission!Use("operation")  BY <2>3, <2>4, <2>5 DEF Permission!Use
  <2> QED  BY <2>6 DEF Permission!Next
<1>5. ASSUME NEW v \in {"approved", "denied"}, resolve_decision(v) PROVE Permission!Next
  <2>1. decision \in Decision /\ Pending /\ UNCHANGED <<capability, ran>>
    BY <1>0, <1>5 DEF resolve_decision, RecordTypes, clientVars
  <2>2. decision' = [outcome |-> decision.outcome, resolution |-> v]
    BY <1>5, <2>1 DEF resolve_decision, Decision
  <2>3. BasisNow = "open" /\ BasisNow' \in {"authorized", "refused"}
    <3>1. decision' # NONE
      <4>1. decision' \in Decision  BY <2>1, <2>2 DEF Decision
      <4> QED  BY <4>1, ValuesAssumption
    <3>2. ~Pending' /\ NONE # "approved"  BY <2>2, ValuesAssumption DEF Pending
    <3> QED  BY <2>1, <3>1, <3>2, ValuesAssumption DEF BasisNow, Authorized, Pending
  <2>4. Basis["operation"] = "open" /\ Basis' = [Basis EXCEPT !["operation"] = BasisNow']
    BY <2>3 DEF Basis
  <2>5. Permitted' = Permitted /\ Uses' = Uses  BY <2>1 DEF Permitted, Uses
  <2>6. Permission!Settle("operation")  BY <2>3, <2>4, <2>5 DEF Permission!Settle
  <2> QED  BY <2>6 DEF Permission!Next
<1>6. ASSUME NEW c \in Clients, ClientStep(c) PROVE [Permission!Next]_<<Basis, Permitted, Uses>>
  <2>1. CASE Handle(c)  BY <1>2, <2>1
  <2>2. CASE RunDownstream(c)  BY <1>4, <2>2
  <2>3. CASE ~Handle(c) /\ ~RunDownstream(c)
    <3>1. UNCHANGED <<decision, capability, ran>>
      BY <1>6, <2>3 DEF ClientStep, Begin, Return, NoAnswer, CutOff, recordVars
    <3> QED  BY <1>1, <3>1
  <2> QED  BY <2>1, <2>2, <2>3
<1>7. ASSUME NEW w \in Workers, WorkerStep(w) PROVE UNCHANGED <<decision, capability, ran>>
  BY <1>7 DEF WorkerStep, submit_execution_receipt, CommitReceipt, reconcile_decision,
              ReadReceipts, PersistResult, Abandon, clientVars, recordVars
<1>8. CASE CapabilityExpires
  BY <1>8 DEF CapabilityExpires, clientVars, Basis, BasisNow, Authorized, Pending, Permitted, Uses
<1>9. CASE Environment
  <2>1. ASSUME NEW q \in Parties, PartyEnds(q) PROVE UNCHANGED <<decision, capability, ran>>
    BY <2>1 DEF PartyEnds, clientVars
  <2>2. ASSUME NEW l \in {"ADVISORY", "CAPABILITY_REQUIRED"}, set_enforcement_assurance(l)
        PROVE  UNCHANGED <<decision, capability, ran>>
    BY <2>2 DEF set_enforcement_assurance, clientVars
  <2> QED  BY <1>1, <1>3, <1>5, <1>8, <1>9, <2>1, <2>2 DEF Environment
<1>10. CASE UNCHANGED vars  BY <1>1, <1>10 DEF vars, clientVars, recordVars
<1> QED  BY <1>1, <1>6, <1>7, <1>9, <1>10 DEF Next

(***************************************************************************)
(* End to end: attestation, review, issuance, consumption and the          *)
(* downstream start implement the single-use permission of                 *)
(* SingleUsePermission, the start being its one use.                       *)
(***************************************************************************)
THEOREM LoopImplementsPermission == Spec => Permission!Spec
<1>1. Init => Permission!Init
  <2> SUFFICES ASSUME Init PROVE Permission!Init  OBVIOUS
  <2>1. Basis \in [{"operation"} -> {"open", "authorized", "refused"}]  BY DEF Init, Basis, BasisNow
  <2>2. Permitted = {} /\ Uses = [d \in {"operation"} |-> 0]  BY DEF Init, Permitted, Uses
  <2> QED  BY <2>1, <2>2 DEF Permission!Init
<1>2. Types /\ SpentOnce /\ [Next]_vars => [Permission!Next]_(Permission!vars)
  BY PermissionStep DEF Permission!vars
<1> QED  BY <1>1, <1>2, TypesInvariant, SpentOnceInvariant, PTL DEF Spec, Permission!Spec

-----------------------------------------------------------------------------
(* KeyCustody: the server's signing keys.                                  *)

KeyIds == {k.id : k \in SigningKeys}
KeyRow == [material : {k.material : k \in SigningKeys}, retired : BOOLEAN]

SigningTypes ==
    /\ registry \in [DOMAIN registry -> KeyRow]
    /\ DOMAIN registry \subseteq KeyIds
    /\ instance \in [Instances -> [stage : Booting \cup {"down", "serving"},
                                   key : SigningKeys \cup {Nothing}, seen : SUBSET KeyIds]]
    /\ \A i \in Instances : instance[i].stage # "down" => instance[i].key \in SigningKeys

RegisteredAs(key, rows) == key.id \in DOMAIN rows /\ rows[key.id].material = key.material

\* What is signed with is registered, or known not to be.
KeysRegistered ==
    /\ \A i \in Instances : instance[i].stage = "serving" =>
          instance[i].key \in unregistered \/ RegisteredAs(instance[i].key, registry)
    /\ \A key \in signed : key \in unregistered \/ RegisteredAs(key, registry)

\* One instance at a time registers, and has seen every row there is.
OneRegisters ==
    ~concurrentBoots =>
        /\ \A i, j \in Instances : instance[i].stage \in Booting /\ instance[j].stage \in Booting => i = j
        /\ \A i \in Instances : instance[i].stage = "insert" => instance[i].seen = DOMAIN registry
        /\ \A k, l \in DOMAIN registry : ~registry[k].retired /\ ~registry[l].retired => k = l

SigningInv == SigningTypes /\ KeysRegistered /\ OneRegisters

\* An instance reaches its next stage and leaves the registry alone.
LEMMA StageSigning ==
    ASSUME SigningInv, NEW i \in Instances, NEW next, Reach(i, next),
           next \in [stage : Booting \cup {"down", "serving"},
                     key : SigningKeys \cup {Nothing}, seen : SUBSET KeyIds],
           next.stage # "down" => next.key \in SigningKeys,
           UNCHANGED <<registry, signed>>, unregistered \subseteq unregistered',
           next.stage = "serving" =>
               next.key \in unregistered' \/ RegisteredAs(next.key, registry),
           concurrentBoots => concurrentBoots',
           ~concurrentBoots' =>
               /\ next.stage \in Booting => \A j \in Instances \ {i} : instance[j].stage \notin Booting
               /\ next.stage = "insert" => next.seen = DOMAIN registry
    PROVE  SigningInv'
<1>1. instance'[i] = next /\ \A j \in Instances : j # i => instance'[j] = instance[j]
  BY DEF SigningInv, SigningTypes, Reach
<1>2. SigningTypes'
  <2>1. instance' \in [Instances -> [stage : Booting \cup {"down", "serving"},
                                     key : SigningKeys \cup {Nothing}, seen : SUBSET KeyIds]]
    BY DEF SigningInv, SigningTypes, Reach
  <2> QED  BY <1>1, <2>1 DEF SigningInv, SigningTypes
<1>3. KeysRegistered'
  BY <1>1 DEF SigningInv, KeysRegistered
<1>4. OneRegisters'
  BY <1>1 DEF SigningInv, OneRegisters
<1> QED  BY <1>2, <1>3, <1>4 DEF SigningInv

LEMMA RegisterSigning ==
    ASSUME SigningInv, NEW i \in Instances, RegisterKey(i)
    PROVE  SigningInv'
<1> DEFINE key == instance[i].key
           new == [material |-> key.material, retired |-> FALSE]
           next == [instance[i] EXCEPT !.stage = "serving", !.seen = {}]
<1>0. /\ instance[i].stage = "insert" /\ key \in SigningKeys
      /\ UNCHANGED <<signed, concurrentBoots>>
      /\ Reach(i, next)
      /\ next.stage = "serving" /\ next.key = key /\ next.seen = {}
      /\ next \in [stage : Booting \cup {"down", "serving"},
                   key : SigningKeys \cup {Nothing}, seen : SUBSET KeyIds]
  BY DEF SigningInv, SigningTypes, RegisterKey
<1> HIDE DEF next
<1>1. CASE /\ key.id \in DOMAIN registry
           /\ unregistered' = unregistered \cup
                  IF registry[key.id].material # key.material THEN {key} ELSE {}
           /\ UNCHANGED registry
  <2>1. key \in unregistered' \/ RegisteredAs(key, registry)  BY <1>1 DEF RegisteredAs
  <2>2. "serving" \notin Booting /\ "serving" # "insert"  BY DEF Booting
  <2> QED  BY <1>0, <1>1, <2>1, <2>2, StageSigning
<1>2. CASE /\ key.id \notin DOMAIN registry
           /\ registry' = Put(RetireKeys(registry, instance[i].seen), key.id, new)
           /\ UNCHANGED unregistered
  <2>1. /\ DOMAIN registry' = DOMAIN registry \cup {key.id}
        /\ registry'[key.id] = new
    BY <1>2 DEF Put, RetireKeys
  <2>2. \A k \in DOMAIN registry :
           /\ registry'[k] = IF k \in instance[i].seen THEN [registry[k] EXCEPT !.retired = TRUE] ELSE registry[k]
           /\ registry[k] \in KeyRow
    BY <1>2 DEF Put, RetireKeys, SigningInv, SigningTypes
  <2>3. \A k \in DOMAIN registry :
           /\ registry'[k] \in KeyRow /\ registry'[k].material = registry[k].material
           /\ k \in instance[i].seen => registry'[k].retired
    BY <2>2 DEF KeyRow
  <2>4. new \in KeyRow /\ key.id \in KeyIds  BY <1>0 DEF KeyRow, KeyIds
  <2>5. instance'[i] = next /\ \A j \in Instances : j # i => instance'[j] = instance[j]
    BY <1>0 DEF SigningInv, SigningTypes, Reach
  <2>6. SigningTypes'
    <3>1. registry' \in [DOMAIN registry' -> KeyRow] /\ DOMAIN registry' \subseteq KeyIds
      <4>1. registry' = [k \in DOMAIN registry' |-> registry'[k]]
        BY <1>2 DEF Put
      <4> QED  BY <2>1, <2>3, <2>4, <4>1 DEF SigningInv, SigningTypes
    <3>2. instance' \in [Instances -> [stage : Booting \cup {"down", "serving"},
                                       key : SigningKeys \cup {Nothing}, seen : SUBSET KeyIds]]
      BY <1>0 DEF SigningInv, SigningTypes, Reach
    <3>3. \A j \in Instances : instance'[j].stage # "down" => instance'[j].key \in SigningKeys
      BY <1>0, <2>5 DEF SigningInv, SigningTypes
    <3> QED  BY <3>1, <3>2, <3>3 DEF SigningTypes
  <2>7. KeysRegistered'
    <3>1. \A k : RegisteredAs(k, registry) => RegisteredAs(k, registry')
      BY <2>1, <2>3 DEF RegisteredAs
    <3>2. RegisteredAs(key, registry')  BY <2>1 DEF RegisteredAs
    <3> HIDE DEF key
    <3> QED  BY <1>0, <1>2, <2>5, <3>1, <3>2 DEF SigningInv, KeysRegistered
  <2>8. OneRegisters'
    <3> SUFFICES ASSUME ~concurrentBoots
                 PROVE  /\ \A j \in Instances : instance'[j].stage \notin Booting
                        /\ \A k, l \in DOMAIN registry' : ~registry'[k].retired /\ ~registry'[l].retired => k = l
      BY <1>0 DEF OneRegisters, Booting
    <3>1. \A j \in Instances : j # i => instance[j].stage \notin Booting
      BY <1>0 DEF SigningInv, OneRegisters, Booting
    <3>2. \A j \in Instances : instance'[j].stage \notin Booting
      BY <1>0, <2>5, <3>1 DEF Booting
    <3>3. \A k \in DOMAIN registry : registry'[k].retired
      BY <1>0, <2>3 DEF SigningInv, OneRegisters
    <3> QED  BY <2>1, <3>2, <3>3
  <2> QED  BY <2>6, <2>7, <2>8 DEF SigningInv
<1> QED  BY <1>1, <1>2 DEF RegisterKey

LEMMA InstanceSigning ==
    ASSUME SigningInv, NEW i \in Instances, InstanceStep(i)
    PROVE  SigningInv'
<1> DEFINE Record == [stage : Booting \cup {"down", "serving"},
                      key : SigningKeys \cup {Nothing}, seen : SUBSET KeyIds]
<1>0. instance[i] \in Record  BY DEF SigningInv, SigningTypes
<1>1. ASSUME NEW key \in SigningKeys, Boot(i, key) PROVE SigningInv'
  <2> DEFINE next == [stage |-> "booting", key |-> key, seen |-> {}]
  <2>1. next \in Record /\ next.stage = "booting" /\ next.key = key  BY DEF Booting
  <2>2. /\ Reach(i, next) /\ UNCHANGED <<registry, signed, unregistered>>
        /\ concurrentBoots' = (concurrentBoots \/ \E j \in Instances \ {i} : instance[j].stage \in Booting)
    BY <1>1 DEF Boot
  <2> HIDE DEF next
  <2> QED  BY <2>1, <2>2, StageSigning
<1>2. CASE ensure_current_key_registered(i)
  <2> DEFINE key == instance[i].key
             known == [instance[i] EXCEPT !.stage = "serving"]
             fresh == [instance[i] EXCEPT !.stage = "new"]
  <2>1. instance[i].stage = "booting" /\ key \in SigningKeys /\ UNCHANGED <<registry, signed, concurrentBoots>>
    BY <1>2 DEF ensure_current_key_registered, SigningInv, SigningTypes
  <2>2. /\ known \in Record /\ known.stage = "serving" /\ known.key = key
        /\ fresh \in Record /\ fresh.stage = "new" /\ fresh.key = key
    BY <1>0 DEF Booting
  <2>3. ~concurrentBoots => \A j \in Instances \ {i} : instance[j].stage \notin Booting
    BY <2>1 DEF SigningInv, OneRegisters, Booting
  <2>4. "serving" \notin Booting  BY DEF Booting
  <2>5. CASE key.id \in DOMAIN registry
    <3>1. /\ Reach(i, known)
          /\ unregistered' = unregistered \cup
                 IF registry[key.id].material # key.material THEN {key} ELSE {}
      BY <1>2, <2>5 DEF ensure_current_key_registered
    <3>2. key \in unregistered' \/ RegisteredAs(key, registry)  BY <2>5, <3>1 DEF RegisteredAs
    <3> HIDE DEF known
    <3> QED  BY <2>1, <2>2, <2>4, <3>1, <3>2, StageSigning
  <2>6. CASE key.id \notin DOMAIN registry
    <3>1. Reach(i, fresh) /\ UNCHANGED unregistered
      BY <1>2, <2>6 DEF ensure_current_key_registered
    <3> HIDE DEF fresh
    <3> QED  BY <2>1, <2>2, <2>3, <3>1, StageSigning
  <2> QED  BY <2>5, <2>6
<1>3. CASE RetirePrevious(i)
  <2> DEFINE next == [instance[i] EXCEPT !.stage = "insert", !.seen = DOMAIN registry]
  <2>1. /\ instance[i].stage = "new" /\ instance[i].key \in SigningKeys
        /\ Reach(i, next) /\ UNCHANGED <<registry, signed, unregistered, concurrentBoots>>
    BY <1>3 DEF RetirePrevious, SigningInv, SigningTypes
  <2>2. next \in Record /\ next.stage = "insert" /\ next.key = instance[i].key /\ next.seen = DOMAIN registry
    BY <1>0 DEF Booting, SigningInv, SigningTypes
  <2>3. ~concurrentBoots => \A j \in Instances \ {i} : instance[j].stage \notin Booting
    BY <2>1 DEF SigningInv, OneRegisters, Booting
  <2> HIDE DEF next
  <2> QED  BY <2>1, <2>2, <2>3, StageSigning
<1>4. CASE RegisterKey(i)  BY <1>4, RegisterSigning
<1>5. CASE RegistrationFails(i)
  <2> DEFINE next == [instance[i] EXCEPT !.stage = "serving", !.seen = {}]
  <2>1. /\ instance[i].stage \in Booting /\ unregistered' = unregistered \cup {instance[i].key}
        /\ Reach(i, next) /\ UNCHANGED <<registry, signed, concurrentBoots>>
    BY <1>5 DEF RegistrationFails
  <2>2. instance[i].key \in SigningKeys /\ "serving" \notin Booting
    BY <2>1 DEF SigningInv, SigningTypes, Booting
  <2>3. next \in Record /\ next.stage = "serving" /\ next.key = instance[i].key
    BY <1>0
  <2> HIDE DEF next
  <2> QED  BY <2>1, <2>2, <2>3, StageSigning
<1>6. CASE Sign(i)
  BY <1>6 DEF Sign, SigningInv, SigningTypes, KeysRegistered, OneRegisters
<1> QED  BY <1>1, <1>2, <1>3, <1>4, <1>5, <1>6 DEF InstanceStep

LEMMA SigningStep == SigningInv /\ [KeyNext]_keyVars => SigningInv'
<1> SUFFICES ASSUME SigningInv, [KeyNext]_keyVars PROVE SigningInv'  OBVIOUS
<1>1. ASSUME UNCHANGED signingVars PROVE SigningInv'
  BY <1>1 DEF signingVars, SigningInv, SigningTypes, KeysRegistered, OneRegisters
<1>2. ASSUME NEW p \in Processes, ProcessStep(p) PROVE UNCHANGED signingVars
  BY <1>2 DEF ProcessStep, Start, register, retire, rotate_keys, create_agent, activate_agent,
              rotate_certificate, retire_agent, NotReached, ReadFile, WriteFile, Die
<1>3. CASE UNCHANGED keyVars  BY <1>1, <1>3 DEF keyVars
<1> QED  BY <1>1, <1>2, <1>3, InstanceSigning DEF KeyNext

LEMMA SigningInvariant == KeySpec => []SigningInv
<1>1. KeyInit => SigningInv
  <2> SUFFICES ASSUME KeyInit PROVE SigningInv  OBVIOUS
  <2>1. registry = << >> /\ DOMAIN registry = {} /\ registry \in [{} -> KeyRow]  BY DEF KeyInit
  <2>2. SigningTypes  BY <2>1 DEF KeyInit, SigningTypes, Off
  <2>3. KeysRegistered /\ OneRegisters  BY <2>1 DEF KeyInit, KeysRegistered, OneRegisters, Off, Booting
  <2> QED  BY <2>2, <2>3 DEF SigningInv
<1> QED  BY <1>1, SigningStep, PTL DEF KeySpec

(***************************************************************************)
(* In whatever order any number of instances boot, reboot and are deployed *)
(* with new or reused keys, Evidence signed under a registered key         *)
(* verifies on every instance, and one key is in force unless two          *)
(* registered at once (ensure_current_key_registered, verify_evidence).    *)
(***************************************************************************)
THEOREM SigningIsSound == KeySpec => []SigningSound
<1>1. SigningInv => SigningSound
  <2> SUFFICES ASSUME SigningInv PROVE SigningSound  OBVIOUS
  <2>1. EvidenceVerifiable
    BY DEF SigningInv, KeysRegistered, RegisteredAs, EvidenceVerifiable, verify_evidence, PublicKey
  <2>2. OneKeyInForce
    <3> DEFINE S == {k \in DOMAIN registry : ~registry[k].retired}
    <3> SUFFICES ASSUME ~concurrentBoots PROVE Cardinality(S) <= 1  BY DEF OneKeyInForce
    <3>1. CASE S = {}
      <4>1. Cardinality(S) = 0  BY <3>1, FS_EmptySet
      <4> QED  BY <4>1
    <3>2. CASE S # {}
      <4>1. PICK k \in S : S = {k}  BY <3>2 DEF SigningInv, OneRegisters
      <4>2. Cardinality(S) = 1  BY <4>1, FS_Singleton
      <4> QED  BY <4>2
    <3> QED  BY <3>1, <3>2
  <2> QED  BY <2>1, <2>2 DEF SigningSound
<1> QED  BY <1>1, SigningInvariant, PTL

-----------------------------------------------------------------------------
(* KeyCustody: the agents' credentials.                                    *)

Table == [AgentIds -> [status : {"unborn", "registered", "active", "retired"}, certificates : Seq(Keys)]]
Files == UNION {[D -> Credential] : D \in SUBSET Keys}
Change == [put : Keys, as : Credential \cup {Nothing}]
Process ==
    [stage : {"down", "idle", "create", "activate", "rotate", "retire", "file"},
     key : Keys \cup {Nothing}, identity : Credential \cup {Nothing}, tries : 1..MaxTries,
     fresh : Keys \cup Credential \cup {Nothing}, todo : Seq(Change), file : Files \cup {Nothing}]

\* What the stage of a process says about the rest of it
Shaped(r) ==
    /\ r.stage # "down" => r.key \in Keys
    /\ r.stage \in {"rotate", "retire", "file"} => r.identity \in Credential
    /\ r.stage = "activate" => r.fresh \in Credential
    /\ r.stage = "rotate" => r.fresh \in NewKeys
    /\ r.stage # "file" => r.todo = << >> /\ r.file = Nothing
    /\ r.file # Nothing => r.todo # << >>

CredentialTypes ==
    /\ agents \in Table
    /\ \A a \in AgentIds : agents[a] = Unborn \/ agents[a].certificates # << >>
    /\ store \in Files
    /\ proc \in [Processes -> Process]
    /\ \A p \in Processes : Shaped(proc[p])

\* In the table of agents, the credential names a certificate for the key.
Names(id, key, t) ==
    /\ id.certificate \in DOMAIN t[id.agent].certificates
    /\ t[id.agent].certificates[id.certificate] = key

NamedFile(f, t) == \A k \in DOMAIN f : Names(f[k], k, t)

NamedBy(r, t) ==
    /\ r.file # Nothing => NamedFile(r.file, t)
    /\ r.identity # Nothing => Names(r.identity, r.key, t)
    /\ r.stage = "activate" => Names(r.fresh, r.key, t)
    /\ \A i \in DOMAIN r.todo : r.todo[i].as # Nothing => Names(r.todo[i].as, r.todo[i].put, t)

CredentialsNamed == NamedFile(store, agents) /\ \A p \in Processes : NamedBy(proc[p], agents)

CredentialBase == CredentialTypes /\ CredentialsNamed

LEMMA FilesAreFunctions ==
    ASSUME NEW f
    PROVE  f \in Files <=> DOMAIN f \subseteq Keys /\ f \in [DOMAIN f -> Credential]
<1>1. ASSUME f \in Files PROVE DOMAIN f \subseteq Keys /\ f \in [DOMAIN f -> Credential]
  <2>1. PICK D \in SUBSET Keys : f \in [D -> Credential]  BY <1>1 DEF Files
  <2> QED  BY <2>1
<1>2. ASSUME DOMAIN f \subseteq Keys, f \in [DOMAIN f -> Credential] PROVE f \in Files
  BY <1>2 DEF Files
<1> QED  BY <1>1, <1>2

\* Certificates are never taken back.
Extends(t, u) ==
    \A a \in AgentIds : \A i \in DOMAIN t[a].certificates :
        i \in DOMAIN u[a].certificates /\ u[a].certificates[i] = t[a].certificates[i]

LEMMA NamesStay ==
    ASSUME NEW t, NEW u, Extends(t, u), NEW id \in Credential, NEW key, Names(id, key, t)
    PROVE  Names(id, key, u)
  BY DEF Extends, Names, Credential

LEMMA NamedFileStays ==
    ASSUME NEW t, NEW u, Extends(t, u), NEW f \in Files, NamedFile(f, t)
    PROVE  NamedFile(f, u)
<1> SUFFICES ASSUME NEW k \in DOMAIN f PROVE Names(f[k], k, u)  BY DEF NamedFile
<1>1. f[k] \in Credential  BY FilesAreFunctions
<1>2. Names(f[k], k, t)  BY DEF NamedFile
<1> QED  BY <1>1, <1>2, NamesStay

LEMMA NamedByStays ==
    ASSUME NEW t, NEW u, Extends(t, u), NEW r \in Process, Shaped(r), NamedBy(r, t)
    PROVE  NamedBy(r, u)
<1>1. r.file # Nothing => NamedFile(r.file, u)
  <2>1. r.file # Nothing => r.file \in Files  BY DEF Process
  <2> QED  BY <2>1, NamedFileStays DEF NamedBy
<1>2. r.identity # Nothing => Names(r.identity, r.key, u)
  <2>1. r.identity # Nothing => r.identity \in Credential  BY DEF Process
  <2> QED  BY <2>1, NamesStay DEF NamedBy
<1>3. r.stage = "activate" => Names(r.fresh, r.key, u)
  <2>1. r.stage = "activate" => r.fresh \in Credential  BY DEF Shaped
  <2> QED  BY <2>1, NamesStay DEF NamedBy
<1>4. \A i \in DOMAIN r.todo : r.todo[i].as # Nothing => Names(r.todo[i].as, r.todo[i].put, u)
  <2> SUFFICES ASSUME NEW i \in DOMAIN r.todo, r.todo[i].as # Nothing
               PROVE  Names(r.todo[i].as, r.todo[i].put, u)
    OBVIOUS
  <2>1. r.todo \in Seq(Change)  BY DEF Process
  <2>2. r.todo[i] \in Change  BY <2>1
  <2>3. r.todo[i].as \in Credential  BY <2>2 DEF Change
  <2>4. Names(r.todo[i].as, r.todo[i].put, t)  BY DEF NamedBy
  <2> QED  BY <2>3, <2>4, NamesStay
<1> QED  BY <1>1, <1>2, <1>3, <1>4 DEF NamedBy

\* A step of one process keeps types and names if what it becomes, what it
\* writes and the table it leaves are in order.
LEMMA ProcessBase ==
    ASSUME CredentialBase, NEW p \in Processes, NEW next \in Process, Go(p, next), Shaped(next),
           agents' \in Table, \A a \in AgentIds : agents'[a] = Unborn \/ agents'[a].certificates # << >>,
           Extends(agents, agents'), NamedBy(next, agents'),
           store' \in Files, NamedFile(store', agents')
    PROVE  CredentialBase'
<1>0. proc \in [Processes -> Process] /\ \A q \in Processes : Shaped(proc[q]) /\ NamedBy(proc[q], agents)
  BY DEF CredentialBase, CredentialTypes, CredentialsNamed
<1>1. proc' \in [Processes -> Process] /\ proc'[p] = next /\ \A q \in Processes : q # p => proc'[q] = proc[q]
  BY <1>0 DEF Go
<1>2. \A q \in Processes : Shaped(proc'[q])  BY <1>0, <1>1
<1>3. \A q \in Processes : NamedBy(proc'[q], agents')
  <2> SUFFICES ASSUME NEW q \in Processes PROVE NamedBy(proc'[q], agents')  OBVIOUS
  <2>1. CASE q = p  BY <1>1, <2>1
  <2>2. CASE q # p  BY <1>0, <1>1, <2>2, NamedByStays
  <2> QED  BY <2>1, <2>2
<1> QED  BY <1>1, <1>2, <1>3 DEF CredentialBase, CredentialTypes, CredentialsNamed

\* A step of one process that leaves the server's table and the file alone
LEMMA LocalBase ==
    ASSUME CredentialBase, NEW p \in Processes, NEW next \in Process, Go(p, next), Shaped(next),
           UNCHANGED <<agents, store>>, NamedBy(next, agents)
    PROVE  CredentialBase'
<1>1. Extends(agents, agents')  BY DEF Extends
<1> QED  BY <1>1, ProcessBase DEF CredentialBase, CredentialTypes, CredentialsNamed

LEMMA OneProcess ==
    ASSUME CredentialBase, NEW p \in Processes
    PROVE  /\ proc[p] \in Process /\ Shaped(proc[p]) /\ NamedBy(proc[p], agents)
           /\ agents \in Table /\ store \in Files /\ NamedFile(store, agents)
  BY DEF CredentialBase, CredentialTypes, CredentialsNamed

LEMMA UnansweredShape ==
    ASSUME NEW p, proc[p] \in Process, Shaped(proc[p]),
           proc[p].stage \in {"create", "activate", "rotate", "retire"}
    PROVE  LET u == Unanswered(p)
           IN  /\ u \in Process /\ Shaped(u)
               /\ u.stage \in {proc[p].stage, "idle"}
               /\ u.key = proc[p].key /\ u.identity = proc[p].identity /\ u.fresh = proc[p].fresh
               /\ u.todo = << >> /\ u.file = Nothing
               /\ proc[p].tries # MaxTries => u.stage = proc[p].stage
               /\ \A t : NamedBy(proc[p], t) => NamedBy(u, t)
<1> DEFINE u == Unanswered(p)
<1>1. proc[p].todo = << >> /\ proc[p].file = Nothing /\ proc[p].tries \in 1..MaxTries
  BY DEF Shaped, Process
<1>2. /\ u \in Process
      /\ u.stage \in {proc[p].stage, "idle"}
      /\ u.key = proc[p].key /\ u.identity = proc[p].identity /\ u.fresh = proc[p].fresh
      /\ u.todo = << >> /\ u.file = Nothing
      /\ proc[p].tries # MaxTries => u.stage = proc[p].stage
  <2>1. CASE proc[p].tries < MaxTries
    <3>1. u = [proc[p] EXCEPT !.tries = proc[p].tries + 1]  BY <2>1 DEF Unanswered
    <3>2. proc[p].tries + 1 \in 1..MaxTries  BY <1>1, <2>1, KeysAssumption
    <3> QED  BY <1>1, <3>1, <3>2 DEF Process
  <2>2. CASE ~(proc[p].tries < MaxTries)
    <3>1. u = [proc[p] EXCEPT !.stage = "idle"]  BY <2>2 DEF Unanswered
    <3>2. proc[p].tries = MaxTries  BY <1>1, <2>2, KeysAssumption
    <3> QED  BY <1>1, <3>1, <3>2 DEF Process
  <2> QED  BY <2>1, <2>2
<1> HIDE DEF u
<1>3. Shaped(u)
  BY <1>2 DEF Shaped
<1>4. ASSUME NEW t, NamedBy(proc[p], t) PROVE NamedBy(u, t)
  BY <1>2, <1>4 DEF NamedBy
<1> QED  BY <1>2, <1>3, <1>4 DEF u

\* The steps of a process that touch neither the server nor the file
LEMMA LocalSteps ==
    ASSUME CredentialBase, NEW p \in Processes,
           \/ Start(p) \/ register(p) \/ retire(p) \/ (\E k \in NewKeys : rotate_keys(p, k))
           \/ NotReached(p) \/ ReadFile(p) \/ Die(p)
    PROVE  CredentialBase'
<1> DEFINE r == proc[p]
<1>0. r \in Process /\ Shaped(r) /\ NamedBy(r, agents) /\ store \in Files /\ NamedFile(store, agents)
  BY OneProcess
<1>1. \A k \in Keys : /\ StoreGet(k) \in Credential \cup {Nothing}
                      /\ StoreGet(k) # Nothing => Names(StoreGet(k), k, agents)
  <2>1. \A k \in DOMAIN store : store[k] \in Credential  BY <1>0, FilesAreFunctions
  <2> QED  BY <1>0, <2>1 DEF StoreGet, NamedFile
<1>2. 1 \in 1..MaxTries  BY KeysAssumption
<1>3. CASE Start(p)
  <2> DEFINE next == [Down EXCEPT !.stage = "idle", !.key = ConfiguredKey[p], !.identity = StoreGet(ConfiguredKey[p])]
  <2>1. ConfiguredKey[p] \in Keys  BY DEF Keys, Configured
  <2>2. /\ next \in Process /\ next.stage = "idle" /\ next.key = ConfiguredKey[p]
        /\ next.identity = StoreGet(ConfiguredKey[p]) /\ next.todo = << >> /\ next.file = Nothing
    <3>1. Down \in Process /\ Down.todo = << >> /\ Down.file = Nothing  BY <1>2 DEF Down, Process
    <3> QED  BY <1>1, <1>2, <2>1, <3>1 DEF Process
  <2>3. Go(p, next) /\ UNCHANGED <<agents, store>>  BY <1>3 DEF Start
  <2> HIDE DEF next
  <2>4. Shaped(next) /\ NamedBy(next, agents)  BY <1>1, <2>1, <2>2 DEF Shaped, NamedBy
  <2> QED  BY <2>2, <2>3, <2>4, LocalBase
<1>4. CASE register(p)
  <2>0. r.stage = "idle" /\ r.key \in Keys /\ r.todo = << >> /\ r.file = Nothing /\ UNCHANGED <<agents, store>>
    BY <1>0, <1>4 DEF register, Shaped
  <2>1. CASE StoreGet(r.key) # Nothing
    <3> DEFINE next == [r EXCEPT !.identity = StoreGet(r.key)]
    <3>1. /\ next \in Process /\ next.stage = "idle" /\ next.key = r.key
          /\ next.identity = StoreGet(r.key) /\ next.todo = << >> /\ next.file = Nothing
      BY <1>0, <1>1, <2>0 DEF Process
    <3>2. Go(p, next)  BY <1>4, <2>1 DEF register
    <3> HIDE DEF next
    <3>3. Shaped(next) /\ NamedBy(next, agents)  BY <1>1, <2>0, <3>1 DEF Shaped, NamedBy
    <3> QED  BY <2>0, <3>1, <3>2, <3>3, LocalBase
  <2>2. CASE StoreGet(r.key) = Nothing
    <3> DEFINE next == [r EXCEPT !.stage = "create", !.tries = 1]
    <3>1. /\ next \in Process /\ next.stage = "create" /\ next.key = r.key
          /\ next.identity = r.identity /\ next.todo = << >> /\ next.file = Nothing
      BY <1>0, <1>2, <2>0 DEF Process
    <3>2. Go(p, next)  BY <1>4, <2>2 DEF register
    <3> HIDE DEF next
    <3>3. Shaped(next) /\ NamedBy(next, agents)  BY <1>0, <2>0, <3>1 DEF Shaped, NamedBy
    <3> QED  BY <2>0, <3>1, <3>2, <3>3, LocalBase
  <2> QED  BY <2>1, <2>2
<1>5. CASE retire(p)
  <2> DEFINE next == [r EXCEPT !.stage = "retire", !.tries = 1]
  <2>0. /\ r.stage = "idle" /\ r.key \in Keys /\ r.todo = << >> /\ r.file = Nothing
        /\ r.identity \in Credential /\ UNCHANGED <<agents, store>> /\ Go(p, next)
    BY <1>0, <1>5 DEF retire, Shaped, Process
  <2>1. /\ next \in Process /\ next.stage = "retire" /\ next.key = r.key
        /\ next.identity = r.identity /\ next.todo = << >> /\ next.file = Nothing
    BY <1>0, <1>2, <2>0 DEF Process
  <2> HIDE DEF next
  <2>2. Shaped(next) /\ NamedBy(next, agents)  BY <1>0, <2>0, <2>1 DEF Shaped, NamedBy
  <2> QED  BY <2>0, <2>1, <2>2, LocalBase
<1>6. ASSUME NEW k \in NewKeys, rotate_keys(p, k) PROVE CredentialBase'
  <2> DEFINE next == [r EXCEPT !.stage = "rotate", !.tries = 1, !.fresh = k]
  <2>0. /\ r.stage = "idle" /\ r.key \in Keys /\ r.todo = << >> /\ r.file = Nothing
        /\ r.identity \in Credential /\ UNCHANGED <<agents, store>> /\ Go(p, next)
    BY <1>0, <1>6 DEF rotate_keys, Shaped, Process
  <2>1. /\ next \in Process /\ next.stage = "rotate" /\ next.key = r.key /\ next.fresh = k
        /\ next.identity = r.identity /\ next.todo = << >> /\ next.file = Nothing
    BY <1>0, <1>2, <2>0 DEF Process, Keys
  <2> HIDE DEF next
  <2>2. Shaped(next) /\ NamedBy(next, agents)  BY <1>0, <2>0, <2>1 DEF Shaped, NamedBy
  <2> QED  BY <2>0, <2>1, <2>2, LocalBase
<1>7. CASE NotReached(p)
  <2>1. r.stage \in {"create", "activate", "rotate", "retire"} /\ Go(p, Unanswered(p)) /\ UNCHANGED <<agents, store>>
    BY <1>7 DEF NotReached
  <2>2. Unanswered(p) \in Process /\ Shaped(Unanswered(p)) /\ NamedBy(Unanswered(p), agents)
    BY <1>0, <2>1, UnansweredShape
  <2> QED  BY <2>1, <2>2, LocalBase
<1>8. CASE ReadFile(p)
  <2>0. /\ r.stage = "file" /\ r.file = Nothing /\ r.key \in Keys /\ r.identity \in Credential
        /\ UNCHANGED <<agents, store>>
    BY <1>0, <1>8 DEF ReadFile, Shaped
  <2>1. CASE r.todo = << >>
    <3> DEFINE next == [r EXCEPT !.stage = "idle", !.fresh = Nothing]
    <3>1. /\ next \in Process /\ next.stage = "idle" /\ next.key = r.key
          /\ next.identity = r.identity /\ next.todo = << >> /\ next.file = Nothing
      BY <1>0, <2>0, <2>1 DEF Process
    <3>2. Go(p, next)  BY <1>8, <2>1 DEF ReadFile
    <3> HIDE DEF next
    <3>3. Shaped(next) /\ NamedBy(next, agents)  BY <1>0, <2>0, <3>1 DEF Shaped, NamedBy
    <3> QED  BY <2>0, <3>1, <3>2, <3>3, LocalBase
  <2>2. CASE r.todo # << >>
    <3> DEFINE next == [r EXCEPT !.file = store]
    <3>1. /\ next \in Process /\ next.stage = "file" /\ next.key = r.key
          /\ next.identity = r.identity /\ next.todo = r.todo /\ next.file = store
      BY <1>0, <2>0 DEF Process
    <3>2. Go(p, next)  BY <1>8, <2>2 DEF ReadFile
    <3> HIDE DEF next
    <3>3. Shaped(next)  BY <2>0, <2>2, <3>1 DEF Shaped
    <3>4. NamedBy(next, agents)  BY <1>0, <2>0, <3>1 DEF NamedBy
    <3> QED  BY <2>0, <3>1, <3>2, <3>3, <3>4, LocalBase
  <2> QED  BY <2>1, <2>2
<1>9. CASE Die(p)
  <2>1. Down \in Process /\ Shaped(Down) /\ NamedBy(Down, agents)
    BY <1>2 DEF Down, Process, Shaped, NamedBy
  <2>2. Go(p, Down) /\ UNCHANGED <<agents, store>>  BY <1>9 DEF Die
  <2> QED  BY <2>1, <2>2, LocalBase
<1> QED  BY <1>3, <1>4, <1>5, <1>6, <1>7, <1>8, <1>9

Row == [status : {"unborn", "registered", "active", "retired"}, certificates : Seq(Keys)]

\* The server changes one agent, and takes no certificate back.
LEMMA OneAgent ==
    ASSUME NEW t \in Table, \A a \in AgentIds : t[a] = Unborn \/ t[a].certificates # << >>,
           NEW b \in AgentIds, NEW row \in Row, row.certificates # << >>,
           \A i \in DOMAIN t[b].certificates :
               i \in DOMAIN row.certificates /\ row.certificates[i] = t[b].certificates[i],
           NEW u, u = [t EXCEPT ![b] = row]
    PROVE  /\ u \in Table /\ Extends(t, u)
           /\ \A a \in AgentIds : u[a] = Unborn \/ u[a].certificates # << >>
<1>1. u \in Table /\ u[b] = row /\ \A a \in AgentIds : a # b => u[a] = t[a]  BY DEF Table, Row
<1> QED  BY <1>1 DEF Extends

\* A request the server carried out, answered or not
LEMMA ServerBase ==
    ASSUME CredentialBase, NEW p \in Processes, proc[p].stage \in {"create", "activate", "rotate", "retire"},
           agents' \in Table, Extends(agents, agents'),
           \A a \in AgentIds : agents'[a] = Unborn \/ agents'[a].certificates # << >>,
           UNCHANGED store, NEW next \in Process, Shaped(next), NamedBy(next, agents'),
           AnsweredOrLost(p, next)
    PROVE  CredentialBase'
<1>0. /\ proc[p] \in Process /\ Shaped(proc[p]) /\ NamedBy(proc[p], agents)
      /\ store \in Files /\ NamedFile(store, agents)
  BY OneProcess
<1>1. store' \in Files /\ NamedFile(store', agents')  BY <1>0, NamedFileStays
<1>2. CASE Go(p, next)  BY <1>1, <1>2, ProcessBase
<1>3. CASE Go(p, Unanswered(p))
  <2>1. NamedBy(proc[p], agents')  BY <1>0, NamedByStays
  <2>2. Unanswered(p) \in Process /\ Shaped(Unanswered(p)) /\ NamedBy(Unanswered(p), agents')
    BY <1>0, <2>1, UnansweredShape
  <2> QED  BY <1>1, <1>3, <2>2, ProcessBase
<1> QED  BY <1>2, <1>3 DEF AnsweredOrLost

\* A request the server refuses
LEMMA RefusedBase ==
    ASSUME CredentialBase, NEW p \in Processes, proc[p].stage \in {"activate", "rotate", "retire"},
           Go(p, [proc[p] EXCEPT !.stage = "idle"]), UNCHANGED <<agents, store>>
    PROVE  CredentialBase'
<1> DEFINE r == proc[p]
           next == [r EXCEPT !.stage = "idle"]
<1>0. r \in Process /\ Shaped(r) /\ NamedBy(r, agents)  BY OneProcess
<1>1. r.todo = << >> /\ r.file = Nothing /\ r.key \in Keys  BY <1>0 DEF Shaped
<1>2. /\ next \in Process /\ next.stage = "idle" /\ next.key = r.key
      /\ next.identity = r.identity /\ next.todo = << >> /\ next.file = Nothing
  BY <1>0, <1>1 DEF Process
<1>3. Go(p, next)  OBVIOUS
<1> HIDE DEF next
<1>4. Shaped(next) /\ NamedBy(next, agents)  BY <1>0, <1>1, <1>2 DEF Shaped, NamedBy
<1> QED  BY <1>2, <1>3, <1>4, LocalBase

\* What a table looks like after the server changed one of its agents
Grown(t, b, row, u) ==
    /\ u \in Table /\ Extends(t, u)
    /\ \A a \in AgentIds : u[a] = Unborn \/ u[a].certificates # << >>
    /\ u[b] = row /\ \A a \in AgentIds : a # b => u[a] = t[a]

LEMMA Created ==
    ASSUME CredentialBase, NEW p \in Processes, create_agent(p)
    PROVE  \E a \in AgentIds, next \in Process :
              /\ agents[a] = Unborn
              /\ Grown(agents, a, [status |-> "registered", certificates |-> <<proc[p].key>>], agents')
              /\ next.stage = "activate" /\ next.key = proc[p].key /\ next.identity = proc[p].identity
              /\ next.fresh = [agent |-> a, certificate |-> 1, status |-> "active"]
              /\ next.todo = << >> /\ next.file = Nothing
              /\ Shaped(next) /\ NamedBy(next, agents')
              /\ proc[p].stage = "create" /\ AnsweredOrLost(p, next) /\ UNCHANGED store
<1> DEFINE r == proc[p]
           a == CHOOSE b \in AgentIds : agents[b] = Unborn
           id == [agent |-> a, certificate |-> 1, status |-> "active"]
           row == [status |-> "registered", certificates |-> <<r.key>>]
           next == [r EXCEPT !.stage = "activate", !.tries = 1, !.fresh = id]
<1>0. /\ r \in Process /\ Shaped(r) /\ NamedBy(r, agents) /\ agents \in Table
      /\ \A b \in AgentIds : agents[b] = Unborn \/ agents[b].certificates # << >>
  BY OneProcess DEF CredentialBase, CredentialTypes
<1>1. r.stage = "create" /\ r.key \in Keys /\ r.todo = << >> /\ r.file = Nothing
  BY <1>0 DEF create_agent, Shaped
<1>2. a \in AgentIds /\ agents[a] = Unborn  BY DEF create_agent
<1>3. agents' = [agents EXCEPT ![a] = row] /\ AnsweredOrLost(p, next) /\ UNCHANGED store
  BY DEF create_agent
<1>4. id \in Credential /\ id.agent = a /\ id.certificate = 1 /\ id.status = "active"
  BY <1>2 DEF Credential
<1>5. 1 \in 1..MaxTries  BY KeysAssumption
<1>6. row \in Row /\ row.certificates = <<r.key>> /\ row.certificates # << >>
      /\ 1 \in DOMAIN row.certificates /\ row.certificates[1] = r.key
  BY <1>1 DEF Row
<1>7. DOMAIN agents[a].certificates = {}  BY <1>2 DEF Unborn
<1> HIDE DEF id, a, row
<1>8. /\ next \in Process /\ next.stage = "activate" /\ next.key = r.key /\ next.identity = r.identity
      /\ next.fresh = id /\ next.todo = << >> /\ next.file = Nothing
  BY <1>0, <1>1, <1>4, <1>5 DEF Process
<1> HIDE DEF next
<1>9. agents' \in Table /\ Extends(agents, agents')
      /\ \A b \in AgentIds : agents'[b] = Unborn \/ agents'[b].certificates # << >>
  BY <1>0, <1>2, <1>3, <1>6, <1>7, OneAgent
<1>10. agents'[a] = row /\ \A b \in AgentIds : b # a => agents'[b] = agents[b]
  BY <1>0, <1>2, <1>3 DEF Table
<1>11. Shaped(next)  BY <1>1, <1>4, <1>8 DEF Shaped
<1>12. NamedBy(next, agents')
  <2>1. NamedBy(r, agents')  BY <1>0, <1>9, NamedByStays
  <2>2. Names(id, r.key, agents')  BY <1>4, <1>6, <1>10 DEF Names
  <2> QED  BY <1>1, <1>8, <2>1, <2>2 DEF NamedBy
<1> QED
  <2>1. Grown(agents, a, row, agents')  BY <1>9, <1>10 DEF Grown
  <2> QED  BY <1>1, <1>2, <1>3, <1>8, <1>11, <1>12, <2>1 DEF id, row

\* The activation is carried out, or refused.
LEMMA Activated ==
    ASSUME CredentialBase, NEW p \in Processes, activate_agent(p), agents[proc[p].fresh.agent].status = "registered"
    PROVE  LET a == proc[p].fresh.agent
           IN  \E next \in Process :
                  /\ a \in AgentIds /\ proc[p].fresh \in Credential /\ agents[a].certificates # << >>
                  /\ Grown(agents, a, [status |-> "active", certificates |-> agents[a].certificates], agents')
                  /\ next.stage = "file" /\ next.key = proc[p].key /\ next.identity = proc[p].fresh
                  /\ next.fresh = proc[p].fresh /\ next.file = Nothing
                  /\ next.todo = <<[put |-> proc[p].key, as |-> proc[p].fresh]>>
                  /\ Shaped(next) /\ NamedBy(next, agents')
                  /\ proc[p].stage = "activate" /\ AnsweredOrLost(p, next) /\ UNCHANGED store
<1> DEFINE r == proc[p]
           a == r.fresh.agent
           row == [status |-> "active", certificates |-> agents[a].certificates]
           change == [put |-> r.key, as |-> r.fresh]
           next == [r EXCEPT !.stage = "file", !.identity = r.fresh, !.todo = <<change>>]
<1>0. /\ r \in Process /\ Shaped(r) /\ NamedBy(r, agents) /\ agents \in Table
      /\ \A b \in AgentIds : agents[b] = Unborn \/ agents[b].certificates # << >>
  BY OneProcess DEF CredentialBase, CredentialTypes
<1>1. /\ r.stage = "activate" /\ r.key \in Keys /\ r.todo = << >> /\ r.file = Nothing
      /\ r.fresh \in Credential
  BY <1>0 DEF activate_agent, Shaped
<1>2. a \in AgentIds  BY <1>1 DEF Credential
<1>3. agents' = [agents EXCEPT ![a].status = "active"] /\ AnsweredOrLost(p, next) /\ UNCHANGED store
  BY DEF activate_agent
<1>4. agents[a].certificates \in Seq(Keys) /\ agents[a].certificates # << >>
  <2>1. agents[a].status # Unborn.status  BY DEF Unborn
  <2>2. agents[a] # Unborn  BY <2>1
  <2> QED  BY <1>0, <1>2, <2>2 DEF Table
<1>5. row \in Row /\ row.certificates = agents[a].certificates  BY <1>4 DEF Row
<1>6. change \in Change /\ change.put = r.key /\ change.as = r.fresh  BY <1>1 DEF Change
<1>7. agents' = [agents EXCEPT ![a] = row]
  <2>1. agents[a] \in Row  BY <1>0, <1>2 DEF Table, Row
  <2>2. [agents[a] EXCEPT !.status = "active"] = row  BY <2>1 DEF Row
  <2> QED  BY <1>3, <2>2
<1> HIDE DEF row, change
<1>8. /\ next \in Process /\ next.stage = "file" /\ next.key = r.key /\ next.identity = r.fresh
      /\ next.fresh = r.fresh /\ next.todo = <<change>> /\ next.file = Nothing
  <2>1. <<change>> \in Seq(Change)  BY <1>6
  <2>2. r.fresh \in Credential \cup {Nothing}  BY <1>1
  <2> DEFINE todo == <<change>>
             id == r.fresh
  <2> HIDE DEF todo, id
  <2>3. next = [r EXCEPT !.stage = "file", !.identity = id, !.todo = todo]  BY DEF todo, id
  <2>4. todo \in Seq(Change) /\ id \in Credential \cup {Nothing}  BY <2>1, <2>2 DEF todo, id
  <2> HIDE DEF next
  <2>5. /\ next \in Process /\ next.stage = "file" /\ next.key = r.key /\ next.identity = id
        /\ next.fresh = r.fresh /\ next.todo = todo /\ next.file = r.file
    BY <1>0, <2>3, <2>4 DEF Process
  <2> QED  BY <1>1, <2>5 DEF todo, id
<1> HIDE DEF next
<1>9. agents' \in Table /\ Extends(agents, agents')
      /\ \A b \in AgentIds : agents'[b] = Unborn \/ agents'[b].certificates # << >>
  BY <1>0, <1>2, <1>4, <1>5, <1>7, OneAgent
<1>10. agents'[a] = row /\ \A b \in AgentIds : b # a => agents'[b] = agents[b]
  BY <1>0, <1>2, <1>7 DEF Table
<1>11. Shaped(next)  BY <1>1, <1>8 DEF Shaped
<1>12. NamedBy(next, agents')
  <2>1. Names(r.fresh, r.key, agents')  BY <1>0, <1>1, <1>9, NamesStay DEF NamedBy
  <2>2. \A i \in DOMAIN next.todo : next.todo[i] = change  BY <1>8
  <2> QED  BY <1>6, <1>8, <2>1, <2>2 DEF NamedBy
<1> QED
  <2>1. Grown(agents, a, row, agents')  BY <1>9, <1>10 DEF Grown
  <2> QED  BY <1>1, <1>2, <1>3, <1>4, <1>8, <1>11, <1>12, <2>1 DEF row, change

LEMMA Rotated ==
    ASSUME CredentialBase, NEW p \in Processes, rotate_certificate(p), agents[proc[p].identity.agent].status = "active"
    PROVE  LET a == proc[p].identity.agent
               id == [proc[p].identity EXCEPT !.certificate = Len(agents[a].certificates) + 1]
           IN  \E next \in Process :
                  /\ a \in AgentIds /\ proc[p].identity \in Credential /\ agents[a].certificates # << >>
                  /\ proc[p].fresh \in NewKeys
                  /\ Grown(agents, a, [status |-> "active",
                           certificates |-> Append(agents[a].certificates, proc[p].fresh)], agents')
                  /\ next.stage = "file" /\ next.key = proc[p].fresh /\ next.identity = id
                  /\ next.fresh = proc[p].fresh /\ next.file = Nothing
                  /\ next.todo = <<[put |-> proc[p].fresh, as |-> id], [put |-> proc[p].key, as |-> Nothing]>>
                  /\ id \in Credential /\ id.agent = a /\ id.status = proc[p].identity.status
                  /\ id.certificate = Len(agents[a].certificates) + 1
                  /\ Shaped(next) /\ NamedBy(next, agents')
                  /\ proc[p].stage = "rotate" /\ AnsweredOrLost(p, next) /\ UNCHANGED store
<1> DEFINE r == proc[p]
           a == r.identity.agent
           certificates == agents[a].certificates
           id == [r.identity EXCEPT !.certificate = Len(certificates) + 1]
           row == [status |-> "active", certificates |-> Append(certificates, r.fresh)]
           save == [put |-> r.fresh, as |-> id]
           drop == [put |-> r.key, as |-> Nothing]
           todo == <<save, drop>>
           next == [r EXCEPT !.stage = "file", !.identity = id, !.key = r.fresh, !.todo = todo]
<1>0. /\ r \in Process /\ Shaped(r) /\ NamedBy(r, agents) /\ agents \in Table
      /\ \A b \in AgentIds : agents[b] = Unborn \/ agents[b].certificates # << >>
  BY OneProcess DEF CredentialBase, CredentialTypes
<1>1. /\ r.stage = "rotate" /\ r.key \in Keys /\ r.todo = << >> /\ r.file = Nothing
      /\ r.identity \in Credential /\ r.fresh \in NewKeys /\ r.fresh \in Keys
  BY <1>0 DEF rotate_certificate, Shaped, Keys
<1>2. a \in AgentIds  BY <1>1 DEF Credential
<1>3. agents' = [agents EXCEPT ![a].certificates = Append(@, r.fresh)] /\ AnsweredOrLost(p, next) /\ UNCHANGED store
  BY DEF rotate_certificate, SwitchKey, Refile
<1>4. agents[a] \in Row /\ certificates \in Seq(Keys) /\ certificates # << >>
  <2>1. agents[a].status # Unborn.status  BY DEF Unborn
  <2>2. agents[a] # Unborn  BY <2>1
  <2> QED  BY <1>0, <1>2, <2>2 DEF Table, Row
<1> HIDE DEF certificates
<1>5. /\ row \in Row /\ row.certificates = Append(certificates, r.fresh) /\ row.certificates # << >>
      /\ Len(certificates) \in Nat /\ DOMAIN certificates = 1..Len(certificates)
      /\ DOMAIN row.certificates = 1..(Len(certificates) + 1)
      /\ row.certificates[Len(certificates) + 1] = r.fresh
      /\ \A i \in DOMAIN certificates : row.certificates[i] = certificates[i]
  BY <1>1, <1>4 DEF Row
<1>6. /\ id \in Credential /\ id.agent = a /\ id.certificate = Len(certificates) + 1
      /\ id.status = r.identity.status
  BY <1>1, <1>5 DEF Credential
<1> HIDE DEF id
<1>7. /\ save \in Change /\ save.put = r.fresh /\ save.as = id
      /\ drop \in Change /\ drop.put = r.key /\ drop.as = Nothing
  BY <1>1, <1>6 DEF Change
<1>8. agents' = [agents EXCEPT ![a] = row]
  <2>1. [agents[a] EXCEPT !.certificates = Append(@, r.fresh)] = row  BY <1>4 DEF Row, certificates
  <2> QED  BY <1>3, <2>1
<1> HIDE DEF row, save, drop
<1>9. todo \in Seq(Change) /\ DOMAIN todo = {1, 2} /\ todo[1] = save /\ todo[2] = drop /\ todo # << >>
  BY <1>7
<1> HIDE DEF todo
<1>10. /\ next \in Process /\ next.stage = "file" /\ next.key = r.fresh /\ next.identity = id
       /\ next.fresh = r.fresh /\ next.todo = todo /\ next.file = Nothing
  BY <1>0, <1>1, <1>6, <1>9 DEF Process
<1> HIDE DEF next
<1>11. agents' \in Table /\ Extends(agents, agents')
       /\ \A b \in AgentIds : agents'[b] = Unborn \/ agents'[b].certificates # << >>
  <2>1. \A i \in DOMAIN agents[a].certificates :
           i \in DOMAIN row.certificates /\ row.certificates[i] = agents[a].certificates[i]
    <3>1. \A i \in DOMAIN certificates :
             i \in DOMAIN row.certificates /\ row.certificates[i] = certificates[i]
      BY <1>5
    <3> QED  BY <3>1 DEF certificates
  <2> QED  BY <1>0, <1>2, <1>5, <1>8, <2>1, OneAgent
<1>12. agents'[a] = row /\ \A b \in AgentIds : b # a => agents'[b] = agents[b]
  BY <1>0, <1>2, <1>8 DEF Table
<1>13. Shaped(next)  BY <1>1, <1>6, <1>9, <1>10 DEF Shaped
<1>14. NamedBy(next, agents')
  <2>1. Names(id, r.fresh, agents')  BY <1>5, <1>6, <1>12 DEF Names
  <2> QED  BY <1>7, <1>9, <1>10, <2>1 DEF NamedBy
<1> QED
  <2>1. Grown(agents, a, row, agents')  BY <1>11, <1>12 DEF Grown
  <2> QED  BY <1>1, <1>2, <1>3, <1>4, <1>6, <1>10, <1>13, <1>14, <2>1 DEF row, save, drop, todo, id, certificates

LEMMA Retired ==
    ASSUME CredentialBase, NEW p \in Processes, retire_agent(p), agents[proc[p].identity.agent].status = "active"
    PROVE  LET a == proc[p].identity.agent
               id == [proc[p].identity EXCEPT !.status = "retired"]
           IN  \E next \in Process :
                  /\ a \in AgentIds /\ proc[p].identity \in Credential /\ agents[a].certificates # << >>
                  /\ Grown(agents, a, [status |-> "retired", certificates |-> agents[a].certificates], agents')
                  /\ next.stage = "file" /\ next.key = proc[p].key /\ next.identity = id
                  /\ next.fresh = proc[p].fresh /\ next.file = Nothing
                  /\ next.todo = <<[put |-> proc[p].key, as |-> id]>>
                  /\ id \in Credential /\ id.agent = a /\ id.status = "retired"
                  /\ id.certificate = proc[p].identity.certificate
                  /\ Shaped(next) /\ NamedBy(next, agents')
                  /\ proc[p].stage = "retire" /\ AnsweredOrLost(p, next) /\ UNCHANGED store
<1> DEFINE r == proc[p]
           a == r.identity.agent
           id == [r.identity EXCEPT !.status = "retired"]
           row == [status |-> "retired", certificates |-> agents[a].certificates]
           change == [put |-> r.key, as |-> id]
           todo == <<change>>
           next == [r EXCEPT !.stage = "file", !.identity = id, !.todo = todo]
<1>0. /\ r \in Process /\ Shaped(r) /\ NamedBy(r, agents) /\ agents \in Table
      /\ \A b \in AgentIds : agents[b] = Unborn \/ agents[b].certificates # << >>
  BY OneProcess DEF CredentialBase, CredentialTypes
<1>1. /\ r.stage = "retire" /\ r.key \in Keys /\ r.todo = << >> /\ r.file = Nothing
      /\ r.identity \in Credential
  BY <1>0 DEF retire_agent, Shaped
<1>2. a \in AgentIds  BY <1>1 DEF Credential
<1>3. agents' = [agents EXCEPT ![a].status = "retired"] /\ AnsweredOrLost(p, next) /\ UNCHANGED store
  BY DEF retire_agent
<1>4. agents[a] \in Row /\ agents[a].certificates \in Seq(Keys) /\ agents[a].certificates # << >>
  <2>1. agents[a].status # Unborn.status  BY DEF Unborn
  <2>2. agents[a] # Unborn  BY <2>1
  <2> QED  BY <1>0, <1>2, <2>2 DEF Table, Row
<1>5. row \in Row /\ row.certificates = agents[a].certificates  BY <1>4 DEF Row
<1>6. id \in Credential /\ id.agent = a /\ id.status = "retired" /\ id.certificate = r.identity.certificate
  BY <1>1 DEF Credential
<1> HIDE DEF id
<1>7. change \in Change /\ change.put = r.key /\ change.as = id  BY <1>1, <1>6 DEF Change
<1>8. agents' = [agents EXCEPT ![a] = row]
  <2>1. [agents[a] EXCEPT !.status = "retired"] = row  BY <1>4 DEF Row
  <2> QED  BY <1>3, <2>1
<1> HIDE DEF row, change
<1>9. todo \in Seq(Change) /\ todo # << >> /\ \A i \in DOMAIN todo : todo[i] = change  BY <1>7
<1> HIDE DEF todo
<1>10. /\ next \in Process /\ next.stage = "file" /\ next.key = r.key /\ next.identity = id
       /\ next.fresh = r.fresh /\ next.todo = todo /\ next.file = Nothing
  BY <1>0, <1>1, <1>6, <1>9 DEF Process
<1> HIDE DEF next
<1>11. agents' \in Table /\ Extends(agents, agents')
       /\ \A b \in AgentIds : agents'[b] = Unborn \/ agents'[b].certificates # << >>
  BY <1>0, <1>2, <1>4, <1>5, <1>8, OneAgent
<1>12. agents'[a] = row /\ \A b \in AgentIds : b # a => agents'[b] = agents[b]
  BY <1>0, <1>2, <1>8 DEF Table
<1>13. Shaped(next)  BY <1>1, <1>6, <1>9, <1>10 DEF Shaped
<1>14. NamedBy(next, agents')
  <2>1. Names(r.identity, r.key, agents')
    <3>1. r.identity # Nothing  BY <1>1, KeysAssumption
    <3> QED  BY <1>0, <1>1, <1>11, <3>1, NamesStay DEF NamedBy
  <2>2. Names(id, r.key, agents')  BY <1>6, <2>1 DEF Names
  <2> QED  BY <1>7, <1>9, <1>10, <2>2 DEF NamedBy
<1> QED
  <2>1. Grown(agents, a, row, agents')  BY <1>11, <1>12 DEF Grown
  <2> QED  BY <1>1, <1>2, <1>3, <1>4, <1>6, <1>10, <1>13, <1>14, <2>1 DEF row, change, todo, id

LEMMA Wrote ==
    ASSUME CredentialBase, NEW p \in Processes, WriteFile(p)
    PROVE  \E next \in Process :
              /\ next.stage = "file" /\ next.key = proc[p].key /\ next.identity = proc[p].identity
              /\ next.fresh = proc[p].fresh /\ next.todo = Tail(proc[p].todo) /\ next.file = Nothing
              /\ proc[p].stage = "file" /\ proc[p].file \in Files
              /\ proc[p].todo \in Seq(Change) /\ proc[p].todo # << >> /\ Head(proc[p].todo) \in Change
              /\ store' \in Files /\ NamedFile(store', agents)
              /\ Shaped(next) /\ NamedBy(next, agents)
              /\ Go(p, next) /\ UNCHANGED agents
<1> DEFINE r == proc[p]
           change == Head(r.todo)
           next == [r EXCEPT !.todo = Tail(@), !.file = Nothing]
<1>0. /\ r \in Process /\ Shaped(r) /\ NamedBy(r, agents) /\ agents \in Table
      /\ store \in Files /\ NamedFile(store, agents)
  BY OneProcess
<1>1. /\ r.stage = "file" /\ r.key \in Keys /\ r.identity \in Credential /\ r.file # Nothing
      /\ r.todo # << >> /\ r.todo \in Seq(Change) /\ r.file \in Files
  BY <1>0 DEF WriteFile, Shaped, Process
<1>2. /\ Go(p, next) /\ UNCHANGED agents
      /\ \/ change.as # Nothing /\ store' = Put(r.file, change.put, change.as)
         \/ change.as = Nothing /\ store' = [k \in DOMAIN r.file \ {change.put} |-> r.file[k]]
         \/ store' = store
  BY DEF WriteFile
<1>3. /\ change = r.todo[1] /\ 1 \in DOMAIN r.todo /\ change \in Change
      /\ Tail(r.todo) \in Seq(Change)
      /\ \A i \in DOMAIN Tail(r.todo) : Tail(r.todo)[i] = r.todo[i + 1] /\ i + 1 \in DOMAIN r.todo
  BY <1>1
<1>4. /\ next \in Process /\ next.stage = "file" /\ next.key = r.key /\ next.identity = r.identity
      /\ next.fresh = r.fresh /\ next.todo = Tail(r.todo) /\ next.file = Nothing
  BY <1>0, <1>1, <1>3 DEF Process
<1> HIDE DEF next, change
<1>5. Shaped(next)  BY <1>1, <1>4 DEF Shaped
<1>6. NamedBy(next, agents)  BY <1>0, <1>3, <1>4 DEF NamedBy
<1>7. DOMAIN r.file \subseteq Keys /\ r.file \in [DOMAIN r.file -> Credential] /\ NamedFile(r.file, agents)
  BY <1>0, <1>1, FilesAreFunctions DEF NamedBy
<1>8. store' \in Files /\ NamedFile(store', agents)
  <2>1. CASE change.as # Nothing /\ store' = Put(r.file, change.put, change.as)
    <3>1. change.as \in Credential /\ change.put \in Keys  BY <1>3, <2>1 DEF Change
    <3>2. Names(change.as, change.put, agents)  BY <1>0, <1>3, <2>1 DEF NamedBy
    <3>3. /\ DOMAIN store' = DOMAIN r.file \cup {change.put}
          /\ store'[change.put] = change.as
          /\ \A k \in DOMAIN r.file : k # change.put => store'[k] = r.file[k]
      BY <2>1 DEF Put
    <3>4. store' \in [DOMAIN store' -> Credential]  BY <1>7, <2>1, <3>1 DEF Put
    <3>5. store' \in Files  BY <1>7, <3>1, <3>3, <3>4, FilesAreFunctions
    <3> QED  BY <1>7, <3>2, <3>3, <3>5 DEF NamedFile
  <2>2. CASE change.as = Nothing /\ store' = [k \in DOMAIN r.file \ {change.put} |-> r.file[k]]
    <3>1. store' \in Files  BY <1>7, <2>2, FilesAreFunctions
    <3> QED  BY <1>7, <2>2, <3>1 DEF NamedFile
  <2>3. CASE store' = store  BY <1>0, <2>3
  <2> QED  BY <1>2, <2>1, <2>2, <2>3
<1> QED  BY <1>1, <1>2, <1>3, <1>4, <1>5, <1>6, <1>8 DEF change

LEMMA BaseStep == CredentialBase /\ [KeyNext]_keyVars => CredentialBase'
<1> SUFFICES ASSUME CredentialBase, [KeyNext]_keyVars PROVE CredentialBase'  OBVIOUS
<1>1. ASSUME UNCHANGED sdkVars PROVE CredentialBase'
  BY <1>1 DEF sdkVars, CredentialBase, CredentialTypes, CredentialsNamed
<1>2. ASSUME NEW p \in Processes, ProcessStep(p) PROVE CredentialBase'
  <2>1. CASE \/ Start(p) \/ register(p) \/ retire(p) \/ (\E k \in NewKeys : rotate_keys(p, k))
             \/ NotReached(p) \/ ReadFile(p) \/ Die(p)
    BY <2>1, LocalSteps
  <2>2. CASE create_agent(p)
    <3>1. PICK a \in AgentIds, next \in Process :
             /\ Grown(agents, a, [status |-> "registered", certificates |-> <<proc[p].key>>], agents')
             /\ Shaped(next) /\ NamedBy(next, agents')
             /\ proc[p].stage = "create" /\ AnsweredOrLost(p, next) /\ UNCHANGED store
      BY <2>2, Created
    <3> QED  BY <3>1, ServerBase DEF Grown
  <2>3. CASE activate_agent(p)
    <3>1. CASE agents[proc[p].fresh.agent].status = "registered"
      <4>1. PICK next \in Process :
               /\ Grown(agents, proc[p].fresh.agent,
                        [status |-> "active", certificates |-> agents[proc[p].fresh.agent].certificates], agents')
               /\ Shaped(next) /\ NamedBy(next, agents')
               /\ proc[p].stage = "activate" /\ AnsweredOrLost(p, next) /\ UNCHANGED store
        BY <2>3, <3>1, Activated
      <4> QED  BY <4>1, ServerBase DEF Grown
    <3>2. CASE agents[proc[p].fresh.agent].status # "registered"
      BY <2>3, <3>2, RefusedBase DEF activate_agent
    <3> QED  BY <3>1, <3>2
  <2>4. CASE rotate_certificate(p)
    <3>1. CASE agents[proc[p].identity.agent].status = "active"
      <4>1. PICK next \in Process :
               /\ Grown(agents, proc[p].identity.agent, [status |-> "active",
                        certificates |-> Append(agents[proc[p].identity.agent].certificates, proc[p].fresh)], agents')
               /\ Shaped(next) /\ NamedBy(next, agents')
               /\ proc[p].stage = "rotate" /\ AnsweredOrLost(p, next) /\ UNCHANGED store
        BY <2>4, <3>1, Rotated
      <4> QED  BY <4>1, ServerBase DEF Grown
    <3>2. CASE agents[proc[p].identity.agent].status # "active"
      BY <2>4, <3>2, RefusedBase DEF rotate_certificate
    <3> QED  BY <3>1, <3>2
  <2>5. CASE retire_agent(p)
    <3>1. CASE agents[proc[p].identity.agent].status = "active"
      <4>1. PICK next \in Process :
               /\ Grown(agents, proc[p].identity.agent, [status |-> "retired",
                        certificates |-> agents[proc[p].identity.agent].certificates], agents')
               /\ Shaped(next) /\ NamedBy(next, agents')
               /\ proc[p].stage = "retire" /\ AnsweredOrLost(p, next) /\ UNCHANGED store
        BY <2>5, <3>1, Retired
      <4> QED  BY <4>1, ServerBase DEF Grown
    <3>2. CASE agents[proc[p].identity.agent].status # "active"
      BY <2>5, <3>2, RefusedBase DEF retire_agent
    <3> QED  BY <3>1, <3>2
  <2>6. CASE WriteFile(p)
    <3>1. PICK next \in Process :
             /\ store' \in Files /\ NamedFile(store', agents) /\ Shaped(next) /\ NamedBy(next, agents)
             /\ Go(p, next) /\ UNCHANGED agents
      BY <2>6, Wrote
    <3>2. Extends(agents, agents')  BY <3>1 DEF Extends
    <3> QED  BY <3>1, <3>2, ProcessBase DEF CredentialBase, CredentialTypes
  <2> QED  BY <1>2, <2>1, <2>2, <2>3, <2>4, <2>5, <2>6 DEF ProcessStep
<1>3. ASSUME NEW i \in Instances, InstanceStep(i) PROVE UNCHANGED sdkVars
  BY <1>3 DEF InstanceStep, Boot, ensure_current_key_registered, RetirePrevious, RegisterKey,
             RegistrationFails, Sign
<1>4. CASE UNCHANGED keyVars  BY <1>1, <1>4 DEF keyVars
<1> QED  BY <1>1, <1>2, <1>3, <1>4 DEF KeyNext

LEMMA BaseInvariant == KeySpec => []CredentialBase
<1>1. KeyInit => CredentialBase
  <2> SUFFICES ASSUME KeyInit PROVE CredentialBase  OBVIOUS
  <2>1. Down \in Process /\ Shaped(Down) /\ \A t : NamedBy(Down, t)
    <3>1. 1 \in 1..MaxTries  BY KeysAssumption
    <3> QED  BY <3>1 DEF Down, Process, Shaped, NamedBy
  <2>2. Unborn \in Row  BY DEF Unborn, Row
  <2>3. agents \in Table  BY <2>2 DEF KeyInit, Table, Row
  <2>4. \A a \in AgentIds : agents[a] = Unborn  BY DEF KeyInit
  <2>5. store \in Files /\ NamedFile(store, agents)
    <3>1. DOMAIN store = {} /\ store \in [{} -> Credential]  BY DEF KeyInit
    <3> QED  BY <3>1, FilesAreFunctions DEF NamedFile
  <2>6. proc \in [Processes -> Process] /\ \A p \in Processes : proc[p] = Down  BY <2>1 DEF KeyInit
  <2> QED  BY <2>1, <2>3, <2>4, <2>5, <2>6 DEF CredentialBase, CredentialTypes, CredentialsNamed
<1> QED  BY <1>1, BaseStep, PTL DEF KeySpec

\* The key an agent was registered with
First(a, t) == t[a].certificates[1]

\* The credential says what the server says.
Current(id, t) ==
    /\ id.certificate = Len(t[id.agent].certificates)
    /\ t[id.agent].status \in {"active", "retired"} /\ id.status = t[id.agent].status

\* No two processes are up with one configured key.
NoTwins(procs) ==
    \A p, q \in Processes :
        procs[p].stage # "down" /\ procs[q].stage # "down" /\ ConfiguredKey[p] = ConfiguredKey[q] => p = q

\* A first certificate is for a configured key, a later one for a generated
\* one, and no key has two certificates.
CertificatesDistinct(t) ==
    /\ \A a \in AgentIds : \A i \in DOMAIN t[a].certificates :
          t[a].certificates[i] \in IF i = 1 THEN Configured ELSE NewKeys
    /\ \A a, b \in AgentIds : \A i \in DOMAIN t[a].certificates, j \in DOMAIN t[b].certificates :
          t[a].certificates[i] = t[b].certificates[j] => a = b /\ i = j

\* The key a process is rotating to is new, and its own.
FreshApart(procs, t) ==
    \A p \in Processes : procs[p].stage = "rotate" =>
        /\ \A a \in AgentIds : \A i \in DOMAIN t[a].certificates : t[a].certificates[i] # procs[p].fresh
        /\ \A q \in Processes : q # p /\ procs[q].stage = "rotate" => procs[q].fresh # procs[p].fresh

\* A process has the agent that was registered with its configured key.
OwnAgent(p, r, t, f) ==
    /\ r.identity = Nothing =>
          r.stage \in {"idle", "create", "activate"} /\ r.key = ConfiguredKey[p] /\ r.key \notin DOMAIN f
    /\ r.identity # Nothing =>
          /\ r.stage \in {"idle", "rotate", "retire", "file"}
          /\ First(r.identity.agent, t) = ConfiguredKey[p] /\ Current(r.identity, t)
    /\ r.identity # Nothing /\ r.stage # "file" => r.key \in DOMAIN f /\ f[r.key] = r.identity
    /\ r.stage = "activate" =>
          /\ First(r.fresh.agent, t) = ConfiguredKey[p] /\ r.fresh.status = "active"
          /\ t[r.fresh.agent].status = "registered" /\ Len(t[r.fresh.agent].certificates) = 1

\* What a process still has to file is its own: the entry under its key, and
\* the removal of the one under the key before.
OwnFiling(r, t, f) ==
    r.stage = "file" =>
        /\ \A i \in DOMAIN r.todo :
              /\ \E j \in DOMAIN t[r.identity.agent].certificates :
                    r.todo[i].put = t[r.identity.agent].certificates[j]
              /\ r.todo[i].as = Nothing => r.todo[i].put # r.key
              /\ r.todo[i].as # Nothing => r.todo[i].put = r.key /\ r.todo[i].as = r.identity
              /\ r.file # Nothing => (r.todo[i].put \in DOMAIN r.file <=> r.todo[i].put \in DOMAIN f)
        /\ \/ \E i \in DOMAIN r.todo : r.todo[i].put = r.key
           \/ r.key \in DOMAIN f /\ f[r.key] = r.identity

ToFile(k, procs) ==
    \E p \in Processes : procs[p].stage = "file" /\ \E i \in DOMAIN procs[p].todo : procs[p].todo[i].put = k

\* An entry of the file is current, or a process is about to change it.
Filed(procs, t, f) == \A k \in DOMAIN f : Current(f[k], t) \/ ToFile(k, procs)

\* The process is on the way to file the agent, or has rotated its first key away.
OnTheWay(p, r, a, t) ==
    /\ r.stage # "down" /\ ConfiguredKey[p] = First(a, t)
    /\ \/ r.stage = "activate" /\ r.fresh.agent = a
       \/ /\ r.identity # Nothing /\ r.identity.agent = a
          /\ (r.stage = "file" \/ r.key # First(a, t))

\* Whoever registered with a key is in the file under it, or up.
Accounted(procs, t, f) ==
    \A a \in AgentIds : t[a].certificates # << >> =>
        First(a, t) \in DOMAIN f \/ \E p \in Processes : OnTheWay(p, procs[p], a, t)

Orderly(procs, t, f) ==
    /\ NoTwins(procs) /\ CertificatesDistinct(t) /\ FreshApart(procs, t)
    /\ \A p \in Processes : procs[p].stage # "down" => OwnAgent(p, procs[p], t, f) /\ OwnFiling(procs[p], t, f)
    /\ Filed(procs, t, f) /\ Accounted(procs, t, f)

Undisturbed == disturbed = {} => Orderly(proc, agents, store)

\* The key descends from the configured key: it is that one, or an agent that
\* was registered with that one has a certificate for it.
Descends(k, c, t) ==
    \/ k = c
    \/ \E a \in AgentIds : First(a, t) = c /\ \E j \in DOMAIN t[a].certificates : k = t[a].certificates[j]

LEMMA OneConfigured ==
    ASSUME NEW t \in Table, CertificatesDistinct(t), NEW a \in AgentIds,
           NEW j \in DOMAIN t[a].certificates, t[a].certificates[j] \in Configured
    PROVE  j = 1 /\ 1 \in DOMAIN t[a].certificates
<1>1. t[a].certificates[j] \in IF j = 1 THEN Configured ELSE NewKeys  BY DEF CertificatesDistinct
<1>2. NewKeys \cap Configured = {}  BY KeysAssumption
<1> QED  BY <1>1, <1>2

LEMMA FirstIssued ==
    ASSUME NEW t \in Table, NEW a \in AgentIds, NEW j \in DOMAIN t[a].certificates
    PROVE  1 \in DOMAIN t[a].certificates
<1>1. t[a].certificates \in Seq(Keys)  BY DEF Table
<1> QED  BY <1>1

LEMMA LineagesApart ==
    ASSUME NEW t \in Table, CertificatesDistinct(t), NEW c \in Configured, NEW d \in Configured, NEW k,
           Descends(k, c, t), Descends(k, d, t)
    PROVE  c = d
<1>1. ASSUME NEW e \in Configured, NEW a \in AgentIds, First(a, t) = e,
             NEW j \in DOMAIN t[a].certificates, k = t[a].certificates[j], k \in Configured
      PROVE  k = e
  BY <1>1, OneConfigured DEF First
<1>2. CASE k = c /\ k # d
  <2>1. PICK a \in AgentIds : First(a, t) = d /\ \E j \in DOMAIN t[a].certificates : k = t[a].certificates[j]
    BY <1>2 DEF Descends
  <2> QED  BY <1>1, <1>2, <2>1
<1>3. CASE k = d /\ k # c
  <2>1. PICK a \in AgentIds : First(a, t) = c /\ \E j \in DOMAIN t[a].certificates : k = t[a].certificates[j]
    BY <1>3 DEF Descends
  <2> QED  BY <1>1, <1>3, <2>1
<1>4. CASE k # c /\ k # d
  <2>1. PICK a \in AgentIds : First(a, t) = c /\ \E j \in DOMAIN t[a].certificates : k = t[a].certificates[j]
    BY <1>4 DEF Descends
  <2>2. PICK b \in AgentIds : First(b, t) = d /\ \E j \in DOMAIN t[b].certificates : k = t[b].certificates[j]
    BY <1>4 DEF Descends
  <2>3. a = b  BY <2>1, <2>2 DEF CertificatesDistinct
  <2> QED  BY <2>1, <2>2, <2>3
<1> QED  BY <1>2, <1>3, <1>4

\* The agents of a process that is up have its key as their first.
LEMMA OwnAgents ==
    ASSUME CredentialBase, Orderly(proc, agents, store), NEW p \in Processes, proc[p].stage # "down"
    PROVE  /\ proc[p].identity # Nothing => proc[p].identity.agent \in AgentIds
           /\ proc[p].stage = "activate" => proc[p].fresh.agent \in AgentIds
           /\ OwnAgent(p, proc[p], agents, store) /\ OwnFiling(proc[p], agents, store)
<1>1. proc[p] \in Process /\ Shaped(proc[p])  BY OneProcess
<1>2. proc[p].identity # Nothing => proc[p].identity \in Credential  BY <1>1 DEF Process
<1>3. proc[p].stage = "activate" => proc[p].fresh \in Credential  BY <1>1 DEF Shaped
<1>4. \A id \in Credential : id.agent \in AgentIds  BY DEF Credential
<1> QED  BY <1>2, <1>3, <1>4 DEF Orderly

LEMMA OwnKeys ==
    ASSUME CredentialBase, Orderly(proc, agents, store), NEW p \in Processes, proc[p].stage # "down"
    PROVE  /\ Descends(proc[p].key, ConfiguredKey[p], agents)
           /\ proc[p].stage = "file" =>
                 \A i \in DOMAIN proc[p].todo : Descends(proc[p].todo[i].put, ConfiguredKey[p], agents)
<1> DEFINE r == proc[p]
<1>0. /\ r.identity # Nothing => r.identity.agent \in AgentIds
      /\ OwnAgent(p, r, agents, store) /\ OwnFiling(r, agents, store)
  BY OwnAgents
<1>1. NamedBy(r, agents)  BY OneProcess
<1>2. Descends(r.key, ConfiguredKey[p], agents)
  <2>1. CASE r.identity = Nothing  BY <1>0, <2>1 DEF OwnAgent, Descends
  <2>2. CASE r.identity # Nothing
    <3>1. Names(r.identity, r.key, agents)  BY <1>1, <2>2 DEF NamedBy
    <3>2. First(r.identity.agent, agents) = ConfiguredKey[p]  BY <1>0, <2>2 DEF OwnAgent
    <3> QED  BY <1>0, <2>2, <3>1, <3>2 DEF Names, Descends
  <2> QED  BY <2>1, <2>2
<1>3. ASSUME r.stage = "file", NEW i \in DOMAIN r.todo PROVE Descends(r.todo[i].put, ConfiguredKey[p], agents)
  <2>1. r.identity # Nothing  BY <1>0, <1>3 DEF OwnAgent
  <2>2. First(r.identity.agent, agents) = ConfiguredKey[p]  BY <1>0, <2>1 DEF OwnAgent
  <2>3. \E j \in DOMAIN agents[r.identity.agent].certificates :
           r.todo[i].put = agents[r.identity.agent].certificates[j]
    BY <1>0, <1>3 DEF OwnFiling
  <2> QED  BY <1>0, <2>1, <2>2, <2>3 DEF Descends
<1> QED  BY <1>2, <1>3

\* Keys of different processes that are up are different.
LEMMA KeysApart ==
    ASSUME CredentialBase, Orderly(proc, agents, store), NEW p \in Processes, NEW q \in Processes, p # q,
           proc[p].stage # "down", proc[q].stage # "down"
    PROVE  /\ ConfiguredKey[p] # ConfiguredKey[q]
           /\ \A k : ~(Descends(k, ConfiguredKey[p], agents) /\ Descends(k, ConfiguredKey[q], agents))
<1>1. ConfiguredKey[p] # ConfiguredKey[q]  BY DEF Orderly, NoTwins
<1>2. agents \in Table /\ CertificatesDistinct(agents)  BY DEF CredentialBase, CredentialTypes, Orderly
<1>3. ConfiguredKey[p] \in Configured /\ ConfiguredKey[q] \in Configured  BY DEF Configured
<1> QED  BY <1>1, <1>2, <1>3, LineagesApart

\* A process keeps what is its own as long as its agent and its entry stay.
LEMMA OwnStays ==
    ASSUME NEW q, NEW r, NEW t, NEW u, NEW f, NEW g, OwnAgent(q, r, t, f), OwnFiling(r, t, f),
           r.identity # Nothing => u[r.identity.agent] = t[r.identity.agent],
           r.stage = "activate" => u[r.fresh.agent] = t[r.fresh.agent],
           r.key \in DOMAIN g <=> r.key \in DOMAIN f, r.key \in DOMAIN f => g[r.key] = f[r.key],
           r.stage = "file" => \A i \in DOMAIN r.todo : (r.todo[i].put \in DOMAIN g <=> r.todo[i].put \in DOMAIN f)
    PROVE  OwnAgent(q, r, u, g) /\ OwnFiling(r, u, g)
<1>1. OwnAgent(q, r, u, g)  BY DEF OwnAgent, First, Current
<1>2. OwnFiling(r, u, g)
  <2>1. CASE r.stage = "file"
    <3>1. r.identity # Nothing  BY <2>1 DEF OwnAgent
    <3>2. u[r.identity.agent] = t[r.identity.agent]  BY <3>1
    <3> QED  BY <2>1, <3>2 DEF OwnFiling
  <2>2. CASE r.stage # "file"  BY <2>2 DEF OwnFiling
  <2> QED  BY <2>1, <2>2
<1> QED  BY <1>1, <1>2

LEMMA OneGoes ==
    ASSUME CredentialBase, NEW p \in Processes, NEW next, Go(p, next)
    PROVE  proc'[p] = next /\ \A q \in Processes : q # p => proc'[q] = proc[q]
  BY DEF Go, CredentialBase, CredentialTypes

LEMMA TwinsStayAway ==
    ASSUME CredentialBase, Orderly(proc, agents, store), NEW p \in Processes, NEW next, Go(p, next),
           proc[p].stage # "down"
    PROVE  NoTwins(proc')
<1>1. proc'[p] = next /\ \A q \in Processes : q # p => proc'[q] = proc[q]  BY OneGoes
<1>2. NoTwins(proc)  BY DEF Orderly
<1> QED  BY <1>1, <1>2 DEF NoTwins

LEMMA FreshStays ==
    ASSUME CredentialBase, Orderly(proc, agents, store), NEW p \in Processes, NEW next, Go(p, next),
           next.stage = "rotate" => proc[p].stage = "rotate" /\ next.fresh = proc[p].fresh
    PROVE  FreshApart(proc', agents)
<1>1. proc'[p] = next /\ \A q \in Processes : q # p => proc'[q] = proc[q]  BY OneGoes
<1>2. FreshApart(proc, agents)  BY DEF Orderly
<1> QED  BY <1>1, <1>2 DEF FreshApart

\* A step of one process that touches neither the server nor the file
LEMMA OrderlyLocal ==
    ASSUME CredentialBase, Orderly(proc, agents, store), NEW p \in Processes, NEW next, Go(p, next),
           UNCHANGED <<agents, store>>, NoTwins(proc'), FreshApart(proc', agents),
           next.stage # "down" => OwnAgent(p, next, agents, store) /\ OwnFiling(next, agents, store),
           proc[p].stage = "file" => proc[p].todo = << >> \/ (next.stage = "file" /\ next.todo = proc[p].todo),
           \A a \in AgentIds : OnTheWay(p, proc[p], a, agents) =>
               OnTheWay(p, next, a, agents) \/ First(a, agents) \in DOMAIN store
    PROVE  Orderly(proc', agents', store')
<1>1. proc'[p] = next /\ \A q \in Processes : q # p => proc'[q] = proc[q]  BY OneGoes
<1>2. \A q \in Processes : proc'[q].stage # "down" =>
         OwnAgent(q, proc'[q], agents, store) /\ OwnFiling(proc'[q], agents, store)
  BY <1>1 DEF Orderly
<1>3. Filed(proc', agents, store)
  <2>1. \A k : ToFile(k, proc) => ToFile(k, proc')  BY <1>1 DEF ToFile
  <2> QED  BY <2>1 DEF Orderly, Filed
<1>4. Accounted(proc', agents, store)
  <2> SUFFICES ASSUME NEW a \in AgentIds, agents[a].certificates # << >>, First(a, agents) \notin DOMAIN store
               PROVE  \E q \in Processes : OnTheWay(q, proc'[q], a, agents)
    BY DEF Accounted
  <2>1. PICK q \in Processes : OnTheWay(q, proc[q], a, agents)  BY DEF Orderly, Accounted
  <2> QED  BY <1>1, <2>1
<1>5. CertificatesDistinct(agents)  BY DEF Orderly
<1> QED  BY <1>2, <1>3, <1>4, <1>5 DEF Orderly

\* A process that starts takes over the entry under its key, which is current.
LEMMA IdleStarts ==
    ASSUME CredentialBase, Orderly(proc, agents, store), NEW p \in Processes, disturbed' = {}, Start(p)
    PROVE  Orderly(proc', agents', store')
<1> DEFINE c == ConfiguredKey[p]
           next == [Down EXCEPT !.stage = "idle", !.key = c, !.identity = StoreGet(c)]
<1>0. agents \in Table /\ store \in Files /\ NamedFile(store, agents) /\ CertificatesDistinct(agents)
  BY OneProcess DEF Orderly
<1>1. Go(p, next) /\ UNCHANGED <<agents, store>> /\ proc[p].stage = "down"  BY DEF Start
<1>2. next.stage = "idle" /\ next.key = c /\ next.identity = StoreGet(c)  BY DEF Down
<1> HIDE DEF next
<1>3. \A q \in Processes \ {p} : ConfiguredKey[q] = c => proc[q].stage = "down"
  <2> SUFFICES ASSUME NEW q \in Processes \ {p}, ConfiguredKey[q] = c, proc[q].stage # "down" PROVE FALSE
    OBVIOUS
  <2>1. "twins" \in disturbed'  BY DEF Start
  <2> QED  BY <2>1
<1>4. proc'[p] = next /\ \A q \in Processes : q # p => proc'[q] = proc[q]  BY <1>1, OneGoes
<1>5. NoTwins(proc')
  <2>1. NoTwins(proc)  BY DEF Orderly
  <2> QED  BY <1>3, <1>4, <2>1 DEF NoTwins
<1>6. FreshApart(proc', agents)  BY <1>1, <1>2, FreshStays
<1>7. OwnAgent(p, next, agents, store)
  <2>1. CASE c \notin DOMAIN store
    <3>1. next.identity = Nothing  BY <1>2, <2>1 DEF StoreGet
    <3> QED  BY <1>2, <2>1, <3>1 DEF OwnAgent
  <2>2. CASE c \in DOMAIN store
    <3> DEFINE id == store[c]
    <3>1. next.identity = id  BY <1>2, <2>2 DEF StoreGet
    <3>2. id \in Credential  BY <1>0, <2>2, FilesAreFunctions
    <3>3. id # Nothing /\ id.agent \in AgentIds  BY <3>2, KeysAssumption DEF Credential
    <3>4. Names(id, c, agents)  BY <1>0, <2>2 DEF NamedFile
    <3>5. c \in Configured  BY DEF Configured
    <3>6. First(id.agent, agents) = c
      <4>1. id.certificate = 1  BY <1>0, <3>3, <3>4, <3>5, OneConfigured DEF Names
      <4> QED  BY <3>4, <4>1 DEF Names, First
    <3>7. Current(id, agents)
      <4>1. ASSUME ToFile(c, proc) PROVE FALSE
        <5>1. PICK q \in Processes : proc[q].stage = "file" /\ \E j \in DOMAIN proc[q].todo : proc[q].todo[j].put = c
          BY <4>1 DEF ToFile
        <5>2. Descends(c, ConfiguredKey[q], agents)  BY <5>1, OwnKeys
        <5>3. Descends(c, c, agents)  BY DEF Descends
        <5>4. ConfiguredKey[q] \in Configured  BY DEF Configured
        <5>5. ConfiguredKey[q] = c  BY <1>0, <3>5, <5>2, <5>3, <5>4, LineagesApart
        <5> QED  BY <1>1, <1>3, <5>1, <5>5
      <4> QED  BY <2>2, <4>1 DEF Orderly, Filed
    <3> HIDE DEF id
    <3>8. next.key \in DOMAIN store /\ store[next.key] = next.identity  BY <1>2, <2>2, <3>1 DEF id
    <3> QED  BY <1>2, <3>1, <3>3, <3>6, <3>7, <3>8 DEF OwnAgent
  <2> QED  BY <2>1, <2>2
<1>8. OwnFiling(next, agents, store)  BY <1>2 DEF OwnFiling
<1>9. \A a \in AgentIds : ~OnTheWay(p, proc[p], a, agents)  BY <1>1 DEF OnTheWay
<1> QED  BY <1>1, <1>5, <1>6, <1>7, <1>8, <1>9, OrderlyLocal

\* A process with an agent goes on to another stage outside of filing.
LEMMA OrderlyMove ==
    ASSUME CredentialBase, Orderly(proc, agents, store), NEW p \in Processes, NEW next, Go(p, next),
           UNCHANGED <<agents, store>>, proc[p].stage \notin {"down", "file"},
           next.key = proc[p].key, next.identity = proc[p].identity,
           \/ proc[p].identity # Nothing /\ next.stage \in {"idle", "rotate", "retire"}
           \/ proc[p].identity = Nothing /\ next.stage \in {"idle", "create"} /\ proc[p].stage # "activate"
           \/ next.stage = proc[p].stage /\ next.fresh = proc[p].fresh,
           FreshApart(proc', agents)
    PROVE  Orderly(proc', agents', store')
<1>0. OwnAgent(p, proc[p], agents, store) /\ OwnFiling(proc[p], agents, store)  BY OwnAgents
<1>1. NoTwins(proc')  BY TwinsStayAway
<1>2. OwnAgent(p, next, agents, store)
  <2>1. CASE proc[p].identity # Nothing /\ next.stage \in {"idle", "rotate", "retire"}
    BY <1>0, <2>1 DEF OwnAgent
  <2>2. CASE proc[p].identity = Nothing /\ next.stage \in {"idle", "create"}
    BY <1>0, <2>2 DEF OwnAgent
  <2>3. CASE next.stage = proc[p].stage /\ next.fresh = proc[p].fresh
    BY <1>0, <2>3 DEF OwnAgent
  <2> QED  BY <2>1, <2>2, <2>3
<1>3. OwnFiling(next, agents, store)
  <2>1. next.stage # "file"  OBVIOUS
  <2> QED  BY <2>1 DEF OwnFiling
<1>4. \A a \in AgentIds : OnTheWay(p, proc[p], a, agents) => OnTheWay(p, next, a, agents)
  <2>1. proc[p].stage = "activate" => proc[p].identity = Nothing  BY <1>0 DEF OwnAgent
  <2> QED  BY <2>1 DEF OnTheWay
<1> QED  BY <1>1, <1>2, <1>3, <1>4, OrderlyLocal

LEMMA OrderlyRequests ==
    ASSUME CredentialBase, Orderly(proc, agents, store), NEW p \in Processes, disturbed' = {},
           register(p) \/ retire(p) \/ (\E k \in NewKeys : rotate_keys(p, k)) \/ NotReached(p)
    PROVE  Orderly(proc', agents', store')
<1> DEFINE r == proc[p]
<1>0. r \in Process /\ Shaped(r) /\ store \in Files  BY OneProcess
<1>1. CASE register(p)
  <2>0. r.stage = "idle" /\ UNCHANGED <<agents, store>>  BY <1>1 DEF register
  <2>1. OwnAgent(p, r, agents, store)  BY <2>0, OwnAgents
  <2>2. CASE StoreGet(r.key) # Nothing
    <3> DEFINE next == [r EXCEPT !.identity = StoreGet(r.key)]
    <3>1. r.key \in DOMAIN store /\ StoreGet(r.key) = store[r.key]  BY <2>2 DEF StoreGet
    <3>2. StoreGet(r.key) = r.identity  BY <2>0, <2>1, <3>1 DEF OwnAgent
    <3>3. next.stage = r.stage /\ next.key = r.key /\ next.identity = r.identity /\ next.fresh = r.fresh
      BY <1>0, <3>2 DEF Process
    <3>4. Go(p, next)  BY <1>1, <2>2 DEF register
    <3> HIDE DEF next
    <3>5. FreshApart(proc', agents)  BY <2>0, <3>3, <3>4, FreshStays
    <3> QED  BY <2>0, <3>3, <3>4, <3>5, OrderlyMove
  <2>3. CASE StoreGet(r.key) = Nothing
    <3> DEFINE next == [r EXCEPT !.stage = "create", !.tries = 1]
    <3>1. r.identity = Nothing
      <4>1. \A k \in DOMAIN store : store[k] # Nothing
        <5>1. \A k \in DOMAIN store : store[k] \in Credential  BY <1>0, FilesAreFunctions
        <5> QED  BY <5>1, KeysAssumption
      <4>2. r.key \notin DOMAIN store  BY <2>3, <4>1 DEF StoreGet
      <4> QED  BY <2>0, <2>1, <4>2 DEF OwnAgent
    <3>3. next.stage = "create" /\ next.key = r.key /\ next.identity = r.identity
      BY <1>0 DEF Process
    <3>4. Go(p, next)  BY <1>1, <2>3 DEF register
    <3> HIDE DEF next
    <3>5. FreshApart(proc', agents)  BY <3>3, <3>4, FreshStays
    <3> QED  BY <2>0, <3>1, <3>3, <3>4, <3>5, OrderlyMove
  <2> QED  BY <2>2, <2>3
<1>2. CASE retire(p)
  <2> DEFINE next == [r EXCEPT !.stage = "retire", !.tries = 1]
  <2>0. r.stage = "idle" /\ r.identity # Nothing /\ UNCHANGED <<agents, store>> /\ Go(p, next)  BY <1>2 DEF retire
  <2>1. next.stage = "retire" /\ next.key = r.key /\ next.identity = r.identity  BY <1>0 DEF Process
  <2> HIDE DEF next
  <2>2. FreshApart(proc', agents)  BY <2>0, <2>1, FreshStays
  <2> QED  BY <2>0, <2>1, <2>2, OrderlyMove
<1>3. ASSUME NEW k \in NewKeys, rotate_keys(p, k) PROVE Orderly(proc', agents', store')
  <2> DEFINE next == [r EXCEPT !.stage = "rotate", !.tries = 1, !.fresh = k]
  <2>0. /\ r.stage = "idle" /\ r.identity # Nothing /\ UNCHANGED <<agents, store>> /\ Go(p, next)
        /\ \A a \in AgentIds : k \notin {agents[a].certificates[j] : j \in DOMAIN agents[a].certificates}
        /\ \A q \in Processes : k # proc[q].fresh
    BY <1>3 DEF rotate_keys
  <2>1. next.stage = "rotate" /\ next.key = r.key /\ next.identity = r.identity /\ next.fresh = k
    BY <1>0 DEF Process
  <2> HIDE DEF next
  <2>2. FreshApart(proc', agents)
    <3>1. proc'[p] = next /\ \A q \in Processes : q # p => proc'[q] = proc[q]  BY <2>0, OneGoes
    <3>2. FreshApart(proc, agents)  BY DEF Orderly
    <3>3. \A a \in AgentIds : \A j \in DOMAIN agents[a].certificates : agents[a].certificates[j] # k  BY <2>0
    <3> QED  BY <2>0, <2>1, <3>1, <3>2, <3>3 DEF FreshApart
  <2> QED  BY <2>0, <2>1, <2>2, OrderlyMove
<1>4. CASE NotReached(p)
  <2> DEFINE next == Unanswered(p)
  <2>0. /\ r.stage \in {"create", "activate", "rotate", "retire"} /\ Go(p, next) /\ UNCHANGED <<agents, store>>
        /\ disturbed' = disturbed \cup (IF r.tries = MaxTries THEN {"lost"} ELSE {})
    BY <1>4 DEF NotReached
  <2>1. r.tries # MaxTries
    <3>1. CASE r.tries = MaxTries
      <4>1. "lost" \in disturbed'  BY <2>0, <3>1
      <4> QED  BY <4>1
    <3> QED  BY <3>1
  <2>2. next.stage = r.stage /\ next.key = r.key /\ next.identity = r.identity /\ next.fresh = r.fresh
    BY <1>0, <2>0, <2>1, UnansweredShape
  <2> HIDE DEF next
  <2>3. FreshApart(proc', agents)  BY <2>0, <2>2, FreshStays
  <2> QED  BY <2>0, <2>2, <2>3, OrderlyMove
<1> QED  BY <1>1, <1>2, <1>3, <1>4

\* The server refuses to rotate or retire; an activation it never refuses.
LEMMA OrderlyRefused ==
    ASSUME CredentialBase, Orderly(proc, agents, store), NEW p \in Processes,
           \/ activate_agent(p) /\ agents[proc[p].fresh.agent].status # "registered"
           \/ rotate_certificate(p) /\ agents[proc[p].identity.agent].status # "active"
           \/ retire_agent(p) /\ agents[proc[p].identity.agent].status # "active"
    PROVE  Orderly(proc', agents', store')
<1> DEFINE r == proc[p]
           next == [r EXCEPT !.stage = "idle"]
<1>0. r \in Process /\ Shaped(r)  BY OneProcess
<1>1. r.stage \in {"activate", "rotate", "retire"} /\ Go(p, next) /\ UNCHANGED <<agents, store>>
  BY DEF activate_agent, rotate_certificate, retire_agent
<1>2. OwnAgent(p, r, agents, store)  BY <1>1, OwnAgents
<1>3. r.stage # "activate"
  <2>1. CASE r.stage = "activate"
    <3>1. agents[r.fresh.agent].status = "registered"  BY <1>2, <2>1 DEF OwnAgent
    <3> QED  BY <2>1, <3>1 DEF activate_agent, rotate_certificate, retire_agent
  <2> QED  BY <2>1
<1>4. r.identity # Nothing  BY <1>1, <1>2, <1>3 DEF OwnAgent
<1>5. next.stage = "idle" /\ next.key = r.key /\ next.identity = r.identity  BY <1>0 DEF Process
<1> HIDE DEF next
<1>6. FreshApart(proc', agents)  BY <1>1, <1>5, FreshStays
<1> QED  BY <1>1, <1>4, <1>5, <1>6, OrderlyMove

LEMMA OrderlyReadsDies ==
    ASSUME CredentialBase, Orderly(proc, agents, store), NEW p \in Processes, disturbed' = {},
           ReadFile(p) \/ Die(p)
    PROVE  Orderly(proc', agents', store')
<1> DEFINE r == proc[p]
<1>0. r \in Process /\ Shaped(r) /\ store \in Files  BY OneProcess
<1>1. CASE ReadFile(p) /\ r.todo = << >>
  <2> DEFINE next == [r EXCEPT !.stage = "idle", !.fresh = Nothing]
  <2>1. r.stage = "file" /\ Go(p, next) /\ UNCHANGED <<agents, store>>  BY <1>1 DEF ReadFile
  <2>2. OwnAgent(p, r, agents, store) /\ OwnFiling(r, agents, store)  BY <2>1, OwnAgents
  <2>3. next.stage = "idle" /\ next.key = r.key /\ next.identity = r.identity  BY <1>0 DEF Process
  <2> HIDE DEF next
  <2>4. r.identity # Nothing  BY <2>1, <2>2 DEF OwnAgent
  <2>5. r.key \in DOMAIN store /\ store[r.key] = r.identity  BY <1>1, <2>1, <2>2 DEF OwnFiling
  <2>6. OwnAgent(p, next, agents, store)  BY <2>1, <2>2, <2>3, <2>4, <2>5 DEF OwnAgent
  <2>7. OwnFiling(next, agents, store)  BY <2>3 DEF OwnFiling
  <2>8. NoTwins(proc')  BY <2>1, TwinsStayAway
  <2>9. FreshApart(proc', agents)  BY <2>1, <2>3, FreshStays
  <2>10. \A a \in AgentIds : OnTheWay(p, r, a, agents) =>
            OnTheWay(p, next, a, agents) \/ First(a, agents) \in DOMAIN store
    BY <2>1, <2>3, <2>4, <2>5 DEF OnTheWay
  <2> QED  BY <1>1, <2>1, <2>6, <2>7, <2>8, <2>9, <2>10, OrderlyLocal
<1>2. CASE ReadFile(p) /\ r.todo # << >>
  <2> DEFINE next == [r EXCEPT !.file = store]
  <2>1. r.stage = "file" /\ Go(p, next) /\ UNCHANGED <<agents, store>>  BY <1>2 DEF ReadFile
  <2>2. OwnAgent(p, r, agents, store) /\ OwnFiling(r, agents, store)  BY <2>1, OwnAgents
  <2>3. /\ next.stage = "file" /\ next.key = r.key /\ next.identity = r.identity
        /\ next.fresh = r.fresh /\ next.todo = r.todo /\ next.file = store
    BY <1>0, <2>1 DEF Process
  <2> HIDE DEF next
  <2>4. OwnAgent(p, next, agents, store)  BY <2>1, <2>2, <2>3 DEF OwnAgent
  <2>5. OwnFiling(next, agents, store)  BY <2>1, <2>2, <2>3 DEF OwnFiling
  <2>6. NoTwins(proc')  BY <2>1, TwinsStayAway
  <2>7. FreshApart(proc', agents)  BY <2>1, <2>3, FreshStays
  <2>8. \A a \in AgentIds : OnTheWay(p, r, a, agents) => OnTheWay(p, next, a, agents)
    BY <2>1, <2>3 DEF OnTheWay
  <2> QED  BY <2>1, <2>3, <2>4, <2>5, <2>6, <2>7, <2>8, OrderlyLocal
<1>3. CASE Die(p)
  <2>1. /\ r.stage # "down" /\ Go(p, Down) /\ UNCHANGED <<agents, store>>
        /\ disturbed' = disturbed \cup (IF r.stage # "idle" THEN {"cut"} ELSE {})
                                  \cup (IF r.key # ConfiguredKey[p] THEN {"forgotten"} ELSE {})
    BY <1>3 DEF Die
  <2>2. r.stage = "idle" /\ r.key = ConfiguredKey[p]
    <3>1. r.stage # "idle" => "cut" \in disturbed'  BY <2>1
    <3>2. r.key # ConfiguredKey[p] => "forgotten" \in disturbed'  BY <2>1
    <3> QED  BY <3>1, <3>2
  <2>3. Down.stage = "down"  BY DEF Down
  <2>4. NoTwins(proc')  BY <2>1, TwinsStayAway
  <2>5. FreshApart(proc', agents)  BY <2>1, <2>3, FreshStays
  <2>6. \A a \in AgentIds : ~OnTheWay(p, r, a, agents)  BY <2>2 DEF OnTheWay
  <2> QED  BY <2>1, <2>2, <2>3, <2>4, <2>5, <2>6, OrderlyLocal
<1> QED  BY <1>1, <1>2, <1>3

\* With nothing lost, the request was answered.
LEMMA AnsweredThen ==
    ASSUME NEW p, NEW next, AnsweredOrLost(p, next), disturbed' = {}
    PROVE  Go(p, next)
  BY DEF AnsweredOrLost

\* The server changes the agent of the one process that asked for it, which
\* has the change to file.
LEMMA OrderlyServer ==
    ASSUME CredentialBase, Orderly(proc, agents, store), NEW p \in Processes, NEW next, Go(p, next),
           proc[p].stage \notin {"down", "file"}, UNCHANGED store,
           NEW b \in AgentIds, NEW row, Grown(agents, b, row, agents'),
           agents[b] = Unborn \/ First(b, agents) = ConfiguredKey[p],
           CertificatesDistinct(agents'), FreshApart(proc', agents'),
           OwnAgent(p, next, agents', store) /\ OwnFiling(next, agents', store),
           OnTheWay(p, next, b, agents'),
           \A a \in AgentIds : a # b => ~OnTheWay(p, proc[p], a, agents),
           \A k \in DOMAIN store : store[k].agent = b /\ Current(store[k], agents) =>
               next.stage = "file" /\ \E j \in DOMAIN next.todo : next.todo[j].put = k
    PROVE  Orderly(proc', agents', store')
<1>1. proc'[p] = next /\ \A q \in Processes : q # p => proc'[q] = proc[q]  BY OneGoes
<1>2. NoTwins(proc')  BY TwinsStayAway
<1>3. ASSUME NEW q \in Processes, q # p, proc[q].stage # "down"
      PROVE  OwnAgent(q, proc'[q], agents', store) /\ OwnFiling(proc'[q], agents', store)
  <2> DEFINE r == proc[q]
  <2>0. /\ r.identity # Nothing => r.identity.agent \in AgentIds
        /\ r.stage = "activate" => r.fresh.agent \in AgentIds
        /\ OwnAgent(q, r, agents, store) /\ OwnFiling(r, agents, store)
    BY <1>3, OwnAgents
  <2>1. ConfiguredKey[p] # ConfiguredKey[q]  BY <1>3, KeysApart
  <2>2. NamedBy(r, agents)  BY OneProcess
  <2>3. \A id, k : Names(id, k, agents) => agents[id.agent] # Unborn  BY DEF Names, Unborn
  <2>4. r.identity # Nothing => r.identity.agent # b
    <3>1. r.identity # Nothing => agents[r.identity.agent] # Unborn  BY <2>2, <2>3 DEF NamedBy
    <3>2. r.identity # Nothing => First(r.identity.agent, agents) = ConfiguredKey[q]  BY <2>0 DEF OwnAgent
    <3> QED  BY <2>1, <3>1, <3>2
  <2>5. r.stage = "activate" => r.fresh.agent # b
    <3>1. r.stage = "activate" => agents[r.fresh.agent] # Unborn  BY <2>2, <2>3 DEF NamedBy
    <3>2. r.stage = "activate" => First(r.fresh.agent, agents) = ConfiguredKey[q]  BY <2>0 DEF OwnAgent
    <3> QED  BY <2>1, <3>1, <3>2
  <2>6. /\ r.identity # Nothing => agents'[r.identity.agent] = agents[r.identity.agent]
        /\ r.stage = "activate" => agents'[r.fresh.agent] = agents[r.fresh.agent]
    BY <2>0, <2>4, <2>5 DEF Grown
  <2>7. OwnAgent(q, r, agents', store) /\ OwnFiling(r, agents', store)  BY <2>0, <2>6, OwnStays
  <2> QED  BY <1>1, <1>3, <2>7
<1>4. \A q \in Processes : proc'[q].stage # "down" =>
         OwnAgent(q, proc'[q], agents', store) /\ OwnFiling(proc'[q], agents', store)
  BY <1>1, <1>3
<1>5. Filed(proc', agents', store)
  <2> SUFFICES ASSUME NEW k \in DOMAIN store PROVE Current(store[k], agents') \/ ToFile(k, proc')
    BY DEF Filed
  <2>1. store[k].agent \in AgentIds
    <3>1. store[k] \in Credential  BY OneProcess, FilesAreFunctions
    <3> QED  BY <3>1 DEF Credential
  <2>2. CASE ToFile(k, proc)  BY <1>1, <2>2 DEF ToFile
  <2>3. CASE Current(store[k], agents) /\ store[k].agent = b  BY <1>1, <2>3 DEF ToFile
  <2>4. CASE Current(store[k], agents) /\ store[k].agent # b  BY <2>1, <2>4 DEF Current, Grown
  <2> QED  BY <2>2, <2>3, <2>4 DEF Orderly, Filed
<1>6. Accounted(proc', agents', store)
  <2> SUFFICES ASSUME NEW a \in AgentIds, agents'[a].certificates # << >>, First(a, agents') \notin DOMAIN store
               PROVE  \E q \in Processes : OnTheWay(q, proc'[q], a, agents')
    BY DEF Accounted
  <2>1. CASE a = b  BY <1>1, <2>1
  <2>2. CASE a # b
    <3>1. agents'[a] = agents[a]  BY <2>2 DEF Grown
    <3>2. First(a, agents') = First(a, agents)  BY <3>1 DEF First
    <3>3. PICK q \in Processes : OnTheWay(q, proc[q], a, agents)  BY <3>1, <3>2 DEF Orderly, Accounted
    <3>4. q # p  BY <2>2, <3>3
    <3> QED  BY <1>1, <3>2, <3>3, <3>4 DEF OnTheWay
  <2> QED  BY <2>1, <2>2
<1> QED  BY <1>2, <1>4, <1>5, <1>6 DEF Orderly

LEMMA OrderlyCreated ==
    ASSUME CredentialBase, Orderly(proc, agents, store), NEW p \in Processes, disturbed' = {}, create_agent(p)
    PROVE  Orderly(proc', agents', store')
<1> DEFINE r == proc[p]
           row == [status |-> "registered", certificates |-> <<r.key>>]
<1>0. PICK a \in AgentIds, next \in Process :
         /\ agents[a] = Unborn /\ Grown(agents, a, row, agents')
         /\ next.stage = "activate" /\ next.key = r.key /\ next.identity = r.identity
         /\ next.fresh = [agent |-> a, certificate |-> 1, status |-> "active"]
         /\ next.todo = << >> /\ next.file = Nothing
         /\ r.stage = "create" /\ AnsweredOrLost(p, next) /\ UNCHANGED store
  BY Created
<1>1. Go(p, next)  BY <1>0, AnsweredThen
<1>2. OwnAgent(p, r, agents, store)  BY <1>0, OwnAgents
<1>3. r.identity = Nothing /\ r.key = ConfiguredKey[p] /\ r.key \notin DOMAIN store
  BY <1>0, <1>2 DEF OwnAgent
<1>4. r.key \in Configured  BY <1>3 DEF Configured
<1>5. row.status = "registered" /\ row.certificates = <<r.key>>  OBVIOUS
<1>6. /\ agents'[a].status = "registered" /\ agents'[a].certificates = <<r.key>>
      /\ \A b \in AgentIds : b # a => agents'[b] = agents[b]
  BY <1>0, <1>5 DEF Grown
<1>7. DOMAIN agents'[a].certificates = {1} /\ agents'[a].certificates[1] = r.key /\ Len(agents'[a].certificates) = 1
  BY <1>6
<1>8. next.fresh.agent = a /\ next.fresh.status = "active"  BY <1>0
<1>9. agents \in Table /\ CertificatesDistinct(agents) /\ NamedFile(store, agents) /\ store \in Files
  BY OneProcess DEF Orderly
<1>10. \A b \in AgentIds : ~OnTheWay(p, r, b, agents)  BY <1>0, <1>3 DEF OnTheWay
<1> HIDE DEF row
<1>11. ASSUME NEW b \in AgentIds, NEW j \in DOMAIN agents[b].certificates, agents[b].certificates[j] = r.key
       PROVE  FALSE
  <2>1. j = 1  BY <1>4, <1>9, <1>11, OneConfigured
  <2>2. First(b, agents) = r.key /\ agents[b].certificates # << >>  BY <1>11, <2>1 DEF First
  <2>3. PICK q \in Processes : OnTheWay(q, proc[q], b, agents)
    BY <1>3, <2>2 DEF Orderly, Accounted
  <2>4. proc[q].stage # "down" /\ ConfiguredKey[q] = ConfiguredKey[p]  BY <1>3, <2>2, <2>3 DEF OnTheWay
  <2>5. q = p  BY <1>0, <2>4 DEF Orderly, NoTwins
  <2> QED  BY <1>10, <2>3, <2>5
<1>12. CertificatesDistinct(agents')
  <2>1. ASSUME NEW b \in AgentIds, NEW j \in DOMAIN agents'[b].certificates
        PROVE  agents'[b].certificates[j] \in IF j = 1 THEN Configured ELSE NewKeys
    <3>1. CASE b = a  BY <1>4, <1>7, <2>1, <3>1
    <3>2. CASE b # a  BY <1>6, <1>9, <2>1, <3>2 DEF CertificatesDistinct
    <3> QED  BY <3>1, <3>2
  <2>2. ASSUME NEW b \in AgentIds, NEW c \in AgentIds,
               NEW j \in DOMAIN agents'[b].certificates, NEW m \in DOMAIN agents'[c].certificates,
               agents'[b].certificates[j] = agents'[c].certificates[m]
        PROVE  b = c /\ j = m
    <3>1. CASE b = a /\ c = a  BY <1>7, <2>2, <3>1
    <3>2. CASE b = a /\ c # a  BY <1>6, <1>7, <1>11, <2>2, <3>2
    <3>3. CASE b # a /\ c = a  BY <1>6, <1>7, <1>11, <2>2, <3>3
    <3>4. CASE b # a /\ c # a  BY <1>6, <1>9, <2>2, <3>4 DEF CertificatesDistinct
    <3> QED  BY <3>1, <3>2, <3>3, <3>4
  <2> QED  BY <2>1, <2>2 DEF CertificatesDistinct
<1>13. FreshApart(proc', agents')
  <2>1. FreshApart(proc', agents)  BY <1>0, <1>1, FreshStays
  <2>2. proc'[p] = next /\ \A q \in Processes : q # p => proc'[q] = proc[q]  BY <1>1, OneGoes
  <2>3. ASSUME NEW q \in Processes, proc'[q].stage = "rotate" PROVE proc'[q].fresh # r.key
    <3>1. q # p /\ proc'[q] = proc[q]  BY <1>0, <2>2, <2>3
    <3>2. proc[q].fresh \in NewKeys  BY <2>3, <3>1, OneProcess DEF Shaped
    <3> QED  BY <1>4, <3>1, <3>2, KeysAssumption
  <2> QED  BY <1>6, <1>7, <2>1, <2>3 DEF FreshApart
<1>14. OwnAgent(p, next, agents', store)
  BY <1>0, <1>3, <1>6, <1>7, <1>8 DEF OwnAgent, First
<1>15. OwnFiling(next, agents', store)  BY <1>0 DEF OwnFiling
<1>16. OnTheWay(p, next, a, agents')  BY <1>0, <1>3, <1>7, <1>8 DEF OnTheWay, First
<1>17. \A k \in DOMAIN store : store[k].agent # a
  BY <1>0, <1>9 DEF NamedFile, Names, Unborn
<1> QED  BY <1>0, <1>1, <1>10, <1>12, <1>13, <1>14, <1>15, <1>16, <1>17, OrderlyServer

LEMMA SameCertificates ==
    ASSUME NEW t, NEW u, NEW procs, \A a \in AgentIds : u[a].certificates = t[a].certificates,
           CertificatesDistinct(t), FreshApart(procs, t)
    PROVE  CertificatesDistinct(u) /\ FreshApart(procs, u)
<1>1. CertificatesDistinct(u)  BY DEF CertificatesDistinct
<1>2. FreshApart(procs, u)  BY DEF FreshApart
<1> QED  BY <1>1, <1>2

\* What is current for the agent of a process is filed under its key.
LEMMA CurrentKey ==
    ASSUME CredentialBase, Orderly(proc, agents, store), NEW p \in Processes, proc[p].stage # "down",
           proc[p].identity # Nothing, NEW k \in DOMAIN store,
           store[k].agent = proc[p].identity.agent, Current(store[k], agents)
    PROVE  k = proc[p].key
<1>1. Names(proc[p].identity, proc[p].key, agents)  BY OneProcess DEF NamedBy
<1>2. Current(proc[p].identity, agents)  BY OwnAgents DEF OwnAgent
<1>3. Names(store[k], k, agents)  BY OneProcess DEF NamedFile
<1> QED  BY <1>1, <1>2, <1>3 DEF Names, Current

LEMMA OrderlyActivated ==
    ASSUME CredentialBase, Orderly(proc, agents, store), NEW p \in Processes, disturbed' = {},
           activate_agent(p), agents[proc[p].fresh.agent].status = "registered"
    PROVE  Orderly(proc', agents', store')
<1> DEFINE r == proc[p]
           a == r.fresh.agent
           row == [status |-> "active", certificates |-> agents[a].certificates]
           change == [put |-> r.key, as |-> r.fresh]
<1>0. PICK next \in Process :
         /\ a \in AgentIds /\ r.fresh \in Credential /\ agents[a].certificates # << >>
         /\ Grown(agents, a, row, agents')
         /\ next.stage = "file" /\ next.key = r.key /\ next.identity = r.fresh
         /\ next.fresh = r.fresh /\ next.file = Nothing /\ next.todo = <<change>>
         /\ r.stage = "activate" /\ AnsweredOrLost(p, next) /\ UNCHANGED store
  BY Activated
<1>1. Go(p, next)  BY <1>0, AnsweredThen
<1>2. OwnAgent(p, r, agents, store)  BY <1>0, OwnAgents
<1>3. /\ r.identity = Nothing /\ r.key = ConfiguredKey[p] /\ First(a, agents) = ConfiguredKey[p]
      /\ r.fresh.status = "active" /\ Len(agents[a].certificates) = 1
  BY <1>0, <1>2 DEF OwnAgent
<1>4. row.status = "active" /\ row.certificates = agents[a].certificates  OBVIOUS
<1>5. /\ agents'[a].status = "active" /\ agents'[a].certificates = agents[a].certificates
      /\ \A b \in AgentIds : agents'[b].certificates = agents[b].certificates
  BY <1>0, <1>4 DEF Grown
<1>6. change.put = r.key /\ change.as = r.fresh  OBVIOUS
<1>7. DOMAIN next.todo = {1} /\ next.todo[1] = change  BY <1>0
<1>8. r.fresh # Nothing  BY <1>0, KeysAssumption
<1> HIDE DEF row, change
<1>9. Names(r.fresh, r.key, agents)  BY <1>0, OneProcess DEF NamedBy
<1>10. agents[a].certificates \in Seq(Keys)  BY <1>0, OneProcess DEF Table
<1>11. r.fresh.certificate = 1 /\ agents[a].certificates[1] = r.key /\ 1 \in DOMAIN agents[a].certificates
  BY <1>3, <1>9, <1>10 DEF Names
<1>12. CertificatesDistinct(agents') /\ FreshApart(proc', agents')
  <2>1. CertificatesDistinct(agents)  BY DEF Orderly
  <2>2. FreshApart(proc', agents)  BY <1>0, <1>1, FreshStays
  <2> QED  BY <1>5, <2>1, <2>2, SameCertificates
<1>13. OwnAgent(p, next, agents', store)
  <2>1. First(r.fresh.agent, agents') = ConfiguredKey[p]  BY <1>3, <1>5 DEF First
  <2>2. Current(r.fresh, agents')  BY <1>3, <1>5, <1>11 DEF Current
  <2> QED  BY <1>0, <1>8, <2>1, <2>2 DEF OwnAgent
<1>14. OwnFiling(next, agents', store)
  BY <1>0, <1>5, <1>6, <1>7, <1>8, <1>11 DEF OwnFiling
<1>15. OnTheWay(p, next, a, agents')  BY <1>0, <1>3, <1>5, <1>8 DEF OnTheWay, First
<1>16. \A b \in AgentIds : b # a => ~OnTheWay(p, r, b, agents)  BY <1>0, <1>3 DEF OnTheWay
<1>17. \A k \in DOMAIN store : ~(store[k].agent = a /\ Current(store[k], agents))  BY DEF Current
<1> QED  BY <1>0, <1>1, <1>3, <1>12, <1>13, <1>14, <1>15, <1>16, <1>17, OrderlyServer

LEMMA OrderlyRetired ==
    ASSUME CredentialBase, Orderly(proc, agents, store), NEW p \in Processes, disturbed' = {},
           retire_agent(p), agents[proc[p].identity.agent].status = "active"
    PROVE  Orderly(proc', agents', store')
<1> DEFINE r == proc[p]
           a == r.identity.agent
           id == [r.identity EXCEPT !.status = "retired"]
           row == [status |-> "retired", certificates |-> agents[a].certificates]
           change == [put |-> r.key, as |-> id]
<1>0. PICK next \in Process :
         /\ a \in AgentIds /\ r.identity \in Credential /\ agents[a].certificates # << >>
         /\ Grown(agents, a, row, agents')
         /\ next.stage = "file" /\ next.key = r.key /\ next.identity = id
         /\ next.file = Nothing /\ next.todo = <<change>>
         /\ id \in Credential /\ id.agent = a /\ id.status = "retired"
         /\ id.certificate = r.identity.certificate
         /\ r.stage = "retire" /\ AnsweredOrLost(p, next) /\ UNCHANGED store
  BY Retired
<1> HIDE DEF id
<1>1. Go(p, next)  BY <1>0, AnsweredThen
<1>2. OwnAgent(p, r, agents, store)  BY <1>0, OwnAgents
<1>3. r.identity # Nothing /\ id # Nothing  BY <1>0, KeysAssumption
<1>4. First(a, agents) = ConfiguredKey[p] /\ Current(r.identity, agents)
  BY <1>2, <1>3 DEF OwnAgent
<1>5. row.status = "retired" /\ row.certificates = agents[a].certificates  OBVIOUS
<1>6. /\ agents'[a].status = "retired" /\ agents'[a].certificates = agents[a].certificates
      /\ \A b \in AgentIds : agents'[b].certificates = agents[b].certificates
  BY <1>0, <1>5 DEF Grown
<1>7. change.put = r.key /\ change.as = id  OBVIOUS
<1>8. DOMAIN next.todo = {1} /\ next.todo[1] = change  BY <1>0
<1> HIDE DEF row, change
<1>9. Names(r.identity, r.key, agents)  BY <1>3, OneProcess DEF NamedBy
<1>10. CertificatesDistinct(agents') /\ FreshApart(proc', agents')
  <2>1. CertificatesDistinct(agents)  BY DEF Orderly
  <2>2. FreshApart(proc', agents)  BY <1>0, <1>1, FreshStays
  <2> QED  BY <1>6, <2>1, <2>2, SameCertificates
<1>11. OwnAgent(p, next, agents', store)
  <2>1. First(id.agent, agents') = ConfiguredKey[p]  BY <1>0, <1>4, <1>6 DEF First
  <2>2. Current(id, agents')  BY <1>0, <1>4, <1>6 DEF Current
  <2> QED  BY <1>0, <1>3, <2>1, <2>2 DEF OwnAgent
<1>12. OwnFiling(next, agents', store)
  <2>1. \E j \in DOMAIN agents'[id.agent].certificates : r.key = agents'[id.agent].certificates[j]
    BY <1>0, <1>6, <1>9 DEF Names
  <2> QED  BY <1>0, <1>3, <1>7, <1>8, <2>1 DEF OwnFiling
<1>13. OnTheWay(p, next, a, agents')  BY <1>0, <1>3, <1>4, <1>6 DEF OnTheWay, First
<1>14. \A b \in AgentIds : b # a => ~OnTheWay(p, r, b, agents)  BY <1>0 DEF OnTheWay
<1>15. ASSUME NEW k \in DOMAIN store, store[k].agent = a, Current(store[k], agents)
       PROVE  next.stage = "file" /\ \E j \in DOMAIN next.todo : next.todo[j].put = k
  <2>1. k = r.key  BY <1>0, <1>3, <1>15, CurrentKey
  <2> QED  BY <1>0, <1>7, <1>8, <2>1
<1> QED  BY <1>0, <1>1, <1>4, <1>10, <1>11, <1>12, <1>13, <1>14, <1>15, OrderlyServer

LEMMA OrderlyRotated ==
    ASSUME CredentialBase, Orderly(proc, agents, store), NEW p \in Processes, disturbed' = {},
           rotate_certificate(p), agents[proc[p].identity.agent].status = "active"
    PROVE  Orderly(proc', agents', store')
<1> DEFINE r == proc[p]
           a == r.identity.agent
           certificates == agents[a].certificates
           id == [r.identity EXCEPT !.certificate = Len(certificates) + 1]
           row == [status |-> "active", certificates |-> Append(certificates, r.fresh)]
           save == [put |-> r.fresh, as |-> id]
           drop == [put |-> r.key, as |-> Nothing]
<1>0. PICK next \in Process :
         /\ a \in AgentIds /\ r.identity \in Credential /\ certificates # << >> /\ r.fresh \in NewKeys
         /\ Grown(agents, a, row, agents')
         /\ next.stage = "file" /\ next.key = r.fresh /\ next.identity = id
         /\ next.file = Nothing /\ next.todo = <<save, drop>>
         /\ id \in Credential /\ id.agent = a /\ id.status = r.identity.status
         /\ id.certificate = Len(certificates) + 1
         /\ r.stage = "rotate" /\ AnsweredOrLost(p, next) /\ UNCHANGED store
  BY Rotated
<1> HIDE DEF id
<1>1. Go(p, next)  BY <1>0, AnsweredThen
<1>2. OwnAgent(p, r, agents, store)  BY <1>0, OwnAgents
<1>3. r.identity # Nothing /\ id # Nothing  BY <1>0, KeysAssumption
<1>4. First(a, agents) = ConfiguredKey[p] /\ Current(r.identity, agents)
  BY <1>2, <1>3 DEF OwnAgent
<1>5. certificates \in Seq(Keys) /\ r.fresh \in Keys  BY <1>0, OneProcess DEF Table, Keys
<1>6. row.status = "active" /\ row.certificates = Append(certificates, r.fresh)  OBVIOUS
<1>7. /\ agents'[a].status = "active" /\ agents'[a].certificates = Append(certificates, r.fresh)
      /\ \A b \in AgentIds : b # a => agents'[b] = agents[b]
  BY <1>0, <1>6 DEF Grown
<1>8. save.put = r.fresh /\ save.as = id /\ drop.put = r.key /\ drop.as = Nothing  OBVIOUS
<1>9. DOMAIN next.todo = {1, 2} /\ next.todo[1] = save /\ next.todo[2] = drop  BY <1>0
<1>10. Names(r.identity, r.key, agents)  BY <1>3, OneProcess DEF NamedBy
<1> HIDE DEF row, save, drop
<1>11. r.identity.certificate \in DOMAIN certificates /\ certificates[r.identity.certificate] = r.key
  BY <1>10 DEF Names
<1>12. First(a, agents) = certificates[1]  BY DEF First
<1> HIDE DEF certificates
<1>13. LET n == Len(certificates)
           grown == agents'[a].certificates
       IN  /\ n \in Nat \ {0} /\ DOMAIN certificates = 1..n /\ DOMAIN grown = 1..(n + 1) /\ Len(grown) = n + 1
           /\ grown[n + 1] = r.fresh /\ \A j \in 1..n : grown[j] = certificates[j]
  BY <1>0, <1>5, <1>7
<1>14. \A b \in AgentIds : \A j \in DOMAIN agents[b].certificates : agents[b].certificates[j] # r.fresh
  BY <1>0 DEF Orderly, FreshApart
<1>15. CertificatesDistinct(agents) /\ FreshApart(proc, agents)  BY DEF Orderly
<1>16. CertificatesDistinct(agents')
  <2>0. \A j \in DOMAIN certificates : certificates[j] \in (IF j = 1 THEN Configured ELSE NewKeys) /\ certificates[j] # r.fresh
    BY <1>0, <1>14, <1>15 DEF CertificatesDistinct, certificates
  <2>1. ASSUME NEW b \in AgentIds, NEW j \in DOMAIN agents'[b].certificates
        PROVE  agents'[b].certificates[j] \in IF j = 1 THEN Configured ELSE NewKeys
    <3>1. CASE b = a
      <4>1. CASE j = Len(certificates) + 1  BY <1>0, <1>13, <3>1, <4>1
      <4>2. CASE j # Len(certificates) + 1
        <5>1. j \in 1..Len(certificates)  BY <1>13, <2>1, <3>1, <4>2
        <5> QED  BY <1>13, <2>0, <3>1, <5>1
      <4> QED  BY <4>1, <4>2
    <3>2. CASE b # a  BY <1>7, <1>15, <2>1, <3>2 DEF CertificatesDistinct
    <3> QED  BY <3>1, <3>2
  <2>2. ASSUME NEW b \in AgentIds, NEW j \in DOMAIN agents'[b].certificates
        PROVE  \/ b = a /\ j = Len(certificates) + 1 /\ agents'[b].certificates[j] = r.fresh
               \/ j \in DOMAIN agents[b].certificates /\ agents'[b].certificates[j] = agents[b].certificates[j]
    <3>1. CASE b = a
      <4>1. j \in 1..(Len(certificates) + 1)  BY <1>13, <2>2, <3>1
      <4>2. j = Len(certificates) + 1 \/ j \in 1..Len(certificates)  BY <1>13, <4>1
      <4>3. j \in 1..Len(certificates) => j \in DOMAIN agents[b].certificates /\ agents'[b].certificates[j] = agents[b].certificates[j]
        BY <1>13, <3>1 DEF certificates
      <4> QED  BY <1>13, <3>1, <4>2, <4>3
    <3>2. CASE b # a  BY <1>7, <2>2, <3>2
    <3> QED  BY <3>1, <3>2
  <2>3. ASSUME NEW b \in AgentIds, NEW c \in AgentIds,
               NEW j \in DOMAIN agents'[b].certificates, NEW m \in DOMAIN agents'[c].certificates,
               agents'[b].certificates[j] = agents'[c].certificates[m]
        PROVE  b = c /\ j = m
    <3>1. CASE b = a /\ j = Len(certificates) + 1 /\ agents'[b].certificates[j] = r.fresh
      BY <1>14, <2>2, <2>3, <3>1
    <3>2. CASE j \in DOMAIN agents[b].certificates /\ agents'[b].certificates[j] = agents[b].certificates[j]
      <4>1. CASE agents'[c].certificates[m] = r.fresh  BY <1>14, <2>3, <3>2, <4>1
      <4>2. CASE m \in DOMAIN agents[c].certificates /\ agents'[c].certificates[m] = agents[c].certificates[m]
        <5>1. agents[b].certificates[j] = agents[c].certificates[m]  BY <2>3, <3>2, <4>2
        <5>2. j \in DOMAIN agents[b].certificates /\ m \in DOMAIN agents[c].certificates  BY <3>2, <4>2
        <5>3. \A e, g \in AgentIds : \A x \in DOMAIN agents[e].certificates, y \in DOMAIN agents[g].certificates :
                 agents[e].certificates[x] = agents[g].certificates[y] => e = g /\ x = y
          BY <1>15 DEF CertificatesDistinct
        <5> QED  BY <5>1, <5>2, <5>3
      <4> QED  BY <2>2, <4>1, <4>2
    <3> QED  BY <2>2, <3>1, <3>2
  <2>4. \A b \in AgentIds : \A j \in DOMAIN agents'[b].certificates :
           agents'[b].certificates[j] \in IF j = 1 THEN Configured ELSE NewKeys
    BY <2>1
  <2> QED  BY <2>3, <2>4 DEF CertificatesDistinct
<1>17. FreshApart(proc', agents')
  <2>1. proc'[p] = next /\ \A q \in Processes : q # p => proc'[q] = proc[q]  BY <1>1, OneGoes
  <2>2. FreshApart(proc', agents)  BY <1>0, <1>1, FreshStays
  <2>3. ASSUME NEW q \in Processes, proc'[q].stage = "rotate" PROVE proc'[q].fresh # r.fresh
    <3>1. q # p /\ proc'[q] = proc[q]  BY <1>0, <2>1, <2>3
    <3> QED  BY <1>0, <1>15, <2>3, <3>1 DEF FreshApart
  <2>4. ASSUME NEW q \in Processes, proc'[q].stage = "rotate", NEW b \in AgentIds,
               NEW j \in DOMAIN agents'[b].certificates
        PROVE  agents'[b].certificates[j] # proc'[q].fresh
    <3>1. CASE b = a
      <4>1. CASE j = Len(certificates) + 1  BY <1>13, <2>3, <2>4, <3>1, <4>1
      <4>2. CASE j # Len(certificates) + 1
        <5>1. j \in 1..Len(certificates)  BY <1>13, <2>4, <3>1, <4>2
        <5>2. agents'[b].certificates[j] = certificates[j] /\ j \in DOMAIN certificates  BY <1>13, <3>1, <5>1
        <5> QED  BY <2>2, <2>4, <3>1, <5>2 DEF FreshApart, certificates
      <4> QED  BY <4>1, <4>2
    <3>2. CASE b # a  BY <1>7, <2>2, <2>4, <3>2 DEF FreshApart
    <3> QED  BY <3>1, <3>2
  <2> QED  BY <2>2, <2>4 DEF FreshApart
<1>18. First(a, agents') = ConfiguredKey[p]  BY <1>4, <1>12, <1>13 DEF First
<1>19. OwnAgent(p, next, agents', store)
  <2>1. Current(id, agents')  BY <1>0, <1>4, <1>7, <1>13 DEF Current
  <2> QED  BY <1>0, <1>3, <1>18, <2>1 DEF OwnAgent
<1>20. OwnFiling(next, agents', store)
  <2>1. r.key # r.fresh  BY <1>0, <1>11, <1>14 DEF certificates
  <2>2. \E j \in DOMAIN agents'[id.agent].certificates : r.key = agents'[id.agent].certificates[j]
    <3>1. r.identity.certificate \in DOMAIN agents'[a].certificates
          /\ agents'[a].certificates[r.identity.certificate] = r.key
      BY <1>11, <1>13
    <3> QED  BY <1>0, <3>1
  <2>3. \E j \in DOMAIN agents'[id.agent].certificates : r.fresh = agents'[id.agent].certificates[j]
    <3>1. Len(certificates) + 1 \in DOMAIN agents'[a].certificates  BY <1>13
    <3> QED  BY <1>0, <1>13, <3>1
  <2> QED  BY <1>0, <1>3, <1>8, <1>9, <2>1, <2>2, <2>3 DEF OwnFiling
<1>21. OnTheWay(p, next, a, agents')  BY <1>0, <1>3, <1>18 DEF OnTheWay
<1>22. \A b \in AgentIds : b # a => ~OnTheWay(p, r, b, agents)  BY <1>0 DEF OnTheWay
<1>23. ASSUME NEW k \in DOMAIN store, store[k].agent = a, Current(store[k], agents)
       PROVE  next.stage = "file" /\ \E j \in DOMAIN next.todo : next.todo[j].put = k
  <2>1. k = r.key  BY <1>0, <1>3, <1>23, CurrentKey
  <2> QED  BY <1>0, <1>8, <1>9, <2>1
<1> QED  BY <1>0, <1>1, <1>4, <1>16, <1>17, <1>19, <1>20, <1>21, <1>22, <1>23, OrderlyServer

\* With nothing overwritten, a write changes the one entry it is about.
LEMMA OneEntry ==
    ASSUME CredentialBase, Orderly(proc, agents, store), NEW p \in Processes, disturbed' = {}, WriteFile(p)
    PROVE  LET change == Head(proc[p].todo)
           IN  /\ \A k : k # change.put =>
                      /\ k \in DOMAIN store' <=> k \in DOMAIN store
                      /\ k \in DOMAIN store => store'[k] = store[k]
               /\ change.as # Nothing => /\ change.put = proc[p].key
                                         /\ change.put \in DOMAIN store' /\ store'[change.put] = proc[p].identity
               /\ change.as = Nothing => change.put # proc[p].key /\ change.put \notin DOMAIN store'
<1> DEFINE r == proc[p]
           change == Head(r.todo)
           file == r.file
<1>1. r.stage = "file" /\ r.todo \in Seq(Change) /\ r.todo # << >> /\ r.file # Nothing
  BY Wrote DEF WriteFile
<1>2. change = r.todo[1] /\ 1 \in DOMAIN r.todo  BY <1>1
<1>3. OwnFiling(r, agents, store)  BY <1>1, OwnAgents
<1>4. /\ change.as = Nothing => change.put # r.key
      /\ change.as # Nothing => change.put = r.key /\ change.as = r.identity
      /\ change.put \in DOMAIN file <=> change.put \in DOMAIN store
  BY <1>1, <1>2, <1>3 DEF OwnFiling
<1>5. Overwrite(file) => file = store
  <2>1. CASE file # store
    <3>1. Overwrite(file) => "overwritten" \in disturbed'  BY <2>1 DEF Overwrite
    <3> QED  BY <3>1
  <2> QED  BY <2>1
<1>6. \/ change.as # Nothing /\ file = store /\ store' = Put(file, change.put, change.as)
      \/ change.as = Nothing /\ file = store /\ store' = [k \in DOMAIN file \ {change.put} |-> file[k]]
      \/ change.as = Nothing /\ change.put \notin DOMAIN file /\ store' = store
  BY <1>5 DEF WriteFile
<1> HIDE DEF change
<1>7. CASE change.as # Nothing /\ file = store /\ store' = Put(file, change.put, change.as)
  <2>1. /\ DOMAIN store' = DOMAIN store \cup {change.put} /\ store'[change.put] = change.as
        /\ \A k \in DOMAIN store : k # change.put => store'[k] = store[k]
    BY <1>7 DEF Put
  <2> QED  BY <1>4, <1>7, <2>1 DEF change
<1>8. CASE change.as = Nothing /\ file = store /\ store' = [k \in DOMAIN file \ {change.put} |-> file[k]]
  <2>1. /\ DOMAIN store' = DOMAIN store \ {change.put}
        /\ \A k \in DOMAIN store : k # change.put => store'[k] = store[k]
    BY <1>8
  <2> QED  BY <1>4, <1>8, <2>1 DEF change
<1>9. CASE change.as = Nothing /\ change.put \notin DOMAIN file /\ store' = store
  BY <1>4, <1>9 DEF change
<1> QED  BY <1>6, <1>7, <1>8, <1>9

LEMMA OrderlyWrote ==
    ASSUME CredentialBase, Orderly(proc, agents, store), NEW p \in Processes, disturbed' = {}, WriteFile(p)
    PROVE  Orderly(proc', agents', store')
<1> DEFINE r == proc[p]
           change == Head(r.todo)
           put == change.put
<1>0. PICK next \in Process :
         /\ next.stage = "file" /\ next.key = r.key /\ next.identity = r.identity
         /\ next.fresh = r.fresh /\ next.todo = Tail(r.todo) /\ next.file = Nothing
         /\ r.stage = "file" /\ r.todo \in Seq(Change) /\ r.todo # << >>
         /\ Go(p, next) /\ UNCHANGED agents
  BY Wrote
<1>1. /\ change = r.todo[1] /\ 1 \in DOMAIN r.todo
      /\ \A j \in DOMAIN next.todo : next.todo[j] = r.todo[j + 1] /\ j + 1 \in DOMAIN r.todo
      /\ \A j \in DOMAIN r.todo : j # 1 => j - 1 \in DOMAIN next.todo /\ next.todo[j - 1] = r.todo[j]
  BY <1>0
<1>2. /\ \A k : k # put => /\ k \in DOMAIN store' <=> k \in DOMAIN store
                           /\ k \in DOMAIN store => store'[k] = store[k]
      /\ change.as # Nothing => put = r.key /\ put \in DOMAIN store' /\ store'[put] = r.identity
      /\ change.as = Nothing => put # r.key /\ put \notin DOMAIN store'
  BY OneEntry
<1>3. OwnAgent(p, r, agents, store) /\ OwnFiling(r, agents, store)  BY <1>0, OwnAgents
<1>4. r.identity # Nothing /\ First(r.identity.agent, agents) = ConfiguredKey[p] /\ Current(r.identity, agents)
  BY <1>0, <1>3 DEF OwnAgent
<1>5. r.identity.agent \in AgentIds  BY <1>0, <1>4, OwnAgents
<1>6. PICK n \in DOMAIN agents[r.identity.agent].certificates : put = agents[r.identity.agent].certificates[n]
  BY <1>0, <1>1, <1>3 DEF OwnFiling
<1>7. Descends(put, ConfiguredKey[p], agents)  BY <1>0, <1>1, OwnKeys
<1> HIDE DEF change
<1>8. proc'[p] = next /\ \A q \in Processes : q # p => proc'[q] = proc[q]  BY <1>0, OneGoes
<1>9. NoTwins(proc')  BY <1>0, TwinsStayAway
<1>10. FreshApart(proc', agents)  BY <1>0, FreshStays
<1>11. CertificatesDistinct(agents)  BY DEF Orderly
<1>12. ASSUME NEW q \in Processes, q # p, proc[q].stage # "down"
       PROVE  OwnAgent(q, proc'[q], agents, store') /\ OwnFiling(proc'[q], agents, store')
  <2>1. OwnAgent(q, proc[q], agents, store) /\ OwnFiling(proc[q], agents, store)  BY <1>12, OwnAgents
  <2>2. proc[q].key # put  BY <1>0, <1>7, <1>12, OwnKeys, KeysApart
  <2>3. proc[q].stage = "file" => \A j \in DOMAIN proc[q].todo : proc[q].todo[j].put # put
    BY <1>0, <1>7, <1>12, OwnKeys, KeysApart
  <2>4. OwnAgent(q, proc[q], agents, store') /\ OwnFiling(proc[q], agents, store')
    BY <1>2, <2>1, <2>2, <2>3, OwnStays
  <2> QED  BY <1>8, <1>12, <2>4
<1>13. OwnAgent(p, next, agents, store')  BY <1>0, <1>4 DEF OwnAgent
<1>14. OwnFiling(next, agents, store')
  <2>1. ASSUME NEW j \in DOMAIN next.todo
        PROVE  /\ \E m \in DOMAIN agents[next.identity.agent].certificates :
                     next.todo[j].put = agents[next.identity.agent].certificates[m]
               /\ next.todo[j].as = Nothing => next.todo[j].put # next.key
               /\ next.todo[j].as # Nothing => next.todo[j].put = next.key /\ next.todo[j].as = next.identity
    <3>1. next.todo[j] = r.todo[j + 1] /\ j + 1 \in DOMAIN r.todo  BY <1>1, <2>1
    <3> QED  BY <1>0, <1>3, <3>1 DEF OwnFiling
  <2>2. \/ \E j \in DOMAIN next.todo : next.todo[j].put = next.key
        \/ next.key \in DOMAIN store' /\ store'[next.key] = next.identity
    <3>1. CASE put = r.key  BY <1>0, <1>2, <3>1
    <3>2. CASE put # r.key
      <4>1. CASE \E j \in DOMAIN r.todo : r.todo[j].put = r.key
        <5>1. PICK j \in DOMAIN r.todo : r.todo[j].put = r.key  BY <4>1
        <5>2. j # 1  BY <1>1, <3>2, <5>1
        <5> QED  BY <1>0, <1>1, <5>1, <5>2
      <4>2. CASE r.key \in DOMAIN store /\ store[r.key] = r.identity  BY <1>0, <1>2, <3>2, <4>2
      <4> QED  BY <1>0, <1>3, <4>1, <4>2 DEF OwnFiling
    <3> QED  BY <3>1, <3>2
  <2> QED  BY <1>0, <2>1, <2>2 DEF OwnFiling
<1>15. \A q \in Processes : proc'[q].stage # "down" =>
          OwnAgent(q, proc'[q], agents, store') /\ OwnFiling(proc'[q], agents, store')
  BY <1>8, <1>12, <1>13, <1>14
<1>16. Filed(proc', agents, store')
  <2> SUFFICES ASSUME NEW k \in DOMAIN store' PROVE Current(store'[k], agents) \/ ToFile(k, proc')
    BY DEF Filed
  <2>1. CASE k = put  BY <1>2, <1>4, <2>1
  <2>2. CASE k # put
    <3>1. k \in DOMAIN store /\ store'[k] = store[k]  BY <1>2, <2>2
    <3>2. CASE ToFile(k, proc)
      <4>1. PICK q \in Processes : proc[q].stage = "file" /\ \E j \in DOMAIN proc[q].todo : proc[q].todo[j].put = k
        BY <3>2 DEF ToFile
      <4>2. PICK j \in DOMAIN proc[q].todo : proc[q].todo[j].put = k  BY <4>1
      <4>3. CASE q # p  BY <1>8, <4>1, <4>3 DEF ToFile
      <4>4. CASE q = p
        <5>1. j # 1  BY <1>1, <2>2, <4>2, <4>4
        <5>2. j - 1 \in DOMAIN next.todo /\ next.todo[j - 1].put = k  BY <1>1, <4>2, <4>4, <5>1
        <5> QED  BY <1>0, <1>8, <5>2 DEF ToFile
      <4> QED  BY <4>3, <4>4
    <3> QED  BY <3>1, <3>2 DEF Orderly, Filed
  <2> QED  BY <2>1, <2>2
<1>17. Accounted(proc', agents, store')
  <2> SUFFICES ASSUME NEW a \in AgentIds, agents[a].certificates # << >>, First(a, agents) \notin DOMAIN store'
               PROVE  \E q \in Processes : OnTheWay(q, proc'[q], a, agents)
    BY DEF Accounted
  <2>1. CASE First(a, agents) = put
    <3>1. 1 \in DOMAIN agents[a].certificates
      <4>1. agents[a].certificates \in Seq(Keys)  BY OneProcess DEF Table
      <4> QED  BY <4>1
    <3>2. a = r.identity.agent
      <4>1. agents[a].certificates[1] = agents[r.identity.agent].certificates[n]  BY <1>6, <2>1 DEF First
      <4> QED  BY <1>5, <1>6, <1>11, <3>1, <4>1 DEF CertificatesDistinct
    <3> QED  BY <1>0, <1>4, <1>8, <3>2 DEF OnTheWay
  <2>2. CASE First(a, agents) # put
    <3>1. First(a, agents) \notin DOMAIN store  BY <1>2, <2>2
    <3>2. PICK q \in Processes : OnTheWay(q, proc[q], a, agents)  BY <3>1 DEF Orderly, Accounted
    <3>3. CASE q # p  BY <1>8, <3>2, <3>3
    <3>4. CASE q = p  BY <1>0, <1>8, <3>2, <3>4 DEF OnTheWay
    <3> QED  BY <3>3, <3>4
  <2> QED  BY <2>1, <2>2
<1> QED  BY <1>0, <1>9, <1>10, <1>11, <1>15, <1>16, <1>17 DEF Orderly

LEMMA UndisturbedStep == CredentialBase /\ Undisturbed /\ [KeyNext]_keyVars => Undisturbed'
<1> SUFFICES ASSUME CredentialBase, Undisturbed, [KeyNext]_keyVars, disturbed' = {}
             PROVE  Orderly(proc', agents', store')
  BY DEF Undisturbed
<1>0. disturbed \subseteq disturbed'
  BY DEF KeyNext, ProcessStep, InstanceStep, keyVars, sdkVars, signingVars,
         Start, register, retire, rotate_keys, create_agent, activate_agent, rotate_certificate, retire_agent,
         NotReached, ReadFile, WriteFile, Overwrite, Die, AnsweredOrLost,
         Boot, ensure_current_key_registered, RetirePrevious, RegisterKey, RegistrationFails, Sign
<1>1. Orderly(proc, agents, store)
  <2>1. disturbed = {}  BY <1>0
  <2> QED  BY <2>1 DEF Undisturbed
<1>2. CASE UNCHANGED sdkVars  BY <1>1, <1>2 DEF sdkVars
<1>3. ASSUME NEW p \in Processes, ProcessStep(p) PROVE Orderly(proc', agents', store')
  <2>1. CASE Start(p)  BY <1>1, <2>1, IdleStarts
  <2>2. CASE register(p) \/ retire(p) \/ (\E k \in NewKeys : rotate_keys(p, k)) \/ NotReached(p)
    BY <1>1, <2>2, OrderlyRequests
  <2>3. CASE create_agent(p)  BY <1>1, <2>3, OrderlyCreated
  <2>4. CASE activate_agent(p)
    <3>1. CASE agents[proc[p].fresh.agent].status = "registered"  BY <1>1, <2>4, <3>1, OrderlyActivated
    <3>2. CASE agents[proc[p].fresh.agent].status # "registered"  BY <1>1, <2>4, <3>2, OrderlyRefused
    <3> QED  BY <3>1, <3>2
  <2>5. CASE rotate_certificate(p)
    <3>1. CASE agents[proc[p].identity.agent].status = "active"  BY <1>1, <2>5, <3>1, OrderlyRotated
    <3>2. CASE agents[proc[p].identity.agent].status # "active"  BY <1>1, <2>5, <3>2, OrderlyRefused
    <3> QED  BY <3>1, <3>2
  <2>6. CASE retire_agent(p)
    <3>1. CASE agents[proc[p].identity.agent].status = "active"  BY <1>1, <2>6, <3>1, OrderlyRetired
    <3>2. CASE agents[proc[p].identity.agent].status # "active"  BY <1>1, <2>6, <3>2, OrderlyRefused
    <3> QED  BY <3>1, <3>2
  <2>7. CASE ReadFile(p) \/ Die(p)  BY <1>1, <2>7, OrderlyReadsDies
  <2>8. CASE WriteFile(p)  BY <1>1, <2>8, OrderlyWrote
  <2> QED  BY <1>3, <2>1, <2>2, <2>3, <2>4, <2>5, <2>6, <2>7, <2>8 DEF ProcessStep
<1>4. ASSUME NEW j \in Instances, InstanceStep(j) PROVE UNCHANGED sdkVars
  BY <1>4 DEF InstanceStep, Boot, ensure_current_key_registered, RetirePrevious, RegisterKey,
             RegistrationFails, Sign
<1>5. CASE UNCHANGED keyVars  BY <1>2, <1>5 DEF keyVars
<1> QED  BY <1>2, <1>3, <1>4, <1>5 DEF KeyNext

LEMMA UndisturbedInvariant == KeySpec => []Undisturbed
<1>1. KeyInit => Undisturbed
  <2> SUFFICES ASSUME KeyInit PROVE Orderly(proc, agents, store)  BY DEF Undisturbed
  <2>1. \A p \in Processes : proc[p].stage = "down"  BY DEF KeyInit, Down
  <2>2. \A a \in AgentIds : agents[a].certificates = << >>  BY DEF KeyInit, Unborn
  <2>3. DOMAIN store = {}  BY DEF KeyInit
  <2> QED  BY <2>1, <2>2, <2>3 DEF Orderly, NoTwins, CertificatesDistinct, FreshApart, Filed, Accounted
<1> QED  BY <1>1, UndisturbedStep, BaseInvariant, PTL DEF KeySpec

(***************************************************************************)
(* For every number of processes, agents, keys and resends: an entry of    *)
(* the credentials file names a certificate for the key it is under,       *)
(* whatever went wrong; and as long as nothing did, no key registers two   *)
(* agents, the file is current whenever nobody is writing it, and every    *)
(* idle process can sign as its active agent (Agent.register, rotate_keys, *)
(* retire and the CredentialStore of the SDK, against agent_service).      *)
(***************************************************************************)
THEOREM CredentialsAreSound == KeySpec => []CredentialsSound
<1>1. CredentialBase /\ Undisturbed => CredentialsSound
  <2> SUFFICES ASSUME CredentialBase, Undisturbed PROVE CredentialsSound  OBVIOUS
  <2>0. /\ agents \in Table /\ store \in Files /\ NamedFile(store, agents)
        /\ \A a \in AgentIds : agents[a] = Unborn \/ agents[a].certificates # << >>
    BY DEF CredentialBase, CredentialTypes, CredentialsNamed
  <2>1. StoreGrounded  BY <2>0 DEF StoreGrounded, NamedFile, Names
  <2>2. StoreCurrent
    <3> SUFFICES ASSUME disturbed = {}, \A p \in Processes : proc[p].stage # "file",
                        NEW k \in DOMAIN store, store[k].status = "active"
                 PROVE  /\ agents[store[k].agent].status = "active"
                        /\ store[k].certificate = Len(agents[store[k].agent].certificates)
      BY DEF StoreCurrent
    <3>1. Current(store[k], agents)  BY DEF Undisturbed, Orderly, Filed, ToFile
    <3> QED  BY <3>1 DEF Current
  <2>3. HolderCanSign
    <3> SUFFICES ASSUME disturbed = {}, NEW p \in Processes, proc[p].stage = "idle", proc[p].identity # Nothing,
                        agents[proc[p].identity.agent].status = "active"
                 PROVE  CanSign(p)
      BY DEF HolderCanSign
    <3>1. Orderly(proc, agents, store)  BY DEF Undisturbed
    <3>2. Current(proc[p].identity, agents)  BY <3>1, OwnAgents DEF OwnAgent
    <3>3. Names(proc[p].identity, proc[p].key, agents)  BY OneProcess DEF NamedBy
    <3> QED  BY <3>2, <3>3 DEF CanSign, Current, Names
  <2>4. RegisteredOnce
    <3> SUFFICES ASSUME disturbed = {}, NEW a \in AgentIds, NEW b \in AgentIds, a # b,
                        agents[a] # Unborn, agents[b] # Unborn,
                        agents[a].certificates[1] = agents[b].certificates[1]
                 PROVE  FALSE
      BY DEF RegisteredOnce, IdempotentPerKey
    <3>1. CertificatesDistinct(agents)  BY DEF Undisturbed, Orderly
    <3>2. \A c \in AgentIds : agents[c].certificates # << >> => 1 \in DOMAIN agents[c].certificates
      <4>1. \A c \in AgentIds : agents[c].certificates \in Seq(Keys)  BY <2>0 DEF Table
      <4> QED  BY <4>1
    <3>3. 1 \in DOMAIN agents[a].certificates /\ 1 \in DOMAIN agents[b].certificates  BY <2>0, <3>2
    <3> QED  BY <3>1, <3>3 DEF CertificatesDistinct
  <2> QED  BY <2>1, <2>2, <2>3, <2>4 DEF CredentialsSound
<1> QED  BY <1>1, BaseInvariant, UndisturbedInvariant, PTL

=============================================================================
