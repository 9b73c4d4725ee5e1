---------------------------- MODULE MCGovernance ----------------------------
(***************************************************************************)
(* PolicyRules and PolicyGovernance on small instances.  A behaviour keeps *)
(* to one area: the rules themselves, the decisions, the schedules, the    *)
(* versions of one policy, or activations of two policies that delegate to *)
(* each other.                                                             *)
(***************************************************************************)
EXTENDS PolicyGovernance, TLC

CONSTANTS Areas

VARIABLE area

vars == <<govVars, question, area>>

-----------------------------------------------------------------------------
MCFields == {"amount", "department", "supplier_approved"}
MCSection ==
    "amount" :> "intent" @@ "department" :> "context" @@ "supplier_approved" :> "enterprise_knowledge"
MCIntentFields == {"amount"}

\* The numbers 1 and 2, two texts, the second of which contains the first, and
\* a list of 1 and the first text
MCValues == {false, true, 1, 2, 3, 4, 5}
MCTexts == {3, 4}
MCLists == {5}
MCContaining == {<<3, 3>>, <<4, 3>>, <<4, 4>>, <<5, 1>>, <<5, 3>>}

Policy(agent, effect, conditions) ==
    [principal |-> "cfo", action |-> "disable_user", agent |-> agent, resource |-> None, effect |-> effect,
     conditions |-> conditions, delegated_by |-> None, risk |-> "low"]

Cond(f, o, v) == [field |-> f, operator |-> o, value |-> v]

OnAmount ==
    {Cond("amount", o, v) : o \in NumericOperators \cup {"==", "!="}, v \in {1, 2}}
    \cup {Cond("amount", "in", S) : S \in {{1}, {1, 3}, {2}}}
    \cup {Cond("amount", "exists", true), Cond("amount", "exists", false)}

OnOthers ==
    {Cond("department", "==", 3), Cond("department", "!=", 3), Cond("department", "contains", 3),
     Cond("supplier_approved", "==", true)}

\* Conditions written for another kind of value
OddKinds ==
    {Cond("amount", "<", 3), Cond("amount", "==", true), Cond("amount", "!=", true), Cond("amount", "==", 3),
     Cond("amount", "!=", 5), Cond("amount", "==", 5), Cond("amount", "in", {2, 5}), Cond("amount", "exists", 1),
     Cond("amount", "contains", 1)}

Short == {<< >>} \cup {<<c>> : c \in OnAmount \cup OnOthers \cup OddKinds}
Pairs == {<<c, d>> : c \in OnAmount, d \in OnAmount \cup OnOthers}

MCQuestions ==
    {<<Policy(a, "require_human_review", s), Policy(b, "require_human_review", t)>> :
        a \in {None, "agent1"}, b \in {None, "agent1", "agent2"}, s \in Short, t \in Short}
    \cup {<<Policy(None, "allow", s), Policy(None, "deny", t)>> : s \in Pairs, t \in Short}

\* Is an element of a list found by "contains"?
MCElements == {<<Policy(None, "allow", <<Cond("department", "contains", 3)>>), Policy(None, "deny", << >>)>>}

-----------------------------------------------------------------------------
\* What the areas write and ask
Cap == [Policy(None, "allow", <<Cond("amount", "<=", 1)>>) EXCEPT !.risk = "high"]
Approved == Policy(None, "allow", <<Cond("supplier_approved", "==", true)>>)
Delegated(from, to) == [Policy(None, "allow", << >>) EXCEPT !.principal = to, !.delegated_by = from]

MCPolicies == {Cap, Approved, Delegated("cfo", "clerk"), Delegated("clerk", "cfo")}

ContentsOf(k) ==
    CASE area = "decisions" -> {Cap, Approved}
      [] area \in {"schedules", "versions"} -> {Cap}
      [] area = "activations" -> IF k = "k1" THEN {Delegated("cfo", "clerk")} ELSE {Delegated("clerk", "cfo")}
      [] OTHER -> {}

MCInputs ==
    {[principal |-> "cfo", action |-> "disable_user", agent |-> "agent1", resource |-> None,
      data |-> [f \in MCFields |-> IF f = "amount" THEN v ELSE Absent]] : v \in {2, None}}

MCKeys == {"k1", "k2"}
KeysOf == IF area = "activations" THEN MCKeys ELSE {"k1"}

OperationsOf(c) ==
    CASE area = "schedules" ->
            IF c = "c1" THEN {"edit", "submit", "approve", "schedule_activation", "schedule_retirement"}
            ELSE {}
      [] area = "versions" ->
            IF c = "c1" THEN {"edit", "submit", "approve", "reject", "activate", "retire", "rollback", "deprecate"}
            ELSE {"edit", "archive", "attest", "rollback"}
      [] area = "activations" ->
            IF c = "c1" THEN {"submit", "approve", "compile", "activate", "retire"} ELSE {"activate", "compile", "deploy"}
      [] area = "decisions" -> IF c = "c1" THEN {"edit", "submit", "approve", "compile", "deploy", "retire"} ELSE {}
      [] OTHER -> {}

VersionsIn == IF area = "activations" THEN 1 ELSE 2
FaultsIn == IF area \in {"schedules", "versions"} THEN MaxFaults ELSE 0

Args(op, k) ==
    IF op = "edit" THEN ContentsOf(k) ELSE IF op = "rollback" THEN DOMAIN rows[k] ELSE {None}

Govern ==
    \/ \E k \in KeysOf : \E p \in ContentsOf(k) : create_policy(k, p)
    \/ \E c \in Clients, k \in KeysOf : \E op \in OperationsOf(c) : \E arg \in Args(op, k) :
          /\ op \in {"edit", "rollback"} => Len(rows[k]) < VersionsIn
          /\ Begin(c, op, k, arg)
    \/ \E c \in Clients :
          /\ ClientStep(c)
          /\ faults' <= FaultsIn
    \/ \E i \in DOMAIN schedules : BecomesDue(i) \/ BeginCancel("c1", i)
    \/ \E c \in Clients : process_due_schedules(c)
    \/ area = "decisions" /\ Active # {} /\ FactStep /\ \A x \in facts' : x.value \in Booleans
    \/ area = "decisions" /\ \E a \in Active : PolicyOf(a).risk = "high" /\ AuthorityExpires(a[1], a[2])

Init == GovInit /\ RulesInit /\ area \in Areas

Next ==
    \/ area = "rules" /\ Ask /\ UNCHANGED <<govVars, area>>
    \/ Govern /\ Unnoticed /\ UNCHANGED <<question, area>>
    \/ /\ area = "decisions"
       /\ \E d \in Deciders : Decide(d)
       /\ UNCHANGED <<rows, schedules, opa, sources, facts, req, faults, history, question, area>>

Spec == Init /\ [][Next]_vars

=============================================================================
