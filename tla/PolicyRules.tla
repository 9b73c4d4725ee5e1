---------------------------- MODULE PolicyRules ----------------------------
(***************************************************************************)
(* What a RuntimePolicy means: the condition language, Compiler V2 with    *)
(* its conflict detection, the generated Rego as OPA evaluates it, the     *)
(* decision engine, and the simulator's own account of the same rules.     *)
(*                                                                         *)
(* A policy is a record of its scope, effect and conditions; a bundle maps *)
(* names to policies.  A condition compares one field with a value: a      *)
(* boolean, a number, a text or a list.  Values are their places in OPA's  *)
(* order, which puts every boolean before every number, these before every *)
(* text and those before every list; a number is its own place, and false  *)
(* and true are -2 and -1.  Python orders values of one kind alike, takes  *)
(* False and True for 0 and 1, and has no order between other kinds.       *)
(* The names of policies, their metadata, the text of the Rego and null as *)
(* a condition's value are left out.  The variable is a question put to    *)
(* the compiler, the simulator and the diff: two policies.                 *)
(***************************************************************************)
EXTENDS Integers, Sequences, FiniteSets, Functions

CONSTANTS
    Fields,        \* condition fields
    Section,       \* Fields -> the section of OPA's input a field is read from
    IntentFields,  \* the fields an Intent has
    Vocabulary,    \* GENERIC_VOCABULARY.known_actions
    Values,        \* values a field can have
    Texts, Lists,  \* those that are text, those that are lists
    Containing,    \* <<a, b>>: the text or list a contains b
    None,          \* Python's None, null in OPA's input
    Absent,        \* the value of a field OPA's input does not have
    Questions      \* pairs of policies

VARIABLE question

Effects == {"allow", "deny", "require_human_review"}
NumericOperators == {"<=", "<", ">=", ">"}

false == -2
true == -1
Booleans == Values \cap {false, true}
Numbers == Values \ (Booleans \cup Texts \cup Lists)

\* What Python makes of a value when it compares it
Python(v) == IF v \in Booleans THEN v - false ELSE v

Conditions(p) == Range(p.conditions)
On(p, f) == {c \in Conditions(p) : c.field = f}

\* Condition and ConditionSet.  The value of "in" is a list, given here by
\* its elements; the validator refuses any other.
IsCondition(c) ==
    /\ c.field \in Fields
    /\ \/ c.operator \in NumericOperators \cup {"==", "!=", "contains", "exists"} /\ c.value \in Values
       \/ c.operator = "in" /\ c.value \subseteq Values

IsPolicy(p) == p.conditions \in Seq(Conditions(p)) /\ \A c \in Conditions(p) : IsCondition(c)

\* build_opa_input's request: a value, null or nothing for every field
IsInput(i) ==
    /\ i = [principal |-> i.principal, action |-> i.action, agent |-> i.agent, resource |-> i.resource,
            data |-> i.data]
    /\ i.data \in [Fields -> Values \cup {None, Absent}]

ASSUME SectionAssumption == Section \in [Fields -> {"intent", "context", "enterprise_knowledge"}]
ASSUME ValuesAssumption ==
    /\ Values \subseteq Int /\ Texts \cup Lists \subseteq Values
    /\ \A n \in Numbers : 0 <= n /\ \A v \in Texts \cup Lists : n < v
    /\ \A v \in Texts \cup Lists : v > 1
    /\ \A t \in Texts, l \in Lists : t < l
    /\ Containing \subseteq (Texts \X Texts) \cup (Lists \X Values)
    /\ None \notin Values /\ Absent \notin Values /\ None # Absent
ASSUME QuestionsAssumption ==
    \A pair \in Questions : IsPolicy(pair[1]) /\ IsPolicy(pair[2])

-----------------------------------------------------------------------------
(* runtime_policy.validators and the compiler's vocabulary                 *)

validate(p) ==
    /\ p.principal # None /\ p.action # None /\ p.effect \in Effects
    /\ IsInjective(p.conditions)
    /\ \A c \in Conditions(p) : c.operator \in NumericOperators => c.value \in Numbers

\* _validate_policy_against_vocabulary
InVocabulary(p) ==
    /\ p.action \in Vocabulary
    /\ \A c \in Conditions(p) : Section[c.field] = "intent" => c.field \in IntentFields

-----------------------------------------------------------------------------
(* scope_overlap: could one Intent match both policies?                    *)

\* _tighter_lo and _tighter_hi over all the bounds of a field: <<value, inclusive>>
Lowest(bounds) ==
    CHOOSE b \in bounds : \A c \in bounds : b[1] > c[1] \/ (b[1] = c[1] /\ (b[2] => c[2]))

Highest(bounds) ==
    CHOOSE b \in bounds : \A c \in bounds : b[1] < c[1] \/ (b[1] = c[1] /\ (b[2] => c[2]))

\* _build_field_constraint, in Python's values.  Of several equalities the
\* first is kept; a list within a list has no hash, which is caught.
FieldConstraint(p, f) ==
    LET with(ops) == {c \in On(p, f) : c.operator \in ops}
        equal == {n \in DOMAIN p.conditions :
                     p.conditions[n].field = f /\ p.conditions[n].operator = "=="}
    IN [lo |-> {<<c.value, c.operator = ">=">> : c \in with({">", ">="})},
        hi |-> {<<c.value, c.operator = "<=">> : c \in with({"<", "<="})},
        eq |-> {Python(p.conditions[n].value) : n \in {m \in equal : \A l \in equal : m <= l}},
        neq |-> {Python(c.value) : c \in with({"!="})},
        in |-> {{Python(v) : v \in c.value} : c \in with({"in"})},
        inconclusive |-> \/ with({"contains", "exists"}) # {}
                         \/ \E c \in with({"in"}) : c.value \cap Lists # {}]

Common(sets) == {v \in UNION sets : \A S \in sets : v \in S}

\* What one value would have to satisfy: both constraints
Both(c1, c2) ==
    LET pinned == {<<v, TRUE>> : v \in c1.eq \cup c2.eq}
    IN [lo |-> c1.lo \cup c2.lo \cup pinned, hi |-> c1.hi \cup c2.hi \cup pinned,
        eq |-> c1.eq \cup c2.eq, neq |-> c1.neq \cup c2.neq,
        apart |-> c1.in # {} /\ c2.in # {} /\ Common(c1.in) \cap Common(c2.in) = {},
        inconclusive |-> c1.inconclusive \/ c2.inconclusive]

\* Bounds Python has no order for
Mixed(bounds) ==
    \E b, c \in bounds : (b[1] \in Texts) # (c[1] \in Texts) \/ (b[1] \in Lists) # (c[1] \in Lists)

\* A TypeError on valid conditions: a list has no hash, and what a field is to
\* equal has no order to its bounds.
Incomparable(c) ==
    \/ c.neq \cap Lists # {}
    \/ /\ ~c.inconclusive /\ Cardinality(c.eq) <= 1
       /\ Mixed(c.lo) \/ Mixed(c.hi) \/ (~c.apart /\ c.eq \cap Lists # {})

\* Fault: bounds that meet in one value leave none
MeetBetween(l, h, excluded) == l[1] < h[1]

\* Some value lies between the bounds.
Meet(l, h, excluded) == l[1] < h[1] \/ (l[1] = h[1] /\ l[2] /\ h[2] /\ l[1] \notin excluded)

\* _fields_can_overlap does not say no.  A TypeError ends the compilation
\* without a bundle, as a conflict does.
FieldsCanOverlap(c1, c2) ==
    LET c == Both(c1, c2)
    IN \/ Incomparable(c)
       \/ c.inconclusive
       \/ /\ Cardinality(c.eq) <= 1
          /\ ~c.apart
          /\ c.lo # {} /\ c.hi # {} => Meet(Lowest(c.lo), Highest(c.hi), c.neq)

\* _scopes_can_overlap
ScopesCanOverlap(p, q) ==
    /\ p.principal = q.principal /\ p.action = q.action
    /\ p.agent = q.agent \/ None \in {p.agent, q.agent}
    /\ p.resource = q.resource \/ None \in {p.resource, q.resource}

policies_can_jointly_match(p, q) ==
    /\ ScopesCanOverlap(p, q)
    /\ \A f \in {c.field : c \in Conditions(p) \cup Conditions(q)} :
          FieldsCanOverlap(FieldConstraint(p, f), FieldConstraint(q, f))

\* _has_contradictory_equality, flagged although no Intent matches both
ContradictoryEquality(p, q) ==
    \E c \in Conditions(p), d \in Conditions(q) :
        c.operator = "==" /\ d.operator = "==" /\ c.field = d.field /\ Python(c.value) # Python(d.value)

\* _policy_conflicts
Conflict(p, q) ==
    /\ p.principal = q.principal /\ p.action = q.action
    /\ policies_can_jointly_match(p, q) \/ ContradictoryEquality(p, q)

\* generate_condition_expression has no Rego for it: a ValueError.
Untranslatable(p) == \E c \in Conditions(p) : c.operator = "exists" /\ c.value \notin Booleans

\* The errors compile_bundle reports
NoErrors(bundle) ==
    /\ \A k \in DOMAIN bundle : validate(bundle[k]) /\ InVocabulary(bundle[k])
    /\ \A k, l \in DOMAIN bundle : k # l => ~Conflict(bundle[k], bundle[l])

\* compile_bundle: whether a bundle can come of it.  (Which field is looked
\* at first is left to the order of a set: where one has a TypeError and
\* another rules the pair out, the code may end either way.)
compiles(bundle) == NoErrors(bundle) /\ \A k \in DOMAIN bundle : ~Untranslatable(bundle[k])

\* upload_policy: OPA's type check refuses contains of anything but a text.
uploads(bundle) ==
    /\ compiles(bundle)
    /\ \A k \in DOMAIN bundle : \A c \in Conditions(bundle[k]) :
          c.operator = "contains" => c.value \in Texts

\* compile_bundle of valid policies ends in an exception, whatever the order.
Raises(bundle) ==
    /\ \A k \in DOMAIN bundle : validate(bundle[k])
    /\ \/ NoErrors(bundle) /\ ~compiles(bundle)
       \/ \E k, l \in DOMAIN bundle :
             /\ k # l
             /\ policies_can_jointly_match(bundle[k], bundle[l])
             /\ \E c \in Conditions(bundle[k]) \cup Conditions(bundle[l]) :
                   Incomparable(Both(FieldConstraint(bundle[k], c.field), FieldConstraint(bundle[l], c.field)))

-----------------------------------------------------------------------------
(* The generated Rego and the decision engine                              *)

\* OPA's order has null before every other value, and a comparison with a
\* field that is not there is undefined.
Less(a, b) == a # Absent /\ (a = None \/ a < b)
AtMost(a, b) == a = b \/ Less(a, b)

\* generate_condition_expression.  contains is OPA's function on two texts;
\* of anything else it is undefined.
ConditionHolds(c, actual) ==
    CASE c.operator = "<=" -> AtMost(actual, c.value)
      [] c.operator = "<" -> Less(actual, c.value)
      [] c.operator = ">=" -> actual # Absent /\ ~Less(actual, c.value)
      [] c.operator = ">" -> actual # Absent /\ ~AtMost(actual, c.value)
      [] c.operator = "==" -> actual = c.value
      [] c.operator = "!=" -> actual # Absent /\ actual # c.value
      [] c.operator = "in" -> actual \in c.value
      [] c.operator = "contains" -> actual \in Texts /\ <<actual, c.value>> \in Containing
      [] c.operator = "exists" -> (actual \notin {None, Absent}) = (c.value = true)

\* generate_policy_rule: the scope and every condition
Matches(p, input) ==
    /\ input.action = p.action /\ input.principal = p.principal
    /\ p.agent # None => input.agent = p.agent
    /\ p.resource # None => input.resource = p.resource
    /\ \A c \in Conditions(p) : ConditionHolds(c, input.data[c.field])

\* evaluated_mandates
Evaluated(bundle, input) == {k \in DOMAIN bundle : Matches(bundle[k], input)}

WithEffect(bundle, input, e) == {k \in Evaluated(bundle, input) : bundle[k].effect = e}

\* build_bundle's aggregate rules and the fallback that denies
Flags(bundle, input) ==
    [allow |-> WithEffect(bundle, input, "allow") # {},
     deny |-> WithEffect(bundle, input, "deny") # {} \/ Evaluated(bundle, input) = {},
     requires_review |-> WithEffect(bundle, input, "require_human_review") # {}]

\* Two values for review_reason or for deny_reason are an error in OPA.
ReasonsClash(bundle, input) ==
    \E e \in {"deny", "require_human_review"} : Cardinality(WithEffect(bundle, input, e)) > 1

\* The end of evaluate, also _decision_from_flags and the dry run's mapping
FromFlags(flags) ==
    IF flags.requires_review THEN "HUMAN_REVIEW"
    ELSE IF flags.allow /\ ~flags.deny THEN "ALLOW"
    ELSE IF flags.deny THEN "DENY"
    ELSE "HUMAN_REVIEW"

\* engine.evaluate.  fails: no answer from OPA in time, or an error.  With
\* nothing deployed OPA's answer is empty.
evaluate(bundle, input, fails) ==
    IF fails \/ DOMAIN bundle = {} \/ ReasonsClash(bundle, input) THEN "HUMAN_REVIEW"
    ELSE FromFlags(Flags(bundle, input))

\* _ENTERPRISE_KNOWLEDGE_FIELD_PREFIX: the facts some condition refers to
FactKeys(policies) ==
    {f \in Fields : /\ Section[f] = "enterprise_knowledge"
                    /\ \E p \in policies : On(p, f) # {}}

\* build_opa_input: the request's own data and the facts that were resolved
WithFacts(input, known) ==
    [input EXCEPT !.data = [f \in Fields |-> IF Section[f] # "enterprise_knowledge" THEN @[f]
                                            ELSE IF f \in DOMAIN known THEN known[f] ELSE Absent]]

-----------------------------------------------------------------------------
(* policy_simulation                                                       *)

\* to_intent leaves out what was not given, and no agent asks.
Simulated(input) ==
    [input EXCEPT !.agent = None,
                  !.data = [f \in Fields |-> IF Section[f] = "intent" /\ @[f] = None THEN Absent ELSE @[f]]]

\* simulate: an isolated evaluation of a bundle OPA takes.  known: the facts about the counterparty.
simulate(bundle, input, known) ==
    LET needed == FactKeys(Range(bundle))
        asked == WithFacts(Simulated(input), Restrict(known, needed \cap DOMAIN known))
    IN IF ReasonsClash(bundle, asked) THEN "error" ELSE FromFlags(Flags(bundle, asked))

\* _condition_holds: Python's comparison, false on a TypeError
ExplainedHolds(c, actual) ==
    IF c.operator = "exists" THEN (actual # None) = (c.value = true)
    ELSE /\ actual # None
         /\ c.operator \in NumericOperators => actual \notin Texts \cup Lists
         /\ CASE c.operator = "<=" -> Python(actual) <= c.value
              [] c.operator = "<" -> Python(actual) < c.value
              [] c.operator = ">=" -> Python(actual) >= c.value
              [] c.operator = ">" -> Python(actual) > c.value
              [] c.operator = "==" -> Python(actual) = Python(c.value)
              [] c.operator = "!=" -> Python(actual) # Python(c.value)
              [] c.operator = "in" -> \E v \in c.value : Python(actual) = Python(v)
              [] c.operator = "contains" -> <<actual, c.value>> \in Containing

\* _resolve_value knows the prefix "context." only, and None stands for a
\* missing field.
ExplainedValue(f, input) ==
    IF Section[f] = "enterprise_knowledge" \/ input.data[f] = Absent THEN None ELSE input.data[f]

\* evaluate_rule's summary: the policy matched
ExplainedMatch(p, input) ==
    /\ input.principal = p.principal /\ input.action = p.action
    /\ p.resource # None => input.resource = p.resource
    /\ \A c \in Conditions(p) : ExplainedHolds(c, ExplainedValue(c.field, input))

-----------------------------------------------------------------------------
(* compute_condition_diff                                                  *)

\* Conditions by field and operator; the last of a kind is kept.
ByKey(p) ==
    [key \in {<<c.field, c.operator>> : c \in Conditions(p)} |->
        LET same == {n \in DOMAIN p.conditions :
                        <<p.conditions[n].field, p.conditions[n].operator>> = key}
        IN p.conditions[CHOOSE n \in same : \A m \in same : m <= n].value]

\* risk_increased
Loosened(old, new) ==
    \/ DOMAIN old \ DOMAIN new # {}
    \/ \E key \in DOMAIN old \cap DOMAIN new :
          \/ key[2] \in {"<=", "<"} /\ new[key] > old[key]
          \/ key[2] \in {">=", ">"} /\ new[key] < old[key]

\* risk_decreased is the same change seen from the other side.
risk_impact(p, q) ==
    LET more == Loosened(ByKey(p), ByKey(q))
        less == Loosened(ByKey(q), ByKey(p))
    IN IF more /\ ~less THEN "increased"
       ELSE IF less /\ ~more THEN "decreased"
       ELSE IF more THEN "mixed"
       ELSE "unchanged"

-----------------------------------------------------------------------------
NoQuestion == << >>

RulesInit == question = NoQuestion

\* Someone compiles, simulates or compares two policies.
Ask == question = NoQuestion /\ question' \in Questions

RulesSpec == RulesInit /\ [][Ask]_question

-----------------------------------------------------------------------------
Facts == {f \in Fields : Section[f] = "enterprise_knowledge"}

\* The fields the policies in question have conditions on
Mentioned == {c.field : c \in Conditions(question[1]) \cup Conditions(question[2])}

LiveInput(p, agent, given) ==
    [principal |-> p.principal, action |-> p.action, agent |-> agent, resource |-> p.resource,
     data |-> [f \in Fields |-> IF f \in Mentioned THEN given[f] ELSE Absent]]

\* The Intents that could tell the policies in question apart.  A live Intent
\* has every field, with null where nothing was given; fields neither policy
\* mentions are left out.
LiveInputs(p) ==
    {LiveInput(p, agent, given) :
        agent \in {p.agent, question[2].agent}, given \in [Mentioned -> Values \cup {None}]}

\* A condition on the field refers to a value the Intent does not give.
NullField(p, input) == \E c \in Conditions(p) : input.data[c.field] = None

Literals(c) == IF c.operator = "in" THEN c.value ELSE {c.value}

\* On no field is a boolean written beside a number.
KindsApart(p, q) ==
    \A c, d \in Conditions(p) \cup Conditions(q) :
        c.field = d.field /\ "exists" \notin {c.operator, d.operator} =>
            Literals(c) \cap Booleans = {} \/ Literals(d) \cap Numbers = {}

\* No Intent matches both.
Disjoint(p, q) == \A i \in LiveInputs(p) : ~(Matches(p, i) /\ Matches(q, i))

(* "False is a proof, not a guess" (policies_can_jointly_match): when it   *)
(* says that two valid policies cannot both match, no Intent matches both, *)
(* null amounts and values of other kinds included, unless a boolean is    *)
(* written beside a number.                                                *)
OverlapSound ==
    question # NoQuestion =>
        LET p == question[1]
            q == question[2]
        IN validate(p) /\ validate(q) /\ KindsApart(p, q) /\ ~policies_can_jointly_match(p, q) =>
              Disjoint(p, q)

(* The same of every two valid policies, as the comment has it.            *)
OverlapProven ==
    question # NoQuestion =>
        LET p == question[1]
            q == question[2]
        IN validate(p) /\ validate(q) /\ ~policies_can_jointly_match(p, q) => Disjoint(p, q)

\* The policies in question as a bundle OPA takes
Deployable(b) == uploads(b) /\ KindsApart(b[1], b[2])

(* What Compiler V2's conflict detection is for: in a bundle that compiles *)
(* every Intent is decided by one policy or falls to the default, and OPA  *)
(* never finds two reasons for one answer.                                 *)
OneVerdict ==
    question # NoQuestion =>
        LET b == [k \in 1..2 |-> question[k]]
        IN Deployable(b) => \A i \in LiveInputs(b[1]) :
              /\ Cardinality(Evaluated(b, i)) <= 1
              /\ evaluate(b, i, FALSE) = IF Evaluated(b, i) = {} THEN "DENY"
                    ELSE CASE b[CHOOSE k \in Evaluated(b, i) : TRUE].effect = "allow" -> "ALLOW"
                           [] b[CHOOSE k \in Evaluated(b, i) : TRUE].effect = "deny" -> "DENY"
                           [] OTHER -> "HUMAN_REVIEW"

(* compile_bundle "always returns a CompilerDiagnostics, never raises", of *)
(* valid policies at least.                                                *)
CompilerAnswers == question # NoQuestion => ~Raises([k \in 1..2 |-> question[k]])

(* The simulator answers what a live decision with the same bundle and     *)
(* facts would (audit finding G03), for policies that name no agent and an *)
(* Intent that gives every field a condition is on.                        *)
SimulationFaithful ==
    question # NoQuestion =>
        LET b == [k \in 1..2 |-> question[k]]
        IN (\A k \in 1..2 : b[k].agent = None) /\ Deployable(b) =>
              \A i \in LiveInputs(b[1]) :
                 (\A k \in 1..2 : ~NullField(b[k], i)) =>
                    simulate(b, i, Restrict(i.data, Facts)) = evaluate(b, i, FALSE)

\* What a condition is asked about has the kind the condition is written for.
OfKind(c, v) ==
    v \in Values =>
        /\ c.operator \in NumericOperators => v \in Numbers
        /\ c.operator = "contains" => v \notin Lists
        /\ c.operator \in {"==", "!=", "in"} => \A w \in Literals(c) : Python(w) = Python(v) => w = v

\* The simulator's questions about a policy on no agent and on no fact
ExplainedInputs(p) ==
    {i \in {Simulated(j) : j \in LiveInputs(p)} :
        \A c \in Conditions(p) : Section[c.field] = "context" => i.data[c.field] # None}

Explained(p) == uploads(<<p>>) /\ p.agent = None /\ FactKeys({p}) = {}

(* The explanation shown beside a simulated decision says a policy matched *)
(* exactly when the compiled Rego matched it, where every value has the    *)
(* kind its conditions are written for.                                    *)
ExplanationAgrees ==
    question # NoQuestion =>
        LET p == question[1]
        IN Explained(p) => \A i \in ExplainedInputs(p) :
              (\A c \in Conditions(p) : OfKind(c, i.data[c.field])) =>
                 (ExplainedMatch(p, i) <=> Matches(p, i))

(* The same whatever the values are: the explainer is "mechanically        *)
(* guaranteed to agree with what the compiled Rego actually does".         *)
ExplanationMechanical ==
    question # NoQuestion =>
        LET p == question[1]
        IN Explained(p) => \A i \in ExplainedInputs(p) : ExplainedMatch(p, i) <=> Matches(p, i)

(* The reviewer's summary of an edit: "increased" means that the new       *)
(* version matches whatever the old one did, "decreased" that it matches   *)
(* nothing more.  For versions that keep their scope, name each field and  *)
(* operator once, and change the values of numeric conditions only.        *)
RiskSummary ==
    question # NoQuestion =>
        LET p == question[1]
            q == question[2]
            old == ByKey(p)
            new == ByKey(q)
            comparable ==
                /\ p.principal = q.principal /\ p.action = q.action
                /\ p.agent = q.agent /\ p.resource = q.resource
                /\ Cardinality(DOMAIN old) = Len(p.conditions) /\ Cardinality(DOMAIN new) = Len(q.conditions)
                /\ \A key \in DOMAIN old \cap DOMAIN new :
                      key[2] \in NumericOperators \/ old[key] = new[key]
        IN comparable =>
              /\ risk_impact(p, q) = "increased" => \A i \in LiveInputs(p) : Matches(p, i) => Matches(q, i)
              /\ risk_impact(p, q) = "decreased" => \A i \in LiveInputs(p) : Matches(q, i) => Matches(p, i)

(* The accounts of one rule language agree: the compiler's overlap analysis *)
(* and the engine (no two verdicts), the simulator and the engine, the      *)
(* explainer and the simulator, the diff's summary and the engine.          *)
RulesAgree == OverlapSound /\ OneVerdict /\ SimulationFaithful /\ ExplanationAgrees /\ RiskSummary

=============================================================================
