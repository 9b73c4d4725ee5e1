--------------------------- MODULE GovernanceProofs ---------------------------
(***************************************************************************)
(* Proofs about the rule language and about the life of policies: the      *)
(* accounts of one rule agree, schedules and the timeline say what         *)
(* happened, archived policies stay archived, and a decision is what the   *)
(* active versions and the trusted facts make it.                          *)
(***************************************************************************)
EXTENDS PolicyGovernance, FiniteSetTheorems, SequenceTheorems, TLAPS

-----------------------------------------------------------------------------
(* The tightest bound.                                                     *)

\* A strict order on a finite set has an element that nothing is above.
LEMMA Extreme ==
    ASSUME NEW B, IsFiniteSet(B), B # {}, NEW R,
           \A b \in B : <<b, b>> \notin R,
           \A a, b, c \in B : <<a, b>> \in R /\ <<b, c>> \in R => <<a, c>> \in R
    PROVE  \E b \in B : \A c \in B : <<b, c>> \notin R
<1> DEFINE Above(b) == {c \in B : <<b, c>> \in R}
           F == {Above(b) : b \in B}
           S == FiniteSubsetsOf(B)
           W == StrictSubsetOrdering(B)
<1>1. ASSUME NEW b \in B  PROVE Above(b) \in S
  <2>1. Above(b) \subseteq B  OBVIOUS
  <2>2. IsFiniteSet(Above(b))
    <3> HIDE DEF Above
    <3> QED  BY <2>1, FS_Subset
  <2> QED  BY <2>1, <2>2 DEF FiniteSubsetsOf
<1>2. F \subseteq S /\ F # {}
  <2> HIDE DEF Above, S
  <2> QED  BY <1>1
<1>3. IsWellFoundedOn(W, S)  BY FS_StrictSubsetOrderingWellFounded
<1>4. \A x, y \in SUBSET B : x \subseteq y /\ x # y => <<x, y>> \in W  BY DEF StrictSubsetOrdering
<1>5. PICK x \in F : \A y \in F : <<y, x>> \notin W
  <2> HIDE DEF F, S, W
  <2> QED  BY <1>2, <1>3, WFMin
<1>6. PICK b \in B : x = Above(b)  OBVIOUS
<1>7. ASSUME NEW c \in B, <<b, c>> \in R  PROVE FALSE
  <2>1. Above(c) \subseteq Above(b) /\ c \in Above(b) /\ c \notin Above(c)  BY <1>7
  <2>2. <<Above(c), x>> \in W  BY <1>4, <1>6, <2>1
  <2> QED  BY <1>5, <2>2
<1> QED  BY <1>7

IsBound(b) == b[1] \in Int /\ b[2] \in BOOLEAN

LEMMA LowestIsOne ==
    ASSUME NEW B, IsFiniteSet(B), B # {}, \A b \in B : IsBound(b)
    PROVE  Lowest(B) \in B
<1> DEFINE R == {e \in B \X B : e[2][1] > e[1][1] \/ (e[2][1] = e[1][1] /\ e[1][2] /\ ~e[2][2])}
<1>0. \A b, c \in B : <<b, c>> \in R <=> c[1] > b[1] \/ (c[1] = b[1] /\ b[2] /\ ~c[2])  OBVIOUS
<1>1. \A b \in B : <<b, b>> \notin R  BY <1>0 DEF IsBound
<1>2. \A a, b, c \in B : <<a, b>> \in R /\ <<b, c>> \in R => <<a, c>> \in R
  <2> HIDE DEF R
  <2> QED  BY <1>0 DEF IsBound
<1>3. PICK b \in B : \A c \in B : <<b, c>> \notin R
  <2> HIDE DEF R
  <2> QED  BY <1>1, <1>2, Extreme
<1>4. ASSUME NEW c \in B  PROVE b[1] > c[1] \/ (b[1] = c[1] /\ (b[2] => c[2]))
  <2> HIDE DEF R
  <2>1. b[1] \in Int /\ c[1] \in Int  BY DEF IsBound
  <2>2. ~(c[1] > b[1])  BY <1>0, <1>3
  <2>3. c[1] = b[1] => (b[2] => c[2])  BY <1>0, <1>3
  <2>4. b[1] > c[1] \/ b[1] = c[1]  BY <2>1, <2>2
  <2> QED  BY <2>3, <2>4
<1> QED  BY <1>4 DEF Lowest

LEMMA HighestIsOne ==
    ASSUME NEW B, IsFiniteSet(B), B # {}, \A b \in B : IsBound(b)
    PROVE  Highest(B) \in B
<1> DEFINE R == {e \in B \X B : e[2][1] < e[1][1] \/ (e[2][1] = e[1][1] /\ e[1][2] /\ ~e[2][2])}
<1>0. \A b, c \in B : <<b, c>> \in R <=> c[1] < b[1] \/ (c[1] = b[1] /\ b[2] /\ ~c[2])  OBVIOUS
<1>1. \A b \in B : <<b, b>> \notin R  BY <1>0 DEF IsBound
<1>2. \A a, b, c \in B : <<a, b>> \in R /\ <<b, c>> \in R => <<a, c>> \in R
  <2> HIDE DEF R
  <2> QED  BY <1>0 DEF IsBound
<1>3. PICK b \in B : \A c \in B : <<b, c>> \notin R
  <2> HIDE DEF R
  <2> QED  BY <1>1, <1>2, Extreme
<1>4. ASSUME NEW c \in B  PROVE b[1] < c[1] \/ (b[1] = c[1] /\ (b[2] => c[2]))
  <2> HIDE DEF R
  <2>1. b[1] \in Int /\ c[1] \in Int  BY DEF IsBound
  <2>2. ~(c[1] < b[1])  BY <1>0, <1>3
  <2>3. c[1] = b[1] => (b[2] => c[2])  BY <1>0, <1>3
  <2>4. b[1] < c[1] \/ b[1] = c[1]  BY <2>1, <2>2
  <2> QED  BY <2>3, <2>4
<1> QED  BY <1>4 DEF Highest

-----------------------------------------------------------------------------
(* One field's conditions, and the values that satisfy them all.           *)

Given == Values \cup {None, Absent}

LEMMA Kinds ==
    /\ \A v \in Values : v \in Int /\ Python(v) \in Int
    /\ Values = Booleans \cup Numbers \cup Texts \cup Lists
    /\ \A v \in Booleans : v < 0 /\ Python(v) = v + 2 /\ v \notin Numbers \cup Texts \cup Lists
    /\ \A v \in Numbers : 0 <= v /\ Python(v) = v /\ v \notin Texts \cup Lists
    /\ \A v \in Texts \cup Lists : v > 1 /\ Python(v) = v
    /\ \A n \in Numbers, t \in Texts \cup Lists : n < t
<1>1. Values \subseteq Int /\ Texts \cup Lists \subseteq Values  BY ValuesAssumption
<1>2. \A v \in Booleans : v \in {0 - 2, 0 - 1} /\ v < 0  BY DEF Booleans, true, false
<1>3. \A v \in Booleans : Python(v) = v + 2  BY <1>1, <1>2 DEF Python, false
<1>4. \A v \in Texts \cup Lists : v > 1 /\ v \in Int  BY <1>1, ValuesAssumption
<1>5. \A v \in Texts \cup Lists : v \notin Booleans  BY <1>2, <1>4
<1>6. \A v \in Values \ Booleans : Python(v) = v  BY DEF Python
<1>7. \A v \in Numbers : v \in Values \ Booleans /\ v \notin Texts \cup Lists  BY DEF Numbers
<1>8. Booleans \subseteq Values /\ Values = Booleans \cup Numbers \cup Texts \cup Lists
      BY <1>1 DEF Numbers, Booleans
<1>9. \A v \in Values : v \in Int /\ Python(v) \in Int  BY <1>1, <1>2, <1>3, <1>6
<1>10. \A n \in Numbers : 0 <= n /\ \A t \in Texts \cup Lists : n < t  BY ValuesAssumption
<1>11. \A v \in Booleans : v \notin Numbers \cup Texts \cup Lists  BY <1>5, <1>7
<1> HIDE DEF Python
<1> QED  BY <1>1, <1>2, <1>3, <1>4, <1>5, <1>6, <1>7, <1>8, <1>9, <1>10, <1>11

\* Python takes two values for one only where one is a boolean, the other a number.
LEMMA TakenForAnother ==
    ASSUME NEW v \in Values, NEW w \in Values, Python(v) = Python(w), v # w
    PROVE  (v \in Booleans /\ w \in Numbers) \/ (v \in Numbers /\ w \in Booleans)
<1>1. CASE v \in Booleans
  <2>1. v \in Int /\ w \in Int /\ Python(v) = v + 2 /\ v < 0  BY <1>1, Kinds
  <2>2. w \notin Booleans
    <3>1. w \in Booleans => Python(w) = w + 2  BY Kinds
    <3> QED  BY <2>1, <3>1
  <2>3. w \notin Texts \cup Lists
    <3>1. w \in Texts \cup Lists => Python(w) = w /\ w > 1  BY Kinds
    <3> QED  BY <2>1, <3>1
  <2> QED  BY <1>1, <2>2, <2>3, Kinds
<1>2. CASE v \notin Booleans
  <2>1. Python(v) = v  BY <1>2, Kinds
  <2>2. w \in Booleans
    <3>1. w \notin Booleans => Python(w) = w  BY Kinds
    <3> QED  BY <2>1, <3>1
  <2>3. v \in Int /\ w \in Int /\ Python(w) = w + 2 /\ w < 0  BY <2>2, Kinds
  <2>4. v \notin Texts \cup Lists
    <3>1. v \in Texts \cup Lists => v > 1  BY Kinds
    <3>2. v = w + 2  BY <2>1, <2>3
    <3>3. v = w + 2 /\ w < 0 /\ v \in Int /\ w \in Int => ~(v > 1)  OBVIOUS
    <3> QED  BY <2>3, <3>1, <3>2, <3>3
  <2>5. v \in Booleans \cup Numbers \cup Texts \cup Lists  BY Kinds
  <2>6. v \in Numbers  BY <1>2, <2>4, <2>5
  <2> QED  BY <2>2, <2>6
<1> QED  BY <1>1, <1>2

\* What the conditions on a field are written with, but for "exists".
LiteralsOn(p, f) == UNION {Literals(c) : c \in {d \in On(p, f) : d.operator # "exists"}}

LEMMA WrittenApart ==
    ASSUME NEW p, NEW q, KindsApart(p, q), NEW f
    PROVE  LET L == LiteralsOn(p, f) \cup LiteralsOn(q, f)
           IN L \cap Booleans = {} \/ L \cap Numbers = {}
<1> DEFINE L == LiteralsOn(p, f) \cup LiteralsOn(q, f)
<1> SUFFICES ASSUME NEW v \in L \cap Booleans, NEW w \in L \cap Numbers  PROVE FALSE
    OBVIOUS
<1>1. PICK c \in Conditions(p) \cup Conditions(q) : c.field = f /\ c.operator # "exists" /\ v \in Literals(c)
      BY DEF LiteralsOn, On
<1>2. PICK d \in Conditions(p) \cup Conditions(q) : d.field = f /\ d.operator # "exists" /\ w \in Literals(d)
      BY DEF LiteralsOn, On
<1>3. "exists" \notin {c.operator, d.operator}  BY <1>1, <1>2
<1>4. Literals(c) \cap Booleans = {} \/ Literals(d) \cap Numbers = {}  BY <1>1, <1>2, <1>3 DEF KindsApart
<1> QED  BY <1>1, <1>2, <1>4

\* The image of a finite set.
LEMMA FiniteImage ==
    ASSUME NEW S, NEW T, IsFiniteSet(S), NEW f, f \in Surjection(S, T)
    PROVE  IsFiniteSet(T)
BY FS_Surjection

LEMMA ConditionsFinite ==
    ASSUME NEW p, IsPolicy(p)
    PROVE  /\ IsFiniteSet(Conditions(p))
           /\ DOMAIN p.conditions = 1..Len(p.conditions)
           /\ Len(p.conditions) \in Nat
<1> DEFINE s == p.conditions
           D == DOMAIN s
           C == Conditions(p)
<1>1. s \in Seq(C)  BY DEF IsPolicy
<1>2. D = 1..Len(s) /\ Len(s) \in Nat /\ s \in [D -> C]  BY <1>1
<1>3. IsFiniteSet(D)  BY <1>2, FS_Interval
<1>4. s \in Surjection(D, C)  BY <1>2 DEF Surjection, Conditions, Range
<1>5. IsFiniteSet(C)
  <2> HIDE DEF s, D, C
  <2> QED  BY <1>3, <1>4, FS_Surjection
<1> QED  BY <1>2, <1>5

\* A part of a policy's conditions, and the values made of it, are finite.
LEMMA PartFinite ==
    ASSUME NEW p, IsPolicy(p), NEW S, S \subseteq Conditions(p), NEW T, NEW f, f \in [S -> T],
           \A t \in T : \E c \in S : f[c] = t
    PROVE  IsFiniteSet(T)
<1>1. IsFiniteSet(S)  BY ConditionsFinite, FS_Subset
<1>2. f \in Surjection(S, T)  BY DEF Surjection
<1> QED  BY <1>1, <1>2, FS_Surjection

LEMMA BoundsFinite ==
    ASSUME NEW p, IsPolicy(p), NEW f
    PROVE  /\ IsFiniteSet(FieldConstraint(p, f).lo)
           /\ IsFiniteSet(FieldConstraint(p, f).hi)
<1> DEFINE with(ops) == {c \in On(p, f) : c.operator \in ops}
           L == {<<c.value, c.operator = ">=">> : c \in with({">", ">="})}
           H == {<<c.value, c.operator = "<=">> : c \in with({"<", "<="})}
<1>1. FieldConstraint(p, f).lo = L /\ FieldConstraint(p, f).hi = H  BY DEF FieldConstraint
<1>2. IsFiniteSet(L)
  <2> DEFINE S == with({">", ">="})
             g == [c \in S |-> <<c.value, c.operator = ">=">>]
  <2>1. S \subseteq Conditions(p)  BY DEF On
  <2>2. g \in [S -> L] /\ \A t \in L : \E c \in S : g[c] = t  OBVIOUS
  <2> HIDE DEF S, g, L
  <2> QED  BY <2>1, <2>2, PartFinite
<1>3. IsFiniteSet(H)
  <2> DEFINE S == with({"<", "<="})
             g == [c \in S |-> <<c.value, c.operator = "<=">>]
  <2>1. S \subseteq Conditions(p)  BY DEF On
  <2>2. g \in [S -> H] /\ \A t \in H : \E c \in S : g[c] = t  OBVIOUS
  <2> HIDE DEF S, g, H
  <2> QED  BY <2>1, <2>2, PartFinite
<1> QED  BY <1>1, <1>2, <1>3

\* What one condition says of a value, operator by operator.
LEMMA HoldsAtLeast ==
    ASSUME NEW c, IsCondition(c), NEW v \in Given, ConditionHolds(c, v)
    PROVE  /\ c.operator = ">=" => v \in Values /\ c.value \in Values /\ c.value <= v
           /\ c.operator = ">" => v \in Values /\ c.value \in Values /\ c.value < v
<1>1. CASE c.operator = ">="
  <2>1. v # Absent /\ ~Less(v, c.value)  BY <1>1 DEF ConditionHolds
  <2>2. c.value \in Values  BY <1>1 DEF IsCondition, NumericOperators
  <2>3. v \in Values /\ ~(v < c.value)  BY <2>1 DEF Less, Given
  <2>4. c.value \in Int /\ v \in Int  BY <2>2, <2>3, ValuesAssumption
  <2>5. c.value <= v  BY <2>3, <2>4
  <2>6. c.operator # ">"  BY <1>1
  <2> QED  BY <2>2, <2>3, <2>5, <2>6
<1>2. CASE c.operator = ">"
  <2>1. v # Absent /\ ~AtMost(v, c.value)  BY <1>2 DEF ConditionHolds
  <2>2. c.value \in Values  BY <1>2 DEF IsCondition, NumericOperators
  <2>3. v \in Values /\ ~(v < c.value) /\ v # c.value  BY <2>1 DEF Less, AtMost, Given
  <2>4. c.value \in Int /\ v \in Int  BY <2>2, <2>3, ValuesAssumption
  <2>5. c.value < v  BY <2>3, <2>4
  <2>6. c.operator # ">="  BY <1>2
  <2> QED  BY <2>2, <2>3, <2>5, <2>6
<1> QED  BY <1>1, <1>2

LEMMA HoldsAtMost ==
    ASSUME NEW c, IsCondition(c), NEW v \in Given, ConditionHolds(c, v)
    PROVE  /\ c.operator = "<=" => c.value \in Values /\ (v \in Values => v <= c.value)
           /\ c.operator = "<" => c.value \in Values /\ (v \in Values => v < c.value)
<1>1. CASE c.operator = "<="
  <2>1. AtMost(v, c.value)  BY <1>1 DEF ConditionHolds
  <2>2. c.value \in Values  BY <1>1 DEF IsCondition, NumericOperators
  <2>3. v \in Values => v < c.value \/ v = c.value  BY <2>1, ValuesAssumption DEF AtMost, Less
  <2>4. c.value \in Int /\ (v \in Values => v \in Int)  BY <2>2, ValuesAssumption
  <2>5. v \in Values => v <= c.value  BY <2>3, <2>4
  <2>6. c.operator # "<"  BY <1>1
  <2> QED  BY <2>2, <2>5, <2>6
<1>2. CASE c.operator = "<"
  <2>1. Less(v, c.value)  BY <1>2 DEF ConditionHolds
  <2>2. c.value \in Values  BY <1>2 DEF IsCondition, NumericOperators
  <2>3. v \in Values => v < c.value  BY <2>1, ValuesAssumption DEF Less
  <2> QED  BY <1>2, <2>2, <2>3, ValuesAssumption
<1> QED  BY <1>1, <1>2

LEMMA HoldsOther ==
    ASSUME NEW c, IsCondition(c), NEW v \in Given, ConditionHolds(c, v)
    PROVE  /\ c.operator = "==" => v = c.value /\ v \in Values
           /\ c.operator = "!=" => v # c.value
           /\ c.operator = "in" => v \in c.value
BY ValuesAssumption DEF IsCondition, ConditionHolds, Given, NumericOperators

LEMMA FieldBounds ==
    ASSUME NEW p, IsPolicy(p), validate(p), NEW f, NEW v \in Given,
           \A c \in On(p, f) : ConditionHolds(c, v)
    PROVE  LET fc == FieldConstraint(p, f)
               L == LiteralsOn(p, f)
           IN /\ \A b \in fc.lo : /\ IsBound(b) /\ b[1] \in L \cap Numbers
                                  /\ v \in Values \ Booleans /\ (b[1] < v \/ (b[1] = v /\ b[2]))
              /\ \A b \in fc.hi : /\ IsBound(b) /\ b[1] \in L \cap Numbers
                                  /\ v \in Values => v \notin Texts \cup Lists /\ (v < b[1] \/ (v = b[1] /\ b[2]))
              /\ \A e \in fc.eq : e = Python(v) /\ v \in Values \cap L
              /\ \A e \in fc.neq : \E w \in L \cap Values : e = Python(w) /\ w # v
              /\ \A S \in fc.in : Python(v) \in S
<1> DEFINE with(ops) == {c \in On(p, f) : c.operator \in ops}
           fc == FieldConstraint(p, f)
           L == LiteralsOn(p, f)
<1>0. ASSUME NEW c \in On(p, f)
      PROVE  /\ IsCondition(c) /\ ConditionHolds(c, v)
             /\ c.operator \in NumericOperators => c.value \in Numbers
             /\ c.operator \notin {"in", "exists"} => c.value \in L
  <2>1. c \in Conditions(p)  BY DEF On
  <2>2. c.operator \notin {"in", "exists"} => Literals(c) = {c.value}  BY DEF Literals
  <2>3. c.operator \notin {"in", "exists"} => c.value \in L  BY <2>2 DEF LiteralsOn
  <2> QED  BY <2>1, <2>3 DEF IsPolicy, validate
<1>1. ASSUME NEW b \in fc.lo
      PROVE  /\ IsBound(b) /\ b[1] \in L \cap Numbers
             /\ v \in Values \ Booleans /\ (b[1] < v \/ (b[1] = v /\ b[2]))
  <2>1. PICK c \in with({">", ">="}) : b = <<c.value, c.operator = ">=">>  BY <1>1 DEF FieldConstraint
  <2>2. IsCondition(c) /\ ConditionHolds(c, v) /\ c.value \in L \cap Numbers  BY <1>0 DEF NumericOperators
  <2>3. b[1] = c.value /\ b[2] = (c.operator = ">=")  BY <2>1
  <2>4. c.value \in Values /\ v \in Values /\ c.value \in Int /\ v \in Int  BY <2>2, HoldsAtLeast, ValuesAssumption
  <2>5. IsBound(b)  BY <2>3, <2>4 DEF IsBound
  <2>6. c.operator = ">=" => c.value < v \/ c.value = v  BY <2>2, <2>4, HoldsAtLeast
  <2>7. c.operator = ">" => c.value < v  BY <2>2, HoldsAtLeast
  <2>8. c.operator = ">=" \/ c.operator = ">"  OBVIOUS
  <2>9. v \notin Booleans
    <3>1. 0 <= c.value /\ (v \in Booleans => v < 0)  BY <2>2, Kinds
    <3> QED  BY <2>4, <2>6, <2>7, <2>8, <3>1
  <2> HIDE DEF L
  <2> QED  BY <2>2, <2>3, <2>4, <2>5, <2>6, <2>7, <2>8, <2>9, Zenon
<1>2. ASSUME NEW b \in fc.hi
      PROVE  /\ IsBound(b) /\ b[1] \in L \cap Numbers
             /\ v \in Values => v \notin Texts \cup Lists /\ (v < b[1] \/ (v = b[1] /\ b[2]))
  <2>1. PICK c \in with({"<", "<="}) : b = <<c.value, c.operator = "<=">>  BY <1>2 DEF FieldConstraint
  <2>2. IsCondition(c) /\ ConditionHolds(c, v) /\ c.value \in L \cap Numbers  BY <1>0 DEF NumericOperators
  <2>3. b[1] = c.value /\ b[2] = (c.operator = "<=")  BY <2>1
  <2>4. c.value \in Values /\ c.value \in Int /\ (v \in Values => v \in Int)  BY <2>2, HoldsAtMost, ValuesAssumption
  <2>5. IsBound(b)  BY <2>3, <2>4 DEF IsBound
  <2>6. c.operator = "<=" /\ v \in Values => v < c.value \/ v = c.value  BY <2>2, <2>4, HoldsAtMost
  <2>7. c.operator = "<" /\ v \in Values => v < c.value  BY <2>2, HoldsAtMost
  <2>8. c.operator = "<=" \/ c.operator = "<"  OBVIOUS
  <2>9. v \in Values => v \notin Texts \cup Lists
    <3>1. v \in Texts \cup Lists => c.value < v  BY <2>2, Kinds
    <3> QED  BY <2>4, <2>6, <2>7, <2>8, <3>1
  <2> HIDE DEF L
  <2> QED  BY <2>2, <2>3, <2>5, <2>6, <2>7, <2>8, <2>9, Zenon
<1>3. ASSUME NEW e \in fc.eq  PROVE e = Python(v) /\ v \in Values \cap L
  <2>1. PICK n \in DOMAIN p.conditions : /\ p.conditions[n].field = f /\ p.conditions[n].operator = "=="
                                         /\ e = Python(p.conditions[n].value)
        BY <1>3 DEF FieldConstraint
  <2>2. p.conditions[n] \in On(p, f)  BY <2>1 DEF On, Conditions, Range
  <2>3. v = p.conditions[n].value /\ v \in Values  BY <1>0, <2>1, <2>2, HoldsOther
  <2> QED  BY <1>0, <2>1, <2>2, <2>3
<1>4. ASSUME NEW e \in fc.neq  PROVE \E w \in L \cap Values : e = Python(w) /\ w # v
  <2>1. PICK c \in with({"!="}) : e = Python(c.value)  BY <1>4 DEF FieldConstraint
  <2>2. c.value \in Values /\ c.value # v  BY <1>0, HoldsOther DEF IsCondition, NumericOperators
  <2> QED  BY <1>0, <2>1, <2>2
<1>5. ASSUME NEW S \in fc.in  PROVE Python(v) \in S
  <2>1. PICK c \in with({"in"}) : S = {Python(w) : w \in c.value}  BY <1>5 DEF FieldConstraint
  <2>2. v \in c.value  BY <1>0, HoldsOther
  <2> QED  BY <2>1, <2>2
<1> HIDE DEF fc, L
<1>6. /\ \A b \in fc.lo : /\ IsBound(b) /\ b[1] \in L \cap Numbers
                          /\ v \in Values \ Booleans /\ (b[1] < v \/ (b[1] = v /\ b[2]))
      /\ \A b \in fc.hi : /\ IsBound(b) /\ b[1] \in L \cap Numbers
                          /\ v \in Values => v \notin Texts \cup Lists /\ (v < b[1] \/ (v = b[1] /\ b[2]))
      /\ \A e \in fc.eq : e = Python(v) /\ v \in Values \cap L
      /\ \A e \in fc.neq : \E w \in L \cap Values : e = Python(w) /\ w # v
      /\ \A S \in fc.in : Python(v) \in S
      BY <1>1, <1>2, <1>3, <1>4, <1>5
<1> QED  BY <1>6 DEF fc, L

-----------------------------------------------------------------------------
(* _fields_can_overlap and policies_can_jointly_match                      *)

LEMMA FieldsOverlap ==
    ASSUME NEW p, IsPolicy(p), validate(p), NEW q, IsPolicy(q), validate(q), KindsApart(p, q),
           NEW f, NEW v \in Given,
           \A c \in On(p, f) : ConditionHolds(c, v),
           \A c \in On(q, f) : ConditionHolds(c, v)
    PROVE  FieldsCanOverlap(FieldConstraint(p, f), FieldConstraint(q, f))
<1> DEFINE c1 == FieldConstraint(p, f)
           c2 == FieldConstraint(q, f)
           L == LiteralsOn(p, f) \cup LiteralsOn(q, f)
           u == Python(v)
           eqs == c1.eq \cup c2.eq
           neqs == c1.neq \cup c2.neq
           pinned == {<<e, TRUE>> : e \in eqs}
           lo == c1.lo \cup c2.lo \cup pinned
           hi == c1.hi \cup c2.hi \cup pinned
           apart == c1.in # {} /\ c2.in # {} /\ Common(c1.in) \cap Common(c2.in) = {}
<1>1. /\ \A b \in c1.lo \cup c2.lo : /\ IsBound(b) /\ b[1] \in L \cap Numbers
                                     /\ v \in Values \ Booleans /\ (b[1] < v \/ (b[1] = v /\ b[2]))
      /\ \A b \in c1.hi \cup c2.hi : /\ IsBound(b) /\ b[1] \in L \cap Numbers
                                     /\ v \in Values => /\ v \notin Texts \cup Lists
                                                        /\ v < b[1] \/ (v = b[1] /\ b[2])
      /\ \A e \in eqs : e = u /\ v \in Values \cap L
      /\ \A e \in neqs : \E w \in L \cap Values : e = Python(w) /\ w # v
      /\ \A S \in c1.in \cup c2.in : u \in S
  <2> HIDE DEF u
  <2>1. /\ \A b \in c1.lo : /\ IsBound(b) /\ b[1] \in L \cap Numbers
                            /\ v \in Values \ Booleans /\ (b[1] < v \/ (b[1] = v /\ b[2]))
        /\ \A b \in c1.hi : /\ IsBound(b) /\ b[1] \in L \cap Numbers
                            /\ v \in Values => v \notin Texts \cup Lists /\ (v < b[1] \/ (v = b[1] /\ b[2]))
        /\ \A e \in c1.eq : e = u /\ v \in Values \cap L
        /\ \A e \in c1.neq : \E w \in L \cap Values : e = Python(w) /\ w # v
        /\ \A S \in c1.in : u \in S
        BY FieldBounds DEF u
  <2>2. /\ \A b \in c2.lo : /\ IsBound(b) /\ b[1] \in L \cap Numbers
                            /\ v \in Values \ Booleans /\ (b[1] < v \/ (b[1] = v /\ b[2]))
        /\ \A b \in c2.hi : /\ IsBound(b) /\ b[1] \in L \cap Numbers
                            /\ v \in Values => v \notin Texts \cup Lists /\ (v < b[1] \/ (v = b[1] /\ b[2]))
        /\ \A e \in c2.eq : e = u /\ v \in Values \cap L
        /\ \A e \in c2.neq : \E w \in L \cap Values : e = Python(w) /\ w # v
        /\ \A S \in c2.in : u \in S
        BY FieldBounds DEF u
  <2> HIDE DEF c1, c2, L
  <2> QED  BY <2>1, <2>2
<1>2. IsFiniteSet(c1.lo) /\ IsFiniteSet(c1.hi) /\ IsFiniteSet(c2.lo) /\ IsFiniteSet(c2.hi)
      BY BoundsFinite
<1>3. L \cap Booleans = {} \/ L \cap Numbers = {}  BY WrittenApart
<1> HIDE DEF c1, c2, L
<1>4. eqs = {} \/ (eqs = {u} /\ v \in Values \cap L)  BY <1>1
<1>5. Cardinality(eqs) <= 1
  <2> HIDE DEF eqs, u
  <2>1. Cardinality({}) = 0 /\ Cardinality({u}) = 1  BY FS_EmptySet, FS_Singleton
  <2> QED  BY <1>4, <2>1
<1>6. ~apart
  <2> HIDE DEF u
  <2>1. c1.in # {} => u \in Common(c1.in)  BY <1>1 DEF Common
  <2>2. c2.in # {} => u \in Common(c2.in)  BY <1>1 DEF Common
  <2> QED  BY <2>1, <2>2
<1>7. \A b \in pinned : b = <<u, TRUE>> /\ v \in Values \cap L  BY <1>4
<1>8. IsFiniteSet(lo) /\ IsFiniteSet(hi)
  <2>1. pinned \subseteq {<<u, TRUE>>}  BY <1>7
  <2> HIDE DEF pinned, u
  <2>2. IsFiniteSet(pinned)  BY <2>1, FS_Singleton, FS_Subset
  <2> QED  BY <1>2, <2>2, FS_Union
<1>9. v \in Values => v \in Int /\ u \in Int  BY Kinds
<1>10. \A b \in pinned : IsBound(b) /\ b[1] = u /\ b[2] = TRUE /\ v \in Values \cap L
  <2> SUFFICES ASSUME NEW b \in pinned  PROVE IsBound(b) /\ b[1] = u /\ b[2] = TRUE /\ v \in Values \cap L
      OBVIOUS
  <2>1. b = <<u, TRUE>> /\ v \in Values \cap L  BY <1>7
  <2> HIDE DEF u, pinned
  <2>2. b[1] = u /\ b[2] = TRUE  BY <2>1
  <2> QED  BY <1>9, <2>1, <2>2, Zenon DEF IsBound
<1> HIDE DEF pinned
<1>11. ASSUME NEW b \in lo
       PROVE  IsBound(b) /\ v \in Values /\ (b[1] < u \/ (b[1] = u /\ b[2])) /\ (b[1] \in L \cap Numbers \/ v \in L)
  <2>1. CASE b \in pinned
    <3> HIDE DEF u
    <3> QED  BY <1>10, <2>1
  <2>2. CASE b \in c1.lo \cup c2.lo
    <3>1. v \in Values \ Booleans  BY <1>1, <2>2
    <3>2. u = v  BY <3>1 DEF Python
    <3> HIDE DEF u
    <3> QED  BY <1>1, <2>2, <3>1, <3>2
  <2> QED  BY <2>1, <2>2
<1>12. ASSUME lo # {}, NEW b \in hi
       PROVE  IsBound(b) /\ (u < b[1] \/ (u = b[1] /\ b[2]))
  <2>1. CASE b \in pinned
    <3> HIDE DEF u
    <3> QED  BY <1>10, <2>1
  <2>2. CASE b \in c1.hi \cup c2.hi
    <3>1. PICK l \in lo : TRUE  BY <1>12
    <3>2. v \in Values /\ (l[1] \in L \cap Numbers \/ v \in L)  BY <1>11
    <3>3. b[1] \in L \cap Numbers /\ v \notin Texts \cup Lists  BY <1>1, <2>2, <3>2
    <3>4. v \notin Booleans
      <4>1. CASE l \in pinned  BY <1>3, <1>10, <3>3, <4>1
      <4>2. CASE l \in c1.lo \cup c2.lo  BY <1>1, <4>2
      <4> QED  BY <4>1, <4>2
    <3>5. u = v  BY <3>2, <3>4 DEF Python
    <3> HIDE DEF u, lo, hi
    <3> QED  BY <1>1, <2>2, <3>2, <3>5
  <2> QED  BY <2>1, <2>2
<1>13. ASSUME NEW b \in lo, b[1] = u  PROVE u \notin neqs
  <2> SUFFICES ASSUME u \in neqs PROVE FALSE  OBVIOUS
  <2>1. PICK w \in L \cap Values : u = Python(w) /\ w # v
    <3> HIDE DEF u, neqs
    <3> QED  BY <1>1
  <2>2. v \in Values /\ (b[1] \in L \cap Numbers \/ v \in L)  BY <1>11
  <2>3. (v \in Booleans /\ w \in Numbers) \/ (v \in Numbers /\ w \in Booleans)
        BY <2>1, <2>2, TakenForAnother
  <2>4. CASE v \in L  BY <1>3, <2>1, <2>3, <2>4
  <2>5. CASE b[1] \in L \cap Numbers /\ v \notin L
    <3>1. b \in c1.lo \cup c2.lo  BY <1>10, <2>5
    <3>2. v \notin Booleans  BY <1>1, <3>1
    <3> QED  BY <1>3, <2>1, <2>3, <2>5, <3>2
  <2> QED  BY <2>2, <2>4, <2>5
<1>14. ASSUME lo # {}, hi # {}  PROVE Meet(Lowest(lo), Highest(hi), neqs)
  <2> DEFINE l == Lowest(lo)
             h == Highest(hi)
  <2>1. l \in lo /\ h \in hi
    <3> HIDE DEF lo, hi, u
    <3> QED  BY <1>8, <1>11, <1>12, <1>14, LowestIsOne, HighestIsOne
  <2> HIDE DEF l, h
  <2>2. IsBound(l) /\ IsBound(h) /\ v \in Values  BY <1>11, <1>12, <1>14, <2>1
  <2>3. l[1] < u \/ (l[1] = u /\ l[2])  BY <1>11, <2>1
  <2>4. u < h[1] \/ (u = h[1] /\ h[2])  BY <1>12, <1>14, <2>1
  <2>5. l[1] = u => u \notin neqs  BY <1>13, <2>1
  <2>6. l[1] \in Int /\ h[1] \in Int /\ u \in Int  BY <1>9, <2>2 DEF IsBound
  <2> HIDE DEF u, lo, hi, neqs
  <2>7. CASE l[1] < u \/ u < h[1]
    <3>1. l[1] < h[1]  BY <2>3, <2>4, <2>6, <2>7
    <3> QED  BY <3>1 DEF Meet, l, h
  <2>8. CASE ~(l[1] < u \/ u < h[1])
    <3>1. l[1] = u /\ u = h[1] /\ l[2] /\ h[2]  BY <2>3, <2>4, <2>8
    <3> QED  BY <2>5, <3>1 DEF Meet, l, h
  <2> QED  BY <2>7, <2>8
<1> DEFINE c == Both(c1, c2)
<1>15. c.eq = eqs /\ c.neq = neqs /\ c.lo = lo /\ c.hi = hi /\ c.apart = apart
       BY DEF Both, pinned
<1> HIDE DEF lo, hi, eqs, neqs, apart
<1>16. /\ Cardinality(c.eq) <= 1 /\ ~c.apart
       /\ c.lo # {} /\ c.hi # {} => Meet(Lowest(c.lo), Highest(c.hi), c.neq)
       BY <1>5, <1>6, <1>14, <1>15
<1> HIDE DEF c
<1>17. FieldsCanOverlap(c1, c2)  BY <1>16 DEF FieldsCanOverlap, c
<1> QED  BY <1>17 DEF c1, c2

LEMMA MatchesOn ==
    ASSUME NEW p, NEW i, Matches(p, i), NEW f
    PROVE  \A c \in On(p, f) : ConditionHolds(c, i.data[f])
BY DEF Matches, On

LEMMA JointMatch ==
    ASSUME NEW p, IsPolicy(p), validate(p), NEW q, IsPolicy(q), validate(q), KindsApart(p, q), NEW i, i.data \in [Fields -> Given],
           Matches(p, i), Matches(q, i)
    PROVE  policies_can_jointly_match(p, q)
<1>1. ScopesCanOverlap(p, q)  BY DEF ScopesCanOverlap, Matches
<1>2. ASSUME NEW f \in {c.field : c \in Conditions(p) \cup Conditions(q)}
      PROVE  FieldsCanOverlap(FieldConstraint(p, f), FieldConstraint(q, f))
  <2>1. f \in Fields  BY DEF IsPolicy, IsCondition
  <2>2. i.data[f] \in Given  BY <2>1
  <2>3. /\ \A c \in On(p, f) : ConditionHolds(c, i.data[f])
        /\ \A c \in On(q, f) : ConditionHolds(c, i.data[f])
        BY MatchesOn
  <2> QED  BY <2>2, <2>3, FieldsOverlap
<1> QED  BY <1>1, <1>2 DEF policies_can_jointly_match

\* What Compiler V2 promises of every bundle it accepts.
LEMMA OneMatch ==
    ASSUME NEW b, compiles(b), \A k \in DOMAIN b : IsPolicy(b[k]),
           \A k, l \in DOMAIN b : KindsApart(b[k], b[l]), NEW i, i.data \in [Fields -> Given],
           NEW k \in Evaluated(b, i), NEW l \in Evaluated(b, i)
    PROVE  k = l
<1> SUFFICES ASSUME k # l PROVE FALSE  OBVIOUS
<1>1. k \in DOMAIN b /\ l \in DOMAIN b /\ Matches(b[k], i) /\ Matches(b[l], i)  BY DEF Evaluated
<1>2. validate(b[k]) /\ validate(b[l])  BY <1>1 DEF compiles, NoErrors
<1>4. policies_can_jointly_match(b[k], b[l])  BY <1>1, <1>2, JointMatch
<1>3. b[k].principal = b[l].principal /\ b[k].action = b[l].action  BY <1>1 DEF Matches
<1> QED  BY <1>1, <1>3, <1>4 DEF compiles, NoErrors, Conflict

LEMMA AtMostOne ==
    ASSUME NEW S, \A x, y \in S : x = y
    PROVE  IsFiniteSet(S) /\ Cardinality(S) <= 1 /\ Cardinality(S) \in Nat
<1>1. CASE S = {}  BY <1>1, FS_EmptySet
<1>2. CASE S # {}
  <2>1. PICK x \in S : TRUE  BY <1>2
  <2>2. S = {x}  OBVIOUS
  <2>3. IsFiniteSet(S) /\ Cardinality(S) = 1  BY <2>2, FS_Singleton, Zenon
  <2> QED  BY <2>3
<1> QED  BY <1>1, <1>2

LEMMA NoClash ==
    ASSUME NEW b, NEW i, \A k, l \in Evaluated(b, i) : k = l
    PROVE  ~ReasonsClash(b, i)
<1> SUFFICES ASSUME NEW e, Cardinality(WithEffect(b, i, e)) > 1  PROVE FALSE
    BY DEF ReasonsClash
<1> DEFINE W == WithEffect(b, i, e)
<1>1. \A x, y \in W : x = y  BY DEF WithEffect
<1> HIDE DEF W
<1>2. Cardinality(W) <= 1 /\ Cardinality(W) \in Nat  BY <1>1, AtMostOne
<1> QED  BY <1>2 DEF W

\* The answer when at most one policy matches.
LEMMA VerdictOf ==
    ASSUME NEW b, NEW i, \A k, l \in Evaluated(b, i) : k = l
    PROVE  /\ Evaluated(b, i) = {} => FromFlags(Flags(b, i)) = "DENY"
           /\ \A k \in Evaluated(b, i) :
                /\ b[k].effect = "allow" => FromFlags(Flags(b, i)) = "ALLOW"
                /\ b[k].effect = "deny" => FromFlags(Flags(b, i)) = "DENY"
                /\ b[k].effect \notin {"allow", "deny"} => FromFlags(Flags(b, i)) = "HUMAN_REVIEW"
<1> DEFINE E == Evaluated(b, i)
           fl == Flags(b, i)
<1>1. /\ fl.allow = (WithEffect(b, i, "allow") # {})
      /\ fl.deny = (WithEffect(b, i, "deny") # {} \/ E = {})
      /\ fl.requires_review = (WithEffect(b, i, "require_human_review") # {})
      BY DEF Flags
<1>2. \A e : WithEffect(b, i, e) = {k \in E : b[k].effect = e}  BY DEF WithEffect
<1> HIDE DEF E, fl
<1>3. ASSUME E = {}  PROVE FromFlags(fl) = "DENY"
  <2>1. WithEffect(b, i, "allow") = {} /\ WithEffect(b, i, "require_human_review") = {}  BY <1>2, <1>3
  <2>2. ~fl.allow /\ fl.deny /\ ~fl.requires_review  BY <1>1, <1>3, <2>1, Zenon
  <2> QED  BY <2>2, Zenon DEF FromFlags
<1>4. ASSUME NEW k \in E
      PROVE  /\ b[k].effect = "allow" => FromFlags(fl) = "ALLOW"
             /\ b[k].effect = "deny" => FromFlags(fl) = "DENY"
             /\ b[k].effect \notin {"allow", "deny"} => FromFlags(fl) = "HUMAN_REVIEW"
  <2>1. E = {k}  BY DEF E
  <2>2. \A e : (WithEffect(b, i, e) # {}) <=> (b[k].effect = e)  BY <1>2, <2>1
  <2>3. /\ fl.allow <=> b[k].effect = "allow"
        /\ fl.deny <=> b[k].effect = "deny"
        /\ fl.requires_review <=> b[k].effect = "require_human_review"
        BY <1>1, <2>1, <2>2, Zenon
  <2>4. ASSUME b[k].effect = "allow"  PROVE FromFlags(fl) = "ALLOW"
        BY <2>3, <2>4 DEF FromFlags
  <2>5. ASSUME b[k].effect = "deny"  PROVE FromFlags(fl) = "DENY"
        BY <2>3, <2>5 DEF FromFlags
  <2>6. ASSUME b[k].effect \notin {"allow", "deny"}  PROVE FromFlags(fl) = "HUMAN_REVIEW"
        BY <2>3, <2>6 DEF FromFlags
  <2> QED  BY <2>4, <2>5, <2>6
<1> QED  BY <1>3, <1>4 DEF E, fl

LEMMA EvaluateCompiled ==
    ASSUME NEW b, compiles(b), \A k \in DOMAIN b : IsPolicy(b[k]), DOMAIN b # {},
           \A k, l \in DOMAIN b : KindsApart(b[k], b[l]), NEW i, i.data \in [Fields -> Given]
    PROVE  /\ \A k, l \in Evaluated(b, i) : k = l
           /\ ~ReasonsClash(b, i)
           /\ evaluate(b, i, FALSE) = FromFlags(Flags(b, i))
<1>1. \A k, l \in Evaluated(b, i) : k = l  BY OneMatch
<1>2. ~ReasonsClash(b, i)  BY <1>1, NoClash
<1> QED  BY <1>1, <1>2 DEF evaluate

-----------------------------------------------------------------------------
(* The accounts agree, question by question.                               *)

Asked == question \in Questions

LEMMA LiveInputsTyped ==
    ASSUME Asked, NEW p, NEW i \in LiveInputs(p)
    PROVE  /\ i.data \in [Fields -> Given]
           /\ i.principal = p.principal /\ i.action = p.action /\ i.resource = p.resource
           /\ \A c \in Conditions(question[1]) \cup Conditions(question[2]) : i.data[c.field] # Absent
<1>0. IsPolicy(question[1]) /\ IsPolicy(question[2])  BY QuestionsAssumption DEF Asked
<1>1. Mentioned \subseteq Fields  BY <1>0 DEF IsPolicy, IsCondition, Mentioned
<1>2. \A c \in Conditions(question[1]) \cup Conditions(question[2]) : c.field \in Mentioned  BY DEF Mentioned
<1>3. PICK a \in {p.agent, question[2].agent}, given \in [Mentioned -> Values \cup {None}] :
         i = LiveInput(p, a, given)  BY DEF LiveInputs
<1>4. i.data = [f \in Fields |-> IF f \in Mentioned THEN given[f] ELSE Absent]  BY <1>3 DEF LiveInput
<1>5. i.data \in [Fields -> Given]  BY <1>1, <1>4 DEF Given
<1>6. \A f \in Mentioned : i.data[f] # Absent  BY <1>1, <1>4, ValuesAssumption
<1>7. i.principal = p.principal /\ i.action = p.action /\ i.resource = p.resource  BY <1>3 DEF LiveInput
<1> QED  BY <1>2, <1>5, <1>6, <1>7

LEMMA AskedOverlap ==
    ASSUME Asked
    PROVE  OverlapSound
<1> DEFINE p == question[1]
           q == question[2]
<1>1. IsPolicy(p) /\ IsPolicy(q)  BY QuestionsAssumption DEF Asked
<1>2. ASSUME validate(p), validate(q), KindsApart(p, q), ~policies_can_jointly_match(p, q),
             NEW i \in LiveInputs(p), Matches(p, i), Matches(q, i)
      PROVE  FALSE
  <2>1. i.data \in [Fields -> Given]  BY LiveInputsTyped
  <2> HIDE DEF p, q
  <2> QED  BY <1>1, <1>2, <2>1, JointMatch
<1> QED  BY <1>2 DEF OverlapSound, Disjoint

\* A bundle of the two policies in question.
LEMMA PairApart ==
    ASSUME NEW b, DOMAIN b = 1..2, KindsApart(b[1], b[2])
    PROVE  \A k, l \in DOMAIN b : KindsApart(b[k], b[l])
<1>1. KindsApart(b[2], b[1]) /\ KindsApart(b[1], b[1]) /\ KindsApart(b[2], b[2])  BY DEF KindsApart
<1>2. 1..2 = {1, 2}  OBVIOUS
<1> QED  BY <1>1, <1>2

LEMMA AskedVerdict ==
    ASSUME Asked
    PROVE  OneVerdict
<1> DEFINE b == [k \in 1..2 |-> question[k]]
<1>1. IsPolicy(question[1]) /\ IsPolicy(question[2])  BY QuestionsAssumption DEF Asked
<1>2. /\ \A k \in DOMAIN b : IsPolicy(b[k])
      /\ DOMAIN b = 1..2 /\ DOMAIN b # {}
  <2>1. 1..2 = {1, 2}  OBVIOUS
  <2>2. DOMAIN b = {1, 2} /\ b[1] = question[1] /\ b[2] = question[2]  BY <2>1
  <2> HIDE DEF b
  <2> QED  BY <1>1, <2>1, <2>2
<1> HIDE DEF b
<1>3. ASSUME Deployable(b), NEW i \in LiveInputs(b[1])
      PROVE  /\ Cardinality(Evaluated(b, i)) <= 1
             /\ evaluate(b, i, FALSE) = IF Evaluated(b, i) = {} THEN "DENY"
                    ELSE CASE b[CHOOSE k \in Evaluated(b, i) : TRUE].effect = "allow" -> "ALLOW"
                           [] b[CHOOSE k \in Evaluated(b, i) : TRUE].effect = "deny" -> "DENY"
                           [] OTHER -> "HUMAN_REVIEW"
  <2>1. i.data \in [Fields -> Given]  BY LiveInputsTyped
  <2>0. compiles(b) /\ \A k, l \in DOMAIN b : KindsApart(b[k], b[l])
        BY <1>2, <1>3, PairApart DEF Deployable, uploads
  <2>2. /\ \A k, l \in Evaluated(b, i) : k = l
        /\ evaluate(b, i, FALSE) = FromFlags(Flags(b, i))
        BY <1>2, <2>0, <2>1, EvaluateCompiled
  <2>3. Cardinality(Evaluated(b, i)) <= 1  BY <2>2, AtMostOne
  <2> DEFINE k == CHOOSE n \in Evaluated(b, i) : TRUE
  <2>4. Evaluated(b, i) # {} => k \in Evaluated(b, i)  OBVIOUS
  <2> HIDE DEF k
  <2>5. /\ Evaluated(b, i) = {} => evaluate(b, i, FALSE) = "DENY"
        /\ Evaluated(b, i) # {} =>
             /\ b[k].effect = "allow" => evaluate(b, i, FALSE) = "ALLOW"
             /\ b[k].effect = "deny" => evaluate(b, i, FALSE) = "DENY"
             /\ b[k].effect \notin {"allow", "deny"} => evaluate(b, i, FALSE) = "HUMAN_REVIEW"
        BY <2>2, <2>4, VerdictOf
  <2>6. evaluate(b, i, FALSE) = IF Evaluated(b, i) = {} THEN "DENY"
                    ELSE CASE b[k].effect = "allow" -> "ALLOW"
                           [] b[k].effect = "deny" -> "DENY"
                           [] OTHER -> "HUMAN_REVIEW"
        BY <2>5
  <2> QED  BY <2>3, <2>6 DEF k
<1> QED  BY <1>3 DEF OneVerdict, b

\* build_opa_input changes the facts and nothing else.
LEMMA WithFactsFields ==
    ASSUME NEW s, NEW x1, NEW x2, NEW x3, NEW x4, NEW x5, NEW told,
           s = [principal |-> x1, action |-> x2, agent |-> x3, resource |-> x4, data |-> x5]
    PROVE  /\ WithFacts(s, told).principal = x1
           /\ WithFacts(s, told).action = x2
           /\ WithFacts(s, told).agent = x3
           /\ WithFacts(s, told).resource = x4
           /\ WithFacts(s, told).data = [f \in Fields |-> IF Section[f] # "enterprise_knowledge" THEN x5[f]
                                          ELSE IF f \in DOMAIN told THEN told[f] ELSE Absent]
BY DEF WithFacts

LEMMA SimulatedFields ==
    ASSUME NEW j, NEW x1, NEW x2, NEW x3, NEW x4, NEW x5,
           j = [principal |-> x1, action |-> x2, agent |-> x3, resource |-> x4, data |-> x5]
    PROVE  Simulated(j) =
             [principal |-> x1, action |-> x2, agent |-> None, resource |-> x4,
              data |-> [f \in Fields |-> IF Section[f] = "intent" /\ x5[f] = None THEN Absent ELSE x5[f]]]
<1> DEFINE e == [f \in Fields |-> IF Section[f] = "intent" /\ x5[f] = None THEN Absent ELSE x5[f]]
<1>1. j.data = x5  OBVIOUS
<1>2. Simulated(j) = [j EXCEPT !.agent = None, !.data = e]  BY <1>1 DEF Simulated
<1> HIDE DEF e
<1>3. Simulated(j) = [principal |-> x1, action |-> x2, agent |-> None, resource |-> x4, data |-> e]  BY <1>2
<1> QED  BY <1>3 DEF e

\* The simulator's input has what the policies' conditions read.
LEMMA AskedSimulation ==
    ASSUME Asked
    PROVE  SimulationFaithful
<1> DEFINE b == [k \in 1..2 |-> question[k]]
<1>1. IsPolicy(question[1]) /\ IsPolicy(question[2])  BY QuestionsAssumption DEF Asked
<1>2. /\ \A k \in DOMAIN b : IsPolicy(b[k])
      /\ DOMAIN b = 1..2 /\ DOMAIN b # {}
  <2>1. 1..2 = {1, 2}  OBVIOUS
  <2>2. DOMAIN b = {1, 2} /\ b[1] = question[1] /\ b[2] = question[2]  BY <2>1
  <2> HIDE DEF b
  <2> QED  BY <1>1, <2>1, <2>2
<1> HIDE DEF b
<1>3. ASSUME \A k \in 1..2 : b[k].agent = None, Deployable(b), NEW i \in LiveInputs(b[1]),
             \A k \in 1..2 : ~NullField(b[k], i)
      PROVE  simulate(b, i, Restrict(i.data, Facts)) = evaluate(b, i, FALSE)
  <2> DEFINE needed == FactKeys(Range(b))
             known == Restrict(i.data, Facts)
             told == Restrict(known, needed \cap DOMAIN known)
             asked == WithFacts(Simulated(i), told)
  <2>1. i.data \in [Fields -> Given]  BY LiveInputsTyped
  <2>2. PICK a : i = LiveInput(b[1], a[1], a[2])
    <3>1. PICK a \in {b[1].agent, question[2].agent}, given \in [Mentioned -> Values \cup {None}] :
             i = LiveInput(b[1], a, given)  BY DEF LiveInputs
    <3>2. <<a, given>>[1] = a /\ <<a, given>>[2] = given  OBVIOUS
    <3> QED  BY <3>1, <3>2
  <2>3. DOMAIN told = needed /\ \A f \in needed : told[f] = i.data[f]
    <3>1. needed \subseteq Facts  BY DEF FactKeys, Facts
    <3>2. DOMAIN known = Facts /\ \A f \in Facts : known[f] = i.data[f]  BY DEF Restrict
    <3> QED  BY <3>1, <3>2 DEF Restrict
  <2> HIDE DEF told, needed
  <2> DEFINE s == Simulated(i)
  <2>4. /\ s.principal = i.principal /\ s.action = i.action /\ s.resource = i.resource
        /\ s.data = [f \in Fields |-> IF Section[f] = "intent" /\ i.data[f] = None THEN Absent ELSE i.data[f]]
        BY <2>2 DEF Simulated, LiveInput
  <2>5. /\ asked.principal = i.principal /\ asked.action = i.action /\ asked.resource = i.resource
        /\ asked.data = [f \in Fields |-> IF Section[f] # "enterprise_knowledge" THEN s.data[f]
                                          ELSE IF f \in DOMAIN told THEN told[f] ELSE Absent]
    <3>1. s = [principal |-> s.principal, action |-> s.action, agent |-> None, resource |-> s.resource,
               data |-> s.data]
      <4> DEFINE D == [f \in Fields |-> IF f \in Mentioned THEN a[2][f] ELSE Absent]
      <4>1. i = [principal |-> b[1].principal, action |-> b[1].action, agent |-> a[1],
                 resource |-> b[1].resource, data |-> D]
            BY <2>2 DEF LiveInput
      <4> HIDE DEF D
      <4>2. s = [principal |-> b[1].principal, action |-> b[1].action, agent |-> None, resource |-> b[1].resource,
                 data |-> [f \in Fields |-> IF Section[f] = "intent" /\ D[f] = None THEN Absent ELSE D[f]]]
            BY <4>1, SimulatedFields
      <4> HIDE DEF s
      <4> QED  BY <4>2
    <3> HIDE DEF s
    <3>2. /\ asked.principal = s.principal /\ asked.action = s.action /\ asked.resource = s.resource
          /\ asked.data = [f \in Fields |-> IF Section[f] # "enterprise_knowledge" THEN s.data[f]
                                          ELSE IF f \in DOMAIN told THEN told[f] ELSE Absent]
          BY <3>1, WithFactsFields DEF s
    <3> QED  BY <2>4, <3>2
  <2> HIDE DEF asked, s
  <2>6. ASSUME NEW k \in DOMAIN b  PROVE Matches(b[k], asked) <=> Matches(b[k], i)
    <3>1. ASSUME NEW c \in Conditions(b[k])  PROVE asked.data[c.field] = i.data[c.field]
      <4>1. c.field \in Fields  BY <1>2 DEF IsPolicy, IsCondition
      <4>2. i.data[c.field] # None  BY <1>2, <1>3 DEF NullField
      <4>3. Section[c.field] = "enterprise_knowledge" => c.field \in needed
        <5>1. b[k] \in Range(b) /\ c \in On(b[k], c.field)  BY DEF Range, On
        <5> QED  BY <4>1, <5>1 DEF needed, FactKeys
      <4> QED  BY <2>3, <2>4, <2>5, <4>1, <4>2, <4>3
    <3>2. b[k].agent = None  BY <1>2, <1>3
    <3> QED  BY <2>5, <3>1, <3>2 DEF Matches
  <2>7. Evaluated(b, asked) = Evaluated(b, i)  BY <2>6 DEF Evaluated
  <2>8. /\ ReasonsClash(b, asked) <=> ReasonsClash(b, i)
        /\ Flags(b, asked) = Flags(b, i)
        BY <2>7 DEF ReasonsClash, Flags, WithEffect
  <2>0. compiles(b) /\ \A k, l \in DOMAIN b : KindsApart(b[k], b[l])
        BY <1>2, <1>3, PairApart DEF Deployable, uploads
  <2>9. ~ReasonsClash(b, i) /\ evaluate(b, i, FALSE) = FromFlags(Flags(b, i))
        BY <1>2, <2>0, <2>1, EvaluateCompiled
  <2>10. simulate(b, i, known) = FromFlags(Flags(b, asked))
        BY <2>8, <2>9 DEF simulate, asked, told, needed
  <2> QED  BY <2>8, <2>9, <2>10
<1> QED  BY <1>3 DEF SimulationFaithful, b

\* _condition_holds and the Rego agree, operator by operator.
LEMMA ExplainedAgrees ==
    ASSUME NEW c, IsCondition(c), c.operator \in NumericOperators => c.value \in Numbers,
           NEW v \in Values \cup {Absent}, OfKind(c, v),
           NEW u, u = IF v = Absent THEN None ELSE v
    PROVE  ExplainedHolds(c, u) <=> ConditionHolds(c, v)
<1>0. /\ c.operator \in NumericOperators \cup {"==", "!=", "contains", "exists", "in"}
      /\ c.operator # "in" => c.value \in Values
      /\ c.operator = "in" => c.value \subseteq Values
      BY DEF IsCondition, NumericOperators
<1>1. CASE v = Absent
  <2>1. u = None  BY <1>1
  <2>2. ASSUME c.operator # "exists"  PROVE ~ExplainedHolds(c, u) /\ ~ConditionHolds(c, v)
    <3>1. ~ExplainedHolds(c, u)  BY <2>1, <2>2 DEF ExplainedHolds
    <3>2. v \notin Values /\ v \notin Texts  BY <1>1, ValuesAssumption
    <3>3. ASSUME c.operator = "<="  PROVE ~ConditionHolds(c, v)
      <4>1. c.value \in Values  BY <1>0, <3>3
      <4>2. ConditionHolds(c, v) <=> AtMost(v, c.value)  BY <3>3 DEF ConditionHolds
      <4> QED  BY <1>1, <4>1, <4>2, ValuesAssumption DEF AtMost, Less
    <3>4. c.operator = "<" => ~ConditionHolds(c, v)  BY <1>1 DEF ConditionHolds, Less
    <3>5. c.operator = ">=" => ~ConditionHolds(c, v)  BY <1>1 DEF ConditionHolds
    <3>6. c.operator = ">" => ~ConditionHolds(c, v)  BY <1>1 DEF ConditionHolds
    <3>7. c.operator = "==" => ~ConditionHolds(c, v)  BY <1>0, <3>2 DEF ConditionHolds
    <3>8. c.operator = "!=" => ~ConditionHolds(c, v)  BY <1>1 DEF ConditionHolds
    <3>9. c.operator = "in" => ~ConditionHolds(c, v)  BY <1>0, <3>2 DEF ConditionHolds
    <3>10. c.operator = "contains" => ~ConditionHolds(c, v)  BY <3>2 DEF ConditionHolds
    <3> QED  BY <1>0, <2>2, <3>1, <3>3, <3>4, <3>5, <3>6, <3>7, <3>8, <3>9, <3>10 DEF NumericOperators
  <2>3. ASSUME c.operator = "exists"  PROVE ExplainedHolds(c, u) <=> ConditionHolds(c, v)
    <3>1. ExplainedHolds(c, u) <=> FALSE = (c.value = true)  BY <2>1, <2>3 DEF ExplainedHolds
    <3>2. ConditionHolds(c, v) <=> FALSE = (c.value = true)  BY <1>1, <2>3 DEF ConditionHolds
    <3> QED  BY <3>1, <3>2
  <2> QED  BY <2>2, <2>3
<1>2. CASE v # Absent
  <2>1. u = v /\ v \in Values /\ v \in Int /\ v # None  BY <1>2, ValuesAssumption
  <2>2. ASSUME c.operator \in NumericOperators
        PROVE  v \notin Texts \cup Lists /\ Python(v) = v /\ c.value \in Int
    <3>1. v \in Numbers /\ c.value \in Numbers  BY <2>1, <2>2 DEF OfKind
    <3>2. c.value \in Values  BY <3>1, Kinds
    <3> QED  BY <3>1, <3>2, Kinds
  <2>3. CASE c.operator = "<="
    <3>1. v \notin Texts \cup Lists /\ Python(v) = v /\ c.value \in Int  BY <2>2, <2>3 DEF NumericOperators
    <3>2. ConditionHolds(c, v) <=> v = c.value \/ v < c.value  BY <1>2, <2>1, <2>3 DEF ConditionHolds, AtMost, Less
    <3>3. ExplainedHolds(c, u) <=> v <= c.value  BY <2>1, <2>3, <3>1 DEF ExplainedHolds
    <3>4. v <= c.value <=> v = c.value \/ v < c.value  BY <2>1, <3>1
    <3> QED  BY <3>2, <3>3, <3>4
  <2>4. CASE c.operator = "<"
    <3>1. v \notin Texts \cup Lists /\ Python(v) = v  BY <2>2, <2>4 DEF NumericOperators
    <3>2. ConditionHolds(c, v) <=> v < c.value  BY <1>2, <2>1, <2>4 DEF ConditionHolds, Less
    <3>3. ExplainedHolds(c, u) <=> v < c.value  BY <2>1, <2>4, <3>1 DEF ExplainedHolds
    <3> QED  BY <3>2, <3>3
  <2>5. CASE c.operator = ">="
    <3>1. v \notin Texts \cup Lists /\ Python(v) = v /\ c.value \in Int  BY <2>2, <2>5 DEF NumericOperators
    <3>2. ConditionHolds(c, v) <=> ~(v < c.value)  BY <1>2, <2>1, <2>5 DEF ConditionHolds, Less
    <3>3. ExplainedHolds(c, u) <=> v >= c.value  BY <2>1, <2>5, <3>1 DEF ExplainedHolds
    <3>4. v >= c.value <=> ~(v < c.value)  BY <2>1, <3>1
    <3> QED  BY <3>2, <3>3, <3>4
  <2>6. CASE c.operator = ">"
    <3>1. v \notin Texts \cup Lists /\ Python(v) = v /\ c.value \in Int  BY <2>2, <2>6 DEF NumericOperators
    <3>2. ConditionHolds(c, v) <=> ~(v = c.value \/ v < c.value)  BY <1>2, <2>1, <2>6 DEF ConditionHolds, AtMost, Less
    <3>3. ExplainedHolds(c, u) <=> v > c.value  BY <2>1, <2>6, <3>1 DEF ExplainedHolds
    <3>4. v > c.value <=> ~(v = c.value \/ v < c.value)  BY <2>1, <3>1
    <3> QED  BY <3>2, <3>3, <3>4
  <2>7. ASSUME c.operator \in {"==", "!="}  PROVE Python(v) = Python(c.value) <=> v = c.value
    <3>1. c.value \in Literals(c)  BY <2>7 DEF Literals
    <3> QED  BY <2>1, <2>7, <3>1 DEF OfKind
  <2>8. CASE c.operator = "=="
    <3>1. ExplainedHolds(c, u) <=> Python(v) = Python(c.value)
          BY <2>1, <2>8 DEF ExplainedHolds, NumericOperators
    <3> QED  BY <2>7, <2>8, <3>1 DEF ConditionHolds
  <2>9. CASE c.operator = "!="
    <3>1. ExplainedHolds(c, u) <=> Python(v) # Python(c.value)
          BY <2>1, <2>9 DEF ExplainedHolds, NumericOperators
    <3> QED  BY <1>2, <2>7, <2>9, <3>1 DEF ConditionHolds
  <2>10. CASE c.operator = "in"
    <3>1. ExplainedHolds(c, u) <=> \E w \in c.value : Python(v) = Python(w)
          BY <2>1, <2>10 DEF ExplainedHolds, NumericOperators
    <3>2. \A w \in c.value : Python(v) = Python(w) => w = v
      <4>1. Literals(c) = c.value  BY <2>10 DEF Literals
      <4> QED  BY <2>1, <2>10, <4>1 DEF OfKind
    <3>3. ConditionHolds(c, v) <=> v \in c.value  BY <2>10 DEF ConditionHolds
    <3> QED  BY <3>1, <3>2, <3>3
  <2>11. CASE c.operator = "contains"
    <3>1. ExplainedHolds(c, u) <=> <<v, c.value>> \in Containing
          BY <2>1, <2>11 DEF ExplainedHolds, NumericOperators
    <3>2. v \notin Lists  BY <2>1, <2>11 DEF OfKind
    <3>3. <<v, c.value>> \in Containing => v \in Texts  BY <3>2, ValuesAssumption
    <3>4. ConditionHolds(c, v) <=> v \in Texts /\ <<v, c.value>> \in Containing  BY <2>11 DEF ConditionHolds
    <3> QED  BY <3>1, <3>3, <3>4
  <2>12. CASE c.operator = "exists"
    <3>1. ExplainedHolds(c, u) <=> TRUE = (c.value = true)  BY <2>1, <2>12 DEF ExplainedHolds
    <3>2. ConditionHolds(c, v) <=> TRUE = (c.value = true)  BY <1>2, <2>1, <2>12 DEF ConditionHolds
    <3> QED  BY <3>1, <3>2
  <2> QED  BY <1>0, <2>3, <2>4, <2>5, <2>6, <2>8, <2>9, <2>10, <2>11, <2>12 DEF NumericOperators
<1> QED  BY <1>1, <1>2

LEMMA AskedExplanation ==
    ASSUME Asked
    PROVE  ExplanationAgrees
<1> DEFINE p == question[1]
<1>1. IsPolicy(p)  BY QuestionsAssumption DEF Asked
<1>2. ASSUME Explained(p), NEW j \in LiveInputs(p), NEW i, i = Simulated(j),
             \A c \in Conditions(p) : Section[c.field] = "context" => i.data[c.field] # None,
             \A c \in Conditions(p) : OfKind(c, i.data[c.field])
      PROVE  ExplainedMatch(p, i) <=> Matches(p, i)
  <2>0. p.agent = None /\ FactKeys({p}) = {} /\ validate(p)
    <3>1. validate(<<p>>[1]) /\ <<p>>[1] = p  BY <1>2 DEF Explained, uploads, compiles, NoErrors
    <3> QED  BY <1>2, <3>1 DEF Explained
  <2>1. j.data \in [Fields -> Given]  BY LiveInputsTyped
  <2>2. PICK a \in {p.agent, question[2].agent}, given \in [Mentioned -> Values \cup {None}] :
           j = LiveInput(p, a, given)  BY DEF LiveInputs
  <2>3. i.data = [f \in Fields |-> IF Section[f] = "intent" /\ j.data[f] = None THEN Absent ELSE j.data[f]]
        BY <1>2, <2>2 DEF Simulated, LiveInput
  <2>4. ASSUME NEW c \in Conditions(p)
        PROVE  ExplainedHolds(c, ExplainedValue(c.field, i)) <=> ConditionHolds(c, i.data[c.field])
    <3>1. IsCondition(c) /\ c.field \in Fields  BY <1>1 DEF IsPolicy, IsCondition
    <3>2. Section[c.field] # "enterprise_knowledge"
      <4>1. c \in On(p, c.field)  BY DEF On
      <4> QED  BY <2>0, <3>1, <4>1 DEF FactKeys
    <3>3. Section[c.field] \in {"intent", "context"}  BY <3>1, <3>2, SectionAssumption
    <3>4. i.data[c.field] \in Values \cup {Absent}
          BY <1>2, <2>1, <2>3, <3>1, <3>3, ValuesAssumption DEF Given
    <3>5. ExplainedValue(c.field, i) = IF i.data[c.field] = Absent THEN None ELSE i.data[c.field]
          BY <3>2 DEF ExplainedValue
    <3>6. c.operator \in NumericOperators => c.value \in Numbers  BY <2>0 DEF validate
    <3> QED  BY <1>2, <3>1, <3>4, <3>5, <3>6, ExplainedAgrees
  <2> QED  BY <2>0, <2>4 DEF ExplainedMatch, Matches
<1> QED  BY <1>2 DEF ExplanationAgrees, ExplainedInputs

-----------------------------------------------------------------------------
(* compute_condition_diff                                                  *)

KeyOf(c) == <<c.field, c.operator>>

\* Where each kind of condition is there once, the diff knows every value.
LEMMA ByKeyExact ==
    ASSUME NEW p, IsPolicy(p), Cardinality(DOMAIN ByKey(p)) = Len(p.conditions)
    PROVE  /\ DOMAIN ByKey(p) = {KeyOf(c) : c \in Conditions(p)}
           /\ \A c \in Conditions(p) : ByKey(p)[KeyOf(c)] = c.value
<1> DEFINE s == p.conditions
           n == Len(p.conditions)
           K == {KeyOf(c) : c \in Conditions(p)}
           g == [m \in 1..n |-> KeyOf(s[m])]
           same(key) == {m \in DOMAIN s : <<s[m].field, s[m].operator>> = key}
<1>1. DOMAIN s = 1..n /\ n \in Nat  BY ConditionsFinite
<1>2. DOMAIN ByKey(p) = K  BY DEF ByKey, KeyOf
<1>3. \A key \in K : ByKey(p)[key] = s[CHOOSE m \in same(key) : \A l \in same(key) : l <= m].value
      BY DEF ByKey, KeyOf
<1>4. \A c \in Conditions(p) : \E m \in 1..n : c = s[m]  BY <1>1 DEF Conditions, Range
<1>5. \A m \in 1..n : s[m] \in Conditions(p)  BY <1>1 DEF Conditions, Range
<1>6. g \in Surjection(1..n, K)
  <2>1. g \in [1..n -> K]  BY <1>5
  <2>2. \A t \in K : \E m \in 1..n : g[m] = t  BY <1>4
  <2> QED  BY <2>1, <2>2 DEF Surjection
<1>7. IsFiniteSet(1..n) /\ Cardinality(1..n) = n  BY <1>1, FS_Interval
<1>8. \A l, m \in 1..n : g[l] = g[m] => l = m
  <2> HIDE DEF g, K, n
  <2>1. Cardinality(1..n) = Cardinality(K)  BY <1>2, <1>7 DEF n
  <2>2. g \in Injection(1..n, K)  BY <1>6, <1>7, <2>1, FS_SurjSameCardinalityImpliesInj
  <2>3. DOMAIN g = 1..n  BY <1>6 DEF Surjection
  <2> QED  BY <2>2, <2>3 DEF Injection, IsInjective
<1>9. ASSUME NEW c \in Conditions(p)  PROVE ByKey(p)[KeyOf(c)] = c.value
  <2>1. PICK m \in 1..n : c = s[m]  BY <1>4
  <2>2. ASSUME NEW l \in same(KeyOf(c))  PROVE l = m
    <3>1. l \in 1..n /\ KeyOf(s[l]) = KeyOf(s[m])  BY <1>1, <2>1 DEF KeyOf
    <3>2. g[l] = g[m]  BY <3>1
    <3> QED  BY <1>8, <3>1, <3>2
  <2>3. m \in same(KeyOf(c))  BY <1>1, <2>1 DEF KeyOf
  <2>4. same(KeyOf(c)) = {m}  BY <2>2, <2>3
  <2>5. m <= m  BY <1>1
  <2> DEFINE T == same(KeyOf(c))
  <2> HIDE DEF same
  <2>6. (CHOOSE x \in T : \A l \in T : l <= x) = m
    <3>1. T = {m}  BY <2>4
    <3> HIDE DEF T
    <3> QED  BY <2>5, <3>1
  <2>7. KeyOf(c) \in K  OBVIOUS
  <2> HIDE DEF K
  <2> QED  BY <1>3, <2>1, <2>6, <2>7
<1> QED  BY <1>2, <1>9

\* A condition whose limit moved outwards holds where it held before.
LEMMA LooserHolds ==
    ASSUME NEW c, IsCondition(c), NEW d, IsCondition(d), c.operator = d.operator,
           c.operator \in NumericOperators \/ c.value = d.value,
           c.operator \in {"<=", "<"} => ~(c.value > d.value),
           c.operator \in {">=", ">"} => ~(c.value < d.value),
           NEW v \in Given, ConditionHolds(c, v)
    PROVE  ConditionHolds(d, v)
<1>1. CASE c.value = d.value
  <2>1. c.value = d.value /\ c.operator = d.operator  BY <1>1
  <2> QED  BY <2>1, Zenon DEF ConditionHolds
<1>2. CASE c.operator \in NumericOperators
  <2>1. c.value \in Int /\ d.value \in Int  BY <1>2, ValuesAssumption DEF IsCondition, NumericOperators
  <2>2. v = None \/ v = Absent \/ (v \in Int /\ v # None /\ v # Absent)  BY ValuesAssumption DEF Given
  <2>3. None # Absent /\ d.value # None /\ d.value # Absent /\ c.value # None /\ c.value # Absent
        BY <1>2, ValuesAssumption DEF IsCondition, NumericOperators
  <2>4. CASE c.operator = "<="
    <3>1. AtMost(v, c.value)  BY <2>4 DEF ConditionHolds
    <3>2. c.value <= d.value  BY <2>1, <2>4
    <3>3. AtMost(v, d.value)
      <4>1. CASE v = None  BY <2>3, <4>1 DEF AtMost, Less
      <4>2. CASE v = Absent  BY <2>3, <3>1, <4>2 DEF AtMost, Less
      <4>3. CASE v \in Int /\ v # None /\ v # Absent
        <5>1. v <= c.value  BY <2>1, <3>1, <4>3 DEF AtMost, Less
        <5>2. v = d.value \/ v < d.value  BY <2>1, <3>2, <4>3, <5>1
        <5> QED  BY <4>3, <5>2 DEF AtMost, Less
      <4> QED  BY <2>2, <4>1, <4>2, <4>3
    <3> QED  BY <2>4, <3>3 DEF ConditionHolds
  <2>5. CASE c.operator = "<"
    <3>1. Less(v, c.value)  BY <2>5 DEF ConditionHolds
    <3>2. c.value <= d.value  BY <2>1, <2>5
    <3>3. Less(v, d.value)
      <4>1. CASE v = None  BY <2>3, <4>1 DEF Less
      <4>2. CASE v = Absent  BY <3>1, <4>2 DEF Less
      <4>3. CASE v \in Int /\ v # None /\ v # Absent
        <5>1. v < c.value  BY <3>1, <4>3 DEF Less
        <5>2. v < d.value  BY <2>1, <3>2, <4>3, <5>1
        <5> QED  BY <4>3, <5>2 DEF Less
      <4> QED  BY <2>2, <4>1, <4>2, <4>3
    <3> QED  BY <2>5, <3>3 DEF ConditionHolds
  <2>6. CASE c.operator = ">="
    <3>1. v # Absent /\ ~Less(v, c.value)  BY <2>6 DEF ConditionHolds
    <3>2. v \in Int /\ v # None /\ ~(v < c.value)  BY <2>2, <3>1 DEF Less
    <3>3. d.value <= c.value  BY <2>1, <2>6
    <3>4. ~(v < d.value)  BY <2>1, <3>2, <3>3
    <3>5. ~Less(v, d.value)  BY <3>2, <3>4 DEF Less
    <3> QED  BY <2>6, <3>1, <3>5 DEF ConditionHolds
  <2>7. CASE c.operator = ">"
    <3>1. v # Absent /\ ~AtMost(v, c.value)  BY <2>7 DEF ConditionHolds
    <3>2. v \in Int /\ v # None /\ ~(v < c.value) /\ v # c.value  BY <2>2, <3>1 DEF Less, AtMost
    <3>3. d.value <= c.value  BY <2>1, <2>7
    <3>4. ~(v < d.value) /\ v # d.value  BY <2>1, <3>2, <3>3
    <3>5. ~AtMost(v, d.value)  BY <3>2, <3>4 DEF Less, AtMost
    <3> QED  BY <2>7, <3>1, <3>5 DEF ConditionHolds
  <2> QED  BY <1>2, <2>4, <2>5, <2>6, <2>7 DEF NumericOperators
<1> QED  BY <1>1, <1>2

LEMMA LooserMatches ==
    ASSUME NEW p, IsPolicy(p), Cardinality(DOMAIN ByKey(p)) = Len(p.conditions),
           NEW q, IsPolicy(q), Cardinality(DOMAIN ByKey(q)) = Len(q.conditions),
           p.principal = q.principal, p.action = q.action, p.agent = q.agent, p.resource = q.resource,
           \A key \in DOMAIN ByKey(p) \cap DOMAIN ByKey(q) :
              key[2] \in NumericOperators \/ ByKey(p)[key] = ByKey(q)[key],
           ~Loosened(ByKey(q), ByKey(p)),
           NEW i, i.data \in [Fields -> Given], Matches(p, i)
    PROVE  Matches(q, i)
<1> DEFINE old == ByKey(p)
           new == ByKey(q)
<1>1. /\ DOMAIN old = {KeyOf(c) : c \in Conditions(p)}
      /\ \A c \in Conditions(p) : old[KeyOf(c)] = c.value
      /\ DOMAIN new = {KeyOf(c) : c \in Conditions(q)}
      /\ \A c \in Conditions(q) : new[KeyOf(c)] = c.value
      BY ByKeyExact
<1> HIDE DEF old, new
<1>2. /\ DOMAIN new \subseteq DOMAIN old
      /\ \A key \in DOMAIN new \cap DOMAIN old :
           /\ key[2] \in {"<=", "<"} => ~(old[key] > new[key])
           /\ key[2] \in {">=", ">"} => ~(old[key] < new[key])
  <2>1. ~Loosened(new, old)  BY DEF old, new
  <2> QED  BY <2>1 DEF Loosened
<1>3. ASSUME NEW d \in Conditions(q)  PROVE ConditionHolds(d, i.data[d.field])
  <2>1. KeyOf(d) \in DOMAIN new /\ new[KeyOf(d)] = d.value  BY <1>1
  <2>2. PICK c \in Conditions(p) : KeyOf(c) = KeyOf(d)  BY <1>1, <1>2, <2>1
  <2>3. c.field = d.field /\ c.operator = d.operator /\ KeyOf(d)[2] = d.operator  BY <2>2 DEF KeyOf
  <2>4. old[KeyOf(d)] = c.value /\ KeyOf(d) \in DOMAIN old  BY <1>1, <1>2, <2>1, <2>2
  <2>5. c.operator \in NumericOperators \/ c.value = d.value  BY <2>1, <2>3, <2>4 DEF old, new
  <2>6. /\ c.operator \in {"<=", "<"} => ~(c.value > d.value)
        /\ c.operator \in {">=", ">"} => ~(c.value < d.value)
        BY <1>2, <2>1, <2>3, <2>4
  <2>7. IsCondition(c) /\ IsCondition(d) /\ d.field \in Fields  BY DEF IsPolicy, IsCondition
  <2>8. ConditionHolds(c, i.data[d.field])  BY <2>3 DEF Matches
  <2>9. i.data[d.field] \in Given  BY <2>7
  <2> QED  BY <2>3, <2>5, <2>6, <2>7, <2>8, <2>9, LooserHolds
<1> QED  BY <1>3 DEF Matches

LEMMA AskedRisk ==
    ASSUME Asked
    PROVE  RiskSummary
<1> DEFINE p == question[1]
           q == question[2]
           old == ByKey(p)
           new == ByKey(q)
           comparable ==
                /\ p.principal = q.principal /\ p.action = q.action
                /\ p.agent = q.agent /\ p.resource = q.resource
                /\ Cardinality(DOMAIN old) = Len(p.conditions) /\ Cardinality(DOMAIN new) = Len(q.conditions)
                /\ \A key \in DOMAIN old \cap DOMAIN new :
                      key[2] \in NumericOperators \/ old[key] = new[key]
<1>1. IsPolicy(p) /\ IsPolicy(q)  BY QuestionsAssumption DEF Asked
<1>2. \A i \in LiveInputs(p) : i.data \in [Fields -> Given]  BY LiveInputsTyped
<1>3. ASSUME comparable, risk_impact(p, q) = "increased", NEW i \in LiveInputs(p), Matches(p, i)
      PROVE  Matches(q, i)
  <2>1. ~Loosened(new, old)  BY <1>3 DEF risk_impact
  <2> QED  BY <1>1, <1>2, <1>3, <2>1, LooserMatches
<1>4. ASSUME comparable, risk_impact(p, q) = "decreased", NEW i \in LiveInputs(p), Matches(q, i)
      PROVE  Matches(p, i)
  <2>1. ~Loosened(old, new)  BY <1>4 DEF risk_impact
  <2> QED  BY <1>1, <1>2, <1>4, <2>1, LooserMatches
<1> QED  BY <1>3, <1>4 DEF RiskSummary

\* compile_bundle, the engine, the simulator, its explanation and the diff of
\* two versions agree on every question, for all policies, values and Intents.
THEOREM RulesAgreeAlways == RulesSpec => []RulesAgree
<1> DEFINE J == question = NoQuestion \/ Asked
<1>1. RulesInit => J  BY DEF RulesInit
<1>2. J /\ [Ask]_question => J'  BY DEF Asked, Ask
<1>3. ASSUME J  PROVE RulesAgree
  <2>1. CASE question = NoQuestion
        BY <2>1 DEF RulesAgree, OverlapSound, OneVerdict, SimulationFaithful, ExplanationAgrees, RiskSummary
  <2>2. CASE Asked
        BY <2>2, AskedOverlap, AskedVerdict, AskedSimulation, AskedExplanation, AskedRisk DEF RulesAgree
  <2> QED  BY <1>3, <2>1, <2>2
<1>4. J => RulesAgree  BY <1>3
<1> QED  BY <1>1, <1>2, <1>4, PTL DEF RulesSpec

-----------------------------------------------------------------------------
(* The inductive invariant.  Its parts are about values: R is what the     *)
(* table of policies holds, h the history, r one request, n the number of  *)
(* schedules.                                                              *)

Version == Keys \X Nat

RowType ==
    [status : Statuses, content : Policies, activated : BOOLEAN, labels : SUBSET {"deprecated", "attested"},
     rollbackOf : Nat, hash : SUBSET Version, expired : BOOLEAN]

Steps ==
    {"idle", "write", "insert", "tag", "compile", "deploy", "stamp", "reconcile", "mark", "cancel", "next"}

RequestType ==
    [op : Operations \cup {"none", "cancel", "sweep"}, step : Steps, key : Keys \cup {None}, ver : Nat,
     arg : Policies \cup Nat \cup {None}, seen : SUBSET Version, stale : BOOLEAN,
     sched : Nat, due : SUBSET Nat, ok : BOOLEAN]

ScheduleType ==
    [key : Keys, version : Nat, status : {"pending", "executed", "failed", "cancelled"}, due : BOOLEAN,
     action : {"activate", "retire"}]

HistoryType ==
    [approved : SUBSET Version, enforced : SUBSET Version, raced : SUBSET Keys, crossed : BOOLEAN,
     contested : SUBSET Nat, performed : [1..MaxSchedules -> Nat]]

FactType ==
    [source : FactSources, nonce : Nonces, key : Facts, value : Values, expired : BOOLEAN]

TableType == [Keys -> Seq(RowType)]

LastOf(s) == s[Len(s)]
RowAt(R, a) == R[a[1]][a[2]]
ActiveIn(R) == {a \in Version : a[2] \in DOMAIN R[a[1]] /\ RowAt(R, a).status = "active"}
ContentsIn(R, S) == {RowAt(R, a).content : a \in S}

\* What a version says of the past.
RowOk(k, v, row, h) ==
    /\ row.status \in {"approved", "compiled", "active"} => <<k, v>> \in h.approved
    /\ row.status = "active" \/ row.labels # {} => <<k, v>> \in h.enforced
    /\ \A a \in row.hash : a[1] # k => a \in h.enforced
    /\ row.rollbackOf < v
    /\ k \notin h.raced => /\ row.activated => <<k, v>> \in h.enforced
                           /\ row.rollbackOf # 0 => <<k, row.rollbackOf>> \in h.enforced

RowsOk(R, h) == \A k \in Keys : \A v \in DOMAIN R[k] : RowOk(k, v, R[k][v], h)

\* The active versions make a bundle OPA takes.
Together(R) == uploads([a \in ActiveIn(R) |-> RowAt(R, a).content])

Acyclic(R) == ~Circular(Delegations(ContentsIn(R, ActiveIn(R))))

\* Where a request can be, and what it then holds.
OneStep ==
    {"submit", "approve", "reject", "archive", "retire", "deprecate", "attest", "edit",
     "schedule_activation", "schedule_retirement"}

Shape(r, R, n) ==
    /\ r.step \in Steps
    /\ r.step \in {"idle", "cancel", "next"} <=> r.key = None
    /\ r.step = "write" => r.op \in OneStep
    /\ r.step \in {"insert", "tag"} => r.op = "rollback"
    /\ r.step = "compile" => r.op \in {"compile", "activate"}
    /\ r.step = "deploy" => r.op \in {"deploy", "activate"}
    /\ r.step = "stamp" => r.op = "activate"
    /\ r.step = "reconcile" => r.op = "retire"
    /\ r.step \in {"idle", "cancel"} => r.due = {}
    /\ r.step = "mark" => r.sched # 0
    /\ r.sched # 0 => r.op \in {"activate", "retire"} /\ r.key # None
    /\ r.sched \notin r.due /\ r.sched <= n /\ r.due \subseteq 1..n
    /\ r.key # None => r.ver \in DOMAIN R[r.key]
    /\ r.step = "cancel" => r.arg \in 1..n
    /\ r.step = "write" /\ r.op = "edit" => r.arg \in Policies /\ r.ver < MaxVersion
    /\ r.step \in {"insert", "tag"} => r.arg \in DOMAIN R[r.key]
    /\ r.step = "tag" => r.arg < r.ver
    /\ \A a \in r.seen : a[2] \in DOMAIN R[a[1]]

\* What a request knows of the key it works on.
Others(r) == {a \in r.seen : a[1] # r.key}

Knows(r, R, h) ==
    /\ r.step = "write" /\ ~r.stale => r.ver = Len(R[r.key]) /\ LastOf(R[r.key]).status \in AllowedFrom(r.op)
    /\ r.step = "write" /\ r.op \in {"deprecate", "attest"} => <<r.key, r.ver>> \in h.enforced
    /\ r.step = "stamp" /\ ~r.stale => <<r.key, Len(R[r.key])>> \in h.enforced
    /\ r.step \in {"insert", "tag"} /\ r.key \notin h.raced => <<r.key, r.arg>> \in h.enforced
    /\ r.op = "activate" /\ r.step \in {"compile", "deploy"} /\ ~r.stale =>
          ~Circular(Delegations({LastOf(R[r.key]).content} \cup ContentsIn(R, Others(r))))
    /\ r.op = "activate" /\ r.step = "deploy" /\ ~r.stale /\ ~h.crossed =>
          \A a \in LastOf(R[r.key]).hash : a[1] # r.key /\ a \in ActiveIn(R) => a \in r.seen

\* The action of a sweep's request has taken effect.
Done(r) == r.step \in {"stamp", "reconcile"} \/ (r.step = "mark" /\ r.ok)

Holds(r, i) == i \in r.due \/ i = r.sched

SchedulesOk(Q, s, h) ==
    /\ \A i \in DOMAIN s : s[i].status = "executed" => h.performed[i] >= 1
    /\ \A c \in Clients : Q[c].sched # 0 /\ Done(Q[c]) => h.performed[Q[c].sched] >= 1
    /\ \A i \in 1..MaxSchedules : i > Len(s) => h.performed[i] = 0
    /\ \A i \in DOMAIN s : i \notin h.contested =>
          /\ s[i].status # "pending" => \A c \in Clients : ~Holds(Q[c], i)
          /\ (\A c \in Clients : Q[c].sched # i) =>
                h.performed[i] = IF s[i].status = "executed" THEN 1 ELSE 0
          /\ \A c \in Clients : Q[c].sched = i /\ (\A d \in Clients : d # c => Q[d].sched # i) =>
                h.performed[i] = IF Done(Q[c]) THEN 1 ELSE 0

TypeInv ==
    /\ rows \in TableType /\ \A k \in Keys : Len(rows[k]) <= MaxVersion
    /\ schedules \in Seq(ScheduleType) /\ Len(schedules) <= MaxSchedules
    /\ \A i \in DOMAIN schedules : schedules[i].version \in DOMAIN rows[schedules[i].key]
    /\ opa \in SUBSET Version /\ \A a \in opa : a[2] \in DOMAIN rows[a[1]]
    /\ req \in [Clients -> RequestType]
    /\ history \in HistoryType /\ history.enforced \subseteq history.approved

RequestsInv ==
    \A c \in Clients : Shape(req[c], rows, Len(schedules)) /\ Knows(req[c], rows, history)

PoliciesInv ==
    /\ RowsOk(rows, history)
    /\ Together(rows)
    /\ ~history.crossed => Acyclic(rows)

FactsInv == IsFiniteSet(facts) /\ facts \subseteq FactType

GInv ==
    TypeInv /\ RequestsInv /\ PoliciesInv /\ SchedulesOk(req, schedules, history)

\* What an undisturbed decision has worked out so far.
Recognised(i) == i.action \in KnownScopes \cup ActiveScopeActions

Ready(i) ==
    LET known == resolve_facts(NeededFacts)
    IN /\ IsInput(i) /\ Recognised(i)
       /\ \A f \in Facts : i.data[f] = IF f \in DOMAIN known THEN known[f] ELSE Absent

Answer(i) == evaluate(AsBundle(opa), i, FALSE)

Overdue(matched) ==
    \E a \in Active : /\ a[1] \in {m[1] : m \in matched}
                      /\ PolicyOf(a).risk = "high"
                      /\ rows[a[1]][a[2]].expired

Worked(x) ==
    /\ x.step = "facts" => x.input \in Inputs /\ Recognised(x.input)
    /\ x.step = "query" => Ready(x.input)
    /\ x.step = "freshness" =>
          Ready(x.input) /\ Answer(x.input) = "ALLOW" /\ x.matched = Evaluated(AsBundle(opa), x.input)
    /\ x.step = "decided" =>
          \/ ~Recognised(x.input) /\ x.outcome = "HUMAN_REVIEW"
          \/ Ready(x.input) /\ Answer(x.input) # "ALLOW" /\ x.outcome = Answer(x.input)
          \/ Ready(x.input) /\ Answer(x.input) = "ALLOW"
             /\ x.outcome = IF Overdue(Evaluated(AsBundle(opa), x.input)) THEN "HUMAN_REVIEW" ELSE "ALLOW"

IsDecision(x) ==
    /\ x = [step |-> x.step, input |-> x.input, outcome |-> x.outcome, matched |-> x.matched,
            disturbed |-> x.disturbed]
    /\ x.disturbed \in BOOLEAN
    /\ x.step \in {"idle", "facts", "query", "freshness", "decided"}

DecisionsInv ==
    /\ dec = [d \in Deciders |-> dec[d]]
    /\ \A d \in Deciders : IsDecision(dec[d]) /\ (~dec[d].disturbed => Worked(dec[d]))

-----------------------------------------------------------------------------
(* What a step does to the table.                                          *)

\* No version goes, and no content changes.
Kept(R, R2) ==
    \A k \in Keys : /\ Len(R[k]) <= Len(R2[k])
                    /\ \A v \in DOMAIN R[k] : R2[k][v].content = R[k][v].content

\* Requests on k that read it before are still right.
SameKey(R, R2, k) ==
    /\ Len(R2[k]) = Len(R[k])
    /\ \A v \in DOMAIN R[k] : R2[k][v].status = R[k][v].status /\ R2[k][v].hash = R[k][v].hash

HistoryGrows(h, h2) ==
    /\ h.approved \subseteq h2.approved /\ h.enforced \subseteq h2.enforced /\ h.raced \subseteq h2.raced
    /\ h.contested \subseteq h2.contested
    /\ h.crossed => h2.crossed

\* One version becomes new.
Wrote(R, R2, k, u, new) ==
    /\ R2 \in TableType
    /\ \A j \in Keys : Len(R2[j]) = Len(R[j]) /\ DOMAIN R2[j] = DOMAIN R[j]
    /\ R2[k][u] = new
    /\ \A j \in Keys : \A v \in DOMAIN R[j] : j # k \/ v # u => R2[j][v] = R[j][v]
    /\ \A j \in Keys : j # k => R2[j] = R[j]
    /\ Kept(R, R2)

\* A version is added to k.
Added(R, R2, k, new) ==
    /\ R2 \in TableType
    /\ Len(R2[k]) = Len(R[k]) + 1 /\ DOMAIN R2[k] = 1..(Len(R[k]) + 1)
    /\ R2[k][Len(R[k]) + 1] = new
    /\ \A j \in Keys : DOMAIN R[j] \subseteq DOMAIN R2[j]
    /\ \A j \in Keys : \A v \in DOMAIN R[j] : R2[j][v] = R[j][v]
    /\ \A j \in Keys : j # k => R2[j] = R[j]
    /\ Kept(R, R2)

LEMMA DomainOf ==
    ASSUME NEW T, NEW s \in Seq(T)
    PROVE  DOMAIN s = 1..Len(s) /\ Len(s) \in Nat /\ \A v \in DOMAIN s : s[v] \in T
OBVIOUS

LEMMA Updated ==
    ASSUME NEW R \in TableType, NEW k \in Keys, NEW u \in DOMAIN R[k], NEW new \in RowType,
           new.content = R[k][u].content
    PROVE  Wrote(R, [R EXCEPT ![k][u] = new], k, u, new)
<1> DEFINE R2 == [R EXCEPT ![k][u] = new]
<1>1. R[k] \in Seq(RowType)  BY DEF TableType
<1> DEFINE s == [R[k] EXCEPT ![u] = new]
<1>2. s \in Seq(RowType) /\ Len(s) = Len(R[k]) /\ DOMAIN s = DOMAIN R[k] /\ s[u] = new
      /\ \A v \in DOMAIN R[k] : v # u => s[v] = R[k][v]
      BY <1>1
<1>3. R2 = [R EXCEPT ![k] = s]  OBVIOUS
<1> HIDE DEF s, R2
<1>4. R2 \in TableType /\ R2[k] = s /\ \A j \in Keys : j # k => R2[j] = R[j]  BY <1>2, <1>3 DEF TableType
<1>5. \A j \in Keys : Len(R2[j]) = Len(R[j]) /\ DOMAIN R2[j] = DOMAIN R[j]  BY <1>2, <1>4
<1>6. \A j \in Keys : \A v \in DOMAIN R[j] : j # k \/ v # u => R2[j][v] = R[j][v]  BY <1>2, <1>4
<1>7. R2[k][u] = new  BY <1>2, <1>4
<1>8. \A j \in Keys : Len(R[j]) \in Nat  BY DEF TableType
<1>9. Kept(R, R2)
  <2>1. \A j \in Keys : Len(R[j]) <= Len(R2[j])  BY <1>5, <1>8
  <2>2. \A j \in Keys : \A v \in DOMAIN R[j] : R2[j][v].content = R[j][v].content  BY <1>6, <1>7
  <2> QED  BY <2>1, <2>2 DEF Kept
<1> HIDE DEF R2
<1>10. Wrote(R, R2, k, u, new)  BY <1>4, <1>5, <1>6, <1>7, <1>9 DEF Wrote
<1> QED  BY <1>10 DEF R2

LEMMA Appended ==
    ASSUME NEW R \in TableType, NEW k \in Keys, NEW new \in RowType
    PROVE  Added(R, [R EXCEPT ![k] = Append(R[k], new)], k, new)
<1> DEFINE R2 == [R EXCEPT ![k] = Append(R[k], new)]
<1> DEFINE s == Append(R[k], new)
<1>1. R[k] \in Seq(RowType) /\ Len(R[k]) \in Nat /\ DOMAIN R[k] = 1..Len(R[k])  BY DEF TableType
<1>2. s \in Seq(RowType) /\ Len(s) = Len(R[k]) + 1 /\ DOMAIN s = 1..(Len(R[k]) + 1) /\ s[Len(R[k]) + 1] = new
      /\ \A v \in DOMAIN R[k] : v \in DOMAIN s /\ s[v] = R[k][v]
  <2>1. s \in Seq(RowType) /\ Len(s) = Len(R[k]) + 1  BY <1>1
  <2>2. \A v \in 1..Len(R[k]) : s[v] = R[k][v]  BY <1>1
  <2>3. s[Len(R[k]) + 1] = new  BY <1>1
  <2> HIDE DEF s
  <2>4. DOMAIN s = 1..(Len(R[k]) + 1)  BY <2>1
  <2>5. 1..Len(R[k]) \subseteq 1..(Len(R[k]) + 1)  BY <1>1
  <2>6. \A v \in DOMAIN R[k] : v \in DOMAIN s  BY <1>1, <2>4, <2>5
  <2> QED  BY <1>1, <2>1, <2>2, <2>3, <2>4, <2>6
<1>3. R2 = [R EXCEPT ![k] = s]  OBVIOUS
<1> HIDE DEF s, R2
<1>4. R2 \in TableType /\ R2[k] = s /\ \A j \in Keys : j # k => R2[j] = R[j]  BY <1>2, <1>3 DEF TableType
<1>5. \A j \in Keys : DOMAIN R[j] \subseteq DOMAIN R2[j]  BY <1>2, <1>4
<1>6. \A j \in Keys : \A v \in DOMAIN R[j] : R2[j][v] = R[j][v]  BY <1>2, <1>4
<1>7. \A j \in Keys : Len(R[j]) \in Nat  BY DEF TableType
<1>8. Kept(R, R2)
  <2>1. \A j \in Keys : Len(R[j]) <= Len(R2[j])  BY <1>1, <1>2, <1>4, <1>7
  <2> QED  BY <1>6, <2>1 DEF Kept
<1>9. Added(R, R2, k, new)  BY <1>2, <1>4, <1>5, <1>6, <1>8 DEF Added
<1> QED  BY <1>9 DEF R2

LEMMA KeptItself ==
    ASSUME NEW R \in TableType
    PROVE  Kept(R, R)
<1>1. \A j \in Keys : Len(R[j]) \in Nat  BY DEF TableType
<1> QED  BY <1>1 DEF Kept

\* A version that exists still does.
LEMMA StillThere ==
    ASSUME NEW R \in TableType, NEW R2 \in TableType, Kept(R, R2), NEW k \in Keys
    PROVE  DOMAIN R[k] \subseteq DOMAIN R2[k]
<1>1. R[k] \in Seq(RowType) /\ R2[k] \in Seq(RowType)  BY DEF TableType
<1>2. Len(R[k]) \in Nat /\ Len(R2[k]) \in Nat /\ DOMAIN R[k] = 1..Len(R[k]) /\ DOMAIN R2[k] = 1..Len(R2[k])  BY <1>1
<1>3. Len(R[k]) <= Len(R2[k])  BY DEF Kept
<1> QED  BY <1>2, <1>3

LEMMA RowStays ==
    ASSUME NEW k \in Keys, NEW v, NEW row, NEW h, NEW h2, RowOk(k, v, row, h), HistoryGrows(h, h2)
    PROVE  RowOk(k, v, row, h2)
BY DEF RowOk, HistoryGrows

\* One version is written.
LEMMA RowsOkUpdated ==
    ASSUME NEW R \in TableType, NEW k \in Keys, NEW u, NEW new, NEW R2, Wrote(R, R2, k, u, new),
           NEW h, NEW h2, RowsOk(R, h), HistoryGrows(h, h2), RowOk(k, u, new, h2)
    PROVE  RowsOk(R2, h2)
<1> SUFFICES ASSUME NEW j \in Keys, NEW v \in DOMAIN R2[j]  PROVE RowOk(j, v, R2[j][v], h2)
    BY DEF RowsOk
<1>1. CASE j = k /\ v = u  BY <1>1 DEF Wrote
<1>2. CASE j # k \/ v # u
  <2>1. v \in DOMAIN R[j]  BY DEF Wrote
  <2>2. RowOk(j, v, R[j][v], h)  BY <2>1 DEF RowsOk
  <2>3. R2[j][v] = R[j][v]  BY <1>2, <2>1 DEF Wrote
  <2> QED  BY <2>2, <2>3, RowStays
<1> QED  BY <1>1, <1>2

\* A version is added.
LEMMA RowsOkAppended ==
    ASSUME NEW R \in TableType, NEW k \in Keys, NEW new, NEW R2, Added(R, R2, k, new),
           NEW h, NEW h2, RowsOk(R, h), HistoryGrows(h, h2), RowOk(k, Len(R[k]) + 1, new, h2)
    PROVE  RowsOk(R2, h2)
<1>1. DOMAIN R[k] = 1..Len(R[k]) /\ Len(R[k]) \in Nat  BY DEF TableType
<1> SUFFICES ASSUME NEW j \in Keys, NEW v \in DOMAIN R2[j]  PROVE RowOk(j, v, R2[j][v], h2)
    BY DEF RowsOk
<1>2. CASE j = k /\ v = Len(R[k]) + 1  BY <1>2 DEF Added
<1>3. CASE ~(j = k /\ v = Len(R[k]) + 1)
  <2>1. v \in DOMAIN R[j]
    <3>1. CASE j = k  BY <1>1, <1>3, <3>1 DEF Added
    <3>2. CASE j # k  BY <3>2 DEF Added
    <3> QED  BY <3>1, <3>2
  <2>2. RowOk(j, v, R[j][v], h)  BY <2>1 DEF RowsOk
  <2>3. R2[j][v] = R[j][v]  BY <2>1 DEF Added
  <2> QED  BY <2>2, <2>3, RowStays
<1> QED  BY <1>2, <1>3

-----------------------------------------------------------------------------
(* What another request's step does to a request.                          *)

Aside(r, r2) == r2 = r \/ r2 = [r EXCEPT !.stale = TRUE]

SameRequest(r, r2) ==
    /\ r2 \in RequestType
    /\ r2.op = r.op /\ r2.step = r.step /\ r2.key = r.key /\ r2.ver = r.ver /\ r2.arg = r.arg
    /\ r2.seen = r.seen /\ r2.sched = r.sched /\ r2.due = r.due /\ r2.ok = r.ok
    /\ r.stale => r2.stale

LEMMA AsideSame ==
    ASSUME NEW r \in RequestType, NEW r2, Aside(r, r2)
    PROVE  SameRequest(r, r2)
<1>1. CASE r2 = r  BY <1>1 DEF SameRequest
<1>2. CASE r2 = [r EXCEPT !.stale = TRUE]
  <2>1. r2 \in RequestType  BY <1>2 DEF RequestType
  <2>2. /\ r2.op = r.op /\ r2.step = r.step /\ r2.key = r.key /\ r2.ver = r.ver /\ r2.arg = r.arg
        /\ r2.seen = r.seen /\ r2.sched = r.sched /\ r2.due = r.due /\ r2.ok = r.ok
        /\ r2.stale
        BY <1>2 DEF RequestType
  <2> QED  BY <2>1, <2>2 DEF SameRequest
<1> QED  BY <1>1, <1>2 DEF Aside

LEMMA ShapeKept ==
    ASSUME NEW r \in RequestType, NEW r2, SameRequest(r, r2),
           NEW R \in TableType, NEW R2 \in TableType, Kept(R, R2),
           NEW n \in Nat, NEW n2 \in Nat, n <= n2, Shape(r, R, n)
    PROVE  Shape(r2, R2, n2)
<1>1. \A k \in Keys : DOMAIN R[k] \subseteq DOMAIN R2[k]  BY StillThere
<1>2. r.key \in Keys \cup {None} /\ r.seen \subseteq Version /\ r.sched \in Nat  BY DEF RequestType
<1>3. r.sched <= n2 /\ 1..n \subseteq 1..n2  BY <1>2 DEF Shape
<1>4. r.key # None => r.ver \in DOMAIN R2[r.key]  BY <1>1, <1>2 DEF Shape
<1>5. r.step \in {"insert", "tag"} => r.arg \in DOMAIN R2[r.key]
  <2>1. r.step \in {"insert", "tag"} => r.key \in Keys /\ r.arg \in DOMAIN R[r.key]  BY <1>2 DEF Shape
  <2> QED  BY <1>1, <2>1
<1>6. \A a \in r.seen : a[2] \in DOMAIN R2[a[1]]  BY <1>1, <1>2 DEF Shape, Version
<1> QED  BY <1>3, <1>4, <1>5, <1>6 DEF Shape, SameRequest

LEMMA ContentsKept ==
    ASSUME NEW R, NEW R2, Kept(R, R2), NEW S \in SUBSET Version, \A a \in S : a[2] \in DOMAIN R[a[1]]
    PROVE  ContentsIn(R2, S) = ContentsIn(R, S)
<1>1. \A a \in S : a[1] \in Keys  BY DEF Version
<1>2. \A a \in S : RowAt(R2, a).content = RowAt(R, a).content  BY <1>1 DEF Kept, RowAt
<1> QED  BY <1>2 DEF ContentsIn

LEMMA LastIn ==
    ASSUME NEW R \in TableType, NEW k \in Keys, NEW v \in DOMAIN R[k]
    PROVE  Len(R[k]) \in DOMAIN R[k] /\ LastOf(R[k]) = R[k][Len(R[k])] /\ LastOf(R[k]) \in RowType
           /\ Len(R[k]) \in Nat
<1>1. R[k] \in Seq(RowType)  BY DEF TableType
<1>2. DOMAIN R[k] = 1..Len(R[k]) /\ Len(R[k]) \in Nat  BY <1>1
<1>3. Len(R[k]) \in 1..Len(R[k])  BY <1>2
<1>4. Len(R[k]) \in DOMAIN R[k]  BY <1>2, <1>3
<1>5. R[k][Len(R[k])] \in RowType  BY <1>1, <1>4
<1> QED  BY <1>2, <1>4, <1>5 DEF LastOf

\* The active versions a step adds were never enforced, or it is recorded.
NoneReturns(R, R2, h, h2) ==
    h2.crossed \/ \A a \in ActiveIn(R2) : a \in ActiveIn(R) \/ a \notin h.enforced

LEMMA KnowsKept ==
    ASSUME NEW r \in RequestType, NEW r2, SameRequest(r, r2),
           NEW R \in TableType, NEW R2 \in TableType, Kept(R, R2), NEW h, NEW h2, HistoryGrows(h, h2),
           NEW n, Shape(r, R, n), Knows(r, R, h), RowsOk(R, h), NoneReturns(R, R2, h, h2),
           r.key \in Keys => r2.stale \/ SameKey(R, R2, r.key)
    PROVE  Knows(r2, R2, h2)
<1>1. r.key \in Keys \cup {None} /\ r.seen \subseteq Version  BY DEF RequestType
<1>2. r.step \in {"write", "insert", "tag", "compile", "deploy", "stamp"} => r.key \in Keys
      BY <1>1 DEF Shape
<1>3. r2.step = r.step /\ r2.key = r.key /\ r2.op = r.op /\ r2.ver = r.ver /\ r2.arg = r.arg /\ r2.seen = r.seen
      /\ (r.stale => r2.stale)
      BY DEF SameRequest
<1>4. ASSUME r.key \in Keys, ~r2.stale
      PROVE  /\ Len(R2[r.key]) = Len(R[r.key])
             /\ LastOf(R2[r.key]).status = LastOf(R[r.key]).status
             /\ LastOf(R2[r.key]).hash = LastOf(R[r.key]).hash
             /\ LastOf(R2[r.key]).content = LastOf(R[r.key]).content
             /\ Len(R[r.key]) \in DOMAIN R[r.key]
             /\ LastOf(R[r.key]) = R[r.key][Len(R[r.key])]
  <2>1. r.ver \in DOMAIN R[r.key]
    <3>1. r.key # None  BY <1>4, GovernanceAssumption
    <3> QED  BY <3>1 DEF Shape
  <2>2. Len(R[r.key]) \in DOMAIN R[r.key]  BY <1>4, <2>1, LastIn
  <2>3. SameKey(R, R2, r.key)  BY <1>4
  <2> QED  BY <1>4, <2>2, <2>3 DEF SameKey, Kept, LastOf
<1>5. r.step = "write" /\ ~r2.stale => r.ver = Len(R2[r.key]) /\ LastOf(R2[r.key]).status \in AllowedFrom(r.op)
  <2>1. SUFFICES ASSUME r.step = "write", ~r2.stale
                 PROVE  r.ver = Len(R2[r.key]) /\ LastOf(R2[r.key]).status \in AllowedFrom(r.op)
        OBVIOUS
  <2>2. r.key \in Keys /\ ~r.stale  BY <1>2, <1>3, <2>1
  <2>3. r.ver = Len(R[r.key]) /\ LastOf(R[r.key]).status \in AllowedFrom(r.op)  BY <2>1, <2>2 DEF Knows
  <2> QED  BY <1>4, <2>1, <2>2, <2>3
<1>6. r.step = "write" /\ r.op \in {"deprecate", "attest"} => <<r.key, r.ver>> \in h2.enforced
      BY DEF Knows, HistoryGrows
<1>7. r.step = "stamp" /\ ~r2.stale => <<r.key, Len(R2[r.key])>> \in h2.enforced
  <2>1. SUFFICES ASSUME r.step = "stamp", ~r2.stale  PROVE <<r.key, Len(R2[r.key])>> \in h2.enforced
        OBVIOUS
  <2>2. r.key \in Keys /\ ~r.stale  BY <1>2, <1>3, <2>1
  <2>3. <<r.key, Len(R[r.key])>> \in h.enforced  BY <2>1, <2>2 DEF Knows
  <2> QED  BY <1>4, <2>1, <2>2, <2>3 DEF HistoryGrows
<1>8. r.step \in {"insert", "tag"} /\ r.key \notin h2.raced => <<r.key, r.arg>> \in h2.enforced
      BY DEF Knows, HistoryGrows
<1>9. ContentsIn(R2, Others(r)) = ContentsIn(R, Others(r))
  <2>1. Others(r) \in SUBSET Version /\ \A a \in Others(r) : a[2] \in DOMAIN R[a[1]]  BY <1>1 DEF Others, Shape
  <2> QED  BY <2>1, ContentsKept
<1>10. Others(r2) = Others(r)  BY <1>3 DEF Others
<1>11. r.op = "activate" /\ r.step \in {"compile", "deploy"} /\ ~r2.stale =>
          ~Circular(Delegations({LastOf(R2[r.key]).content} \cup ContentsIn(R2, Others(r))))
  <2>1. SUFFICES ASSUME r.op = "activate", r.step \in {"compile", "deploy"}, ~r2.stale
                 PROVE  ~Circular(Delegations({LastOf(R2[r.key]).content} \cup ContentsIn(R2, Others(r))))
        OBVIOUS
  <2>2. r.key \in Keys /\ ~r.stale  BY <1>2, <1>3, <2>1
  <2>3. ~Circular(Delegations({LastOf(R[r.key]).content} \cup ContentsIn(R, Others(r))))
        BY <2>1, <2>2 DEF Knows
  <2>4. LastOf(R2[r.key]).content = LastOf(R[r.key]).content  BY <1>4, <2>1, <2>2
  <2> QED  BY <1>9, <2>3, <2>4
<1>12. r.op = "activate" /\ r.step = "deploy" /\ ~r2.stale /\ ~h2.crossed =>
          \A a \in LastOf(R2[r.key]).hash : a[1] # r.key /\ a \in ActiveIn(R2) => a \in r.seen
  <2>1. SUFFICES ASSUME r.op = "activate", r.step = "deploy", ~r2.stale, ~h2.crossed,
                        NEW a \in LastOf(R2[r.key]).hash, a[1] # r.key, a \in ActiveIn(R2)
                 PROVE  a \in r.seen
        OBVIOUS
  <2>2. r.key \in Keys /\ ~r.stale /\ ~h.crossed  BY <1>2, <1>3, <2>1 DEF HistoryGrows
  <2>3. a \in LastOf(R[r.key]).hash  BY <1>4, <2>1, <2>2
  <2>4. a \in h.enforced
    <3>1. RowOk(r.key, Len(R[r.key]), LastOf(R[r.key]), h)  BY <1>4, <2>1, <2>2 DEF RowsOk
    <3> QED  BY <2>1, <2>3, <3>1 DEF RowOk
  <2>5. a \in ActiveIn(R)  BY <2>1, <2>4 DEF NoneReturns
  <2> QED  BY <2>1, <2>2, <2>3, <2>5 DEF Knows
<1> QED  BY <1>3, <1>5, <1>6, <1>7, <1>8, <1>10, <1>11, <1>12 DEF Knows

-----------------------------------------------------------------------------
(* Fewer active versions.                                                  *)

LEMMA CircularGrows ==
    ASSUME NEW E, NEW F, E \subseteq F, Circular(E)
    PROVE  Circular(F)
<1>1. PICK S \in SUBSET {e[1] : e \in E} : S # {} /\ \A n \in S : \E m \in S : <<n, m>> \in E  BY DEF Circular
<1>2. S \in SUBSET {e[1] : e \in F}  OBVIOUS
<1>3. \A n \in S : \E m \in S : <<n, m>> \in F  BY <1>1
<1> QED  BY <1>1, <1>2, <1>3 DEF Circular

LEMMA AcyclicPart ==
    ASSUME NEW P, NEW Q, P \subseteq Q, ~Circular(Delegations(Q))
    PROVE  ~Circular(Delegations(P))
<1>1. Delegations(P) \subseteq Delegations(Q)  BY DEF Delegations
<1> QED  BY <1>1, CircularGrows

LEMMA UploadsPart ==
    ASSUME NEW b, uploads(b), NEW d, DOMAIN d \subseteq DOMAIN b, \A k \in DOMAIN d : d[k] = b[k]
    PROVE  uploads(d)
<1>1. NoErrors(d)  BY DEF uploads, compiles, NoErrors
<1>2. \A k \in DOMAIN d : ~Untranslatable(d[k])  BY DEF uploads, compiles
<1>3. \A k \in DOMAIN d : \A c \in Conditions(d[k]) : c.operator = "contains" => c.value \in Texts
      BY DEF uploads
<1> QED  BY <1>1, <1>2, <1>3 DEF uploads, compiles

LEMMA FewerActive ==
    ASSUME NEW R, NEW R2, Kept(R, R2), ActiveIn(R2) \subseteq ActiveIn(R)
    PROVE  (Together(R) => Together(R2)) /\ (Acyclic(R) => Acyclic(R2))
<1> DEFINE b == [a \in ActiveIn(R) |-> RowAt(R, a).content]
           d == [a \in ActiveIn(R2) |-> RowAt(R2, a).content]
<1>1. \A a \in ActiveIn(R) : RowAt(R2, a).content = RowAt(R, a).content
  <2>1. \A a \in ActiveIn(R) : a[1] \in Keys /\ a[2] \in DOMAIN R[a[1]]  BY DEF ActiveIn, Version
  <2> QED  BY <2>1 DEF Kept, RowAt
<1>2. Together(R) => Together(R2)
  <2>1. DOMAIN d \subseteq DOMAIN b /\ \A a \in DOMAIN d : d[a] = b[a]  BY <1>1
  <2> HIDE DEF b, d
  <2>2. uploads(b) => uploads(d)  BY <2>1, UploadsPart
  <2> QED  BY <2>2 DEF Together, b, d
<1>3. Acyclic(R) => Acyclic(R2)
  <2>1. ContentsIn(R2, ActiveIn(R2)) \subseteq ContentsIn(R, ActiveIn(R))  BY <1>1 DEF ContentsIn
  <2> QED  BY <2>1, AcyclicPart DEF Acyclic
<1> QED  BY <1>2, <1>3

-----------------------------------------------------------------------------
(* The steps of requests, as values.                                       *)

\* Request c becomes r; the others on k are stale.
Touched(Q, Q2, c, k, r) ==
    /\ Q2 \in [Clients -> RequestType] /\ Q2[c] = r
    /\ \A d \in Clients : d # c => Aside(Q[d], Q2[d]) /\ (Q[d].key = k => Q2[d].stale)

\* Request c becomes r.
Moved(Q, Q2, c, r) ==
    /\ Q2 \in [Clients -> RequestType] /\ Q2[c] = r
    /\ \A d \in Clients : d # c => Q2[d] = Q[d]

LEMMA TouchDoes ==
    ASSUME req \in [Clients -> RequestType], NEW c \in Clients, NEW k, NEW r \in RequestType
    PROVE  Touched(req, Touch(c, k, r), c, k, r)
<1> DEFINE Q == Touch(c, k, r)
<1>1. Q = [d \in Clients |-> IF d = c THEN r ELSE IF req[d].key = k THEN [req[d] EXCEPT !.stale = TRUE] ELSE req[d]]
      BY DEF Touch
<1>2. \A d \in Clients : req[d] \in RequestType  OBVIOUS
<1>3. ASSUME NEW x \in RequestType  PROVE [x EXCEPT !.stale = TRUE] \in RequestType /\ [x EXCEPT !.stale = TRUE].stale
      BY DEF RequestType
<1> HIDE DEF Q
<1>4. Q \in [Clients -> RequestType]  BY <1>1, <1>2, <1>3
<1>5. ASSUME NEW d \in Clients, d # c  PROVE Aside(req[d], Q[d]) /\ (req[d].key = k => Q[d].stale)
  <2>1. CASE req[d].key = k
    <3>1. Q[d] = [req[d] EXCEPT !.stale = TRUE]  BY <1>1, <1>5, <2>1
    <3>2. req[d] \in RequestType  BY <1>2
    <3> QED  BY <1>3, <3>1, <3>2 DEF Aside
  <2>2. CASE req[d].key # k  BY <1>1, <1>5, <2>2 DEF Aside
  <2> QED  BY <2>1, <2>2
<1>6. Q[c] = r  BY <1>1
<1>7. Touched(req, Q, c, k, r)  BY <1>4, <1>5, <1>6 DEF Touched
<1> QED  BY <1>7 DEF Q

LEMMA MoveDoes ==
    ASSUME NEW Q \in [Clients -> RequestType], NEW c \in Clients, NEW r \in RequestType
    PROVE  Moved(Q, [Q EXCEPT ![c] = r], c, r)
BY DEF Moved

LEMMA IdleFine ==
    /\ Idle \in RequestType
    /\ Idle.sched = 0 /\ Idle.due = {} /\ Idle.step = "idle" /\ Idle.key = None
    /\ \A R, n : n \in Nat => Shape(Idle, R, n)
    /\ \A R, h : Knows(Idle, R, h)
<1>1. Idle \in RequestType
  <2>1. "none" \in Operations \cup {"none", "cancel", "sweep"} /\ {} \in SUBSET Version /\ {} \in SUBSET Nat  OBVIOUS
  <2>2. None \in Policies \cup Nat \cup {None} /\ None \in Keys \cup {None} /\ 0 \in Nat  OBVIOUS
  <2>3. TRUE \in BOOLEAN /\ FALSE \in BOOLEAN /\ "idle" \in Steps  BY DEF Steps
  <2> QED  BY <2>1, <2>2, <2>3 DEF Idle, RequestType
<1>2. /\ Idle.sched = 0 /\ Idle.due = {} /\ Idle.step = "idle" /\ Idle.key = None /\ Idle.seen = {}
      /\ Idle.op = "none"
      BY DEF Idle
<1>3. \A R, n : n \in Nat => Shape(Idle, R, n)  BY <1>2 DEF Shape, Steps
<1>4. \A R, h : Knows(Idle, R, h)  BY <1>2 DEF Knows
<1> QED  BY <1>1, <1>2, <1>3, <1>4

\* The request goes to another step.
LEMMA StepTo ==
    ASSUME NEW r \in RequestType, NEW s \in Steps, NEW x, x = [r EXCEPT !.step = s]
    PROVE  /\ x \in RequestType /\ x.step = s
           /\ x.op = r.op /\ x.key = r.key /\ x.ver = r.ver /\ x.arg = r.arg /\ x.seen = r.seen
           /\ x.stale = r.stale /\ x.sched = r.sched /\ x.due = r.due /\ x.ok = r.ok
BY DEF RequestType

\* End: a sweep goes on to mark its schedule.
Ended(r, ok) == IF r.sched = 0 THEN Idle ELSE [r EXCEPT !.step = "mark", !.ok = ok]

LEMMA EndedFields ==
    ASSUME NEW r \in RequestType, NEW ok \in BOOLEAN
    PROVE  /\ Ended(r, ok) \in RequestType
           /\ r.sched = 0 => Ended(r, ok) = Idle
           /\ r.sched # 0 => /\ Ended(r, ok).step = "mark" /\ Ended(r, ok).ok = ok
                             /\ Ended(r, ok).op = r.op /\ Ended(r, ok).key = r.key /\ Ended(r, ok).ver = r.ver
                             /\ Ended(r, ok).arg = r.arg /\ Ended(r, ok).seen = r.seen
                             /\ Ended(r, ok).stale = r.stale /\ Ended(r, ok).sched = r.sched /\ Ended(r, ok).due = r.due
<1> DEFINE x == [r EXCEPT !.step = "mark", !.ok = ok]
           y == [r EXCEPT !.step = "mark"]
<1>1. /\ x \in RequestType /\ x.step = "mark" /\ x.ok = ok
      /\ x.op = r.op /\ x.key = r.key /\ x.ver = r.ver /\ x.arg = r.arg /\ x.seen = r.seen
      /\ x.stale = r.stale /\ x.sched = r.sched /\ x.due = r.due
  <2>1. /\ y \in RequestType /\ y.step = "mark"
        /\ y.op = r.op /\ y.key = r.key /\ y.ver = r.ver /\ y.arg = r.arg /\ y.seen = r.seen
        /\ y.stale = r.stale /\ y.sched = r.sched /\ y.due = r.due
    <3>1. "mark" \in Steps  BY DEF Steps
    <3> QED  BY <3>1, StepTo
  <2>2. x = [y EXCEPT !.ok = ok]  OBVIOUS
  <2> HIDE DEF x, y
  <2>3. /\ x \in RequestType /\ x.step = y.step /\ x.ok = ok
        /\ x.op = y.op /\ x.key = y.key /\ x.ver = y.ver /\ x.arg = y.arg /\ x.seen = y.seen
        /\ x.stale = y.stale /\ x.sched = y.sched /\ x.due = y.due
        BY <2>1, <2>2 DEF RequestType
  <2> QED  BY <2>1, <2>3
<1>2. Ended(r, ok) = IF r.sched = 0 THEN Idle ELSE x  BY DEF Ended
<1> HIDE DEF x
<1> QED  BY <1>1, <1>2, IdleFine

LEMMA EndedFine ==
    ASSUME NEW r \in RequestType, NEW ok \in BOOLEAN, NEW R, NEW n \in Nat, NEW h, Shape(r, R, n), r.key \in Keys
    PROVE  Shape(Ended(r, ok), R, n) /\ Knows(Ended(r, ok), R, h)
<1>1. CASE r.sched = 0  BY <1>1, EndedFields, IdleFine
<1>2. CASE r.sched # 0
  <2> DEFINE x == Ended(r, ok)
  <2>1. /\ x.step = "mark" /\ x.op = r.op /\ x.key = r.key /\ x.ver = r.ver /\ x.arg = r.arg /\ x.seen = r.seen
        /\ x.sched = r.sched /\ x.due = r.due
        BY <1>2, EndedFields
  <2>2. x.key # None  BY <2>1, GovernanceAssumption
  <2> HIDE DEF x
  <2>3. Shape(x, R, n)  BY <1>2, <2>1, <2>2 DEF Shape, Steps
  <2>4. Knows(x, R, h)  BY <2>1 DEF Knows
  <2> QED  BY <2>3, <2>4 DEF x
<1> QED  BY <1>1, <1>2

-----------------------------------------------------------------------------
(* Reads of the state are reads of the table.                              *)

LEMMA ActiveIs ==
    ASSUME rows \in TableType
    PROVE  /\ Active = ActiveIn(rows)
           /\ \A S : ContentsIn(rows, S) = {PolicyOf(a) : a \in S}
           /\ \A S : AsBundle(S) = [a \in S |-> RowAt(rows, a).content]
           /\ Active \in SUBSET Version
           /\ \A a \in Active : a[1] \in Keys /\ a[2] \in DOMAIN rows[a[1]]
<1>1. ASSUME NEW a \in Active  PROVE a \in ActiveIn(rows)
  <2>1. PICK k \in Keys : a \in {<<k, v>> : v \in {w \in DOMAIN rows[k] : rows[k][w].status = "active"}}
        BY DEF Active
  <2>2. PICK v \in DOMAIN rows[k] : a = <<k, v>> /\ rows[k][v].status = "active"  BY <2>1
  <2>3. v \in Nat  BY DEF TableType
  <2>4. a[1] = k /\ a[2] = v /\ a \in Version  BY <2>2, <2>3 DEF Version
  <2> QED  BY <2>2, <2>4 DEF ActiveIn, RowAt
<1>2. ASSUME NEW a \in ActiveIn(rows)  PROVE a \in Active
  <2>1. a \in Version /\ a[2] \in DOMAIN rows[a[1]] /\ rows[a[1]][a[2]].status = "active"
        BY DEF ActiveIn, RowAt
  <2>2. a[1] \in Keys /\ a = <<a[1], a[2]>>  BY <2>1 DEF Version
  <2> QED  BY <2>1, <2>2 DEF Active
<1>3. Active = ActiveIn(rows)  BY <1>1, <1>2
<1>4. \A S : ContentsIn(rows, S) = {PolicyOf(a) : a \in S}  BY DEF ContentsIn, PolicyOf, RowAt
<1>5. \A S : AsBundle(S) = [a \in S |-> RowAt(rows, a).content]  BY DEF AsBundle, PolicyOf, RowAt
<1>6. \A a \in ActiveIn(rows) : a \in Version /\ a[1] \in Keys /\ a[2] \in DOMAIN rows[a[1]]  BY DEF ActiveIn, Version
<1> QED  BY <1>3, <1>4, <1>5, <1>6

-----------------------------------------------------------------------------
(* Schedules, while requests go on.                                        *)

\* A request keeps its schedules and its place before or after the action.
SamePlace(r, r2) ==
    /\ r2.sched = r.sched /\ r2.due \subseteq r.due
    /\ r.sched # 0 => (Done(r2) <=> Done(r))

LEMMA AsidePlace ==
    ASSUME NEW r \in RequestType, NEW r2, Aside(r, r2)
    PROVE  SamePlace(r, r2)
<1>1. SameRequest(r, r2)  BY AsideSame
<1> QED  BY <1>1 DEF SameRequest, SamePlace, Done

LEMMA QuietSchedules ==
    ASSUME NEW Q, NEW Q2, NEW s, s \in Seq(ScheduleType), NEW h, NEW h2, SchedulesOk(Q, s, h),
           h2.performed = h.performed, h.contested \subseteq h2.contested,
           \A d \in Clients : SamePlace(Q[d], Q2[d])
    PROVE  SchedulesOk(Q2, s, h2)
<1>0. \A i \in DOMAIN s : i # 0  OBVIOUS
<1>1. \A i \in DOMAIN s : s[i].status = "executed" => h2.performed[i] >= 1  BY DEF SchedulesOk
<1>2. \A c \in Clients : Q2[c].sched # 0 /\ Done(Q2[c]) => h2.performed[Q2[c].sched] >= 1
      BY DEF SchedulesOk, SamePlace
<1>3. \A i \in 1..MaxSchedules : i > Len(s) => h2.performed[i] = 0  BY DEF SchedulesOk
<1>4. ASSUME NEW i \in DOMAIN s, i \notin h2.contested
      PROVE  /\ s[i].status # "pending" => \A c \in Clients : ~Holds(Q2[c], i)
             /\ (\A c \in Clients : Q2[c].sched # i) =>
                   h2.performed[i] = IF s[i].status = "executed" THEN 1 ELSE 0
             /\ \A c \in Clients : Q2[c].sched = i /\ (\A d \in Clients : d # c => Q2[d].sched # i) =>
                   h2.performed[i] = IF Done(Q2[c]) THEN 1 ELSE 0
  <2>1. i \notin h.contested  BY <1>4
  <2>2. s[i].status # "pending" => \A c \in Clients : ~Holds(Q2[c], i)
        BY <2>1 DEF SchedulesOk, Holds, SamePlace
  <2>3. (\A c \in Clients : Q2[c].sched # i) => h2.performed[i] = IF s[i].status = "executed" THEN 1 ELSE 0
        BY <2>1 DEF SchedulesOk, SamePlace
  <2>4. ASSUME NEW c \in Clients, Q2[c].sched = i, \A d \in Clients : d # c => Q2[d].sched # i
        PROVE  h2.performed[i] = IF Done(Q2[c]) THEN 1 ELSE 0
    <3>1. Q[c].sched = i /\ (\A d \in Clients : d # c => Q[d].sched # i)  BY <2>4 DEF SamePlace
    <3>2. h.performed[i] = IF Done(Q[c]) THEN 1 ELSE 0  BY <2>1, <3>1 DEF SchedulesOk
    <3>3. Done(Q2[c]) <=> Done(Q[c])  BY <1>0, <3>1 DEF SamePlace
    <3> QED  BY <3>2, <3>3
  <2> QED  BY <2>2, <2>3, <2>4
<1> QED  BY <1>1, <1>2, <1>3, <1>4 DEF SchedulesOk

\* The action of a schedule takes effect.
LEMMA PerformedSchedules ==
    ASSUME NEW Q, NEW Q2, NEW s, s \in Seq(ScheduleType), NEW h, NEW h2, SchedulesOk(Q, s, h),
           h.performed \in [1..MaxSchedules -> Nat], h.contested \subseteq h2.contested, NEW c \in Clients,
           NEW i \in DOMAIN s, i \in 1..MaxSchedules, h2.performed = [h.performed EXCEPT ![i] = @ + 1],
           Q[c].sched = i, ~Done(Q[c]), Q2[c].sched = i, Q2[c].due = Q[c].due, Done(Q2[c]),
           \A d \in Clients : d # c => SamePlace(Q[d], Q2[d])
    PROVE  SchedulesOk(Q2, s, h2)
<1>0. \A j \in DOMAIN s : j # 0 /\ j \in Nat /\ j <= Len(s)  OBVIOUS
<1>1. /\ h2.performed[i] = h.performed[i] + 1 /\ h.performed[i] \in Nat
      /\ \A j \in 1..MaxSchedules : j # i => h2.performed[j] = h.performed[j]
      OBVIOUS
<1>2. \A d \in Clients : Q2[d].sched = Q[d].sched /\ Q2[d].due \subseteq Q[d].due  BY DEF SamePlace
<1>3. h2.performed[i] >= 1  BY <1>1
<1>4. \A j : j # i => h2.performed[j] = h.performed[j]  OBVIOUS
<1>5. \A j \in DOMAIN s : s[j].status = "executed" => h2.performed[j] >= 1  BY <1>3, <1>4 DEF SchedulesOk
<1>6. ASSUME NEW d \in Clients, Q2[d].sched # 0, Done(Q2[d])  PROVE h2.performed[Q2[d].sched] >= 1
  <2>1. CASE Q2[d].sched = i  BY <1>3, <2>1
  <2>2. CASE Q2[d].sched # i
    <3>1. d # c  BY <2>2
    <3>2. Q[d].sched # 0 /\ Done(Q[d]) /\ Q2[d].sched = Q[d].sched  BY <1>6, <3>1 DEF SamePlace
    <3>3. h.performed[Q[d].sched] >= 1  BY <3>2 DEF SchedulesOk
    <3> QED  BY <1>4, <2>2, <3>2, <3>3
  <2> QED  BY <2>1, <2>2
<1>7. \A j \in 1..MaxSchedules : j > Len(s) => h2.performed[j] = 0
  <2>1. i <= Len(s) /\ Len(s) \in Nat  BY <1>0
  <2> QED  BY <1>4, <2>1 DEF SchedulesOk
<1>8. ASSUME NEW j \in DOMAIN s, j \notin h2.contested
      PROVE  /\ s[j].status # "pending" => \A d \in Clients : ~Holds(Q2[d], j)
             /\ (\A d \in Clients : Q2[d].sched # j) =>
                   h2.performed[j] = IF s[j].status = "executed" THEN 1 ELSE 0
             /\ \A d \in Clients : Q2[d].sched = j /\ (\A e \in Clients : e # d => Q2[e].sched # j) =>
                   h2.performed[j] = IF Done(Q2[d]) THEN 1 ELSE 0
  <2>1. j \notin h.contested  BY <1>8
  <2>2. s[j].status # "pending" => \A d \in Clients : ~Holds(Q2[d], j)
        BY <1>2, <2>1 DEF SchedulesOk, Holds
  <2>3. ASSUME \A d \in Clients : Q2[d].sched # j
        PROVE  h2.performed[j] = IF s[j].status = "executed" THEN 1 ELSE 0
    <3>1. j # i /\ \A d \in Clients : Q[d].sched # j  BY <1>2, <2>3
    <3>2. h.performed[j] = IF s[j].status = "executed" THEN 1 ELSE 0  BY <2>1, <3>1 DEF SchedulesOk
    <3> QED  BY <1>4, <3>1, <3>2
  <2>4. ASSUME NEW d \in Clients, Q2[d].sched = j, \A e \in Clients : e # d => Q2[e].sched # j
        PROVE  h2.performed[j] = IF Done(Q2[d]) THEN 1 ELSE 0
    <3>1. Q[d].sched = j /\ \A e \in Clients : e # d => Q[e].sched # j  BY <1>2, <2>4
    <3>2. h.performed[j] = IF Done(Q[d]) THEN 1 ELSE 0  BY <2>1, <3>1 DEF SchedulesOk
    <3>3. CASE d = c  BY <1>1, <3>1, <3>2, <3>3
    <3>4. CASE d # c
      <4>1. j # i  BY <3>1, <3>4
      <4>2. Done(Q2[d]) <=> Done(Q[d])  BY <1>0, <3>1, <3>4 DEF SamePlace
      <4> QED  BY <1>4, <3>2, <4>1, <4>2
    <3> QED  BY <3>3, <3>4
  <2> QED  BY <2>2, <2>3, <2>4
<1> QED  BY <1>5, <1>6, <1>7, <1>8 DEF SchedulesOk

\* A request gives its schedule up.
LEMMA ContestedSchedules ==
    ASSUME NEW Q, NEW Q2, NEW s, s \in Seq(ScheduleType), NEW h, NEW h2, SchedulesOk(Q, s, h),
           h2.performed = h.performed, h.contested \subseteq h2.contested, NEW c \in Clients,
           Q[c].sched \in h2.contested, Q2[c].sched = 0 \/ Q2[c].sched = Q[c].sched, Q2[c].due \subseteq Q[c].due,
           Q2[c].sched # 0 => (Done(Q2[c]) => Done(Q[c])),
           \A d \in Clients : d # c => SamePlace(Q[d], Q2[d])
    PROVE  SchedulesOk(Q2, s, h2)
<1>0. \A j \in DOMAIN s : j # 0  OBVIOUS
<1>1. \A i \in DOMAIN s : s[i].status = "executed" => h2.performed[i] >= 1  BY DEF SchedulesOk
<1>2. ASSUME NEW d \in Clients, Q2[d].sched # 0, Done(Q2[d])  PROVE h2.performed[Q2[d].sched] >= 1
  <2>1. CASE d = c  BY <1>2, <2>1 DEF SchedulesOk
  <2>2. CASE d # c  BY <1>2, <2>2 DEF SchedulesOk, SamePlace
  <2> QED  BY <2>1, <2>2
<1>3. \A i \in 1..MaxSchedules : i > Len(s) => h2.performed[i] = 0  BY DEF SchedulesOk
<1>4. ASSUME NEW i \in DOMAIN s, i \notin h2.contested
      PROVE  /\ s[i].status # "pending" => \A d \in Clients : ~Holds(Q2[d], i)
             /\ (\A d \in Clients : Q2[d].sched # i) =>
                   h2.performed[i] = IF s[i].status = "executed" THEN 1 ELSE 0
             /\ \A d \in Clients : Q2[d].sched = i /\ (\A e \in Clients : e # d => Q2[e].sched # i) =>
                   h2.performed[i] = IF Done(Q2[d]) THEN 1 ELSE 0
  <2>1. i \notin h.contested /\ i # Q[c].sched /\ i # Q2[c].sched  BY <1>0, <1>4
  <2>2. \A d \in Clients : Q2[d].sched = i <=> Q[d].sched = i  BY <2>1 DEF SamePlace
  <2>3. \A d \in Clients : Q2[d].due \subseteq Q[d].due  BY DEF SamePlace
  <2>4. s[i].status # "pending" => \A d \in Clients : ~Holds(Q2[d], i)
        BY <2>1, <2>2, <2>3 DEF SchedulesOk, Holds
  <2>5. (\A d \in Clients : Q2[d].sched # i) => h2.performed[i] = IF s[i].status = "executed" THEN 1 ELSE 0
        BY <2>1, <2>2 DEF SchedulesOk
  <2>6. ASSUME NEW d \in Clients, Q2[d].sched = i, \A e \in Clients : e # d => Q2[e].sched # i
        PROVE  h2.performed[i] = IF Done(Q2[d]) THEN 1 ELSE 0
    <3>1. Q[d].sched = i /\ (\A e \in Clients : e # d => Q[e].sched # i) /\ d # c  BY <2>1, <2>2, <2>6
    <3>2. h.performed[i] = IF Done(Q[d]) THEN 1 ELSE 0  BY <2>1, <3>1 DEF SchedulesOk
    <3>3. Done(Q2[d]) <=> Done(Q[d])  BY <1>0, <3>1 DEF SamePlace
    <3> QED  BY <3>2, <3>3
  <2> QED  BY <2>4, <2>5, <2>6
<1> QED  BY <1>1, <1>2, <1>3, <1>4 DEF SchedulesOk

-----------------------------------------------------------------------------
(* Putting a step's parts together.                                        *)

LEMMA TypesKept ==
    ASSUME TypeInv, rows' \in TableType, \A k \in Keys : Len(rows'[k]) <= MaxVersion, Kept(rows, rows'),
           req' \in [Clients -> RequestType], history' \in HistoryType, history'.enforced \subseteq history'.approved,
           UNCHANGED <<schedules, opa>>
    PROVE  TypeInv'
<1>0. rows \in TableType  BY DEF TypeInv
<1>1. \A k \in Keys : DOMAIN rows[k] \subseteq DOMAIN rows'[k]  BY <1>0, StillThere
<1>2. \A i \in DOMAIN schedules : schedules[i].version \in DOMAIN rows'[schedules[i].key]
  <2>1. \A i \in DOMAIN schedules : schedules[i].key \in Keys
    <3>1. \A i \in DOMAIN schedules : schedules[i] \in ScheduleType  BY DomainOf DEF TypeInv
    <3>2. \A x \in ScheduleType : x.key \in Keys  BY DEF ScheduleType
    <3> QED  BY <3>1, <3>2
  <2> QED  BY <1>1, <2>1 DEF TypeInv
<1>3. \A a \in opa : a[2] \in DOMAIN rows'[a[1]]
  <2>1. \A a \in opa : a[1] \in Keys  BY DEF TypeInv, Version
  <2> QED  BY <1>1, <2>1 DEF TypeInv
<1> QED  BY <1>2, <1>3 DEF TypeInv

LEMMA Follows ==
    ASSUME GInv, TypeInv', Kept(rows, rows'), HistoryGrows(history, history'),
           NoneReturns(rows, rows', history, history'), Len(schedules) <= Len(schedules'),
           NEW d \in Clients, Aside(req[d], req'[d]),
           req[d].key \in Keys => req'[d].stale \/ SameKey(rows, rows', req[d].key)
    PROVE  Shape(req'[d], rows', Len(schedules')) /\ Knows(req'[d], rows', history')
<1>1. /\ req[d] \in RequestType /\ rows \in TableType /\ rows' \in TableType
      /\ Len(schedules) \in Nat /\ Len(schedules') \in Nat
      BY DEF GInv, TypeInv
<1>2. SameRequest(req[d], req'[d])  BY <1>1, AsideSame
<1>3. Shape(req[d], rows, Len(schedules)) /\ Knows(req[d], rows, history) /\ RowsOk(rows, history)
      BY DEF GInv, RequestsInv, PoliciesInv
<1>4. Shape(req'[d], rows', Len(schedules'))  BY <1>1, <1>2, <1>3, ShapeKept
<1>5. Knows(req'[d], rows', history')  BY <1>1, <1>2, <1>3, KnowsKept
<1> QED  BY <1>4, <1>5

LEMMA Assemble ==
    ASSUME GInv, TypeInv', Kept(rows, rows'), HistoryGrows(history, history'),
           NoneReturns(rows, rows', history, history'), Len(schedules) <= Len(schedules'),
           NEW c \in Clients,
           \A d \in Clients : d # c =>
              /\ Aside(req[d], req'[d])
              /\ req[d].key \in Keys => req'[d].stale \/ SameKey(rows, rows', req[d].key),
           Shape(req'[c], rows', Len(schedules')), Knows(req'[c], rows', history')
    PROVE  RequestsInv'
<1>1. ASSUME NEW d \in Clients
      PROVE  Shape(req'[d], rows', Len(schedules')) /\ Knows(req'[d], rows', history')
  <2>1. CASE d = c  BY <2>1
  <2>2. CASE d # c  BY <2>2, Follows
  <2> QED  BY <2>1, <2>2
<1> QED  BY <1>1 DEF RequestsInv

LEMMA WroteFacts ==
    ASSUME NEW R \in TableType, NEW R2, NEW k \in Keys, NEW u \in DOMAIN R[k], NEW new, Wrote(R, R2, k, u, new)
    PROVE  /\ (new.status = "active" => R[k][u].status = "active") => ActiveIn(R2) \subseteq ActiveIn(R)
           /\ \A j \in Keys : j # k => SameKey(R, R2, j)
           /\ new.status = R[k][u].status /\ new.hash = R[k][u].hash => SameKey(R, R2, k)
<1>1. ASSUME new.status = "active" => R[k][u].status = "active", NEW a \in ActiveIn(R2)
      PROVE  a \in ActiveIn(R)
  <2>1. a \in Version /\ a[1] \in Keys /\ a[2] \in DOMAIN R[a[1]] /\ R2[a[1]][a[2]].status = "active"
        BY DEF ActiveIn, Wrote, RowAt, Version
  <2>2. R[a[1]][a[2]].status = "active"
    <3>1. CASE a[1] = k /\ a[2] = u  BY <1>1, <2>1, <3>1 DEF Wrote
    <3>2. CASE a[1] # k \/ a[2] # u  BY <2>1, <3>2 DEF Wrote
    <3> QED  BY <3>1, <3>2
  <2> QED  BY <2>1, <2>2 DEF ActiveIn, RowAt
<1>2. \A j \in Keys : j # k => SameKey(R, R2, j)  BY DEF Wrote, SameKey
<1>3. new.status = R[k][u].status /\ new.hash = R[k][u].hash => SameKey(R, R2, k)  BY DEF Wrote, SameKey
<1> QED  BY <1>1, <1>2, <1>3

LEMMA AddedFacts ==
    ASSUME NEW R \in TableType, NEW R2, NEW k \in Keys, NEW new, Added(R, R2, k, new), new.status # "active"
    PROVE  /\ ActiveIn(R2) \subseteq ActiveIn(R)
           /\ \A j \in Keys : j # k => SameKey(R, R2, j)
<1>1. DOMAIN R[k] = 1..Len(R[k]) /\ Len(R[k]) \in Nat  BY DEF TableType
<1>2. ASSUME NEW a \in ActiveIn(R2)  PROVE a \in ActiveIn(R)
  <2>1. a \in Version /\ a[1] \in Keys /\ a[2] \in DOMAIN R2[a[1]] /\ R2[a[1]][a[2]].status = "active"
        BY DEF ActiveIn, RowAt, Version
  <2>2. a[2] \in DOMAIN R[a[1]]
    <3>1. CASE a[1] = k
      <4>1. a[2] # Len(R[k]) + 1  BY <2>1, <3>1 DEF Added
      <4> QED  BY <1>1, <2>1, <3>1, <4>1 DEF Added
    <3>2. CASE a[1] # k  BY <2>1, <3>2 DEF Added
    <3> QED  BY <3>1, <3>2
  <2> QED  BY <2>1, <2>2 DEF ActiveIn, RowAt, Added
<1>3. \A j \in Keys : j # k => SameKey(R, R2, j)  BY DEF Added, SameKey
<1> QED  BY <1>2, <1>3

LEMMA NoNewActive ==
    ASSUME NEW R, NEW R2, ActiveIn(R2) \subseteq ActiveIn(R), NEW h, NEW h2
    PROVE  NoneReturns(R, R2, h, h2)
BY DEF NoneReturns

-----------------------------------------------------------------------------
(* submit_for_review, approve, reject, archive_policy, retire_policy,      *)
(* deprecate_policy, attest_policy                                         *)

WriteOps == {"submit", "approve", "reject", "archive", "retire", "deprecate", "attest"}

LEMMA WrittenFields ==
    ASSUME NEW row \in RowType, NEW op \in WriteOps
    PROVE  /\ Written(row, op) \in RowType
           /\ Written(row, op).content = row.content /\ Written(row, op).activated = row.activated
           /\ Written(row, op).rollbackOf = row.rollbackOf /\ Written(row, op).hash = row.hash
           /\ Written(row, op).expired = row.expired
           /\ op \in {"deprecate", "attest"} => Written(row, op).status = row.status
           /\ op \notin {"deprecate", "attest"} => Written(row, op).labels = row.labels /\ Written(row, op).status # "active"
           /\ Written(row, op).status \in {"approved", "compiled", "active"} =>
                 op = "approve" \/ Written(row, op).status = row.status
<1> USE DEF WriteOps
<1>1. CASE op = "submit"
  <2>1. Written(row, op) = [row EXCEPT !.status = "pending_review"]  BY <1>1 DEF Written
  <2> QED  BY <1>1, <2>1 DEF RowType, Statuses
<1>2. CASE op = "approve"
  <2>1. Written(row, op) = [row EXCEPT !.status = "approved"]  BY <1>2 DEF Written
  <2> QED  BY <1>2, <2>1 DEF RowType, Statuses
<1>3. CASE op = "reject"
  <2>1. Written(row, op) = [row EXCEPT !.status = "rejected"]  BY <1>3 DEF Written
  <2> QED  BY <1>3, <2>1 DEF RowType, Statuses
<1>4. CASE op = "archive"
  <2>1. Written(row, op) = [row EXCEPT !.status = "archived"]  BY <1>4 DEF Written
  <2> QED  BY <1>4, <2>1 DEF RowType, Statuses
<1>5. CASE op = "retire"
  <2>1. Written(row, op) = [row EXCEPT !.status = "retired"]  BY <1>5 DEF Written
  <2> QED  BY <1>5, <2>1 DEF RowType, Statuses
<1>6. CASE op = "deprecate"
  <2>1. Written(row, op) = [row EXCEPT !.labels = row.labels \cup {"deprecated"}]  BY <1>6 DEF Written
  <2> QED  BY <1>6, <2>1 DEF RowType
<1>7. CASE op = "attest"
  <2>1. Written(row, op) = [row EXCEPT !.labels = row.labels \cup {"attested"}]  BY <1>7 DEF Written
  <2> QED  BY <1>7, <2>1 DEF RowType
<1> QED  BY <1>1, <1>2, <1>3, <1>4, <1>5, <1>6, <1>7

LEMMA Bumped ==
    ASSUME NEW f \in [1..MaxSchedules -> Nat], NEW i \in 1..MaxSchedules
    PROVE  [f EXCEPT ![i] = @ + 1] \in [1..MaxSchedules -> Nat]
<1>1. f[i] + 1 \in Nat  OBVIOUS
<1> QED  BY <1>1

\* What Write does to the history.
LEMMA WriteHistory ==
    ASSUME TypeInv, NEW c \in Clients, req[c].key \in Keys, req[c].ver \in Nat,
           req[c].sched # 0 => req[c].sched \in 1..MaxSchedules,
           history' = [history EXCEPT
              !.raced = Note(c),
              !.approved = IF req[c].op = "approve" THEN @ \cup {<<req[c].key, req[c].ver>>} ELSE @,
              !.performed = IF req[c].op = "retire" THEN Performed(c) ELSE @]
    PROVE  /\ history' \in HistoryType /\ HistoryGrows(history, history')
           /\ history'.enforced = history.enforced /\ history'.enforced \subseteq history'.approved
           /\ history'.crossed = history.crossed /\ history'.contested = history.contested
           /\ req[c].stale => req[c].key \in history'.raced
           /\ req[c].op = "approve" => <<req[c].key, req[c].ver>> \in history'.approved
           /\ req[c].op # "retire" \/ req[c].sched = 0 => history'.performed = history.performed
           /\ req[c].op = "retire" /\ req[c].sched # 0 =>
                 history'.performed = [history.performed EXCEPT ![req[c].sched] = @ + 1]
<1> DEFINE r == req[c]
           raced == Note(c)
           approved == IF r.op = "approve" THEN history.approved \cup {<<r.key, r.ver>>} ELSE history.approved
           performed == IF r.op = "retire" THEN Performed(c) ELSE history.performed
<1>1. history \in HistoryType /\ r \in RequestType  BY DEF TypeInv
<1>2. history' = [history EXCEPT !.raced = raced, !.approved = approved, !.performed = performed]  OBVIOUS
<1>3. /\ raced \in SUBSET Keys /\ history.raced \subseteq raced
      /\ r.stale => r.key \in raced
      BY <1>1 DEF HistoryType, Note
<1>4. /\ approved \in SUBSET Version /\ history.approved \subseteq approved
      /\ r.op = "approve" => <<r.key, r.ver>> \in approved
      BY <1>1 DEF HistoryType, Version
<1>5. /\ performed \in [1..MaxSchedules -> Nat]
      /\ r.op # "retire" \/ r.sched = 0 => performed = history.performed
      /\ r.op = "retire" /\ r.sched # 0 => performed = [history.performed EXCEPT ![r.sched] = @ + 1]
  <2>1. history.performed \in [1..MaxSchedules -> Nat]  BY <1>1 DEF HistoryType
  <2>2. performed = IF r.op # "retire" \/ r.sched = 0 THEN history.performed
                    ELSE [history.performed EXCEPT ![r.sched] = @ + 1]
        BY DEF Performed, Perform
  <2>3. r.sched # 0 => [history.performed EXCEPT ![r.sched] = @ + 1] \in [1..MaxSchedules -> Nat]
        BY <2>1, Bumped
  <2> HIDE DEF performed
  <2> QED  BY <2>1, <2>2, <2>3
<1>6. history.enforced \subseteq history.approved  BY DEF TypeInv
<1> HIDE DEF raced, approved, performed
<1>7. /\ history'.raced = raced /\ history'.approved = approved /\ history'.performed = performed
      /\ history'.enforced = history.enforced /\ history'.crossed = history.crossed
      /\ history'.contested = history.contested /\ history' \in HistoryType
      BY <1>1, <1>2, <1>3, <1>4, <1>5 DEF HistoryType
<1> QED  BY <1>3, <1>4, <1>5, <1>6, <1>7 DEF HistoryGrows

\* What is known of a request before its step.
LEMMA Holder ==
    ASSUME GInv, NEW c \in Clients
    PROVE  /\ TypeInv /\ req \in [Clients -> RequestType] /\ req[c] \in RequestType /\ rows \in TableType
           /\ history \in HistoryType /\ schedules \in Seq(ScheduleType) /\ Len(schedules) \in Nat
           /\ Shape(req[c], rows, Len(schedules)) /\ Knows(req[c], rows, history)
           /\ req[c].step \notin {"idle", "cancel", "next"} =>
                 /\ req[c].key \in Keys /\ req[c].key # None /\ req[c].ver \in DOMAIN rows[req[c].key]
                 /\ req[c].ver \in Nat
                 /\ rows[req[c].key][req[c].ver] \in RowType
                 /\ RowOk(req[c].key, req[c].ver, rows[req[c].key][req[c].ver], history)
           /\ req[c].sched # 0 => req[c].sched \in DOMAIN schedules /\ req[c].sched \in 1..MaxSchedules
<1>1. /\ TypeInv /\ req \in [Clients -> RequestType] /\ req[c] \in RequestType /\ rows \in TableType
      /\ history \in HistoryType /\ schedules \in Seq(ScheduleType) /\ Len(schedules) \in Nat
      /\ Len(schedules) <= MaxSchedules
      BY DEF GInv, TypeInv
<1>2. Shape(req[c], rows, Len(schedules)) /\ Knows(req[c], rows, history)  BY DEF GInv, RequestsInv
<1>3. ASSUME req[c].step \notin {"idle", "cancel", "next"}
      PROVE  /\ req[c].key \in Keys /\ req[c].key # None /\ req[c].ver \in DOMAIN rows[req[c].key]
             /\ req[c].ver \in Nat
             /\ rows[req[c].key][req[c].ver] \in RowType
             /\ RowOk(req[c].key, req[c].ver, rows[req[c].key][req[c].ver], history)
  <2>1. req[c].key \in Keys \cup {None} /\ req[c].ver \in Nat  BY <1>1 DEF RequestType
  <2>2. req[c].key # None  BY <1>2, <1>3 DEF Shape
  <2>3. req[c].ver \in DOMAIN rows[req[c].key]  BY <1>2, <2>2 DEF Shape
  <2>4. rows[req[c].key] \in Seq(RowType)  BY <1>1, <2>1, <2>2 DEF TableType
  <2>5. rows[req[c].key][req[c].ver] \in RowType  BY <2>3, <2>4
  <2>6. RowsOk(rows, history)  BY DEF GInv, PoliciesInv
  <2> QED  BY <2>1, <2>2, <2>3, <2>5, <2>6 DEF RowsOk
<1>4. ASSUME req[c].sched # 0  PROVE req[c].sched \in DOMAIN schedules /\ req[c].sched \in 1..MaxSchedules
  <2>1. req[c].sched \in Nat  BY <1>1 DEF RequestType
  <2>2. req[c].sched <= Len(schedules)  BY <1>2 DEF Shape
  <2>3. DOMAIN schedules = 1..Len(schedules) /\ MaxSchedules \in Nat  BY <1>1, GovernanceAssumption
  <2> QED  BY <1>1, <1>4, <2>1, <2>2, <2>3
<1> QED  BY <1>1, <1>2, <1>3, <1>4

\* The others when request c touches its key.
LEMMA OthersTouched ==
    ASSUME NEW Q, NEW Q2, NEW c, NEW k, NEW r, Touched(Q, Q2, c, k, r), NEW R, NEW R2,
           \A j \in Keys : j # k => SameKey(R, R2, j)
    PROVE  \A d \in Clients : d # c =>
              /\ Aside(Q[d], Q2[d])
              /\ Q[d].key \in Keys => Q2[d].stale \/ SameKey(R, R2, Q[d].key)
BY DEF Touched

LEMMA OthersPlace ==
    ASSUME NEW Q \in [Clients -> RequestType], NEW Q2, NEW c, NEW k, NEW r, Touched(Q, Q2, c, k, r)
    PROVE  \A d \in Clients : d # c => SamePlace(Q[d], Q2[d])
<1>1. ASSUME NEW d \in Clients, d # c  PROVE SamePlace(Q[d], Q2[d])
  <2>1. Aside(Q[d], Q2[d])  BY <1>1 DEF Touched
  <2>2. Q[d] \in RequestType  OBVIOUS
  <2> QED  BY <2>1, <2>2, AsidePlace
<1> QED  BY <1>1

LEMMA WriteKeeps ==
    ASSUME GInv, NEW c \in Clients, Write(c)
    PROVE  GInv'
<1> DEFINE r == req[c]
           k == r.key
           u == r.ver
           new == Written(rows[k][u], r.op)
           next == IF r.op = "retire" THEN [r EXCEPT !.step = "reconcile"] ELSE Ended(r, TRUE)
<1>1. /\ r.step = "write" /\ r.op \in WriteOps
      /\ rows' = [rows EXCEPT ![k][u] = new]
      /\ req' = Touch(c, k, next)
      /\ schedules' = schedules /\ opa' = opa
      BY DEF Write, WriteOps, End, Ended
<1>2. /\ TypeInv /\ req \in [Clients -> RequestType] /\ r \in RequestType /\ rows \in TableType
      /\ schedules \in Seq(ScheduleType) /\ Len(schedules) \in Nat /\ history \in HistoryType
      /\ Shape(r, rows, Len(schedules)) /\ Knows(r, rows, history)
      BY Holder
<1>3. /\ k \in Keys /\ k # None /\ u \in DOMAIN rows[k] /\ u \in Nat /\ rows[k][u] \in RowType
      /\ RowOk(k, u, rows[k][u], history)
      BY <1>1, Holder
<1>4. r.sched # 0 => r.sched \in DOMAIN schedules /\ r.sched \in 1..MaxSchedules  BY Holder
<1>5. /\ history' \in HistoryType /\ HistoryGrows(history, history')
      /\ history'.enforced = history.enforced /\ history'.enforced \subseteq history'.approved
      /\ history'.crossed = history.crossed /\ history'.contested = history.contested
      /\ r.op = "approve" => <<k, u>> \in history'.approved
      /\ r.op # "retire" \/ r.sched = 0 => history'.performed = history.performed
      /\ r.op = "retire" /\ r.sched # 0 => history'.performed = [history.performed EXCEPT ![r.sched] = @ + 1]
  <2>1. history' = [history EXCEPT
              !.raced = Note(c),
              !.approved = IF req[c].op = "approve" THEN @ \cup {<<req[c].key, req[c].ver>>} ELSE @,
              !.performed = IF req[c].op = "retire" THEN Performed(c) ELSE @]
        BY DEF Write
  <2> QED  BY <1>2, <1>3, <1>4, <2>1, WriteHistory
<1>6. /\ new \in RowType
      /\ new.content = rows[k][u].content /\ new.activated = rows[k][u].activated
      /\ new.rollbackOf = rows[k][u].rollbackOf /\ new.hash = rows[k][u].hash
      /\ r.op \in {"deprecate", "attest"} => new.status = rows[k][u].status
      /\ r.op \notin {"deprecate", "attest"} => new.labels = rows[k][u].labels /\ new.status # "active"
      /\ new.status \in {"approved", "compiled", "active"} => r.op = "approve" \/ new.status = rows[k][u].status
      BY <1>1, <1>3, WrittenFields
<1> HIDE DEF new
<1>7. Wrote(rows, rows', k, u, new)  BY <1>1, <1>2, <1>3, <1>6, Updated
<1>8. RowOk(k, u, new, history')
  <2>1. RowOk(k, u, rows[k][u], history')  BY <1>3, <1>5, RowStays
  <2>2. new.labels # {} => <<k, u>> \in history'.enforced
    <3>1. CASE r.op \in {"deprecate", "attest"}  BY <1>1, <1>2, <1>5, <3>1 DEF Knows
    <3>2. CASE r.op \notin {"deprecate", "attest"}  BY <1>6, <2>1, <3>2 DEF RowOk
    <3> QED  BY <3>1, <3>2
  <2>3. new.status = "active" => <<k, u>> \in history'.enforced  BY <1>6, <2>1 DEF RowOk
  <2>4. new.status \in {"approved", "compiled", "active"} => <<k, u>> \in history'.approved
        BY <1>5, <1>6, <2>1 DEF RowOk
  <2> QED  BY <1>6, <2>1, <2>2, <2>3, <2>4 DEF RowOk
<1>9. RowsOk(rows', history')
  <2>1. RowsOk(rows, history)  BY DEF GInv, PoliciesInv
  <2> QED  BY <1>2, <1>3, <1>5, <1>7, <1>8, <2>1, RowsOkUpdated
<1>10. /\ ActiveIn(rows') \subseteq ActiveIn(rows)
       /\ \A j \in Keys : j # k => SameKey(rows, rows', j)
  <2>1. new.status = "active" => rows[k][u].status = "active"  BY <1>6
  <2> QED  BY <1>2, <1>3, <1>7, <2>1, WroteFacts
<1>11. Kept(rows, rows') /\ rows' \in TableType /\ \A j \in Keys : Len(rows'[j]) = Len(rows[j])  BY <1>7 DEF Wrote
<1>12. PoliciesInv'
  <2>1. Together(rows) /\ (~history.crossed => Acyclic(rows))  BY DEF GInv, PoliciesInv
  <2>2. (Together(rows) => Together(rows')) /\ (Acyclic(rows) => Acyclic(rows'))  BY <1>10, <1>11, FewerActive
  <2> QED  BY <1>5, <1>9, <2>1, <2>2 DEF PoliciesInv
<1>13. /\ next \in RequestType /\ Shape(next, rows', Len(schedules)) /\ Knows(next, rows', history')
       /\ next.sched = r.sched /\ next.due \subseteq r.due
       /\ r.op = "retire" => next.due = r.due /\ next.step = "reconcile"
       /\ r.op # "retire" => r.sched = 0
  <2>0. SameRequest(r, r)  BY <1>2 DEF SameRequest
  <2>1. Shape(r, rows', Len(schedules))  BY <1>2, <1>11, <2>0, ShapeKept
  <2>2. CASE r.op = "retire"
    <3>0. "reconcile" \in Steps  BY DEF Steps
    <3>1. /\ next \in RequestType /\ next.step = "reconcile"
          /\ next.op = r.op /\ next.key = r.key /\ next.ver = r.ver /\ next.arg = r.arg /\ next.seen = r.seen
          /\ next.stale = r.stale /\ next.sched = r.sched /\ next.due = r.due /\ next.ok = r.ok
          BY <1>2, <2>2, <3>0, StepTo
    <3> HIDE DEF next
    <3>2. Shape(next, rows', Len(schedules))  BY <1>3, <2>1, <2>2, <3>0, <3>1 DEF Shape
    <3>3. Knows(next, rows', history')  BY <3>1 DEF Knows
    <3> QED  BY <2>2, <3>1, <3>2, <3>3
  <2>3. CASE r.op # "retire"
    <3>1. r.sched = 0  BY <1>1, <1>2, <2>3 DEF Shape, WriteOps
    <3>2. next = Idle  BY <1>2, <2>3, <3>1, EndedFields
    <3> HIDE DEF next
    <3> QED  BY <1>2, <2>3, <3>1, <3>2, IdleFine
  <2> QED  BY <2>2, <2>3
<1> HIDE DEF next
<1>14. Touched(req, req', c, k, next)  BY <1>1, <1>2, <1>13, TouchDoes
<1>15. TypeInv'
  <2>1. \A j \in Keys : Len(rows'[j]) <= MaxVersion  BY <1>2, <1>11 DEF TypeInv
  <2> QED  BY <1>1, <1>2, <1>5, <1>11, <1>14, <2>1, TypesKept DEF Touched
<1>16. RequestsInv'
  <2>1. NoneReturns(rows, rows', history, history')  BY <1>10, NoNewActive
  <2>2. \A d \in Clients : d # c =>
           /\ Aside(req[d], req'[d])
           /\ req[d].key \in Keys => req'[d].stale \/ SameKey(rows, rows', req[d].key)
        BY <1>10, <1>14, OthersTouched
  <2>3. req'[c] = next  BY <1>14 DEF Touched
  <2>4. Len(schedules) <= Len(schedules')  BY <1>1, <1>2
  <2> QED  BY <1>1, <1>5, <1>11, <1>13, <1>15, <2>1, <2>2, <2>3, <2>4, Assemble
<1>17. SchedulesOk(req', schedules', history')
  <2>1. SchedulesOk(req, schedules, history)  BY DEF GInv
  <2>2. \A d \in Clients : d # c => SamePlace(req[d], req'[d])  BY <1>2, <1>14, OthersPlace
  <2>3. req'[c] = next  BY <1>14 DEF Touched
  <2>4. CASE r.op = "retire" /\ r.sched # 0
    <3>1. ~Done(r) /\ Done(next) /\ next.sched = r.sched /\ next.due = r.due  BY <1>1, <1>13, <2>4 DEF Done
    <3>2. history.performed \in [1..MaxSchedules -> Nat]  BY <1>2 DEF HistoryType
    <3>3. SchedulesOk(req', schedules, history')
          BY <1>2, <1>4, <1>5, <2>1, <2>2, <2>3, <2>4, <3>1, <3>2, PerformedSchedules
    <3> QED  BY <1>1, <3>3
  <2>5. CASE r.op # "retire" \/ r.sched = 0
    <3>1. SamePlace(r, next)  BY <1>13, <2>5 DEF SamePlace
    <3>2. \A d \in Clients : SamePlace(req[d], req'[d])  BY <2>2, <2>3, <3>1
    <3>3. SchedulesOk(req', schedules, history')  BY <1>2, <1>5, <2>1, <2>5, <3>2, QuietSchedules
    <3> QED  BY <1>1, <3>3
  <2> QED  BY <2>4, <2>5
<1> QED  BY <1>12, <1>15, <1>16, <1>17 DEF GInv

-----------------------------------------------------------------------------
(* Steps that activate nothing.                                            *)

Follower(d) ==
    /\ Aside(req[d], req'[d])
    /\ req[d].key \in Keys => req'[d].stale \/ SameKey(rows, rows', req[d].key)

Placed(d) == Shape(req'[d], rows', Len(schedules')) /\ Knows(req'[d], rows', history')

LEMMA GeneralStep ==
    ASSUME GInv, TypeInv', Kept(rows, rows'), ActiveIn(rows') \subseteq ActiveIn(rows),
           HistoryGrows(history, history'), RowsOk(rows', history'), Len(schedules) <= Len(schedules'),
           \A d \in Clients : Follower(d) \/ Placed(d),
           SchedulesOk(req', schedules', history')
    PROVE  GInv'
<1>1. NoneReturns(rows, rows', history, history')  BY NoNewActive
<1>2. ASSUME NEW d \in Clients
      PROVE  Shape(req'[d], rows', Len(schedules')) /\ Knows(req'[d], rows', history')
  <2>1. CASE Follower(d)  BY <1>1, <2>1, Follows DEF Follower
  <2>2. CASE Placed(d)  BY <2>2 DEF Placed
  <2> QED  BY <2>1, <2>2
<1>3. PoliciesInv'
  <2>1. Together(rows) /\ (~history.crossed => Acyclic(rows))  BY DEF GInv, PoliciesInv
  <2>2. (Together(rows) => Together(rows')) /\ (Acyclic(rows) => Acyclic(rows'))  BY FewerActive
  <2>3. ~history'.crossed => ~history.crossed  BY DEF HistoryGrows
  <2> QED  BY <2>1, <2>2, <2>3 DEF PoliciesInv
<1>4. RequestsInv'  BY <1>2 DEF RequestsInv
<1> QED  BY <1>3, <1>4 DEF GInv

LEMMA SameRows ==
    ASSUME GInv, TypeInv', rows' = rows, HistoryGrows(history, history'), Len(schedules) <= Len(schedules'),
           \A d \in Clients : req'[d] = req[d] \/ Placed(d),
           SchedulesOk(req', schedules', history')
    PROVE  GInv'
<1>1. rows \in TableType /\ RowsOk(rows, history)  BY DEF GInv, TypeInv, PoliciesInv
<1>2. Kept(rows, rows')  BY <1>1, KeptItself
<1>3. RowsOk(rows', history')
  <2>1. ASSUME NEW k \in Keys, NEW v \in DOMAIN rows[k]  PROVE RowOk(k, v, rows[k][v], history')
    <3>1. RowOk(k, v, rows[k][v], history)  BY <1>1 DEF RowsOk
    <3> QED  BY <3>1, RowStays
  <2> QED  BY <2>1 DEF RowsOk
<1>4. \A k \in Keys : SameKey(rows, rows', k)  BY DEF SameKey
<1>5. \A d \in Clients : Follower(d) \/ Placed(d)  BY <1>4 DEF Follower, Aside
<1> QED  BY <1>2, <1>3, <1>5, GeneralStep

LEMMA RacedHistory ==
    ASSUME TypeInv, NEW c \in Clients, req[c].key \in Keys,
           history' = [history EXCEPT !.raced = Note(c)]
    PROVE  /\ history' \in HistoryType /\ HistoryGrows(history, history')
           /\ history'.enforced = history.enforced /\ history'.enforced \subseteq history'.approved
           /\ history'.approved = history.approved
           /\ history'.crossed = history.crossed /\ history'.contested = history.contested
           /\ history'.performed = history.performed
           /\ req[c].stale => req[c].key \in history'.raced
<1> DEFINE raced == Note(c)
<1>1. history \in HistoryType /\ history.enforced \subseteq history.approved  BY DEF TypeInv
<1>2. raced \in SUBSET Keys /\ history.raced \subseteq raced /\ (req[c].stale => req[c].key \in raced)
      BY <1>1 DEF HistoryType, Note
<1>3. history' = [history EXCEPT !.raced = raced]  OBVIOUS
<1> HIDE DEF raced
<1>4. /\ history'.raced = raced /\ history'.approved = history.approved /\ history'.performed = history.performed
      /\ history'.enforced = history.enforced /\ history'.crossed = history.crossed
      /\ history'.contested = history.contested /\ history' \in HistoryType
      BY <1>1, <1>2, <1>3 DEF HistoryType
<1> QED  BY <1>1, <1>2, <1>4 DEF HistoryGrows

LEMMA SameHistory ==
    ASSUME history' = history
    PROVE  HistoryGrows(history, history')
BY DEF HistoryGrows

LEMMA NewRow ==
    ASSUME NEW p \in Policies
    PROVE  /\ Row(p) \in RowType /\ Row(p).status = "draft" /\ Row(p).content = p
           /\ \A k, v, h : v \in Nat /\ v > 0 => RowOk(k, v, Row(p), h)
<1>1. Row(p) \in RowType
  <2>1. "draft" \in Statuses /\ {} \in SUBSET Version /\ {} \in SUBSET {"deprecated", "attested"}  BY DEF Statuses
  <2>2. FALSE \in BOOLEAN /\ 0 \in Nat  OBVIOUS
  <2> QED  BY <2>1, <2>2 DEF Row, RowType
<1>2. /\ Row(p).status = "draft" /\ Row(p).labels = {} /\ Row(p).hash = {} /\ Row(p).rollbackOf = 0
      /\ ~Row(p).activated /\ Row(p).content = p
      BY DEF Row
<1>3. \A k, v, h : v \in Nat /\ v > 0 => RowOk(k, v, Row(p), h)  BY <1>2 DEF RowOk
<1> QED  BY <1>1, <1>2, <1>3

\* edit_policy
LEMMA EditKeeps ==
    ASSUME GInv, NEW c \in Clients, edit_policy(c)
    PROVE  GInv'
<1> DEFINE r == req[c]
           k == r.key
<1>1. r.step = "write" /\ r.op = "edit" /\ schedules' = schedules /\ opa' = opa
      /\ history' = [history EXCEPT !.raced = Note(c)]
      BY DEF edit_policy
<1>2. /\ TypeInv /\ req \in [Clients -> RequestType] /\ r \in RequestType /\ rows \in TableType
      /\ schedules \in Seq(ScheduleType) /\ Len(schedules) \in Nat /\ history \in HistoryType
      /\ Shape(r, rows, Len(schedules)) /\ Knows(r, rows, history)
      BY Holder
<1>3. k \in Keys /\ k # None  BY <1>1, Holder
<1>4. /\ history' \in HistoryType /\ HistoryGrows(history, history')
      /\ history'.enforced \subseteq history'.approved
      /\ history'.contested = history.contested /\ history'.performed = history.performed
      BY <1>1, <1>2, <1>3, RacedHistory
<1>5. r.sched = 0 /\ r.arg \in Policies /\ r.ver < MaxVersion  BY <1>1, <1>2 DEF Shape
<1>6. SamePlace(r, Idle)  BY <1>5, IdleFine DEF SamePlace
<1>7. SchedulesOk(req, schedules, history)  BY DEF GInv
<1>8. CASE Len(rows[k]) = r.ver
  <2> DEFINE new == Row(r.arg)
  <2>1. rows' = [rows EXCEPT ![k] = Append(rows[k], new)] /\ req' = Touch(c, k, Idle)  BY <1>8 DEF edit_policy
  <2>2. new \in RowType /\ new.status = "draft" /\ RowOk(k, Len(rows[k]) + 1, new, history')
    <3>1. Len(rows[k]) \in Nat  BY <1>2, <1>3 DEF TableType
    <3>2. Len(rows[k]) + 1 \in Nat /\ Len(rows[k]) + 1 > 0  BY <3>1
    <3> QED  BY <1>5, <3>2, NewRow
  <2> HIDE DEF new
  <2>3. Added(rows, rows', k, new)  BY <1>2, <1>3, <2>1, <2>2, Appended
  <2>4. RowsOk(rows', history')
    <3>1. RowsOk(rows, history)  BY DEF GInv, PoliciesInv
    <3> QED  BY <1>2, <1>3, <1>4, <2>2, <2>3, <3>1, RowsOkAppended
  <2>5. ActiveIn(rows') \subseteq ActiveIn(rows) /\ \A j \in Keys : j # k => SameKey(rows, rows', j)
        BY <1>2, <1>3, <2>2, <2>3, AddedFacts
  <2>6. Kept(rows, rows') /\ rows' \in TableType  BY <2>3 DEF Added
  <2>7. \A j \in Keys : Len(rows'[j]) <= MaxVersion
    <3>1. \A j \in Keys : Len(rows[j]) <= MaxVersion  BY <1>2 DEF TypeInv
    <3>2. Len(rows'[k]) = Len(rows[k]) + 1 /\ \A j \in Keys : j # k => rows'[j] = rows[j]  BY <2>3 DEF Added
    <3>3. r.ver \in Nat /\ MaxVersion \in Nat  BY <1>2, GovernanceAssumption DEF RequestType
    <3>4. Len(rows'[k]) <= MaxVersion  BY <1>5, <1>8, <3>2, <3>3
    <3> QED  BY <3>1, <3>2, <3>4
  <2>8. Touched(req, req', c, k, Idle)  BY <1>2, <2>1, IdleFine, TouchDoes
  <2>9. TypeInv'  BY <1>1, <1>2, <1>4, <2>6, <2>7, <2>8, TypesKept DEF Touched
  <2>10. \A d \in Clients : Follower(d) \/ Placed(d)
    <3>1. \A d \in Clients : d # c => Follower(d)  BY <2>5, <2>8, OthersTouched DEF Follower
    <3>2. req'[c] = Idle  BY <2>8 DEF Touched
    <3>3. Len(schedules') \in Nat  BY <1>1, <1>2
    <3>4. Placed(c)  BY <3>2, <3>3, IdleFine DEF Placed
    <3> QED  BY <3>1, <3>4
  <2>11. SchedulesOk(req', schedules', history')
    <3>1. \A d \in Clients : d # c => SamePlace(req[d], req'[d])  BY <1>2, <2>8, OthersPlace
    <3>2. req'[c] = Idle  BY <2>8 DEF Touched
    <3>3. \A d \in Clients : SamePlace(req[d], req'[d])  BY <1>6, <3>1, <3>2
    <3>4. SchedulesOk(req', schedules, history')  BY <1>2, <1>4, <1>7, <3>3, QuietSchedules
    <3> QED  BY <1>1, <3>4
  <2>12. Len(schedules) <= Len(schedules')  BY <1>1, <1>2
  <2> QED  BY <1>4, <2>4, <2>5, <2>6, <2>9, <2>10, <2>11, <2>12, GeneralStep
<1>9. CASE Len(rows[k]) # r.ver
  <2>1. rows' = rows /\ req' = [req EXCEPT ![c] = Idle]  BY <1>9 DEF edit_policy
  <2>2. Moved(req, req', c, Idle)  BY <1>2, <2>1, IdleFine, MoveDoes
  <2>3. TypeInv'
    <3>1. Kept(rows, rows') /\ rows' \in TableType  BY <1>2, <2>1, KeptItself
    <3>2. \A j \in Keys : Len(rows'[j]) <= MaxVersion  BY <1>2, <2>1 DEF TypeInv
    <3> QED  BY <1>1, <1>2, <1>4, <2>2, <3>1, <3>2, TypesKept DEF Moved
  <2>4. \A d \in Clients : req'[d] = req[d] \/ Placed(d)
    <3>1. req'[c] = Idle /\ \A d \in Clients : d # c => req'[d] = req[d]  BY <2>2 DEF Moved
    <3>2. Len(schedules') \in Nat  BY <1>1, <1>2
    <3>3. Placed(c)  BY <3>1, <3>2, IdleFine DEF Placed
    <3> QED  BY <3>1, <3>3
  <2>5. SchedulesOk(req', schedules', history')
    <3>1. req'[c] = Idle /\ \A d \in Clients : d # c => req'[d] = req[d]  BY <2>2 DEF Moved
    <3>2. \A d \in Clients : SamePlace(req[d], req'[d])  BY <1>6, <3>1 DEF SamePlace
    <3>3. SchedulesOk(req', schedules, history')  BY <1>2, <1>4, <1>7, <3>2, QuietSchedules
    <3> QED  BY <1>1, <3>3
  <2>6. Len(schedules) <= Len(schedules')  BY <1>1, <1>2
  <2> QED  BY <1>4, <2>1, <2>3, <2>4, <2>5, <2>6, SameRows
<1> QED  BY <1>8, <1>9

-----------------------------------------------------------------------------
(* The step of one request.                                                *)

Changed(c, next) ==
    /\ req' \in [Clients -> RequestType] /\ req'[c] = next
    /\ \A d \in Clients : d # c => Follower(d)

OpaIn(S, R) == S \in SUBSET Version /\ \A a \in S : a[2] \in DOMAIN R[a[1]]

LEMMA ByTouch ==
    ASSUME NEW c, NEW k, NEW next, Touched(req, req', c, k, next), \A j \in Keys : j # k => SameKey(rows, rows', j)
    PROVE  Changed(c, next)
<1>1. \A d \in Clients : d # c => Follower(d)  BY OthersTouched DEF Follower
<1> QED  BY <1>1 DEF Changed, Touched

LEMMA ByMove ==
    ASSUME NEW c, NEW next, Moved(req, req', c, next), \A j \in Keys : SameKey(rows, rows', j)
    PROVE  Changed(c, next)
<1>1. \A d \in Clients : d # c => Follower(d)  BY DEF Follower, Moved, Aside
<1> QED  BY <1>1 DEF Changed, Moved

LEMMA TypesWithOpa ==
    ASSUME TypeInv, rows' \in TableType, \A k \in Keys : Len(rows'[k]) <= MaxVersion, Kept(rows, rows'),
           req' \in [Clients -> RequestType], history' \in HistoryType, history'.enforced \subseteq history'.approved,
           schedules' = schedules, OpaIn(opa', rows)
    PROVE  TypeInv'
<1>0. rows \in TableType  BY DEF TypeInv
<1>1. \A k \in Keys : DOMAIN rows[k] \subseteq DOMAIN rows'[k]  BY <1>0, StillThere
<1>2. \A i \in DOMAIN schedules : schedules[i].version \in DOMAIN rows'[schedules[i].key]
  <2>1. \A i \in DOMAIN schedules : schedules[i].key \in Keys
    <3>1. \A i \in DOMAIN schedules : schedules[i] \in ScheduleType  BY DomainOf DEF TypeInv
    <3>2. \A x \in ScheduleType : x.key \in Keys  BY DEF ScheduleType
    <3> QED  BY <3>1, <3>2
  <2> QED  BY <1>1, <2>1 DEF TypeInv
<1>3. opa' \in SUBSET Version /\ \A a \in opa' : a[2] \in DOMAIN rows'[a[1]]
  <2>1. \A a \in opa' : a[1] \in Keys  BY DEF OpaIn, Version
  <2> QED  BY <1>1, <2>1 DEF OpaIn
<1> QED  BY <1>2, <1>3 DEF TypeInv

LEMMA OneRequest ==
    ASSUME GInv, NEW c \in Clients, NEW next, Changed(c, next),
           rows' \in TableType, Kept(rows, rows'), \A k \in Keys : Len(rows'[k]) <= MaxVersion,
           ActiveIn(rows') \subseteq ActiveIn(rows), RowsOk(rows', history'),
           history' \in HistoryType, HistoryGrows(history, history'), history'.enforced \subseteq history'.approved,
           schedules' = schedules, OpaIn(opa', rows),
           Shape(next, rows', Len(schedules)), Knows(next, rows', history'),
           SchedulesOk(req', schedules', history')
    PROVE  GInv'
<1>1. TypeInv'  BY TypesWithOpa DEF GInv, Changed
<1>2. Len(schedules) <= Len(schedules')
  <2>1. Len(schedules) \in Nat  BY DEF GInv, TypeInv
  <2> QED  BY <2>1
<1>3. \A d \in Clients : Follower(d) \/ Placed(d)  BY DEF Changed, Placed
<1> QED  BY <1>1, <1>2, <1>3, GeneralStep

LEMMA StaysPut ==
    ASSUME GInv, NEW c \in Clients, NEW next, Changed(c, next), SamePlace(req[c], next),
           HistoryGrows(history, history'), history'.performed = history.performed, schedules' = schedules
    PROVE  SchedulesOk(req', schedules', history')
<1>1. SchedulesOk(req, schedules, history) /\ schedules \in Seq(ScheduleType) /\ \A d \in Clients : req[d] \in RequestType
      BY DEF GInv, TypeInv
<1>2. ASSUME NEW d \in Clients  PROVE SamePlace(req[d], req'[d])
  <2>1. CASE d = c  BY <2>1 DEF Changed
  <2>2. CASE d # c
    <3>1. Aside(req[d], req'[d])  BY <2>2 DEF Changed, Follower
    <3> QED  BY <1>1, <3>1, AsidePlace
  <2> QED  BY <2>1, <2>2
<1>3. SchedulesOk(req', schedules, history')  BY <1>1, <1>2, QuietSchedules DEF HistoryGrows
<1> QED  BY <1>3

LEMMA TableSame ==
    ASSUME GInv, rows' = rows, HistoryGrows(history, history')
    PROVE  /\ rows' \in TableType /\ Kept(rows, rows') /\ \A k \in Keys : Len(rows'[k]) <= MaxVersion
           /\ ActiveIn(rows') \subseteq ActiveIn(rows) /\ RowsOk(rows', history')
           /\ \A j \in Keys : SameKey(rows, rows', j)
<1>1. rows \in TableType /\ RowsOk(rows, history) /\ \A k \in Keys : Len(rows[k]) <= MaxVersion
      BY DEF GInv, TypeInv, PoliciesInv
<1>2. Kept(rows, rows')  BY <1>1, KeptItself
<1>3. RowsOk(rows', history')
  <2>1. ASSUME NEW k \in Keys, NEW v \in DOMAIN rows[k]  PROVE RowOk(k, v, rows[k][v], history')
    <3>1. RowOk(k, v, rows[k][v], history)  BY <1>1 DEF RowsOk
    <3> QED  BY <3>1, RowStays
  <2> QED  BY <2>1 DEF RowsOk
<1>4. \A k \in Keys : SameKey(rows, rows', k)  BY DEF SameKey
<1> QED  BY <1>1, <1>2, <1>3, <1>4

LEMMA HistorySame ==
    ASSUME GInv, history' = history
    PROVE  /\ history' \in HistoryType /\ HistoryGrows(history, history') /\ history'.enforced \subseteq history'.approved
           /\ history'.performed = history.performed /\ history'.contested = history.contested
<1>1. history \in HistoryType /\ history.enforced \subseteq history.approved  BY DEF GInv, TypeInv
<1> QED  BY <1>1, SameHistory

LEMMA OpaSame ==
    ASSUME GInv, opa' = opa
    PROVE  OpaIn(opa', rows)
BY DEF GInv, TypeInv, OpaIn

\* A request moves on; the table stays.
LEMMA MovesOn ==
    ASSUME GInv, NEW c \in Clients, NEW next \in RequestType, req' = [req EXCEPT ![c] = next],
           rows' = rows, schedules' = schedules, OpaIn(opa', rows),
           history' \in HistoryType, HistoryGrows(history, history'), history'.enforced \subseteq history'.approved,
           Shape(next, rows, Len(schedules)), Knows(next, rows, history'),
           Changed(c, next) => SchedulesOk(req', schedules', history')
    PROVE  GInv'
<1>1. req \in [Clients -> RequestType]  BY DEF GInv, TypeInv
<1>2. Moved(req, req', c, next)  BY <1>1, MoveDoes
<1>3. /\ rows' \in TableType /\ Kept(rows, rows') /\ \A k \in Keys : Len(rows'[k]) <= MaxVersion
      /\ ActiveIn(rows') \subseteq ActiveIn(rows) /\ RowsOk(rows', history')
      /\ \A j \in Keys : SameKey(rows, rows', j)
      BY TableSame
<1>4. Changed(c, next)  BY <1>2, <1>3, ByMove
<1>5. Shape(next, rows', Len(schedules)) /\ Knows(next, rows', history')  OBVIOUS
<1> QED  BY <1>3, <1>4, <1>5, OneRequest

-----------------------------------------------------------------------------
(* rollback_policy                                                         *)

Tagging(r, v) == [r EXCEPT !.step = "tag", !.ver = v]

LEMMA TagFields ==
    ASSUME NEW r \in RequestType, NEW v \in Nat
    PROVE  /\ Tagging(r, v) \in RequestType /\ Tagging(r, v).step = "tag" /\ Tagging(r, v).ver = v
           /\ Tagging(r, v).op = r.op /\ Tagging(r, v).key = r.key /\ Tagging(r, v).arg = r.arg
           /\ Tagging(r, v).seen = r.seen /\ Tagging(r, v).stale = r.stale /\ Tagging(r, v).sched = r.sched
           /\ Tagging(r, v).due = r.due /\ Tagging(r, v).ok = r.ok
BY DEF RequestType, Steps, Tagging

LEMMA RollbackKeeps ==
    ASSUME GInv, NEW c \in Clients, rollback_policy(c)
    PROVE  GInv'
<1> DEFINE r == req[c]
           k == r.key
           n == Len(rows[k])
<1>1. r.step = "insert" /\ schedules' = schedules /\ opa' = opa /\ history' = history  BY DEF rollback_policy
<1>2. /\ TypeInv /\ req \in [Clients -> RequestType] /\ r \in RequestType /\ rows \in TableType
      /\ schedules \in Seq(ScheduleType) /\ Len(schedules) \in Nat /\ history \in HistoryType
      /\ Shape(r, rows, Len(schedules)) /\ Knows(r, rows, history)
      BY Holder
<1>3. k \in Keys /\ k # None  BY <1>1, Holder
<1>4. /\ history' \in HistoryType /\ HistoryGrows(history, history') /\ history'.enforced \subseteq history'.approved
      /\ history'.performed = history.performed
      BY <1>1, HistorySame
<1>5. r.sched = 0 /\ r.op = "rollback" /\ r.arg \in DOMAIN rows[k]  BY <1>1, <1>2 DEF Shape
<1>6. OpaIn(opa', rows)  BY <1>1, OpaSame
<1>7. CASE Permitted("edit", k) /\ n < MaxVersion
  <2> DEFINE new == Row(rows[k][r.arg].content)
             next == Tagging(r, n + 1)
  <2>1. rows' = [rows EXCEPT ![k] = Append(rows[k], new)] /\ req' = Touch(c, k, next)  BY <1>7 DEF rollback_policy, Tagging
  <2>2. n \in Nat /\ DOMAIN rows[k] = 1..n /\ n + 1 \in Nat /\ n + 1 > 0  BY <1>2, <1>3 DEF TableType
  <2>3. new \in RowType /\ new.status = "draft" /\ RowOk(k, n + 1, new, history')
    <3>1. rows[k][r.arg].content \in Policies
      <4>1. rows[k][r.arg] \in RowType  BY <1>2, <1>3, <1>5 DEF TableType
      <4> QED  BY <4>1 DEF RowType
    <3> QED  BY <2>2, <3>1, NewRow
  <2>4. /\ next \in RequestType /\ next.step = "tag" /\ next.ver = n + 1
        /\ next.op = r.op /\ next.key = r.key /\ next.arg = r.arg /\ next.seen = r.seen
        /\ next.stale = r.stale /\ next.sched = r.sched /\ next.due = r.due /\ next.ok = r.ok
        BY <1>2, <2>2, TagFields
  <2> HIDE DEF new, next
  <2>5. Added(rows, rows', k, new)  BY <1>2, <1>3, <2>1, <2>3, Appended
  <2>6. RowsOk(rows', history')
    <3>1. RowsOk(rows, history)  BY DEF GInv, PoliciesInv
    <3> QED  BY <1>2, <1>3, <1>4, <2>3, <2>5, <3>1, RowsOkAppended
  <2>7. ActiveIn(rows') \subseteq ActiveIn(rows) /\ \A j \in Keys : j # k => SameKey(rows, rows', j)
        BY <1>2, <1>3, <2>3, <2>5, AddedFacts
  <2>8. Kept(rows, rows') /\ rows' \in TableType  BY <2>5 DEF Added
  <2>9. \A j \in Keys : Len(rows'[j]) <= MaxVersion
    <3>1. \A j \in Keys : Len(rows[j]) <= MaxVersion  BY <1>2 DEF TypeInv
    <3>2. Len(rows'[k]) = n + 1 /\ \A j \in Keys : j # k => rows'[j] = rows[j]  BY <2>5 DEF Added
    <3>3. n + 1 <= MaxVersion  BY <1>7, <2>2, GovernanceAssumption
    <3> QED  BY <3>1, <3>2, <3>3
  <2>10. Touched(req, req', c, k, next)  BY <1>2, <2>1, <2>4, TouchDoes
  <2>11. Changed(c, next)  BY <2>7, <2>10, ByTouch
  <2>12. Shape(next, rows', Len(schedules))
    <3>1. SameRequest(r, r)  BY <1>2 DEF SameRequest
    <3>2. Shape(r, rows', Len(schedules))  BY <1>2, <2>8, <3>1, ShapeKept
    <3>3. n + 1 \in DOMAIN rows'[k] /\ r.arg < n + 1
      <4>1. DOMAIN rows'[k] = 1..(n + 1)  BY <2>5 DEF Added
      <4> QED  BY <1>5, <2>2, <4>1
    <3>4. r.sched \notin r.due /\ r.sched <= Len(schedules) /\ r.due \subseteq 1..Len(schedules)
          /\ r.arg \in DOMAIN rows'[k] /\ \A a \in r.seen : a[2] \in DOMAIN rows'[a[1]]
          BY <1>1, <3>2 DEF Shape
    <3> QED  BY <1>3, <1>5, <2>4, <3>3, <3>4 DEF Shape, Steps
  <2>13. Knows(next, rows', history')
    <3>1. k \notin history.raced => <<k, r.arg>> \in history.enforced  BY <1>1, <1>2 DEF Knows
    <3> QED  BY <1>1, <2>4, <3>1 DEF Knows
  <2>14. SamePlace(r, next)  BY <1>5, <2>4 DEF SamePlace
  <2>15. SchedulesOk(req', schedules', history')  BY <1>1, <1>4, <2>11, <2>14, StaysPut
  <2> QED  BY <1>1, <1>4, <1>6, <2>6, <2>7, <2>8, <2>9, <2>11, <2>12, <2>13, <2>15, OneRequest
<1>8. CASE ~(Permitted("edit", k) /\ n < MaxVersion)
  <2>1. rows' = rows /\ req' = [req EXCEPT ![c] = Idle]  BY <1>8 DEF rollback_policy
  <2>2. SamePlace(r, Idle)  BY <1>5, IdleFine DEF SamePlace
  <2>3. Changed(c, Idle) => SchedulesOk(req', schedules', history')  BY <1>1, <1>4, <2>2, StaysPut
  <2>4. Idle \in RequestType /\ Shape(Idle, rows, Len(schedules)) /\ Knows(Idle, rows, history')  BY <1>2, IdleFine
  <2> QED  BY <1>1, <1>4, <1>6, <2>1, <2>3, <2>4, MovesOn
<1> QED  BY <1>7, <1>8

LEMMA TagKeeps ==
    ASSUME GInv, NEW c \in Clients, TagRollback(c)
    PROVE  GInv'
<1> DEFINE r == req[c]
           k == r.key
           u == r.ver
           new == [rows[k][u] EXCEPT !.rollbackOf = r.arg]
<1>1. r.step = "tag" /\ schedules' = schedules /\ opa' = opa /\ history' = history
      /\ rows' = [rows EXCEPT ![k][u] = new] /\ req' = [req EXCEPT ![c] = Idle]
      BY DEF TagRollback
<1>2. /\ TypeInv /\ req \in [Clients -> RequestType] /\ r \in RequestType /\ rows \in TableType
      /\ schedules \in Seq(ScheduleType) /\ Len(schedules) \in Nat /\ history \in HistoryType
      /\ Shape(r, rows, Len(schedules)) /\ Knows(r, rows, history)
      BY Holder
<1>3. /\ k \in Keys /\ k # None /\ u \in DOMAIN rows[k] /\ u \in Nat /\ rows[k][u] \in RowType
      /\ RowOk(k, u, rows[k][u], history)
      BY <1>1, Holder
<1>4. /\ history' \in HistoryType /\ HistoryGrows(history, history') /\ history'.enforced \subseteq history'.approved
      /\ history'.performed = history.performed
      BY <1>1, HistorySame
<1>5. r.sched = 0 /\ r.arg \in DOMAIN rows[k] /\ r.arg < u  BY <1>1, <1>2 DEF Shape
<1>6. OpaIn(opa', rows)  BY <1>1, OpaSame
<1>7. r.arg \in Nat  BY <1>2, <1>3, <1>5 DEF TableType
<1>8. /\ new \in RowType /\ new.rollbackOf = r.arg /\ new.content = rows[k][u].content
      /\ new.status = rows[k][u].status /\ new.hash = rows[k][u].hash /\ new.labels = rows[k][u].labels
      /\ new.activated = rows[k][u].activated
      BY <1>3, <1>7 DEF RowType
<1> HIDE DEF new
<1>9. Wrote(rows, rows', k, u, new)  BY <1>1, <1>2, <1>3, <1>8, Updated
<1>10. RowOk(k, u, new, history')
  <2>1. RowOk(k, u, rows[k][u], history')  BY <1>1, <1>3
  <2>2. k \notin history'.raced => <<k, r.arg>> \in history'.enforced  BY <1>1, <1>2 DEF Knows
  <2> QED  BY <1>5, <1>8, <2>1, <2>2 DEF RowOk
<1>11. RowsOk(rows', history')
  <2>1. RowsOk(rows, history)  BY DEF GInv, PoliciesInv
  <2> QED  BY <1>2, <1>3, <1>4, <1>9, <1>10, <2>1, RowsOkUpdated
<1>12. ActiveIn(rows') \subseteq ActiveIn(rows) /\ \A j \in Keys : SameKey(rows, rows', j)
  <2>0. new.status = "active" => rows[k][u].status = "active"  BY <1>8
  <2>1. /\ ActiveIn(rows') \subseteq ActiveIn(rows) /\ \A j \in Keys : j # k => SameKey(rows, rows', j)
        /\ new.status = rows[k][u].status /\ new.hash = rows[k][u].hash => SameKey(rows, rows', k)
        BY <1>2, <1>3, <1>9, <2>0, WroteFacts
  <2> QED  BY <1>8, <2>1
<1>13. Kept(rows, rows') /\ rows' \in TableType /\ \A j \in Keys : Len(rows'[j]) = Len(rows[j])  BY <1>9 DEF Wrote
<1>14. \A j \in Keys : Len(rows'[j]) <= MaxVersion  BY <1>2, <1>13 DEF TypeInv
<1>15. Moved(req, req', c, Idle)  BY <1>1, <1>2, IdleFine, MoveDoes
<1>16. Changed(c, Idle)  BY <1>12, <1>15, ByMove
<1>17. SamePlace(r, Idle)  BY <1>5, IdleFine DEF SamePlace
<1>18. SchedulesOk(req', schedules', history')  BY <1>1, <1>4, <1>16, <1>17, StaysPut
<1>19. Shape(Idle, rows', Len(schedules)) /\ Knows(Idle, rows', history')  BY <1>2, IdleFine
<1> QED  BY <1>1, <1>4, <1>6, <1>11, <1>12, <1>13, <1>14, <1>16, <1>18, <1>19, OneRequest

-----------------------------------------------------------------------------
(* compile_policy                                                          *)

LEMMA Allowed ==
    /\ AllowedFrom("compile") = {"approved"} /\ AllowedFrom("deploy") = {"compiled"}
    /\ AllowedFrom("retire") = {"active"} /\ AllowedFrom("activate") = {"approved", "compiled"}
    /\ AllowedFrom("deprecate") = {"active"} /\ AllowedFrom("attest") = {"active"}
BY DEF AllowedFrom

\* The latest version of a request's key.
LEMMA LatestIs ==
    ASSUME rows \in TableType, NEW k \in Keys, NEW v \in DOMAIN rows[k]
    PROVE  /\ Len(rows[k]) \in DOMAIN rows[k] /\ Len(rows[k]) \in Nat
           /\ Latest(k) = rows[k][Len(rows[k])] /\ Latest(k) = LastOf(rows[k])
           /\ rows[k][Len(rows[k])] \in RowType
<1>1. Len(rows[k]) \in DOMAIN rows[k] /\ Len(rows[k]) \in Nat /\ LastOf(rows[k]) = rows[k][Len(rows[k])]
      /\ LastOf(rows[k]) \in RowType
      BY LastIn
<1> QED  BY <1>1 DEF Latest

LEMMA BundleIs ==
    ASSUME rows \in TableType, NEW k \in Keys, NEW v \in DOMAIN rows[k]
    PROVE  /\ BundleWith(k) = {<<k, Len(rows[k])>>} \cup {a \in ActiveIn(rows) : a[1] # k}
           /\ OpaIn(BundleWith(k), rows)
<1>1. Len(rows[k]) \in DOMAIN rows[k] /\ Len(rows[k]) \in Nat  BY LatestIs
<1>2. Active = ActiveIn(rows) /\ Active \in SUBSET Version /\ \A a \in Active : a[2] \in DOMAIN rows[a[1]]
      BY ActiveIs
<1>3. BundleWith(k) = {<<k, Len(rows[k])>>} \cup {a \in ActiveIn(rows) : a[1] # k}
      BY <1>2 DEF BundleWith, OthersActive
<1>4. <<k, Len(rows[k])>> \in Version  BY <1>1 DEF Version
<1> QED  BY <1>1, <1>2, <1>3, <1>4 DEF OpaIn

LEMMA ActiveEnforced ==
    ASSUME GInv, NEW a \in ActiveIn(rows)
    PROVE  a \in history.enforced
<1>1. a[1] \in Keys /\ a[2] \in DOMAIN rows[a[1]] /\ rows[a[1]][a[2]].status = "active" /\ a = <<a[1], a[2]>>
      BY DEF ActiveIn, Version, RowAt
<1>2. RowOk(a[1], a[2], rows[a[1]][a[2]], history)  BY <1>1 DEF GInv, PoliciesInv, RowsOk
<1>3. <<a[1], a[2]>> \in history.enforced  BY <1>1, <1>2 DEF RowOk
<1> QED  BY <1>1, <1>3

Compiled(row, b) == [row EXCEPT !.status = "compiled", !.hash = b]

LEMMA CompiledFields ==
    ASSUME NEW row \in RowType, NEW b \in SUBSET Version
    PROVE  /\ Compiled(row, b) \in RowType /\ Compiled(row, b).status = "compiled" /\ Compiled(row, b).hash = b
           /\ Compiled(row, b).content = row.content /\ Compiled(row, b).activated = row.activated
           /\ Compiled(row, b).labels = row.labels /\ Compiled(row, b).rollbackOf = row.rollbackOf
BY DEF RowType, Statuses, Compiled

LEMMA EndedPlace ==
    ASSUME NEW r \in RequestType, NEW ok \in BOOLEAN, r.sched # 0 => (ok <=> Done(r))
    PROVE  SamePlace(r, Ended(r, ok))
<1>1. CASE r.sched = 0
  <2>1. Ended(r, ok) = Idle  BY <1>1, EndedFields
  <2> QED  BY <1>1, <2>1, IdleFine DEF SamePlace
<1>2. CASE r.sched # 0
  <2>1. Ended(r, ok).step = "mark" /\ Ended(r, ok).ok = ok /\ Ended(r, ok).sched = r.sched /\ Ended(r, ok).due = r.due
        BY <1>2, EndedFields
  <2>2. Done(Ended(r, ok)) <=> ok  BY <2>1 DEF Done
  <2> QED  BY <1>2, <2>1, <2>2 DEF SamePlace
<1> QED  BY <1>1, <1>2

\* The request ends and changes nothing but itself.
LEMMA EndsHere ==
    ASSUME GInv, NEW c \in Clients, NEW ok \in BOOLEAN, req[c].step \notin {"idle", "cancel", "next"},
           req' = [req EXCEPT ![c] = Ended(req[c], ok)], req[c].sched # 0 => (ok <=> Done(req[c])),
           rows' = rows, schedules' = schedules, OpaIn(opa', rows), history' = history
    PROVE  GInv'
<1> DEFINE next == Ended(req[c], ok)
<1>1. /\ req[c] \in RequestType /\ req[c].key \in Keys /\ Len(schedules) \in Nat
      /\ Shape(req[c], rows, Len(schedules))
      BY Holder
<1>2. next \in RequestType  BY <1>1, EndedFields
<1>3. Shape(next, rows, Len(schedules)) /\ Knows(next, rows, history')  BY <1>1, EndedFine
<1>4. SamePlace(req[c], next)  BY <1>1, EndedPlace
<1>5. req' = [req EXCEPT ![c] = next]  OBVIOUS
<1> HIDE DEF next
<1>6. /\ history' \in HistoryType /\ HistoryGrows(history, history') /\ history'.enforced \subseteq history'.approved
      /\ history'.performed = history.performed
      BY HistorySame
<1>7. Changed(c, next) => SchedulesOk(req', schedules', history')  BY <1>4, <1>6, StaysPut
<1> QED  BY <1>2, <1>3, <1>5, <1>6, <1>7, MovesOn

LEMMA CompiledHistory ==
    ASSUME TypeInv, NEW c \in Clients, req[c].key \in Keys,
           history' = [history EXCEPT !.raced = Note(c),
                          !.crossed = @ \/ (req[c].op = "activate" /\ req[c].seen # Active)]
    PROVE  /\ history' \in HistoryType /\ HistoryGrows(history, history')
           /\ history'.enforced = history.enforced /\ history'.approved = history.approved
           /\ history'.enforced \subseteq history'.approved
           /\ history'.contested = history.contested /\ history'.performed = history.performed
           /\ ~history'.crossed => ~history.crossed /\ (req[c].op = "activate" => req[c].seen = Active)
<1> DEFINE raced == Note(c)
           crossed == history.crossed \/ (req[c].op = "activate" /\ req[c].seen # Active)
<1>1. history \in HistoryType /\ history.enforced \subseteq history.approved  BY DEF TypeInv
<1>2. raced \in SUBSET Keys /\ history.raced \subseteq raced  BY <1>1 DEF HistoryType, Note
<1>3. crossed \in BOOLEAN  BY <1>1 DEF HistoryType
<1>4. /\ history.crossed => crossed
      /\ ~crossed => ~history.crossed /\ (req[c].op = "activate" => req[c].seen = Active)
      OBVIOUS
<1>5. history' = [history EXCEPT !.raced = raced, !.crossed = crossed]  OBVIOUS
<1> HIDE DEF raced, crossed
<1>6. /\ history'.raced = raced /\ history'.approved = history.approved /\ history'.performed = history.performed
      /\ history'.enforced = history.enforced /\ history'.contested = history.contested
      /\ history' \in HistoryType
      BY <1>1, <1>2, <1>3, <1>5 DEF HistoryType
<1>7. history'.crossed = crossed  BY <1>1, <1>5 DEF HistoryType
<1>8. HistoryGrows(history, history')
  <2>1. history.crossed => history'.crossed  BY <1>4, <1>7
  <2> QED  BY <1>2, <1>6, <2>1 DEF HistoryGrows
<1> QED  BY <1>1, <1>4, <1>6, <1>7, <1>8

LEMMA CompileKeeps ==
    ASSUME GInv, NEW c \in Clients, compile_policy(c)
    PROVE  GInv'
<1> DEFINE r == req[c]
           k == r.key
           n == Len(rows[k])
           bundle == BundleWith(k)
<1>1. r.step = "compile" /\ schedules' = schedules /\ opa' = opa  BY DEF compile_policy
<1>2. /\ TypeInv /\ req \in [Clients -> RequestType] /\ r \in RequestType /\ rows \in TableType
      /\ schedules \in Seq(ScheduleType) /\ Len(schedules) \in Nat /\ history \in HistoryType
      /\ Shape(r, rows, Len(schedules)) /\ Knows(r, rows, history)
      BY Holder
<1>3. k \in Keys /\ k # None /\ r.ver \in DOMAIN rows[k]  BY <1>1, Holder
<1>4. OpaIn(opa', rows)  BY <1>1, OpaSame
<1>5. CASE Permitted("compile", k) /\ compiles(AsBundle(bundle))
  <2> DEFINE new == Compiled(rows[k][n], bundle)
             next == IF r.op = "compile" THEN Idle ELSE [r EXCEPT !.step = "deploy"]
  <2>1. /\ rows' = [rows EXCEPT ![k][n] = new] /\ req' = Touch(c, k, next)
        /\ history' = [history EXCEPT !.raced = Note(c),
                          !.crossed = @ \/ (req[c].op = "activate" /\ req[c].seen # Active)]
        BY <1>5 DEF compile_policy, Compiled
  <2>2. /\ n \in DOMAIN rows[k] /\ n \in Nat /\ rows[k][n] \in RowType /\ Latest(k) = rows[k][n]
        /\ LastOf(rows[k]) = rows[k][n]
        BY <1>2, <1>3, LatestIs
  <2>3. bundle = {<<k, n>>} \cup {a \in ActiveIn(rows) : a[1] # k} /\ OpaIn(bundle, rows)
        BY <1>2, <1>3, BundleIs
  <2>4. rows[k][n].status = "approved"
    <3>1. Latest(k).status \in AllowedFrom("compile")  BY <1>5 DEF Permitted
    <3> QED  BY <2>2, <3>1, Allowed
  <2>5. bundle \in SUBSET Version  BY <2>3 DEF OpaIn
  <2>6. /\ history' \in HistoryType /\ HistoryGrows(history, history')
        /\ history'.enforced = history.enforced /\ history'.enforced \subseteq history'.approved
        /\ history'.performed = history.performed
        /\ ~history'.crossed => ~history.crossed /\ (r.op = "activate" => r.seen = Active)
        BY <1>2, <1>3, <2>1, CompiledHistory
  <2> HIDE DEF bundle
  <2>7. /\ new \in RowType /\ new.status = "compiled" /\ new.hash = bundle
        /\ new.content = rows[k][n].content /\ new.activated = rows[k][n].activated
        /\ new.labels = rows[k][n].labels /\ new.rollbackOf = rows[k][n].rollbackOf
        BY <2>2, <2>5, CompiledFields
  <2> HIDE DEF new
  <2>8. Wrote(rows, rows', k, n, new)  BY <1>2, <1>3, <2>1, <2>2, <2>7, Updated
  <2>9. RowOk(k, n, new, history')
    <3>1. RowOk(k, n, rows[k][n], history)  BY <1>3, <2>2 DEF GInv, PoliciesInv, RowsOk
    <3>2. RowOk(k, n, rows[k][n], history')  BY <1>3, <2>6, <3>1, RowStays
    <3>3. \A a \in new.hash : a[1] # k => a \in history'.enforced
      <4>1. \A a \in bundle : a[1] # k => a \in ActiveIn(rows)  BY <2>3
      <4> QED  BY <2>6, <2>7, <4>1, ActiveEnforced
    <3> QED  BY <2>4, <2>7, <3>2, <3>3 DEF RowOk
  <2>10. RowsOk(rows', history')
    <3>1. RowsOk(rows, history)  BY DEF GInv, PoliciesInv
    <3> QED  BY <1>2, <1>3, <2>2, <2>6, <2>8, <2>9, <3>1, RowsOkUpdated
  <2>11. ActiveIn(rows') \subseteq ActiveIn(rows) /\ \A j \in Keys : j # k => SameKey(rows, rows', j)
    <3>1. new.status = "active" => rows[k][n].status = "active"  BY <2>7
    <3> QED  BY <1>2, <1>3, <2>2, <2>8, <3>1, WroteFacts
  <2>12. Kept(rows, rows') /\ rows' \in TableType /\ \A j \in Keys : Len(rows'[j]) = Len(rows[j])
         BY <2>8 DEF Wrote
  <2>13. \A j \in Keys : Len(rows'[j]) <= MaxVersion  BY <1>2, <2>12 DEF TypeInv
  <2>14. /\ next \in RequestType /\ Shape(next, rows', Len(schedules)) /\ Knows(next, rows', history')
         /\ SamePlace(r, next)
    <3>1. CASE r.op = "compile"
      <4>1. r.sched = 0  BY <1>2, <3>1 DEF Shape
      <4>2. next = Idle  BY <3>1
      <4> HIDE DEF next
      <4> QED  BY <1>2, <4>1, <4>2, IdleFine DEF SamePlace
    <3>2. CASE r.op # "compile"
      <4>0. "deploy" \in Steps  BY DEF Steps
      <4>1. r.op = "activate"  BY <1>1, <1>2, <3>2 DEF Shape
      <4>2. /\ next \in RequestType /\ next.step = "deploy"
            /\ next.op = r.op /\ next.key = r.key /\ next.ver = r.ver /\ next.arg = r.arg /\ next.seen = r.seen
            /\ next.stale = r.stale /\ next.sched = r.sched /\ next.due = r.due /\ next.ok = r.ok
            BY <1>2, <3>2, <4>0, StepTo
      <4> HIDE DEF next
      <4>3. SameRequest(r, r)  BY <1>2 DEF SameRequest
      <4>4. Shape(r, rows', Len(schedules))  BY <1>2, <2>12, <4>3, ShapeKept
      <4>5. Shape(next, rows', Len(schedules))  BY <1>3, <4>0, <4>1, <4>2, <4>4 DEF Shape
      <4>6. LastOf(rows'[k]) = new  BY <1>3, <2>8, <2>12 DEF LastOf, Wrote
      <4>7. ~r.stale => ~Circular(Delegations({new.content} \cup ContentsIn(rows', Others(r))))
        <5>1. SUFFICES ASSUME ~r.stale
                       PROVE  ~Circular(Delegations({new.content} \cup ContentsIn(rows', Others(r))))
              OBVIOUS
        <5>2. ~Circular(Delegations({LastOf(rows[k]).content} \cup ContentsIn(rows, Others(r))))
              BY <1>1, <1>2, <4>1, <5>1 DEF Knows
        <5>3. Others(r) \in SUBSET Version /\ \A a \in Others(r) : a[2] \in DOMAIN rows[a[1]]
              BY <1>2 DEF Others, Shape, RequestType
        <5>4. ContentsIn(rows', Others(r)) = ContentsIn(rows, Others(r))  BY <2>12, <5>3, ContentsKept
        <5> QED  BY <2>2, <2>7, <5>2, <5>4
      <4>8. ~history'.crossed => \A a \in new.hash : a[1] # k /\ a \in ActiveIn(rows') => a \in r.seen
        <5>1. ~history'.crossed => r.seen = ActiveIn(rows)  BY <1>2, <2>6, <4>1, ActiveIs
        <5> QED  BY <2>11, <5>1
      <4>9. Others(next) = Others(r)  BY <4>2 DEF Others
      <4>10. Knows(next, rows', history')  BY <4>1, <4>2, <4>6, <4>7, <4>8, <4>9 DEF Knows
      <4>11. SamePlace(r, next)  BY <1>1, <4>2 DEF SamePlace, Done
      <4> QED  BY <4>2, <4>5, <4>10, <4>11
    <3> QED  BY <3>1, <3>2
  <2> HIDE DEF next
  <2>15. Touched(req, req', c, k, next)  BY <1>2, <2>1, <2>14, TouchDoes
  <2>16. Changed(c, next)  BY <2>11, <2>15, ByTouch
  <2>17. SchedulesOk(req', schedules', history')  BY <1>1, <2>6, <2>14, <2>16, StaysPut
  <2> QED  BY <1>1, <1>4, <2>6, <2>10, <2>11, <2>12, <2>13, <2>14, <2>16, <2>17, OneRequest
<1>6. CASE ~(Permitted("compile", k) /\ compiles(AsBundle(bundle)))
  <2>1. rows' = rows /\ history' = history /\ req' = [req EXCEPT ![c] = Ended(r, FALSE)]
        BY <1>6 DEF compile_policy, End, Ended
  <2>2. ~Done(r)  BY <1>1 DEF Done
  <2> QED  BY <1>1, <1>4, <2>1, <2>2, EndsHere
<1> QED  BY <1>5, <1>6

-----------------------------------------------------------------------------
(* deploy_policy                                                           *)

Live(row) == [row EXCEPT !.status = "active"]
Superseded(row) == IF row.status = "active" THEN [row EXCEPT !.status = "retired"] ELSE row

Deployed(s, v) == [w \in DOMAIN s |-> IF w = v THEN Live(s[w]) ELSE Superseded(s[w])]

LEMMA DeployedFields ==
    ASSUME NEW row \in RowType
    PROVE  /\ Live(row) \in RowType /\ Live(row).status = "active"
           /\ Live(row).content = row.content /\ Live(row).hash = row.hash /\ Live(row).labels = row.labels
           /\ Live(row).activated = row.activated /\ Live(row).rollbackOf = row.rollbackOf
           /\ Superseded(row) \in RowType /\ Superseded(row).status \in {row.status, "retired"}
           /\ Superseded(row).status # "active"
           /\ Superseded(row).content = row.content /\ Superseded(row).hash = row.hash
           /\ Superseded(row).labels = row.labels /\ Superseded(row).activated = row.activated
           /\ Superseded(row).rollbackOf = row.rollbackOf
<1>1. /\ Live(row) \in RowType /\ Live(row).status = "active"
      /\ Live(row).content = row.content /\ Live(row).hash = row.hash /\ Live(row).labels = row.labels
      /\ Live(row).activated = row.activated /\ Live(row).rollbackOf = row.rollbackOf
      BY DEF RowType, Statuses, Live
<1>2. CASE row.status = "active"
  <2>1. Superseded(row) = [row EXCEPT !.status = "retired"]  BY <1>2 DEF Superseded
  <2> QED  BY <1>1, <2>1 DEF RowType, Statuses
<1>3. CASE row.status # "active"
  <2>1. Superseded(row) = row  BY <1>3 DEF Superseded
  <2> QED  BY <1>1, <1>3, <2>1
<1> QED  BY <1>2, <1>3

\* What a deployment makes of k.
Replaced(R, R2, k) ==
    /\ R2 \in TableType /\ Kept(R, R2)
    /\ \A j \in Keys : DOMAIN R2[j] = DOMAIN R[j] /\ Len(R2[j]) = Len(R[j])
    /\ \A j \in Keys : j # k => R2[j] = R[j]
    /\ \A w \in DOMAIN R[k] : /\ w = Len(R[k]) => R2[k][w] = Live(R[k][w])
                              /\ w # Len(R[k]) => R2[k][w] = Superseded(R[k][w])

LEMMA Replacing ==
    ASSUME NEW R \in TableType, NEW k \in Keys
    PROVE  Replaced(R, [R EXCEPT ![k] = Deployed(R[k], Len(R[k]))], k)
<1> DEFINE s == Deployed(R[k], Len(R[k]))
           R2 == [R EXCEPT ![k] = s]
           n == Len(R[k])
<1>1. R[k] \in Seq(RowType) /\ n \in Nat /\ DOMAIN R[k] = 1..n /\ \A w \in DOMAIN R[k] : R[k][w] \in RowType
      BY DEF TableType
<1>2. s = [w \in 1..n |-> IF w = n THEN Live(R[k][w]) ELSE Superseded(R[k][w])]  BY <1>1 DEF Deployed
<1>3. \A w \in 1..n : s[w] = IF w = n THEN Live(R[k][w]) ELSE Superseded(R[k][w])  BY <1>2
<1>4. \A w \in 1..n : s[w] \in RowType /\ s[w].content = R[k][w].content
  <2>1. ASSUME NEW w \in 1..n  PROVE s[w] \in RowType /\ s[w].content = R[k][w].content
    <3>1. R[k][w] \in RowType  BY <1>1
    <3>2. s[w] = Live(R[k][w]) \/ s[w] = Superseded(R[k][w])  BY <1>3
    <3> HIDE DEF s
    <3> QED  BY <3>1, <3>2, DeployedFields
  <2> QED  BY <2>1
<1>5. s = [w \in 1..n |-> s[w]]  BY <1>2
<1> HIDE DEF s, n
<1>6. s \in Seq(RowType) /\ Len(s) = n /\ DOMAIN s = 1..n  BY <1>1, <1>4, <1>5
<1>7. R2 \in TableType /\ R2[k] = s /\ \A j \in Keys : j # k => R2[j] = R[j]  BY <1>6 DEF TableType
<1> HIDE DEF R2
<1>8. \A j \in Keys : DOMAIN R2[j] = DOMAIN R[j] /\ Len(R2[j]) = Len(R[j])  BY <1>1, <1>6, <1>7 DEF n
<1>9. Kept(R, R2)
  <2>1. \A j \in Keys : Len(R[j]) \in Nat  BY DEF TableType
  <2>2. \A j \in Keys : Len(R[j]) <= Len(R2[j])  BY <1>8, <2>1
  <2>3. \A j \in Keys : \A v \in DOMAIN R[j] : R2[j][v].content = R[j][v].content  BY <1>1, <1>4, <1>7
  <2> QED  BY <2>2, <2>3 DEF Kept
<1>10. \A w \in DOMAIN R[k] : /\ w = n => R2[k][w] = Live(R[k][w])
                              /\ w # n => R2[k][w] = Superseded(R[k][w])
       BY <1>1, <1>3, <1>7
<1>11. Replaced(R, R2, k)  BY <1>7, <1>8, <1>9, <1>10 DEF Replaced, n
<1> QED  BY <1>11 DEF R2, s

LEMMA ReplacedFacts ==
    ASSUME NEW R \in TableType, NEW R2, NEW k \in Keys, Len(R[k]) \in DOMAIN R[k], Replaced(R, R2, k)
    PROVE  /\ ActiveIn(R2) = {<<k, Len(R[k])>>} \cup {a \in ActiveIn(R) : a[1] # k}
           /\ \A j \in Keys : j # k => SameKey(R, R2, j)
<1> DEFINE n == Len(R[k])
<1>1. n \in DOMAIN R[k] /\ n \in Nat /\ \A w \in DOMAIN R[k] : R[k][w] \in RowType /\ w \in Nat
      BY DEF TableType
<1>2. R2[k][n].status = "active"
  <2>1. R2[k][n] = Live(R[k][n])  BY <1>1 DEF Replaced
  <2> QED  BY <1>1, <2>1, DeployedFields
<1>3. \A w \in DOMAIN R[k] : w # n => R2[k][w].status # "active"
  <2>1. ASSUME NEW w \in DOMAIN R[k], w # n  PROVE R2[k][w].status # "active"
    <3>1. R2[k][w] = Superseded(R[k][w])  BY <2>1 DEF Replaced
    <3> QED  BY <1>1, <3>1, DeployedFields
  <2> QED  BY <2>1
<1>4. ASSUME NEW a \in ActiveIn(R2)  PROVE a = <<k, n>> \/ (a \in ActiveIn(R) /\ a[1] # k)
  <2>1. a \in Version /\ a[1] \in Keys /\ a = <<a[1], a[2]>> /\ a[2] \in DOMAIN R[a[1]] /\ R2[a[1]][a[2]].status = "active"
        BY DEF ActiveIn, RowAt, Version, Replaced
  <2>2. CASE a[1] = k  BY <1>3, <2>1, <2>2
  <2>3. CASE a[1] # k
    <3>1. R2[a[1]] = R[a[1]]  BY <2>1, <2>3 DEF Replaced
    <3> QED  BY <2>1, <2>3, <3>1 DEF ActiveIn, RowAt
  <2> QED  BY <2>2, <2>3
<1>5. <<k, n>> \in ActiveIn(R2)  BY <1>1, <1>2 DEF ActiveIn, RowAt, Version, Replaced
<1>6. ASSUME NEW a \in ActiveIn(R), a[1] # k  PROVE a \in ActiveIn(R2)
  <2>1. a \in Version /\ a[1] \in Keys /\ a[2] \in DOMAIN R[a[1]] /\ R[a[1]][a[2]].status = "active"
        BY DEF ActiveIn, RowAt, Version
  <2>2. R2[a[1]] = R[a[1]]  BY <1>6, <2>1 DEF Replaced
  <2> QED  BY <2>1, <2>2 DEF ActiveIn, RowAt
<1>7. ActiveIn(R2) = {<<k, n>>} \cup {a \in ActiveIn(R) : a[1] # k}  BY <1>4, <1>5, <1>6
<1>8. \A j \in Keys : j # k => SameKey(R, R2, j)  BY DEF Replaced, SameKey
<1> QED  BY <1>7, <1>8

LEMMA DeployedHistory ==
    ASSUME TypeInv, NEW c \in Clients, req[c].key \in Keys, NEW v \in Nat, <<req[c].key, v>> \in history.approved,
           req[c].sched # 0 => req[c].sched \in 1..MaxSchedules,
           history' = [history EXCEPT !.raced = Note(c),
                          !.crossed = @ \/ req[c].op = "deploy" \/ req[c].stale \/ <<req[c].key, v>> \in history.enforced,
                          !.enforced = @ \cup {<<req[c].key, v>>}, !.performed = Performed(c)]
    PROVE  /\ history' \in HistoryType /\ HistoryGrows(history, history')
           /\ history'.enforced = history.enforced \cup {<<req[c].key, v>>} /\ history'.approved = history.approved
           /\ history'.enforced \subseteq history'.approved
           /\ history'.contested = history.contested
           /\ ~history'.crossed =>
                 ~history.crossed /\ req[c].op # "deploy" /\ ~req[c].stale /\ <<req[c].key, v>> \notin history.enforced
           /\ req[c].sched = 0 => history'.performed = history.performed
           /\ req[c].sched # 0 => history'.performed = [history.performed EXCEPT ![req[c].sched] = @ + 1]
<1> DEFINE raced == Note(c)
           crossed == history.crossed \/ req[c].op = "deploy" \/ req[c].stale \/ <<req[c].key, v>> \in history.enforced
           enforced == history.enforced \cup {<<req[c].key, v>>}
           performed == Performed(c)
<1>1. history \in HistoryType /\ history.enforced \subseteq history.approved  BY DEF TypeInv
<1>2. raced \in SUBSET Keys /\ history.raced \subseteq raced  BY <1>1 DEF HistoryType, Note
<1>3. crossed \in BOOLEAN
  <2>1. history.crossed \in BOOLEAN /\ req[c] \in RequestType  BY <1>1 DEF HistoryType, TypeInv
  <2>2. req[c].stale \in BOOLEAN  BY <2>1 DEF RequestType
  <2> QED  BY <2>1, <2>2
<1>4. /\ history.crossed => crossed
      /\ ~crossed =>
            ~history.crossed /\ req[c].op # "deploy" /\ ~req[c].stale /\ <<req[c].key, v>> \notin history.enforced
      OBVIOUS
<1>5. enforced \in SUBSET Version /\ enforced \subseteq history.approved /\ history.enforced \subseteq enforced
      BY <1>1 DEF HistoryType, Version
<1>6. /\ performed \in [1..MaxSchedules -> Nat]
      /\ req[c].sched = 0 => performed = history.performed
      /\ req[c].sched # 0 => performed = [history.performed EXCEPT ![req[c].sched] = @ + 1]
  <2>1. history.performed \in [1..MaxSchedules -> Nat]  BY <1>1 DEF HistoryType
  <2>2. performed = IF req[c].sched = 0 THEN history.performed
                    ELSE [history.performed EXCEPT ![req[c].sched] = @ + 1]
        BY DEF Performed, Perform
  <2>3. req[c].sched # 0 => [history.performed EXCEPT ![req[c].sched] = @ + 1] \in [1..MaxSchedules -> Nat]
        BY <2>1, Bumped
  <2> HIDE DEF performed
  <2> QED  BY <2>1, <2>2, <2>3
<1>7. history' = [history EXCEPT !.raced = raced, !.crossed = crossed, !.enforced = enforced, !.performed = performed]
      OBVIOUS
<1> HIDE DEF raced, crossed, enforced, performed
<1>8. /\ history'.raced = raced /\ history'.approved = history.approved /\ history'.performed = performed
      /\ history'.enforced = enforced /\ history'.contested = history.contested
      /\ history' \in HistoryType
      BY <1>1, <1>2, <1>3, <1>5, <1>6, <1>7 DEF HistoryType
<1>9. history'.crossed = crossed  BY <1>1, <1>7 DEF HistoryType
<1>10. HistoryGrows(history, history')
  <2>1. history.crossed => history'.crossed  BY <1>4, <1>9
  <2> QED  BY <1>2, <1>5, <1>8, <2>1 DEF HistoryGrows
<1> QED  BY <1>4, <1>5, <1>6, <1>8, <1>9, <1>10 DEF enforced

LEMMA DeployKeeps ==
    ASSUME GInv, NEW c \in Clients, deploy_policy(c)
    PROVE  GInv'
<1> DEFINE r == req[c]
           k == r.key
           n == Len(rows[k])
           bundle == BundleWith(k)
<1>1. r.step = "deploy" /\ schedules' = schedules  BY DEF deploy_policy
<1>2. /\ TypeInv /\ req \in [Clients -> RequestType] /\ r \in RequestType /\ rows \in TableType
      /\ schedules \in Seq(ScheduleType) /\ Len(schedules) \in Nat /\ history \in HistoryType
      /\ Shape(r, rows, Len(schedules)) /\ Knows(r, rows, history)
      BY Holder
<1>3. k \in Keys /\ k # None /\ r.ver \in DOMAIN rows[k]  BY <1>1, Holder
<1>4. r.sched # 0 => r.sched \in DOMAIN schedules /\ r.sched \in 1..MaxSchedules  BY Holder
<1>5. CASE MayDeploy(k)
  <2> DEFINE next == IF r.op = "deploy" THEN Idle ELSE [r EXCEPT !.step = "stamp"]
  <2>1. /\ rows' = [rows EXCEPT ![k] = Deployed(rows[k], n)] /\ req' = Touch(c, k, next)
        /\ opa' = bundle
        /\ history' = [history EXCEPT !.raced = Note(c),
                          !.crossed = @ \/ req[c].op = "deploy" \/ req[c].stale \/ <<req[c].key, n>> \in history.enforced,
                          !.enforced = @ \cup {<<req[c].key, n>>}, !.performed = Performed(c)]
        BY <1>5 DEF deploy_policy, Deployed, Live, Superseded
  <2>2. /\ n \in DOMAIN rows[k] /\ n \in Nat /\ rows[k][n] \in RowType /\ Latest(k) = rows[k][n]
        /\ LastOf(rows[k]) = rows[k][n]
        BY <1>2, <1>3, LatestIs
  <2>3. bundle = {<<k, n>>} \cup {a \in ActiveIn(rows) : a[1] # k} /\ OpaIn(bundle, rows)
        BY <1>2, <1>3, BundleIs
  <2>4. rows[k][n].status = "compiled" /\ rows[k][n].hash = bundle /\ uploads(AsBundle(bundle))
    <3>1. Latest(k).status \in AllowedFrom("deploy")  BY <1>5 DEF MayDeploy, Permitted
    <3> QED  BY <1>5, <2>2, <3>1, Allowed DEF MayDeploy
  <2>5. RowOk(k, n, rows[k][n], history)  BY <1>3, <2>2 DEF GInv, PoliciesInv, RowsOk
  <2>6. <<k, n>> \in history.approved  BY <2>4, <2>5 DEF RowOk
  <2>7. /\ history' \in HistoryType /\ HistoryGrows(history, history')
        /\ history'.enforced = history.enforced \cup {<<k, n>>}
        /\ history'.enforced \subseteq history'.approved
        /\ history'.contested = history.contested
        /\ ~history'.crossed =>
              ~history.crossed /\ r.op # "deploy" /\ ~r.stale /\ <<k, n>> \notin history.enforced
        /\ r.sched = 0 => history'.performed = history.performed
        /\ r.sched # 0 => history'.performed = [history.performed EXCEPT ![r.sched] = @ + 1]
        BY <1>2, <1>3, <1>4, <2>1, <2>2, <2>6, DeployedHistory
  <2>8. Replaced(rows, rows', k)  BY <1>2, <1>3, <2>1, Replacing
  <2>9. ActiveIn(rows') = bundle /\ \A j \in Keys : j # k => SameKey(rows, rows', j)
        BY <1>2, <1>3, <2>2, <2>3, <2>8, ReplacedFacts
  <2> HIDE DEF bundle
  <2>10. /\ Kept(rows, rows') /\ rows' \in TableType
         /\ \A j \in Keys : Len(rows'[j]) = Len(rows[j]) /\ DOMAIN rows'[j] = DOMAIN rows[j]
         BY <2>8 DEF Replaced
  <2>11. \A j \in Keys : Len(rows'[j]) <= MaxVersion  BY <1>2, <2>10 DEF TypeInv
  <2>12. RowsOk(rows', history')
    <3>1. SUFFICES ASSUME NEW j \in Keys, NEW v \in DOMAIN rows[j]  PROVE RowOk(j, v, rows'[j][v], history')
          BY <2>10 DEF RowsOk
    <3>2. RowOk(j, v, rows[j][v], history)  BY DEF GInv, PoliciesInv, RowsOk
    <3>3. RowOk(j, v, rows[j][v], history')  BY <2>7, <3>2, RowStays
    <3>4. rows[j][v] \in RowType  BY <1>2 DEF TableType
    <3>5. CASE j # k  BY <2>8, <3>3, <3>5 DEF Replaced
    <3>6. CASE j = k /\ v = n
      <4>1. rows'[j][v] = Live(rows[j][v])  BY <2>2, <2>8, <3>6 DEF Replaced
      <4>2. <<k, n>> \in history'.approved /\ <<k, n>> \in history'.enforced  BY <2>6, <2>7 DEF HistoryGrows
      <4> DEFINE new == Live(rows[j][v])
      <4>3. /\ new.hash = rows[j][v].hash /\ new.labels = rows[j][v].labels
            /\ new.activated = rows[j][v].activated /\ new.rollbackOf = rows[j][v].rollbackOf
            BY <3>4, DeployedFields
      <4> HIDE DEF new
      <4>4. RowOk(j, v, new, history')  BY <3>3, <3>6, <4>2, <4>3 DEF RowOk
      <4> QED  BY <4>1, <4>4 DEF new
    <3>7. CASE j = k /\ v # n
      <4>1. rows'[j][v] = Superseded(rows[j][v])  BY <2>8, <3>7 DEF Replaced
      <4> DEFINE new == Superseded(rows[j][v])
      <4>2. /\ new.hash = rows[j][v].hash /\ new.labels = rows[j][v].labels
            /\ new.activated = rows[j][v].activated /\ new.rollbackOf = rows[j][v].rollbackOf
            /\ new.status \in {rows[j][v].status, "retired"}
            BY <3>4, DeployedFields
      <4> HIDE DEF new
      <4>3. RowOk(j, v, new, history')  BY <3>3, <4>2 DEF RowOk
      <4> QED  BY <4>1, <4>3 DEF new
    <3> QED  BY <3>5, <3>6, <3>7
  <2>13. \A a \in bundle : a[1] \in Keys /\ a[2] \in DOMAIN rows[a[1]]  BY <2>3 DEF OpaIn, Version
  <2>14. Together(rows')
    <3>1. \A a \in bundle : RowAt(rows', a).content = RowAt(rows, a).content  BY <2>10, <2>13 DEF Kept, RowAt
    <3>2. [a \in ActiveIn(rows') |-> RowAt(rows', a).content] = [a \in bundle |-> RowAt(rows, a).content]
          BY <2>9, <3>1
    <3>3. AsBundle(bundle) = [a \in bundle |-> RowAt(rows, a).content]  BY <1>2, ActiveIs
    <3> QED  BY <2>4, <3>2, <3>3 DEF Together
  <2>15. ~history'.crossed => Acyclic(rows')
    <3>1. SUFFICES ASSUME ~history'.crossed  PROVE Acyclic(rows')
          OBVIOUS
    <3>2. r.op = "activate" /\ ~r.stale /\ ~history.crossed  BY <1>1, <1>2, <2>7, <3>1 DEF Shape
    <3>3. ~Circular(Delegations({LastOf(rows[k]).content} \cup ContentsIn(rows, Others(r))))
          BY <1>1, <1>2, <3>2 DEF Knows
    <3>4. \A a \in LastOf(rows[k]).hash : a[1] # k /\ a \in ActiveIn(rows) => a \in r.seen
          BY <1>1, <1>2, <3>2 DEF Knows
    <3>5. \A a \in bundle : a = <<k, n>> \/ (a \in Others(r) /\ a \in ActiveIn(rows))
      <4>1. \A a \in bundle : a = <<k, n>> \/ (a[1] # k /\ a \in ActiveIn(rows))  BY <2>3
      <4>2. LastOf(rows[k]).hash = bundle  BY <2>2, <2>4
      <4> QED  BY <3>4, <4>1, <4>2 DEF Others
    <3>6. RowAt(rows, <<k, n>>).content = LastOf(rows[k]).content  BY <2>2 DEF RowAt
    <3>7. \A a \in bundle : RowAt(rows', a).content = RowAt(rows, a).content  BY <2>10, <2>13 DEF Kept, RowAt
    <3>8. ContentsIn(rows', ActiveIn(rows')) \subseteq {LastOf(rows[k]).content} \cup ContentsIn(rows, Others(r))
      <4>1. ContentsIn(rows', ActiveIn(rows')) = {RowAt(rows, a).content : a \in bundle}
            BY <2>9, <3>7 DEF ContentsIn
      <4>2. ASSUME NEW a \in bundle
            PROVE  RowAt(rows, a).content \in {LastOf(rows[k]).content} \cup ContentsIn(rows, Others(r))
        <5>1. CASE a = <<k, n>>  BY <3>6, <5>1
        <5>2. CASE a \in Others(r)  BY <5>2 DEF ContentsIn
        <5> QED  BY <3>5, <5>1, <5>2
      <4> QED  BY <4>1, <4>2
    <3> QED  BY <3>3, <3>8, AcyclicPart DEF Acyclic
  <2>16. PoliciesInv'  BY <2>12, <2>14, <2>15 DEF PoliciesInv
  <2>17. /\ next \in RequestType /\ Shape(next, rows', Len(schedules)) /\ Knows(next, rows', history')
         /\ next.sched = r.sched /\ next.due \subseteq r.due
         /\ r.sched # 0 => next.due = r.due /\ Done(next)
    <3>1. CASE r.op = "deploy"
      <4>1. r.sched = 0  BY <1>2, <3>1 DEF Shape
      <4>2. next = Idle  BY <3>1
      <4> HIDE DEF next
      <4> QED  BY <1>2, <4>1, <4>2, IdleFine
    <3>2. CASE r.op # "deploy"
      <4>0. "stamp" \in Steps  BY DEF Steps
      <4>1. r.op = "activate"  BY <1>1, <1>2, <3>2 DEF Shape
      <4>2. /\ next \in RequestType /\ next.step = "stamp"
            /\ next.op = r.op /\ next.key = r.key /\ next.ver = r.ver /\ next.arg = r.arg /\ next.seen = r.seen
            /\ next.stale = r.stale /\ next.sched = r.sched /\ next.due = r.due /\ next.ok = r.ok
            BY <1>2, <3>2, <4>0, StepTo
      <4> HIDE DEF next
      <4>3. SameRequest(r, r)  BY <1>2 DEF SameRequest
      <4>4. Shape(r, rows', Len(schedules))  BY <1>2, <2>10, <4>3, ShapeKept
      <4>5. Shape(next, rows', Len(schedules))  BY <1>3, <4>0, <4>1, <4>2, <4>4 DEF Shape
      <4>6. <<k, Len(rows'[k])>> \in history'.enforced  BY <1>3, <2>7, <2>10
      <4>7. Knows(next, rows', history')  BY <4>1, <4>2, <4>6 DEF Knows
      <4> QED  BY <4>2, <4>5, <4>7 DEF Done
    <3> QED  BY <3>1, <3>2
  <2> HIDE DEF next
  <2>18. Touched(req, req', c, k, next)  BY <1>2, <2>1, <2>17, TouchDoes
  <2>19. Changed(c, next)  BY <2>9, <2>18, ByTouch
  <2>20. TypeInv'
    <3>1. OpaIn(opa', rows)  BY <2>1, <2>3
    <3> QED  BY <1>1, <1>2, <2>7, <2>10, <2>11, <2>19, <3>1, TypesWithOpa DEF Changed
  <2>21. RequestsInv'
    <3>1. NoneReturns(rows, rows', history, history')
      <4>1. \A a \in ActiveIn(rows') : a = <<k, n>> \/ a \in ActiveIn(rows)  BY <2>3, <2>9
      <4> QED  BY <2>7, <4>1 DEF NoneReturns
    <3>2. Len(schedules) <= Len(schedules')  BY <1>1, <1>2
    <3>3. \A d \in Clients : d # c =>
             /\ Aside(req[d], req'[d])
             /\ req[d].key \in Keys => req'[d].stale \/ SameKey(rows, rows', req[d].key)
          BY <2>19 DEF Changed, Follower
    <3>4. req'[c] = next  BY <2>19 DEF Changed
    <3>5. Shape(req'[c], rows', Len(schedules')) /\ Knows(req'[c], rows', history')  BY <1>1, <2>17, <3>4
    <3> QED  BY <2>7, <2>10, <2>20, <3>1, <3>2, <3>3, <3>5, Assemble
  <2>22. SchedulesOk(req', schedules', history')
    <3>1. CASE r.sched = 0
      <4>1. SamePlace(r, next)  BY <2>17, <3>1 DEF SamePlace
      <4> QED  BY <1>1, <2>7, <2>19, <3>1, <4>1, StaysPut
    <3>2. CASE r.sched # 0
      <4>1. SchedulesOk(req, schedules, history)  BY DEF GInv
      <4>2. \A d \in Clients : d # c => SamePlace(req[d], req'[d])  BY <1>2, <2>18, OthersPlace
      <4>3. req'[c] = next  BY <2>19 DEF Changed
      <4>4. ~Done(r)  BY <1>1 DEF Done
      <4>5. history.performed \in [1..MaxSchedules -> Nat]  BY <1>2 DEF HistoryType
      <4>6. SchedulesOk(req', schedules, history')
            BY <1>2, <1>4, <2>7, <2>17, <3>2, <4>1, <4>2, <4>3, <4>4, <4>5, PerformedSchedules
      <4> QED  BY <1>1, <4>6
    <3> QED  BY <3>1, <3>2
  <2> QED  BY <2>16, <2>20, <2>21, <2>22 DEF GInv
<1>6. CASE ~MayDeploy(k)
  <2>1. rows' = rows /\ history' = history /\ opa' = opa /\ req' = [req EXCEPT ![c] = Ended(r, FALSE)]
        BY <1>6 DEF deploy_policy, End, Ended
  <2>2. ~Done(r)  BY <1>1 DEF Done
  <2>3. OpaIn(opa', rows)  BY <2>1, OpaSame
  <2> QED  BY <1>1, <2>1, <2>2, <2>3, EndsHere
<1> QED  BY <1>5, <1>6

-----------------------------------------------------------------------------
(* The ends of activate_policy and retire_policy.                          *)

LEMMA StampedFields ==
    ASSUME NEW row \in RowType, NEW x, x = [row EXCEPT !.activated = TRUE]
    PROVE  /\ x \in RowType /\ x.activated
           /\ x.status = row.status /\ x.hash = row.hash /\ x.content = row.content /\ x.labels = row.labels
           /\ x.rollbackOf = row.rollbackOf
BY DEF RowType

LEMMA StampKeeps ==
    ASSUME GInv, NEW c \in Clients, StampActivation(c)
    PROVE  GInv'
<1> DEFINE r == req[c]
           k == r.key
           n == Len(rows[k])
           new == [rows[k][n] EXCEPT !.activated = TRUE]
           next == Ended(r, TRUE)
<1>1. r.step = "stamp" /\ schedules' = schedules /\ opa' = opa
      /\ rows' = [rows EXCEPT ![k][n] = new] /\ req' = Touch(c, k, next)
      /\ history' = [history EXCEPT !.raced = Note(c)]
      BY DEF StampActivation, End, Ended
<1>2. /\ TypeInv /\ req \in [Clients -> RequestType] /\ r \in RequestType /\ rows \in TableType
      /\ schedules \in Seq(ScheduleType) /\ Len(schedules) \in Nat /\ history \in HistoryType
      /\ Shape(r, rows, Len(schedules)) /\ Knows(r, rows, history)
      BY Holder
<1>3. k \in Keys /\ k # None /\ r.ver \in DOMAIN rows[k]  BY <1>1, Holder
<1>4. /\ history' \in HistoryType /\ HistoryGrows(history, history')
      /\ history'.enforced = history.enforced /\ history'.enforced \subseteq history'.approved
      /\ history'.performed = history.performed
      /\ r.stale => k \in history'.raced
      BY <1>1, <1>2, <1>3, RacedHistory
<1>5. /\ n \in DOMAIN rows[k] /\ n \in Nat /\ rows[k][n] \in RowType  BY <1>2, <1>3, LatestIs
<1>6. OpaIn(opa', rows)  BY <1>1, OpaSame
<1>7. /\ new \in RowType /\ new.content = rows[k][n].content /\ new.rollbackOf = rows[k][n].rollbackOf
      /\ new.status = rows[k][n].status /\ new.hash = rows[k][n].hash /\ new.labels = rows[k][n].labels
      BY <1>5, StampedFields
<1> HIDE DEF new
<1>8. Wrote(rows, rows', k, n, new)  BY <1>1, <1>2, <1>3, <1>5, <1>7, Updated
<1>9. RowOk(k, n, new, history')
  <2>1. RowOk(k, n, rows[k][n], history)  BY <1>3, <1>5 DEF GInv, PoliciesInv, RowsOk
  <2>2. RowOk(k, n, rows[k][n], history')  BY <1>3, <1>4, <2>1, RowStays
  <2>3. k \notin history'.raced => <<k, n>> \in history'.enforced  BY <1>1, <1>2, <1>4 DEF Knows
  <2> QED  BY <1>7, <2>2, <2>3 DEF RowOk
<1>10. RowsOk(rows', history')
  <2>1. RowsOk(rows, history)  BY DEF GInv, PoliciesInv
  <2> QED  BY <1>2, <1>3, <1>4, <1>5, <1>8, <1>9, <2>1, RowsOkUpdated
<1>11. ActiveIn(rows') \subseteq ActiveIn(rows) /\ \A j \in Keys : j # k => SameKey(rows, rows', j)
  <2>1. new.status = "active" => rows[k][n].status = "active"  BY <1>7
  <2> QED  BY <1>2, <1>3, <1>5, <1>8, <2>1, WroteFacts
<1>12. Kept(rows, rows') /\ rows' \in TableType /\ \A j \in Keys : Len(rows'[j]) = Len(rows[j])  BY <1>8 DEF Wrote
<1>13. \A j \in Keys : Len(rows'[j]) <= MaxVersion  BY <1>2, <1>12 DEF TypeInv
<1>14. next \in RequestType /\ Shape(next, rows', Len(schedules)) /\ Knows(next, rows', history') /\ SamePlace(r, next)
  <2>1. SameRequest(r, r)  BY <1>2 DEF SameRequest
  <2>2. Shape(r, rows', Len(schedules))  BY <1>2, <1>12, <2>1, ShapeKept
  <2>3. Done(r)  BY <1>1 DEF Done
  <2> QED  BY <1>2, <1>3, <2>2, <2>3, EndedFields, EndedFine, EndedPlace
<1> HIDE DEF next
<1>15. Touched(req, req', c, k, next)  BY <1>1, <1>2, <1>14, TouchDoes
<1>16. Changed(c, next)  BY <1>11, <1>15, ByTouch
<1>17. SchedulesOk(req', schedules', history')  BY <1>1, <1>4, <1>14, <1>16, StaysPut
<1> QED  BY <1>1, <1>4, <1>6, <1>10, <1>11, <1>12, <1>13, <1>14, <1>16, <1>17, OneRequest

LEMMA ReconcileKeeps ==
    ASSUME GInv, NEW c \in Clients, ReconcileOpa(c)
    PROVE  GInv'
<1>1. req[c].step = "reconcile" /\ rows' = rows /\ schedules' = schedules /\ history' = history
      BY DEF ReconcileOpa
<1>2. rows \in TableType /\ Together(rows)  BY DEF GInv, TypeInv, PoliciesInv
<1>3. /\ AsBundle(Active) = [a \in ActiveIn(rows) |-> RowAt(rows, a).content]
      /\ OpaIn(Active, rows)
      BY <1>2, ActiveIs DEF OpaIn
<1>4. uploads(AsBundle(Active))  BY <1>2, <1>3 DEF Together
<1>5. opa' = Active /\ req' = [req EXCEPT ![c] = Ended(req[c], TRUE)]
  <2>1. opa' = Active  BY <1>4 DEF ReconcileOpa
  <2>2. req' = [req EXCEPT ![c] = End(c, uploads(AsBundle(Active)))]  BY DEF ReconcileOpa
  <2> DEFINE b == uploads(AsBundle(Active))
  <2>3. b = TRUE
    <3>1. b \in BOOLEAN  BY DEF uploads
    <3> QED  BY <1>4, <3>1
  <2>4. req' = [req EXCEPT ![c] = End(c, TRUE)]  BY <2>2, <2>3
  <2> QED  BY <2>1, <2>4 DEF End, Ended
<1>6. OpaIn(opa', rows)  BY <1>3, <1>5
<1>7. Done(req[c])  BY <1>1 DEF Done
<1> QED  BY <1>1, <1>5, <1>6, <1>7, EndsHere

-----------------------------------------------------------------------------
(* Failures                                                                *)

LEMMA ContestedHistory ==
    ASSUME GInv, NEW i \in Nat, history' = [history EXCEPT !.contested = @ \cup {i}]
    PROVE  /\ history' \in HistoryType /\ HistoryGrows(history, history') /\ history'.enforced \subseteq history'.approved
           /\ history'.performed = history.performed /\ history'.contested = history.contested \cup {i}
<1> DEFINE contested == history.contested \cup {i}
<1>1. history \in HistoryType /\ history.enforced \subseteq history.approved  BY DEF GInv, TypeInv
<1>2. contested \in SUBSET Nat /\ history.contested \subseteq contested /\ i \in contested  BY <1>1 DEF HistoryType
<1>3. history' = [history EXCEPT !.contested = contested]  OBVIOUS
<1> HIDE DEF contested
<1>4. /\ history'.raced = history.raced /\ history'.approved = history.approved
      /\ history'.performed = history.performed /\ history'.enforced = history.enforced
      /\ history'.crossed = history.crossed /\ history'.contested = contested /\ history' \in HistoryType
      BY <1>1, <1>2, <1>3 DEF HistoryType
<1> QED  BY <1>1, <1>2, <1>4 DEF HistoryGrows, contested

\* A request goes on and leaves its schedule contested.
LEMMA GivesUp ==
    ASSUME GInv, NEW c \in Clients, NEW next, Changed(c, next),
           HistoryGrows(history, history'), history'.performed = history.performed, schedules' = schedules,
           req[c].sched \in history'.contested, next.sched = 0 \/ next.sched = req[c].sched,
           next.due \subseteq req[c].due, next.sched # 0 => (Done(next) => Done(req[c]))
    PROVE  SchedulesOk(req', schedules', history')
<1>1. SchedulesOk(req, schedules, history) /\ schedules \in Seq(ScheduleType) /\ \A d \in Clients : req[d] \in RequestType
      BY DEF GInv, TypeInv
<1>2. ASSUME NEW d \in Clients, d # c  PROVE SamePlace(req[d], req'[d])
  <2>1. Aside(req[d], req'[d])  BY <1>2 DEF Changed, Follower
  <2> QED  BY <1>1, <2>1, AsidePlace
<1>3. req'[c] = next /\ history.contested \subseteq history'.contested  BY DEF Changed, HistoryGrows
<1>4. SchedulesOk(req', schedules, history')  BY <1>1, <1>2, <1>3, ContestedSchedules
<1> QED  BY <1>4

LEMMA FailKeeps ==
    ASSUME GInv, NEW c \in Clients, Fail(c)
    PROVE  GInv'
<1> DEFINE r == req[c]
<1>1. /\ r.step \in {"deploy", "reconcile"} /\ rows' = rows /\ schedules' = schedules /\ opa' = opa
      /\ req' = [req EXCEPT ![c] = Ended(r, FALSE)]
      BY DEF Fail, End, Ended
<1>2. OpaIn(opa', rows)  BY <1>1, OpaSame
<1>3. CASE r.step = "deploy"
  <2>1. history' = history  BY <1>3 DEF Fail
  <2>2. ~Done(r)  BY <1>3 DEF Done
  <2> QED  BY <1>1, <1>2, <2>1, <2>2, EndsHere
<1>4. CASE r.step = "reconcile"
  <2> DEFINE next == Ended(r, FALSE)
  <2>1. history' = [history EXCEPT !.contested = @ \cup {r.sched}]  BY <1>4 DEF Fail
  <2>2. r \in RequestType /\ r.key \in Keys /\ Len(schedules) \in Nat /\ Shape(r, rows, Len(schedules))
        BY <1>1, Holder
  <2>3. r.sched \in Nat  BY <2>2 DEF RequestType
  <2>4. /\ history' \in HistoryType /\ HistoryGrows(history, history') /\ history'.enforced \subseteq history'.approved
        /\ history'.performed = history.performed /\ history'.contested = history.contested \cup {r.sched}
        BY <2>1, <2>3, ContestedHistory
  <2>5. next \in RequestType /\ Shape(next, rows, Len(schedules)) /\ Knows(next, rows, history')
        BY <2>2, EndedFields, EndedFine
  <2>6. /\ next.sched = 0 \/ next.sched = r.sched
        /\ next.due \subseteq r.due
        BY <2>2, EndedFields, IdleFine
  <2>7. Done(r)  BY <1>4 DEF Done
  <2> HIDE DEF next
  <2>8. Changed(c, next) => SchedulesOk(req', schedules', history')  BY <1>1, <2>4, <2>6, <2>7, GivesUp
  <2>9. req' = [req EXCEPT ![c] = next]  BY <1>1 DEF next
  <2> QED  BY <1>1, <1>2, <2>4, <2>5, <2>8, <2>9, MovesOn
<1> QED  BY <1>1, <1>3, <1>4

LEMMA CutOffKeeps ==
    ASSUME GInv, NEW c \in Clients, CutOff(c)
    PROVE  GInv'
<1> DEFINE r == req[c]
<1>1. /\ rows' = rows /\ schedules' = schedules /\ opa' = opa /\ req' = [req EXCEPT ![c] = Idle]
      /\ history' = [history EXCEPT !.contested = @ \cup {r.sched}]
      BY DEF CutOff
<1>2. OpaIn(opa', rows)  BY <1>1, OpaSame
<1>3. r \in RequestType /\ Len(schedules) \in Nat  BY Holder
<1>4. r.sched \in Nat  BY <1>3 DEF RequestType
<1>5. /\ history' \in HistoryType /\ HistoryGrows(history, history') /\ history'.enforced \subseteq history'.approved
      /\ history'.performed = history.performed /\ history'.contested = history.contested \cup {r.sched}
      BY <1>1, <1>4, ContestedHistory
<1>6. /\ Idle \in RequestType /\ Shape(Idle, rows, Len(schedules)) /\ Knows(Idle, rows, history')
      /\ Idle.sched = 0 /\ Idle.due \subseteq r.due
      BY <1>3, IdleFine
<1>7. Changed(c, Idle) => SchedulesOk(req', schedules', history')  BY <1>1, <1>5, <1>6, GivesUp
<1> QED  BY <1>1, <1>2, <1>5, <1>6, <1>7, MovesOn

-----------------------------------------------------------------------------
(* Schedules                                                               *)

\* A request holds nothing more.
LEMMA Rests ==
    ASSUME GInv, NEW c \in Clients, NEW next \in RequestType, req' = [req EXCEPT ![c] = next],
           req[c].step \in {"idle", "cancel", "next"}, next.sched = 0, next.due \subseteq req[c].due,
           rows' = rows, schedules' = schedules, opa' = opa, history' = history,
           Shape(next, rows, Len(schedules)), Knows(next, rows, history)
    PROVE  GInv'
<1>1. OpaIn(opa', rows)  BY OpaSame
<1>2. /\ history' \in HistoryType /\ HistoryGrows(history, history') /\ history'.enforced \subseteq history'.approved
      /\ history'.performed = history.performed
      BY HistorySame
<1>3. Shape(req[c], rows, Len(schedules))  BY Holder
<1>4. req[c].sched = 0  BY <1>3 DEF Shape
<1>5. SamePlace(req[c], next)  BY <1>4 DEF SamePlace
<1>6. Changed(c, next) => SchedulesOk(req', schedules', history')  BY <1>2, <1>5, StaysPut
<1> QED  BY <1>1, <1>2, <1>6, MovesOn

LEMMA SweepDoneKeeps ==
    ASSUME GInv, NEW c \in Clients, SweepDone(c)
    PROVE  GInv'
<1>1. Len(schedules) \in Nat  BY Holder
<1>2. /\ Idle \in RequestType /\ Shape(Idle, rows, Len(schedules)) /\ Knows(Idle, rows, history)
      /\ Idle.sched = 0 /\ Idle.due \subseteq req[c].due
      BY <1>1, IdleFine
<1>3. /\ req[c].step = "next" /\ req' = [req EXCEPT ![c] = Idle] /\ rows' = rows /\ schedules' = schedules
      /\ opa' = opa /\ history' = history
      BY DEF SweepDone
<1> QED  BY <1>2, <1>3, Rests

Cancelling(i) == [Idle EXCEPT !.op = "cancel", !.step = "cancel", !.arg = i]

LEMMA CancellingFields ==
    ASSUME NEW i \in Nat
    PROVE  /\ Cancelling(i) \in RequestType
           /\ Cancelling(i).op = "cancel" /\ Cancelling(i).step = "cancel" /\ Cancelling(i).arg = i
           /\ Cancelling(i).key = None /\ Cancelling(i).sched = 0 /\ Cancelling(i).due = {}
           /\ Cancelling(i).seen = {}
<1>1. Idle \in RequestType  BY IdleFine
<1>2. Idle.key = None /\ Idle.sched = 0 /\ Idle.due = {} /\ Idle.seen = {}  BY DEF Idle
<1> HIDE DEF Idle
<1> QED  BY <1>1, <1>2 DEF Cancelling, RequestType, Steps

LEMMA BeginCancelKeeps ==
    ASSUME GInv, NEW c \in Clients, NEW i \in DOMAIN schedules, BeginCancel(c, i)
    PROVE  GInv'
<1> DEFINE next == Cancelling(i)
<1>1. schedules \in Seq(ScheduleType) /\ Len(schedules) \in Nat  BY Holder
<1>2. i \in 1..Len(schedules) /\ i \in Nat  BY <1>1
<1>3. /\ next \in RequestType /\ next.op = "cancel" /\ next.step = "cancel" /\ next.arg = i
      /\ next.key = None /\ next.sched = 0 /\ next.due = {} /\ next.seen = {}
      BY <1>2, CancellingFields
<1>4. /\ req[c].step = "idle" /\ req' = [req EXCEPT ![c] = next] /\ rows' = rows /\ schedules' = schedules
      /\ opa' = opa /\ history' = history
      BY DEF BeginCancel, Cancelling
<1> HIDE DEF next
<1>5. Shape(next, rows, Len(schedules))  BY <1>1, <1>2, <1>3 DEF Shape, Steps
<1>6. Knows(next, rows, history)  BY <1>3 DEF Knows
<1> QED  BY <1>3, <1>4, <1>5, <1>6, Rests

\* Schedule i becomes x.
Rewritten(s, s2, i, x) ==
    /\ s2 \in Seq(ScheduleType) /\ Len(s2) = Len(s) /\ DOMAIN s2 = DOMAIN s /\ s2[i] = x
    /\ \A j \in DOMAIN s : j # i => s2[j] = s[j]

Alone(Q, c, i) == \A d \in Clients : d # c => ~Holds(Q[d], i)

\* Request c writes the status of schedule i.
LEMMA StatusWritten ==
    ASSUME NEW Q, NEW Q2, NEW s, s \in Seq(ScheduleType), NEW s2, NEW i \in DOMAIN s, NEW x,
           Rewritten(s, s2, i, x), x.status \in {"executed", "failed", "cancelled"},
           NEW h, NEW h2, SchedulesOk(Q, s, h), h2.performed = h.performed, h.contested \subseteq h2.contested,
           NEW c \in Clients, NEW next, Moved(Q, Q2, c, next),
           i \in h2.contested \/ (s[i].status = "pending" /\ Alone(Q, c, i)),
           next.sched = 0, next.due \subseteq Q[c].due, i \notin next.due, Q[c].sched \in {0, i},
           x.status = "executed" <=> Q[c].sched = i /\ Done(Q[c])
    PROVE  SchedulesOk(Q2, s2, h2)
<1>a. /\ DOMAIN s2 = DOMAIN s /\ Len(s2) = Len(s) /\ s2[i].status = x.status
      /\ \A j \in DOMAIN s : j # i => s2[j].status = s[j].status
      BY DEF Rewritten
<1>b. /\ \A d \in Clients : d # c => Q2[d] = Q[d]
      /\ Q2[c].sched = 0 /\ Q2[c].due \subseteq Q[c].due /\ i \notin Q2[c].due
      BY DEF Moved
<1>c. i \notin h2.contested => s[i].status = "pending" /\ \A d \in Clients : d # c => ~Holds(Q[d], i)
      BY DEF Alone
<1> USE <1>a, <1>b, <1>c
<1>0. \A j \in DOMAIN s : j # 0  OBVIOUS
<1>1. \A j \in DOMAIN s2 : s2[j].status = "executed" => h2.performed[j] >= 1
  <2>1. SUFFICES ASSUME NEW j \in DOMAIN s, s2[j].status = "executed"  PROVE h.performed[j] >= 1
        OBVIOUS
  <2>2. CASE j = i
    <3>1. Q[c].sched = i /\ Done(Q[c]) /\ i # 0  BY <1>0, <2>1, <2>2
    <3>2. h.performed[Q[c].sched] >= 1  BY <3>1 DEF SchedulesOk
    <3> QED  BY <2>2, <3>1, <3>2
  <2>3. CASE j # i  BY <2>1, <2>3 DEF SchedulesOk
  <2> QED  BY <2>2, <2>3
<1>2. \A d \in Clients : Q2[d].sched # 0 /\ Done(Q2[d]) => h2.performed[Q2[d].sched] >= 1
  <2>1. SUFFICES ASSUME NEW d \in Clients, Q2[d].sched # 0, Done(Q2[d])  PROVE h.performed[Q2[d].sched] >= 1
        OBVIOUS
  <2>2. d # c /\ Q2[d] = Q[d]  BY <2>1
  <2> QED  BY <2>1, <2>2 DEF SchedulesOk
<1>3. \A j \in 1..MaxSchedules : j > Len(s2) => h2.performed[j] = 0  BY DEF SchedulesOk
<1>4. ASSUME NEW j \in DOMAIN s2, j \notin h2.contested
      PROVE  /\ s2[j].status # "pending" => \A d \in Clients : ~Holds(Q2[d], j)
             /\ (\A d \in Clients : Q2[d].sched # j) =>
                   h2.performed[j] = IF s2[j].status = "executed" THEN 1 ELSE 0
             /\ \A d \in Clients : Q2[d].sched = j /\ (\A e \in Clients : e # d => Q2[e].sched # j) =>
                   h2.performed[j] = IF Done(Q2[d]) THEN 1 ELSE 0
  <2>1. j \in DOMAIN s /\ j \notin h.contested /\ j # 0  BY <1>0, <1>4
  <2>2. CASE j = i
    <3>1. s[i].status = "pending" /\ \A d \in Clients : d # c => ~Holds(Q[d], i)  BY <1>4, <2>2
    <3>2. \A d \in Clients : ~Holds(Q2[d], i)  BY <2>1, <2>2, <3>1 DEF Holds
    <3>3. \A d \in Clients : Q2[d].sched # i  BY <3>2 DEF Holds
    <3>4. \A d \in Clients : d # c => Q[d].sched # i  BY <3>1 DEF Holds
    <3>5. h.performed[i] = IF s2[i].status = "executed" THEN 1 ELSE 0
      <4>1. CASE Q[c].sched = i
        <5>1. h.performed[i] = IF Done(Q[c]) THEN 1 ELSE 0  BY <2>1, <2>2, <3>4, <4>1 DEF SchedulesOk
        <5> QED  BY <4>1, <5>1
      <4>2. CASE Q[c].sched # i
        <5>1. h.performed[i] = IF s[i].status = "executed" THEN 1 ELSE 0  BY <2>1, <2>2, <3>4, <4>2 DEF SchedulesOk
        <5> QED  BY <3>1, <4>2, <5>1
      <4> QED  BY <4>1, <4>2
    <3> QED  BY <2>2, <3>2, <3>3, <3>5
  <2>3. CASE j # i
    <3>1. s2[j].status = s[j].status  BY <2>1, <2>3
    <3>2. \A d \in Clients : Q2[d].sched = j <=> Q[d].sched = j  BY <2>1, <2>3
    <3>3. \A d \in Clients : Holds(Q2[d], j) => Holds(Q[d], j)  BY <2>1 DEF Holds
    <3>4. s[j].status # "pending" => \A d \in Clients : ~Holds(Q[d], j)  BY <2>1 DEF SchedulesOk
    <3>5. (\A d \in Clients : Q2[d].sched # j) => h.performed[j] = IF s[j].status = "executed" THEN 1 ELSE 0
          BY <2>1, <3>2 DEF SchedulesOk
    <3>6. ASSUME NEW d \in Clients, Q2[d].sched = j, \A e \in Clients : e # d => Q2[e].sched # j
          PROVE  h.performed[j] = IF Done(Q2[d]) THEN 1 ELSE 0
      <4>1. d # c /\ Q2[d] = Q[d]  BY <2>1, <3>6
      <4>2. Q[d].sched = j /\ (\A e \in Clients : e # d => Q[e].sched # j)  BY <3>2, <3>6
      <4> QED  BY <2>1, <4>1, <4>2 DEF SchedulesOk
    <3> QED  BY <3>1, <3>3, <3>4, <3>5, <3>6
  <2> QED  BY <2>2, <2>3
<1> QED  BY <1>1, <1>2, <1>3, <1>4 DEF SchedulesOk

LEMMA Rewriting ==
    ASSUME NEW s, s \in Seq(ScheduleType), NEW i \in DOMAIN s, NEW x \in ScheduleType,
           NEW s2, s2 = [s EXCEPT ![i] = x]
    PROVE  Rewritten(s, s2, i, x)
<1>1. s2 \in Seq(ScheduleType) /\ Len(s2) = Len(s) /\ DOMAIN s2 = DOMAIN s /\ s2[i] = x
      BY ElementOfSeq, ExceptSeq
<1>2. \A j \in DOMAIN s : j # i => s2[j] = s[j]  OBVIOUS
<1> QED  BY <1>1, <1>2 DEF Rewritten

OfStatus(x, w) == [x EXCEPT !.status = w]
OfDue(x) == [x EXCEPT !.due = TRUE]

LEMMA ScheduleFields ==
    ASSUME NEW x \in ScheduleType
    PROVE  /\ \A w \in {"pending", "executed", "failed", "cancelled"} :
                /\ OfStatus(x, w) \in ScheduleType /\ OfStatus(x, w).status = w
                /\ OfStatus(x, w).key = x.key /\ OfStatus(x, w).version = x.version
           /\ OfDue(x) \in ScheduleType /\ OfDue(x).status = x.status
           /\ OfDue(x).key = x.key /\ OfDue(x).version = x.version
BY DEF ScheduleType, OfStatus, OfDue

LEMMA TypesWithSchedules ==
    ASSUME TypeInv, rows' = rows, opa' = opa, req' \in [Clients -> RequestType],
           history' \in HistoryType, history'.enforced \subseteq history'.approved,
           schedules' \in Seq(ScheduleType), Len(schedules') <= MaxSchedules,
           \A i \in DOMAIN schedules' : schedules'[i].version \in DOMAIN rows[schedules'[i].key]
    PROVE  TypeInv'
BY DEF TypeInv

LEMMA RewrittenTypes ==
    ASSUME TypeInv, rows' = rows, opa' = opa, req' \in [Clients -> RequestType],
           history' \in HistoryType, history'.enforced \subseteq history'.approved,
           NEW i \in DOMAIN schedules, NEW x, Rewritten(schedules, schedules', i, x),
           x.key = schedules[i].key, x.version = schedules[i].version
    PROVE  TypeInv'
<1>1. schedules' \in Seq(ScheduleType) /\ Len(schedules') <= MaxSchedules  BY DEF TypeInv, Rewritten
<1>2. \A j \in DOMAIN schedules' : schedules'[j].version \in DOMAIN rows[schedules'[j].key]
      BY DEF TypeInv, Rewritten
<1> QED  BY <1>1, <1>2, TypesWithSchedules

LEMMA StatusOf ==
    ASSUME NEW i \in DOMAIN schedules, schedules \in Seq(ScheduleType),
           NEW w \in {"pending", "executed", "failed", "cancelled"},
           schedules' = [schedules EXCEPT ![i].status = w]
    PROVE  \E x : /\ Rewritten(schedules, schedules', i, x) /\ x.status = w
                  /\ x.key = schedules[i].key /\ x.version = schedules[i].version
<1> DEFINE new == OfStatus(schedules[i], w)
<1>1. schedules[i] \in ScheduleType  BY DomainOf
<1>2. new \in ScheduleType /\ new.status = w /\ new.key = schedules[i].key /\ new.version = schedules[i].version
      BY <1>1, ScheduleFields
<1>3. schedules' = [schedules EXCEPT ![i] = new]  BY DEF OfStatus
<1> HIDE DEF new
<1>4. Rewritten(schedules, schedules', i, new)  BY <1>2, <1>3, Rewriting
<1> QED  BY <1>2, <1>4

\* A request writes the status of a schedule, and goes on.
LEMMA StatusStep ==
    ASSUME GInv, NEW c \in Clients, NEW next \in RequestType, NEW i \in DOMAIN schedules,
           NEW w \in {"executed", "failed", "cancelled"},
           schedules' = [schedules EXCEPT ![i].status = w], req' = [req EXCEPT ![c] = next],
           rows' = rows, opa' = opa,
           history' = IF Contested(c, i) THEN [history EXCEPT !.contested = @ \cup {i}] ELSE history,
           next.sched = 0, next.due \subseteq req[c].due, i \notin next.due, req[c].sched \in {0, i},
           w = "executed" <=> req[c].sched = i /\ Done(req[c]),
           Shape(next, rows, Len(schedules)), Knows(next, rows, history')
    PROVE  GInv'
<1>1. /\ TypeInv /\ req \in [Clients -> RequestType] /\ rows \in TableType
      /\ schedules \in Seq(ScheduleType) /\ Len(schedules) \in Nat /\ history \in HistoryType
      BY Holder
<1>2. i \in Nat  BY <1>1
<1>3. /\ history' \in HistoryType /\ HistoryGrows(history, history') /\ history'.enforced \subseteq history'.approved
      /\ history'.performed = history.performed
      /\ i \notin history'.contested => ~Contested(c, i)
  <2>1. CASE Contested(c, i)
    <3>1. history' = [history EXCEPT !.contested = @ \cup {i}]  BY <2>1
    <3> QED  BY <1>2, <3>1, ContestedHistory
  <2>2. CASE ~Contested(c, i)
    <3>1. history' = history  BY <2>2
    <3> QED  BY <2>2, <3>1, HistorySame
  <2> QED  BY <2>1, <2>2
<1>4. PICK x : /\ Rewritten(schedules, schedules', i, x) /\ x.status = w
               /\ x.key = schedules[i].key /\ x.version = schedules[i].version
  <2>1. w \in {"pending", "executed", "failed", "cancelled"}  OBVIOUS
  <2> QED  BY <1>1, <2>1, StatusOf
<1>5. Moved(req, req', c, next)  BY <1>1, MoveDoes
<1>6. TypeInv'  BY <1>1, <1>3, <1>4, <1>5, RewrittenTypes DEF Moved
<1>7. SchedulesOk(req', schedules', history')
  <2>1. x.status \in {"executed", "failed", "cancelled"}
        /\ (x.status = "executed" <=> req[c].sched = i /\ Done(req[c]))
        BY <1>4
  <2>2. i \in history'.contested \/ (schedules[i].status = "pending" /\ Alone(req, c, i))
        BY <1>3 DEF Contested, Holds, Alone
  <2>3. SchedulesOk(req, schedules, history) /\ history.contested \subseteq history'.contested
        BY <1>3 DEF GInv, HistoryGrows
  <2> QED  BY <1>1, <1>3, <1>4, <1>5, <2>1, <2>2, <2>3, StatusWritten
<1>8. \A d \in Clients : req'[d] = req[d] \/ Placed(d)
  <2>1. Len(schedules') = Len(schedules)  BY <1>4 DEF Rewritten
  <2>2. Placed(c)  BY <1>5, <2>1 DEF Placed, Moved
  <2> QED  BY <1>5, <2>2 DEF Moved
<1>9. Len(schedules) <= Len(schedules')  BY <1>1, <1>4 DEF Rewritten
<1> QED  BY <1>3, <1>6, <1>7, <1>8, <1>9, SameRows

LEMMA CancelKeeps ==
    ASSUME GInv, NEW c \in Clients, cancel_schedule(c)
    PROVE  GInv'
<1> DEFINE i == req[c].arg
<1>1. /\ req[c].step = "cancel" /\ rows' = rows /\ opa' = opa /\ req' = [req EXCEPT ![c] = Idle]
      /\ schedules' = [schedules EXCEPT ![i].status = "cancelled"]
      /\ history' = IF Contested(c, i) THEN [history EXCEPT !.contested = @ \cup {i}] ELSE history
      BY DEF cancel_schedule
<1>2. schedules \in Seq(ScheduleType) /\ Len(schedules) \in Nat /\ Shape(req[c], rows, Len(schedules))  BY Holder
<1>3. i \in DOMAIN schedules /\ req[c].sched = 0
  <2>1. i \in 1..Len(schedules) /\ req[c].sched = 0  BY <1>1, <1>2 DEF Shape
  <2>2. DOMAIN schedules = 1..Len(schedules)  BY <1>2
  <2> QED  BY <2>1, <2>2
<1>4. /\ Idle \in RequestType /\ Shape(Idle, rows, Len(schedules)) /\ Knows(Idle, rows, history')
      /\ Idle.sched = 0 /\ Idle.due \subseteq req[c].due /\ i \notin Idle.due
      BY <1>2, IdleFine
<1>5. i # 0  BY <1>2, <1>3
<1>6. "cancelled" = "executed" <=> req[c].sched = i /\ Done(req[c])  BY <1>3, <1>5
<1> HIDE DEF i
<1> QED  BY <1>1, <1>3, <1>4, <1>6, StatusStep

Sweeping(due) == [Idle EXCEPT !.op = "sweep", !.step = "next", !.due = due]

LEMMA SweepingFields ==
    ASSUME NEW due \in SUBSET Nat
    PROVE  /\ Sweeping(due) \in RequestType
           /\ Sweeping(due).op = "sweep" /\ Sweeping(due).step = "next" /\ Sweeping(due).due = due
           /\ Sweeping(due).key = None /\ Sweeping(due).sched = 0 /\ Sweeping(due).seen = {}
<1>1. Idle \in RequestType  BY IdleFine
<1>2. Idle.key = None /\ Idle.sched = 0 /\ Idle.seen = {}  BY DEF Idle
<1> HIDE DEF Idle
<1> QED  BY <1>1, <1>2 DEF Sweeping, RequestType, Steps

LEMMA SweepingFine ==
    ASSUME NEW n \in Nat, NEW due \in SUBSET (1..n), NEW R, NEW h
    PROVE  /\ Sweeping(due) \in RequestType /\ Sweeping(due).sched = 0 /\ Sweeping(due).due = due
           /\ Shape(Sweeping(due), R, n) /\ Knows(Sweeping(due), R, h)
<1> DEFINE x == Sweeping(due)
<1>1. due \in SUBSET Nat /\ 0 \notin due  OBVIOUS
<1>2. /\ x \in RequestType /\ x.op = "sweep" /\ x.step = "next" /\ x.due = due
      /\ x.key = None /\ x.sched = 0 /\ x.seen = {}
      BY <1>1, SweepingFields
<1> HIDE DEF x
<1>3. Shape(x, R, n)  BY <1>1, <1>2 DEF Shape, Steps
<1>4. Knows(x, R, h)  BY <1>2 DEF Knows
<1> QED  BY <1>2, <1>3, <1>4 DEF x

LEMMA MarkKeeps ==
    ASSUME GInv, NEW c \in Clients, MarkSchedule(c)
    PROVE  GInv'
<1> DEFINE r == req[c]
           i == r.sched
           next == Sweeping(r.due)
           w == Marked(r.ok)
<1>1. /\ r.step = "mark" /\ rows' = rows /\ opa' = opa /\ req' = [req EXCEPT ![c] = next]
      /\ schedules' = [schedules EXCEPT ![i].status = w]
      /\ history' = IF Contested(c, i) THEN [history EXCEPT !.contested = @ \cup {i}] ELSE history
      BY DEF MarkSchedule, Sweeping
<1>2. /\ schedules \in Seq(ScheduleType) /\ Len(schedules) \in Nat /\ Shape(r, rows, Len(schedules))
      /\ r \in RequestType
      BY Holder
<1>3. i # 0 /\ i \notin r.due /\ r.due \in SUBSET (1..Len(schedules))  BY <1>1, <1>2 DEF Shape
<1>4. i \in DOMAIN schedules  BY <1>3, Holder
<1>5. /\ next \in RequestType /\ Shape(next, rows, Len(schedules)) /\ Knows(next, rows, history')
      /\ next.sched = 0 /\ next.due = r.due
      BY <1>2, <1>3, SweepingFine
<1>6. r.ok \in BOOLEAN  BY <1>2 DEF RequestType
<1>7. w \in {"executed", "failed", "cancelled"} /\ (w = "executed" <=> r.ok)  BY <1>6 DEF Marked
<1>8. Done(r) <=> r.ok  BY <1>1 DEF Done
<1>9. w = "executed" <=> r.sched = i /\ Done(r)  BY <1>7, <1>8
<1>10. next.due \subseteq r.due /\ i \notin next.due /\ r.sched \in {0, i}  BY <1>3, <1>5
<1> HIDE DEF next, w, i
<1> QED  BY <1>1, <1>4, <1>5, <1>7, <1>9, <1>10, StatusStep

\* Only the time of a schedule changes.
LEMMA SameStatuses ==
    ASSUME NEW Q, NEW s, NEW s2, NEW h, SchedulesOk(Q, s, h), DOMAIN s2 = DOMAIN s, Len(s2) = Len(s),
           \A j \in DOMAIN s : s2[j].status = s[j].status
    PROVE  SchedulesOk(Q, s2, h)
BY DEF SchedulesOk

LEMMA BecomesDueKeeps ==
    ASSUME GInv, NEW i \in DOMAIN schedules, BecomesDue(i)
    PROVE  GInv'
<1> DEFINE new == OfDue(schedules[i])
<1>1. /\ TypeInv /\ req \in [Clients -> RequestType] /\ schedules \in Seq(ScheduleType)
      /\ history \in HistoryType /\ history.enforced \subseteq history.approved
      /\ SchedulesOk(req, schedules, history) /\ Len(schedules) \in Nat
      BY DEF GInv, TypeInv
<1>2. rows' = rows /\ opa' = opa /\ req' = req /\ history' = history /\ schedules' = [schedules EXCEPT ![i] = new]
      BY DEF BecomesDue, OfDue
<1>3. schedules[i] \in ScheduleType  BY <1>1, DomainOf
<1>4. /\ new \in ScheduleType /\ new.status = schedules[i].status
      /\ new.key = schedules[i].key /\ new.version = schedules[i].version
      BY <1>3, ScheduleFields
<1> HIDE DEF new
<1>5. Rewritten(schedules, schedules', i, new)  BY <1>1, <1>2, <1>4, Rewriting
<1>6. TypeInv'  BY <1>1, <1>2, <1>4, <1>5, RewrittenTypes
<1>7. SchedulesOk(req', schedules', history')
  <2>1. DOMAIN schedules' = DOMAIN schedules /\ Len(schedules') = Len(schedules)  BY <1>5 DEF Rewritten
  <2>2. \A j \in DOMAIN schedules : schedules'[j].status = schedules[j].status  BY <1>4, <1>5 DEF Rewritten
  <2>3. SchedulesOk(req, schedules', history)  BY <1>1, <2>1, <2>2, SameStatuses
  <2> QED  BY <1>2, <2>3
<1>8. Len(schedules) <= Len(schedules')  BY <1>1, <1>5 DEF Rewritten
<1>9. HistoryGrows(history, history')  BY <1>2, SameHistory
<1>10. \A d \in Clients : req'[d] = req[d] \/ Placed(d)  BY <1>2
<1> QED  BY <1>2, <1>6, <1>7, <1>8, <1>9, <1>10, SameRows

LEMMA ScheduleAdded ==
    ASSUME NEW Q, NEW s, s \in Seq(ScheduleType), NEW h, SchedulesOk(Q, s, h), NEW x,
           x.status = "pending", NEW s2, Len(s2) = Len(s) + 1, DOMAIN s2 = 1..(Len(s) + 1),
           \A j \in DOMAIN s : s2[j] = s[j], s2[Len(s) + 1] = x, Len(s) + 1 <= MaxSchedules,
           NEW Q2, \A d \in Clients : SamePlace(Q[d], Q2[d]),
           \A d \in Clients : Q[d].sched <= Len(s) /\ Q[d].sched \in Nat
    PROVE  SchedulesOk(Q2, s2, h)
<1> DEFINE n == Len(s)
<1>0. n \in Nat /\ DOMAIN s = 1..n /\ MaxSchedules \in Nat  BY GovernanceAssumption
<1>1. SchedulesOk(Q2, s, h)  BY QuietSchedules
<1>2. \A j \in DOMAIN s2 : j \in DOMAIN s \/ j = n + 1  BY <1>0
<1>3. \A d \in Clients : Q2[d].sched # n + 1
  <2>1. \A d \in Clients : Q2[d].sched = Q[d].sched  BY DEF SamePlace
  <2>2. \A d \in Clients : Q[d].sched # n + 1  BY <1>0
  <2> QED  BY <2>1, <2>2
<1>4. h.performed[n + 1] = 0
  <2>1. n + 1 \in 1..MaxSchedules /\ n + 1 > n  BY <1>0
  <2> QED  BY <2>1 DEF SchedulesOk
<1>5. \A j \in DOMAIN s2 : s2[j].status = "executed" => h.performed[j] >= 1  BY <1>1, <1>2 DEF SchedulesOk
<1>6. \A d \in Clients : Q2[d].sched # 0 /\ Done(Q2[d]) => h.performed[Q2[d].sched] >= 1  BY <1>1 DEF SchedulesOk
<1>7. \A j \in 1..MaxSchedules : j > Len(s2) => h.performed[j] = 0
  <2>1. \A j \in 1..MaxSchedules : j > n + 1 => j > n  BY <1>0
  <2> QED  BY <1>1, <2>1 DEF SchedulesOk
<1>8. ASSUME NEW j \in DOMAIN s2, j \notin h.contested
      PROVE  /\ s2[j].status # "pending" => \A d \in Clients : ~Holds(Q2[d], j)
             /\ (\A d \in Clients : Q2[d].sched # j) =>
                   h.performed[j] = IF s2[j].status = "executed" THEN 1 ELSE 0
             /\ \A d \in Clients : Q2[d].sched = j /\ (\A e \in Clients : e # d => Q2[e].sched # j) =>
                   h.performed[j] = IF Done(Q2[d]) THEN 1 ELSE 0
  <2>1. CASE j = n + 1  BY <1>3, <1>4, <2>1
  <2>2. CASE j \in DOMAIN s
    <3>1. s2[j] = s[j]  BY <2>2
    <3> QED  BY <1>1, <1>8, <2>2, <3>1 DEF SchedulesOk
  <2> QED  BY <1>2, <2>1, <2>2
<1> QED  BY <1>5, <1>6, <1>7, <1>8 DEF SchedulesOk

LEMMA RecordKeeps ==
    ASSUME GInv, NEW c \in Clients, RecordSchedule(c)
    PROVE  GInv'
<1> DEFINE r == req[c]
           x == [key |-> r.key, version |-> r.ver, status |-> "pending", due |-> FALSE,
                 action |-> IF r.op = "schedule_activation" THEN "activate" ELSE "retire"]
           n == Len(schedules)
<1>1. /\ r.step = "write" /\ r.op \in {"schedule_activation", "schedule_retirement"} /\ n < MaxSchedules
      /\ rows' = rows /\ opa' = opa /\ history' = history /\ req' = [req EXCEPT ![c] = Idle]
      /\ schedules' = Append(schedules, x)
      BY DEF RecordSchedule
<1>2. /\ TypeInv /\ req \in [Clients -> RequestType] /\ r \in RequestType /\ rows \in TableType
      /\ schedules \in Seq(ScheduleType) /\ n \in Nat /\ history \in HistoryType
      /\ Shape(r, rows, n)
      BY Holder
<1>3. r.key \in Keys /\ r.ver \in DOMAIN rows[r.key] /\ r.ver \in Nat  BY <1>1, Holder
<1>4. x \in ScheduleType /\ x.status = "pending" /\ x.key = r.key /\ x.version = r.ver  BY <1>3 DEF ScheduleType
<1> HIDE DEF x
<1>5. /\ schedules' \in Seq(ScheduleType) /\ Len(schedules') = n + 1
      /\ \A j \in 1..n : schedules'[j] = schedules[j]
      /\ schedules'[n + 1] = x
      BY <1>1, <1>2, <1>4
<1>6. DOMAIN schedules' = 1..(n + 1) /\ DOMAIN schedules = 1..n  BY <1>2, <1>5
<1>7. Moved(req, req', c, Idle)  BY <1>1, <1>2, IdleFine, MoveDoes
<1>8. TypeInv'
  <2>1. \A i \in DOMAIN schedules' : schedules'[i].version \in DOMAIN rows[schedules'[i].key]
    <3>1. SUFFICES ASSUME NEW i \in 1..(n + 1)  PROVE schedules'[i].version \in DOMAIN rows[schedules'[i].key]
          BY <1>6
    <3>2. CASE i = n + 1  BY <1>3, <1>4, <1>5, <3>2
    <3>3. CASE i # n + 1
      <4>1. i \in 1..n  BY <1>2, <3>3
      <4> QED  BY <1>2, <1>5, <1>6, <4>1 DEF TypeInv
    <3> QED  BY <3>2, <3>3
  <2>2. n + 1 <= MaxSchedules  BY <1>1, <1>2, GovernanceAssumption
  <2>3. history' \in HistoryType /\ history'.enforced \subseteq history'.approved  BY <1>1, HistorySame
  <2>4. req' \in [Clients -> RequestType]  BY <1>7 DEF Moved
  <2>5. Len(schedules') <= MaxSchedules  BY <1>5, <2>2
  <2> QED  BY <1>1, <1>2, <1>5, <2>1, <2>3, <2>4, <2>5, TypesWithSchedules
<1>9. SchedulesOk(req', schedules', history')
  <2>1. r.sched = 0  BY <1>1, <1>2 DEF Shape
  <2>2. SamePlace(r, Idle)  BY <2>1, IdleFine DEF SamePlace
  <2>3. \A d \in Clients : SamePlace(req[d], req'[d])  BY <1>7, <2>2 DEF Moved, SamePlace
  <2>4. \A d \in Clients : req[d].sched <= n /\ req[d].sched \in Nat
    <3>1. ASSUME NEW d \in Clients  PROVE req[d].sched <= n /\ req[d].sched \in Nat
      <4>1. req[d] \in RequestType /\ Shape(req[d], rows, n)  BY Holder
      <4> QED  BY <4>1 DEF RequestType, Shape
    <3> QED  BY <3>1
  <2>5. SchedulesOk(req, schedules, history)  BY DEF GInv
  <2>6. n + 1 <= MaxSchedules  BY <1>1, <1>2, GovernanceAssumption
  <2>7. SchedulesOk(req', schedules', history)
        BY <1>2, <1>4, <1>5, <1>6, <2>3, <2>4, <2>5, <2>6, ScheduleAdded
  <2> QED  BY <1>1, <2>7
<1>10. \A d \in Clients : req'[d] = req[d] \/ Placed(d)
  <2>1. Len(schedules') \in Nat  BY <1>2, <1>5
  <2>2. req'[c] = Idle  BY <1>7 DEF Moved
  <2>3. Placed(c)  BY <2>1, <2>2, IdleFine DEF Placed
  <2> QED  BY <1>7, <2>3 DEF Moved
<1>11. HistoryGrows(history, history')  BY <1>1, SameHistory
<1>12. Len(schedules) <= Len(schedules')  BY <1>2, <1>5
<1> QED  BY <1>1, <1>8, <1>9, <1>10, <1>11, <1>12, SameRows

\* A sweep takes up all that is due.
LEMMA DueTaken ==
    ASSUME NEW Q, NEW Q2, NEW s, NEW h, SchedulesOk(Q, s, h), NEW c \in Clients, NEW next, Moved(Q, Q2, c, next),
           Q[c].sched = 0, next.sched = 0, \A i \in next.due : s[i].status = "pending", s \in Seq(ScheduleType)
    PROVE  SchedulesOk(Q2, s, h)
<1>0. \A j \in DOMAIN s : j # 0  OBVIOUS
<1>1. \A d \in Clients : Q2[d].sched = Q[d].sched /\ (d # c => Q2[d] = Q[d])  BY DEF Moved
<1>2. \A d \in Clients : Q2[d].sched # 0 /\ Done(Q2[d]) => h.performed[Q2[d].sched] >= 1
  <2>1. SUFFICES ASSUME NEW d \in Clients, Q2[d].sched # 0, Done(Q2[d])  PROVE h.performed[Q2[d].sched] >= 1
        OBVIOUS
  <2>2. d # c /\ Q2[d] = Q[d]  BY <1>1, <2>1
  <2> QED  BY <2>1, <2>2 DEF SchedulesOk
<1>3. ASSUME NEW j \in DOMAIN s, j \notin h.contested
      PROVE  /\ s[j].status # "pending" => \A d \in Clients : ~Holds(Q2[d], j)
             /\ (\A d \in Clients : Q2[d].sched # j) =>
                   h.performed[j] = IF s[j].status = "executed" THEN 1 ELSE 0
             /\ \A d \in Clients : Q2[d].sched = j /\ (\A e \in Clients : e # d => Q2[e].sched # j) =>
                   h.performed[j] = IF Done(Q2[d]) THEN 1 ELSE 0
  <2>1. s[j].status # "pending" => \A d \in Clients : ~Holds(Q2[d], j)
    <3>1. SUFFICES ASSUME s[j].status # "pending", NEW d \in Clients  PROVE ~Holds(Q2[d], j)
          OBVIOUS
    <3>2. CASE d = c
      <4>1. Q2[c] = next /\ j \notin next.due /\ j # 0  BY <1>0, <3>1 DEF Moved
      <4> QED  BY <3>2, <4>1 DEF Holds
    <3>3. CASE d # c
      <4>1. ~Holds(Q[d], j)  BY <1>3, <3>1 DEF SchedulesOk
      <4> QED  BY <1>1, <3>3, <4>1
    <3> QED  BY <3>2, <3>3
  <2>2. (\A d \in Clients : Q2[d].sched # j) => h.performed[j] = IF s[j].status = "executed" THEN 1 ELSE 0
        BY <1>1, <1>3 DEF SchedulesOk
  <2>3. ASSUME NEW d \in Clients, Q2[d].sched = j, \A e \in Clients : e # d => Q2[e].sched # j
        PROVE  h.performed[j] = IF Done(Q2[d]) THEN 1 ELSE 0
    <3>1. d # c /\ Q2[d] = Q[d]  BY <1>0, <1>1, <2>3
    <3>2. Q[d].sched = j /\ \A e \in Clients : e # d => Q[e].sched # j  BY <1>1, <2>3
    <3> QED  BY <1>3, <3>1, <3>2 DEF SchedulesOk
  <2> QED  BY <2>1, <2>2, <2>3
<1> QED  BY <1>2, <1>3 DEF SchedulesOk

LEMMA ProcessKeeps ==
    ASSUME GInv, NEW c \in Clients, process_due_schedules(c)
    PROVE  GInv'
<1> DEFINE r == req[c]
           next == Sweeping(DueSchedules)
           n == Len(schedules)
<1>1. /\ r.step = "idle" /\ rows' = rows /\ schedules' = schedules /\ opa' = opa /\ history' = history
      /\ req' = [req EXCEPT ![c] = next]
      BY DEF process_due_schedules, Sweeping
<1>2. /\ schedules \in Seq(ScheduleType) /\ n \in Nat /\ Shape(r, rows, n) /\ req \in [Clients -> RequestType]
      BY Holder
<1>3. r.sched = 0  BY <1>1, <1>2 DEF Shape
<1>4. DueSchedules \in SUBSET (1..n) /\ \A i \in DueSchedules : schedules[i].status = "pending"
      BY <1>2 DEF DueSchedules
<1>5. /\ next \in RequestType /\ Shape(next, rows, n) /\ Knows(next, rows, history')
      /\ next.sched = 0 /\ next.due = DueSchedules
      BY <1>2, <1>4, SweepingFine
<1> HIDE DEF next
<1>6. Moved(req, req', c, next)  BY <1>1, <1>2, <1>5, MoveDoes
<1>7. SchedulesOk(req, schedules, history)  BY DEF GInv
<1>8. SchedulesOk(req', schedules, history)  BY <1>2, <1>3, <1>4, <1>5, <1>6, <1>7, DueTaken
<1>9. OpaIn(opa', rows)  BY <1>1, OpaSame
<1>10. /\ history' \in HistoryType /\ HistoryGrows(history, history') /\ history'.enforced \subseteq history'.approved
       BY <1>1, HistorySame
<1>11. SchedulesOk(req', schedules', history')  BY <1>1, <1>8
<1> QED  BY <1>1, <1>5, <1>9, <1>10, <1>11, MovesOn

-----------------------------------------------------------------------------
(* A request begins an operation, or a sweep takes a schedule up.          *)

LEMMA FirstSteps ==
    ASSUME NEW op \in Operations, NEW k
    PROVE  /\ FirstStep(op, k) \in {"compile", "deploy", "insert", "write"}
           /\ FirstStep(op, k) = "insert" => op = "rollback"
           /\ FirstStep(op, k) = "compile" => op \in {"compile", "activate"}
           /\ FirstStep(op, k) = "deploy" => op \in {"deploy", "activate"}
           /\ FirstStep(op, k) = "write" => op \in OneStep
<1>1. CASE op = "activate"
  <2>1. FirstStep(op, k) = IF Latest(k).status = "approved" THEN "compile" ELSE "deploy"  BY <1>1 DEF FirstStep
  <2> QED  BY <1>1, <2>1
<1>2. CASE op \in {"compile", "deploy"}
  <2>1. FirstStep(op, k) = op  BY <1>2 DEF FirstStep
  <2> QED  BY <1>2, <2>1
<1>3. CASE op = "rollback"
  <2>1. FirstStep(op, k) = "insert"  BY <1>3 DEF FirstStep
  <2> QED  BY <1>3, <2>1
<1>4. CASE op \notin {"activate", "compile", "deploy", "rollback"}
  <2>1. FirstStep(op, k) = "write"  BY <1>4 DEF FirstStep
  <2> QED  BY <1>4, <2>1 DEF Operations, OneStep
<1> QED  BY <1>1, <1>2, <1>3, <1>4

LEMMA ChecksPassed ==
    ASSUME GInv, NEW k \in Keys, NEW v \in DOMAIN rows[k], run_safety_checks(k), NEW x, x.key = k, x.seen = Active
    PROVE  ~Circular(Delegations({LastOf(rows[k]).content} \cup ContentsIn(rows, Others(x))))
<1>1. rows \in TableType  BY DEF GInv, TypeInv
<1>2. Latest(k) = LastOf(rows[k])  BY <1>1, LatestIs
<1>3. Others(x) = OthersActive(k)  BY DEF Others, OthersActive
<1>4. ContentsIn(rows, Others(x)) = {PolicyOf(a) : a \in OthersActive(k)}  BY <1>1, <1>3, ActiveIs
<1> DEFINE others == {PolicyOf(a) : a \in OthersActive(k)}
           p == Latest(k).content
<1>5. ~Circular(Delegations(others \cup {p}))  BY DEF run_safety_checks
<1>6. others \cup {p} = {p} \cup others  OBVIOUS
<1> HIDE DEF others, p
<1>7. ~Circular(Delegations({p} \cup others))  BY <1>5, <1>6
<1> QED  BY <1>2, <1>4, <1>7 DEF others, p

LEMMA FreshKnows ==
    ASSUME GInv, NEW op \in Operations, NEW k \in Keys, NEW v \in DOMAIN rows[k], Permitted(op, k),
           NEW x, x.op = op, x.step = FirstStep(op, k), x.key = k, x.ver = Len(rows[k]), x.seen = Active,
           op = "rollback" => MayRollBackTo(k, x.arg)
    PROVE  Knows(x, rows, history)
<1>1. rows \in TableType /\ RowsOk(rows, history)  BY DEF GInv, TypeInv, PoliciesInv
<1>2. /\ Len(rows[k]) \in DOMAIN rows[k]
      /\ Latest(k) = rows[k][Len(rows[k])] /\ Latest(k) = LastOf(rows[k])
      BY <1>1, LatestIs
<1>3. /\ x.step \in {"compile", "deploy", "insert", "write"}
      /\ x.step = "insert" => op = "rollback"
      BY FirstSteps
<1>4. Latest(k).status \in AllowedFrom(op)  BY DEF Permitted
<1>5. x.step = "write" => x.ver = Len(rows[k]) /\ LastOf(rows[k]).status \in AllowedFrom(op)  BY <1>2, <1>4
<1>6. op \in {"deprecate", "attest"} => <<k, Len(rows[k])>> \in history.enforced
  <2>1. SUFFICES ASSUME op \in {"deprecate", "attest"}  PROVE <<k, Len(rows[k])>> \in history.enforced
        OBVIOUS
  <2>2. rows[k][Len(rows[k])].status = "active"  BY <1>2, <1>4, <2>1, Allowed
  <2>3. RowOk(k, Len(rows[k]), rows[k][Len(rows[k])], history)  BY <1>1, <1>2 DEF RowsOk
  <2> QED  BY <2>2, <2>3 DEF RowOk
<1>7. op = "rollback" /\ k \notin history.raced => <<k, x.arg>> \in history.enforced
  <2>1. SUFFICES ASSUME op = "rollback", k \notin history.raced  PROVE <<k, x.arg>> \in history.enforced
        OBVIOUS
  <2>2. x.arg \in DOMAIN rows[k] /\ (rows[k][x.arg].activated \/ rows[k][x.arg].status = "active")
        BY <2>1 DEF MayRollBackTo
  <2>3. RowOk(k, x.arg, rows[k][x.arg], history)  BY <1>1, <2>2 DEF RowsOk
  <2> QED  BY <2>1, <2>2, <2>3 DEF RowOk
<1>8. op = "activate" => ~Circular(Delegations({LastOf(rows[k]).content} \cup ContentsIn(rows, Others(x))))
      BY ChecksPassed DEF Permitted
<1>9. \A a \in LastOf(rows[k]).hash : a[1] # k /\ a \in ActiveIn(rows) => a \in x.seen
  <2>1. x.seen = ActiveIn(rows)  BY <1>1, ActiveIs
  <2> QED  BY <2>1
<1> QED  BY <1>3, <1>5, <1>6, <1>7, <1>8, <1>9 DEF Knows

LEMMA OneStepOrNot ==
    /\ OneStep \subseteq Operations /\ "activate" \in Operations /\ "retire" \in Operations
    /\ "activate" \notin OneStep /\ "rollback" \notin OneStep /\ "compile" \notin OneStep /\ "deploy" \notin OneStep
BY DEF OneStep, Operations

LEMMA FreshShape ==
    ASSUME GInv, NEW op \in Operations, NEW k \in Keys, NEW v \in DOMAIN rows[k],
           NEW x, x.op = op, x.step \in {FirstStep(op, k), "mark"}, x.step = "mark" => x.sched # 0,
           x.key = k, x.ver = Len(rows[k]), x.seen = Active,
           NEW n, x.sched # 0 => op \in {"activate", "retire"}, x.sched <= n, x.due \subseteq 1..n, x.sched \notin x.due,
           op = "edit" => x.arg \in Policies /\ x.ver < MaxVersion,
           op = "rollback" => x.arg \in DOMAIN rows[k]
    PROVE  Shape(x, rows, n)
<1>1. rows \in TableType  BY DEF GInv, TypeInv
<1>2. Len(rows[k]) \in DOMAIN rows[k]  BY <1>1, LatestIs
<1>3. \A a \in Active : a[2] \in DOMAIN rows[a[1]]  BY <1>1, ActiveIs
<1>4. /\ FirstStep(op, k) \in {"compile", "deploy", "insert", "write"}
      /\ FirstStep(op, k) = "insert" => op = "rollback"
      /\ FirstStep(op, k) = "compile" => op \in {"compile", "activate"}
      /\ FirstStep(op, k) = "deploy" => op \in {"deploy", "activate"}
      /\ FirstStep(op, k) = "write" => op \in OneStep
      BY FirstSteps
<1>5. x.step \in {"compile", "deploy", "insert", "write", "mark"} /\ x.step \in Steps  BY <1>4 DEF Steps
<1>6. k # None  BY GovernanceAssumption
<1>7. x.step \notin {"idle", "cancel", "next", "tag", "stamp", "reconcile"}  BY <1>5
<1>8. (x.step = "write" => op \in OneStep) /\ (x.step = "insert" => op = "rollback")  BY <1>4, <1>7
<1> QED  BY <1>2, <1>3, <1>4, <1>5, <1>6, <1>7, <1>8 DEF Shape

Fresh(op, step, k, ver, arg, seen) ==
    [Idle EXCEPT !.op = op, !.step = step, !.key = k, !.ver = ver, !.arg = arg, !.seen = seen]

LEMMA FreshFields ==
    ASSUME NEW op \in Operations, NEW step \in Steps, NEW k \in Keys, NEW ver \in Nat,
           NEW arg \in Policies \cup Nat \cup {None}, NEW seen \in SUBSET Version
    PROVE  /\ Fresh(op, step, k, ver, arg, seen) \in RequestType
           /\ Fresh(op, step, k, ver, arg, seen).op = op /\ Fresh(op, step, k, ver, arg, seen).step = step
           /\ Fresh(op, step, k, ver, arg, seen).key = k /\ Fresh(op, step, k, ver, arg, seen).ver = ver
           /\ Fresh(op, step, k, ver, arg, seen).arg = arg /\ Fresh(op, step, k, ver, arg, seen).seen = seen
           /\ Fresh(op, step, k, ver, arg, seen).sched = 0 /\ Fresh(op, step, k, ver, arg, seen).due = {}
<1>1. Idle \in RequestType  BY IdleFine
<1>2. Idle.sched = 0 /\ Idle.due = {}  BY DEF Idle
<1> HIDE DEF Idle
<1> QED  BY <1>1, <1>2 DEF Fresh, RequestType

LEMMA BeginKeeps ==
    ASSUME GInv, NEW c \in Clients, NEW k \in Keys, NEW op \in Operations, NEW arg \in Argument(op),
           Begin(c, op, k, arg)
    PROVE  GInv'
<1> DEFINE next == Fresh(op, FirstStep(op, k), k, Len(rows[k]), arg, Active)
           n == Len(schedules)
<1>1. /\ req[c].step = "idle" /\ rows' = rows /\ schedules' = schedules /\ opa' = opa /\ history' = history
      /\ req' = [req EXCEPT ![c] = next] /\ Permitted(op, k)
      /\ op = "rollback" => MayRollBackTo(k, arg)
      /\ op \in {"edit", "rollback"} => Len(rows[k]) < MaxVersion
      BY DEF Begin, Fresh
<1>2. rows \in TableType /\ n \in Nat  BY Holder
<1>3. Len(rows[k]) \in Nat /\ DOMAIN rows[k] = 1..Len(rows[k])  BY <1>2 DEF TableType
<1>4. rows[k] # << >>  BY <1>1 DEF Permitted
<1>5. PICK v : v \in DOMAIN rows[k]
  <2>1. rows[k] \in Seq(RowType)  BY <1>2 DEF TableType
  <2>2. Len(rows[k]) # 0  BY <1>4, <2>1, EmptySeq
  <2>3. Len(rows[k]) \in DOMAIN rows[k]  BY <1>3, <2>2
  <2> QED  BY <2>3
<1>6. FirstStep(op, k) \in Steps  BY FirstSteps DEF Steps
<1>7. arg \in Policies \cup Nat \cup {None}
  <2>1. 1..MaxVersion \subseteq Nat  BY GovernanceAssumption
  <2> QED  BY <2>1 DEF Argument
<1>8. Active \in SUBSET Version  BY <1>2, ActiveIs
<1>9. /\ next \in RequestType /\ next.op = op /\ next.step = FirstStep(op, k) /\ next.key = k
      /\ next.ver = Len(rows[k]) /\ next.arg = arg /\ next.seen = Active /\ next.sched = 0 /\ next.due = {}
      BY <1>3, <1>6, <1>7, <1>8, FreshFields
<1> HIDE DEF next
<1>10. Knows(next, rows, history)  BY <1>1, <1>5, <1>9, FreshKnows
<1>11. Shape(next, rows, n)
  <2>1. next.step \in {FirstStep(op, k), "mark"} /\ next.step # "mark"  BY <1>9, FirstSteps
  <2>2. op = "edit" => next.arg \in Policies /\ next.ver < MaxVersion  BY <1>1, <1>9 DEF Argument
  <2>3. op = "rollback" => next.arg \in DOMAIN rows[k]  BY <1>1, <1>9 DEF MayRollBackTo
  <2>4. next.sched <= n /\ next.due \subseteq 1..n /\ next.sched \notin next.due  BY <1>2, <1>9
  <2> QED  BY <1>5, <1>9, <2>1, <2>2, <2>3, <2>4, FreshShape
<1>12. next.sched = 0 /\ next.due \subseteq req[c].due  BY <1>9
<1> QED  BY <1>1, <1>9, <1>10, <1>11, <1>12, Rests

Taken(r, op, k, ver, seen, i) ==
    [r EXCEPT !.op = op, !.key = k, !.ver = ver, !.seen = seen, !.stale = FALSE, !.sched = i, !.due = @ \ {i}]

LEMMA TakenFields ==
    ASSUME NEW r \in RequestType, NEW op \in Operations, NEW k \in Keys, NEW ver \in Nat,
           NEW seen \in SUBSET Version, NEW i \in Nat
    PROVE  /\ Taken(r, op, k, ver, seen, i) \in RequestType
           /\ Taken(r, op, k, ver, seen, i).op = op /\ Taken(r, op, k, ver, seen, i).key = k
           /\ Taken(r, op, k, ver, seen, i).ver = ver /\ Taken(r, op, k, ver, seen, i).seen = seen
           /\ Taken(r, op, k, ver, seen, i).sched = i /\ Taken(r, op, k, ver, seen, i).due = r.due \ {i}
<1> DEFINE due == r.due \ {i}
<1>1. due \in SUBSET Nat  BY DEF RequestType
<1>2. Taken(r, op, k, ver, seen, i) =
         [r EXCEPT !.op = op, !.key = k, !.ver = ver, !.seen = seen, !.stale = FALSE, !.sched = i, !.due = due]
      BY DEF Taken
<1> HIDE DEF due
<1>3. FALSE \in BOOLEAN  OBVIOUS
<1> DEFINE x == Taken(r, op, k, ver, seen, i)
<1>4. x = [op |-> op, step |-> r.step, key |-> k, ver |-> ver, arg |-> r.arg, seen |-> seen, stale |-> FALSE,
           sched |-> i, due |-> due, ok |-> r.ok]
      BY <1>2 DEF RequestType
<1>5. r.step \in Steps /\ r.arg \in Policies \cup Nat \cup {None} /\ r.ok \in BOOLEAN  BY DEF RequestType
<1> HIDE DEF x
<1>6. x \in RequestType  BY <1>1, <1>3, <1>4, <1>5 DEF RequestType
<1>7. x.op = op /\ x.key = k /\ x.ver = ver /\ x.seen = seen /\ x.sched = i /\ x.due = due  BY <1>4
<1> QED  BY <1>6, <1>7 DEF x, due

\* A sweep takes schedule i up.
LEMMA ScheduleTaken ==
    ASSUME NEW Q, NEW Q2, NEW s, s \in Seq(ScheduleType), NEW h, SchedulesOk(Q, s, h), NEW c \in Clients, NEW next,
           Moved(Q, Q2, c, next), Q[c].sched = 0, NEW i, i \in Q[c].due, next.sched = i, next.due = Q[c].due \ {i},
           ~Done(next)
    PROVE  SchedulesOk(Q2, s, h)
<1>0. \A j \in DOMAIN s : j # 0  OBVIOUS
<1>1. (\A d \in Clients : d # c => Q2[d] = Q[d]) /\ Q2[c] = next  BY DEF Moved
<1>2. \A d \in Clients : Q2[d].sched # 0 /\ Done(Q2[d]) => h.performed[Q2[d].sched] >= 1
  <2>1. SUFFICES ASSUME NEW d \in Clients, Q2[d].sched # 0, Done(Q2[d])  PROVE h.performed[Q2[d].sched] >= 1
        OBVIOUS
  <2>2. d # c /\ Q2[d] = Q[d]  BY <1>1, <2>1
  <2> QED  BY <2>1, <2>2 DEF SchedulesOk
<1>3. ASSUME NEW j \in DOMAIN s, j \notin h.contested
      PROVE  /\ s[j].status # "pending" => \A d \in Clients : ~Holds(Q2[d], j)
             /\ (\A d \in Clients : Q2[d].sched # j) =>
                   h.performed[j] = IF s[j].status = "executed" THEN 1 ELSE 0
             /\ \A d \in Clients : Q2[d].sched = j /\ (\A e \in Clients : e # d => Q2[e].sched # j) =>
                   h.performed[j] = IF Done(Q2[d]) THEN 1 ELSE 0
  <2>1. \A d \in Clients : Holds(Q2[d], j) => Holds(Q[d], j)  BY <1>1 DEF Holds
  <2>2. s[j].status # "pending" => \A d \in Clients : ~Holds(Q[d], j)  BY <1>3 DEF SchedulesOk
  <2>3. ASSUME \A d \in Clients : Q2[d].sched # j
        PROVE  h.performed[j] = IF s[j].status = "executed" THEN 1 ELSE 0
    <3>1. \A d \in Clients : Q[d].sched # j  BY <1>0, <1>1, <2>3
    <3> QED  BY <1>3, <3>1 DEF SchedulesOk
  <2>4. ASSUME NEW d \in Clients, Q2[d].sched = j, \A e \in Clients : e # d => Q2[e].sched # j
        PROVE  h.performed[j] = IF Done(Q2[d]) THEN 1 ELSE 0
    <3>1. CASE d = c
      <4>1. j = i /\ Holds(Q[c], j)  BY <1>1, <2>4, <3>1 DEF Holds
      <4>2. s[j].status = "pending"  BY <2>2, <4>1
      <4>3. \A e \in Clients : Q[e].sched # j  BY <1>0, <1>1, <2>4, <3>1
      <4>4. h.performed[j] = IF s[j].status = "executed" THEN 1 ELSE 0  BY <1>3, <4>3 DEF SchedulesOk
      <4> QED  BY <1>1, <3>1, <4>2, <4>4
    <3>2. CASE d # c
      <4>1. Q2[d] = Q[d] /\ Q[d].sched = j  BY <1>1, <2>4, <3>2
      <4>2. \A e \in Clients : e # d => Q[e].sched # j  BY <1>0, <1>1, <2>4
      <4> QED  BY <1>3, <4>1, <4>2 DEF SchedulesOk
    <3> QED  BY <3>1, <3>2
  <2> QED  BY <2>1, <2>2, <2>3, <2>4
<1> QED  BY <1>2, <1>3 DEF SchedulesOk

LEMMA TakeUpKeeps ==
    ASSUME GInv, NEW c \in Clients, NEW i \in req[c].due, TakeUp(c, i)
    PROVE  GInv'
<1> DEFINE r == req[c]
           k == schedules[i].key
           op == schedules[i].action
           n == Len(schedules)
           taken == Taken(r, op, k, Len(rows[k]), Active, i)
           next == IF Permitted(op, k) THEN [taken EXCEPT !.step = FirstStep(op, k)]
                   ELSE [taken EXCEPT !.step = "mark", !.ok = FALSE]
<1>1. /\ r.step = "next" /\ rows' = rows /\ schedules' = schedules /\ opa' = opa /\ history' = history
      /\ req' = [req EXCEPT ![c] = next]
      BY DEF TakeUp, Taken
<1>2. /\ TypeInv /\ req \in [Clients -> RequestType] /\ r \in RequestType /\ rows \in TableType
      /\ schedules \in Seq(ScheduleType) /\ n \in Nat /\ Shape(r, rows, n)
      BY Holder
<1>3. r.sched = 0 /\ r.due \subseteq 1..n  BY <1>1, <1>2 DEF Shape
<1>4. i \in DOMAIN schedules /\ i \in Nat /\ i # 0 /\ i <= n  BY <1>2, <1>3
<1>5. k \in Keys /\ op \in {"activate", "retire"} /\ schedules[i].version \in DOMAIN rows[k]
  <2>1. schedules[i] \in ScheduleType  BY <1>2, <1>4, DomainOf
  <2> QED  BY <1>2, <1>4, <2>1 DEF ScheduleType, TypeInv
<1>6. op \in Operations  BY <1>5, OneStepOrNot
<1>7. Len(rows[k]) \in Nat  BY <1>2, <1>5, LatestIs
<1>8. Active \in SUBSET Version  BY <1>2, ActiveIs
<1>9. /\ taken \in RequestType /\ taken.op = op /\ taken.key = k /\ taken.ver = Len(rows[k]) /\ taken.seen = Active
      /\ taken.sched = i /\ taken.due = r.due \ {i}
  <2> DEFINE ver == Len(rows[k])
             seen == Active
  <2>1. r \in RequestType /\ op \in Operations /\ k \in Keys /\ ver \in Nat /\ seen \in SUBSET Version /\ i \in Nat
        BY <1>2, <1>4, <1>5, <1>6, <1>7, <1>8
  <2> HIDE DEF r, op, k, ver, seen
  <2>2. /\ Taken(r, op, k, ver, seen, i) \in RequestType
        /\ Taken(r, op, k, ver, seen, i).op = op /\ Taken(r, op, k, ver, seen, i).key = k
        /\ Taken(r, op, k, ver, seen, i).ver = ver /\ Taken(r, op, k, ver, seen, i).seen = seen
        /\ Taken(r, op, k, ver, seen, i).sched = i /\ Taken(r, op, k, ver, seen, i).due = r.due \ {i}
        BY <2>1, TakenFields
  <2>3. taken = Taken(r, op, k, ver, seen, i)  BY DEF ver, seen
  <2> HIDE DEF taken
  <2> QED  BY <2>2, <2>3 DEF ver, seen
<1> HIDE DEF taken, k, op
<1>10. CASE Permitted(op, k)
  <2>0. FirstStep(op, k) \in {"compile", "deploy", "insert", "write"}  BY <1>6, FirstSteps
  <2>1. FirstStep(op, k) \in Steps  BY <2>0 DEF Steps
  <2>2. next = [taken EXCEPT !.step = FirstStep(op, k)]  BY <1>10
  <2> HIDE DEF next
  <2>3. /\ next \in RequestType /\ next.step = FirstStep(op, k)
        /\ next.op = op /\ next.key = k /\ next.ver = Len(rows[k]) /\ next.seen = Active
        /\ next.sched = i /\ next.due = r.due \ {i}
        BY <1>9, <2>1, <2>2, StepTo
  <2>4. op # "rollback" /\ op # "edit"  BY <1>5
  <2>5. Knows(next, rows, history)  BY <1>5, <1>6, <1>10, <2>3, <2>4, FreshKnows
  <2>6. Shape(next, rows, n)
    <3>1. next.step \in {FirstStep(op, k), "mark"} /\ next.step # "mark"  BY <2>0, <2>3
    <3>2. next.sched <= n /\ next.due \subseteq 1..n /\ next.sched \notin next.due  BY <1>3, <1>4, <2>3
    <3> QED  BY <1>5, <1>6, <2>3, <2>4, <3>1, <3>2, FreshShape
  <2>7. ~Done(next)  BY <2>0, <2>3 DEF Done
  <2>8. Moved(req, req', c, next)  BY <1>1, <1>2, <2>3, MoveDoes
  <2>9. SchedulesOk(req, schedules, history)  BY DEF GInv
  <2>10. SchedulesOk(req', schedules, history)  BY <1>2, <1>3, <2>3, <2>7, <2>8, <2>9, ScheduleTaken
  <2>11. OpaIn(opa', rows)  BY <1>1, OpaSame
  <2>12. history' \in HistoryType /\ HistoryGrows(history, history') /\ history'.enforced \subseteq history'.approved
         BY <1>1, HistorySame
  <2>13. SchedulesOk(req', schedules', history')  BY <1>1, <2>10
  <2>14. Knows(next, rows, history')  BY <1>1, <2>5
  <2> QED  BY <1>1, <2>3, <2>6, <2>11, <2>12, <2>13, <2>14, MovesOn
<1>11. CASE ~Permitted(op, k)
  <2>1. next = Ended(taken, FALSE)  BY <1>4, <1>9, <1>11 DEF Ended
  <2> HIDE DEF next
  <2>2. /\ next \in RequestType /\ next.step = "mark" /\ next.ok = FALSE
        /\ next.op = op /\ next.key = k /\ next.ver = Len(rows[k]) /\ next.seen = Active
        /\ next.sched = i /\ next.due = r.due \ {i}
        BY <1>4, <1>9, <2>1, EndedFields
  <2>3. Knows(next, rows, history')  BY <2>2 DEF Knows
  <2>4. Shape(next, rows, n)
    <3>1. next.step \in {FirstStep(op, k), "mark"} /\ next.sched # 0  BY <1>4, <2>2
    <3>2. next.sched <= n /\ next.due \subseteq 1..n /\ next.sched \notin next.due  BY <1>3, <1>4, <2>2
    <3>3. op # "rollback" /\ op # "edit"  BY <1>5
    <3> QED  BY <1>5, <1>6, <2>2, <3>1, <3>2, <3>3, FreshShape
  <2>5. ~Done(next)  BY <2>2 DEF Done
  <2>6. Moved(req, req', c, next)  BY <1>1, <1>2, <2>2, MoveDoes
  <2>7. SchedulesOk(req, schedules, history)  BY DEF GInv
  <2>8. SchedulesOk(req', schedules, history)  BY <1>2, <1>3, <2>2, <2>5, <2>6, <2>7, ScheduleTaken
  <2>9. OpaIn(opa', rows)  BY <1>1, OpaSame
  <2>10. history' \in HistoryType /\ HistoryGrows(history, history') /\ history'.enforced \subseteq history'.approved
         BY <1>1, HistorySame
  <2>11. SchedulesOk(req', schedules', history')  BY <1>1, <2>8
  <2> QED  BY <1>1, <2>2, <2>3, <2>4, <2>9, <2>10, <2>11, MovesOn
<1> QED  BY <1>10, <1>11

-----------------------------------------------------------------------------
(* create_policy, and authority that expires.                              *)

LEMMA NoRequestMoves ==
    ASSUME GInv, req' = req, schedules' = schedules, opa' = opa, history' = history,
           rows' \in TableType, Kept(rows, rows'), \A k \in Keys : Len(rows'[k]) <= MaxVersion,
           ActiveIn(rows') \subseteq ActiveIn(rows), RowsOk(rows', history),
           \A d \in Clients : req[d].key \in Keys => SameKey(rows, rows', req[d].key)
    PROVE  GInv'
<1>1. history' \in HistoryType /\ HistoryGrows(history, history') /\ history'.enforced \subseteq history'.approved
      BY HistorySame
<1>2. TypeInv'
  <2>1. TypeInv /\ req' \in [Clients -> RequestType]  BY DEF GInv, TypeInv
  <2> QED  BY <1>1, <2>1, TypesKept
<1>3. \A d \in Clients : Follower(d)  BY DEF Follower, Aside
<1>4. SchedulesOk(req', schedules', history')  BY DEF GInv
<1>5. Len(schedules) <= Len(schedules')
  <2>1. Len(schedules) \in Nat  BY DEF GInv, TypeInv
  <2> QED  BY <2>1
<1>6. RowsOk(rows', history')  OBVIOUS
<1> QED  BY <1>1, <1>2, <1>3, <1>4, <1>5, <1>6, GeneralStep

LEMMA CreateKeeps ==
    ASSUME GInv, NEW k \in Keys, NEW p \in Policies, create_policy(k, p)
    PROVE  GInv'
<1> DEFINE new == Row(p)
<1>1. /\ rows[k] = << >> /\ rows' = [rows EXCEPT ![k] = <<new>>]
      /\ req' = req /\ schedules' = schedules /\ opa' = opa /\ history' = history
      BY DEF create_policy
<1>2. rows \in TableType /\ TypeInv  BY DEF GInv, TypeInv
<1>3. Len(rows[k]) = 0 /\ DOMAIN rows[k] = {}  BY <1>1
<1>4. new \in RowType /\ new.status = "draft" /\ RowOk(k, Len(rows[k]) + 1, new, history)
  <2>1. 1 \in Nat /\ 1 > 0 /\ Len(rows[k]) + 1 = 1  BY <1>3
  <2> QED  BY <2>1, NewRow
<1> HIDE DEF new
<1>5. rows' = [rows EXCEPT ![k] = Append(rows[k], new)]  BY <1>1
<1>6. Added(rows, rows', k, new)  BY <1>2, <1>4, <1>5, Appended
<1>7. RowsOk(rows', history)
  <2>1. RowsOk(rows, history) /\ HistoryGrows(history, history)  BY DEF GInv, PoliciesInv, HistoryGrows
  <2> QED  BY <1>2, <1>4, <1>6, <2>1, RowsOkAppended
<1>8. ActiveIn(rows') \subseteq ActiveIn(rows) /\ \A j \in Keys : j # k => SameKey(rows, rows', j)
      BY <1>2, <1>4, <1>6, AddedFacts
<1>9. Kept(rows, rows') /\ rows' \in TableType  BY <1>6 DEF Added
<1>10. \A j \in Keys : Len(rows'[j]) <= MaxVersion
  <2>1. Len(rows'[k]) = 1 /\ \A j \in Keys : j # k => rows'[j] = rows[j]  BY <1>3, <1>6 DEF Added
  <2>2. 1 <= MaxVersion  BY GovernanceAssumption
  <2> QED  BY <1>2, <2>1, <2>2 DEF TypeInv
<1>11. \A d \in Clients : req[d].key \in Keys => SameKey(rows, rows', req[d].key)
  <2>1. SUFFICES ASSUME NEW d \in Clients, req[d].key \in Keys  PROVE SameKey(rows, rows', req[d].key)
        OBVIOUS
  <2>2. req[d].key # None  BY <2>1, GovernanceAssumption
  <2>3. req[d].ver \in DOMAIN rows[req[d].key]  BY <2>2 DEF GInv, RequestsInv, Shape
  <2>4. req[d].key # k  BY <1>3, <2>3
  <2> QED  BY <1>8, <2>1, <2>4
<1> QED  BY <1>1, <1>7, <1>8, <1>9, <1>10, <1>11, NoRequestMoves

LEMMA ExpiredFields ==
    ASSUME NEW row \in RowType, NEW x, x = [row EXCEPT !.expired = TRUE]
    PROVE  /\ x \in RowType
           /\ x.status = row.status /\ x.hash = row.hash /\ x.content = row.content /\ x.labels = row.labels
           /\ x.rollbackOf = row.rollbackOf /\ x.activated = row.activated
BY DEF RowType

LEMMA ExpiresKeeps ==
    ASSUME GInv, NEW k \in Keys, NEW v \in DOMAIN rows[k], AuthorityExpires(k, v)
    PROVE  GInv'
<1> DEFINE new == [rows[k][v] EXCEPT !.expired = TRUE]
<1>1. /\ rows' = [rows EXCEPT ![k][v] = new]
      /\ req' = req /\ schedules' = schedules /\ opa' = opa /\ history' = history
      BY DEF AuthorityExpires
<1>2. rows \in TableType /\ TypeInv  BY DEF GInv, TypeInv
<1>3. rows[k][v] \in RowType  BY <1>2 DEF TableType
<1>4. /\ new \in RowType
      /\ new.status = rows[k][v].status /\ new.hash = rows[k][v].hash /\ new.content = rows[k][v].content
      /\ new.labels = rows[k][v].labels
      /\ new.rollbackOf = rows[k][v].rollbackOf /\ new.activated = rows[k][v].activated
      BY <1>3, ExpiredFields
<1> HIDE DEF new
<1>5. Wrote(rows, rows', k, v, new)  BY <1>1, <1>2, <1>4, Updated
<1>6. RowsOk(rows', history)
  <2>1. RowsOk(rows, history) /\ HistoryGrows(history, history)  BY DEF GInv, PoliciesInv, HistoryGrows
  <2>2. RowOk(k, v, new, history)  BY <1>4, <2>1 DEF RowsOk, RowOk
  <2> QED  BY <1>2, <1>5, <2>1, <2>2, RowsOkUpdated
<1>7. ActiveIn(rows') \subseteq ActiveIn(rows) /\ \A j \in Keys : SameKey(rows, rows', j)
  <2>0. new.status = "active" => rows[k][v].status = "active"  BY <1>4
  <2>1. /\ ActiveIn(rows') \subseteq ActiveIn(rows) /\ \A j \in Keys : j # k => SameKey(rows, rows', j)
        /\ new.status = rows[k][v].status /\ new.hash = rows[k][v].hash => SameKey(rows, rows', k)
        BY <1>2, <1>5, <2>0, WroteFacts
  <2> QED  BY <1>4, <2>1
<1>8. Kept(rows, rows') /\ rows' \in TableType /\ \A j \in Keys : Len(rows'[j]) = Len(rows[j])  BY <1>5 DEF Wrote
<1>9. \A j \in Keys : Len(rows'[j]) <= MaxVersion  BY <1>2, <1>8 DEF TypeInv
<1> QED  BY <1>1, <1>6, <1>7, <1>8, <1>9, NoRequestMoves

-----------------------------------------------------------------------------
(* The invariant of the policies.                                          *)

\* Facts and decisions are not among what it is about.
LEMMA Untouched ==
    ASSUME GInv, rows' = rows, schedules' = schedules, opa' = opa, req' = req, history' = history
    PROVE  GInv'
<1>1. TypeInv'  BY DEF GInv, TypeInv
<1>2. RequestsInv'  BY DEF GInv, RequestsInv
<1>3. PoliciesInv'  BY DEF GInv, PoliciesInv
<1>4. SchedulesOk(req', schedules', history')  BY DEF GInv
<1> QED  BY <1>1, <1>2, <1>3, <1>4 DEF GInv

LEMMA NoPolicies ==
    ASSUME NEW R, R = [k \in Keys |-> << >>]
    PROVE  /\ R \in TableType /\ \A k \in Keys : Len(R[k]) = 0 /\ DOMAIN R[k] = {}
           /\ ActiveIn(R) = {} /\ Together(R) /\ Acyclic(R)
<1>1. R \in TableType  BY DEF TableType
<1>2. \A k \in Keys : Len(R[k]) = 0 /\ DOMAIN R[k] = {}  OBVIOUS
<1>3. ActiveIn(R) = {}  BY <1>2 DEF ActiveIn, Version
<1>4. Together(R)  BY <1>3 DEF Together, uploads, compiles, NoErrors
<1>5. Acyclic(R)
  <2>1. Delegations(ContentsIn(R, ActiveIn(R))) = {}  BY <1>3 DEF Delegations, ContentsIn
  <2>2. ~Circular({})  BY DEF Circular
  <2> QED  BY <2>1, <2>2 DEF Acyclic
<1> QED  BY <1>1, <1>2, <1>3, <1>4, <1>5

LEMMA GInitially ==
    ASSUME GovInit
    PROVE  GInv
<1> DEFINE none == [i \in 1..MaxSchedules |-> 0]
<1>1. /\ rows = [k \in Keys |-> << >>] /\ schedules = << >> /\ opa = {}
      /\ req = [c \in Clients |-> Idle]
      /\ history = [approved |-> {}, enforced |-> {}, raced |-> {}, crossed |-> FALSE,
                    contested |-> {}, performed |-> none]
      BY DEF GovInit
<1>2. none \in [1..MaxSchedules -> Nat] /\ \A i \in 1..MaxSchedules : none[i] = 0  OBVIOUS
<1> HIDE DEF none
<1>3. /\ rows \in TableType /\ \A k \in Keys : Len(rows[k]) = 0 /\ DOMAIN rows[k] = {}
      /\ Together(rows) /\ Acyclic(rows)
      BY <1>1, NoPolicies
<1>4. /\ history.approved = {} /\ history.enforced = {} /\ history.raced = {} /\ history.crossed = FALSE
      /\ history.contested = {} /\ history.performed = none
      BY <1>1
<1>5. history \in HistoryType
  <2>1. {} \in SUBSET Version /\ {} \in SUBSET Keys /\ {} \in SUBSET Nat /\ FALSE \in BOOLEAN  OBVIOUS
  <2> QED  BY <1>1, <1>2, <2>1 DEF HistoryType
<1>6. schedules \in Seq(ScheduleType) /\ Len(schedules) = 0 /\ DOMAIN schedules = {}  BY <1>1
<1>7. TypeInv
  <2>1. MaxVersion \in Nat /\ MaxSchedules \in Nat  BY GovernanceAssumption
  <2>2. \A k \in Keys : Len(rows[k]) <= MaxVersion  BY <1>3, <2>1
  <2>3. Len(schedules) <= MaxSchedules  BY <1>6, <2>1
  <2>4. req \in [Clients -> RequestType]  BY <1>1, IdleFine
  <2>5. opa \in SUBSET Version /\ \A a \in opa : a[2] \in DOMAIN rows[a[1]]  BY <1>1
  <2>6. history.enforced \subseteq history.approved  BY <1>4
  <2>7. \A i \in DOMAIN schedules : schedules[i].version \in DOMAIN rows[schedules[i].key]  BY <1>6
  <2> QED  BY <1>3, <1>5, <1>6, <2>2, <2>3, <2>4, <2>5, <2>6, <2>7 DEF TypeInv
<1>8. RequestsInv
  <2>1. \A c \in Clients : req[c] = Idle  BY <1>1
  <2>2. Len(schedules) \in Nat  BY <1>6
  <2> QED  BY <2>1, <2>2, IdleFine DEF RequestsInv
<1>9. PoliciesInv
  <2>1. RowsOk(rows, history)  BY <1>3 DEF RowsOk
  <2> QED  BY <1>3, <2>1 DEF PoliciesInv
<1>10. SchedulesOk(req, schedules, history)
  <2>1. \A c \in Clients : req[c].sched = 0  BY <1>1, IdleFine
  <2>2. \A i \in 1..MaxSchedules : history.performed[i] = 0  BY <1>2, <1>4
  <2> QED  BY <1>6, <2>1, <2>2 DEF SchedulesOk
<1> QED  BY <1>7, <1>8, <1>9, <1>10 DEF GInv

LEMMA ClientKeeps ==
    ASSUME GInv, NEW c \in Clients, ClientStep(c) \/ process_due_schedules(c)
    PROVE  GInv'
<1>1. CASE Write(c)  BY <1>1, WriteKeeps
<1>2. CASE edit_policy(c)  BY <1>2, EditKeeps
<1>3. CASE rollback_policy(c)  BY <1>3, RollbackKeeps
<1>4. CASE TagRollback(c)  BY <1>4, TagKeeps
<1>5. CASE compile_policy(c)  BY <1>5, CompileKeeps
<1>6. CASE deploy_policy(c)  BY <1>6, DeployKeeps
<1>7. CASE StampActivation(c)  BY <1>7, StampKeeps
<1>8. CASE ReconcileOpa(c)  BY <1>8, ReconcileKeeps
<1>9. CASE Fail(c)  BY <1>9, FailKeeps
<1>10. CASE CutOff(c)  BY <1>10, CutOffKeeps
<1>11. CASE RecordSchedule(c)  BY <1>11, RecordKeeps
<1>12. CASE cancel_schedule(c)  BY <1>12, CancelKeeps
<1>13. CASE \E i \in req[c].due : TakeUp(c, i)  BY <1>13, TakeUpKeeps
<1>14. CASE MarkSchedule(c)  BY <1>14, MarkKeeps
<1>15. CASE SweepDone(c)  BY <1>15, SweepDoneKeeps
<1>16. CASE process_due_schedules(c)  BY <1>16, ProcessKeeps
<1> QED  BY <1>1, <1>2, <1>3, <1>4, <1>5, <1>6, <1>7, <1>8, <1>9, <1>10, <1>11, <1>12, <1>13, <1>14, <1>15, <1>16
         DEF ClientStep

LEMMA GovStepKeeps ==
    ASSUME GInv, GovStep
    PROVE  GInv'
<1>1. CASE \E k \in Keys, p \in Policies : create_policy(k, p)  BY <1>1, CreateKeeps
<1>2. CASE \E c \in Clients, k \in Keys, op \in Operations : \E arg \in Argument(op) : Begin(c, op, k, arg)
      BY <1>2, BeginKeeps
<1>3. CASE \E c \in Clients : ClientStep(c) \/ process_due_schedules(c)  BY <1>3, ClientKeeps
<1>4. CASE \E i \in DOMAIN schedules : BecomesDue(i) \/ \E c \in Clients : BeginCancel(c, i)
      BY <1>4, BecomesDueKeeps, BeginCancelKeeps
<1>5. CASE FactStep
  <2>1. rows' = rows /\ schedules' = schedules /\ opa' = opa /\ req' = req /\ history' = history
        BY <1>5 DEF FactStep, register_fact_source, revoke_fact_source, ingest_fact, FactExpires
  <2> QED  BY <2>1, Untouched
<1>6. CASE \E k \in Keys : \E v \in DOMAIN rows[k] : AuthorityExpires(k, v)  BY <1>6, ExpiresKeeps
<1> QED  BY <1>1, <1>2, <1>3, <1>4, <1>5, <1>6 DEF GovStep

LEMMA GInvKept ==
    ASSUME GInv, [GovNext]_govVars
    PROVE  GInv'
<1>1. CASE GovStep  BY <1>1, GovStepKeeps
<1>2. CASE UNCHANGED <<rows, schedules, opa, sources, facts, req, faults, history>>  BY <1>2, Untouched
<1>3. CASE UNCHANGED govVars  BY <1>3, Untouched DEF govVars
<1> QED  BY <1>1, <1>2, <1>3 DEF GovNext

-----------------------------------------------------------------------------
(* What the invariant says of what administrators see.                     *)

LEMMA TypesSeen ==
    ASSUME GInv
    PROVE  GovTypeOK
<1>1. /\ rows \in TableType /\ \A k \in Keys : Len(rows[k]) <= MaxVersion
      /\ schedules \in Seq(ScheduleType)
      /\ \A i \in DOMAIN schedules : schedules[i].version \in DOMAIN rows[schedules[i].key]
      /\ \A a \in opa : a[2] \in DOMAIN rows[a[1]]
      BY DEF GInv, TypeInv
<1>2. ASSUME NEW k \in Keys, NEW v \in DOMAIN rows[k]
      PROVE  rows[k][v].status \in Statuses /\ rows[k][v].rollbackOf \in 0..(v - 1)
  <2>1. rows[k][v] \in RowType /\ v \in Nat  BY <1>1 DEF TableType
  <2>2. RowOk(k, v, rows[k][v], history)  BY DEF GInv, PoliciesInv, RowsOk
  <2>3. rows[k][v].status \in Statuses /\ rows[k][v].rollbackOf \in Nat  BY <2>1 DEF RowType
  <2>4. rows[k][v].rollbackOf < v  BY <2>2 DEF RowOk
  <2> QED  BY <2>1, <2>3, <2>4
<1>3. ASSUME NEW i \in DOMAIN schedules
      PROVE  schedules[i].status \in {"pending", "executed", "failed", "cancelled"}
  <2>1. schedules[i] \in ScheduleType  BY <1>1
  <2> QED  BY <2>1 DEF ScheduleType
<1>4. ASSUME NEW c \in Clients, req[c].key # None  PROVE req[c].ver \in DOMAIN rows[req[c].key]
      BY <1>4 DEF GInv, RequestsInv, Shape
<1> QED  BY <1>1, <1>2, <1>3, <1>4 DEF GovTypeOK

LEMMA SchedulesSeen ==
    ASSUME GInv
    PROVE  ScheduleHonest
<1>1. SchedulesOk(req, schedules, history) /\ schedules \in Seq(ScheduleType)  BY DEF GInv, TypeInv
<1>2. \A i \in DOMAIN schedules : schedules[i].status = "executed" => history.performed[i] >= 1
      BY <1>1 DEF SchedulesOk
<1>3. ASSUME NEW i \in DOMAIN schedules \ history.contested
      PROVE  /\ schedules[i].status = "executed" => history.performed[i] = 1
             /\ schedules[i].status \in {"failed", "cancelled"} => history.performed[i] = 0
             /\ schedules[i].status = "pending" /\ (\A c \in Clients : req[c].sched # i) => history.performed[i] = 0
  <2>1. (\A c \in Clients : req[c].sched # i) =>
           history.performed[i] = IF schedules[i].status = "executed" THEN 1 ELSE 0
        BY <1>1 DEF SchedulesOk
  <2>2. schedules[i].status # "pending" => \A c \in Clients : req[c].sched # i
        BY <1>1 DEF SchedulesOk, Holds
  <2> QED  BY <2>1, <2>2
<1> QED  BY <1>2, <1>3 DEF ScheduleHonest

LEMMA TimelineSeen ==
    ASSUME GInv
    PROVE  HistoryHonest
<1>1. history.enforced \subseteq history.approved /\ RowsOk(rows, history)  BY DEF GInv, TypeInv, PoliciesInv
<1>2. ASSUME NEW k \in Keys \ history.raced, NEW v \in 1..MaxVersion, v \in DOMAIN rows[k]
      PROVE  /\ rows[k][v].activated \/ rows[k][v].labels # {} => <<k, v>> \in history.enforced
             /\ rows[k][v].rollbackOf # 0 => <<k, rows[k][v].rollbackOf>> \in history.enforced
  <2>1. RowOk(k, v, rows[k][v], history)  BY <1>1, <1>2 DEF RowsOk
  <2> QED  BY <2>1 DEF RowOk
<1> QED  BY <1>1, <1>2 DEF HistoryHonest

LEMMA TogetherSeen ==
    ASSUME GInv
    PROVE  SafeTogether
<1>1. rows \in TableType /\ (~history.crossed => Acyclic(rows))  BY DEF GInv, TypeInv, PoliciesInv
<1>2. {PolicyOf(a) : a \in Active} = ContentsIn(rows, ActiveIn(rows))  BY <1>1, ActiveIs
<1> QED  BY <1>1, <1>2 DEF SafeTogether, Acyclic

(* Schedules, the timeline, rollbacks and the set of active policies say   *)
(* what happened and what was checked together, whatever administrators    *)
(* and sweeps do at once, and wherever they are cut off                    *)
(* (process_due_schedules, rollback_policy, run_safety_checks).            *)
THEOREM GovernanceSoundAlways == GovSpec => []GovernanceSound
<1>1. GovInit => GInv  BY GInitially
<1>2. GInv /\ [GovNext]_govVars => GInv'  BY GInvKept
<1>3. GInv => GovernanceSound
      BY TypesSeen, SchedulesSeen, TimelineSeen, TogetherSeen DEF GovernanceSound
<1> QED  BY <1>1, <1>2, <1>3, PTL DEF GovSpec

-----------------------------------------------------------------------------
(* Nothing brings an archived policy back.                                 *)

Archived(k) == k \in Keys /\ rows[k] # << >> /\ Latest(k).status = "archived"

Stays(k) == Latest(k)'.status = "archived" /\ Len(rows'[k]) = Len(rows[k])

LEMMA NeverFromArchived ==
    ASSUME NEW op \in Operations
    PROVE  "archived" \notin AllowedFrom(op)
BY DEF Operations, AllowedFrom, Statuses

LEMMA SameStays ==
    ASSUME NEW k, Archived(k), rows'[k] = rows[k]
    PROVE  Stays(k)
BY DEF Archived, Stays, Latest

\* A version is written, and its status stays.
LEMMA WroteStays ==
    ASSUME rows \in TableType, NEW j \in Keys, NEW u \in DOMAIN rows[j], NEW new,
           Wrote(rows, rows', j, u, new), new.status = rows[j][u].status, NEW k, Archived(k)
    PROVE  Stays(k)
<1>1. k \in Keys /\ Len(rows[k]) \in DOMAIN rows[k] /\ Latest(k).status = "archived"
  <2>1. k \in Keys /\ rows[k] \in Seq(RowType) /\ rows[k] # << >> /\ Latest(k).status = "archived"
        BY DEF Archived, TableType
  <2> QED  BY <2>1
<1>2. Len(rows'[k]) = Len(rows[k])  BY <1>1 DEF Wrote
<1>3. rows'[k][Len(rows[k])].status = rows[k][Len(rows[k])].status
  <2>1. CASE k = j /\ Len(rows[k]) = u  BY <2>1 DEF Wrote
  <2>2. CASE k # j \/ Len(rows[k]) # u  BY <1>1, <2>2 DEF Wrote
  <2> QED  BY <2>1, <2>2
<1> QED  BY <1>1, <1>2, <1>3 DEF Stays, Latest

LEMMA ArchivedNotPermitted ==
    ASSUME NEW k, Archived(k), NEW op \in Operations
    PROVE  ~Permitted(op, k)
BY NeverFromArchived DEF Archived, Permitted

\* A request that has a step to write is stale, or the policy is not archived.
LEMMA WritesElsewhere ==
    ASSUME GInv, NEW c \in Clients, req[c].step = "write", NEW k, Archived(k), req[c].key = k
    PROVE  req[c].stale
<1>1. Knows(req[c], rows, history) /\ req[c].step = "write" /\ Shape(req[c], rows, Len(schedules))  BY Holder
<1>2. req[c].op \in Operations  BY <1>1 DEF Shape, OneStep, Operations
<1>3. LastOf(rows[k]).status = "archived"  BY DEF Archived, Latest, LastOf
<1> QED  BY <1>1, <1>2, <1>3, NeverFromArchived DEF Knows

LEMMA WriteStays ==
    ASSUME GInv, NEW c \in Clients, Write(c) \/ edit_policy(c), NEW k, Archived(k), k \notin history'.raced
    PROVE  Stays(k)
<1>1. rows \in TableType /\ k \in Keys  BY DEF GInv, TypeInv, Archived
<1>2. req[c].step = "write"  BY DEF Write, edit_policy
<1>3. history'.raced = Note(c)
  <2>1. history \in HistoryType  BY DEF GInv, TypeInv
  <2>2. req[c].key \in Keys /\ TypeInv /\ req[c].ver \in Nat
        /\ (req[c].sched # 0 => req[c].sched \in 1..MaxSchedules)
        BY <1>2, Holder
  <2>3. CASE edit_policy(c)
    <3>1. history' = [history EXCEPT !.raced = Note(c)]  BY <2>3 DEF edit_policy
    <3> QED  BY <2>1, <3>1 DEF HistoryType
  <2>4. CASE Write(c)
    <3>1. history' = [history EXCEPT
              !.raced = Note(c),
              !.approved = IF req[c].op = "approve" THEN @ \cup {<<req[c].key, req[c].ver>>} ELSE @,
              !.performed = IF req[c].op = "retire" THEN Performed(c) ELSE @]
          BY <2>4 DEF Write
    <3> QED  BY <2>1, <3>1 DEF HistoryType
  <2> QED  BY <2>3, <2>4
<1>4. req[c].key # k
  <2>1. req[c].stale /\ req[c].key = k => k \in Note(c)  BY DEF Note
  <2> QED  BY <1>2, <1>3, <2>1, WritesElsewhere
<1>5. rows'[k] = rows[k]
  <2>1. CASE edit_policy(c)  BY <1>1, <1>4, <2>1 DEF edit_policy, TableType
  <2>2. CASE Write(c)  BY <1>1, <1>4, <2>2 DEF Write, TableType
  <2> QED  BY <2>1, <2>2
<1> QED  BY <1>5, SameStays

LEMMA ChangeStays ==
    ASSUME GInv, NEW c \in Clients, rollback_policy(c) \/ compile_policy(c) \/ deploy_policy(c), NEW k, Archived(k)
    PROVE  Stays(k)
<1>1. rows \in TableType /\ k \in Keys  BY DEF GInv, TypeInv, Archived
<1>2. {"edit", "compile", "deploy"} \subseteq Operations  BY DEF Operations
<1>3. ~Permitted("edit", k) /\ ~Permitted("compile", k) /\ ~Permitted("deploy", k)
      BY <1>2, ArchivedNotPermitted
<1>4. rows'[k] = rows[k]
  <2>1. CASE rollback_policy(c)  BY <1>1, <1>3, <2>1 DEF rollback_policy, TableType
  <2>2. CASE compile_policy(c)  BY <1>1, <1>3, <2>2 DEF compile_policy, TableType
  <2>3. CASE deploy_policy(c)
    <3>1. CASE req[c].key = k
      <4>1. ~MayDeploy(req[c].key)  BY <1>3, <3>1 DEF MayDeploy
      <4> QED  BY <2>3, <4>1 DEF deploy_policy
    <3>2. CASE req[c].key # k
      <4> DEFINE s == [w \in DOMAIN rows[req[c].key] |->
                          IF w = Len(rows[req[c].key]) THEN [rows[req[c].key][w] EXCEPT !.status = "active"]
                          ELSE IF rows[req[c].key][w].status = "active"
                               THEN [rows[req[c].key][w] EXCEPT !.status = "retired"]
                          ELSE rows[req[c].key][w]]
      <4>1. rows' = rows \/ rows' = [rows EXCEPT ![req[c].key] = s]  BY <2>3 DEF deploy_policy
      <4> HIDE DEF s
      <4> QED  BY <1>1, <3>2, <4>1 DEF TableType
    <3> QED  BY <3>1, <3>2
  <2> QED  BY <2>1, <2>2, <2>3
<1> QED  BY <1>4, SameStays

LEMMA TagStays ==
    ASSUME GInv, NEW c \in Clients, TagRollback(c), NEW k, Archived(k)
    PROVE  Stays(k)
<1> DEFINE j == req[c].key
           u == req[c].ver
           new == [rows[j][u] EXCEPT !.rollbackOf = req[c].arg]
<1>1. req[c].step = "tag" /\ rows' = [rows EXCEPT ![j][u] = new]  BY DEF TagRollback
<1>2. /\ rows \in TableType /\ j \in Keys /\ u \in DOMAIN rows[j] /\ rows[j][u] \in RowType
      /\ req[c] \in RequestType /\ Shape(req[c], rows, Len(schedules))
      BY <1>1, Holder
<1>3. req[c].arg \in Nat
  <2>1. req[c].arg \in DOMAIN rows[j]  BY <1>1, <1>2 DEF Shape
  <2> QED  BY <1>2, <2>1 DEF TableType
<1>4. new \in RowType /\ new.status = rows[j][u].status /\ new.content = rows[j][u].content
      BY <1>2, <1>3 DEF RowType
<1> HIDE DEF new
<1>5. Wrote(rows, rows', j, u, new)  BY <1>1, <1>2, <1>4, Updated
<1> QED  BY <1>2, <1>4, <1>5, WroteStays

LEMMA StampStays ==
    ASSUME GInv, NEW c \in Clients, StampActivation(c), NEW k, Archived(k)
    PROVE  Stays(k)
<1> DEFINE j == req[c].key
           u == Len(rows[j])
           new == [rows[j][u] EXCEPT !.activated = TRUE]
<1>1. req[c].step = "stamp" /\ rows' = [rows EXCEPT ![j][u] = new]  BY DEF StampActivation
<1>2. rows \in TableType /\ j \in Keys /\ req[c].ver \in DOMAIN rows[j]  BY <1>1, Holder
<1>3. u \in DOMAIN rows[j] /\ rows[j][u] \in RowType  BY <1>2, LastIn
<1>4. new \in RowType /\ new.status = rows[j][u].status /\ new.content = rows[j][u].content
      BY <1>3 DEF RowType
<1> HIDE DEF new
<1>5. Wrote(rows, rows', j, u, new)  BY <1>1, <1>2, <1>3, <1>4, Updated
<1> QED  BY <1>2, <1>3, <1>4, <1>5, WroteStays

LEMMA ExpiresStays ==
    ASSUME GInv, NEW j \in Keys, NEW u \in DOMAIN rows[j], AuthorityExpires(j, u), NEW k, Archived(k)
    PROVE  Stays(k)
<1> DEFINE new == [rows[j][u] EXCEPT !.expired = TRUE]
<1>1. rows' = [rows EXCEPT ![j][u] = new]  BY DEF AuthorityExpires
<1>2. rows \in TableType  BY DEF GInv, TypeInv
<1>3. rows[j][u] \in RowType  BY <1>2 DEF TableType
<1>4. new \in RowType /\ new.status = rows[j][u].status /\ new.content = rows[j][u].content
      BY <1>3, ExpiredFields
<1> HIDE DEF new
<1>5. Wrote(rows, rows', j, u, new)  BY <1>1, <1>2, <1>4, Updated
<1> QED  BY <1>2, <1>4, <1>5, WroteStays

LEMMA CreateStays ==
    ASSUME GInv, NEW j \in Keys, NEW p \in Policies, create_policy(j, p), NEW k, Archived(k)
    PROVE  Stays(k)
<1>1. rows \in TableType /\ k \in Keys /\ k # j  BY DEF GInv, TypeInv, Archived, create_policy
<1>2. rows'[k] = rows[k]  BY <1>1 DEF create_policy, TableType
<1> QED  BY <1>2, SameStays

LEMMA ArchivedStep ==
    ASSUME GInv, [GovNext]_govVars, NEW k, Archived(k), k \notin history'.raced
    PROVE  Stays(k)
<1>1. CASE \E j \in Keys, p \in Policies : create_policy(j, p)  BY <1>1, CreateStays
<1>2. CASE \E j \in Keys : \E v \in DOMAIN rows[j] : AuthorityExpires(j, v)  BY <1>2, ExpiresStays
<1>3. CASE rows' = rows  BY <1>3, SameStays
<1>4. ASSUME NEW c \in Clients, ClientStep(c), rows' # rows  PROVE Stays(k)
  <2>1. \/ Write(c) \/ edit_policy(c) \/ rollback_policy(c) \/ TagRollback(c) \/ compile_policy(c)
        \/ deploy_policy(c) \/ StampActivation(c)
        BY <1>4 DEF ClientStep, ReconcileOpa, Fail, CutOff, RecordSchedule, cancel_schedule, TakeUp, MarkSchedule,
                    SweepDone
  <2> QED  BY <2>1, WriteStays, ChangeStays, TagStays, StampStays
<1>5. ASSUME GovStep, rows' # rows
      PROVE  \/ \E j \in Keys, p \in Policies : create_policy(j, p)
             \/ \E j \in Keys : \E v \in DOMAIN rows[j] : AuthorityExpires(j, v)
             \/ \E c \in Clients : ClientStep(c)
      BY <1>5 DEF GovStep, Begin, process_due_schedules, BecomesDue, BeginCancel, FactStep, register_fact_source,
                  revoke_fact_source, ingest_fact, FactExpires
<1>6. CASE GovStep  BY <1>1, <1>2, <1>3, <1>4, <1>5, <1>6
<1> QED  BY <1>3, <1>6 DEF GovNext, govVars

(* An archived policy is revived by nothing an administrator or a sweep    *)
(* does, but a request that read it before it was archived                 *)
(* (archive_policy, edit_policy, rollback_policy).                         *)
THEOREM ArchivedStaysAlways == GovSpec => ArchivedStays
<1>1. GovInit => GInv  BY GInitially
<1>2. GInv /\ [GovNext]_govVars => GInv'  BY GInvKept
<1>3. GInv /\ [GovNext]_govVars =>
         [\A k \in Keys : rows[k] # << >> /\ Latest(k).status = "archived" /\ k \notin history'.raced
                             => Latest(k)'.status = "archived" /\ Len(rows'[k]) = Len(rows[k])]_govVars
      BY ArchivedStep DEF Archived, Stays
<1> QED  BY <1>1, <1>2, <1>3, PTL DEF GovSpec, ArchivedStays

LEMMA SameRecognised ==
    ASSUME governing' = governing, NEW i
    PROVE  Recognised(i)' <=> Recognised(i)
BY DEF governing, Recognised, ActiveScopeActions, LatestActive, Latest

LEMMA SameNeeded ==
    ASSUME governing' = governing, NEW S
    PROVE  NeededFacts' = NeededFacts /\ (resolve_facts(S)' = resolve_facts(S))
BY DEF governing, NeededFacts, LatestActive, Latest, resolve_facts

LEMMA SameReady ==
    ASSUME governing' = governing, NEW i
    PROVE  Ready(i)' <=> Ready(i)
<1>1. NeededFacts' = NeededFacts   BY DEF governing, NeededFacts, LatestActive, Latest
<1>2. resolve_facts(NeededFacts)' = resolve_facts(NeededFacts)  BY <1>1 DEF governing, resolve_facts
<1> QED  BY <1>2, SameRecognised DEF Ready

LEMMA SameAnswer ==
    ASSUME governing' = governing, NEW i, NEW m
    PROVE  /\ Answer(i)' = Answer(i)
           /\ Overdue(m)' <=> Overdue(m)
           /\ Evaluated(AsBundle(opa), i)' = Evaluated(AsBundle(opa), i)
<1>1. AsBundle(opa)' = AsBundle(opa)  BY DEF governing, AsBundle, PolicyOf
<1>2. Active' = Active  BY DEF governing, Active
<1>3. Overdue(m)' <=> Overdue(m)  BY <1>2 DEF governing, Overdue, PolicyOf
<1> QED  BY <1>1, <1>3 DEF Answer

-----------------------------------------------------------------------------
(* Facts and decisions.                                                    *)

LEMMA ExpiredFact ==
    ASSUME NEW x \in FactType
    PROVE  [x EXCEPT !.expired = TRUE] \in FactType
BY DEF FactType

LEMMA FactsKept ==
    ASSUME FactsInv, [GovNext]_govVars
    PROVE  FactsInv'
<1>1. CASE facts' = facts  BY <1>1 DEF FactsInv
<1>2. ASSUME NEW s \in FactSources, NEW n \in Nonces, NEW f \in Facts, NEW v \in Values, ingest_fact(s, n, f, v)
      PROVE  FactsInv'
  <2> DEFINE x == [source |-> s, nonce |-> n, key |-> f, value |-> v, expired |-> FALSE]
  <2>1. facts' = facts \cup {x}  BY <1>2 DEF ingest_fact
  <2>2. x \in FactType  BY DEF FactType
  <2> HIDE DEF x
  <2>3. IsFiniteSet(facts')  BY <2>1, FS_AddElement DEF FactsInv
  <2> QED  BY <2>1, <2>2, <2>3 DEF FactsInv
<1>3. ASSUME NEW x \in facts, FactExpires(x)  PROVE FactsInv'
  <2> DEFINE y == [x EXCEPT !.expired = TRUE]
  <2>1. facts' = (facts \ {x}) \cup {y}  BY <1>3 DEF FactExpires
  <2>2. y \in FactType  BY <1>3, ExpiredFact DEF FactsInv
  <2> HIDE DEF y
  <2>3. IsFiniteSet(facts \ {x})  BY FS_RemoveElement DEF FactsInv
  <2>4. IsFiniteSet(facts')  BY <2>1, <2>3, FS_AddElement
  <2> QED  BY <2>1, <2>2, <2>4 DEF FactsInv
<1>4. CASE FactStep
  <2>1. CASE \E s \in FactSources : register_fact_source(s) \/ revoke_fact_source(s)
        BY <1>1, <2>1 DEF register_fact_source, revoke_fact_source
  <2> QED  BY <1>2, <1>3, <1>4, <2>1 DEF FactStep
<1>5. CASE GovStep
  <2>1. FactStep \/ facts' = facts
        BY <1>5 DEF GovStep, create_policy, Begin, process_due_schedules, BecomesDue, BeginCancel, AuthorityExpires,
                    ClientStep, Write, edit_policy, rollback_policy, TagRollback, compile_policy, deploy_policy,
                    StampActivation, ReconcileOpa, Fail, CutOff, RecordSchedule, cancel_schedule, TakeUp,
                    MarkSchedule, SweepDone
  <2> QED  BY <1>1, <1>4, <2>1
<1> QED  BY <1>1, <1>5 DEF GovNext, govVars

\* What one decision does to itself.
NextDecision(x, y) == IsDecision(y) /\ y.disturbed = x.disturbed /\ (~y.disturbed => Worked(y))

LEMMA RecogniseKeeps ==
    ASSUME NEW d \in Deciders, NEW input \in Inputs, Recognise(d, input), DecisionsInv
    PROVE  dec'[d].disturbed = FALSE /\ IsDecision(dec'[d]) /\ Worked(dec'[d])
<1> DEFINE y == IF input.action \in KnownScopes \cup ActiveScopeActions
                THEN [NoDecision EXCEPT !.step = "facts", !.input = input]
                ELSE [NoDecision EXCEPT !.step = "decided", !.input = input, !.outcome = "HUMAN_REVIEW"]
<1>1. dec' = [dec EXCEPT ![d] = y]  BY DEF Recognise
<1>2. CASE Recognised(input)
  <2>1. y = [step |-> "facts", input |-> input, outcome |-> None, matched |-> {}, disturbed |-> FALSE]
        BY <1>2 DEF Recognised, NoDecision
  <2> HIDE DEF y
  <2>2. dec'[d] = y  BY <1>1 DEF DecisionsInv
  <2> QED  BY <1>2, <2>1, <2>2 DEF IsDecision, Worked
<1>3. CASE ~Recognised(input)
  <2>1. y = [step |-> "decided", input |-> input, outcome |-> "HUMAN_REVIEW", matched |-> {}, disturbed |-> FALSE]
        BY <1>3 DEF Recognised, NoDecision
  <2> HIDE DEF y
  <2>2. dec'[d] = y  BY <1>1 DEF DecisionsInv
  <2> QED  BY <1>3, <2>1, <2>2 DEF IsDecision, Worked
<1> QED  BY <1>2, <1>3

\* What the trusted sources say of a key
Said(f) == {x.value : x \in {y \in facts : y.key = f /\ ~y.expired /\ sources[y.source] = "active"}}

LEMMA SaidIs ==
    ASSUME FactsInv, NEW f
    PROVE  /\ Said(f) = TrustedValues(f)
           /\ IsFiniteSet(Said(f)) /\ Cardinality(Said(f)) \in Nat
           /\ Said(f) # {} <=> Cardinality(Said(f)) # 0
           /\ Said(f) \subseteq Values
<1> DEFINE S == {y \in facts : y.key = f /\ ~y.expired /\ sources[y.source] = "active"}
           T == {x.value : x \in S}
<1>1. \A x \in facts : x.value \in Values  BY DEF FactsInv, FactType
<1>2. T \subseteq Values  BY <1>1
<1>3. T = TrustedValues(f)  BY <1>1 DEF TrustedValues
<1>4. IsFiniteSet(T)
  <2>1. IsFiniteSet(S)  BY FS_Subset DEF FactsInv
  <2> DEFINE g == [x \in S |-> x.value]
  <2>2. g \in Surjection(S, T)  BY DEF Surjection
  <2> HIDE DEF S, T, g
  <2> QED  BY <2>1, <2>2, FiniteImage
<1>5. T = Said(f)  BY DEF Said
<1> HIDE DEF T
<1>6. Cardinality(T) \in Nat /\ (Cardinality(T) = 0 <=> T = {})  BY <1>4, FS_CardinalityType, FS_EmptySet
<1> QED  BY <1>2, <1>3, <1>4, <1>5, <1>6

LEMMA Resolved ==
    ASSUME FactsInv, NEW S \in SUBSET Facts
    PROVE  /\ \A f \in DOMAIN resolve_facts(S) : f \in S /\ resolve_facts(S)[f] \in Values
           /\ (\A f \in Facts : Cardinality(TrustedValues(f)) <= 1) =>
                 \A f \in S : /\ f \in DOMAIN resolve_facts(S) <=> TrustedValues(f) # {}
                              /\ f \in DOMAIN resolve_facts(S) =>
                                    resolve_facts(S)[f] = CHOOSE v \in TrustedValues(f) : TRUE
<1> DEFINE one == {f \in S : Cardinality(Said(f)) = 1}
           told == [f \in one |-> CHOOSE v \in Said(f) : TRUE]
<1>1. resolve_facts(S) = IF \E f \in S : Cardinality(Said(f)) > 1 THEN << >> ELSE told
  <2> DEFINE said == [f \in S |-> Said(f)]
             some == {f \in S : Cardinality(said[f]) = 1}
             values == [f \in some |-> CHOOSE v \in said[f] : TRUE]
  <2>1. resolve_facts(S) = IF \E f \in S : Cardinality(said[f]) > 1 THEN << >> ELSE values
        BY DEF resolve_facts, Said
  <2>2. \A f \in S : said[f] = Said(f)  OBVIOUS
  <2> HIDE DEF said
  <2>3. some = one  BY <2>2
  <2>4. \A f \in one : (CHOOSE v \in said[f] : TRUE) = (CHOOSE v \in Said(f) : TRUE)  BY <2>2
  <2>5. values = told  BY <2>3, <2>4
  <2> HIDE DEF values, told
  <2> QED  BY <2>1, <2>2, <2>5
<1>2. \A f \in one : Said(f) # {} /\ Said(f) \subseteq Values  BY SaidIs
<1>3. DOMAIN told = one /\ \A f \in one : told[f] = CHOOSE v \in Said(f) : TRUE  OBVIOUS
<1>4. \A f \in one : told[f] \in Values  BY <1>2, <1>3
<1>5. one \subseteq S  OBVIOUS
<1>6. DOMAIN << >> = {}  OBVIOUS
<1> HIDE DEF told
<1>7. \A f \in DOMAIN resolve_facts(S) : f \in S /\ resolve_facts(S)[f] \in Values
      BY <1>1, <1>3, <1>4, <1>5, <1>6
<1>8. ASSUME \A f \in Facts : Cardinality(TrustedValues(f)) <= 1, NEW f \in S
      PROVE  /\ f \in DOMAIN resolve_facts(S) <=> TrustedValues(f) # {}
             /\ f \in DOMAIN resolve_facts(S) => resolve_facts(S)[f] = CHOOSE v \in TrustedValues(f) : TRUE
  <2>1. \A g \in S : Cardinality(Said(g)) \in Nat /\ Cardinality(Said(g)) <= 1  BY <1>8, SaidIs
  <2>2. \A g \in S : ~(Cardinality(Said(g)) > 1)  BY <2>1
  <2>3. resolve_facts(S) = told  BY <1>1, <2>2
  <2>4. Said(f) # {} <=> Cardinality(Said(f)) # 0  BY SaidIs
  <2>5. f \in one <=> Said(f) # {}  BY <2>1, <2>4
  <2>6. Said(f) = TrustedValues(f)  BY SaidIs
  <2> HIDE DEF one
  <2> QED  BY <1>3, <2>3, <2>5, <2>6
<1> QED  BY <1>7, <1>8

\* WithFacts gives an Intent its facts.
LEMMA WithFactsReady ==
    ASSUME NEW i \in Inputs, Recognised(i), FactsInv
    PROVE  Ready(WithFacts(i, resolve_facts(NeededFacts)))
<1> DEFINE told == resolve_facts(NeededFacts)
           w == WithFacts(i, told)
<1>1. IsInput(i)  BY GovernanceAssumption
<1>2. NeededFacts \in SUBSET Facts  BY DEF NeededFacts, FactKeys, Facts
<1>3. \A f \in DOMAIN told : told[f] \in Values  BY <1>2, Resolved
<1> HIDE DEF told
<1> DEFINE data == [f \in Fields |-> IF Section[f] # "enterprise_knowledge" THEN i.data[f]
                                     ELSE IF f \in DOMAIN told THEN told[f] ELSE Absent]
<1>4. i = [principal |-> i.principal, action |-> i.action, agent |-> i.agent, resource |-> i.resource,
           data |-> i.data] /\ i.data \in [Fields -> Values \cup {None, Absent}]
      BY <1>1 DEF IsInput
<1>5. w = [principal |-> i.principal, action |-> i.action, agent |-> i.agent, resource |-> i.resource,
           data |-> data]
      BY <1>4 DEF WithFacts
<1>6. data \in [Fields -> Values \cup {None, Absent}]  BY <1>3, <1>4
<1>7. \A f \in Facts : data[f] = IF f \in DOMAIN told THEN told[f] ELSE Absent  BY DEF Facts
<1> HIDE DEF data, w
<1>8. w.data = data /\ w.action = i.action /\ IsInput(w)  BY <1>5, <1>6 DEF IsInput
<1>9. Recognised(w)  BY <1>8 DEF Recognised
<1> QED  BY <1>7, <1>8, <1>9 DEF Ready, told, w

\* A decision goes on with what a step worked out.
Asking(x, i) == [x EXCEPT !.step = "query", !.input = i]
Answered(x, s, o, m) == [x EXCEPT !.step = s, !.outcome = o, !.matched = m]
Deciding(x, o) == [x EXCEPT !.step = "decided", !.outcome = o]

LEMMA DecisionRecords ==
    ASSUME NEW x1, NEW x2, NEW x3, NEW x4, NEW x5, NEW x,
           x = [step |-> x1, input |-> x2, outcome |-> x3, matched |-> x4, disturbed |-> x5],
           NEW s, NEW i, NEW o, NEW m
    PROVE  /\ Asking(x, i) = [step |-> "query", input |-> i, outcome |-> x3, matched |-> x4, disturbed |-> x5]
           /\ Answered(x, s, o, m) = [step |-> s, input |-> x2, outcome |-> o, matched |-> m, disturbed |-> x5]
           /\ Deciding(x, o) = [step |-> "decided", input |-> x2, outcome |-> o, matched |-> x4, disturbed |-> x5]
<1> DEFINE q == [x EXCEPT !.step = "query"]
           y == [x EXCEPT !.step = "decided"]
           z == [x EXCEPT !.step = s]
           w == [z EXCEPT !.outcome = o]
<1>1. /\ Asking(x, i) = [q EXCEPT !.input = i] /\ Answered(x, s, o, m) = [w EXCEPT !.matched = m]
      /\ Deciding(x, o) = [y EXCEPT !.outcome = o]
      BY DEF Asking, Answered, Deciding
<1>2. q = [step |-> "query", input |-> x2, outcome |-> x3, matched |-> x4, disturbed |-> x5]  OBVIOUS
<1>3. y = [step |-> "decided", input |-> x2, outcome |-> x3, matched |-> x4, disturbed |-> x5]  OBVIOUS
<1>4. z = [step |-> s, input |-> x2, outcome |-> x3, matched |-> x4, disturbed |-> x5]  OBVIOUS
<1>5. w = [z EXCEPT !.outcome = o]  OBVIOUS
<1> HIDE DEF q, y, z
<1>6. w = [step |-> s, input |-> x2, outcome |-> o, matched |-> x4, disturbed |-> x5]  BY <1>4, <1>5
<1> HIDE DEF w
<1>7. [q EXCEPT !.input = i] = [step |-> "query", input |-> i, outcome |-> x3, matched |-> x4, disturbed |-> x5]
      BY <1>2
<1>8. [w EXCEPT !.matched = m] = [step |-> s, input |-> x2, outcome |-> o, matched |-> m, disturbed |-> x5]
      BY <1>6
<1>9. [y EXCEPT !.outcome = o] = [step |-> "decided", input |-> x2, outcome |-> o, matched |-> x4, disturbed |-> x5]
      BY <1>3
<1> QED  BY <1>1, <1>7, <1>8, <1>9

LEMMA DecisionFields ==
    ASSUME NEW x, IsDecision(x), NEW s, NEW i, NEW o, NEW m
    PROVE  /\ Asking(x, i) =
                 [step |-> "query", input |-> i, outcome |-> x.outcome, matched |-> x.matched, disturbed |-> x.disturbed]
           /\ Answered(x, s, o, m) =
                 [step |-> s, input |-> x.input, outcome |-> o, matched |-> m, disturbed |-> x.disturbed]
           /\ Deciding(x, o) =
                 [step |-> "decided", input |-> x.input, outcome |-> o, matched |-> x.matched, disturbed |-> x.disturbed]
<1>1. x = [step |-> x.step, input |-> x.input, outcome |-> x.outcome, matched |-> x.matched,
           disturbed |-> x.disturbed]
      BY DEF IsDecision
<1> QED  BY <1>1, DecisionRecords

LEMMA ResolveKeeps ==
    ASSUME NEW d \in Deciders, ResolveFacts(d), DecisionsInv, FactsInv
    PROVE  NextDecision(dec[d], dec'[d])
<1> DEFINE w == WithFacts(dec[d].input, resolve_facts(NeededFacts))
           x == dec[d]
           y == Asking(x, w)
<1>1. dec' = [dec EXCEPT ![d] = y] /\ x.step = "facts"  BY DEF ResolveFacts, Asking
<1>2. IsDecision(x) /\ (~x.disturbed => Worked(x)) /\ dec = [e \in Deciders |-> dec[e]]  BY DEF DecisionsInv
<1>3. ~x.disturbed => Ready(w)
  <2>1. ~x.disturbed => x.input \in Inputs /\ Recognised(x.input)  BY <1>1, <1>2 DEF Worked
  <2> QED  BY <2>1, WithFactsReady
<1> HIDE DEF w, x
<1>4. y = [step |-> "query", input |-> w, outcome |-> x.outcome, matched |-> x.matched, disturbed |-> x.disturbed]
      BY <1>2, DecisionFields
<1>5. dec'[d] = y  BY <1>1, <1>2
<1> HIDE DEF y
<1>6. y.step = "query" /\ y.input = w /\ y.disturbed = x.disturbed  BY <1>4
<1>7. IsDecision(y)  BY <1>2, <1>4 DEF IsDecision
<1>8. ~y.disturbed => Worked(y)  BY <1>3, <1>6 DEF Worked
<1> QED  BY <1>5, <1>6, <1>7, <1>8 DEF NextDecision, x

LEMMA QueryKeeps ==
    ASSUME NEW d \in Deciders, Query(d), DecisionsInv
    PROVE  NextDecision(dec[d], dec'[d])
<1> DEFINE x == dec[d]
           o == Answer(x.input)
           m == Evaluated(AsBundle(opa), x.input)
           s == IF o = "ALLOW" THEN "freshness" ELSE "decided"
           y == Answered(x, s, o, m)
<1>1. dec' = [dec EXCEPT ![d] = y] /\ x.step = "query"  BY DEF Query, Answer, Answered
<1>2. IsDecision(x) /\ (~x.disturbed => Worked(x)) /\ dec = [e \in Deciders |-> dec[e]]  BY DEF DecisionsInv
<1>3. ~x.disturbed => Ready(x.input)  BY <1>1, <1>2 DEF Worked
<1>4. s \in {"freshness", "decided"} /\ (s = "freshness" <=> o = "ALLOW")  OBVIOUS
<1>5. o = Answer(x.input) /\ m = Evaluated(AsBundle(opa), x.input)  OBVIOUS
<1> HIDE DEF x, o, m, s
<1>6. y = [step |-> s, input |-> x.input, outcome |-> o, matched |-> m, disturbed |-> x.disturbed]
      BY <1>2, <1>4, DecisionFields
<1>7. dec'[d] = y  BY <1>1, <1>2
<1> HIDE DEF y
<1>8. y.step = s /\ y.input = x.input /\ y.outcome = o /\ y.matched = m /\ y.disturbed = x.disturbed  BY <1>6
<1>9. IsDecision(y)  BY <1>2, <1>4, <1>6 DEF IsDecision
<1>10. ~y.disturbed => Worked(y)
  <2>1. CASE s = "freshness"  BY <1>3, <1>4, <1>5, <1>8, <2>1 DEF Worked
  <2>2. CASE s = "decided"  BY <1>3, <1>4, <1>5, <1>8, <2>2 DEF Worked
  <2> QED  BY <1>4, <2>1, <2>2
<1> QED  BY <1>7, <1>8, <1>9, <1>10 DEF NextDecision, x

LEMMA FreshnessKeeps ==
    ASSUME NEW d \in Deciders, Freshness(d), DecisionsInv
    PROVE  NextDecision(dec[d], dec'[d])
<1> DEFINE x == dec[d]
           o == IF Overdue(x.matched) THEN "HUMAN_REVIEW" ELSE "ALLOW"
           y == Deciding(x, o)
<1>1. dec' = [dec EXCEPT ![d] = y] /\ x.step = "freshness"  BY DEF Freshness, Overdue, Decided, Deciding
<1>2. IsDecision(x) /\ (~x.disturbed => Worked(x)) /\ dec = [e \in Deciders |-> dec[e]]  BY DEF DecisionsInv
<1>3. ~x.disturbed =>
         Ready(x.input) /\ Answer(x.input) = "ALLOW" /\ x.matched = Evaluated(AsBundle(opa), x.input)
      BY <1>1, <1>2 DEF Worked
<1>4. o = IF Overdue(x.matched) THEN "HUMAN_REVIEW" ELSE "ALLOW"  OBVIOUS
<1> HIDE DEF x, o
<1>5. y = [step |-> "decided", input |-> x.input, outcome |-> o, matched |-> x.matched, disturbed |-> x.disturbed]
      BY <1>2, DecisionFields
<1>6. dec'[d] = y  BY <1>1, <1>2
<1> HIDE DEF y
<1>7. y.step = "decided" /\ y.input = x.input /\ y.outcome = o /\ y.disturbed = x.disturbed  BY <1>5
<1>8. IsDecision(y)  BY <1>2, <1>5 DEF IsDecision
<1>9. ~y.disturbed => Worked(y)
  <2>1. SUFFICES ASSUME ~y.disturbed  PROVE Worked(y)  OBVIOUS
  <2>2. Ready(y.input) /\ Answer(y.input) = "ALLOW" /\ x.matched = Evaluated(AsBundle(opa), y.input)
        BY <1>3, <1>7, <2>1
  <2>3. y.outcome = IF Overdue(Evaluated(AsBundle(opa), y.input)) THEN "HUMAN_REVIEW" ELSE "ALLOW"
        BY <1>4, <1>7, <2>2
  <2> QED  BY <1>7, <2>2, <2>3 DEF Worked
<1> QED  BY <1>6, <1>7, <1>8, <1>9 DEF NextDecision, x

LEMMA IdleDecision ==
    /\ IsDecision(NoDecision) /\ Worked(NoDecision)
    /\ NoDecision.disturbed = FALSE /\ NoDecision.step = "idle"
BY DEF IsDecision, Worked, NoDecision

\* What a step of one decision leaves of it.
Sound(y) == IsDecision(y) /\ (~y.disturbed => Worked(y))

LEMMA DecideKeeps ==
    ASSUME NEW d \in Deciders, Decide(d), DecisionsInv, FactsInv
    PROVE  Sound(dec'[d]) /\ dec' = [e \in Deciders |-> IF e = d THEN dec'[d] ELSE dec[e]]
<1>1. dec = [e \in Deciders |-> dec[e]]  BY DEF DecisionsInv
<1>2. ASSUME NEW y, dec' = [dec EXCEPT ![d] = y]
      PROVE  dec' = [e \in Deciders |-> IF e = d THEN dec'[d] ELSE dec[e]] /\ dec'[d] = y
      BY <1>1, <1>2
<1>3. ASSUME NEW input \in Inputs, Recognise(d, input)
      PROVE  Sound(dec'[d]) /\ dec' = [e \in Deciders |-> IF e = d THEN dec'[d] ELSE dec[e]]
  <2> DEFINE y == IF input.action \in KnownScopes \cup ActiveScopeActions
                  THEN [NoDecision EXCEPT !.step = "facts", !.input = input]
                  ELSE [NoDecision EXCEPT !.step = "decided", !.input = input, !.outcome = "HUMAN_REVIEW"]
  <2>1. dec' = [dec EXCEPT ![d] = y]  BY <1>3 DEF Recognise
  <2> HIDE DEF y
  <2>2. IsDecision(dec'[d]) /\ Worked(dec'[d])  BY <1>3, RecogniseKeeps
  <2> QED  BY <1>2, <2>1, <2>2 DEF Sound
<1>4. CASE ResolveFacts(d)
  <2> DEFINE y == [dec[d] EXCEPT !.step = "query", !.input = WithFacts(dec[d].input, resolve_facts(NeededFacts))]
  <2>1. dec' = [dec EXCEPT ![d] = y]  BY <1>4 DEF ResolveFacts
  <2> HIDE DEF y
  <2>2. NextDecision(dec[d], dec'[d])  BY <1>4, ResolveKeeps
  <2> QED  BY <1>2, <2>1, <2>2 DEF Sound, NextDecision
<1>5. CASE Query(d)
  <2> DEFINE o == Answer(dec[d].input)
             y == [dec[d] EXCEPT !.step = IF o = "ALLOW" THEN "freshness" ELSE "decided",
                                 !.outcome = o, !.matched = Evaluated(AsBundle(opa), dec[d].input)]
  <2>1. dec' = [dec EXCEPT ![d] = y]  BY <1>5 DEF Query, Answer
  <2> HIDE DEF y
  <2>2. NextDecision(dec[d], dec'[d])  BY <1>5, QueryKeeps
  <2> QED  BY <1>2, <2>1, <2>2 DEF Sound, NextDecision
<1>6. CASE Freshness(d)
  <2> DEFINE y == [dec[d] EXCEPT !.step = "decided",
                                 !.outcome = IF Overdue(dec[d].matched) THEN "HUMAN_REVIEW" ELSE "ALLOW"]
  <2>1. dec' = [dec EXCEPT ![d] = y]  BY <1>6 DEF Freshness, Decided, Overdue
  <2> HIDE DEF y
  <2>2. NextDecision(dec[d], dec'[d])  BY <1>6, FreshnessKeeps
  <2> QED  BY <1>2, <2>1, <2>2 DEF Sound, NextDecision
<1>7. CASE Record(d)
  <2>1. dec' = [dec EXCEPT ![d] = NoDecision]  BY <1>7 DEF Record
  <2>2. dec'[d] = NoDecision  BY <1>2, <2>1
  <2> QED  BY <1>2, <2>1, <2>2, IdleDecision DEF Sound
<1> QED  BY <1>3, <1>4, <1>5, <1>6, <1>7 DEF Decide

\* Nothing a decision has worked out changes with what it was worked out from.
LEMMA WorkedOn ==
    ASSUME governing' = governing, NEW d, Worked(dec'[d])
    PROVE  Worked(dec[d])'
<1>1. ActiveScopeActions' = ActiveScopeActions  BY DEF governing, ActiveScopeActions, LatestActive, Latest
<1>2. NeededFacts' = NeededFacts   BY DEF governing, NeededFacts, LatestActive, Latest
<1>3. resolve_facts(NeededFacts)' = resolve_facts(NeededFacts)  BY <1>2 DEF governing, resolve_facts
<1>4. AsBundle(opa)' = AsBundle(opa)  BY DEF governing, AsBundle, PolicyOf
<1>5. Active' = Active  BY DEF governing, Active
<1>6. Recognised(dec[d].input)' <=> Recognised(dec'[d].input)  BY <1>1 DEF Recognised
<1>7. Ready(dec[d].input)' <=> Ready(dec'[d].input)  BY <1>3, <1>6 DEF Ready
<1>8. /\ Answer(dec[d].input)' = Answer(dec'[d].input)
      /\ Evaluated(AsBundle(opa), dec[d].input)' = Evaluated(AsBundle(opa), dec'[d].input)
      BY <1>4 DEF Answer
<1>9. Overdue(Evaluated(AsBundle(opa), dec[d].input))' <=> Overdue(Evaluated(AsBundle(opa), dec'[d].input))
      BY <1>5, <1>8 DEF governing, Overdue, PolicyOf
<1> QED  BY <1>6, <1>7, <1>8, <1>9 DEF Worked

LEMMA DecisionsKept ==
    ASSUME DecisionsInv, FactsInv, [GovNext]_govVars
    PROVE  DecisionsInv'
<1>1. dec = [d \in Deciders |-> dec[d]] /\ \A d \in Deciders : Sound(dec[d])  BY DEF DecisionsInv, Sound
<1>2. ASSUME governing' = governing, dec' = [d \in Deciders |-> dec'[d]], \A d \in Deciders : Sound(dec'[d])
      PROVE  DecisionsInv'
  <2>1. ASSUME NEW d \in Deciders  PROVE IsDecision(dec'[d]) /\ (~dec'[d].disturbed => Worked(dec[d])')
        BY <1>2, WorkedOn DEF Sound
  <2> QED  BY <1>2, <2>1 DEF DecisionsInv, IsDecision
<1>3. CASE GovStep /\ Unnoticed
  <2>1. dec' = [d \in Deciders |-> IF dec[d].step # "idle" /\ governing' # governing
                               THEN [dec[d] EXCEPT !.disturbed = TRUE] ELSE dec[d]]
        BY <1>3 DEF Unnoticed
  <2>2. dec' = [d \in Deciders |-> dec'[d]]  BY <2>1
  <2>3. CASE governing' = governing
    <3>1. \A d \in Deciders : dec'[d] = dec[d]  BY <2>1, <2>3
    <3> QED  BY <1>1, <1>2, <2>2, <2>3, <3>1
  <2>4. CASE governing' # governing
    <3>1. ASSUME NEW d \in Deciders  PROVE IsDecision(dec'[d]) /\ (~dec'[d].disturbed => Worked(dec[d])')
      <4>1. IsDecision(dec[d])  BY <1>1 DEF Sound
      <4>2. CASE dec[d].step = "idle"
        <5>1. dec'[d] = dec[d]  BY <2>1, <4>2
        <5> QED  BY <4>1, <4>2, <5>1 DEF Worked
      <4>3. CASE dec[d].step # "idle"
        <5>1. dec'[d] = [dec[d] EXCEPT !.disturbed = TRUE]  BY <2>1, <2>4, <4>3
        <5>2. dec'[d] = [step |-> dec[d].step, input |-> dec[d].input, outcome |-> dec[d].outcome,
                         matched |-> dec[d].matched, disturbed |-> TRUE]
              BY <4>1, <5>1 DEF IsDecision
        <5> QED  BY <4>1, <5>2 DEF IsDecision
      <4> QED  BY <4>2, <4>3
    <3> QED  BY <2>2, <3>1 DEF DecisionsInv, IsDecision
  <2> QED  BY <2>3, <2>4
<1>4. ASSUME NEW d \in Deciders, Decide(d), UNCHANGED <<rows, schedules, opa, sources, facts, req, faults, history>>
      PROVE  DecisionsInv'
  <2>1. governing' = governing  BY <1>4 DEF governing
  <2>2. Sound(dec'[d]) /\ dec' = [e \in Deciders |-> IF e = d THEN dec'[d] ELSE dec[e]]  BY <1>4, DecideKeeps
  <2>3. \A e \in Deciders : Sound(dec'[e])  BY <1>1, <2>2
  <2>4. dec' = [e \in Deciders |-> dec'[e]]  BY <2>2
  <2> QED  BY <1>2, <2>1, <2>3, <2>4
<1>5. CASE UNCHANGED govVars
  <2>1. governing' = governing /\ dec' = dec  BY <1>5 DEF governing, govVars
  <2> QED  BY <1>1, <1>2, <2>1
<1> QED  BY <1>3, <1>4, <1>5 DEF GovNext

LEMMA DecisionsInitially ==
    ASSUME GovInit
    PROVE  DecisionsInv /\ FactsInv
<1>1. dec = [d \in Deciders |-> NoDecision] /\ facts = {}  BY DEF GovInit
<1>2. FactsInv  BY <1>1, FS_EmptySet DEF FactsInv
<1>3. DecisionsInv  BY <1>1, IdleDecision DEF DecisionsInv
<1> QED  BY <1>2, <1>3

-----------------------------------------------------------------------------
(* What a decision makes of the active versions and the trusted facts.     *)

AllLatest == \A k \in Keys : ~Shadowed(k)

LEMMA ActiveLatest ==
    ASSUME GInv, AllLatest
    PROVE  /\ \A a \in Active : a[2] = Len(rows[a[1]]) /\ PolicyOf(a) = Latest(a[1]).content
           /\ \A a, b \in Active : a[1] = b[1] => a = b
           /\ LatestActive = {a[1] : a \in Active}
           /\ {Latest(k).content : k \in LatestActive} = {PolicyOf(a) : a \in Active}
           /\ ActiveScopeActions = {PolicyOf(a).action : a \in Active}
<1>1. rows \in TableType  BY DEF GInv, TypeInv
<1>2. /\ Active = ActiveIn(rows) /\ Active \in SUBSET Version
      /\ \A a \in Active : a[1] \in Keys /\ a[2] \in DOMAIN rows[a[1]]
      BY <1>1, ActiveIs
<1>3. \A a \in Active : a[2] = Len(rows[a[1]])  BY <1>2 DEF AllLatest, Shadowed
<1>4. \A a \in Active : PolicyOf(a) = Latest(a[1]).content  BY <1>3 DEF PolicyOf, Latest
<1>5. \A a, b \in Active : a[1] = b[1] => a = b
  <2>1. \A a \in Active : a = <<a[1], a[2]>>  BY <1>2 DEF Version
  <2> QED  BY <1>3, <2>1
<1>6. LatestActive = {a[1] : a \in Active}
  <2>1. ASSUME NEW k \in LatestActive  PROVE k \in {a[1] : a \in Active}
    <3>1. k \in Keys /\ rows[k] \in Seq(RowType) /\ rows[k] # << >> /\ Latest(k).status = "active"
          BY <1>1 DEF LatestActive, TableType
    <3>2. Len(rows[k]) \in DOMAIN rows[k] /\ Len(rows[k]) \in Nat  BY <3>1
    <3>3. <<k, Len(rows[k])>> \in Version  BY <3>1, <3>2 DEF Version
    <3>4. <<k, Len(rows[k])>> \in ActiveIn(rows)  BY <3>1, <3>2, <3>3 DEF ActiveIn, RowAt, Latest
    <3> QED  BY <1>2, <3>4
  <2>2. ASSUME NEW a \in Active  PROVE a[1] \in LatestActive
    <3>1. a[1] \in Keys /\ a[2] \in DOMAIN rows[a[1]] /\ rows[a[1]][a[2]].status = "active"
          BY <1>2 DEF ActiveIn, RowAt
    <3>2. rows[a[1]] # << >>  BY <3>1
    <3> QED  BY <1>3, <3>1, <3>2 DEF LatestActive, Latest
  <2> QED  BY <2>1, <2>2
<1>7. {Latest(k).content : k \in LatestActive} = {PolicyOf(a) : a \in Active}  BY <1>4, <1>6
<1>8. ActiveScopeActions = {PolicyOf(a).action : a \in Active}  BY <1>4, <1>6 DEF ActiveScopeActions
<1> QED  BY <1>3, <1>4, <1>5, <1>6, <1>7, <1>8

\* The Intent with the facts every trusted source agrees on
Believed(i) ==
    [i EXCEPT !.data = [f \in Fields |->
        IF f \notin Facts THEN i.data[f]
        ELSE IF TrustedValues(f) = {} THEN Absent
        ELSE CHOOSE v \in TrustedValues(f) : TRUE]]

Agreed == \A f \in Facts : Cardinality(TrustedValues(f)) <= 1

LEMMA SameMatches ==
    ASSUME GInv, FactsInv, AllLatest, Agreed, NEW i, Ready(i), NEW a \in Active
    PROVE  Matches(PolicyOf(a), i) <=> Matches(PolicyOf(a), Believed(i))
<1> DEFINE p == PolicyOf(a)
           data == [f \in Fields |-> IF f \notin Facts THEN i.data[f]
                                     ELSE IF TrustedValues(f) = {} THEN Absent
                                     ELSE CHOOSE v \in TrustedValues(f) : TRUE]
           told == resolve_facts(NeededFacts)
           j == Believed(i)
<1>1. i = [principal |-> i.principal, action |-> i.action, agent |-> i.agent, resource |-> i.resource,
           data |-> i.data]
      BY DEF Ready, IsInput
<1>2. j = [principal |-> i.principal, action |-> i.action, agent |-> i.agent, resource |-> i.resource,
           data |-> data]
  <2>1. j = [i EXCEPT !.data = data]  BY DEF Believed
  <2> HIDE DEF j, data
  <2> QED  BY <1>1, <2>1
<1>3. NeededFacts \in SUBSET Facts  BY DEF NeededFacts, FactKeys, Facts
<1>4. ASSUME NEW c \in Conditions(p)  PROVE c.field \in Fields /\ data[c.field] = i.data[c.field]
  <2>1. c.field \in Fields
    <3>1. rows \in TableType  BY DEF GInv, TypeInv
    <3>2. a[1] \in Keys /\ a[2] \in DOMAIN rows[a[1]]  BY <3>1, ActiveIs
    <3>3. rows[a[1]][a[2]] \in RowType  BY <3>1, <3>2 DEF TableType
    <3>4. p \in Policies  BY <3>3 DEF RowType, PolicyOf
    <3> QED  BY <3>4, GovernanceAssumption DEF IsPolicy, IsCondition
  <2>2. CASE c.field \notin Facts  BY <2>1, <2>2
  <2>3. CASE c.field \in Facts
    <3>1. c.field \in NeededFacts
      <4>1. p \in {Latest(k).content : k \in LatestActive}  BY ActiveLatest
      <4>2. Section[c.field] = "enterprise_knowledge"  BY <2>3 DEF Facts
      <4>3. On(p, c.field) # {}  BY DEF On
      <4> QED  BY <2>1, <4>1, <4>2, <4>3 DEF NeededFacts, FactKeys
    <3>2. /\ c.field \in DOMAIN told <=> TrustedValues(c.field) # {}
          /\ c.field \in DOMAIN told => told[c.field] = CHOOSE v \in TrustedValues(c.field) : TRUE
          BY <1>3, <3>1, Resolved DEF Agreed
    <3>3. i.data[c.field] = IF c.field \in DOMAIN told THEN told[c.field] ELSE Absent  BY <2>3 DEF Ready
    <3> HIDE DEF told
    <3> QED  BY <2>1, <2>3, <3>2, <3>3
  <2> QED  BY <2>1, <2>2, <2>3
<1> HIDE DEF p, data, j
<1>5. j.principal = i.principal /\ j.action = i.action /\ j.agent = i.agent /\ j.resource = i.resource /\ j.data = data
      BY <1>2
<1>6. \A c \in Conditions(p) : j.data[c.field] = i.data[c.field]  BY <1>4, <1>5
<1>7. Matches(p, i) <=> Matches(p, j)  BY <1>5, <1>6 DEF Matches
<1> QED  BY <1>7 DEF p, j

\* The bundle OPA serves is that of the active versions.
LEMMA ServedBundle ==
    ASSUME GInv, opa = Active
    PROVE  /\ DOMAIN AsBundle(opa) = Active /\ \A a \in Active : AsBundle(opa)[a] = PolicyOf(a)
           /\ compiles(AsBundle(opa))
           /\ \A a \in Active : IsPolicy(AsBundle(opa)[a]) /\ PolicyOf(a).effect \in Effects
<1>1. rows \in TableType /\ Together(rows)  BY DEF GInv, TypeInv, PoliciesInv
<1>2. DOMAIN AsBundle(opa) = Active /\ \A a \in Active : AsBundle(opa)[a] = PolicyOf(a)  BY DEF AsBundle
<1>3. AsBundle(opa) = [a \in ActiveIn(rows) |-> RowAt(rows, a).content]  BY <1>1, ActiveIs
<1>4. compiles(AsBundle(opa))  BY <1>1, <1>3 DEF Together, uploads
<1>5. ASSUME NEW a \in Active  PROVE IsPolicy(PolicyOf(a))
  <2>1. a[1] \in Keys /\ a[2] \in DOMAIN rows[a[1]]  BY <1>1, ActiveIs
  <2>2. rows[a[1]][a[2]] \in RowType  BY <1>1, <2>1 DEF TableType
  <2>3. PolicyOf(a) \in Policies  BY <2>2 DEF RowType, PolicyOf
  <2> QED  BY <2>3, GovernanceAssumption
<1>6. \A a \in Active : PolicyOf(a).effect \in Effects  BY <1>2, <1>4 DEF compiles, NoErrors, validate
<1> QED  BY <1>2, <1>4, <1>5, <1>6

\* The Intent was recognised, and the facts resolved.
LEMMA ReadyRightful ==
    ASSUME GInv, FactsInv, AllLatest, Agreed, opa = Active,
           \A x, y \in Active : KindsApart(PolicyOf(x), PolicyOf(y)), NEW i, Ready(i)
    PROVE  Rightful(i) = IF Answer(i) # "ALLOW" THEN Answer(i)
                         ELSE IF Overdue(Evaluated(AsBundle(opa), i)) THEN "HUMAN_REVIEW" ELSE "ALLOW"
<1> DEFINE b == AsBundle(opa)
           E == Evaluated(b, i)
           deciding == {a \in Active : Matches(PolicyOf(a), Believed(i))}
           late == \E a \in deciding : PolicyOf(a).risk = "high" /\ rows[a[1]][a[2]].expired
           effect == PolicyOf(CHOOSE a \in deciding : TRUE).effect
<1>1. Recognised(i) /\ i.data \in [Fields -> Given]  BY DEF Ready, IsInput, Given
<1>2. i.action \in KnownScopes \cup {PolicyOf(a).action : a \in Active}  BY <1>1, ActiveLatest DEF Recognised
<1> DEFINE verdict == CASE effect = "allow" -> IF late THEN "HUMAN_REVIEW" ELSE "ALLOW"
                        [] effect = "deny" -> "DENY"
                        [] effect = "require_human_review" -> "HUMAN_REVIEW"
<1>3. Rightful(i) = IF Active = {} THEN "HUMAN_REVIEW" ELSE IF deciding = {} THEN "DENY" ELSE verdict
  <2>1. Rightful(i) = IF i.action \notin KnownScopes \cup {PolicyOf(a).action : a \in Active} \/ Active = {}
                      THEN "HUMAN_REVIEW" ELSE IF deciding = {} THEN "DENY" ELSE verdict
        BY DEF Rightful, Believed
  <2> HIDE DEF verdict, deciding
  <2> QED  BY <1>2, <2>1
<1>4. /\ DOMAIN b = Active /\ \A a \in Active : b[a] = PolicyOf(a)
      /\ compiles(b)
      /\ \A a \in Active : IsPolicy(b[a]) /\ PolicyOf(a).effect \in Effects
      BY ServedBundle
<1>5. deciding = E  BY <1>4, SameMatches DEF Evaluated
<1>6. Answer(i) = evaluate(b, i, FALSE)  BY DEF Answer
<1>7. E \subseteq Active  BY <1>4 DEF Evaluated
<1>10. \A k, l \in DOMAIN b : KindsApart(b[k], b[l])  BY <1>4
<1>8. CASE Active = {}
  <2>1. Answer(i) = "HUMAN_REVIEW"  BY <1>4, <1>6, <1>8 DEF evaluate
  <2> QED  BY <1>3, <1>8, <2>1
<1>9. CASE Active # {}
  <2> HIDE DEF b
  <2>1. (\A k, l \in E : k = l) /\ Answer(i) = FromFlags(Flags(b, i))  BY <1>1, <1>4, <1>6, <1>9, <1>10, EvaluateCompiled
  <2>2. CASE E = {}
    <3>1. Answer(i) = "DENY"  BY <2>1, <2>2, VerdictOf
    <3> QED  BY <1>3, <1>5, <1>9, <2>2, <3>1
  <2>3. CASE E # {}
    <3>1. PICK a \in E : TRUE  BY <2>3
    <3>2. (CHOOSE x \in deciding : TRUE) \in E  BY <1>5, <2>3
    <3>3. effect = PolicyOf(a).effect  BY <2>1, <3>2
    <3>4. PolicyOf(a).effect \in Effects /\ b[a] = PolicyOf(a)  BY <1>4, <1>7
    <3>5. /\ effect = "allow" => Answer(i) = "ALLOW"
          /\ effect = "deny" => Answer(i) = "DENY"
          /\ effect \notin {"allow", "deny"} => Answer(i) = "HUMAN_REVIEW"
          BY <2>1, <3>3, <3>4, VerdictOf
    <3>6. late <=> Overdue(E)
      <4>1. ASSUME NEW x \in Active, NEW m \in E, x[1] = m[1]  PROVE x \in E
            BY <1>7, <4>1, ActiveLatest
      <4>2. late <=> \E x \in E : PolicyOf(x).risk = "high" /\ rows[x[1]][x[2]].expired  BY <1>5
      <4> HIDE DEF late, E
      <4> QED  BY <1>7, <4>1, <4>2 DEF Overdue
    <3>7. effect \in {"allow", "deny", "require_human_review"}  BY <3>3, <3>4 DEF Effects
    <3>8. Evaluated(AsBundle(opa), i) = E  BY DEF b
    <3> HIDE DEF effect, late, E, deciding
    <3>9. Rightful(i) = CASE effect = "allow" -> IF late THEN "HUMAN_REVIEW" ELSE "ALLOW"
                          [] effect = "deny" -> "DENY"
                          [] effect = "require_human_review" -> "HUMAN_REVIEW"
          BY <1>3, <1>5, <1>9, <2>3
    <3>10. CASE effect = "allow"  BY <3>5, <3>6, <3>8, <3>9, <3>10
    <3>11. CASE effect = "deny"  BY <3>5, <3>9, <3>11
    <3>12. CASE effect = "require_human_review"  BY <3>5, <3>9, <3>12
    <3> QED  BY <3>7, <3>10, <3>11, <3>12
  <2> QED  BY <2>2, <2>3
<1> QED  BY <1>8, <1>9

LEMMA DecisionsSeen ==
    ASSUME GInv, FactsInv, DecisionsInv
    PROVE  DecisionCurrent
<1> SUFFICES ASSUME NEW d \in Deciders, Settled(d), \A k \in Keys : ~Shadowed(k)
             PROVE  dec[d].outcome = Rightful(dec[d].input)
    BY DEF DecisionCurrent
<1>1. /\ dec[d].step = "decided" /\ opa = Active /\ Agreed /\ AllLatest
      /\ \A x, y \in Active : KindsApart(PolicyOf(x), PolicyOf(y))
      BY DEF Settled, Agreed, AllLatest
<1>2. Worked(dec[d])  BY DEF Settled, DecisionsInv
<1>3. CASE ~Recognised(dec[d].input) /\ dec[d].outcome = "HUMAN_REVIEW"
  <2>1. dec[d].input.action \notin KnownScopes \cup {PolicyOf(a).action : a \in Active}
        BY <1>1, <1>3, ActiveLatest DEF Recognised
  <2> QED  BY <1>3, <2>1 DEF Rightful
<1>4. CASE Ready(dec[d].input) /\ Answer(dec[d].input) # "ALLOW" /\ dec[d].outcome = Answer(dec[d].input)
      BY <1>1, <1>4, ReadyRightful
<1>5. CASE /\ Ready(dec[d].input) /\ Answer(dec[d].input) = "ALLOW"
           /\ dec[d].outcome = IF Overdue(Evaluated(AsBundle(opa), dec[d].input)) THEN "HUMAN_REVIEW" ELSE "ALLOW"
      BY <1>1, <1>5, ReadyRightful
<1> QED  BY <1>1, <1>2, <1>3, <1>4, <1>5 DEF Worked

(* A decision nothing disturbed is what the active versions, the facts     *)
(* trusted now and the expiry of high-risk authority make it, after any    *)
(* history of versions, facts and sources, as long as every active version *)
(* is its key's latest and no field of theirs is compared with booleans    *)
(* and numbers both (is_recognized_scope, resolve_facts,                   *)
(* decision_engine.evaluate, find_expired_high_risk_authority).            *)
THEOREM DecisionCurrentAlways == GovSpec => []DecisionCurrent
<1>1. GovInit => GInv /\ FactsInv /\ DecisionsInv  BY GInitially, DecisionsInitially
<1>2. GInv /\ FactsInv /\ DecisionsInv /\ [GovNext]_govVars => (GInv /\ FactsInv /\ DecisionsInv)'
      BY GInvKept, FactsKept, DecisionsKept
<1>3. GInv /\ FactsInv /\ DecisionsInv => DecisionCurrent  BY DecisionsSeen
<1> QED  BY <1>1, <1>2, <1>3, PTL DEF GovSpec

=============================================================================
