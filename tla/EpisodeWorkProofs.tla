--------------------------- MODULE EpisodeWorkProofs ---------------------------
(***************************************************************************)
(* Proofs about the components of EpisodeWork that read the Episode, for   *)
(* any values of their constants: one invariant per component, which the   *)
(* steps of the others leave alone.                                        *)
(***************************************************************************)
EXTENDS EpisodeWork, FiniteSetTheorems, SequenceTheorems, WellFoundedInduction, TLAPS

\* A step of the whole is a step of a component, or leaves it alone.
LEMMA ComponentSteps ==
  ASSUME [WorkNext]_workVars
  PROVE  /\ Planner!Next \/ UNCHANGED plannerVars
         /\ Cases!Next \/ UNCHANGED caseVars
         /\ Cohorts!Next \/ UNCHANGED cohortVars
         /\ Composed!Next \/ UNCHANGED composedVars
         /\ Page!Next \/ UNCHANGED pageVars
         /\ Assets!Next \/ UNCHANGED assetVars
BY DEF workVars, WorkNext, LoopStep, PlannerStep, CasesStep, CohortsStep, ComposedStep, PageStep,
       AssetStep

-----------------------------------------------------------------------------
\* What is finite and ordered has a first element.
LEMMA HasFirst ==
  ASSUME NEW S, IsFiniteSet(S), S # {}, NEW R,
         \A x \in S : <<x, x>> \notin R,
         \A x, y, z \in S : (<<x, y>> \in R /\ <<y, z>> \in R) => <<x, z>> \in R,
         \A x, y \in S : x = y \/ <<x, y>> \in R \/ <<y, x>> \in R
  PROVE  \E x \in S : \A y \in S : y = x \/ <<x, y>> \in R
<1> DEFINE below(x) == {y \in S : <<y, x>> \in R}
           T == {Cardinality(below(x)) : x \in S}
<1>1. \A x \in S : IsFiniteSet(below(x)) /\ Cardinality(below(x)) \in Nat
  BY FS_Subset, FS_CardinalityType
<1>2. T \subseteq Nat /\ T # {}
  <2>1. PICK x0 \in S : TRUE
    OBVIOUS
  <2>2. Cardinality(below(x0)) \in T
    OBVIOUS
  <2> HIDE DEF below
  <2> QED BY <1>1, <2>2
<1>3. PICK n \in T : \A m \in T : <<m, n>> \notin OpToRel(<, Nat)
  BY <1>2, WFMin, NatLessThanWellFounded, Zenon
<1>4. \A m \in T : ~(m < n)
  BY <1>2, <1>3, Zenon DEF OpToRel
<1>5. PICK x \in S : n = Cardinality(below(x))
  OBVIOUS
<1>6. ASSUME NEW y \in S, y # x, <<x, y>> \notin R PROVE FALSE
  <2>1. <<y, x>> \in R
    BY <1>6
  <2>2. \A z \in S : <<z, y>> \in R => <<z, x>> \in R
    BY <2>1
  <2>3. below(y) \subseteq below(x) /\ y \in below(x) /\ y \notin below(y)
    BY <2>1, <2>2
  <2>4. Cardinality(below(y)) <= Cardinality(below(x)) /\ Cardinality(below(y)) # Cardinality(below(x))
    <3> HIDE DEF below
    <3>1. below(y) \in SUBSET below(x) /\ below(x) # below(y)
      BY <2>3
    <3> QED BY <1>1, <3>1, FS_Subset
  <2>5. Cardinality(below(y)) \in T
    OBVIOUS
  <2> HIDE DEF below, T
  <2> QED BY <1>1, <1>2, <1>4, <1>5, <2>4, <2>5
<1> QED BY <1>6

\* ... and numbers have a greatest.
LEMMA HasGreatest ==
  ASSUME NEW S, IsFiniteSet(S), S # {}, S \subseteq Int
  PROVE  \E x \in S : \A y \in S : x >= y
<1>1. PICK R : R = {p \in S \X S : p[1] > p[2]}
  OBVIOUS
<1>2. \A x, y \in S : <<x, y>> \in R <=> x > y
  BY <1>1
<1>3. \E x \in S : \A y \in S : y = x \/ <<x, y>> \in R
  <2>1. \A x \in S : <<x, x>> \notin R
    BY <1>2
  <2>2. ASSUME NEW x \in S, NEW y \in S, NEW z \in S, <<x, y>> \in R, <<y, z>> \in R
        PROVE  <<x, z>> \in R
    <3>1. x > y /\ y > z
      BY <1>2, <2>2
    <3>2. x > z
      BY <3>1
    <3> QED BY <1>2, <3>2
  <2>3. \A x, y \in S : x = y \/ <<x, y>> \in R \/ <<y, x>> \in R
    <3>1. \A x, y \in S : x = y \/ x > y \/ y > x
      OBVIOUS
    <3> QED BY <1>2, <3>1
  <2>4. \A x, y, z \in S : (<<x, y>> \in R /\ <<y, z>> \in R) => <<x, z>> \in R
    BY <2>2
  <2> QED BY <2>1, <2>3, <2>4, HasFirst, Zenon
<1>4. PICK x \in S : \A y \in S : y = x \/ <<x, y>> \in R
  BY <1>3
<1>5. ASSUME NEW y \in S PROVE x >= y
  <2>1. CASE y = x
    BY <2>1
  <2>2. CASE y # x
    <3>1. x > y
      BY <1>2, <1>4, <2>2
    <3> QED BY <3>1
  <2> QED BY <2>1, <2>2
<1> QED BY <1>5

LEMMA AssetsMax ==
  ASSUME NEW S, IsFiniteSet(S), S # {}, S \subseteq Int
  PROVE  Assets!Max(S) \in S /\ \A y \in S : Assets!Max(S) >= y
BY HasGreatest DEF Assets!Max

\* ... and is a sequence in that order.
LEMMA HasRanking ==
  ASSUME NEW S, IsFiniteSet(S), NEW R,
         \A x \in S : <<x, x>> \notin R,
         \A x, y, z \in S : (<<x, y>> \in R /\ <<y, z>> \in R) => <<x, z>> \in R,
         \A x, y \in S : x = y \/ <<x, y>> \in R \/ <<y, x>> \in R
  PROVE  \E s \in [1 .. Cardinality(S) -> S] :
           /\ \A i, j \in 1 .. Cardinality(S) : i # j => s[i] # s[j]
           /\ \A i, j \in 1 .. Cardinality(S) : i < j => <<s[i], s[j]>> \in R
<1> DEFINE below(x) == {y \in S : <<y, x>> \in R}
<1>1. PICK N : N = Cardinality(S)
  OBVIOUS
<1>2. N \in Nat
  BY <1>1, FS_CardinalityType
<1>3. ASSUME NEW x \in S
      PROVE  Cardinality(below(x)) \in Nat /\ Cardinality(below(x)) < N /\ IsFiniteSet(below(x))
  <2>1. below(x) \in SUBSET S /\ below(x) # S
    OBVIOUS
  <2> HIDE DEF below
  <2>2. IsFiniteSet(below(x)) /\ Cardinality(below(x)) <= N /\ Cardinality(below(x)) # N
    BY <1>1, <2>1, FS_Subset
  <2>3. Cardinality(below(x)) \in Nat
    BY <2>2, FS_CardinalityType
  <2> QED BY <1>2, <2>2, <2>3
<1>4. ASSUME NEW x \in S, NEW y \in S, <<x, y>> \in R
      PROVE  Cardinality(below(x)) < Cardinality(below(y))
  <2>1. below(x) \in SUBSET below(y) /\ x \in below(y) /\ x \notin below(x)
    BY <1>4
  <2>2. Cardinality(below(x)) \in Nat /\ Cardinality(below(y)) \in Nat /\ IsFiniteSet(below(y))
    BY <1>3
  <2> HIDE DEF below
  <2>3. below(x) # below(y)
    BY <2>1
  <2>4. Cardinality(below(x)) <= Cardinality(below(y)) /\ Cardinality(below(x)) # Cardinality(below(y))
    BY <2>1, <2>2, <2>3, FS_Subset
  <2> QED BY <2>2, <2>4
<1> HIDE DEF below
<1>5. PICK rank : rank = [x \in S |-> Cardinality(below(x)) + 1]
  OBVIOUS
<1>6. \A x \in S : rank[x] \in 1 .. N
  BY <1>2, <1>3, <1>5
<1>7. \A x, y \in S : <<x, y>> \in R => rank[x] < rank[y]
  <2>1. \A x \in S : rank[x] = Cardinality(below(x)) + 1 /\ Cardinality(below(x)) \in Nat
    BY <1>3, <1>5
  <2> QED BY <1>4, <2>1
<1>8. \A x, y \in S : rank[x] = rank[y] => x = y
  <2> SUFFICES ASSUME NEW x \in S, NEW y \in S, rank[x] = rank[y] PROVE x = y
    OBVIOUS
  <2>1. rank[x] \in Int /\ rank[y] \in Int
    BY <1>6
  <2>2. ~(rank[x] < rank[y]) /\ ~(rank[y] < rank[x])
    BY <2>1
  <2>3. <<x, y>> \notin R /\ <<y, x>> \notin R
    BY <1>7, <2>2
  <2> QED BY <2>3
<1>9. rank \in Injection(S, 1 .. N)
  BY <1>5, <1>6, <1>8 DEF Injection, IsInjective
<1>10. IsFiniteSet(1 .. N) /\ Cardinality(1 .. N) = N
  BY <1>2, FS_Interval
<1>11. rank \in Surjection(S, 1 .. N)
  BY <1>1, <1>9, <1>10, FS_Injection
<1>12. PICK s : s = [i \in 1 .. N |-> CHOOSE x \in S : rank[x] = i]
  OBVIOUS
<1>13. \A i \in 1 .. N : s[i] \in S /\ rank[s[i]] = i
  <2>1. \A i \in 1 .. N : \E x \in S : rank[x] = i
    BY <1>11 DEF Surjection
  <2> QED BY <1>12, <2>1
<1>14. s \in [1 .. N -> S]
  BY <1>12, <1>13
<1>15. ASSUME NEW i \in 1 .. N, NEW j \in 1 .. N PROVE (i # j => s[i] # s[j]) /\ (i < j => <<s[i], s[j]>> \in R)
  <2>1. i \in Int /\ j \in Int
    BY <1>2
  <2>2. s[i] \in S /\ s[j] \in S /\ rank[s[i]] = i /\ rank[s[j]] = j
    BY <1>13
  <2>3. <<s[j], s[i]>> \in R => j < i
    BY <1>7, <2>2
  <2>4. i < j => (s[i] # s[j] /\ <<s[j], s[i]>> \notin R)
    BY <2>1, <2>2, <2>3
  <2> QED BY <2>2, <2>4
<1> QED BY <1>1, <1>14, <1>15

\* An enumeration without repetition is of everything.
LEMMA EnumeratesAll ==
  ASSUME NEW S, IsFiniteSet(S), NEW s \in [1 .. Cardinality(S) -> S],
         \A i, j \in 1 .. Cardinality(S) : i # j => s[i] # s[j]
  PROVE  {s[i] : i \in DOMAIN s} = S
<1>1. PICK N : N = Cardinality(S) /\ N \in Nat
  BY FS_CardinalityType
<1>2. s \in Injection(1 .. N, S)
  BY <1>1 DEF Injection, IsInjective
<1>3. IsFiniteSet(1 .. N) /\ Cardinality(1 .. N) = N
  BY <1>1, FS_Interval
<1>4. s \in Surjection(1 .. N, S)
  BY <1>1, <1>2, <1>3, FS_Injection
<1> QED BY <1>1, <1>4 DEF Surjection

\* Of a limited number in order, the first ones are all that are within the limit.
Orders(R, S) ==
  /\ \A x \in S : <<x, x>> \notin R
  /\ \A x, y, z \in S : (<<x, y>> \in R /\ <<y, z>> \in R) => <<x, z>> \in R
  /\ \A x, y \in S : x = y \/ <<x, y>> \in R \/ <<y, x>> \in R

Below(R, S, x) == {y \in S : <<y, x>> \in R}

LEMMA FirstAreAll ==
  ASSUME NEW S, IsFiniteSet(S), NEW R, Orders(R, S), NEW n \in Nat,
         NEW F, F \subseteq S, Cardinality(F) <= n,
         \A x \in S : Cardinality(Below(R, S, x)) < n + 1 => x \in F
  PROVE  F = S
<1>1. PICK T : T = S \ F
  OBVIOUS
<1>2. SUFFICES ASSUME T # {} PROVE FALSE
  BY <1>1
<1>3. IsFiniteSet(T) /\ T \subseteq S
  BY <1>1, FS_Subset
<1>4. /\ \A x \in T : <<x, x>> \notin R
      /\ \A x, y, z \in T : (<<x, y>> \in R /\ <<y, z>> \in R) => <<x, z>> \in R
      /\ \A x, y \in T : x = y \/ <<x, y>> \in R \/ <<y, x>> \in R
  BY <1>3 DEF Orders
<1>5. \E x \in T : \A y \in T : y = x \/ <<x, y>> \in R
  BY <1>2, <1>3, <1>4, HasFirst
<1>6. PICK x \in T : \A y \in T : y = x \/ <<x, y>> \in R
  BY <1>5
<1>7. PICK B : B = {y \in S : <<y, x>> \in R}
  OBVIOUS
<1>8. B \in SUBSET F
  <2>1. ASSUME NEW y \in B, y \in T PROVE FALSE
    <3>1. <<y, x>> \in R /\ (y = x \/ <<x, y>> \in R)
      BY <1>6, <1>7, <2>1
    <3> QED BY <1>4, <2>1, <3>1
  <2> QED BY <1>1, <1>7, <2>1
<1>9. F \in SUBSET S
  OBVIOUS
<1>10. IsFiniteSet(F)
  BY <1>9, FS_Subset
<1>11. IsFiniteSet(B) /\ Cardinality(B) <= Cardinality(F)
  BY <1>8, <1>10, FS_Subset
<1>12. Cardinality(F) \in Nat /\ Cardinality(B) \in Nat
  BY <1>10, <1>11, FS_CardinalityType
<1>13. Cardinality(B) < n + 1
  BY <1>11, <1>12
<1>14. x \in S /\ x \notin F
  BY <1>1
<1> QED BY <1>7, <1>13, <1>14 DEF Below

-----------------------------------------------------------------------------
(* NextCheckPlanner *)

LEMMA PlannerCardinality == ASSUME NEW S PROVE Planner!Cardinality(S) = Cardinality(S)
BY DEF Planner!Cardinality, Cardinality

LEMMA TotalIs ==
  ASSUME NEW value, IsFiniteSet(DOMAIN value), \A x \in DOMAIN value : value[x] \in Nat
  PROVE  Planner!Total(value) \in Nat
<1>1. PICK D, part : D = DOMAIN value /\ part = [x \in D |-> {x} \X (1 .. value[x])]
  OBVIOUS
<1>2. PICK U : U = {part[x] : x \in D}
  OBVIOUS
<1>3. part \in Surjection(D, U)
  BY <1>1, <1>2 DEF Surjection
<1>4. IsFiniteSet(U)
  BY <1>1, <1>3, FS_Surjection
<1>5. ASSUME NEW x \in D PROVE IsFiniteSet(part[x])
  <2>1. PICK n : n = value[x] /\ n \in Int
    BY <1>1
  <2>4. IsFiniteSet({x})
    BY FS_Singleton, Zenon
  <2>5. IsFiniteSet(1 .. n)
    BY <2>1, FS_Interval
  <2>3. IsFiniteSet({x}) /\ IsFiniteSet(1 .. n)
    BY <2>4, <2>5, Zenon
  <2>2. IsFiniteSet({x} \X (1 .. value[x]))
    BY <2>1, <2>3, FS_Product
  <2> QED BY <1>1, <2>2
<1>6. \A u \in U : IsFiniteSet(u)
  BY <1>2, <1>5
<1>7. IsFiniteSet(UNION U)
  BY <1>4, <1>6, FS_UNION
<1>8. U = {{x} \X (1 .. value[x]) : x \in DOMAIN value}
  BY <1>1, <1>2
<1>9. Planner!Total(value) = Cardinality(UNION U)
  BY <1>8, PlannerCardinality DEF Planner!Total
<1> QED BY <1>7, <1>9, FS_CardinalityType

LEMMA ShareIs ==
  ASSUME PlannerAssumption, NEW part \in Int, NEW whole \in Nat
  PROVE  Planner!Share(part, whole) \in Int
<1>1. PICK p : p = Unit * part
  OBVIOUS
<1>2. p \in Int
  BY <1>1 DEF PlannerAssumption
<1>3. whole # 0 => p \div whole \in Int
  BY <1>2
<1> QED BY <1>1, <1>3 DEF Planner!Share

LEMMA HalfIs == ASSUME NEW a \in Int PROVE a \div 2 \in Int /\ a \div 4 \in Int
OBVIOUS

\* What an eligible template is.
LEMMA TemplateIs ==
  ASSUME PlannerAssumption, NEW t \in Catalog
  PROVE  /\ t.id \in Nat /\ t.rubric \in [Pairs -> 0 .. 2] /\ t.groups \subseteq Groups
         /\ t.effort \in Int /\ t.disruption \in Int /\ t.maxAge \in Nat /\ t.reuse \in Nat
         /\ t.id \notin t.redundant
         /\ \A u \in Catalog : t.id = u.id => t = u
<1>1. t \in Planner!Template /\ t.id \notin t.redundant /\ \A u \in Catalog : t.id = u.id => t = u
  BY DEF PlannerAssumption, Planner!CatalogIsValid
<1> QED BY <1>1 DEF Planner!Template

LEMMA FactsAre ==
  ASSUME PlannerAssumption, NEW f \in FactSets, NEW t \in Catalog
  PROVE  /\ f.asOf \in Nat /\ f.unresolved \subseteq Pairs /\ f.deadline \in Nat \cup {None}
         /\ f.of[t].observed \in Nat \cup {None} /\ f.of[t].seconds \in Nat \cup {None}
<1>1. f \in Planner!Facts
  BY DEF PlannerAssumption, Planner!CatalogIsValid
<1>2. f.of[t] \in Planner!Fact
  BY <1>1 DEF Planner!Facts
<1> QED BY <1>1, <1>2 DEF Planner!Facts, Planner!Fact

LEMMA EligibleIs ==
  ASSUME PlannerAssumption, NEW f \in FactSets, NEW loop, NEW t \in Planner!Eligible(f, loop)
  PROVE  /\ t \in Catalog
         /\ f.of[t].observed # None
         /\ f.deadline # None =>
              /\ f.of[t].seconds # None /\ f.asOf < f.deadline
              /\ f.asOf + f.of[t].seconds <= f.deadline
<1>1. t \in Catalog /\ Planner!CapabilityReasons(t, f) = {} /\ Planner!TurnaroundReasons(t, f) = {}
  BY DEF Planner!Eligible, Planner!Reasons
<1>2. f.of[t].observed # None
  BY <1>1 DEF Planner!CapabilityReasons
<1>3. ASSUME f.deadline # None
      PROVE  /\ f.of[t].seconds # None /\ f.asOf < f.deadline
             /\ f.asOf + f.of[t].seconds <= f.deadline
  <2>1. PICK d, s, n : d = f.deadline /\ s = f.of[t].seconds /\ n = f.asOf
    OBVIOUS
  <2>2. d \in Nat /\ n \in Nat /\ s \in Nat \cup {None}
    BY <1>1, <1>3, <2>1, FactsAre
  <2>3. s # None /\ ~(n >= d \/ n + s > d)
    BY <1>1, <1>3, <2>1 DEF Planner!TurnaroundReasons
  <2>4. s \in Nat
    BY <2>2, <2>3
  <2>5. n < d /\ n + s <= d
    BY <2>2, <2>3, <2>4
  <2> QED BY <2>1, <2>3, <2>5
<1> QED BY <1>1, <1>2, <1>3

LEMMA PortionIs ==
  ASSUME NEW S, IsFiniteSet(S), NEW T, T \subseteq S
  PROVE  IsFiniteSet(T) /\ Planner!Cardinality(T) \in Nat
<1>1. T \in SUBSET S
  OBVIOUS
<1> QED BY <1>1, FS_Subset, FS_CardinalityType, PlannerCardinality

LEMMA ProductOfNat == ASSUME NEW a \in Nat, NEW b \in Nat PROVE a * b \in Nat
OBVIOUS

\* The weight of some pairs for a template.
Weighted(t, S) == Planner!Total([p \in S |-> Weight[p] * t.rubric[p]])

LEMMA WeightedIs ==
  ASSUME PlannerAssumption, NEW t \in Catalog, NEW S, S \subseteq Pairs
  PROVE  Weighted(t, S) \in Nat
<1>1. PICK value : value = [p \in S |-> Weight[p] * t.rubric[p]]
  OBVIOUS
<1>2. DOMAIN value = S /\ IsFiniteSet(S)
  BY <1>1, PortionIs DEF PlannerAssumption
<1>3. ASSUME NEW p \in S PROVE value[p] \in Nat
  <2>1. Weight[p] \in Nat
    BY DEF PlannerAssumption
  <2>2. t.rubric[p] \in Nat
    <3>1. t.rubric[p] \in 0 .. 2
      BY TemplateIs
    <3> QED BY <3>1
  <2> QED BY <1>1, <2>1, <2>2, ProductOfNat
<1>4. Planner!Total(value) \in Nat
  BY <1>2, <1>3, TotalIs
<1> QED BY <1>1, <1>4 DEF Weighted

LEMMA WeightIs ==
  ASSUME PlannerAssumption, NEW S, S \subseteq Pairs
  PROVE  Planner!Total([p \in S |-> Weight[p]]) \in Nat
<1>1. PICK value : value = [p \in S |-> Weight[p]]
  OBVIOUS
<1>2. DOMAIN value = S /\ IsFiniteSet(S)
  BY <1>1, PortionIs DEF PlannerAssumption
<1>3. \A p \in S : value[p] \in Nat
  BY <1>1 DEF PlannerAssumption
<1>4. Planner!Total(value) \in Nat
  BY <1>2, <1>3, TotalIs
<1> QED BY <1>1, <1>4

LEMMA ScoreIs ==
  ASSUME PlannerAssumption, NEW f \in FactSets, NEW loop, NEW t \in Planner!Eligible(f, loop), NEW covered
  PROVE  /\ Planner!Utility(Planner!Score(t, f, covered)) \in Int
         /\ Planner!Score(t, f, covered).discrimination \in Int
         /\ Planner!Seconds(t, f) \in Int /\ t.disruption \in Int /\ t.id \in Int
<1>1. /\ t \in Catalog /\ f.asOf \in Int /\ f.of[t].observed \in Int
      /\ f.deadline # None => f.of[t].seconds # None /\ f.asOf < f.deadline
      /\ f.unresolved \subseteq Pairs /\ f.deadline \in Nat \cup {None} /\ f.of[t].seconds \in Nat \cup {None}
  BY EligibleIs, FactsAre
<1>2. /\ t.id \in Nat /\ t.groups \subseteq Groups /\ t.effort \in Int /\ t.disruption \in Int
      /\ t.maxAge \in Nat
  BY <1>1, TemplateIs
<1>3. PICK w1, w2, w3, w4 :
        /\ w1 = Weighted(t, Pairs \cap f.unresolved)
        /\ w2 = 2 * Planner!Total([p \in f.unresolved |-> Weight[p]])
        /\ w3 = Weighted(t, covered.pairs \cap f.unresolved)
        /\ w4 = Weighted(t, Pairs \cap f.unresolved)
  OBVIOUS
<1>4. w1 \in Nat /\ w3 \in Nat /\ w4 \in Nat
  <2>1. Pairs \cap f.unresolved \subseteq Pairs /\ covered.pairs \cap f.unresolved \subseteq Pairs
    BY <1>1
  <2> QED BY <1>1, <1>3, <2>1, WeightedIs
<1>5. w2 \in Nat
  <2>1. PICK n : n = Planner!Total([p \in f.unresolved |-> Weight[p]]) /\ n \in Nat
    BY <1>1, WeightIs
  <2>2. 2 * n \in Nat
    BY <2>1
  <2> QED BY <1>3, <2>1, <2>2
<1>6. PICK g1, g2, g3, g4 :
        /\ g1 = Planner!Cardinality(t.groups \ covered.groups) /\ g2 = Planner!Cardinality(Groups)
        /\ g3 = Planner!Cardinality(t.groups \cap covered.groups) /\ g4 = Planner!Cardinality(t.groups)
        /\ g1 \in Nat /\ g2 \in Nat /\ g3 \in Nat /\ g4 \in Nat
  <2>1. /\ t.groups \ covered.groups \subseteq Groups /\ Groups \subseteq Groups
        /\ t.groups \cap covered.groups \subseteq Groups /\ t.groups \subseteq Groups
    BY <1>2
  <2>2. IsFiniteSet(Groups)
    BY DEF PlannerAssumption
  <2> QED BY <2>1, <2>2, PortionIs
<1>7. PICK age, fresh : age = f.asOf - f.of[t].observed /\ fresh = IF age < t.maxAge THEN t.maxAge - age ELSE 0
  OBVIOUS
<1>8. fresh \in Int
  BY <1>1, <1>2, <1>7
<1>9. PICK in :
        in = IF f.of[t].seconds = None THEN Unit \div 4
             ELSE IF f.deadline = None THEN Unit
             ELSE Planner!Share(f.deadline - f.asOf - f.of[t].seconds, f.deadline - f.asOf)
  OBVIOUS
<1>10. in \in Int
  <2>1. CASE f.of[t].seconds = None
    <3>1. Unit \in Int
      BY DEF PlannerAssumption
    <3> QED BY <1>9, <2>1, <3>1, HalfIs
  <2>2. CASE f.of[t].seconds # None /\ f.deadline = None
    BY <1>9, <2>2 DEF PlannerAssumption
  <2>3. CASE f.of[t].seconds # None /\ f.deadline # None
    <3>1. PICK d, s, n : d = f.deadline /\ s = f.of[t].seconds /\ n = f.asOf
      OBVIOUS
    <3>2. d \in Nat /\ s \in Nat /\ n \in Int /\ n < d
      BY <1>1, <2>3, <3>1
    <3>3. d - n - s \in Int /\ d - n \in Nat
      BY <3>2
    <3>4. in = Planner!Share(d - n - s, d - n)
      BY <1>9, <2>3, <3>1
    <3> QED BY <3>3, <3>4, ShareIs
  <2> QED BY <2>1, <2>2, <2>3
<1>11. PICK s : s = Planner!Score(t, f, covered)
  OBVIOUS
<1>12. /\ s.discrimination = Planner!Share(w1, w2)
       /\ s.novelty = Planner!Share(g1, g2)
       /\ s.feasibility = (Planner!Share(fresh, t.maxAge) + in) \div 2
       /\ s.cost = (Planner!Share(t.effort, 4) + Planner!Share(t.disruption, 4)) \div 2
       /\ s.redundancy = (Planner!Share(w3, w4) + Planner!Share(g3, g4)) \div 2
  BY <1>3, <1>6, <1>7, <1>9, <1>11 DEF Planner!Score, Weighted
<1>13. /\ Planner!Share(w1, w2) \in Int /\ Planner!Share(g1, g2) \in Int
       /\ Planner!Share(fresh, t.maxAge) \in Int /\ Planner!Share(t.effort, 4) \in Int
       /\ Planner!Share(t.disruption, 4) \in Int /\ Planner!Share(w3, w4) \in Int
       /\ Planner!Share(g3, g4) \in Int
  <2>1. \A n \in Nat : n \in Int
    OBVIOUS
  <2> QED BY <1>2, <1>4, <1>5, <1>6, <1>8, <2>1, ShareIs
<1>14. PICK a1, a2, a3, a4, a5, a6, a7 :
         /\ a1 = Planner!Share(w1, w2) /\ a2 = Planner!Share(g1, g2)
         /\ a3 = Planner!Share(fresh, t.maxAge) /\ a4 = Planner!Share(t.effort, 4)
         /\ a5 = Planner!Share(t.disruption, 4) /\ a6 = Planner!Share(w3, w4)
         /\ a7 = Planner!Share(g3, g4)
  OBVIOUS
<1>15. /\ s.discrimination \in Int /\ s.novelty \in Int /\ s.feasibility \in Int
       /\ s.cost \in Int /\ s.redundancy \in Int
  <2>1. a1 \in Int /\ a2 \in Int /\ a3 \in Int /\ a4 \in Int /\ a5 \in Int /\ a6 \in Int /\ a7 \in Int
    BY <1>13, <1>14
  <2>2. (a3 + in) \div 2 \in Int /\ (a4 + a5) \div 2 \in Int /\ (a6 + a7) \div 2 \in Int
    BY <1>10, <2>1, HalfIs
  <2> QED BY <1>12, <1>14, <2>1, <2>2
<1>16. Planner!Utility(s) \in Int
  BY <1>15 DEF Planner!Utility
<1>17. Planner!Seconds(t, f) \in Int
  BY <1>1 DEF Planner!Seconds, Planner!Never
<1> QED BY <1>2, <1>11, <1>15, <1>16, <1>17

\* The key by which candidates are ranked orders them lexicographically.
IsKey(a) ==
  /\ a = <<a[1], a[2], a[3], a[4], a[5], a[6]>>
  /\ a[1] \in Int /\ a[2] \in Int /\ a[3] \in Int /\ a[4] \in Int /\ a[5] \in Int /\ a[6] \in Int

Lexical(a, b) ==
  \/ a[1] < b[1]
  \/ a[1] = b[1] /\ a[2] < b[2]
  \/ a[1] = b[1] /\ a[2] = b[2] /\ a[3] < b[3]
  \/ a[1] = b[1] /\ a[2] = b[2] /\ a[3] = b[3] /\ a[4] < b[4]
  \/ a[1] = b[1] /\ a[2] = b[2] /\ a[3] = b[3] /\ a[4] = b[4] /\ a[5] < b[5]
  \/ a[1] = b[1] /\ a[2] = b[2] /\ a[3] = b[3] /\ a[4] = b[4] /\ a[5] = b[5] /\ a[6] < b[6]

LEMMA LessIs ==
  ASSUME NEW a, NEW b, IsKey(a)
  PROVE  Planner!Less(a, b) <=> Lexical(a, b)
<1>1. DOMAIN a = 1 .. 6
  BY DEF IsKey
<1>2. ASSUME Planner!Less(a, b) PROVE Lexical(a, b)
  <2>1. PICK n \in 1 .. 6 : a[n] < b[n] /\ \A m \in 1 .. n - 1 : a[m] = b[m]
    BY <1>1, <1>2 DEF Planner!Less
  <2>2. n = 1 \/ n = 2 \/ n = 3 \/ n = 4 \/ n = 5 \/ n = 6
    OBVIOUS
  <2>3. \A m : m \in Int /\ 1 <= m /\ m < n => a[m] = b[m]
    BY <2>1
  <2>4. /\ n > 1 => a[1] = b[1]
        /\ n > 2 => a[2] = b[2]
        /\ n > 3 => a[3] = b[3]
        /\ n > 4 => a[4] = b[4]
        /\ n > 5 => a[5] = b[5]
    BY <2>3
  <2> QED BY <2>1, <2>2, <2>4 DEF Lexical
<1>3. ASSUME Lexical(a, b) PROVE Planner!Less(a, b)
  <2>1. \A m : m \in 1 .. 1 - 1 => a[m] = b[m]
    OBVIOUS
  <2>2. \A m : m \in 1 .. 2 - 1 => m = 1
    OBVIOUS
  <2>3. \A m : m \in 1 .. 3 - 1 => m = 1 \/ m = 2
    OBVIOUS
  <2>4. \A m : m \in 1 .. 4 - 1 => m = 1 \/ m = 2 \/ m = 3
    OBVIOUS
  <2>5. \A m : m \in 1 .. 5 - 1 => m = 1 \/ m = 2 \/ m = 3 \/ m = 4
    OBVIOUS
  <2>6. \A m : m \in 1 .. 6 - 1 => m = 1 \/ m = 2 \/ m = 3 \/ m = 4 \/ m = 5
    OBVIOUS
  <2>7. 1 \in 1 .. 6 /\ 2 \in 1 .. 6 /\ 3 \in 1 .. 6 /\ 4 \in 1 .. 6 /\ 5 \in 1 .. 6 /\ 6 \in 1 .. 6
    OBVIOUS
  <2>8. \E n \in 1 .. 6 : a[n] < b[n] /\ \A m \in 1 .. n - 1 : a[m] = b[m]
    BY <1>3, <2>1, <2>2, <2>3, <2>4, <2>5, <2>6, <2>7 DEF Lexical
  <2> QED BY <1>1, <2>8 DEF Planner!Less
<1> QED BY <1>2, <1>3

LEMMA LexicalOrders ==
  ASSUME NEW a, NEW b, IsKey(a), IsKey(b)
  PROVE  ~Lexical(a, a) /\ (a[6] = b[6] \/ Lexical(a, b) \/ Lexical(b, a))
BY DEF IsKey, Lexical

LEMMA LexicalChains ==
  ASSUME NEW a, NEW b, NEW c, IsKey(a), IsKey(b), IsKey(c), Lexical(a, b), Lexical(b, c)
  PROVE  Lexical(a, c)
BY DEF IsKey, Lexical

\* There is a best candidate, and none has more utility.
LEMMA BestIs ==
  ASSUME PlannerAssumption, NEW f \in FactSets, NEW loop,
         NEW C, C \subseteq Planner!Eligible(f, loop), C # {}, NEW covered,
         NEW b, b = Planner!Best(C, f, covered)
  PROVE  /\ b \in C
         /\ \A u \in C : Planner!Utility(Planner!Score(u, f, covered))
                           <= Planner!Utility(Planner!Score(b, f, covered))
<1>1. PICK score : score = [t \in C |-> Planner!Score(t, f, covered)]
  OBVIOUS
<1>2. PICK key : key = [t \in C |-> Planner!RankKey(t, f, score)]
  OBVIOUS
<1>3. b = CHOOSE t \in C : \A u \in C \ {t} : Planner!Less(key[t], key[u])
  BY <1>1, <1>2, Zenon DEF Planner!Best
<1>4. C \in SUBSET Catalog /\ IsFiniteSet(C)
  <2>1. C \in SUBSET Catalog
    BY DEF Planner!Eligible
  <2> QED BY <2>1, FS_Subset DEF PlannerAssumption
<1>5. ASSUME NEW t \in C
      PROVE  IsKey(key[t]) /\ key[t][1] = -Planner!Utility(score[t]) /\ key[t][6] = t.id
  <2>1. PICK x1, x2, x3, x4, x5, x6 :
          /\ x1 = -Planner!Utility(score[t]) /\ x2 = -score[t].discrimination
          /\ x3 = IF Planner!Dominated(t, f, score) THEN 1 ELSE 0
          /\ x4 = t.disruption /\ x5 = Planner!Seconds(t, f) /\ x6 = t.id
    OBVIOUS
  <2>2. key[t] = <<x1, x2, x3, x4, x5, x6>>
    BY <1>2, <2>1, Zenon DEF Planner!RankKey
  <2>3. /\ Planner!Utility(score[t]) \in Int /\ score[t].discrimination \in Int
        /\ Planner!Seconds(t, f) \in Int /\ t.disruption \in Int /\ t.id \in Int
    BY <1>1, ScoreIs
  <2>4. x1 \in Int /\ x2 \in Int /\ x3 \in Int /\ x4 \in Int /\ x5 \in Int /\ x6 \in Int
    BY <2>1, <2>3
  <2>5. /\ key[t][1] = x1 /\ key[t][2] = x2 /\ key[t][3] = x3
        /\ key[t][4] = x4 /\ key[t][5] = x5 /\ key[t][6] = x6
    BY <2>2
  <2> QED BY <2>1, <2>2, <2>4, <2>5 DEF IsKey
<1>6. PICK R : R = {p \in C \X C : Planner!Less(key[p[1]], key[p[2]])}
  OBVIOUS
<1>7. \A x, y \in C : <<x, y>> \in R <=> Planner!Less(key[x], key[y])
  BY <1>6
<1>8. \A x, y \in C : <<x, y>> \in R <=> Lexical(key[x], key[y])
  BY <1>5, <1>7, LessIs
<1>9. \A x \in C : <<x, x>> \notin R
  BY <1>5, <1>8, LexicalOrders
<1>10. \A x, y, z \in C : (<<x, y>> \in R /\ <<y, z>> \in R) => <<x, z>> \in R
  BY <1>5, <1>8, LexicalChains
<1>11. \A x, y \in C : x = y \/ <<x, y>> \in R \/ <<y, x>> \in R
  <2> SUFFICES ASSUME NEW x \in C, NEW y \in C PROVE x = y \/ <<x, y>> \in R \/ <<y, x>> \in R
    OBVIOUS
  <2>1. key[x][6] = key[y][6] \/ Lexical(key[x], key[y]) \/ Lexical(key[y], key[x])
    BY <1>5, LexicalOrders
  <2>2. x.id = y.id => x = y
    BY <1>4, TemplateIs
  <2> QED BY <1>5, <1>8, <2>1, <2>2
<1>12. \E x \in C : \A y \in C : y = x \/ <<x, y>> \in R
  BY <1>4, <1>9, <1>10, <1>11, HasFirst
<1>13. \E x \in C : \A u \in C \ {x} : Planner!Less(key[x], key[u])
  BY <1>7, <1>12
<1>14. b \in C /\ \A u \in C \ {b} : Planner!Less(key[b], key[u])
  BY <1>3, <1>13, Zenon
<1>15. ASSUME NEW u \in C PROVE Planner!Utility(score[u]) <= Planner!Utility(score[b])
  <2>1. PICK m, n : m = Planner!Utility(score[u]) /\ n = Planner!Utility(score[b])
    OBVIOUS
  <2>2. m \in Int /\ n \in Int
    BY <1>1, <1>14, <2>1, ScoreIs
  <2>3. CASE u = b
    BY <2>1, <2>2, <2>3
  <2>4. CASE u # b
    <3>1. Lexical(key[b], key[u])
      BY <1>7, <1>8, <1>14, <2>4
    <3>2. key[b][1] = -n /\ key[u][1] = -m
      BY <1>5, <1>14, <2>1
    <3>3. key[b][1] <= key[u][1]
      BY <1>5, <1>14, <3>1 DEF Lexical, IsKey
    <3> QED BY <2>1, <2>2, <3>2, <3>3
  <2> QED BY <2>3, <2>4
<1> QED BY <1>1, <1>14, <1>15

\* What a plan has chosen and what remains, for the Episode that it was begun with.
ToldIs(plan) == {plan.chosen[i] : i \in DOMAIN plan.chosen}
ChosenIs(plan) == {r.template : r \in ToldIs(plan)}
Nothing == [pairs |-> {}, groups |-> {}]

PlanStands(plan) ==
  LET f == plan.facts
      eligible == Planner!Eligible(f, plan.loop)
  IN  /\ f \in FactSets /\ plan.candidates \subseteq eligible /\ ChosenIs(plan) \subseteq eligible
      /\ plan = [facts |-> f, loop |-> plan.loop, candidates |-> plan.candidates,
                 chosen |-> plan.chosen, covered |-> plan.covered]
      /\ plan.chosen \in Seq(ToldIs(plan)) /\ Len(plan.chosen) <= MaxRecommendations
      /\ \A t \in ChosenIs(plan), u \in plan.candidates \cup ChosenIs(plan) :
           t # u => ~Planner!Redundant(t, u)
      /\ plan.candidates \cap ChosenIs(plan) = {}
      /\ \A t \in eligible : \/ t \in plan.candidates \cup ChosenIs(plan)
                             \/ \E u \in ChosenIs(plan) : Planner!Redundant(t, u)
      /\ plan.chosen = <<>> => plan.candidates = eligible /\ plan.covered = Nothing
      /\ plan.chosen # <<>> => \A t \in eligible :
           Planner!Utility(Planner!Score(t, f, Nothing))
             <= Planner!Utility(Planner!Score(plan.chosen[1].template, f, Nothing))
      /\ \A r \in ToldIs(plan) :
           /\ r.added \subseteq r.template.groups
           /\ r.leaves = [pairs |-> f.unresolved \ Planner!Discriminates(r.template, f),
                          groups |-> Groups \ r.template.groups]
      /\ \A r, s \in ToldIs(plan) : r.template = s.template => r = s

LEMMA RedundantEither ==
  ASSUME NEW t, NEW u, Planner!Redundant(t, u) PROVE Planner!Redundant(u, t)
BY DEF Planner!Redundant

LEMMA PlanBegins ==
  ASSUME PlannerAssumption, NEW f \in FactSets, NEW loop, NEW plan,
         plan = [facts |-> f, loop |-> loop, candidates |-> Planner!Eligible(f, loop), chosen |-> <<>>,
                 covered |-> Nothing]
  PROVE  PlanStands(plan)
<1>1. /\ plan.facts = f /\ plan.loop = loop /\ plan.candidates = Planner!Eligible(f, loop)
      /\ plan.chosen = <<>> /\ plan.covered = Nothing
  OBVIOUS
<1>2. ToldIs(plan) = {} /\ ChosenIs(plan) = {}
  BY <1>1 DEF ToldIs, ChosenIs
<1>3. plan.chosen \in Seq(ToldIs(plan)) /\ Len(plan.chosen) = 0
  BY <1>1
<1>4. 0 <= MaxRecommendations
  BY DEF PlannerAssumption, Planner!CatalogIsValid
<1> QED BY <1>1, <1>2, <1>3, <1>4 DEF PlanStands

\* One more round.
LEMMA PlanGoesOn ==
  ASSUME PlannerAssumption, NEW v, PlanStands(v), v.candidates # {}, Len(v.chosen) < MaxRecommendations,
         NEW b, b = Planner!Best(v.candidates, v.facts, v.covered),
         NEW w, w = [v EXCEPT
                       !.candidates = {t \in v.candidates : t # b /\ ~Planner!Redundant(t, b)},
                       !.chosen = Append(@, Planner!Recommendation(b, v.facts, v.covered)),
                       !.covered = [pairs |-> @.pairs \cup Planner!Discriminates(b, v.facts),
                                    groups |-> @.groups \cup b.groups]]
  PROVE  PlanStands(w)
<1>1. PICK f, E, T, S, C : /\ f = v.facts /\ E = Planner!Eligible(f, v.loop) /\ T = ChosenIs(v)
                           /\ S = ToldIs(v) /\ C = v.candidates
  OBVIOUS
<1>2. /\ f \in FactSets /\ C \subseteq E /\ T \subseteq E /\ v.chosen \in Seq(S)
      /\ v = [facts |-> f, loop |-> v.loop, candidates |-> C, chosen |-> v.chosen, covered |-> v.covered]
      /\ \A t \in T, u \in C \cup T : t # u => ~Planner!Redundant(t, u)
      /\ C \cap T = {}
      /\ \A t \in E : t \in C \cup T \/ \E u \in T : Planner!Redundant(t, u)
      /\ v.chosen = <<>> => C = E /\ v.covered = Nothing
      /\ v.chosen # <<>> => \A t \in E :
           Planner!Utility(Planner!Score(t, f, Nothing))
             <= Planner!Utility(Planner!Score(v.chosen[1].template, f, Nothing))
      /\ \A r \in S : /\ r.added \subseteq r.template.groups
                      /\ r.leaves = [pairs |-> f.unresolved \ Planner!Discriminates(r.template, f),
                                     groups |-> Groups \ r.template.groups]
      /\ \A r, s \in S : r.template = s.template => r = s
  BY <1>1 DEF PlanStands
<1>3. /\ b \in C
      /\ \A u \in C : Planner!Utility(Planner!Score(u, f, v.covered))
                        <= Planner!Utility(Planner!Score(b, f, v.covered))
  BY <1>1, <1>2, BestIs
<1>4. PICK r0 : r0 = Planner!Recommendation(b, f, v.covered)
  OBVIOUS
<1>5. /\ r0.template = b /\ r0.added \subseteq b.groups
      /\ r0.leaves = [pairs |-> f.unresolved \ Planner!Discriminates(b, f), groups |-> Groups \ b.groups]
  BY <1>4 DEF Planner!Recommendation
<1>6. PICK D, X, c : /\ D = {t \in C : t # b /\ ~Planner!Redundant(t, b)} /\ X = Append(v.chosen, r0)
                     /\ c = [pairs |-> v.covered.pairs \cup Planner!Discriminates(b, f),
                             groups |-> v.covered.groups \cup b.groups]
  OBVIOUS
<1>7. w = [facts |-> f, loop |-> v.loop, candidates |-> D, chosen |-> X, covered |-> c]
  BY <1>1, <1>2, <1>4, <1>6
<1>8. w.facts = f /\ w.loop = v.loop /\ w.candidates = D /\ w.chosen = X /\ w.covered = c
  BY ONLY <1>7
<1>9. PICK n : n = Len(v.chosen) /\ n \in Nat
  BY <1>2
<1>10. /\ DOMAIN v.chosen = 1 .. n /\ DOMAIN X = 1 .. n + 1 /\ Len(X) = n + 1
       /\ \A i \in 1 .. n : X[i] = v.chosen[i]
       /\ X[n + 1] = r0
  BY <1>2, <1>6, <1>9
<1>11. ToldIs(w) = S \cup {r0}
  <2>1. S = {v.chosen[i] : i \in 1 .. n}
    BY <1>1, <1>10 DEF ToldIs
  <2>2. ToldIs(w) = {X[i] : i \in 1 .. n + 1}
    BY <1>8, <1>10 DEF ToldIs
  <2>3. \A i \in 1 .. n + 1 : i \in 1 .. n \/ i = n + 1
    BY <1>9
  <2>4. \A i \in 1 .. n : i \in 1 .. n + 1
    BY <1>9
  <2>5. n + 1 \in 1 .. n + 1
    BY <1>9
  <2> QED BY <1>10, <2>1, <2>2, <2>3, <2>4, <2>5
<1>12. ChosenIs(w) = T \cup {b}
  BY <1>1, <1>5, <1>11 DEF ChosenIs
<1>13. w.chosen \in Seq(ToldIs(w)) /\ w.chosen # <<>> /\ Len(w.chosen) <= MaxRecommendations
  <2>1. v.chosen \in Seq(S \cup {r0})
    BY <1>2, <1>10
  <2>2. X \in Seq(S \cup {r0})
    BY <1>6, <2>1
  <2>3. MaxRecommendations \in Int
    BY DEF PlannerAssumption, Planner!CatalogIsValid
  <2>4. n + 1 <= MaxRecommendations
    BY <1>9, <2>3
  <2>5. X # <<>>
    <3>1. n + 1 # 0
      BY <1>9
    <3> QED BY <1>10, <3>1
  <2>6. Len(X) <= MaxRecommendations
    BY <1>10, <2>4
  <2>7. w.chosen = X /\ ToldIs(w) = S \cup {r0}
    BY <1>8, <1>11
  <2> QED BY ONLY <2>2, <2>5, <2>6, <2>7
<1>14. D \subseteq E /\ T \cup {b} \subseteq E
  BY <1>2, <1>3, <1>6
<1>15. \A t \in T \cup {b}, u \in D \cup (T \cup {b}) : t # u => ~Planner!Redundant(t, u)
  <2>1. \A u \in D : ~Planner!Redundant(b, u)
    BY <1>6, RedundantEither
  <2>2. \A t \in T : t # b => ~Planner!Redundant(t, b) /\ ~Planner!Redundant(b, t)
    BY <1>2, <1>3, RedundantEither
  <2>3. \A t \in T, u \in D : t # u => ~Planner!Redundant(t, u)
    BY <1>2, <1>6
  <2> QED BY <1>2, <2>1, <2>2, <2>3
<1>16. D \cap (T \cup {b}) = {}
  BY <1>2, <1>6
<1>17. \A t \in E : t \in D \cup (T \cup {b}) \/ \E u \in T \cup {b} : Planner!Redundant(t, u)
  BY <1>2, <1>6
<1>18. \A t \in E : Planner!Utility(Planner!Score(t, f, Nothing))
                      <= Planner!Utility(Planner!Score(X[1].template, f, Nothing))
  <2>1. CASE v.chosen = <<>>
    <3>1. X[1] = r0 /\ C = E /\ v.covered = Nothing
      BY <1>2, <1>6, <2>1
    <3> QED BY <1>3, <1>5, <3>1
  <2>2. CASE v.chosen # <<>>
    <3>1. n # 0
      BY <1>2, <1>9, <2>2, EmptySeq
    <3>2. X[1] = v.chosen[1]
      BY <1>9, <1>10, <3>1
    <3> QED BY <1>2, <2>2, <3>2
  <2> QED BY <2>1, <2>2
<1>19. \A r \in S \cup {r0} :
         /\ r.added \subseteq r.template.groups
         /\ r.leaves = [pairs |-> f.unresolved \ Planner!Discriminates(r.template, f),
                        groups |-> Groups \ r.template.groups]
  BY <1>2, <1>5
<1>20. \A r, s \in S \cup {r0} : r.template = s.template => r = s
  <2>1. \A r \in S : r.template \in T
    BY <1>1 DEF ChosenIs
  <2>2. b \notin T
    BY <1>2, <1>3
  <2> QED BY <1>2, <1>5, <2>1, <2>2
<1>21. PICK T2, S2 : T2 = T \cup {b} /\ S2 = S \cup {r0}
  OBVIOUS
<1>22. T2 = ChosenIs(w) /\ S2 = ToldIs(w)
  BY <1>11, <1>12, <1>21
<1> QED BY <1>1, <1>2, <1>7, <1>8, <1>13, <1>14, <1>15, <1>16, <1>17, <1>18, <1>19, <1>20, <1>21, <1>22
        DEF PlanStands

\* The Episode only moves forward, and a plan is of the Episode as it was when the
\* plan was begun.
PlannerInv ==
  /\ episode = [version |-> episode.version, open |-> episode.open, checks |-> episode.checks]
  /\ episode.version \in Int
  /\ \A v : v = planning /\ v # None =>
       /\ PlanStands(v) /\ v.loop.version \in Int
       /\ v.loop.version <= episode.version
       /\ v.loop.version = episode.version => v.loop = episode

LEMMA PlannerInitially == ASSUME Planner!Init PROVE PlannerInv
BY DEF Planner!Init, PlannerInv

LEMMA PlannerKeep ==
  ASSUME PlannerAssumption, PlannerInv, Planner!Next \/ UNCHANGED plannerVars
  PROVE  PlannerInv'
<1>1. PICK e : e = episode
  OBVIOUS
<1>2. /\ e = [version |-> e.version, open |-> e.open, checks |-> e.checks] /\ e.version \in Int
  BY <1>1 DEF PlannerInv
<1>3. ASSUME NEW x, episode' = x, x = [version |-> x.version, open |-> x.open, checks |-> x.checks],
             x.version = e.version + 1, UNCHANGED planning
      PROVE  PlannerInv'
  <2>1. PICK n : n = e.version /\ n \in Int
    BY <1>2
  <2>2. \A v : v = planning /\ v # None => PlanStands(v) /\ v.loop.version \in Int
    BY <1>1, <2>1 DEF PlannerInv
  <2>3. ASSUME NEW v, v = planning, v # None
        PROVE  v.loop.version <= n + 1 /\ v.loop.version # n + 1
    <3>1. v.loop.version <= n /\ (v.loop.version = n => v.loop = e)
      BY <1>1, <2>1, <2>3 DEF PlannerInv
    <3>2. v.loop.version \in Int
      BY <2>3 DEF PlannerInv
    <3> QED BY <2>1, <3>1, <3>2
  <2> QED BY <1>3, <2>1, <2>2, <2>3 DEF PlannerInv
<1>4. CASE UNCHANGED <<episode, planning>>
  BY <1>4 DEF PlannerInv
<1>5. ASSUME NEW t \in Catalog, Planner!Work(t) PROVE PlannerInv'
  <2>1. PICK k : episode' = [e EXCEPT !.version = @ + 1, !.checks[t] = k]
    BY <1>1, <1>5 DEF Planner!Work
  <2>2. PICK x : x = episode'
    OBVIOUS
  <2>3. x = [version |-> e.version + 1, open |-> e.open, checks |-> [e.checks EXCEPT ![t] = k]]
    BY <1>2, <2>1, <2>2
  <2>4. x.version = e.version + 1 /\ x = [version |-> x.version, open |-> x.open, checks |-> x.checks]
    BY <2>3
  <2>5. UNCHANGED planning
    BY <1>5 DEF Planner!Work
  <2> QED BY <1>3, <2>2, <2>4, <2>5
<1>6. CASE Planner!Close
  <2>1. PICK x : x = episode'
    OBVIOUS
  <2>2. x = [version |-> e.version + 1, open |-> FALSE, checks |-> e.checks]
    <3>1. PICK no : no = FALSE
      OBVIOUS
    <3>2. x = [e EXCEPT !.version = @ + 1, !.open = no]
      BY <1>1, <1>6, <2>1, <3>1 DEF Planner!Close
    <3>3. x = [version |-> e.version + 1, open |-> no, checks |-> e.checks]
      BY <1>2, <3>2
    <3> QED BY <3>1, <3>3
  <2>3. x.version = e.version + 1 /\ x = [version |-> x.version, open |-> x.open, checks |-> x.checks]
    <3>1. PICK no : no = FALSE
      OBVIOUS
    <3>2. x = [version |-> e.version + 1, open |-> no, checks |-> e.checks]
      BY <2>2, <3>1
    <3> QED BY <3>2
  <2>4. UNCHANGED planning
    BY <1>6 DEF Planner!Close
  <2> QED BY <1>3, <2>1, <2>3, <2>4
<1>7. ASSUME NEW f \in FactSets, Planner!Begin(f) PROVE PlannerInv'
  <2>1. PICK plan : plan = [facts |-> f, loop |-> e, candidates |-> Planner!Eligible(f, e), chosen |-> <<>>,
                            covered |-> Nothing]
    OBVIOUS
  <2>2. planning' = plan /\ episode' = episode
    BY <1>1, <1>7, <2>1 DEF Planner!Begin, Nothing
  <2>3. PlanStands(plan)
    BY <2>1, PlanBegins
  <2>4. plan.loop = e
    BY <2>1
  <2> QED BY <1>1, <1>2, <2>2, <2>3, <2>4 DEF PlannerInv
<1>8. CASE Planner!Round
  <2>1. PICK v : v = planning
    OBVIOUS
  <2>2. /\ v # None /\ v.candidates # {} /\ Len(v.chosen) < MaxRecommendations
        /\ UNCHANGED episode
    BY <1>8, <2>1 DEF Planner!Round, Planner!More
  <2>3. PICK b : b = Planner!Best(v.candidates, v.facts, v.covered)
    OBVIOUS
  <2>4. PICK w : w = [v EXCEPT
          !.candidates = {t \in v.candidates : t # b /\ ~Planner!Redundant(t, b)},
          !.chosen = Append(@, Planner!Recommendation(b, v.facts, v.covered)),
          !.covered = [pairs |-> @.pairs \cup Planner!Discriminates(b, v.facts),
                       groups |-> @.groups \cup b.groups]]
    OBVIOUS
  <2>5. planning' = w
    BY <1>8, <2>1, <2>3, <2>4, Zenon DEF Planner!Round
  <2>6. PlanStands(v) /\ v.loop.version \in Int /\ v.loop.version <= episode.version /\ (v.loop.version = episode.version => v.loop = episode)
    BY <2>1, <2>2 DEF PlannerInv
  <2>7. PlanStands(w)
    BY <2>2, <2>3, <2>4, <2>6, PlanGoesOn
  <2>8. w.loop = v.loop
    <3>1. PICK c, s, d : /\ c = {t \in v.candidates : t # b /\ ~Planner!Redundant(t, b)}
                         /\ s = Append(v.chosen, Planner!Recommendation(b, v.facts, v.covered))
                         /\ d = [pairs |-> v.covered.pairs \cup Planner!Discriminates(b, v.facts),
                                 groups |-> v.covered.groups \cup b.groups]
      OBVIOUS
    <3>2. v = [facts |-> v.facts, loop |-> v.loop, candidates |-> v.candidates, chosen |-> v.chosen,
               covered |-> v.covered]
      BY <2>6 DEF PlanStands
    <3>3. w = [facts |-> v.facts, loop |-> v.loop, candidates |-> c, chosen |-> s, covered |-> d]
      BY <2>4, <3>1, <3>2
    <3> QED BY ONLY <3>3
  <2> QED BY <1>1, <1>2, <2>2, <2>5, <2>6, <2>7, <2>8 DEF PlannerInv
<1>9. CASE Planner!Disclose
  BY <1>9 DEF Planner!Disclose, PlannerInv
<1> QED BY <1>4, <1>5, <1>6, <1>7, <1>8, <1>9 DEF Planner!Next, plannerVars

\* A plan that is complete is sound for the Episode that it is of.
LEMMA PlanIsSound ==
  ASSUME PlannerAssumption, NEW plan, PlanStands(plan), plan.loop = episode,
         plan.candidates = {} \/ ~(Len(plan.chosen) < MaxRecommendations)
  PROVE  Planner!Sound(plan)
<1>1. PICK f, E, T, S : /\ f = plan.facts /\ E = Planner!Eligible(f, episode) /\ T = ChosenIs(plan)
                        /\ S = ToldIs(plan)
  OBVIOUS
<1>2. /\ f \in FactSets /\ T \subseteq E /\ plan.chosen \in Seq(S) /\ Len(plan.chosen) <= MaxRecommendations
      /\ \A t \in T, u \in plan.candidates \cup T : t # u => ~Planner!Redundant(t, u)
      /\ \A t \in E : t \in plan.candidates \cup T \/ \E u \in T : Planner!Redundant(t, u)
      /\ plan.chosen = <<>> => plan.candidates = E
      /\ plan.chosen # <<>> => \A t \in E :
           Planner!Utility(Planner!Score(t, f, Nothing))
             <= Planner!Utility(Planner!Score(plan.chosen[1].template, f, Nothing))
      /\ \A r \in S : /\ r.added \subseteq r.template.groups
                      /\ r.leaves = [pairs |-> f.unresolved \ Planner!Discriminates(r.template, f),
                                     groups |-> Groups \ r.template.groups]
      /\ \A r, s \in S : r.template = s.template => r = s
  BY <1>1 DEF PlanStands
<1>3. Planner!ToSet(plan.chosen) = S /\ {r.template : r \in S} = T
  BY <1>1 DEF Planner!ToSet, ToldIs, ChosenIs
<1>12. \A r \in S : /\ r.added \subseteq r.template.groups
                   /\ r.leaves.pairs = f.unresolved \ Planner!Discriminates(r.template, f)
                   /\ r.leaves.groups = Groups \ r.template.groups
  <2> SUFFICES ASSUME NEW r \in S
               PROVE  /\ r.added \subseteq r.template.groups
                      /\ r.leaves.pairs = f.unresolved \ Planner!Discriminates(r.template, f)
                      /\ r.leaves.groups = Groups \ r.template.groups
    OBVIOUS
  <2>1. PICK A, B, l : /\ A = f.unresolved \ Planner!Discriminates(r.template, f)
                       /\ B = Groups \ r.template.groups /\ l = r.leaves
    OBVIOUS
  <2>2. l = [pairs |-> A, groups |-> B] /\ r.added \subseteq r.template.groups
    BY <1>2, <2>1
  <2>3. l.pairs = A /\ l.groups = B
    BY ONLY <2>2
  <2> QED BY <2>1, <2>2, <2>3
<1>4. \A t \in E : t \in Catalog
  BY <1>1 DEF Planner!Eligible
<1>5. \A t, u \in T : t # u => t.groups \cap u.groups = {} /\ t.id \notin u.redundant
  BY <1>2 DEF Planner!Redundant
<1>6. \A t \in T : f.deadline # None => f.of[t].seconds # None /\ f.asOf + f.of[t].seconds <= f.deadline
  BY <1>1, <1>2, EligibleIs
<1>7. plan.chosen = <<>> => E = {}
  <2>1. Len(<<>>) < MaxRecommendations
    BY DEF PlannerAssumption, Planner!CatalogIsValid
  <2> QED BY <1>2, <2>1
<1>8. \A t \in E : Planner!Utility(Planner!Score(t, f, Nothing))
                     <= Planner!Utility(Planner!Score(plan.chosen[1].template, f, Nothing))
  BY <1>2, <1>7
<1>9. \A t \in E \ T : Len(plan.chosen) = MaxRecommendations \/ \E u \in T : Planner!Redundant(t, u)
  <2>1. CASE plan.candidates = {}
    BY <1>2, <2>1
  <2>2. CASE ~(Len(plan.chosen) < MaxRecommendations)
    <3>1. Len(plan.chosen) \in Int /\ MaxRecommendations \in Int
      BY <1>2 DEF PlannerAssumption, Planner!CatalogIsValid
    <3>2. Len(plan.chosen) = MaxRecommendations
      BY <1>2, <2>2, <3>1
    <3> QED BY <3>2
  <2> QED BY <2>1, <2>2
<1>10. ASSUME NEW r \in S, NEW p \in Pairs, p \in r.leaves.pairs
       PROVE  p \in f.unresolved /\ r.template.rubric[p] = 0
  <2>1. p \in f.unresolved /\ p \notin Planner!Discriminates(r.template, f)
    BY <1>10, <1>12
  <2>2. r.template \in Catalog
    BY <1>2, <1>3, <1>4
  <2>3. PICK n : n = r.template.rubric[p]
    OBVIOUS
  <2>4. n \in 0 .. 2
    BY <2>2, <2>3, TemplateIs
  <2>5. ~(n > 0)
    BY <2>1, <2>3 DEF Planner!Discriminates
  <2> QED BY <2>1, <2>3, <2>4, <2>5
<1>11. ASSUME NEW r \in S, NEW s \in S, r # s
       PROVE  r.added \cap s.added = {} /\ s.added \subseteq r.leaves.groups
  <2>1. r.template \in T /\ s.template \in T /\ r.template # s.template
    BY <1>2, <1>3, <1>11
  <2>2. r.template.groups \cap s.template.groups = {}
    BY <1>5, <2>1
  <2>3. s.template.groups \subseteq Groups
    BY <1>2, <1>4, <2>1, TemplateIs
  <2>4. /\ r.added \subseteq r.template.groups /\ s.added \subseteq s.template.groups
        /\ r.leaves.groups = Groups \ r.template.groups
    BY <1>12
  <2> QED BY <2>2, <2>3, <2>4
<1> QED BY <1>1, <1>2, <1>3, <1>5, <1>6, <1>8, <1>9, <1>10, <1>11, Zenon DEF Planner!Sound, Nothing

LEMMA PlansHold ==
  ASSUME PlannerAssumption, PlannerInv, Planner!Next \/ UNCHANGED plannerVars,
         disclosed' # disclosed, disclosed' # None
  PROVE  Planner!Sound(disclosed')
<1>1. Planner!Disclose
  BY DEF plannerVars, Planner!Next, Planner!Work, Planner!Close, Planner!Begin, Planner!Round
<1>2. PICK v : v = planning
  OBVIOUS
<1>3. /\ v # None /\ Planner!StillCurrent(v) /\ disclosed' = v
      /\ v.candidates = {} \/ ~(Len(v.chosen) < MaxRecommendations)
  BY <1>1, <1>2 DEF Planner!Disclose, Planner!More
<1>4. PlanStands(v) /\ v.loop = episode
  BY <1>2, <1>3 DEF PlannerInv, Planner!StillCurrent
<1>5. Planner!Sound(v)
  BY <1>3, <1>4, PlanIsSound
<1> QED BY <1>3, <1>5

-----------------------------------------------------------------------------
(* ComparableHistory *)

LEMMA CasesCardinality == ASSUME NEW S PROVE Cases!Cardinality(S) = Cardinality(S)
BY DEF Cases!Cardinality, Cardinality

LEMMA DraftIs ==
  ASSUME CasesAssumption, NEW d \in CaseDrafts
  PROVE  /\ d.episode \in Int /\ d.id \in Int /\ d.known \in Int
         /\ d.profile \in Cases!Profile \cup {None}
<1>1. d \in Cases!Draft /\ CaseEpisodes \subseteq Int /\ CaseClock \in Nat
  BY DEF CasesAssumption
<1>2. /\ d.episode \in CaseEpisodes /\ d.id \in Nat /\ d.known \in Cases!Instants
      /\ d.profile \in Cases!Profile \cup {None}
  BY <1>1 DEF Cases!Draft
<1>3. d.known \in Int
  BY <1>1, <1>2 DEF Cases!Instants
<1>4. d.id \in Int
  BY <1>2
<1>5. d.episode \in Int
  BY <1>1, <1>2, Zenon
<1> QED BY <1>2, <1>3, <1>4, <1>5, Zenon

LEMMA KnownIs ==
  ASSUME CasesAssumption, Cases!TypeOK, NEW d \in CaseDrafts, Cases!Known(d)
  PROVE  published[d] \in Int /\ published[d] <= CaseCutoff /\ d.known <= CaseCutoff
<1>1. published[d] \in Cases!Instants
  BY DEF Cases!TypeOK, Cases!Known
<1> QED BY <1>1 DEF Cases!Instants, CasesAssumption, Cases!Known

Windowed == {d \in CaseDrafts : Cases!InWindow(d)}

LEMMA WindowedIs ==
  ASSUME CasesAssumption, Cases!TypeOK
  PROVE  /\ IsFiniteSet(Windowed) /\ Windowed \subseteq CaseDrafts
         /\ \A d \in Windowed : Cases!Known(d)
<1>1. Windowed \in SUBSET CaseDrafts
  BY DEF Windowed
<1> QED BY <1>1, FS_Subset DEF CasesAssumption, Windowed, Cases!InWindow

\* Revisions of one Episode are in a total order.
LEMMA RevisionOrder ==
  ASSUME CasesAssumption, Cases!TypeOK, NEW d \in CaseDrafts, NEW e \in CaseDrafts,
         Cases!Known(d), Cases!Known(e), d.episode = e.episode
  PROVE  /\ ~(Cases!Later(d, e) /\ Cases!Later(e, d))
         /\ ~Cases!Later(d, d)
         /\ d = e \/ Cases!Later(d, e) \/ Cases!Later(e, d)
<1>1. /\ d.id \in Int /\ d.known \in Int /\ published[d] \in Int
      /\ e.id \in Int /\ e.known \in Int /\ published[e] \in Int
  BY DraftIs, KnownIs
<1>2. d.id = e.id => d = e
  BY DEF CasesAssumption
<1>3. ~(Cases!Later(d, e) /\ Cases!Later(e, d)) /\ ~Cases!Later(d, d)
  BY <1>1 DEF Cases!Later
<1>4. d = e \/ Cases!Later(d, e) \/ Cases!Later(e, d)
  BY <1>1, <1>2 DEF Cases!Later
<1> QED BY <1>3, <1>4

LEMMA RevisionChain ==
  ASSUME CasesAssumption, Cases!TypeOK,
         NEW d \in CaseDrafts, NEW e \in CaseDrafts, NEW f \in CaseDrafts,
         Cases!Known(d), Cases!Known(e), Cases!Known(f), Cases!Later(d, e), Cases!Later(e, f)
  PROVE  Cases!Later(d, f)
<1>1. /\ d.id \in Int /\ d.known \in Int /\ published[d] \in Int
      /\ e.id \in Int /\ e.known \in Int /\ published[e] \in Int
      /\ f.id \in Int /\ f.known \in Int /\ published[f] \in Int
  BY DraftIs, KnownIs
<1> QED BY <1>1 DEF Cases!Later

\* One of them is the latest.
LEMMA HasLatest ==
  ASSUME CasesAssumption, Cases!TypeOK, NEW S, S \subseteq Windowed, NEW d \in S
  PROVE  \E e \in S : /\ e.episode = d.episode
                      /\ \A f \in S : f.episode = d.episode => ~Cases!Later(f, e)
<1>1. PICK T : T = {e \in S : e.episode = d.episode}
  OBVIOUS
<1>2. /\ T \in SUBSET Windowed /\ d \in T
      /\ \A e \in T : e \in CaseDrafts /\ Cases!Known(e) /\ e.episode = d.episode
  BY <1>1, WindowedIs
<1>3. IsFiniteSet(T)
  BY <1>2, WindowedIs, FS_Subset
<1>4. PICK R : R = {p \in T \X T : Cases!Later(p[1], p[2])}
  OBVIOUS
<1>5. \A x, y \in T : <<x, y>> \in R <=> Cases!Later(x, y)
  BY <1>4
<1>6. \A x \in T : <<x, x>> \notin R
  BY <1>2, <1>5, RevisionOrder
<1>7. \A x, y, z \in T : (<<x, y>> \in R /\ <<y, z>> \in R) => <<x, z>> \in R
  BY <1>2, <1>5, RevisionChain
<1>8. \A x, y \in T : x = y \/ <<x, y>> \in R \/ <<y, x>> \in R
  BY <1>2, <1>5, RevisionOrder
<1>9. T # {}
  BY <1>2
<1>10. \E x \in T : \A y \in T : y = x \/ <<x, y>> \in R
  BY <1>3, <1>6, <1>7, <1>8, <1>9, HasFirst
<1>11. PICK x \in T : \A y \in T : y = x \/ <<x, y>> \in R
  BY <1>10
<1>12. \A y \in T : ~Cases!Later(y, x)
  BY <1>2, <1>5, <1>11, RevisionOrder
<1> QED BY <1>1, <1>12

\* So are the rows of the window.
LEMMA OrderOrders ==
  ASSUME CasesAssumption, Cases!TypeOK, NEW d \in Windowed, NEW e \in Windowed
  PROVE  ~Cases!InOrder(d, d) /\ (d = e \/ Cases!InOrder(d, e) \/ Cases!InOrder(e, d))
<1>1. d \in CaseDrafts /\ e \in CaseDrafts /\ Cases!Known(d) /\ Cases!Known(e)
  BY WindowedIs
<1>2. /\ d.id \in Int /\ d.known \in Int /\ published[d] \in Int /\ d.episode \in Int
      /\ e.id \in Int /\ e.known \in Int /\ published[e] \in Int /\ e.episode \in Int
  BY <1>1, DraftIs, KnownIs
<1>3. d.episode = e.episode /\ d.id = e.id => d = e
  BY <1>1 DEF CasesAssumption
<1> QED BY <1>2, <1>3 DEF Cases!InOrder, Cases!Later

LEMMA OrderChains ==
  ASSUME CasesAssumption, Cases!TypeOK, NEW d \in Windowed, NEW e \in Windowed, NEW f \in Windowed,
         Cases!InOrder(d, e), Cases!InOrder(e, f)
  PROVE  Cases!InOrder(d, f)
<1>1. /\ d \in CaseDrafts /\ e \in CaseDrafts /\ f \in CaseDrafts
      /\ Cases!Known(d) /\ Cases!Known(e) /\ Cases!Known(f)
  BY WindowedIs
<1>2. /\ d.id \in Int /\ d.known \in Int /\ published[d] \in Int /\ d.episode \in Int
      /\ e.id \in Int /\ e.known \in Int /\ published[e] \in Int /\ e.episode \in Int
      /\ f.id \in Int /\ f.known \in Int /\ published[f] \in Int /\ f.episode \in Int
  BY <1>1, DraftIs, KnownIs
<1> QED BY <1>2 DEF Cases!InOrder, Cases!Later

LEMMA WindowIs ==
  ASSUME CasesAssumption, Cases!TypeOK, Cases!Cardinality(Cases!Window) <= CandidateLimit
  PROVE  Cases!Window = Windowed
<1>1. PICK S : S = Windowed
  OBVIOUS
<1>2. IsFiniteSet(S)
  BY <1>1, WindowedIs
<1>3. PICK R : R = {p \in S \X S : Cases!InOrder(p[1], p[2])}
  OBVIOUS
<1>4. \A x, y \in S : <<x, y>> \in R <=> Cases!InOrder(x, y)
  BY <1>3
<1>5. \A x \in S : <<x, x>> \notin R
  BY <1>1, <1>4, OrderOrders
<1>6. \A x, y, z \in S : (<<x, y>> \in R /\ <<y, z>> \in R) => <<x, z>> \in R
  BY <1>1, <1>4, OrderChains
<1>7. \A x, y \in S : x = y \/ <<x, y>> \in R \/ <<y, x>> \in R
  BY <1>1, <1>4, OrderOrders
<1>n. PICK n : n = CandidateLimit
  OBVIOUS
<1>8. PICK F : F = {x \in S : Cardinality({y \in S : <<y, x>> \in R}) < n + 1}
  OBVIOUS
<1>9. \A x \in S : {y \in S : <<y, x>> \in R} = {y \in S : Cases!InOrder(y, x)}
  BY <1>4
<1>10. Cases!Window = {x \in S : Cases!Cardinality({y \in S : Cases!InOrder(y, x)}) < n + 1}
  BY <1>1, <1>n, Zenon DEF Cases!Window, Cases!First, Windowed
<1>11. Cases!Window = F
  BY <1>8, <1>9, <1>10, CasesCardinality
<1>12. n \in Nat /\ Cardinality(F) <= n
  BY <1>n, <1>11, CasesCardinality DEF CasesAssumption
<1>13. F = S
  <2>1. Orders(R, S)
    BY <1>5, <1>6, <1>7 DEF Orders
  <2>2. F \subseteq S /\ \A x \in S : Cardinality(Below(R, S, x)) < n + 1 => x \in F
    BY <1>8 DEF Below
  <2> QED BY <1>2, <1>12, <2>1, <2>2, FirstAreAll, Zenon
<1> QED BY <1>1, <1>11, <1>13

\* What a revision that can be compared is.
LEMMA CaseIs ==
  ASSUME CasesAssumption, NEW d \in CaseDrafts, Cases!Reasons(d) = {}
  PROVE  /\ d.profile \in Cases!Profile /\ Cases!SourceOf(d.profile) # {}
         /\ Cases!Case(d).episode = d.episode /\ Cases!Case(d).id = d.id
         /\ Cases!Case(d).same \in Int /\ Cases!Case(d).compared \in Int /\ Cases!Case(d).known \in Int
         /\ \A c \in Cases!Case(d).claims : Cases!Tellable(c) /\ c \in Cases!Claim
<1>1. PICK p, s : p = d.profile /\ s = Cases!SourceOf(p)
  OBVIOUS
<1>2. "INVALID_PROFILE" \notin Cases!Reasons(d) /\ "MISSING_SOURCE" \notin Cases!Reasons(d)
  OBVIOUS
<1>3. p # None
  BY <1>1, <1>2 DEF Cases!Reasons
<1>4. s # {}
  BY <1>1, <1>2 DEF Cases!Reasons
<1>5. p \in Cases!Profile
  BY <1>1, <1>3, DraftIs
<1>6. DOMAIN p.features \in SUBSET Features /\ p.claims \subseteq Cases!Claim
  BY <1>5 DEF Cases!Profile
<1>7. Cases!Same(p) \in SUBSET Features /\ Cases!Compared(p) \in SUBSET Features
  BY <1>6 DEF Cases!Same, Cases!Compared
<1>8. \A S \in SUBSET Features : IsFiniteSet(S) /\ Cardinality(S) \in Nat
  BY FS_Subset, FS_CardinalityType DEF CasesAssumption
<1>9. /\ Cases!Cardinality(Cases!Same(d.profile)) \in Int
      /\ Cases!Cardinality(Cases!Compared(d.profile)) \in Int
  BY <1>1, <1>7, <1>8, CasesCardinality
<1>10. PICK c : c = Cases!Case(d)
  OBVIOUS
<1>11. /\ c.episode = d.episode /\ c.id = d.id /\ c.known = d.known
       /\ c.same = Cases!Cardinality(Cases!Same(d.profile))
       /\ c.compared = Cases!Cardinality(Cases!Compared(d.profile))
       /\ c.claims = {t \in d.profile.claims : Cases!Tellable(t)}
  BY <1>10 DEF Cases!Case
<1>12. d.known \in Int
  BY DraftIs
<1>13. \A t \in c.claims : Cases!Tellable(t) /\ t \in Cases!Claim
  BY <1>1, <1>6, <1>11
<1> QED BY <1>1, <1>4, <1>5, <1>9, <1>10, <1>11, <1>12, <1>13

CasesOf(drafts) == {Cases!Case(d) : d \in {e \in drafts : Cases!Reasons(e) = {}}}

LEMMA CasesAre ==
  ASSUME CasesAssumption, NEW drafts, drafts \subseteq CaseDrafts
  PROVE  /\ IsFiniteSet(CasesOf(drafts))
         /\ \A c \in CasesOf(drafts) :
              /\ c.same \in Int /\ c.compared \in Int /\ c.known \in Int
              /\ c.episode \in Int /\ c.id \in Int
         /\ \A b, c \in CasesOf(drafts) : b.episode = c.episode /\ b.id = c.id => b = c
<1>1. PICK D : D = {e \in drafts : Cases!Reasons(e) = {}}
  OBVIOUS
<1>2. PICK f : f = [d \in D |-> Cases!Case(d)]
  OBVIOUS
<1>3. CasesOf(drafts) = {f[d] : d \in D}
  BY <1>1, <1>2 DEF CasesOf
<1>4. D \in SUBSET CaseDrafts
  BY <1>1
<1>5. IsFiniteSet(D)
  BY <1>4, FS_Subset DEF CasesAssumption
<1>6. f \in Surjection(D, CasesOf(drafts))
  BY <1>2, <1>3 DEF Surjection
<1>7. IsFiniteSet(CasesOf(drafts))
  BY <1>5, <1>6, FS_Surjection
<1>8. \A d \in D :
        /\ d \in CaseDrafts /\ f[d].episode = d.episode /\ f[d].id = d.id
        /\ f[d].same \in Int /\ f[d].compared \in Int /\ f[d].known \in Int
        /\ f[d].episode \in Int /\ f[d].id \in Int
  BY <1>1, <1>2, <1>4, CaseIs, DraftIs
<1>9. \A d, e \in D : f[d].episode = f[e].episode /\ f[d].id = f[e].id => d = e
  BY <1>8 DEF CasesAssumption
<1>10. \A c \in CasesOf(drafts) :
         /\ c.same \in Int /\ c.compared \in Int /\ c.known \in Int
         /\ c.episode \in Int /\ c.id \in Int
  BY <1>3, <1>8
<1>11. \A b, c \in CasesOf(drafts) : b.episode = c.episode /\ b.id = c.id => b = c
  BY <1>3, <1>9
<1> QED BY <1>7, <1>10, <1>11

\* The order of cases is total.
CaseNumbers(c) ==
  c.same \in Int /\ c.compared \in Int /\ c.known \in Int /\ c.episode \in Int /\ c.id \in Int

LEMMA BeforeOrders ==
  ASSUME NEW policy, NEW a, NEW b, CaseNumbers(a), CaseNumbers(b),
         a.episode = b.episode /\ a.id = b.id => a = b
  PROVE  ~Cases!Before(policy, a, a) /\ (a = b \/ Cases!Before(policy, a, b) \/ Cases!Before(policy, b, a))
BY DEF CaseNumbers, Cases!Before

LEMMA BeforeChains ==
  ASSUME NEW policy, NEW a, NEW b, NEW c, CaseNumbers(a), CaseNumbers(b), CaseNumbers(c),
         Cases!Before(policy, a, b), Cases!Before(policy, b, c)
  PROVE  Cases!Before(policy, a, c)
BY DEF CaseNumbers, Cases!Before

\* The ranking is of each case once, in that order.
LEMMA RankedIs ==
  ASSUME CasesAssumption, NEW policy, NEW drafts, drafts \subseteq CaseDrafts,
         NEW s, s = Cases!Ranked(policy, drafts)
  PROVE  /\ {s[i] : i \in DOMAIN s} = CasesOf(drafts)
         /\ \A i, j \in DOMAIN s : i < j => Cases!Before(policy, s[i], s[j])
<1>1. PICK C : C = CasesOf(drafts)
  OBVIOUS
<1>2. /\ IsFiniteSet(C) /\ \A c \in C : CaseNumbers(c)
      /\ \A b, c \in C : b.episode = c.episode /\ b.id = c.id => b = c
  BY <1>1, CasesAre DEF CaseNumbers
<1>3. PICK R : R = {p \in C \X C : Cases!Before(policy, p[1], p[2])}
  OBVIOUS
<1>4. \A x, y \in C : <<x, y>> \in R <=> Cases!Before(policy, x, y)
  BY <1>3
<1>5. \A x \in C : <<x, x>> \notin R
  BY <1>2, <1>4, BeforeOrders
<1>6. \A x, y, z \in C : (<<x, y>> \in R /\ <<y, z>> \in R) => <<x, z>> \in R
  BY <1>2, <1>4, BeforeChains
<1>7. \A x, y \in C : x = y \/ <<x, y>> \in R \/ <<y, x>> \in R
  BY <1>2, <1>4, BeforeOrders
<1>8. \E t \in [1 .. Cardinality(C) -> C] :
        /\ \A i, j \in 1 .. Cardinality(C) : i # j => t[i] # t[j]
        /\ \A i, j \in 1 .. Cardinality(C) : i < j => <<t[i], t[j]>> \in R
  BY <1>2, <1>5, <1>6, <1>7, HasRanking, ZenonT(60)
<1>9. PICK t \in [1 .. Cardinality(C) -> C] :
        /\ \A i, j \in 1 .. Cardinality(C) : i # j => t[i] # t[j]
        /\ \A i, j \in 1 .. Cardinality(C) : i < j => <<t[i], t[j]>> \in R
  BY <1>8
<1>10. \A i \in 1 .. Cardinality(C) : t[i] \in C
  BY <1>9
<1>11. \A i, j \in DOMAIN t : i < j => Cases!Before(policy, t[i], t[j])
  BY <1>4, <1>9, <1>10
<1>12. Cases!SetToSeqs(C) = {u \in [1 .. Cardinality(C) -> C] : \A i, j \in 1 .. Cardinality(C) : i # j => u[i] # u[j]}
  BY CasesCardinality DEF Cases!SetToSeqs
<1>13. t \in Cases!SetToSeqs(C)
  BY <1>9, <1>12
<1>14. s = CHOOSE u \in Cases!SetToSeqs(C) :
             \A i, j \in DOMAIN u : i < j => Cases!Before(policy, u[i], u[j])
  BY <1>1, Zenon DEF Cases!Ranked, CasesOf
<1>15. s \in Cases!SetToSeqs(C) /\ \A i, j \in DOMAIN s : i < j => Cases!Before(policy, s[i], s[j])
  BY <1>11, <1>13, <1>14, Zenon
<1>16. /\ s \in [1 .. Cardinality(C) -> C]
       /\ \A i, j \in 1 .. Cardinality(C) : i # j => s[i] # s[j]
  BY <1>12, <1>15
<1>17. {s[i] : i \in DOMAIN s} = C
  BY <1>2, <1>16, EnumeratesAll
<1> QED BY <1>1, <1>15, <1>17

\* What has evidence of the cutoff is in the window, and what is in the window and
\* has a source has evidence.
LEMMA EvidencedIs ==
  ASSUME CasesAssumption, Cases!TypeOK
  PROVE  /\ Cases!Evidenced \subseteq Windowed
         /\ \A d \in Windowed : Cases!SourceOf(d.profile) # {} => d \in Cases!Evidenced
<1>1. ASSUME NEW d \in Cases!Evidenced PROVE d \in Windowed
  <2>1. d \in CaseDrafts /\ Cases!Known(d)
    BY DEF Cases!Evidenced
  <2>2. PICK m \in Cases!SourceOf(d.profile) : Cases!InTime(m)
    BY DEF Cases!Evidenced
  <2>3. \A n \in Cases!SourceOf(d.profile) : n = m
    BY <2>2 DEF Cases!SourceOf, CasesAssumption
  <2> QED BY <2>1, <2>2, <2>3 DEF Windowed, Cases!InWindow
<1>2. ASSUME NEW d \in Windowed, Cases!SourceOf(d.profile) # {} PROVE d \in Cases!Evidenced
  BY <1>2 DEF Windowed, Cases!InWindow, Cases!Evidenced
<1> QED BY <1>1, <1>2

ExcludedOf(drafts) ==
  {[episode |-> d.episode, id |-> d.id, reasons |-> Cases!Reasons(d)] :
     d \in {e \in drafts : Cases!Reasons(e) # {}}}

\* What AnswersAreWhole asks of one answer.
CasesWhole(a) ==
  LET cases == Cases!Range(a.cases)
      told == cases \cup a.excluded
  IN  /\ \A d \in Cases!Evidenced : \E c \in told : c.episode = d.episode
      /\ \A b, c \in told : b.episode = c.episode => b = c
      /\ \A c \in cases : \A e \in {d \in Cases!Evidenced : d.episode = c.episode} :
           e.id = c.id \/ \E d \in Cases!Evidenced : d.id = c.id /\ Cases!Later(d, e)
      /\ \A c \in cases : \A t \in c.claims :
           t.curated /\ t.known <= CaseCutoff /\ t.matures \in {None} \cup 0..CaseCutoff
      /\ \A i, j \in DOMAIN a.cases : i < j => Cases!Before(a.query.policy, a.cases[i], a.cases[j])

\* What is told of the latest revisions of a window is whole.
LEMMA LatestAreWhole ==
  ASSUME CasesAssumption, Cases!TypeOK, NEW L, L = Cases!Latest(Windowed),
         NEW r, r.cases = Cases!Ranked(r.query.policy, L), r.excluded = ExcludedOf(L)
  PROVE  CasesWhole(r)
<1>1. PICK cases, told : cases = Cases!Range(r.cases) /\ told = cases \cup r.excluded
  OBVIOUS
<1>2. L \subseteq Windowed /\ Windowed \subseteq CaseDrafts
  BY WindowedIs DEF Cases!Latest
<1>3. /\ cases = CasesOf(L)
      /\ \A i, j \in DOMAIN r.cases : i < j => Cases!Before(r.query.policy, r.cases[i], r.cases[j])
  <2>1. PICK s, p : s = r.cases /\ p = r.query.policy
    OBVIOUS
  <2>2. s = Cases!Ranked(p, L)
    BY <2>1
  <2>3. /\ {s[i] : i \in DOMAIN s} = CasesOf(L)
        /\ \A i, j \in DOMAIN s : i < j => Cases!Before(p, s[i], s[j])
    BY <1>2, <2>2, RankedIs
  <2> QED BY <1>1, <2>1, <2>3 DEF Cases!Range
<1>4. \A c \in cases : \E d \in L : Cases!Reasons(d) = {} /\ c = Cases!Case(d)
  BY <1>3 DEF CasesOf
<1>5. \A d \in L : Cases!Reasons(d) = {} => Cases!Case(d) \in cases
  BY <1>3 DEF CasesOf
<1>6. \A d \in L : Cases!Reasons(d) # {} =>
        [episode |-> d.episode, id |-> d.id, reasons |-> Cases!Reasons(d)] \in told
  BY <1>1 DEF ExcludedOf
<1>7. \A c \in told : \E d \in L :
        \/ Cases!Reasons(d) = {} /\ c = Cases!Case(d)
        \/ Cases!Reasons(d) # {} /\ c = [episode |-> d.episode, id |-> d.id, reasons |-> Cases!Reasons(d)]
  BY <1>1, <1>4 DEF ExcludedOf
<1>8. \A d \in L : Cases!Reasons(d) = {} => Cases!Case(d).episode = d.episode /\ Cases!Case(d).id = d.id
  BY <1>2, CaseIs
<1>9. \A d \in L : /\ d \in Windowed
                   /\ \A e \in Windowed : e.episode = d.episode => ~Cases!Later(e, d)
  BY DEF Cases!Latest
<1>10. ASSUME NEW d \in Cases!Evidenced PROVE \E c \in told : c.episode = d.episode
  <2>1. d \in Windowed
    BY EvidencedIs
  <2>2. PICK W : W = Windowed
    OBVIOUS
  <2>3. \E e \in W : /\ e.episode = d.episode
                     /\ \A f \in W : f.episode = d.episode => ~Cases!Later(f, e)
    BY <2>1, <2>2, HasLatest
  <2>4. PICK e \in W : /\ e.episode = d.episode
                       /\ \A f \in W : f.episode = d.episode => ~Cases!Later(f, e)
    BY <2>3
  <2>5. e \in L
    BY <2>2, <2>4 DEF Cases!Latest
  <2>6. CASE Cases!Reasons(e) = {}
    BY <1>1, <1>5, <1>8, <2>4, <2>5, <2>6
  <2>7. CASE Cases!Reasons(e) # {}
    <3>1. PICK c : c = [episode |-> e.episode, id |-> e.id, reasons |-> Cases!Reasons(e)]
      OBVIOUS
    <3>2. c \in told /\ c.episode = e.episode
      BY <1>6, <2>5, <2>7, <3>1
    <3> QED BY <2>4, <3>2
  <2> QED BY <2>6, <2>7
<1>11. \A d, e \in L : d.episode = e.episode => d = e
  <2> SUFFICES ASSUME NEW d \in L, NEW e \in L, d.episode = e.episode PROVE d = e
    OBVIOUS
  <2>1. d \in Windowed /\ e \in Windowed /\ ~Cases!Later(d, e) /\ ~Cases!Later(e, d)
    BY <1>9
  <2>2. d \in CaseDrafts /\ e \in CaseDrafts /\ Cases!Known(d) /\ Cases!Known(e)
    BY <2>1, WindowedIs
  <2> QED BY <2>1, <2>2, RevisionOrder
<1>12. ASSUME NEW b \in told, NEW c \in told, b.episode = c.episode PROVE b = c
  <2>1. PICK d \in L :
        \/ Cases!Reasons(d) = {} /\ b = Cases!Case(d)
        \/ Cases!Reasons(d) # {} /\ b = [episode |-> d.episode, id |-> d.id, reasons |-> Cases!Reasons(d)]
    BY <1>7
  <2>2. PICK e \in L :
        \/ Cases!Reasons(e) = {} /\ c = Cases!Case(e)
        \/ Cases!Reasons(e) # {} /\ c = [episode |-> e.episode, id |-> e.id, reasons |-> Cases!Reasons(e)]
    BY <1>7
  <2>3. b.episode = d.episode
    BY <1>8, <2>1
  <2>4. c.episode = e.episode
    BY <1>8, <2>2
  <2>5. d = e
    BY <1>11, <1>12, <2>3, <2>4
  <2> QED BY <2>1, <2>2, <2>5
<1>13. ASSUME NEW c \in cases, NEW e \in Cases!Evidenced, e.episode = c.episode
       PROVE  e.id = c.id \/ \E d \in Cases!Evidenced : d.id = c.id /\ Cases!Later(d, e)
  <2>1. PICK d \in L : Cases!Reasons(d) = {} /\ c = Cases!Case(d)
    BY <1>4
  <2>2. d.episode = c.episode /\ d.id = c.id
    BY <1>8, <2>1
  <2>3. d \in Windowed /\ e \in Windowed /\ ~Cases!Later(e, d)
    BY <1>9, <1>13, <2>2, EvidencedIs
  <2>4. d \in CaseDrafts /\ e \in CaseDrafts /\ Cases!Known(d) /\ Cases!Known(e)
    BY <2>3, WindowedIs
  <2>5. d = e \/ Cases!Later(d, e)
    BY <1>13, <2>2, <2>3, <2>4, RevisionOrder
  <2>6. d \in Cases!Evidenced
    BY <2>1, <2>3, <2>4, CaseIs, EvidencedIs
  <2> QED BY <2>2, <2>5, <2>6
<1>14. ASSUME NEW c \in cases, NEW t \in c.claims
       PROVE  t.curated /\ t.known <= CaseCutoff /\ t.matures \in {None} \cup 0..CaseCutoff
  <2>1. PICK d \in L : Cases!Reasons(d) = {} /\ c = Cases!Case(d)
    BY <1>4
  <2>2. Cases!Tellable(t) /\ t \in Cases!Claim
    BY <1>2, <1>14, <2>1, CaseIs
  <2>3. t.matures \in Cases!Instants \cup {None}
    BY <2>2 DEF Cases!Claim
  <2>4. t.matures # None => t.matures \in 0 .. CaseCutoff
    BY <2>2, <2>3 DEF Cases!Tellable, Cases!Instants, CasesAssumption
  <2> QED BY <2>2, <2>4 DEF Cases!Tellable
<1> QED BY <1>1, <1>3, <1>10, <1>12, <1>13, <1>14 DEF CasesWhole

\* An answer is the one that the window gives.
IsTold(a, w) ==
  IF Cases!Cardinality(w) > CandidateLimit
  THEN a = [query |-> a.query, state |-> "CANDIDATE_LIMIT_EXCEEDED", seen |-> a.seen]
  ELSE a = [query |-> a.query, state |-> "READY", seen |-> a.seen,
            cases |-> Cases!Ranked(a.query.policy, Cases!Latest(w)),
            excluded |-> ExcludedOf(Cases!Latest(w))]

AnswerTold(a) ==
  /\ CaseCutoff < time
  /\ a.state = "READY" => CasesWhole(a)
  /\ Cases!LateSource \/ IsTold(a, Cases!Window)

LEMMA ResultIsTold ==
  ASSUME CasesAssumption, Cases!TypeOK, CaseCutoff < time, NEW q, NEW r, r = Cases!Result(q, Cases!Window)
  PROVE  AnswerTold(r) /\ r.query = q /\ r.seen = subject
<1>1. PICK w, L, h : w = Cases!Window /\ L = Cases!Latest(w) /\ h = subject
  OBVIOUS
<1>2. CASE Cases!Cardinality(w) > CandidateLimit
  <2>1. r = [query |-> q, state |-> "CANDIDATE_LIMIT_EXCEEDED", seen |-> h]
    BY <1>1, <1>2 DEF Cases!Result
  <2>2. r.query = q /\ r.seen = h /\ r.state # "READY"
    BY <2>1
  <2>3. IsTold(r, w)
    BY <1>2, <2>1, <2>2 DEF IsTold
  <2> QED BY <1>1, <2>2, <2>3 DEF AnswerTold
<1>3. CASE ~(Cases!Cardinality(w) > CandidateLimit)
  <2>1. r = [query |-> q, state |-> "READY", seen |-> h, cases |-> Cases!Ranked(q.policy, L),
             excluded |-> ExcludedOf(L)]
    BY <1>1, <1>3 DEF Cases!Result, ExcludedOf
  <2>2. /\ r.query = q /\ r.seen = h /\ r.cases = Cases!Ranked(q.policy, L)
        /\ r.excluded = ExcludedOf(L)
    BY <2>1
  <2>3. IsTold(r, w)
    BY <1>1, <1>3, <2>1, <2>2 DEF IsTold
  <2>4. w = Windowed
    <3>1. w \subseteq Windowed
      BY <1>1 DEF Cases!Window, Cases!First, Windowed
    <3>2. IsFiniteSet(w)
      <4>1. w \in SUBSET Windowed
        BY <3>1
      <4> QED BY <4>1, WindowedIs, FS_Subset
    <3>3. Cases!Cardinality(w) \in Nat
      BY <3>2, CasesCardinality, FS_CardinalityType
    <3>4. Cases!Cardinality(Cases!Window) <= CandidateLimit
      BY <1>1, <1>3, <3>3 DEF CasesAssumption
    <3> QED BY <1>1, <3>4, WindowIs
  <2>5. L = Cases!Latest(Windowed)
    BY <1>1, <2>4
  <2>6. CasesWhole(r)
    BY <2>2, <2>5, LatestAreWhole
  <2> QED BY <1>1, <2>2, <2>3, <2>6 DEF AnswerTold
<1> QED BY <1>2, <1>3

\* After the cutoff nothing is published that was known by it.
LEMMA CasesTyped ==
  ASSUME CasesAssumption, Cases!TypeOK, Cases!Next \/ UNCHANGED caseVars
  PROVE  Cases!TypeOK' /\ time <= time'
<1>1. PICK n : n = time
  OBVIOUS
<1>2. n \in Cases!Instants /\ n \in Int
  BY <1>1 DEF Cases!TypeOK, Cases!Instants, CasesAssumption
<1>3. CASE UNCHANGED caseVars
  BY <1>1, <1>2, <1>3 DEF caseVars, Cases!TypeOK
<1>4. CASE Cases!Tick
  <2>1. time' = n + 1 /\ n < CaseClock
    BY <1>1, <1>4 DEF Cases!Tick
  <2>2. time' \in Cases!Instants /\ n <= time'
    BY <1>2, <2>1 DEF Cases!Instants, CasesAssumption
  <2> QED BY <1>1, <1>4, <2>2 DEF Cases!Tick, Cases!TypeOK
<1>5. CASE Cases!MoveHead
  <2>1. PICK h : h = subject
    OBVIOUS
  <2>2. /\ h.revision \in 0 .. CaseVersions /\ h.published \in Cases!Instants
        /\ h.version \in 0 .. CaseVersions /\ h.cycle \in Nat
        /\ h = [revision |-> h.revision, published |-> h.published, version |-> h.version, cycle |-> h.cycle]
    BY <2>1 DEF Cases!TypeOK, Cases!View
  <2>3. h.revision + h.version < CaseVersions /\ CaseVersions \in Nat
    BY <1>5, <2>1 DEF Cases!MoveHead, CasesAssumption
  <2>4. h.revision + 1 \in 0 .. CaseVersions /\ h.version + 1 \in 0 .. CaseVersions
    BY <2>2, <2>3
  <2>5. PICK k : k = subject'
    OBVIOUS
  <2>6. \/ k = [h EXCEPT !.revision = @ + 1, !.published = n]
        \/ \E c \in {h.cycle, h.cycle + 1} : k = [h EXCEPT !.version = @ + 1, !.cycle = c]
    BY <1>1, <1>5, <2>1, <2>5 DEF Cases!MoveHead
  <2>10. PICK V, I : /\ V = 0 .. CaseVersions /\ I = Cases!Instants
                     /\ Cases!View = [revision : V, published : I, version : V, cycle : Nat]
    BY DEF Cases!View
  <2>7. ASSUME k = [h EXCEPT !.revision = @ + 1, !.published = n] PROVE k \in Cases!View
    <3>1. k = [revision |-> h.revision + 1, published |-> n, version |-> h.version, cycle |-> h.cycle]
      BY <2>2, <2>7
    <3>2. h.revision + 1 \in V /\ n \in I /\ h.version \in V /\ h.cycle \in Nat
      BY <1>2, <2>2, <2>4, <2>10
    <3> QED BY <2>10, <3>1, <3>2
  <2>8. ASSUME \E c \in {h.cycle, h.cycle + 1} : k = [h EXCEPT !.version = @ + 1, !.cycle = c]
        PROVE  k \in Cases!View
    <3>1. PICK c \in {h.cycle, h.cycle + 1} : k = [h EXCEPT !.version = @ + 1, !.cycle = c]
      BY <2>8
    <3>2. k = [revision |-> h.revision, published |-> h.published, version |-> h.version + 1, cycle |-> c]
      BY <2>2, <3>1
    <3>3. c \in Nat
      BY <2>2
    <3>4. h.revision \in V /\ h.published \in I /\ h.version + 1 \in V
      BY <2>2, <2>4, <2>10
    <3> QED BY <2>10, <3>2, <3>3, <3>4
  <2>11. k \in Cases!View
    BY <2>6, <2>7, <2>8, Zenon
  <2>9. subject' \in Cases!View
    BY <2>5, <2>11
  <2> QED BY <1>1, <1>2, <1>5, <2>9 DEF Cases!MoveHead, Cases!TypeOK
<1>6. ASSUME NEW d \in CaseDrafts, Cases!Publish(d) PROVE Cases!TypeOK' /\ time <= time'
  BY <1>1, <1>2, <1>6 DEF Cases!Publish, Cases!TypeOK
<1>7. ASSUME NEW m \in Manifests, Cases!PublishSource(m) PROVE Cases!TypeOK' /\ time <= time'
  BY <1>1, <1>2, <1>7 DEF Cases!PublishSource, Cases!TypeOK
<1>8. CASE UNCHANGED <<time, published, manifests, subject>>
  BY <1>1, <1>2, <1>8 DEF Cases!TypeOK
<1> QED BY <1>3, <1>4, <1>5, <1>6, <1>7, <1>8
        DEF Cases!Next, Cases!Ask, Cases!FetchSource, Cases!FetchWindow, Cases!Recheck, Cases!Retain, Cases!Fail

PastStands ==
  /\ \A d \in CaseDrafts : /\ (Cases!Known(d))' <=> Cases!Known(d)
                           /\ Cases!Known(d) => published'[d] = published[d]
  /\ \A m \in Manifests : /\ manifests[m] # None => manifests'[m] = manifests[m]
                          /\ manifests[m] = None /\ manifests'[m] # None => ~(manifests'[m] <= CaseCutoff)

LEMMA PastIsPast ==
  ASSUME CasesAssumption, Cases!TypeOK, CaseCutoff < time, Cases!Next \/ UNCHANGED caseVars
  PROVE  PastStands
<1>1. time \in Int /\ CaseCutoff \in Int
  BY DEF Cases!TypeOK, Cases!Instants, CasesAssumption
<1>2. ASSUME NEW e \in CaseDrafts, Cases!Publish(e) PROVE PastStands
  <2>1. published[e] = None /\ published' = [published EXCEPT ![e] = time] /\ manifests' = manifests
    BY <1>2 DEF Cases!Publish
  <2>2. DOMAIN published = CaseDrafts
    BY DEF Cases!TypeOK
  <2>3. ~Cases!Known(e)
    BY <2>1 DEF Cases!Known
  <2>4. published'[e] = time /\ \A d \in CaseDrafts : d # e => published'[d] = published[d]
    BY <2>1, <2>2
  <2>5. ~(published'[e] <= CaseCutoff)
    BY <1>1, <2>4
  <2>6. ~(Cases!Known(e))'
    BY <2>5 DEF Cases!Known
  <2>7. \A d \in CaseDrafts : d # e => ((Cases!Known(d))' <=> Cases!Known(d))
    BY <2>4 DEF Cases!Known
  <2> QED BY <2>1, <2>3, <2>4, <2>6, <2>7 DEF PastStands
<1>3. ASSUME NEW n \in Manifests, Cases!PublishSource(n) PROVE PastStands
  <2>1. manifests[n] = None /\ manifests' = [manifests EXCEPT ![n] = time] /\ published' = published
    BY <1>3 DEF Cases!PublishSource
  <2>2. DOMAIN manifests = Manifests
    BY DEF Cases!TypeOK
  <2>3. manifests'[n] = time /\ \A m \in Manifests : m # n => manifests'[m] = manifests[m]
    BY <2>1, <2>2
  <2>4. ~(manifests'[n] <= CaseCutoff)
    BY <1>1, <2>3
  <2>5. \A d \in CaseDrafts : (Cases!Known(d))' <=> Cases!Known(d)
    BY <2>1 DEF Cases!Known
  <2> QED BY <2>1, <2>3, <2>4, <2>5 DEF PastStands
<1>4. CASE UNCHANGED <<published, manifests>>
  <2>1. published' = published /\ manifests' = manifests
    BY <1>4
  <2>2. \A d \in CaseDrafts : (Cases!Known(d))' <=> Cases!Known(d)
    BY <2>1 DEF Cases!Known
  <2> QED BY <2>1, <2>2 DEF PastStands
<1> QED BY <1>2, <1>3, <1>4
        DEF caseVars, Cases!Next, Cases!Tick, Cases!MoveHead, Cases!Ask, Cases!FetchSource,
            Cases!FetchWindow, Cases!Recheck, Cases!Retain, Cases!Fail

LEMMA SourcesStand ==
  ASSUME PastStands, NEW p
  PROVE  /\ Cases!SourceOf(p) \subseteq Cases!SourceOf(p)'
         /\ \A m \in Cases!SourceOf(p) : (Cases!InTime(m))' <=> Cases!InTime(m)
         /\ \A m \in Cases!SourceOf(p)' : m \notin Cases!SourceOf(p) => ~(Cases!InTime(m))'
<1>1. \A m \in Cases!SourceOf(p) : m \in Manifests /\ manifests[m] # None /\ manifests'[m] = manifests[m]
  BY DEF Cases!SourceOf, PastStands
<1>2. Cases!SourceOf(p) \subseteq Cases!SourceOf(p)'
  BY <1>1 DEF Cases!SourceOf
<1>3. \A m \in Cases!SourceOf(p) : (Cases!InTime(m))' <=> Cases!InTime(m)
  BY <1>1 DEF Cases!InTime
<1>4. \A m \in Cases!SourceOf(p)' : m \notin Cases!SourceOf(p) => ~(manifests'[m] <= CaseCutoff)
  BY DEF Cases!SourceOf, PastStands
<1>5. \A m \in Cases!SourceOf(p)' : m \notin Cases!SourceOf(p) => ~(Cases!InTime(m))'
  BY <1>4 DEF Cases!InTime
<1> QED BY <1>2, <1>3, <1>5

\* The evidence of the cutoff, and its order, stand.
LEMMA EvidenceStands ==
  ASSUME PastStands
  PROVE  /\ Cases!Evidenced' = Cases!Evidenced
         /\ \A d, e \in Cases!Evidenced : (Cases!Later(d, e))' <=> Cases!Later(d, e)
<1>1. ASSUME NEW d \in CaseDrafts
      PROVE  (\E m \in Cases!SourceOf(d.profile) : Cases!InTime(m))'
               <=> \E m \in Cases!SourceOf(d.profile) : Cases!InTime(m)
  BY SourcesStand
<1>2. Cases!Evidenced' = Cases!Evidenced
  BY <1>1 DEF Cases!Evidenced, PastStands
<1>3. \A d \in Cases!Evidenced : d \in CaseDrafts /\ published'[d] = published[d]
  BY DEF Cases!Evidenced, PastStands
<1>4. \A d, e \in Cases!Evidenced : (Cases!Later(d, e))' <=> Cases!Later(d, e)
  BY <1>3 DEF Cases!Later
<1> QED BY <1>2, <1>4

LEMMA WholeStands ==
  ASSUME PastStands, NEW a, CasesWhole(a)
  PROVE  (CasesWhole(a))'
<1>1. PICK E : E = Cases!Evidenced
  OBVIOUS
<1>2. E = Cases!Evidenced' /\ \A d, e \in E : (Cases!Later(d, e))' <=> Cases!Later(d, e)
  BY <1>1, EvidenceStands
<1>3. PICK cases, told : cases = Cases!Range(a.cases) /\ told = cases \cup a.excluded
  OBVIOUS
<1>4. /\ \A d \in E : \E c \in told : c.episode = d.episode
      /\ \A b, c \in told : b.episode = c.episode => b = c
      /\ \A c \in cases : \A e \in {d \in E : d.episode = c.episode} :
           e.id = c.id \/ \E d \in E : d.id = c.id /\ Cases!Later(d, e)
      /\ \A c \in cases : \A t \in c.claims :
           t.curated /\ t.known <= CaseCutoff /\ t.matures \in {None} \cup 0..CaseCutoff
      /\ \A i, j \in DOMAIN a.cases : i < j => Cases!Before(a.query.policy, a.cases[i], a.cases[j])
  BY <1>1, <1>3 DEF CasesWhole
<1>5. \A c \in cases : \A e \in {d \in E : d.episode = c.episode} :
           e.id = c.id \/ \E d \in E : d.id = c.id /\ (Cases!Later(d, e))'
  BY <1>2, <1>4
<1> QED BY <1>2, <1>3, <1>4, <1>5, Zenon DEF CasesWhole

\* Unless a manifest comes late, so do the window and what is told of it.
LEMMA LateStays == ASSUME PastStands, Cases!LateSource PROVE Cases!LateSource'
<1>1. PICK d \in CaseDrafts : /\ Cases!Known(d)
                              /\ \E m \in Manifests : /\ d.profile # None /\ m.source = d.profile.source
                                                      /\ manifests[m] # None /\ ~Cases!InTime(m)
  BY DEF Cases!LateSource
<1>2. PICK m \in Manifests : /\ d.profile # None /\ m.source = d.profile.source
                             /\ manifests[m] # None /\ ~Cases!InTime(m)
  BY <1>1
<1>3. manifests'[m] = manifests[m] /\ (Cases!Known(d))'
  BY <1>1, <1>2 DEF PastStands
<1>4. ~(Cases!InTime(m))'
  BY <1>2, <1>3 DEF Cases!InTime
<1> QED BY <1>2, <1>3, <1>4 DEF Cases!LateSource

LEMMA SourcesInTime ==
  ASSUME PastStands, ~Cases!LateSource', NEW d \in CaseDrafts, Cases!Known(d)
  PROVE  Cases!SourceOf(d.profile)' = Cases!SourceOf(d.profile)
<1>1. ASSUME NEW m \in Cases!SourceOf(d.profile)', m \notin Cases!SourceOf(d.profile) PROVE FALSE
  <2>1. ~(Cases!InTime(m))'
    BY <1>1, SourcesStand
  <2>2. m \in Manifests /\ d.profile # None /\ m.source = d.profile.source /\ manifests'[m] # None
    BY <1>1 DEF Cases!SourceOf
  <2>3. (Cases!Known(d))'
    BY DEF PastStands
  <2> QED BY <2>1, <2>2, <2>3 DEF Cases!LateSource
<1> QED BY <1>1, SourcesStand

LEMMA WindowStands ==
  ASSUME PastStands, ~Cases!LateSource'
  PROVE  Cases!Window' = Cases!Window
<1>1. PICK W : W = Windowed
  OBVIOUS
<1>2. \A d \in CaseDrafts : Cases!Known(d) => ((Cases!InWindow(d))' <=> Cases!InWindow(d))
  <2> SUFFICES ASSUME NEW d \in CaseDrafts, Cases!Known(d) PROVE (Cases!InWindow(d))' <=> Cases!InWindow(d)
    OBVIOUS
  <2>1. PICK S : S = Cases!SourceOf(d.profile)
    OBVIOUS
  <2>2. S = Cases!SourceOf(d.profile)' /\ \A m \in S : (Cases!InTime(m))' <=> Cases!InTime(m)
    BY <2>1, SourcesInTime, SourcesStand
  <2>3. (Cases!Known(d))'
    BY DEF PastStands
  <2> QED BY <2>1, <2>2, <2>3 DEF Cases!InWindow
<1>3. \A d \in CaseDrafts : ~Cases!Known(d) => (~(Cases!InWindow(d))' /\ ~Cases!InWindow(d))
  BY DEF PastStands, Cases!InWindow
<1>4. W = Windowed'
  BY <1>1, <1>2, <1>3 DEF Windowed
<1>5. \A d \in W : published'[d] = published[d]
  BY <1>1 DEF Windowed, Cases!InWindow, PastStands
<1>6. \A d, e \in W : (Cases!InOrder(d, e))' <=> Cases!InOrder(d, e)
  BY <1>5 DEF Cases!InOrder, Cases!Later
<1>7. \A d \in W : {e \in W : (Cases!InOrder(e, d))'} = {e \in W : Cases!InOrder(e, d)}
  BY <1>6
<1>8. PICK n : n = CandidateLimit + 1
  OBVIOUS
<1>9. Cases!Window = {d \in W : Cases!Cardinality({e \in W : Cases!InOrder(e, d)}) < n}
  BY <1>1, <1>8, Zenon DEF Cases!Window, Cases!First, Windowed
<1>10. Cases!Window' = {d \in W : Cases!Cardinality({e \in W : (Cases!InOrder(e, d))'}) < n}
  BY <1>4, <1>8, Zenon DEF Cases!Window, Cases!First, Windowed
<1> QED BY <1>7, <1>9, <1>10

LEMMA ToldStands ==
  ASSUME PastStands, ~Cases!LateSource', NEW w, w \subseteq Windowed, NEW a, IsTold(a, w)
  PROVE  (IsTold(a, w))'
<1>1. \A d \in w : d \in CaseDrafts /\ Cases!Known(d)
  BY DEF Windowed, Cases!InWindow
<1>2. \A d, e \in w : (Cases!Later(d, e))' <=> Cases!Later(d, e)
  BY <1>1 DEF Cases!Later, PastStands
<1>3. PICK L : L = Cases!Latest(w)
  OBVIOUS
<1>4. L = Cases!Latest(w)'
  BY <1>2, <1>3 DEF Cases!Latest
<1>5. L \subseteq w
  BY <1>3 DEF Cases!Latest
<1>6. ASSUME NEW d \in L
      PROVE  Cases!Reasons(d)' = Cases!Reasons(d) /\ Cases!Case(d)' = Cases!Case(d)
  <2>1. Cases!SourceOf(d.profile)' = Cases!SourceOf(d.profile)
    BY <1>1, <1>5, SourcesInTime
  <2>2. Cases!Reasons(d)' = Cases!Reasons(d)
    BY <2>1, Zenon DEF Cases!Reasons
  <2>3. Cases!Limitations(d)' = Cases!Limitations(d)
    BY <2>1, Zenon DEF Cases!Limitations
  <2>4. Cases!Case(d)' = Cases!Case(d)
    BY <2>3, Zenon DEF Cases!Case
  <2> QED BY <2>2, <2>4
<1>7. CasesOf(L)' = CasesOf(L)
  BY <1>6 DEF CasesOf
<1>8. ExcludedOf(L)' = ExcludedOf(L)
  BY <1>6 DEF ExcludedOf
<1>9. \A p : Cases!Ranked(p, L) = CHOOSE u \in Cases!SetToSeqs(CasesOf(L)) :
                                    \A i, j \in DOMAIN u : i < j => Cases!Before(p, u[i], u[j])
  BY Zenon DEF Cases!Ranked, CasesOf
<1>10. \A p : Cases!Ranked(p, L)' = CHOOSE u \in Cases!SetToSeqs(CasesOf(L)') :
                                      \A i, j \in DOMAIN u : i < j => Cases!Before(p, u[i], u[j])
  BY Zenon DEF Cases!Ranked, CasesOf
<1>11. PICK q : q = a.query.policy
  OBVIOUS
<1>12. Cases!Ranked(q, L)' = Cases!Ranked(q, L)
  BY <1>7, <1>9, <1>10
<1>13. CASE Cases!Cardinality(w) > CandidateLimit
  BY <1>13 DEF IsTold
<1>14. CASE ~(Cases!Cardinality(w) > CandidateLimit)
  <2>1. a = [query |-> a.query, state |-> "READY", seen |-> a.seen,
             cases |-> Cases!Ranked(q, L), excluded |-> ExcludedOf(L)]
    BY <1>3, <1>11, <1>14, Zenon DEF IsTold
  <2>2. a = [query |-> a.query, state |-> "READY", seen |-> a.seen,
             cases |-> Cases!Ranked(q, L)', excluded |-> ExcludedOf(L)']
    BY <1>8, <1>12, <2>1
  <2> QED BY <1>4, <1>11, <1>14, <2>2, Zenon DEF IsTold
<1> QED BY <1>13, <1>14

LEMMA AnswerStaysTold ==
  ASSUME CasesAssumption, Cases!TypeOK, Cases!Next \/ UNCHANGED caseVars, NEW a, AnswerTold(a)
  PROVE  (AnswerTold(a))'
<1>1. CaseCutoff < time
  BY DEF AnswerTold
<1>2. PastStands
  BY <1>1, PastIsPast
<1>3. CaseCutoff < time'
  <2>1. time \in Int /\ time' \in Int /\ CaseCutoff \in Int
    BY CasesTyped DEF Cases!TypeOK, Cases!Instants, CasesAssumption
  <2> QED BY <1>1, <2>1, CasesTyped
<1>4. a.state = "READY" => (CasesWhole(a))'
  BY <1>2, WholeStands DEF AnswerTold
<1>5. ASSUME ~Cases!LateSource' PROVE (IsTold(a, Cases!Window))'
  <2>1. ~Cases!LateSource
    BY <1>2, <1>5, LateStays
  <2>2. PICK w : w = Cases!Window
    OBVIOUS
  <2>3. IsTold(a, w) /\ w \subseteq Windowed
    BY <2>1, <2>2 DEF AnswerTold, Cases!Window, Cases!First, Windowed
  <2>4. w = Cases!Window'
    BY <1>2, <1>5, <2>2, WindowStands
  <2>5. (IsTold(a, w))'
    BY <1>2, <1>5, <2>3, ToldStands
  <2> QED BY <2>4, <2>5, Zenon
<1> QED BY <1>3, <1>4, <1>5 DEF AnswerTold

\* The Episode that asks only moves forward, and never to another one of the same
\* revision and version.
AtMost(h, k) ==
  /\ h.revision <= k.revision /\ h.version <= k.version
  /\ h.revision = k.revision /\ h.version = k.version => h = k

LEMMA SubjectIs ==
  ASSUME CasesAssumption, NEW h \in Cases!View PROVE h.revision \in Int /\ h.version \in Int
BY DEF Cases!View, CasesAssumption

LEMMA SubjectGrows ==
  ASSUME CasesAssumption, Cases!TypeOK, Cases!Next \/ UNCHANGED caseVars,
         NEW h \in Cases!View, AtMost(h, subject)
  PROVE  AtMost(h, subject')
<1>1. PICK s, t : s = subject /\ t = subject'
  OBVIOUS
<1>2. s \in Cases!View /\ s.revision \in Int /\ s.version \in Int /\ h.revision \in Int /\ h.version \in Int
  BY <1>1, SubjectIs DEF Cases!TypeOK
<1>3. CASE Cases!MoveHead
  <2>1. s = [revision |-> s.revision, published |-> s.published, version |-> s.version, cycle |-> s.cycle]
    BY <1>2 DEF Cases!View
  <2>2. \/ t = [s EXCEPT !.revision = @ + 1, !.published = time]
        \/ \E c \in {s.cycle, s.cycle + 1} : t = [s EXCEPT !.version = @ + 1, !.cycle = c]
    BY <1>1, <1>3 DEF Cases!MoveHead
  <2>3. \/ t.revision = s.revision + 1 /\ t.version = s.version
        \/ t.revision = s.revision /\ t.version = s.version + 1
    BY <2>1, <2>2
  <2> QED BY <1>1, <1>2, <2>3 DEF AtMost
<1>4. CASE UNCHANGED subject
  BY <1>4
<1> QED BY <1>3, <1>4
        DEF caseVars, Cases!Next, Cases!Tick, Cases!Publish, Cases!PublishSource, Cases!Ask,
            Cases!FetchSource, Cases!FetchWindow, Cases!Recheck, Cases!Retain, Cases!Fail

\* What a retrieval has read was current when it was read, after it began.
RetrievalStands(v) ==
  v # Cases!Idle =>
    /\ CaseCutoff < time
    /\ v.query.head \in Cases!View /\ AtMost(v.query.head, subject)
    /\ \/ v.pc \in {"source", "window"} /\ v = [pc |-> v.pc, query |-> v.query]
       \/ /\ v.pc \in {"recheck", "retain"}
          /\ v = [pc |-> v.pc, query |-> v.query, result |-> v.result]
          /\ v.result.state = "READY" /\ AnswerTold(v.result) /\ v.result.query = v.query
          /\ v.result.seen \in Cases!View
          /\ AtMost(v.query.head, v.result.seen) /\ AtMost(v.result.seen, subject)
          /\ v.pc = "retain" => v.result.seen = v.query.head

CasesInv ==
  /\ Cases!TypeOK
  /\ \A v : v = retrieving => RetrievalStands(v)
  /\ \A a \in answers : AnswerTold(a) /\ (a.state = "READY" => a.seen = a.query.head)

LEMMA CasesInitially == ASSUME CasesAssumption, Cases!Init PROVE CasesInv
<1>1. Cases!TypeOK
  <2>1. 0 \in Cases!Instants /\ 0 \in 0 .. CaseVersions
    BY DEF Cases!Instants, CasesAssumption
  <2>2. subject \in Cases!View
    BY <2>1 DEF Cases!Init, Cases!View
  <2> QED BY <2>1, <2>2 DEF Cases!Init, Cases!TypeOK
<1> QED BY <1>1 DEF Cases!Init, CasesInv, RetrievalStands

LEMMA RetrievalKeeps ==
  ASSUME CasesAssumption, Cases!TypeOK, Cases!Next \/ UNCHANGED caseVars, NEW v, RetrievalStands(v)
  PROVE  (RetrievalStands(v))'
<1>1. SUFFICES ASSUME v # Cases!Idle PROVE (RetrievalStands(v))'
  BY DEF RetrievalStands, Cases!Idle
<1>2. CaseCutoff < time'
  <2>1. time \in Int /\ time' \in Int /\ CaseCutoff \in Int
    BY CasesTyped DEF Cases!TypeOK, Cases!Instants, CasesAssumption
  <2> QED BY <1>1, <2>1, CasesTyped DEF RetrievalStands
<1>3. v.query.head \in Cases!View /\ AtMost(v.query.head, subject')
  BY <1>1, SubjectGrows DEF RetrievalStands
<1>4. CASE v.pc \in {"source", "window"}
  <2>1. v = [pc |-> v.pc, query |-> v.query]
    BY <1>1, <1>4 DEF RetrievalStands
  <2> QED BY <1>2, <1>3, <1>4, <2>1 DEF RetrievalStands
<1>5. CASE v.pc \in {"recheck", "retain"}
  <2>1. /\ v = [pc |-> v.pc, query |-> v.query, result |-> v.result]
        /\ v.result.state = "READY" /\ AnswerTold(v.result) /\ v.result.query = v.query
        /\ v.result.seen \in Cases!View
        /\ AtMost(v.query.head, v.result.seen) /\ AtMost(v.result.seen, subject)
        /\ v.pc = "retain" => v.result.seen = v.query.head
    BY <1>1, <1>5 DEF RetrievalStands
  <2>2. AtMost(v.result.seen, subject')
    BY <2>1, SubjectGrows
  <2>3. (AnswerTold(v.result))'
    BY <2>1, AnswerStaysTold
  <2> QED BY <1>2, <1>3, <1>5, <2>1, <2>2, <2>3 DEF RetrievalStands
<1> QED BY <1>1, <1>4, <1>5 DEF RetrievalStands

LEMMA RetrievalReads ==
  ASSUME CasesAssumption, CasesInv, Cases!Next \/ UNCHANGED caseVars
  PROVE  /\ \A w : w = retrieving' => RetrievalStands(w)
         /\ \A a \in answers' : AnswerTold(a) /\ (a.state = "READY" => a.seen = a.query.head)
<1>1. PICK v : v = retrieving
  OBVIOUS
<1>2. /\ RetrievalStands(v) /\ Cases!TypeOK
      /\ \A a \in answers : AnswerTold(a) /\ (a.state = "READY" => a.seen = a.query.head)
  BY <1>1 DEF CasesInv
<1>3. PICK w : w = retrieving'
  OBVIOUS
<1>4. SUFFICES /\ RetrievalStands(w)
               /\ \A a \in answers' : AnswerTold(a) /\ (a.state = "READY" => a.seen = a.query.head)
  BY <1>3
<1>5. v.pc \in {"source", "window", "recheck", "retain"} => v # Cases!Idle
  BY DEF Cases!Idle
<1>6. RetrievalStands(Cases!Idle)
  BY DEF RetrievalStands
<1>7. ASSUME NEW p \in RetrievalPolicies, Cases!Ask(p) PROVE RetrievalStands(w) /\ answers' = answers
  <2>1. PICK h : h = subject
    OBVIOUS
  <2>2. CaseCutoff < time /\ w = [pc |-> "source", query |-> [head |-> h, policy |-> p]]
    BY <1>3, <1>7, <2>1 DEF Cases!Ask
  <2>3. h \in Cases!View /\ AtMost(h, h)
    <3>1. h \in Cases!View
      BY <1>2, <2>1 DEF Cases!TypeOK
    <3>2. h.revision \in Int /\ h.version \in Int
      BY <3>1, SubjectIs
    <3> QED BY <3>1, <3>2 DEF AtMost
  <2>4. w.query.head = h /\ w.pc = "source" /\ w = [pc |-> w.pc, query |-> w.query]
    BY <2>2
  <2> QED BY <1>7, <2>1, <2>2, <2>3, <2>4 DEF RetrievalStands, Cases!Ask
<1>8. CASE Cases!FetchSource
  <2>1. v.pc = "source" /\ w = [v EXCEPT !.pc = "window"]
    BY <1>1, <1>3, <1>8 DEF Cases!FetchSource
  <2>2. /\ CaseCutoff < time /\ v.query.head \in Cases!View /\ AtMost(v.query.head, subject)
        /\ v = [pc |-> v.pc, query |-> v.query]
    BY <1>2, <1>5, <2>1 DEF RetrievalStands
  <2>3. w = [pc |-> "window", query |-> v.query]
    BY <2>1, <2>2
  <2>4. w.query = v.query /\ w.pc = "window" /\ w = [pc |-> w.pc, query |-> w.query]
    BY <2>3
  <2>5. RetrievalStands(w)
    BY <2>2, <2>4 DEF RetrievalStands
  <2> QED BY <1>2, <1>8, <2>5 DEF Cases!FetchSource
<1>9. CASE Cases!FetchWindow
  <2>1. PICK r : r = Cases!Result(v.query, Cases!Window)
    OBVIOUS
  <2>2. /\ v.pc = "window"
        /\ IF r.state = "READY"
           THEN w = [pc |-> "recheck", query |-> v.query, result |-> r] /\ answers' = answers
           ELSE w = Cases!Idle /\ answers' = answers \cup {r}
    BY <1>1, <1>3, <1>9, <2>1 DEF Cases!FetchWindow
  <2>3. CaseCutoff < time /\ v.query.head \in Cases!View /\ AtMost(v.query.head, subject)
    BY <1>2, <1>5, <2>2 DEF RetrievalStands
  <2>4. AnswerTold(r) /\ r.query = v.query /\ r.seen = subject
    BY <1>2, <2>1, <2>3, ResultIsTold
  <2>5. CASE r.state = "READY"
    <3>1. w = [pc |-> "recheck", query |-> v.query, result |-> r]
      BY <2>2, <2>5
    <3>2. w.query = v.query /\ w.pc = "recheck" /\ w.result = r
          /\ w = [pc |-> w.pc, query |-> w.query, result |-> w.result]
      BY <3>1
    <3>3. subject \in Cases!View /\ AtMost(subject, subject)
      <4>1. subject \in Cases!View
        BY <1>2 DEF Cases!TypeOK
      <4>2. subject.revision \in Int /\ subject.version \in Int
        BY <4>1, SubjectIs
      <4> QED BY <4>1, <4>2 DEF AtMost
    <3>4. RetrievalStands(w)
      BY <2>3, <2>4, <2>5, <3>2, <3>3 DEF RetrievalStands
    <3> QED BY <1>2, <2>2, <2>5, <3>4
  <2>6. CASE r.state # "READY"
    BY <1>2, <1>6, <2>2, <2>4, <2>6
  <2> QED BY <2>5, <2>6
<1>10. CASE Cases!Recheck
  <2>1. v.pc = "recheck" /\ w = [v EXCEPT !.pc = "retain"] /\ Cases!StillCurrent(v.query)
    BY <1>1, <1>3, <1>10 DEF Cases!Recheck
  <2>2. /\ CaseCutoff < time /\ v.query.head \in Cases!View /\ AtMost(v.query.head, subject)
        /\ v = [pc |-> v.pc, query |-> v.query, result |-> v.result]
        /\ v.result.state = "READY" /\ AnswerTold(v.result) /\ v.result.query = v.query
        /\ v.result.seen \in Cases!View
        /\ AtMost(v.query.head, v.result.seen) /\ AtMost(v.result.seen, subject)
    BY <1>2, <1>5, <2>1 DEF RetrievalStands
  <2>3. w = [pc |-> "retain", query |-> v.query, result |-> v.result]
    BY <2>1, <2>2
  <2>4. /\ w.query = v.query /\ w.pc = "retain" /\ w.result = v.result
        /\ w = [pc |-> w.pc, query |-> w.query, result |-> w.result]
    BY <2>3
  <2>5. v.result.seen = v.query.head
    <3>1. PICK h, s, k : h = v.query.head /\ s = v.result.seen /\ k = subject
      OBVIOUS
    <3>2. /\ h.revision \in Int /\ h.version \in Int /\ s.revision \in Int /\ s.version \in Int
          /\ k.revision \in Int /\ k.version \in Int
      BY <1>2, <2>2, <3>1, SubjectIs DEF Cases!TypeOK
    <3>3. k.revision = h.revision /\ k.version = h.version /\ AtMost(h, s) /\ AtMost(s, k)
      BY <2>1, <2>2, <3>1 DEF Cases!StillCurrent
    <3> QED BY <3>1, <3>2, <3>3 DEF AtMost
  <2>6. RetrievalStands(w)
    BY <2>2, <2>4, <2>5 DEF RetrievalStands
  <2> QED BY <1>2, <1>10, <2>6 DEF Cases!Recheck
<1>11. CASE Cases!Retain
  <2>1. v.pc = "retain" /\ w = Cases!Idle /\ answers' = answers \cup {v.result}
    BY <1>1, <1>3, <1>11 DEF Cases!Retain
  <2>2. AnswerTold(v.result) /\ v.result.query = v.query /\ v.result.seen = v.query.head
    BY <1>2, <1>5, <2>1 DEF RetrievalStands
  <2> QED BY <1>2, <1>6, <2>1, <2>2
<1>12. CASE Cases!Fail
  BY <1>2, <1>3, <1>6, <1>12 DEF Cases!Fail
<1>13. CASE UNCHANGED <<retrieving, answers>>
  BY <1>1, <1>2, <1>3, <1>13
<1> QED BY <1>2, <1>7, <1>8, <1>9, <1>10, <1>11, <1>12, <1>13
        DEF caseVars, Cases!Next, Cases!Tick, Cases!MoveHead, Cases!Publish, Cases!PublishSource

LEMMA CasesKeep ==
  ASSUME CasesAssumption, CasesInv, Cases!Next \/ UNCHANGED caseVars
  PROVE  CasesInv'
<1>1. Cases!TypeOK /\ Cases!TypeOK'
  BY CasesTyped DEF CasesInv
<1>2. ASSUME NEW w, w = retrieving' PROVE (RetrievalStands(w))'
  BY <1>1, <1>2, RetrievalReads, RetrievalKeeps
<1>3. ASSUME NEW a, a \in answers' PROVE (AnswerTold(a))' /\ (a.state = "READY" => a.seen = a.query.head)
  BY <1>1, <1>3, RetrievalReads, AnswerStaysTold
<1> QED BY <1>1, <1>2, <1>3 DEF CasesInv

LEMMA CasesImply == ASSUME CasesInv PROVE Cases!HistoryIsAsKnown
<1>1. Cases!OfOneView /\ Cases!AnswersAreWhole
  BY DEF CasesInv, AnswerTold, CasesWhole, Cases!OfOneView, Cases!AnswersAreWhole, Cases!Ready
<1>2. ASSUME ~Cases!LateSource, NEW a \in answers, NEW b \in answers, a.query = b.query
      PROVE  [a EXCEPT !.seen = b.seen] = b
  <2>1. PICK w : w = Cases!Window
    OBVIOUS
  <2>2. IsTold(a, w) /\ IsTold(b, w)
    BY <1>2, <2>1 DEF CasesInv, AnswerTold
  <2>3. CASE Cases!Cardinality(w) > CandidateLimit
    <3>1. /\ a = [query |-> a.query, state |-> "CANDIDATE_LIMIT_EXCEEDED", seen |-> a.seen]
          /\ b = [query |-> b.query, state |-> "CANDIDATE_LIMIT_EXCEEDED", seen |-> b.seen]
      BY <2>2, <2>3 DEF IsTold
    <3> QED BY <1>2, <3>1
  <2>4. CASE ~(Cases!Cardinality(w) > CandidateLimit)
    <3>1. PICK q, x, e : q = a.query /\ x = Cases!Ranked(q.policy, Cases!Latest(w)) /\ e = ExcludedOf(Cases!Latest(w))
      OBVIOUS
    <3>2. /\ a = [query |-> q, state |-> "READY", seen |-> a.seen, cases |-> x, excluded |-> e]
          /\ b = [query |-> q, state |-> "READY", seen |-> b.seen, cases |-> x, excluded |-> e]
      BY <1>2, <2>2, <2>4, <3>1 DEF IsTold
    <3> QED BY <3>2
  <2> QED BY <2>3, <2>4
<1>3. Cases!OneAnswerInTime
  BY <1>2 DEF Cases!OneAnswerInTime, Cases!OneAnswer
<1> QED BY <1>1, <1>3 DEF CasesInv, Cases!HistoryIsAsKnown

-----------------------------------------------------------------------------
(* RcaAnalysis *)

CohortsInv == Cohorts!TypeOK /\ IsFiniteSet(facts)

LEMMA CohortsCardinality == ASSUME NEW S PROVE Cohorts!Cardinality(S) = Cardinality(S)
BY DEF Cohorts!Cardinality, Cardinality

LEMMA CohortsInitially == ASSUME Cohorts!Init PROVE CohortsInv
BY FS_EmptySet DEF Cohorts!Init, CohortsInv, Cohorts!TypeOK

LEMMA CohortsKeep ==
  ASSUME CohortsAssumption, CohortsInv, Cohorts!Next \/ UNCHANGED cohortVars
  PROVE  CohortsInv'
<1>1. CASE UNCHANGED cohortVars
  BY <1>1 DEF cohortVars, CohortsInv, Cohorts!TypeOK
<1>2. ASSUME NEW f \in CohortFacts \ facts, Cohorts!Learn(f)
      PROVE  CohortsInv'
  BY <1>2, FS_AddElement DEF Cohorts!Learn, CohortsInv, Cohorts!TypeOK, CohortsAssumption
<1>3. ASSUME NEW c \in Claims, Cohorts!Claimed(c)
      PROVE  CohortsInv'
  BY <1>3 DEF Cohorts!Claimed, CohortsInv, Cohorts!TypeOK, CohortsAssumption
<1>4. QED
  BY <1>1, <1>2, <1>3 DEF Cohorts!Next

\* The groups of some facts, of some cohorts.
Grouped(S, C) ==
  {[group |-> g, factors |-> UNION {f.factors : f \in {x \in S : x.cohort \in C /\ x.group = g}}] :
     g \in {f.group : f \in {x \in S : x.cohort \in C}}}

LEMMA GroupsAre == ASSUME NEW C PROVE Cohorts!GroupsOf(C) = Grouped(Cohorts!Seen, C)
BY DEF Cohorts!GroupsOf, Grouped

\* As many groups as there are facts, at most, and each one is a fact's.
LEMMA GroupedIsFinite ==
  ASSUME NEW S, IsFiniteSet(S), NEW C
  PROVE  /\ IsFiniteSet(Grouped(S, C))
         /\ \A x \in Grouped(S, C) : \E f \in S : f.cohort \in C /\ f.group = x.group
         /\ \A x, y \in Grouped(S, C) : x.group = y.group => x = y
<1> DEFINE Rec(g) == [group |-> g, factors |-> UNION {f.factors : f \in {x \in S : x.cohort \in C /\ x.group = g}}]
<1>1. PICK T, N, rec :
        /\ T = {x \in S : x.cohort \in C} /\ N = {f.group : f \in T}
        /\ rec = [g \in N |-> Rec(g)]
  OBVIOUS
<1>2. Grouped(S, C) = {rec[g] : g \in {f.group : f \in T}}
  <2>1. Grouped(S, C) = {Rec(g) : g \in N}
    BY <1>1 DEF Grouped
  <2>2. \A g \in N : rec[g] = Rec(g)
    BY <1>1
  <2> HIDE DEF Rec
  <2>3. QED
    BY <1>1, <2>1, <2>2
<1>3. \A g \in {f.group : f \in T} : rec[g].group = g
  <2>1. \A g : Rec(g).group = g
    OBVIOUS
  <2>2. \A g \in N : rec[g] = Rec(g)
    BY <1>1
  <2> HIDE DEF Rec
  <2>3. \A g \in N : rec[g].group = g
    BY <2>1, <2>2
  <2>4. QED
    BY <1>1, <2>3
<1>4. IsFiniteSet(T)
  BY <1>1, FS_Subset
<1>5. PICK h : h = [f \in T |-> rec[f.group]]
  OBVIOUS
<1>6. h \in Surjection(T, Grouped(S, C))
  BY <1>2, <1>5 DEF Surjection
<1>7. IsFiniteSet(Grouped(S, C))
  BY <1>4, <1>6, FS_Surjection
<1>8. \A x \in Grouped(S, C) : \E f \in T : x = rec[f.group] /\ x.group = f.group
  BY <1>2, <1>3
<1>9. ASSUME NEW x \in Grouped(S, C)
      PROVE  \E f \in S : f.cohort \in C /\ f.group = x.group
  BY <1>1, <1>8
<1>10. ASSUME NEW x \in Grouped(S, C), NEW y \in Grouped(S, C), x.group = y.group
       PROVE  x = y
  BY <1>8, <1>10
<1>11. QED
  BY <1>7, <1>9, <1>10

\* What repeats a fact of its group adds no group and no factor.
LEMMA Repetition ==
  ASSUME NEW S, NEW f, NEW g \in S, f.cohort = g.cohort, f.group = g.group, f.factors \subseteq g.factors,
         NEW C
  PROVE  Grouped(S \cup {f}, C) = Grouped(S, C)
<1>1. {h.group : h \in {x \in S \cup {f} : x.cohort \in C}} = {h.group : h \in {x \in S : x.cohort \in C}}
  OBVIOUS
<1>2. ASSUME NEW n
      PROVE  UNION {h.factors : h \in {x \in S \cup {f} : x.cohort \in C /\ x.group = n}}
               = UNION {h.factors : h \in {x \in S : x.cohort \in C /\ x.group = n}}
  <2>1. ASSUME NEW y \in UNION {h.factors : h \in {x \in S \cup {f} : x.cohort \in C /\ x.group = n}}
        PROVE  y \in UNION {h.factors : h \in {x \in S : x.cohort \in C /\ x.group = n}}
    <3>1. PICK h \in S \cup {f} : h.cohort \in C /\ h.group = n /\ y \in h.factors
      BY <2>1
    <3>2. \E k \in S : k.cohort \in C /\ k.group = n /\ y \in k.factors
      BY <3>1
    <3>3. QED
      BY <3>2
  <2>2. QED
    BY <2>1
<1>3. QED
  BY <1>1, <1>2 DEF Grouped

LEMMA SeenIsFinite == ASSUME CohortsInv PROVE IsFiniteSet(Cohorts!Seen) /\ Cohorts!Seen \subseteq Cohorts!Fact
<1>1. Cohorts!Seen \in SUBSET facts
  BY DEF Cohorts!Seen
<1>2. QED
  BY <1>1, FS_Subset DEF CohortsInv, Cohorts!TypeOK

\* The counts.
LEMMA CohortsCount ==
  ASSUME CohortsInv
  PROVE  /\ IsFiniteSet(Cohorts!Affected) /\ IsFiniteSet(Cohorts!Control)
         /\ Cardinality(Cohorts!Affected) \in Nat /\ Cardinality(Cohorts!Control) \in Nat
         /\ Cardinality(Cohorts!Seen) \in Nat
BY SeenIsFinite, GroupsAre, GroupedIsFinite, FS_CardinalityType DEF Cohorts!Affected, Cohorts!Control

LEMMA WithIsPart ==
  ASSUME NEW G, IsFiniteSet(G), NEW x
  PROVE  /\ Cohorts!With(G, x) \in 0 .. Cardinality(G)
         /\ (\E g \in G : x \in g.factors) => Cohorts!With(G, x) > 0
<1>1. PICK P : P = {g \in G : x \in g.factors}
  OBVIOUS
<1>2. P \in SUBSET G /\ Cohorts!With(G, x) = Cardinality(P)
  BY <1>1, CohortsCardinality DEF Cohorts!With
<1>3. IsFiniteSet(P) /\ Cardinality(P) <= Cardinality(G) /\ Cardinality(P) \in Nat /\ Cardinality(G) \in Nat
  BY <1>2, FS_Subset, FS_CardinalityType
<1>4. P # {} => Cardinality(P) # 0
  BY <1>3, FS_EmptySet
<1>5. (\E g \in G : x \in g.factors) => P # {}
  BY <1>1
<1>6. QED
  BY <1>2, <1>3, <1>4, <1>5

\* Two groups are of two facts.
LEMMA TwoGroups ==
  ASSUME NEW S, IsFiniteSet(S), NEW C, Cardinality(Grouped(S, C)) >= 2
  PROVE  \E f, g \in S : f.cohort \in C /\ g.cohort \in C /\ f.group # g.group
<1>1. IsFiniteSet(Grouped(S, C))
  BY GroupedIsFinite
<1>2. Grouped(S, C) # {}
  BY <1>1, FS_EmptySet
<1>3. PICK x \in Grouped(S, C) : TRUE
  BY <1>2
<1>4. Grouped(S, C) # {x}
  <2>1. Cardinality({x}) = 1
    BY FS_Singleton
  <2>2. QED
    BY <2>1
<1>5. PICK y \in Grouped(S, C) : y # x
  BY <1>3, <1>4
<1>6. x.group # y.group
  BY <1>3, <1>5, GroupedIsFinite
<1>7. QED
  BY <1>3, <1>5, <1>6, GroupedIsFinite

LEMMA Products ==
  ASSUME NEW a \in Nat, NEW c \in Nat, NEW n \in 0 .. a, NEW m \in 0 .. c
  PROVE  n * c - m * a \in -(a * c) .. (a * c)
<1>1. 0 <= n * c /\ n * c <= a * c
  OBVIOUS
<1>2. 0 <= m * a /\ m * a <= a * c
  OBVIOUS
<1>3. a * c \in Int /\ n * c \in Int /\ m * a \in Int
  OBVIOUS
<1>4. QED
  BY <1>1, <1>2, <1>3

\* What there is to tell.
Told2 ==
  [state |-> Cohorts!State, affected |-> Cardinality(Cohorts!Affected),
   controls |-> Cardinality(Cohorts!Control), associations |-> Cohorts!Associations,
   included |-> Cardinality(Cohorts!Seen),
   contradictions |-> {c \in Cohorts!SeenClaims : Cohorts!Contradicted(c)}]

Fit == Cohorts!Consistent /\ Cohorts!Acceptable(Told2)

LEMMA AnalyzeIs ==
  ASSUME CohortsInv, NEW limit \in Nat, NEW exceeded
  PROVE  /\ Cardinality(Cohorts!Seen) > limit => Cohorts!Analyze(limit, exceeded) = [state |-> exceeded]
         /\ Cardinality(Cohorts!Seen) <= limit =>
              Cohorts!Analyze(limit, exceeded) = IF Fit THEN Told2 ELSE [state |-> "REJECTED"]
<1>1. PICK n \in Nat : n = Cardinality(Cohorts!Seen) /\ n = Cohorts!Cardinality(Cohorts!Seen)
  BY CohortsCount, CohortsCardinality
<1>2. /\ Cohorts!Cardinality(Cohorts!Affected) = Cardinality(Cohorts!Affected)
      /\ Cohorts!Cardinality(Cohorts!Control) = Cardinality(Cohorts!Control)
  BY CohortsCardinality
<1>3. CASE n > limit
  BY <1>1, <1>3 DEF Cohorts!Analyze
<1>4. CASE n <= limit /\ Fit
  <2>1. ~(n > limit)
    BY <1>1, <1>4
  <2>2. QED
    BY <1>1, <1>2, <1>4, <2>1, Zenon DEF Cohorts!Analyze, Fit, Told2
<1>5. CASE n <= limit /\ ~Fit
  <2>1. ~(n > limit)
    BY <1>1, <1>5
  <2>2. QED
    BY <1>1, <1>2, <1>5, <2>1 DEF Cohorts!Analyze, Fit, Told2
<1>6. QED
  BY <1>1, <1>3, <1>4, <1>5

\* A comparison is only given when it is earned.
LEMMA ReadyWhenEarned == ASSUME CohortsAssumption, CohortsInv PROVE Cohorts!ReadyIsEarned
<1>1. SUFFICES ASSUME Cohorts!Job.state = "READY" PROVE Cohorts!ReadyIsEarned
  BY DEF Cohorts!ReadyIsEarned
<1>2. PICK n \in Nat : n = Cardinality(Cohorts!Seen) /\ JobLimit \in Nat
  BY CohortsCount DEF CohortsAssumption
<1>3. Cohorts!Job = Told2
  <2>1. CASE n > JobLimit
    BY <1>1, <1>2, <2>1, AnalyzeIs DEF Cohorts!Job
  <2>2. CASE n <= JobLimit /\ ~Fit
    BY <1>1, <1>2, <2>2, AnalyzeIs DEF Cohorts!Job
  <2>3. CASE n <= JobLimit /\ Fit
    BY <1>2, <2>3, AnalyzeIs DEF Cohorts!Job
  <2>4. QED
    BY <1>2, <2>1, <2>2, <2>3
<1>4. /\ Cohorts!State = "READY" /\ Cohorts!Job.affected = Cardinality(Cohorts!Affected)
      /\ Cohorts!Job.controls = Cardinality(Cohorts!Control)
      /\ Cohorts!Job.associations = Cohorts!Associations
  BY <1>1, <1>3 DEF Told2
<1>5. /\ Cohorts!AllQualified
      /\ ~(Cohorts!Cardinality(Cohorts!Affected) < 2) /\ ~(Cohorts!Cardinality(Cohorts!Control) < 2)
  BY <1>4 DEF Cohorts!State, Cohorts!MinGroups
<1>6. /\ Cardinality(Cohorts!Affected) >= 2 /\ Cardinality(Cohorts!Control) >= 2
  BY <1>5, CohortsCardinality, CohortsCount
<1>7. \A c \in Controls : quality[c] = [eligibility |-> "QUALIFIED", matches |-> TRUE]
  <2>1. SUFFICES ASSUME NEW c \in Controls
                 PROVE  quality[c] = [eligibility |-> "QUALIFIED", matches |-> TRUE]
    OBVIOUS
  <2>2. quality[c] \in Cohorts!Qualities
    BY DEF CohortsInv, Cohorts!TypeOK
  <2>3. quality[c].eligibility = "QUALIFIED" /\ quality[c].matches = TRUE
    BY <1>5, <2>2 DEF Cohorts!AllQualified, Cohorts!Qualities
  <2>4. QED
    BY <2>2, <2>3 DEF Cohorts!Qualities
<1>8. \E f, g \in Cohorts!Seen : f.cohort = "affected" /\ g.cohort = "affected" /\ f.group # g.group
  <2>1. \E f, g \in Cohorts!Seen : f.cohort \in {"affected"} /\ g.cohort \in {"affected"} /\ f.group # g.group
    BY <1>6, TwoGroups, SeenIsFinite, GroupsAre DEF Cohorts!Affected
  <2>2. QED
    BY <2>1
<1>9. \E f, g \in Cohorts!Seen : f.cohort \in Controls /\ g.cohort \in Controls /\ f.group # g.group
  BY <1>6, TwoGroups, SeenIsFinite, GroupsAre DEF Cohorts!Control
<1>10. ASSUME NEW x \in DOMAIN Cohorts!Associations
       PROVE  LET m == Cohorts!Associations[x]
                  a == Cardinality(Cohorts!Affected)
                  c == Cardinality(Cohorts!Control)
              IN  /\ m.affected \in 0 .. a /\ m.controls \in 0 .. c
                  /\ m.affected + m.controls > 0
                  /\ m.difference \in -(a * c) .. (a * c)
  <2>1. Cohorts!Associations = [y \in Cohorts!CommonFactors |-> Cohorts!Commonality(y)]
    BY <1>4 DEF Cohorts!Associations
  <2>2. x \in Cohorts!CommonFactors /\ Cohorts!Associations[x] = Cohorts!Commonality(x)
    BY <1>10, <2>1
  <2>3. PICK wa, wc, a, c :
          /\ wa = Cohorts!With(Cohorts!Affected, x) /\ wc = Cohorts!With(Cohorts!Control, x)
          /\ a = Cardinality(Cohorts!Affected) /\ c = Cardinality(Cohorts!Control)
    OBVIOUS
  <2>4. a \in Nat /\ c \in Nat /\ wa \in 0 .. a /\ wc \in 0 .. c
    BY <2>3, CohortsCount, WithIsPart
  <2>5. wa > 0 \/ wc > 0
    <3>1. \E g \in Cohorts!Affected \cup Cohorts!Control : x \in g.factors
      BY <2>2 DEF Cohorts!CommonFactors
    <3>2. QED
      BY <2>3, <3>1, CohortsCount, WithIsPart
  <2>6. Cohorts!Commonality(x) = [affected |-> wa, controls |-> wc, difference |-> wa * c - wc * a]
    BY <2>3, CohortsCardinality DEF Cohorts!Commonality
  <2>7. wa * c - wc * a \in -(a * c) .. (a * c)
    BY <2>4, Products
  <2>8. QED
    BY <2>2, <2>3, <2>4, <2>5, <2>6, <2>7
<1>11. QED
  BY <1>4, <1>7, <1>8, <1>9, <1>10 DEF Cohorts!ReadyIsEarned

\* What a read can answer, a job answers in the same way.
LEMMA JobIsRead == ASSUME CohortsAssumption, CohortsInv PROVE Cohorts!JobAgreesWithRead
<1>1. PICK n \in Nat : n = Cardinality(Cohorts!Seen)
  BY CohortsCount
<1>2. ReadLimit \in Nat /\ JobLimit \in Nat /\ ReadLimit <= JobLimit
  BY DEF CohortsAssumption
<1>3. CASE n > ReadLimit
  BY <1>1, <1>2, <1>3, AnalyzeIs DEF Cohorts!Read, Cohorts!JobAgreesWithRead
<1>4. CASE n <= ReadLimit
  <2>1. n <= JobLimit
    BY <1>1, <1>2, <1>4
  <2>2. Cohorts!Read = Cohorts!Job
    BY <1>1, <1>2, <1>4, <2>1, AnalyzeIs DEF Cohorts!Read, Cohorts!Job
  <2>3. QED
    BY <2>2 DEF Cohorts!JobAgreesWithRead
<1>5. QED
  BY <1>1, <1>2, <1>3, <1>4

-----------------------------------------------------------------------------
\* A new fact, and what of the answer rests on the groups only.
LEMMA SameGroups ==
  ASSUME UNCHANGED quality, Cohorts!Affected' = Cohorts!Affected, Cohorts!Control' = Cohorts!Control
  PROVE  Cohorts!State' = Cohorts!State /\ Cohorts!Associations' = Cohorts!Associations
<1>1. Cohorts!AllQualified' = Cohorts!AllQualified
  BY DEF Cohorts!AllQualified
<1>2. Cohorts!State' = Cohorts!State
  BY <1>1 DEF Cohorts!State
<1>3. Cohorts!CommonFactors' = Cohorts!CommonFactors
  BY DEF Cohorts!CommonFactors
<1>4. ASSUME NEW x PROVE Cohorts!Commonality(x)' = Cohorts!Commonality(x)
  BY DEF Cohorts!Commonality, Cohorts!With
<1>5. QED
  BY <1>2, <1>3, <1>4 DEF Cohorts!Associations

LEMMA UnseenCountsNot ==
  ASSUME UNCHANGED <<quality, claims>>, Cohorts!Seen' = Cohorts!Seen
  PROVE  Cohorts!Job' = Cohorts!Job
<1>1. Cohorts!Affected' = Cohorts!Affected /\ Cohorts!Control' = Cohorts!Control
  BY GroupsAre DEF Cohorts!Affected, Cohorts!Control, Cohorts!GroupsOf
<1>2. Cohorts!State' = Cohorts!State /\ Cohorts!Associations' = Cohorts!Associations
  BY <1>1, SameGroups
<1>3. Cohorts!Consistent' = Cohorts!Consistent
  BY DEF Cohorts!Consistent
<1>4. Cohorts!SeenClaims' = Cohorts!SeenClaims
  BY DEF Cohorts!SeenClaims
<1>5. QED
  BY <1>1, <1>2, <1>3, <1>4 DEF Cohorts!Job, Cohorts!Analyze, Cohorts!Acceptable, Cohorts!Contradicted

\* What a job does not reject it tells.
JobTells == Cohorts!Job.state # "REJECTED" => Cohorts!Job = Told2

LEMMA JobIsTold == ASSUME CohortsAssumption, CohortsInv PROVE JobTells
<1>1. Cardinality(Cohorts!Seen) \in Nat /\ JobLimit \in Nat
  BY CohortsCount DEF CohortsAssumption
<1>2. CASE Cardinality(Cohorts!Seen) > JobLimit
  BY <1>1, <1>2, AnalyzeIs DEF Cohorts!Job, JobTells
<1>3. CASE Cardinality(Cohorts!Seen) <= JobLimit
  BY <1>1, <1>3, AnalyzeIs DEF Cohorts!Job, JobTells
<1>4. QED
  BY <1>1, <1>2, <1>3

LEMMA CountedOnce ==
  ASSUME CohortsAssumption, CohortsInv, JobTells, JobTells', NEW f \in CohortFacts \ facts, Cohorts!Learn(f)
  PROVE  /\ (f.event > CohortCutoff \/ f.available > CohortCutoff) => Cohorts!Job' = Cohorts!Job
         /\ (/\ \E g \in Cohorts!Seen : f.cohort = g.cohort /\ f.group = g.group /\ f.factors \subseteq g.factors
             /\ Cohorts!Job.state # "REJECTED" /\ Cohorts!Job'.state # "REJECTED") =>
              /\ Cohorts!Job'.state = Cohorts!Job.state
              /\ Cohorts!Job'.associations = Cohorts!Job.associations
              /\ Cohorts!Job'.affected = Cohorts!Job.affected /\ Cohorts!Job'.controls = Cohorts!Job.controls
<1>1. facts' = facts \cup {f} /\ UNCHANGED <<claims, quality>>
  BY DEF Cohorts!Learn
<1>2. Cohorts!Seen' = IF Cohorts!Visible(f) THEN Cohorts!Seen \cup {f} ELSE Cohorts!Seen
  BY <1>1 DEF Cohorts!Seen, Cohorts!Visible
<1>3. ASSUME ~Cohorts!Visible(f) PROVE Cohorts!Job' = Cohorts!Job
  BY <1>1, <1>2, <1>3, UnseenCountsNot
<1>4. f.event > CohortCutoff \/ f.available > CohortCutoff => ~Cohorts!Visible(f)
  <2>1. f \in Cohorts!Fact
    BY DEF CohortsAssumption
  <2>2. f.event \in Int /\ f.available \in Int /\ CohortCutoff \in Int
    BY <2>1 DEF CohortsAssumption, Cohorts!Fact
  <2>3. QED
    BY <2>2 DEF Cohorts!Visible
<1>5. ASSUME NEW g \in Cohorts!Seen, f.cohort = g.cohort, f.group = g.group, f.factors \subseteq g.factors,
             Cohorts!Visible(f), Cohorts!Job.state # "REJECTED", Cohorts!Job'.state # "REJECTED"
      PROVE  /\ Cohorts!Job'.state = Cohorts!Job.state
             /\ Cohorts!Job'.associations = Cohorts!Job.associations
             /\ Cohorts!Job'.affected = Cohorts!Job.affected /\ Cohorts!Job'.controls = Cohorts!Job.controls
  <2>1. PICK S : S = Cohorts!Seen
    OBVIOUS
  <2>2. Cohorts!Seen' = S \cup {f}
    BY <1>2, <1>5, <2>1
  <2>3. ASSUME NEW C PROVE Cohorts!GroupsOf(C)' = Cohorts!GroupsOf(C)
    <3>1. Cohorts!GroupsOf(C)' = Grouped(S \cup {f}, C)
      BY <2>2 DEF Cohorts!GroupsOf, Grouped
    <3>2. Cohorts!GroupsOf(C) = Grouped(S, C)
      BY <2>1, GroupsAre
    <3>3. Grouped(S \cup {f}, C) = Grouped(S, C)
      BY <1>5, <2>1, Repetition
    <3>4. QED
      BY <3>1, <3>2, <3>3
  <2>4. Cohorts!Affected' = Cohorts!Affected /\ Cohorts!Control' = Cohorts!Control
    BY <2>3 DEF Cohorts!Affected, Cohorts!Control
  <2>5. Cohorts!State' = Cohorts!State /\ Cohorts!Associations' = Cohorts!Associations
    BY <1>1, <2>4, SameGroups
  <2>6. Cohorts!Job = Told2 /\ Cohorts!Job' = Told2'
    BY <1>5 DEF JobTells
  <2>7. QED
    BY <2>4, <2>5, <2>6 DEF Told2
<1>6. QED
  BY <1>3, <1>4, <1>5

LEMMA CohortsCountOnce ==
  ASSUME CohortsAssumption, CohortsInv, JobTells, JobTells', Cohorts!Next \/ UNCHANGED cohortVars
  PROVE  [LET new == facts' \ facts
          IN  /\ (\E f \in new : f.event > CohortCutoff \/ f.available > CohortCutoff) =>
                   Cohorts!Job' = Cohorts!Job
              /\ (/\ \E f \in new, g \in Cohorts!Seen : f.cohort = g.cohort /\ f.group = g.group
                                                          /\ f.factors \subseteq g.factors
                  /\ Cohorts!Job.state \notin {"REJECTED"} /\ Cohorts!Job'.state \notin {"REJECTED"}) =>
                   /\ Cohorts!Job'.state = Cohorts!Job.state
                   /\ Cohorts!Job'.associations = Cohorts!Job.associations
                   /\ <<Cohorts!Job'.affected, Cohorts!Job'.controls>>
                        = <<Cohorts!Job.affected, Cohorts!Job.controls>>]_(Cohorts!vars)
<1>1. CASE UNCHANGED cohortVars
  BY <1>1 DEF cohortVars, Cohorts!vars
<1>2. ASSUME NEW c \in Claims, Cohorts!Claimed(c)
      PROVE  facts' \ facts = {}
  BY <1>2 DEF Cohorts!Claimed
<1>3. ASSUME NEW f \in CohortFacts \ facts, Cohorts!Learn(f)
      PROVE  facts' \ facts = {f}
  BY <1>3 DEF Cohorts!Learn
<1>4. QED
  BY <1>1, <1>2, <1>3, CountedOnce DEF Cohorts!Next

-----------------------------------------------------------------------------
(* EpisodeInvestigation *)

Pcs == {"workflow", "planner", "planned", "history", "retrieved", "rca", "facts", "loop"}
Reads == [pc : Pcs, brief : Briefs, parts : Parts]

ComposedType ==
  /\ head \in [revision : 1 .. ViewRevisions, version : 0 .. ViewVersions, cycle : Nat, viewed : Nat]
  /\ services \subseteq {"history", "jobs"}
  /\ profiles \in Seq(Composed!Profile) /\ Len(profiles) = head.revision
  /\ DOMAIN jobs \subseteq Composed!Queries /\ jobs \in [DOMAIN jobs -> Composed!Statuses]
  /\ composing \in Reads \cup {Composed!Idle}
  /\ given \in Investigations \cup {None}
  /\ quiet \in BOOLEAN

\* What is READY side by side is of the brief.
ReadyOf(brief, p) ==
  LET ready == {c \in Composed!Components : p[c].state = "READY"}
      cycle == profiles[brief.revision].cycle
  IN  /\ \A c \in ready \ {"profile"} : p[c].of.version = brief.version
      /\ \A c \in ready \cap {"planner", "history", "rca"} :
           p[c].of.cycle = cycle /\ profiles[brief.revision].kind = "bound"
      /\ "history" \in ready => p["history"].of.revision = brief.revision
      /\ ready \cap {"planner", "history", "rca"} # {} => "profile" \in ready

\* Nothing moved, the brief is current and its profile is of its cycle.
Calm(brief) ==
  /\ quiet /\ head.viewed = head.revision
  /\ brief.revision = head.revision /\ brief.version = head.version
  /\ profiles[head.revision] = [kind |-> "bound", cycle |-> head.cycle]

Untroubled(p) == \A c \in Composed!Components : c # "rca" => p[c].state \notin {"STALE", "FAILED"}

\* What a reader composes is of its brief; behind the profile it is a bound one, and
\* the second read of history still has the cycle of the first if it has its version.
ReadingStands ==
  composing # Composed!Idle =>
    LET brief == composing.brief
        parts == composing.parts
    IN  /\ brief.revision <= head.revision /\ brief.version <= head.version
        /\ ReadyOf(brief, parts)
        /\ Calm(brief) => Untroubled(parts)
        /\ composing.pc = "workflow" => parts = [c \in Composed!Components |-> Composed!Is("UNAVAILABLE")]
        /\ composing.pc # "workflow" =>
             parts["profile"].state = "READY" /\ profiles[brief.revision].kind = "bound"
        /\ composing.pc = "retrieved" /\ head.version = brief.version =>
             head.cycle = profiles[brief.revision].cycle

GivenStands ==
  given # None =>
    /\ given.brief.revision <= head.revision
    /\ ReadyOf(given.brief, given.parts)
    /\ given.quiet /\ Calm(given.brief) => Untroubled(given.parts)

ComposedInv == ComposedType /\ ReadingStands /\ GivenStands

LEMMA ComposedImply == ASSUME ComposedInv PROVE Composed!InvestigationIsCoherent
<1>1. Composed!TypeOK
  <2>1. given # None => \A c \in Composed!Components : given.parts[c].state \in Composed!States
    BY DEF ComposedInv, ComposedType, Investigations, Parts
  <2>2. QED
    BY <2>1 DEF ComposedInv, ComposedType, Composed!TypeOK
<1>2. Composed!ReadyIsOfTheBrief
  BY DEF ComposedInv, GivenStands, ReadyOf, Composed!ReadyIsOfTheBrief
<1>3. Composed!QuietIsReady
  BY DEF ComposedInv, GivenStands, Calm, Untroubled, Composed!QuietIsReady
<1>4. QED
  BY <1>1, <1>2, <1>3 DEF Composed!InvestigationIsCoherent

LEMMA ComposedInit == ASSUME ComposedAssumption, Composed!Init PROVE ComposedInv
<1>1. PICK k \in Composed!Kinds : profiles = <<[kind |-> k, cycle |-> 1]>>
  BY DEF Composed!Init
<1>2. profiles \in Seq(Composed!Profile) /\ Len(profiles) = 1
  BY <1>1 DEF Composed!Profile
<1>3. composing = Composed!Idle /\ given = None
  BY DEF Composed!Init
<1>4. /\ head \in [revision : 1 .. ViewRevisions, version : 0 .. ViewVersions, cycle : Nat, viewed : Nat]
      /\ head.revision = 1
  BY DEF Composed!Init, ComposedAssumption
<1>5. jobs = [q \in {} |-> None]
  BY DEF Composed!Init
<1>6. DOMAIN jobs \subseteq Composed!Queries /\ jobs \in [DOMAIN jobs -> Composed!Statuses]
  BY <1>5
<1>7. ComposedType
  BY <1>2, <1>3, <1>4, <1>6 DEF ComposedType, Composed!Init
<1>8. QED
  BY <1>3, <1>7 DEF ComposedInv, ReadingStands, GivenStands

\* Publications and commands only add to what readers look at.
LEMMA WritersKeep ==
  ASSUME ComposedInv, ComposedType', UNCHANGED <<composing, given>>,
         quiet' = FALSE,
         head'.revision >= head.revision, head'.version >= head.version,
         head'.version = head.version => head'.cycle = head.cycle,
         \A r \in 1 .. head.revision : profiles'[r] = profiles[r]
  PROVE  ComposedInv'
<1>1. ASSUME NEW brief \in Briefs, brief.revision <= head.revision
      PROVE  profiles'[brief.revision] = profiles[brief.revision]
  BY <1>1 DEF Briefs, ComposedInv, ComposedType
<1>2. ASSUME NEW brief \in Briefs, brief.revision <= head.revision, NEW p, ReadyOf(brief, p)
      PROVE  ReadyOf(brief, p)'
  BY <1>1, <1>2 DEF ReadyOf
<1>3. head.revision \in Nat /\ head'.revision \in Nat /\ head.version \in Nat /\ head'.version \in Nat
  BY DEF ComposedInv, ComposedType
<1>4. ReadingStands'
  <2>1. SUFFICES ASSUME composing # Composed!Idle
                 PROVE  ReadingStands'
    BY DEF ReadingStands
  <2>2. composing \in Reads /\ composing.brief \in Briefs
    BY <2>1 DEF ComposedInv, ComposedType, Reads
  <2>3. composing.brief.revision \in Nat /\ composing.brief.version \in Nat
    BY <2>2 DEF Briefs
  <2>4. /\ composing.brief.revision <= head.revision /\ composing.brief.version <= head.version
        /\ ReadyOf(composing.brief, composing.parts)
    BY <2>1 DEF ComposedInv, ReadingStands
  <2>5. /\ ReadyOf(composing.brief, composing.parts)'
        /\ profiles'[composing.brief.revision] = profiles[composing.brief.revision]
    BY <2>2, <2>4, <1>1, <1>2
  <2>6. ~Calm(composing.brief)'
    BY DEF Calm
  <2>7. QED
    BY <2>1, <2>3, <2>4, <2>5, <2>6, <1>3 DEF ComposedInv, ReadingStands
<1>5. GivenStands'
  <2>1. SUFFICES ASSUME given # None
                 PROVE  GivenStands'
    BY DEF GivenStands
  <2>2. given.brief \in Briefs /\ given.brief.revision \in Nat
    BY <2>1 DEF ComposedInv, ComposedType, Investigations, Briefs
  <2>3. given.brief.revision <= head.revision /\ ReadyOf(given.brief, given.parts)
    BY <2>1 DEF ComposedInv, GivenStands
  <2>4. ReadyOf(given.brief, given.parts)'
    BY <2>2, <2>3, <1>2
  <2>5. ~Calm(given.brief)'
    BY DEF Calm
  <2>6. QED
    BY <2>2, <2>3, <2>4, <2>5, <1>3 DEF GivenStands
<1>6. QED
  BY <1>4, <1>5 DEF ComposedInv

LEMMA PublishViewKeeps ==
  ASSUME ComposedAssumption, ComposedInv, Composed!Publish, UNCHANGED services
  PROVE  ComposedInv'
<1>1. PICK k \in Composed!Kinds, c \in 1 .. head.cycle : profiles' = Append(profiles, [kind |-> k, cycle |-> c])
  BY DEF Composed!Publish
<1>2. /\ profiles \in Seq(Composed!Profile) /\ Len(profiles) = head.revision
      /\ head \in [revision : 1 .. ViewRevisions, version : 0 .. ViewVersions, cycle : Nat, viewed : Nat]
  BY DEF ComposedInv, ComposedType
<1>3. [kind |-> k, cycle |-> c] \in Composed!Profile
  BY <1>2 DEF Composed!Profile
<1>4. /\ head' = [head EXCEPT !.revision = @ + 1] /\ head.revision < ViewRevisions
      /\ UNCHANGED <<jobs, composing, given>> /\ quiet' = FALSE
  BY DEF Composed!Publish
<1>5. /\ head' \in [revision : 1 .. ViewRevisions, version : 0 .. ViewVersions, cycle : Nat, viewed : Nat]
      /\ head'.revision = head.revision + 1 /\ head'.version = head.version /\ head'.cycle = head.cycle
  <2>1. head.revision + 1 \in 1 .. ViewRevisions
    BY <1>2, <1>4 DEF ComposedAssumption
  <2>2. QED
    BY <1>2, <1>4, <2>1
<1>6. /\ profiles' \in Seq(Composed!Profile) /\ Len(profiles') = head'.revision
      /\ \A r \in 1 .. head.revision : profiles'[r] = profiles[r]
  BY <1>1, <1>2, <1>3, <1>5
<1>7. ComposedType'
  BY <1>4, <1>5, <1>6 DEF ComposedInv, ComposedType
<1>8. head'.revision >= head.revision /\ head'.version >= head.version
  BY <1>2, <1>5
<1>9. QED
  BY <1>4, <1>5, <1>6, <1>7, <1>8, WritersKeep

LEMMA CommandViewKeeps ==
  ASSUME ComposedAssumption, ComposedInv, Composed!Command, UNCHANGED services
  PROVE  ComposedInv'
<1>1. PICK c \in {head.cycle, head.cycle + 1}, r \in 1 .. head.revision :
        head' = [head EXCEPT !.version = @ + 1, !.cycle = c, !.viewed = r]
  BY DEF Composed!Command
<1>2. /\ head \in [revision : 1 .. ViewRevisions, version : 0 .. ViewVersions, cycle : Nat, viewed : Nat]
      /\ head.version < ViewVersions
      /\ UNCHANGED <<profiles, jobs, composing, given>> /\ quiet' = FALSE
  BY DEF ComposedInv, ComposedType, Composed!Command
<1>3. /\ head' \in [revision : 1 .. ViewRevisions, version : 0 .. ViewVersions, cycle : Nat, viewed : Nat]
      /\ head'.revision = head.revision /\ head'.version = head.version + 1
  <2>1. head.version + 1 \in 0 .. ViewVersions /\ c \in Nat /\ r \in Nat
    BY <1>1, <1>2 DEF ComposedAssumption
  <2>2. QED
    BY <1>1, <1>2, <2>1
<1>4. ComposedType'
  BY <1>2, <1>3 DEF ComposedInv, ComposedType
<1>5. head'.version # head.version /\ head'.version >= head.version /\ head'.revision >= head.revision
  BY <1>2, <1>3
<1>6. QED
  BY <1>2, <1>4, <1>5, WritersKeep

\* The worker of the jobs, whose answers no component holds on to.
LEMMA JobsViewKeeps ==
  ASSUME ComposedInv, ComposedType', UNCHANGED <<head, profiles, composing, given, quiet>>
  PROVE  ComposedInv'
BY DEF ComposedInv, ReadingStands, GivenStands, ReadyOf, Calm

LEMMA WorkViewKeeps ==
  ASSUME ComposedInv, NEW q \in DOMAIN jobs, Composed!Work(q), UNCHANGED services
  PROVE  ComposedInv'
<1>1. PICK s \in Composed!Statuses : jobs' = [jobs EXCEPT ![q] = s]
  BY DEF Composed!Work
<1>2. jobs' \in [DOMAIN jobs -> Composed!Statuses] /\ DOMAIN jobs' = DOMAIN jobs
  BY <1>1 DEF ComposedInv, ComposedType
<1>3. ComposedType'
  BY <1>2 DEF ComposedInv, ComposedType, Composed!Work
<1>4. QED
  BY <1>3, JobsViewKeeps DEF Composed!Work

-----------------------------------------------------------------------------
\* The steps of the reader.

Writers == <<head, services, profiles>>
JobsStand == DOMAIN jobs \subseteq Composed!Queries /\ jobs \in [DOMAIN jobs -> Composed!Statuses]

\* What the reader has of a brief, at a place behind the profile.
Behind(pc, brief, parts) ==
  /\ pc \in Pcs \ {"workflow"} /\ brief \in Briefs /\ parts \in Parts
  /\ brief.revision <= head.revision /\ brief.version <= head.version
  /\ ReadyOf(brief, parts)
  /\ parts["profile"].state = "READY" /\ profiles[brief.revision].kind = "bound"
  /\ pc = "retrieved" /\ head.version = brief.version => head.cycle = profiles[brief.revision].cycle

LEMMA CalmStays ==
  ASSUME UNCHANGED Writers, quiet' => quiet, NEW brief, Calm(brief)'
  PROVE  Calm(brief)
BY DEF Calm, Writers

LEMMA SameReady ==
  ASSUME UNCHANGED Writers, NEW brief, NEW p, ReadyOf(brief, p)
  PROVE  ReadyOf(brief, p)'
BY DEF ReadyOf, Writers

LEMMA GoesOn ==
  ASSUME ComposedInv, UNCHANGED Writers, JobsStand', UNCHANGED given,
         quiet' \in BOOLEAN, quiet' => quiet,
         NEW pc, NEW brief, NEW parts,
         composing' = [pc |-> pc, brief |-> brief, parts |-> parts],
         Behind(pc, brief, parts), Calm(brief) /\ quiet' => Untroubled(parts)
  PROVE  ComposedInv'
<1>1. composing' \in Reads /\ composing'.pc = pc /\ composing'.brief = brief /\ composing'.parts = parts
  BY DEF Reads, Behind
<1>2. ComposedType'
  BY <1>1 DEF ComposedInv, ComposedType, JobsStand, Writers
<1>3. ReadyOf(brief, parts)'
  BY SameReady DEF Behind
<1>4. Calm(brief)' => Untroubled(parts)
  BY CalmStays DEF Calm
<1>5. ReadingStands'
  BY <1>1, <1>3, <1>4 DEF ReadingStands, Behind, Writers, Untroubled
<1>6. GivenStands'
  <2>1. SUFFICES ASSUME given # None PROVE GivenStands'
    BY DEF GivenStands
  <2>2. ReadyOf(given.brief, given.parts)'
    BY <2>1, SameReady DEF ComposedInv, GivenStands
  <2>3. given.quiet /\ Calm(given.brief)' => Untroubled(given.parts)
    BY <2>1, CalmStays DEF ComposedInv, GivenStands
  <2>4. QED
    BY <2>1, <2>2, <2>3 DEF ComposedInv, GivenStands, Writers, Untroubled
<1>7. QED
  BY <1>2, <1>5, <1>6 DEF ComposedInv

LEMMA Ends ==
  ASSUME ComposedInv, UNCHANGED Writers, JobsStand',
         quiet' \in BOOLEAN, quiet' => quiet, composing' = Composed!Idle,
         NEW brief \in Briefs, NEW parts \in Parts,
         given' = [brief |-> brief, parts |-> parts, quiet |-> quiet'],
         brief.revision <= head.revision, ReadyOf(brief, parts),
         Calm(brief) /\ quiet' => Untroubled(parts)
  PROVE  ComposedInv'
<1>1. PICK g : g = [brief |-> brief, parts |-> parts, quiet |-> quiet']
  OBVIOUS
<1>2. given' = g /\ g \in Investigations /\ g.brief = brief /\ g.parts = parts
  BY <1>1 DEF Investigations
<1>3. ComposedType'
  BY <1>2 DEF ComposedInv, ComposedType, JobsStand, Writers
<1>4. ReadyOf(brief, parts)'
  BY SameReady
<1>5. Calm(brief)' => Untroubled(parts)
  BY CalmStays DEF Calm
<1>6. GivenStands'
  BY <1>2, <1>4, <1>5 DEF GivenStands, Writers, Untroubled
<1>7. ReadingStands'
  BY DEF ReadingStands
<1>8. QED
  BY <1>3, <1>6, <1>7 DEF ComposedInv

\* A component that is told: what is READY was read of the Episode at the brief.
Told(name, brief, c) ==
  /\ c.state = "READY" =>
       /\ c.of.version = brief.version /\ c.of.cycle = profiles[brief.revision].cycle
       /\ name = "history" => c.of.revision = brief.revision

LEMMA ToldKeeps ==
  ASSUME NEW name \in {"planner", "history", "rca"}, NEW brief, NEW parts \in Parts, NEW c,
         ReadyOf(brief, parts), parts["profile"].state = "READY",
         profiles[brief.revision].kind = "bound", Told(name, brief, c)
  PROVE  /\ ReadyOf(brief, [parts EXCEPT ![name] = c])
         /\ [parts EXCEPT ![name] = c]["profile"].state = "READY"
<1>1. PICK new : new = [parts EXCEPT ![name] = c]
  OBVIOUS
<1>2. /\ name \in Composed!Components /\ name # "profile" /\ name # "workflow"
      /\ "history" \in Composed!Components /\ "profile" \in Composed!Components
  BY DEF Composed!Components
<1>3. /\ \A x \in Composed!Components : x # name => new[x] = parts[x]
      /\ new[name] = c
  BY <1>1, <1>2 DEF Parts
<1>4. new["profile"].state = "READY"
  BY <1>2, <1>3
<1>5. \A x \in Composed!Components \ {"profile"} : new[x].state = "READY" => new[x].of.version = brief.version
  BY <1>3 DEF ReadyOf, Told
<1>6. \A x \in Composed!Components \cap {"planner", "history", "rca"} :
        new[x].state = "READY" => new[x].of.cycle = profiles[brief.revision].cycle
  BY <1>3 DEF ReadyOf, Told
<1>7. new["history"].state = "READY" => new["history"].of.revision = brief.revision
  BY <1>2, <1>3 DEF ReadyOf, Told
<1>8. ReadyOf(brief, new)
  BY <1>2, <1>4, <1>5, <1>6, <1>7 DEF ReadyOf
<1>9. QED
  BY <1>1, <1>4, <1>8

LEMMA UntroubledKeeps ==
  ASSUME NEW name \in Composed!Components, NEW parts \in Parts, NEW c,
         Untroubled(parts), c.state \notin {"STALE", "FAILED"} \/ name = "rca"
  PROVE  Untroubled([parts EXCEPT ![name] = c])
BY DEF Untroubled, Parts

\* What is told without a view, and what is read of the Episode.
LEMMA IsPart ==
  ASSUME NEW s \in Composed!States
  PROVE  \A parts \in Parts, x \in Composed!Components :
           [parts EXCEPT ![x] = Composed!Is(s)] \in Parts
BY DEF Parts, Composed!Is

LEMMA ReadPart ==
  ASSUME ComposedInv, NEW s \in Composed!States
  PROVE  /\ \A parts \in Parts, x \in Composed!Components : [parts EXCEPT ![x] = Composed!Read(s)] \in Parts
         /\ Composed!Read(s).state = s
         /\ Composed!Read(s).of.version = head.version /\ Composed!Read(s).of.cycle = head.cycle
         /\ Composed!Read(s).of.revision = head.revision
<1>1. PICK of : of = [head EXCEPT !.viewed = None]
  OBVIOUS
<1>2. /\ of \in [revision : 1 .. ViewRevisions, version : 0 .. ViewVersions, cycle : Nat, viewed : {None}]
      /\ of.revision = head.revision /\ of.version = head.version /\ of.cycle = head.cycle
  BY <1>1 DEF ComposedInv, ComposedType
<1>3. Composed!Read(s) = [state |-> s, of |-> of]
  BY <1>1 DEF Composed!Read
<1>4. QED
  BY <1>2, <1>3 DEF Parts

LEMMA ReadsBrief == ASSUME ComposedInv, Composed!ReadBrief, UNCHANGED services PROVE ComposedInv'
<1>1. PICK brief, parts :
        /\ brief = [revision |-> head.revision, version |-> head.version]
        /\ parts = [c \in Composed!Components |-> Composed!Is("UNAVAILABLE")]
  OBVIOUS
<1>2. composing' = [pc |-> "workflow", brief |-> brief, parts |-> parts]
  BY <1>1 DEF Composed!ReadBrief
<1>3. brief \in Briefs /\ brief.revision = head.revision /\ brief.version = head.version
  BY <1>1 DEF Briefs, ComposedInv, ComposedType
<1>4. parts \in Parts /\ \A c \in Composed!Components : parts[c].state = "UNAVAILABLE"
  BY <1>1 DEF Parts, Composed!Is, Composed!States
<1>5. composing' \in Reads /\ composing'.brief = brief /\ composing'.parts = parts /\ composing'.pc = "workflow"
  BY <1>2, <1>3, <1>4 DEF Reads, Pcs
<1>6. quiet' \in BOOLEAN /\ given' = None /\ UNCHANGED <<head, services, profiles, jobs>>
  BY DEF Composed!ReadBrief
<1>7. ComposedType'
  BY <1>5, <1>6 DEF ComposedInv, ComposedType
<1>8. ReadyOf(brief, parts)'
  <2>1. "history" \in Composed!Components
    BY DEF Composed!Components
  <2>2. QED
    BY <1>4, <2>1 DEF ReadyOf
<1>9. Untroubled(parts)
  BY <1>4 DEF Untroubled
<1>10. head.revision \in Nat /\ head.version \in Nat
  BY DEF ComposedInv, ComposedType
<1>11. ReadingStands'
  BY <1>1, <1>3, <1>5, <1>6, <1>8, <1>9, <1>10 DEF ReadingStands, Untroubled
<1>12. QED
  BY <1>6, <1>7, <1>11 DEF ComposedInv, GivenStands

\* What the reader has, as its steps use it.
LEMMA ReaderHas ==
  ASSUME ComposedInv, composing # Composed!Idle
  PROVE  /\ composing \in Reads /\ composing.brief \in Briefs /\ composing.parts \in Parts
         /\ composing = [pc |-> composing.pc, brief |-> composing.brief, parts |-> composing.parts]
         /\ composing.brief.revision <= head.revision /\ composing.brief.version <= head.version
         /\ ReadyOf(composing.brief, composing.parts)
         /\ Calm(composing.brief) => Untroubled(composing.parts)
         /\ composing.pc # "workflow" => Behind(composing.pc, composing.brief, composing.parts)
<1>1. composing \in Reads
  BY DEF ComposedInv, ComposedType
<1>2. QED
  BY <1>1 DEF ComposedInv, ReadingStands, Reads, Behind

LEMMA IsReading ==
  ASSUME ComposedInv, NEW pc \in Pcs, composing.pc = pc
  PROVE  composing # Composed!Idle
BY DEF Composed!Idle, Pcs

LEMMA DoneKeeps ==
  ASSUME ComposedInv, UNCHANGED Writers, JobsStand', UNCHANGED given,
         quiet' \in BOOLEAN, quiet' => quiet,
         NEW at \in Pcs \ {"workflow"}, composing.pc = at,
         NEW next \in Pcs \ {"workflow", "retrieved"},
         NEW name \in {"planner", "history", "rca"}, NEW c,
         [composing.parts EXCEPT ![name] = c] \in Parts,
         Composed!Done(name, c, next), Told(name, composing.brief, c),
         Calm(composing.brief) /\ quiet' => c.state \notin {"STALE", "FAILED"}
  PROVE  ComposedInv'
<1>1. composing # Composed!Idle
  BY IsReading
<1>2. PICK brief, parts : brief = composing.brief /\ parts = composing.parts
  OBVIOUS
<1>3. PICK new : new = [parts EXCEPT ![name] = c]
  OBVIOUS
<1>4. composing' = [pc |-> next, brief |-> brief, parts |-> new]
  BY <1>1, <1>2, <1>3, ReaderHas DEF Composed!Done, Composed!With
<1>5. Behind(at, brief, parts) /\ (Calm(brief) => Untroubled(parts))
  BY <1>1, <1>2, ReaderHas
<1>6. ReadyOf(brief, new) /\ new["profile"].state = "READY"
  BY <1>2, <1>3, <1>5, ToldKeeps DEF Behind
<1>7. Calm(brief) /\ quiet' => Untroubled(new)
  BY <1>2, <1>3, <1>5, UntroubledKeeps DEF Behind, Composed!Components
<1>8. Behind(next, brief, new)
  BY <1>2, <1>3, <1>5, <1>6 DEF Behind
<1>9. QED
  BY <1>4, <1>7, <1>8, GoesOn

LEMMA GotoKeeps ==
  ASSUME ComposedInv, UNCHANGED Writers, JobsStand', UNCHANGED <<given, quiet>>,
         NEW at \in Pcs \ {"workflow"}, composing.pc = at,
         NEW next \in Pcs \ {"workflow"}, Composed!Goto(next),
         next = "retrieved" => head.cycle = profiles[composing.brief.revision].cycle
  PROVE  ComposedInv'
<1>1. composing # Composed!Idle
  BY IsReading
<1>2. PICK brief, parts : brief = composing.brief /\ parts = composing.parts
  OBVIOUS
<1>3. composing' = [pc |-> next, brief |-> brief, parts |-> parts]
  BY <1>1, <1>2, ReaderHas DEF Composed!Goto
<1>4. Behind(at, brief, parts) /\ (Calm(brief) => Untroubled(parts))
  BY <1>1, <1>2, ReaderHas
<1>5. Behind(next, brief, parts)
  BY <1>2, <1>4 DEF Behind
<1>6. quiet' \in BOOLEAN /\ (quiet' => quiet)
  BY DEF ComposedInv, ComposedType
<1>7. QED
  BY <1>3, <1>4, <1>5, <1>6, GoesOn

LEMMA JobsSame == ASSUME ComposedInv, UNCHANGED jobs PROVE JobsStand'
BY DEF ComposedInv, ComposedType, JobsStand

LEMMA States1 == {"READY", "UNAVAILABLE", "STALE", "MATERIALIZATION_REQUIRED", "PENDING", "FAILED"} = Composed!States
BY DEF Composed!States

\* A component that is told without a view, as it can be or as it failed.
LEMMA IsKeeps ==
  ASSUME ComposedInv, UNCHANGED Writers, UNCHANGED <<jobs, given>>,
         quiet' \in BOOLEAN, quiet' => quiet,
         NEW at \in Pcs \ {"workflow"}, composing.pc = at,
         NEW next \in Pcs \ {"workflow", "retrieved"},
         NEW name \in {"planner", "history"}, NEW s \in Composed!States \ {"READY"},
         Composed!Done(name, Composed!Is(s), next),
         Calm(composing.brief) /\ quiet' => s \notin {"STALE", "FAILED"}
  PROVE  ComposedInv'
<1>1. composing.parts \in Parts /\ name \in Composed!Components
  BY IsReading, ReaderHas DEF Composed!Components
<1>2. [composing.parts EXCEPT ![name] = Composed!Is(s)] \in Parts
  BY <1>1, IsPart
<1>3. Composed!Is(s).state = s
  BY DEF Composed!Is
<1>4. Told(name, composing.brief, Composed!Is(s))
  BY <1>3 DEF Told
<1>5. QED
  BY <1>2, <1>3, <1>4, DoneKeeps, JobsSame

\* A component that was read of the Episode, when that was at the brief.
LEMMA ReadKeeps ==
  ASSUME ComposedInv, UNCHANGED Writers, UNCHANGED <<jobs, given>>,
         quiet' \in BOOLEAN, quiet' => quiet,
         NEW at \in Pcs \ {"workflow"}, composing.pc = at,
         NEW next \in Pcs \ {"workflow", "retrieved"},
         NEW name \in {"planner", "history"},
         Composed!Done(name, Composed!Read("READY"), next),
         head.version = composing.brief.version,
         head.cycle = profiles[composing.brief.revision].cycle,
         name = "history" => head.revision = composing.brief.revision
  PROVE  ComposedInv'
<1>1. composing.parts \in Parts /\ name \in Composed!Components
  BY IsReading, ReaderHas DEF Composed!Components
<1>2. [composing.parts EXCEPT ![name] = Composed!Read("READY")] \in Parts
  BY <1>1, ReadPart, States1
<1>3. /\ Composed!Read("READY").state = "READY"
      /\ Composed!Read("READY").of.version = head.version /\ Composed!Read("READY").of.cycle = head.cycle
      /\ Composed!Read("READY").of.revision = head.revision
  BY ReadPart, States1
<1>4. Told(name, composing.brief, Composed!Read("READY"))
  BY <1>3 DEF Told
<1>5. QED
  BY <1>2, <1>3, <1>4, DoneKeeps, JobsSame

LEMMA PlanReadKeeps ==
  ASSUME ComposedInv, UNCHANGED services,
         NEW pc \in {"planner", "planned"}, NEW next \in {"planned", "history"}, NEW done \in BOOLEAN,
         Composed!ReadForPlan(pc, next, done)
  PROVE  ComposedInv'
<1>1. /\ UNCHANGED Writers /\ UNCHANGED <<jobs, given>> /\ composing.pc = pc /\ JobsStand'
      /\ quiet \in BOOLEAN /\ pc \in Pcs \ {"workflow"}
      /\ next \in Pcs \ {"workflow", "retrieved"} /\ "history" \in Pcs \ {"workflow", "retrieved"}
  BY JobsSame DEF Composed!ReadForPlan, Composed!At, Writers, Pcs, ComposedInv, ComposedType
<1>2. Calm(composing.brief) => Composed!SameView
  <2>1. composing.brief.revision \in Nat
    BY <1>1, IsReading, ReaderHas DEF Briefs
  <2>2. SUFFICES ASSUME Calm(composing.brief) PROVE Composed!SameView
    OBVIOUS
  <2>3. profiles[composing.brief.revision].cycle = head.cycle
    BY <2>2 DEF Calm
  <2>4. QED
    BY <2>2, <2>3 DEF Calm, Composed!SameView, Composed!SameVector, Composed!Cycle
<1>3. CASE Composed!SameView /\ UNCHANGED quiet /\ done /\ Composed!Done("planner", Composed!Read("READY"), next)
  BY <1>1, <1>3, ReadKeeps DEF Composed!SameView, Composed!SameVector, Composed!Cycle
<1>4. CASE Composed!SameView /\ UNCHANGED quiet /\ Composed!Goto(next)
  BY <1>1, <1>4, GotoKeeps
<1>5. CASE ~Composed!SameView /\ UNCHANGED quiet /\ Composed!Done("planner", Composed!Is("STALE"), "history")
  BY <1>1, <1>2, <1>5, IsKeeps, States1
<1>6. CASE Composed!Fails("planner", "history")
  BY <1>1, <1>6, IsKeeps, States1 DEF Composed!Fails
<1>7. QED
  BY <1>3, <1>4, <1>5, <1>6 DEF Composed!ReadForPlan

LEMMA HistoryReadKeeps ==
  ASSUME ComposedInv, UNCHANGED services,
         NEW pc \in {"history", "retrieved"}, NEW next \in {"retrieved", "rca"}, NEW done \in BOOLEAN,
         done <=> pc = "retrieved", done <=> next = "rca",
         Composed!ReadForHistory(pc, next, done)
  PROVE  ComposedInv'
<1>1. /\ UNCHANGED Writers /\ UNCHANGED <<jobs, given>> /\ composing.pc = pc /\ JobsStand'
      /\ quiet \in BOOLEAN /\ pc \in Pcs \ {"workflow"}
      /\ next \in Pcs \ {"workflow"} /\ "rca" \in Pcs \ {"workflow", "retrieved"}
  BY JobsSame DEF Composed!ReadForHistory, Composed!At, Writers, Pcs, ComposedInv, ComposedType
<1>2. Calm(composing.brief) => Composed!BundleOf(pc)
  <2>1. SUFFICES ASSUME Calm(composing.brief) PROVE Composed!BundleOf(pc)
    OBVIOUS
  <2>2. profiles[composing.brief.revision].cycle = head.cycle
    BY <2>1 DEF Calm
  <2>3. QED
    BY <2>1, <2>2 DEF Calm, Composed!BundleOf, Composed!SameBundle, Composed!Cycle
<1>3. Composed!BundleOf(pc) => /\ head.version = composing.brief.version
                               /\ head.revision = composing.brief.revision
                               /\ head.cycle = profiles[composing.brief.revision].cycle
  BY <1>1, IsReading, ReaderHas DEF Composed!BundleOf, Composed!SameBundle, Composed!Cycle, Behind
<1>4. CASE Composed!BundleOf(pc) /\ UNCHANGED quiet /\ done /\ Composed!Done("history", Composed!Read("READY"), next)
  BY <1>1, <1>3, <1>4, ReadKeeps
<1>5. CASE Composed!BundleOf(pc) /\ UNCHANGED quiet /\ Composed!Goto(next)
  BY <1>1, <1>3, <1>5, GotoKeeps
<1>6. CASE ~Composed!BundleOf(pc) /\ UNCHANGED quiet /\ Composed!Done("history", Composed!Is("STALE"), "rca")
  BY <1>1, <1>2, <1>6, IsKeeps, States1
<1>7. CASE Composed!Fails("history", "rca")
  BY <1>1, <1>7, IsKeeps, States1 DEF Composed!Fails
<1>8. QED
  BY <1>4, <1>5, <1>6, <1>7 DEF Composed!ReadForHistory

LEMMA NoHistoryKeeps == ASSUME ComposedInv, Composed!NoHistory, UNCHANGED services PROVE ComposedInv'
<1>1. /\ UNCHANGED Writers /\ UNCHANGED <<jobs, given, quiet>> /\ composing.pc = "history"
      /\ quiet \in BOOLEAN /\ "history" \in Pcs \ {"workflow"} /\ "rca" \in Pcs \ {"workflow", "retrieved"}
  BY DEF Composed!NoHistory, Composed!At, Writers, Pcs, ComposedInv, ComposedType
<1>2. PICK s \in {"MATERIALIZATION_REQUIRED", "UNAVAILABLE"} : Composed!Done("history", Composed!Is(s), "rca")
  BY DEF Composed!NoHistory
<1>3. QED
  BY <1>1, <1>2, IsKeeps, States1

\* The investigation ends with the analysis, whatever is told of it.
LEMMA RcaEnds ==
  ASSUME ComposedInv, UNCHANGED Writers, JobsStand', quiet' \in BOOLEAN, quiet' => quiet,
         NEW at \in Pcs \ {"workflow"}, composing.pc = at,
         NEW c, [composing.parts EXCEPT !["rca"] = c] \in Parts,
         Composed!GiveRca(c), Told("rca", composing.brief, c)
  PROVE  ComposedInv'
<1>1. composing # Composed!Idle
  BY IsReading
<1>2. PICK brief, parts : brief = composing.brief /\ parts = composing.parts
  OBVIOUS
<1>3. PICK new : new = [parts EXCEPT !["rca"] = c]
  OBVIOUS
<1>4. Behind(at, brief, parts) /\ (Calm(brief) => Untroubled(parts)) /\ new \in Parts
  BY <1>1, <1>2, <1>3, ReaderHas
<1>5. given' = [brief |-> brief, parts |-> new, quiet |-> quiet'] /\ composing' = Composed!Idle
  BY <1>2, <1>3 DEF Composed!GiveRca, Composed!Give, Composed!With
<1>6. ReadyOf(brief, new)
  BY <1>2, <1>3, <1>4, ToldKeeps DEF Behind
<1>7. Calm(brief) /\ quiet' => Untroubled(new)
  BY <1>2, <1>3, <1>4, UntroubledKeeps DEF Behind, Composed!Components
<1>8. brief \in Briefs /\ brief.revision <= head.revision
  BY <1>4 DEF Behind
<1>9. QED
  BY <1>4, <1>5, <1>6, <1>7, <1>8, Ends

\* A result that is not there is told without a view.
LEMMA RcaIsTold ==
  ASSUME ComposedInv, UNCHANGED Writers, JobsStand', quiet' \in BOOLEAN, quiet' => quiet,
         NEW at \in Pcs \ {"workflow"}, composing.pc = at,
         NEW s \in Composed!States \ {"READY"}, Composed!GiveRca(Composed!Is(s))
  PROVE  ComposedInv'
<1>1. composing.parts \in Parts /\ "rca" \in Composed!Components
  BY IsReading, ReaderHas DEF Composed!Components
<1>2. [composing.parts EXCEPT !["rca"] = Composed!Is(s)] \in Parts
  BY <1>1, IsPart
<1>3. Told("rca", composing.brief, Composed!Is(s))
  BY DEF Told, Composed!Is
<1>4. QED
  BY <1>2, <1>3, RcaEnds

LEMMA RcaStatusKeeps == ASSUME ComposedInv, Composed!RcaStatus, UNCHANGED services PROVE ComposedInv'
<1>1. /\ UNCHANGED Writers /\ UNCHANGED <<jobs, quiet>> /\ JobsStand' /\ composing.pc = "rca"
      /\ quiet \in BOOLEAN /\ "rca" \in Pcs \ {"workflow"} /\ "facts" \in Pcs \ {"workflow"}
  BY JobsSame DEF Composed!RcaStatus, Composed!At, Writers, Pcs, ComposedInv, ComposedType
<1>2. CASE /\ Composed!Query \in DOMAIN jobs /\ jobs[Composed!Query] # "READY"
           /\ Composed!GiveRca(Composed!Is(IF jobs[Composed!Query] = "RUNNING" THEN "PENDING" ELSE jobs[Composed!Query]))
  <2>1. jobs[Composed!Query] \in Composed!Statuses
    BY <1>2 DEF ComposedInv, ComposedType
  <2>2. PICK s : s = IF jobs[Composed!Query] = "RUNNING" THEN "PENDING" ELSE jobs[Composed!Query]
    OBVIOUS
  <2>3. s \in Composed!States \ {"READY"} /\ Composed!GiveRca(Composed!Is(s))
    BY <1>2, <2>1, <2>2, States1 DEF Composed!Statuses
  <2>4. QED
    BY <1>1, <2>3, RcaIsTold
<1>3. CASE Composed!Goto("facts") /\ UNCHANGED given
  BY <1>1, <1>3, GotoKeeps
<1>4. QED
  BY <1>2, <1>3 DEF Composed!RcaStatus

LEMMA ReadFactsKeeps == ASSUME ComposedInv, Composed!ReadFacts, UNCHANGED services PROVE ComposedInv'
<1>1. /\ UNCHANGED Writers /\ UNCHANGED <<jobs, quiet>> /\ JobsStand' /\ composing.pc = "facts"
      /\ quiet \in BOOLEAN /\ "facts" \in Pcs \ {"workflow"} /\ "loop" \in Pcs \ {"workflow"}
  BY JobsSame DEF Composed!ReadFacts, Composed!At, Writers, Pcs, ComposedInv, ComposedType
<1>2. CASE Composed!Goto("loop") /\ UNCHANGED given
  BY <1>1, <1>2, GotoKeeps
<1>3. CASE Composed!GiveRca(Composed!Is("STALE"))
  BY <1>1, <1>3, RcaIsTold, States1
<1>4. QED
  BY <1>2, <1>3 DEF Composed!ReadFacts

LEMMA ReadLoopKeeps == ASSUME ComposedInv, Composed!ReadLoop, UNCHANGED services PROVE ComposedInv'
<1>1. /\ UNCHANGED Writers /\ UNCHANGED quiet /\ composing.pc = "loop"
      /\ quiet \in BOOLEAN /\ "loop" \in Pcs \ {"workflow"}
  BY DEF Composed!ReadLoop, Composed!At, Writers, Pcs, ComposedInv, ComposedType
<1>2. /\ composing.parts \in Parts /\ composing.brief \in Briefs
      /\ "rca" \in Composed!Components
  BY <1>1, IsReading, ReaderHas DEF Composed!Components
<1>3. CASE UNCHANGED jobs /\ \E s \in {"STALE", "MATERIALIZATION_REQUIRED"} : Composed!GiveRca(Composed!Is(s))
  BY <1>1, <1>3, RcaIsTold, States1, JobsSame
<1>4. CASE UNCHANGED jobs /\ Composed!FactsCurrent /\ Composed!GiveRca(Composed!Read("READY"))
  <2>1. [composing.parts EXCEPT !["rca"] = Composed!Read("READY")] \in Parts
    BY <1>2, ReadPart, States1
  <2>2. /\ Composed!Read("READY").of.version = head.version
        /\ Composed!Read("READY").of.cycle = head.cycle
    BY ReadPart, States1
  <2>3. Told("rca", composing.brief, Composed!Read("READY"))
    BY <1>4, <2>2 DEF Told, Composed!FactsCurrent, Composed!Cycle
  <2>4. QED
    BY <1>1, <1>4, <2>1, <2>3, RcaEnds, JobsSame
<1>5. CASE /\ jobs' = [q \in DOMAIN jobs \cup {Composed!Query} |-> IF q = Composed!Query THEN "PENDING" ELSE jobs[q]]
           /\ Composed!GiveRca(Composed!Is("PENDING"))
  <2>1. Composed!Query \in Composed!Queries
    BY <1>2 DEF Composed!Query, Composed!Queries, Briefs
  <2>2. PICK asked : asked = Composed!Query
    OBVIOUS
  <2>3. jobs' = [q \in DOMAIN jobs \cup {asked} |-> IF q = asked THEN "PENDING" ELSE jobs[q]]
    BY <1>5, <2>2
  <2>4. JobsStand'
    BY <2>1, <2>2, <2>3 DEF JobsStand, ComposedInv, ComposedType, Composed!Statuses
  <2>5. QED
    BY <1>1, <1>5, <2>4, RcaIsTold, States1
<1>6. QED
  BY <1>3, <1>4, <1>5 DEF Composed!ReadLoop

LEMMA RcaFailsKeeps == ASSUME ComposedInv, Composed!RcaFails, UNCHANGED services PROVE ComposedInv'
<1>1. /\ UNCHANGED Writers /\ JobsStand' /\ quiet' = FALSE
      /\ composing.pc \in Pcs \ {"workflow"} /\ Composed!GiveRca(Composed!Is("FAILED"))
  BY JobsSame DEF Composed!RcaFails, Writers, Pcs
<1>2. QED
  BY <1>1, RcaIsTold, States1

-----------------------------------------------------------------------------
\* What comes before the profile.
LEMMA FirstParts ==
  ASSUME NEW brief, NEW parts,
         \A c \in Composed!Components : parts[c].state = "READY" => c \in {"workflow", "profile"},
         parts["workflow"].state = "READY" => parts["workflow"].of.version = brief.version
  PROVE  ReadyOf(brief, parts)
<1>1. "history" \in Composed!Components
  BY DEF Composed!Components
<1>2. QED
  BY <1>1 DEF ReadyOf

LEMMA ComposeKeeps ==
  ASSUME ComposedInv, UNCHANGED Writers, UNCHANGED jobs, quiet' \in BOOLEAN, quiet' => quiet,
         composing.pc = "workflow",
         NEW w, NEW told \in BOOLEAN, Composed!ComposeOn(w, told),
         \A parts \in Parts : [parts EXCEPT !["workflow"] = w] \in Parts,
         w.state = "READY" => w.of.version = composing.brief.version,
         Calm(composing.brief) /\ quiet' => told /\ w.state \notin {"STALE", "FAILED"}
  PROVE  ComposedInv'
<1>1. composing # Composed!Idle /\ JobsStand'
  BY IsReading, JobsSame DEF Pcs
<1>2. PICK brief, parts, p, first :
        /\ brief = composing.brief /\ parts = composing.parts
        /\ p = profiles[brief.revision] /\ first = [parts EXCEPT !["workflow"] = w]
  OBVIOUS
<1>3. /\ brief \in Briefs /\ parts \in Parts /\ brief.revision <= head.revision /\ brief.version <= head.version
      /\ composing = [pc |-> "workflow", brief |-> brief, parts |-> parts]
      /\ parts = [c \in Composed!Components |-> Composed!Is("UNAVAILABLE")]
  BY <1>1, <1>2, ReaderHas DEF ComposedInv, ReadingStands
<1>4. p \in Composed!Profile
  BY <1>2, <1>3 DEF ComposedInv, ComposedType, Briefs
<1>5. /\ Composed!Components = {"workflow", "profile", "planner", "history", "rca"}
      /\ first \in Parts /\ first["workflow"] = w
      /\ \A c \in Composed!Components \ {"workflow"} : first[c] = Composed!Is("UNAVAILABLE")
  BY <1>2, <1>3 DEF Composed!Components
<1>6. \A s : Composed!Is(s).state = s
  BY DEF Composed!Is
<1>7. PICK r : r = Composed!Read("READY")
  OBVIOUS
<1>8. /\ r.state = "READY"
      /\ \A ps \in Parts : [ps EXCEPT !["profile"] = r] \in Parts
  BY <1>5, <1>7, ReadPart, States1
<1>9. Calm(brief) => p.kind = "bound" /\ p.cycle = head.cycle
  BY <1>2 DEF Calm
<1>10. ASSUME NEW new \in Parts, Composed!Give(new), ReadyOf(brief, new), Calm(brief) /\ quiet' => Untroubled(new)
       PROVE  ComposedInv'
  <2>1. given' = [brief |-> brief, parts |-> new, quiet |-> quiet'] /\ composing' = Composed!Idle
    BY <1>2, <1>10 DEF Composed!Give
  <2>2. QED
    BY <1>1, <1>3, <1>10, <2>1, Ends
<1>11. CASE Composed!Give(first)
  <2>1. ReadyOf(brief, first)
    <3>1. \A c \in Composed!Components : first[c].state = "READY" => c \in {"workflow", "profile"}
      BY <1>5, <1>6
    <3>2. first["workflow"].state = "READY" => first["workflow"].of.version = brief.version
      BY <1>2, <1>5
    <3>3. QED
      BY ONLY <3>1, <3>2, FirstParts
  <2>2. Calm(brief) /\ quiet' => Untroubled(first)
    BY <1>2, <1>5, <1>6 DEF Untroubled
  <2>3. QED
    BY <1>5, <1>10, <1>11, <2>1, <2>2
<1>12. CASE p.kind = "unbound" /\ \E s \in {"STALE", "FAILED"} : Composed!Give([first EXCEPT !["profile"] = Composed!Is(s)])
  <2>1. PICK s, new : /\ s \in {"STALE", "FAILED"} /\ new = [first EXCEPT !["profile"] = Composed!Is(s)]
                      /\ Composed!Give(new)
    BY <1>12
  <2>2. new \in Parts
    BY <1>5, <2>1, IsPart, States1
  <2>3. ReadyOf(brief, new)
    BY <1>2, <1>5, <1>6, <2>1, FirstParts DEF Parts
  <2>4. QED
    BY <1>9, <1>10, <1>12, <2>1, <2>2, <2>3
<1>13. CASE ~told /\ Composed!Give([[first EXCEPT !["profile"] = r] EXCEPT !["planner"] = Composed!Is("STALE")])
  <2>1. PICK both : both = [first EXCEPT !["profile"] = r]
    OBVIOUS
  <2>2. PICK new : new = [both EXCEPT !["planner"] = Composed!Is("STALE")]
    OBVIOUS
  <2>3. both \in Parts /\ new \in Parts
    BY <1>5, <1>8, <2>1, <2>2, IsPart, States1
  <2>4. ReadyOf(brief, new)
    BY <1>2, <1>5, <1>6, <2>1, <2>2, FirstParts DEF Parts
  <2>5. QED
    BY <1>2, <1>10, <1>13, <2>1, <2>2, <2>3, <2>4
<1>14. CASE p.cycle # head.cycle /\ Composed!Give([c \in Composed!Components |-> IF c = "workflow" THEN w ELSE Composed!Is("STALE")])
  <2>1. PICK new : new = [c \in Composed!Components |-> IF c = "workflow" THEN w ELSE Composed!Is("STALE")]
    OBVIOUS
  <2>2. \A c \in Composed!Components : new[c] = IF c = "workflow" THEN w ELSE Composed!Is("STALE")
    BY <2>1
  <2>3. PICK stale : stale = [c \in Composed!Components |-> Composed!Is("STALE")]
    OBVIOUS
  <2>4. stale \in Parts
    BY <2>3, States1 DEF Parts, Composed!Is
  <2>5. new = [stale EXCEPT !["workflow"] = w]
    BY <2>1, <2>3
  <2>6. new \in Parts
    BY <2>4, <2>5
  <2>7. ReadyOf(brief, new)
    BY <1>2, <1>5, <1>6, <2>2, FirstParts
  <2>8. QED
    BY <1>9, <1>10, <1>14, <2>1, <2>6, <2>7
<1>15. CASE /\ p.kind = "bound" /\ p.cycle = head.cycle /\ UNCHANGED given
            /\ composing' = [composing EXCEPT !.pc = "planner", !.parts = [first EXCEPT !["profile"] = r]]
  <2>1. PICK both : both = [first EXCEPT !["profile"] = r]
    OBVIOUS
  <2>2. both \in Parts /\ both["profile"].state = "READY"
    BY <1>5, <1>8, <2>1 DEF Parts
  <2>3. ReadyOf(brief, both)
    BY <1>2, <1>5, <1>6, <2>1, FirstParts DEF Parts
  <2>4. Calm(brief) /\ quiet' => Untroubled(both)
    BY <1>2, <1>5, <1>6, <1>8, <2>1 DEF Untroubled, Parts
  <2>5. composing' = [pc |-> "planner", brief |-> brief, parts |-> both]
    BY <1>3, <1>15, <2>1
  <2>6. Behind("planner", brief, both)
    BY <1>2, <1>3, <1>15, <2>2, <2>3 DEF Behind, Pcs
  <2>7. QED
    BY <1>1, <1>15, <2>4, <2>5, <2>6, GoesOn
<1>16. p.kind \in {"none", "unbound", "bound"}
  BY <1>4 DEF Composed!Profile, Composed!Kinds
<1>17. QED
  <2>1. CASE p.kind = "none"
    BY <1>2, <1>11, <2>1 DEF Composed!ComposeOn, Composed!With
  <2>2. CASE p.kind = "unbound"
    BY <1>2, <1>12, <2>2 DEF Composed!ComposeOn, Composed!With
  <2>3. CASE p.kind = "bound" /\ ~told
    BY <1>2, <1>7, <1>13, <2>3 DEF Composed!ComposeOn, Composed!With
  <2>4. CASE p.kind = "bound" /\ told /\ p.cycle # head.cycle
    BY <1>2, <1>14, <2>4 DEF Composed!ComposeOn, Composed!With
  <2>5. CASE p.kind = "bound" /\ told /\ p.cycle = head.cycle
    BY <1>2, <1>7, <1>15, <2>5 DEF Composed!ComposeOn, Composed!With
  <2>6. QED
    BY <1>16, <2>1, <2>2, <2>3, <2>4, <2>5

LEMMA ReadWorkflowKeeps == ASSUME ComposedInv, Composed!ReadWorkflow, UNCHANGED services PROVE ComposedInv'
<1>1. /\ UNCHANGED Writers /\ UNCHANGED jobs /\ composing.pc = "workflow" /\ quiet \in BOOLEAN
      /\ "workflow" \in Composed!Components
  BY DEF Composed!ReadWorkflow, Composed!At, Writers, ComposedInv, ComposedType, Composed!Components
<1>2. CASE UNCHANGED quiet /\ Composed!ComposeOn(Composed!Read(IF Composed!SameVector THEN "READY" ELSE "STALE"), TRUE)
  <2>1. PICK s, w : s = (IF Composed!SameVector THEN "READY" ELSE "STALE") /\ w = Composed!Read(s)
    OBVIOUS
  <2>2. s \in Composed!States /\ (s = "READY" <=> Composed!SameVector) /\ s # "FAILED"
    BY <2>1, States1
  <2>3. /\ \A parts \in Parts : [parts EXCEPT !["workflow"] = w] \in Parts
        /\ w.state = s /\ w.of.version = head.version
    BY <1>1, <2>1, <2>2, ReadPart
  <2>4. Calm(composing.brief) => Composed!SameVector
    BY DEF Calm, Composed!SameVector
  <2>5. w.state = "READY" => w.of.version = composing.brief.version
    BY <2>2, <2>3 DEF Composed!SameVector
  <2>6. QED
    BY <1>1, <1>2, <2>1, <2>2, <2>3, <2>4, <2>5, ComposeKeeps
<1>3. CASE quiet' = FALSE /\ Composed!ComposeOn(Composed!Is("FAILED"), FALSE)
  <2>1. Composed!Is("FAILED").state = "FAILED"
    BY DEF Composed!Is
  <2>2. \A parts \in Parts : [parts EXCEPT !["workflow"] = Composed!Is("FAILED")] \in Parts
    BY <1>1, IsPart, States1
  <2>3. QED
    BY <1>1, <1>3, <2>1, <2>2, ComposeKeeps
<1>4. QED
  BY <1>2, <1>3 DEF Composed!ReadWorkflow

LEMMA ComposedKeep ==
  ASSUME ComposedAssumption, ComposedInv, Composed!Next \/ UNCHANGED composedVars
  PROVE  ComposedInv'
<1>1. CASE UNCHANGED composedVars
  BY <1>1 DEF composedVars, ComposedInv, ComposedType, ReadingStands, GivenStands, ReadyOf, Calm
<1>2. CASE Composed!Next
  <2>1. UNCHANGED services
    BY <1>2 DEF Composed!Next
  <2>2. CASE Composed!ReadForPlan("planner", "planned", FALSE) \/ Composed!ReadForPlan("planned", "history", TRUE)
    BY <2>1, <2>2, PlanReadKeeps
  <2>3. CASE Composed!ReadForHistory("history", "retrieved", FALSE) \/ Composed!ReadForHistory("retrieved", "rca", TRUE)
    BY <2>1, <2>3, HistoryReadKeeps
  <2>4. QED
    BY <1>2, <2>1, <2>2, <2>3, PublishViewKeeps, CommandViewKeeps, WorkViewKeeps, ReadsBrief,
       ReadWorkflowKeeps, NoHistoryKeeps, RcaStatusKeeps, ReadFactsKeeps, ReadLoopKeeps, RcaFailsKeeps
       DEF Composed!Next, Composed!Step
<1>3. QED
  BY <1>1, <1>2

-----------------------------------------------------------------------------
(* EpisodeView *)

Kind == {"load", "commit", "check"}
Running ==
  {Page!Idle}
    \cup [of : {"commit"}, pc : {"command"}, command : Page!Command]
    \cup [of : Kind, pc : {"read"}, newest : BOOLEAN]
    \cup [of : Kind, pc : {"answered"}, newest : BOOLEAN, got : Page!Episode]
    \cup [of : Kind, pc : {"failed"}, newest : BOOLEAN, reasons : SUBSET Page!Errors]
    \cup [of : Kind, pc : {"committed"}, newest : {FALSE}, version : 0 .. PageVersions,
          reasons : SUBSET Page!Errors]
    \cup [of : Kind, pc : {"failed"}, newest : {FALSE}, version : 0 .. PageVersions,
          reasons : SUBSET Page!Errors]

Newest(r) == r.pc \in {"read", "answered", "failed"} /\ r.newest

\* A handler is not ahead of the database, and the answer that will be shown is not
\* behind what the page was told.
Stands(r) ==
  /\ r.pc = "committed" => r.version <= stored.version
  /\ r.pc = "answered" => r.got.version <= stored.version /\ (r.newest => known <= r.got.version)

PageType ==
  /\ stored \in Page!Episode /\ receipts \subseteq Page!Command
  /\ view \in Page!Views /\ known \in 0 .. PageVersions
  /\ handler \in [Handlers -> Running]

PageInv ==
  /\ PageType /\ Page!WaitsForSomebody
  /\ known <= stored.version
  /\ \A c \in receipts : c.version < stored.version
  /\ \A h \in Handlers : Stands(handler[h])
  /\ \A h, i \in Handlers : Newest(handler[h]) /\ Newest(handler[i]) => h = i

\* The fields of a handler that is under way.
LEMMA RunningIs ==
  ASSUME NEW x \in Running
  PROVE  /\ x.pc = "committed" => x.version \in 0 .. PageVersions
         /\ x.pc = "command" => x.command \in Page!Command
         /\ x.pc = "answered" => x.got \in Page!Episode /\ x.newest \in BOOLEAN
         /\ x.pc = "read" => x.newest \in BOOLEAN
         /\ x.pc = "failed" => x.reasons \subseteq Page!Errors
         /\ x.pc \in {"read", "answered", "failed"} =>
              LET y == [x EXCEPT !.newest = FALSE]
              IN  y \in Running /\ y.pc = x.pc /\ y.newest = FALSE /\ (x.pc = "answered" => y.got = x.got)
         /\ x.pc \in {"read", "answered", "failed"} => x.of \in Kind
<1>1. CASE x = Page!Idle
  BY <1>1 DEF Page!Idle
<1>2. CASE x \in [of : {"commit"}, pc : {"command"}, command : Page!Command]
  BY <1>2
<1>3. CASE x \in [of : Kind, pc : {"read"}, newest : BOOLEAN]
  <2>1. [x EXCEPT !.newest = FALSE] \in [of : Kind, pc : {"read"}, newest : BOOLEAN]
    BY <1>3
  <2>2. QED
    BY <1>3, <2>1 DEF Running
<1>4. CASE x \in [of : Kind, pc : {"answered"}, newest : BOOLEAN, got : Page!Episode]
  <2>1. [x EXCEPT !.newest = FALSE] \in [of : Kind, pc : {"answered"}, newest : BOOLEAN, got : Page!Episode]
    BY <1>4
  <2>2. QED
    BY <1>4, <2>1 DEF Running
<1>5. CASE x \in [of : Kind, pc : {"failed"}, newest : BOOLEAN, reasons : SUBSET Page!Errors]
  <2>1. [x EXCEPT !.newest = FALSE] \in [of : Kind, pc : {"failed"}, newest : BOOLEAN, reasons : SUBSET Page!Errors]
    BY <1>5
  <2>2. QED
    BY <1>5, <2>1 DEF Running
<1>6. CASE x \in [of : Kind, pc : {"committed"}, newest : {FALSE}, version : 0 .. PageVersions,
                  reasons : SUBSET Page!Errors]
  BY <1>6
<1>7. CASE x \in [of : Kind, pc : {"failed"}, newest : {FALSE}, version : 0 .. PageVersions,
                  reasons : SUBSET Page!Errors]
  <2>1. [x EXCEPT !.newest = FALSE] \in [of : Kind, pc : {"failed"}, newest : {FALSE}, version : 0 .. PageVersions,
                                        reasons : SUBSET Page!Errors]
    BY <1>7
  <2>2. QED
    BY <1>7, <2>1 DEF Running
<1>8. QED
  BY <1>1, <1>2, <1>3, <1>4, <1>5, <1>6, <1>7 DEF Running

\* The same in the form in which it is used.
LEMMA RunningFields ==
  /\ \A x \in Running : x.pc = "committed" => x.version \in 0 .. PageVersions /\ x.version \in Int
  /\ \A x \in Running : x.pc = "command" => x.command \in Page!Command
  /\ \A x \in Running : x.pc = "answered" =>
       x.got \in Page!Episode /\ x.got.version \in Int /\ x.newest \in BOOLEAN
  /\ \A x \in Running : x.pc = "read" => x.newest \in BOOLEAN
  /\ \A x \in Running : x.pc = "failed" => x.reasons \subseteq Page!Errors
  /\ \A x \in Running : x.pc \in {"read", "answered", "failed"} => x.of \in Kind
<1>1. SUFFICES ASSUME NEW x \in Running
               PROVE  /\ x.pc = "committed" => x.version \in 0 .. PageVersions
                      /\ x.pc = "command" => x.command \in Page!Command
                      /\ x.pc = "answered" => x.got \in Page!Episode /\ x.newest \in BOOLEAN
                      /\ x.pc = "read" => x.newest \in BOOLEAN
                      /\ x.pc = "failed" => x.reasons \subseteq Page!Errors
                      /\ x.pc \in {"read", "answered", "failed"} => x.of \in Kind
  BY DEF Page!Episode
<1>2. QED
  BY RunningIs

LEMMA PageImply == ASSUME PageInv PROVE Page!TypeOK /\ Page!WaitsForSomebody
<1>1. \A h \in Handlers : handler[h] \in Running
  BY DEF PageInv, PageType
<1>2. \A r \in Running : r # Page!Idle =>
        r.pc \in {"command", "committed", "read", "answered", "failed"} /\ r.of \in {"load", "commit", "check"}
  BY DEF Running, Kind
<1>3. QED
  BY <1>1, <1>2 DEF PageInv, PageType, Page!TypeOK

LEMMA PageInitially == ASSUME PageAssumption, Page!Init PROVE PageInv
<1>1. PICK h \in Handlers : handler = [i \in Handlers |->
        IF i = h THEN [of |-> "load", pc |-> "read", newest |-> TRUE] ELSE Page!Idle]
  BY DEF Page!Init
<1>2. /\ handler \in [Handlers -> Running]
      /\ \A i \in Handlers : i # h => handler[i].pc = "idle"
      /\ handler[h].pc = "read" /\ handler[h] # Page!Idle
  BY <1>1 DEF Running, Kind, Page!Idle
<1>3. /\ stored \in Page!Episode /\ stored.version = 0 /\ receipts = {} /\ known = 0
      /\ view \in Page!Views /\ known \in 0 .. PageVersions
  BY DEF Page!Init, PageAssumption, Page!Episode, Page!WorkStates, Page!Views
<1>4. \A i, j \in Handlers : Newest(handler[i]) /\ Newest(handler[j]) => i = j
  BY <1>2 DEF Newest
<1>5. \A i \in Handlers : Stands(handler[i])
  BY <1>2 DEF Stands
<1>6. QED
  BY <1>2, <1>3, <1>4, <1>5 DEF PageInv, PageType, Page!WaitsForSomebody

\* One handler goes on: what it must show.
LEMMA HandlerGoesOn ==
  ASSUME PageInv, NEW h \in Handlers, NEW r \in Running, handler' = [handler EXCEPT ![h] = r],
         stored' \in Page!Episode, stored'.version >= stored.version,
         receipts' \subseteq Page!Command, \A c \in receipts' : c.version < stored'.version,
         view' \in Page!Views, known' \in 0 .. PageVersions, known' <= stored'.version,
         known' = known \/ Newest(handler[h]),
         Newest(r) => Newest(handler[h]),
         r.pc = "committed" => r.version <= stored'.version,
         r.pc = "answered" => r.got.version <= stored'.version /\ (r.newest => known' <= r.got.version),
         r # Page!Idle \/ ~Page!Waits'
  PROVE  PageInv'
<1>1. /\ handler' \in [Handlers -> Running] /\ handler'[h] = r
      /\ \A i \in Handlers : i # h => handler'[i] = handler[i]
  BY DEF PageInv, PageType
<1>2. PageType'
  BY <1>1 DEF PageType
<1>3. Page!WaitsForSomebody'
  BY <1>1 DEF Page!WaitsForSomebody
<1>4. stored.version \in Int /\ stored'.version \in Int
  BY DEF PageInv, PageType, Page!Episode
<1>5. ASSUME NEW i \in Handlers, i # h
      PROVE  Stands(handler[i])'
  <2>1. handler'[i] = handler[i] /\ handler[i] \in Running /\ Stands(handler[i])
    BY <1>1, <1>5 DEF PageInv, PageType
  <2>2. Newest(handler[i]) => known' = known
    BY <1>5 DEF PageInv
  <2>3. handler[i].pc = "committed" => handler[i].version \in Int
    BY <2>1, RunningFields
  <2>4. handler[i].pc = "answered" => handler[i].got.version \in Int /\ handler[i].newest \in BOOLEAN
    BY <2>1, RunningFields
  <2>5. handler[i].pc = "answered" /\ handler[i].newest => known' = known
    BY <2>2 DEF Newest
  <2>6. QED
    BY <2>1, <2>3, <2>4, <2>5, <1>4 DEF Stands
<1>6. Stands(handler[h])'
  BY <1>1 DEF Stands
<1>7. ASSUME NEW i \in Handlers, NEW j \in Handlers, Newest(handler[i])', Newest(handler[j])'
      PROVE  i = j
  <2>1. \A k \in Handlers : Newest(handler[k])' => Newest(handler[k])
    BY <1>1 DEF Newest
  <2>2. QED
    BY <1>7, <2>1 DEF PageInv
<1>8. QED
  BY <1>2, <1>3, <1>5, <1>6, <1>7 DEF PageInv

\* A read begins, and its answer is the only one that will be shown.
LEMMA ReadBegins ==
  ASSUME PageInv, NEW h \in Handlers, NEW of \in Kind, Page!StartRead(h, of),
         stored' \in Page!Episode, stored'.version >= stored.version,
         receipts' \subseteq Page!Command, \A c \in receipts' : c.version < stored'.version,
         view' \in Page!Views, known' \in 0 .. PageVersions, known' <= stored'.version
  PROVE  PageInv'
<1>1. PICK r : r = [of |-> of, pc |-> "read", newest |-> TRUE]
  OBVIOUS
<1>2. /\ DOMAIN handler' = Handlers /\ handler' = [i \in Handlers |-> handler'[i]]
      /\ handler'[h] = r
      /\ \A i \in Handlers : i # h =>
           handler'[i] = IF handler[i] # Page!Idle /\ handler[i].pc \in {"read", "answered", "failed"}
                         THEN [handler[i] EXCEPT !.newest = FALSE] ELSE handler[i]
  BY <1>1 DEF Page!StartRead
<1>3. \A x \in Running : x.pc \in {"read", "answered", "failed"} =>
        LET y == [x EXCEPT !.newest = FALSE]
        IN  y \in Running /\ y.pc = x.pc /\ ~y.newest /\ (x.pc = "answered" => y.got = x.got)
  BY RunningIs
<1>4. r \in Running /\ r # Page!Idle
  BY <1>1 DEF Running, Page!Idle
<1>5. \A i \in Handlers : handler[i] \in Running
  BY DEF PageInv, PageType
<1>6. ASSUME NEW i \in Handlers, i # h
      PROVE  handler'[i] \in Running /\ ~Newest(handler[i])' /\ Stands(handler[i])'
  <2>1. PICK x : x = handler[i] /\ x \in Running /\ Stands(x)
    BY <1>5 DEF PageInv
  <2>2. stored.version \in Int /\ stored'.version \in Int
    BY DEF PageInv, PageType, Page!Episode
  <2>3. CASE x # Page!Idle /\ x.pc \in {"read", "answered", "failed"}
    <3>1. PICK y : y = [x EXCEPT !.newest = FALSE]
      OBVIOUS
    <3>2. handler'[i] = y
      BY <1>2, <1>6, <2>1, <2>3, <3>1
    <3>3. y \in Running /\ y.pc = x.pc /\ ~y.newest /\ (x.pc = "answered" => y.got = x.got)
      BY <1>3, <2>1, <2>3, <3>1
    <3>4. x.pc = "answered" => x.got.version \in Int
      BY <2>1, RunningFields
    <3>5. QED
      BY <2>1, <2>2, <2>3, <3>2, <3>3, <3>4 DEF Newest, Stands
  <2>4. CASE ~(x # Page!Idle /\ x.pc \in {"read", "answered", "failed"})
    <3>1. handler'[i] = x
      BY <1>2, <1>6, <2>1, <2>4
    <3>2. x.pc \notin {"read", "answered", "failed"}
      BY <2>4 DEF Page!Idle
    <3>3. x.pc = "committed" => x.version \in Int
      BY <2>1, RunningFields
    <3>4. QED
      BY <2>1, <2>2, <3>1, <3>2, <3>3 DEF Newest, Stands
  <2>5. QED
    BY <2>3, <2>4
<1>7. handler' \in [Handlers -> Running]
  BY <1>2, <1>4, <1>6
<1>8. PageType'
  BY <1>7 DEF PageType
<1>9. Stands(handler[h])'
  BY <1>1, <1>2 DEF Stands
<1>10. Page!WaitsForSomebody'
  BY <1>2, <1>4 DEF Page!WaitsForSomebody
<1>11. QED
  BY <1>6, <1>8, <1>9, <1>10 DEF PageInv

-----------------------------------------------------------------------------
\* The views.
LEMMA ViewsAre ==
  \A v : v \in Page!Views <=>
    \/ v = Page!Loading
    \/ \E e \in Page!Episode, c \in BOOLEAN : v = Page!Brief(e, c)
    \/ \E e \in Page!Episode : v = [Page!Brief(e, FALSE) EXCEPT !.primary = FALSE]
    \/ \E e \in Page!Episode : v = [Page!Brief(e, TRUE) EXCEPT !.primary = FALSE]
    \/ \E r \in Page!Errors : v = Page!Error(r)
BY SMT DEF Page!Views

LEMMA SpentIs ==
  ASSUME NEW e, NEW c \in BOOLEAN
  PROVE  [Page!Brief(e, c) EXCEPT !.primary = FALSE]
           = [kind |-> "brief", episode |-> e, primary |-> FALSE, checks |-> c]
<1>1. PICK v, n : v = Page!Brief(e, c) /\ n = FALSE
  OBVIOUS
<1>2. PICK p : v = [kind |-> "brief", episode |-> e, primary |-> p, checks |-> c]
  BY <1>1 DEF Page!Brief
<1>3. [v EXCEPT !.primary = n] = [kind |-> "brief", episode |-> e, primary |-> n, checks |-> c]
  BY <1>2
<1>4. QED
  BY <1>1, <1>3, Zenon

LEMMA BriefView ==
  ASSUME NEW v \in Page!Views, v.kind = "brief"
  PROVE  \E e \in Page!Episode, p, c \in BOOLEAN :
           v = [kind |-> "brief", episode |-> e, primary |-> p, checks |-> c]
<1>1. v # Page!Loading /\ \A r \in Page!Errors : v # Page!Error(r)
  BY DEF Page!Loading, Page!Error
<1>2. CASE \E e \in Page!Episode, c \in BOOLEAN : v = Page!Brief(e, c)
  <2>1. PICK e \in Page!Episode, c \in BOOLEAN : v = Page!Brief(e, c)
    BY <1>2
  <2>2. v = [kind |-> "brief", episode |-> e, primary |-> v.primary, checks |-> c]
    BY <2>1 DEF Page!Brief
  <2>3. v.primary \in BOOLEAN
    BY <2>1 DEF Page!Brief
  <2>4. QED
    BY <2>2, <2>3
<1>3. CASE \E e \in Page!Episode : v = [Page!Brief(e, FALSE) EXCEPT !.primary = FALSE]
  BY <1>3, SpentIs
<1>4. CASE \E e \in Page!Episode : v = [Page!Brief(e, TRUE) EXCEPT !.primary = FALSE]
  BY <1>4, SpentIs
<1>5. QED
  BY <1>1, <1>2, <1>3, <1>4, ViewsAre

LEMMA SpentView ==
  ASSUME NEW e \in Page!Episode, NEW c \in BOOLEAN
  PROVE  [kind |-> "brief", episode |-> e, primary |-> FALSE, checks |-> c] \in Page!Views
<1>1. \/ [kind |-> "brief", episode |-> e, primary |-> FALSE, checks |-> c] = [Page!Brief(e, FALSE) EXCEPT !.primary = FALSE]
      \/ [kind |-> "brief", episode |-> e, primary |-> FALSE, checks |-> c] = [Page!Brief(e, TRUE) EXCEPT !.primary = FALSE]
  BY SpentIs
<1>2. QED
  BY <1>1, ViewsAre

LEMMA OtherViews ==
  /\ Page!Loading \in Page!Views
  /\ \A r \in Page!Errors : Page!Error(r) \in Page!Views /\ Page!Error(r).kind = "error"
  /\ \A r : Page!Error(r) # Page!Loading
  /\ \A e \in Page!Episode, c \in BOOLEAN : Page!Brief(e, c) \in Page!Views
<1>1. \A r : Page!Error(r) # Page!Loading /\ Page!Error(r).kind = "error"
  BY DEF Page!Error, Page!Loading
<1>2. QED
  BY <1>1, ViewsAre

\* Where a page may be, in numbers.
LEMMA PageNumbers ==
  ASSUME PageAssumption, PageInv
  PROVE  /\ stored.version \in 0 .. PageVersions /\ stored.version \in Nat /\ known \in Nat
         /\ stored.work \in Page!WorkStates
         /\ \A c \in receipts : c.version \in Nat
         /\ PageVersions \in Nat
BY DEF PageAssumption, PageInv, PageType, Page!Episode, Page!Command

LEMMA OthersWorkKeeps == ASSUME PageAssumption, PageInv, Page!OthersWork PROVE PageInv'
<1>1. PICK w \in Page!WorkStates : stored' = [version |-> stored.version + 1, work |-> w]
  BY DEF Page!OthersWork
<1>2. stored' \in Page!Episode /\ stored'.version = stored.version + 1
  BY <1>1, PageNumbers DEF Page!Episode, Page!OthersWork
<1>3. UNCHANGED <<receipts, view, handler, known>>
  BY DEF Page!OthersWork
<1>4. PageType'
  BY <1>2, <1>3 DEF PageInv, PageType
<1>5. ASSUME NEW h \in Handlers
      PROVE  Stands(handler[h])'
  <2>1. handler[h] \in Running /\ Stands(handler[h])
    BY DEF PageInv, PageType
  <2>2. /\ handler[h].pc = "committed" => handler[h].version \in Int
        /\ handler[h].pc = "answered" => handler[h].got.version \in Int
    BY <2>1, RunningFields
  <2>3. QED
    BY <1>2, <1>3, <2>1, <2>2, PageNumbers DEF Stands
<1>6. known' <= stored'.version /\ \A c \in receipts' : c.version < stored'.version
  BY <1>2, <1>3, PageNumbers DEF PageInv
<1>7. QED
  BY <1>3, <1>4, <1>5, <1>6 DEF PageInv, Newest, Page!WaitsForSomebody, Page!Waits

\* A command that is accepted leaves the database at or behind its version, and so
\* does one that has a receipt.
LEMMA Executed ==
  ASSUME PageAssumption, PageInv, NEW c \in Page!Command, Page!Accepted(c), Page!Execute(c)
  PROVE  /\ stored' \in Page!Episode /\ stored'.version >= stored.version
         /\ receipts' \subseteq Page!Command /\ \A x \in receipts' : x.version < stored'.version
         /\ c.version + 1 \in 0 .. PageVersions /\ c.version + 1 <= stored'.version
<1>1. c.version \in Nat /\ c.version \in 0 .. PageVersions
  BY PageNumbers DEF Page!Command
<1>2. CASE c \in receipts
  BY <1>1, <1>2, PageNumbers DEF PageInv, PageType, Page!Execute
<1>3. CASE c \notin receipts
  <2>1. c.version = stored.version /\ c.version < PageVersions
    BY <1>3 DEF Page!Accepted
  <2>2. Page!WorkAfter(c.action) \in Page!WorkStates
    BY PageNumbers DEF Page!WorkAfter, Page!WorkStates
  <2>3. stored' = [version |-> c.version + 1, work |-> Page!WorkAfter(c.action)] /\ receipts' = receipts \cup {c}
    BY <1>3 DEF Page!Execute
  <2>4. c.version + 1 \in 0 .. PageVersions
    BY <1>1, <2>1, PageNumbers
  <2>5. stored' \in Page!Episode /\ stored'.version = c.version + 1
    BY <2>2, <2>3, <2>4 DEF Page!Episode
  <2>6. \A x \in receipts' : x.version < stored'.version
    BY <1>1, <2>1, <2>3, <2>5, PageNumbers DEF PageInv
  <2>7. QED
    BY <1>1, <2>1, <2>3, <2>4, <2>5, <2>6, PageNumbers DEF PageInv, PageType
<1>4. QED
  BY <1>2, <1>3

\* What does not touch the database, in numbers.
LEMMA Untouched ==
  ASSUME PageAssumption, PageInv, UNCHANGED <<stored, receipts>>
  PROVE  /\ stored' \in Page!Episode /\ stored'.version >= stored.version
         /\ receipts' \subseteq Page!Command /\ \A x \in receipts' : x.version < stored'.version
         /\ known \in 0 .. PageVersions /\ known <= stored'.version
BY PageNumbers DEF PageInv, PageType

LEMMA NewerIs ==
  ASSUME PageAssumption, PageInv, NEW v \in 0 .. PageVersions
  PROVE  /\ Page!Newer(v) \in 0 .. PageVersions
         /\ \A s \in Nat : s >= stored.version /\ v <= s => Page!Newer(v) <= s
BY PageNumbers DEF Page!Newer, PageInv

LEMMA LoadKeeps ==
  ASSUME PageAssumption, PageInv, NEW h \in Handlers, Page!Load(h), UNCHANGED <<stored, receipts, known>>
  PROVE  PageInv'
BY Untouched, ReadBegins, OtherViews DEF Page!Load, Kind

LEMMA ClickPrimaryKeeps ==
  ASSUME PageAssumption, PageInv, NEW h \in Handlers, Page!ClickPrimary(h)
  PROVE  PageInv'
<1>1. view \in Page!Views /\ view.kind = "brief"
  BY DEF Page!ClickPrimary, PageInv, PageType
<1>2. PICK e \in Page!Episode, p \in BOOLEAN, c \in BOOLEAN :
        view = [kind |-> "brief", episode |-> e, primary |-> p, checks |-> c]
  BY <1>1, BriefView
<1>3. view' = [kind |-> "brief", episode |-> e, primary |-> FALSE, checks |-> c]
  BY <1>2 DEF Page!ClickPrimary
<1>4. view' \in Page!Views
  BY <1>3, SpentView
<1>5. PICK r : r = [of |-> "commit", pc |-> "command",
                    command |-> [action |-> Page!ActionOf(view.episode), version |-> view.episode.version]]
  OBVIOUS
<1>6. [action |-> Page!ActionOf(view.episode), version |-> view.episode.version] \in Page!Command
  BY <1>2 DEF Page!Command, Page!ActionOf, Page!Episode
<1>7. r \in Running /\ r # Page!Idle /\ r.pc = "command"
  BY <1>5, <1>6 DEF Running, Page!Idle
<1>8. handler' = [handler EXCEPT ![h] = r] /\ UNCHANGED <<stored, receipts, known>>
  BY <1>5 DEF Page!ClickPrimary
<1>9. ~Newest(r)
  BY <1>7 DEF Newest
<1>10. QED
  BY <1>4, <1>7, <1>8, <1>9, Untouched, HandlerGoesOn

LEMMA ClickCheckKeeps ==
  ASSUME PageAssumption, PageInv, NEW h \in Handlers, Page!ClickCheck(h)
  PROVE  PageInv'
<1>1. view \in Page!Views /\ view.kind = "brief"
  BY DEF Page!ClickCheck, PageInv, PageType
<1>2. PICK e \in Page!Episode, p \in BOOLEAN, k \in BOOLEAN :
        view = [kind |-> "brief", episode |-> e, primary |-> p, checks |-> k]
  BY <1>1, BriefView
<1>3. PICK c : c = [action |-> "RequestCheck", version |-> view.episode.version]
  OBVIOUS
<1>4. c \in Page!Command /\ c.version \in 0 .. PageVersions
  BY <1>2, <1>3 DEF Page!Command, Page!Episode
<1>5. CASE /\ Page!Accepted(c) /\ Page!Execute(c) /\ known' = Page!Newer(c.version + 1)
           /\ view' = [view EXCEPT !.primary = FALSE, !.checks = FALSE] /\ Page!StartRead(h, "check")
  <2>1. view' = [kind |-> "brief", episode |-> e, primary |-> FALSE, checks |-> FALSE]
    BY <1>2, <1>5
  <2>2. view' \in Page!Views
    BY <2>1, SpentView
  <2>3. /\ stored' \in Page!Episode /\ stored'.version >= stored.version
        /\ receipts' \subseteq Page!Command /\ \A x \in receipts' : x.version < stored'.version
        /\ c.version + 1 \in 0 .. PageVersions /\ c.version + 1 <= stored'.version
    BY <1>4, <1>5, Executed
  <2>4. known' \in 0 .. PageVersions /\ known' <= stored'.version
    <3>1. stored'.version \in Nat
      BY <2>3 DEF Page!Episode
    <3>2. QED
      BY <1>5, <2>3, <3>1, NewerIs
  <2>5. QED
    BY <1>5, <2>2, <2>3, <2>4, ReadBegins DEF Kind
<1>6. CASE Page!Load(h) /\ UNCHANGED <<stored, receipts, known>>
  BY <1>6, LoadKeeps
<1>7. CASE /\ \E reason \in Page!Errors \ {"stale", "conflict", "incoherent"} : view' = Page!Error(reason)
           /\ \/ UNCHANGED <<stored, receipts>>
              \/ Page!Accepted(c) /\ Page!Execute(c)
           /\ UNCHANGED <<handler, known>>
  <2>1. view' \in Page!Views /\ view'.kind = "error"
    BY <1>7, OtherViews
  <2>2. /\ stored' \in Page!Episode /\ stored'.version >= stored.version
        /\ receipts' \subseteq Page!Command /\ \A x \in receipts' : x.version < stored'.version
    BY <1>4, <1>7, Executed, Untouched
  <2>3. stored.version \in Int /\ stored'.version \in Int /\ known \in Int /\ known <= stored.version
    BY <2>2, PageNumbers DEF Page!Episode, PageInv
  <2>4. handler[h] \in Running /\ handler[h] = handler'[h] /\ handler' = [handler EXCEPT ![h] = handler[h]]
    BY <1>7 DEF PageInv, PageType
  <2>5. Stands(handler[h])'
    <3>1. Stands(handler[h])
      BY DEF PageInv
    <3>2. /\ handler[h].pc = "committed" => handler[h].version \in Int
          /\ handler[h].pc = "answered" => handler[h].got.version \in Int
      BY <2>4, RunningFields
    <3>3. QED
      BY <1>7, <2>2, <2>3, <3>1, <3>2 DEF Stands
  <2>6. ~Page!Waits'
    BY <2>1 DEF Page!Waits, Page!Loading
  <2>7. PICK r : r = handler[h]
    OBVIOUS
  <2>8. /\ r.pc = "committed" => r.version <= stored'.version
        /\ r.pc = "answered" => r.got.version <= stored'.version /\ (r.newest => known' <= r.got.version)
    BY <2>4, <2>5, <2>7 DEF Stands
  <2>9. known' \in 0 .. PageVersions /\ known' <= stored'.version /\ known' = known
    BY <1>7, <2>2, <2>3 DEF PageInv, PageType
  <2>10. QED
    BY <2>1, <2>2, <2>4, <2>6, <2>7, <2>8, <2>9, HandlerGoesOn
<1>8. QED
  BY <1>3, <1>5, <1>6, <1>7 DEF Page!ClickCheck, Page!RequestCheck

LEMMA HandlerAt ==
  ASSUME PageInv, NEW h \in Handlers, NEW pc, Page!At(h, pc)
  PROVE  handler[h] \in Running /\ Stands(handler[h]) /\ handler[h].pc = pc
BY DEF PageInv, PageType, Page!At

LEMMA ThreadExecutesKeeps ==
  ASSUME PageAssumption, PageInv, NEW h \in Handlers, Page!ThreadExecutes(h)
  PROVE  PageInv'
<1>1. handler[h] \in Running /\ handler[h].pc = "command" /\ UNCHANGED <<view, known>>
  BY HandlerAt DEF Page!ThreadExecutes
<1>2. PICK c \in Page!Command : c = handler[h].command
  BY <1>1, RunningFields
<1>3. view \in Page!Views /\ known \in 0 .. PageVersions
  BY DEF PageInv, PageType
<1>4. CASE /\ Page!Accepted(c) /\ Page!Execute(c)
           /\ \E pc \in {"committed", "failed"} :
                handler' = [handler EXCEPT ![h] =
                  [of |-> "commit", pc |-> pc, newest |-> FALSE, version |-> c.version + 1,
                   reasons |-> {"offline", "failed"}]]
  <2>0. PICK pc \in {"committed", "failed"} :
          handler' = [handler EXCEPT ![h] =
            [of |-> "commit", pc |-> pc, newest |-> FALSE, version |-> c.version + 1,
             reasons |-> {"offline", "failed"}]]
    BY <1>4
  <2>1. PICK r :
          /\ r = [of |-> "commit", pc |-> pc, newest |-> FALSE, version |-> c.version + 1,
                  reasons |-> {"offline", "failed"}]
          /\ handler' = [handler EXCEPT ![h] = r]
    BY <2>0
  <2>2. /\ stored' \in Page!Episode /\ stored'.version >= stored.version
        /\ receipts' \subseteq Page!Command /\ \A x \in receipts' : x.version < stored'.version
        /\ c.version + 1 \in 0 .. PageVersions /\ c.version + 1 <= stored'.version
    BY <1>4, Executed
  <2>3. {"offline", "failed"} \in SUBSET Page!Errors
    BY DEF Page!Errors
  <2>4. r \in Running /\ r # Page!Idle /\ r.pc # "answered" /\ ~Newest(r)
        /\ (r.pc = "committed" => r.version <= stored'.version)
    <3>1. CASE pc = "committed"
      <4>1. r \in [of : Kind, pc : {"committed"}, newest : {FALSE}, version : 0 .. PageVersions,
                   reasons : SUBSET Page!Errors]
        BY <2>1, <2>2, <2>3, <3>1 DEF Kind
      <4>2. QED
        BY <2>1, <2>2, <3>1, <4>1 DEF Running, Newest, Page!Idle
    <3>2. CASE pc = "failed"
      <4>1. r \in [of : Kind, pc : {"failed"}, newest : {FALSE}, version : 0 .. PageVersions,
                   reasons : SUBSET Page!Errors]
        BY <2>1, <2>2, <2>3, <3>2 DEF Kind
      <4>2. QED
        BY <2>1, <3>2, <4>1 DEF Running, Newest, Page!Idle
    <3>3. QED
      BY <2>1, <3>1, <3>2
  <2>5. known' = known /\ known <= stored'.version
    BY <1>1, <2>2, PageNumbers DEF Page!Episode, PageInv
  <2>6. QED
    BY <1>1, <1>3, <2>1, <2>2, <2>4, <2>5, HandlerGoesOn
<1>5. CASE /\ handler' = [handler EXCEPT ![h] =
                [of |-> "commit", pc |-> "failed", newest |-> FALSE,
                 reasons |-> Page!Errors \ {"stale", "incoherent"}]]
           /\ UNCHANGED <<stored, receipts>>
  <2>1. PICK r : r = [of |-> "commit", pc |-> "failed", newest |-> FALSE,
                      reasons |-> Page!Errors \ {"stale", "incoherent"}]
    OBVIOUS
  <2>2. r \in [of : Kind, pc : {"failed"}, newest : BOOLEAN, reasons : SUBSET Page!Errors]
    BY <2>1 DEF Kind
  <2>3. r \in Running /\ r # Page!Idle /\ ~Newest(r) /\ r.pc = "failed"
    BY <2>1, <2>2 DEF Running, Newest, Page!Idle
  <2>4. QED
    BY <1>1, <1>3, <1>5, <2>1, <2>3, Untouched, HandlerGoesOn
<1>6. QED
  BY <1>2, <1>4, <1>5 DEF Page!ThreadExecutes

LEMMA ThreadReadsKeeps ==
  ASSUME PageAssumption, PageInv, NEW h \in Handlers, Page!ThreadReads(h)
  PROVE  PageInv'
<1>1. handler[h] \in Running /\ handler[h].pc = "read" /\ UNCHANGED <<stored, receipts, view, known>>
  BY HandlerAt DEF Page!ThreadReads
<1>2. view \in Page!Views /\ stored \in Page!Episode
  BY DEF PageInv, PageType
<1>3. PICK r : r = [of |-> handler[h].of, pc |-> "answered", newest |-> handler[h].newest, got |-> stored]
  OBVIOUS
<1>4. handler[h].of \in Kind /\ handler[h].newest \in BOOLEAN
  BY <1>1, RunningFields
<1>5. r \in [of : Kind, pc : {"answered"}, newest : BOOLEAN, got : Page!Episode]
  BY <1>2, <1>3, <1>4
<1>6. r \in Running /\ r # Page!Idle /\ r.pc = "answered" /\ r.got = stored
  BY <1>3, <1>5 DEF Running, Page!Idle
<1>7. Newest(r) => Newest(handler[h])
  BY <1>1, <1>3 DEF Newest
<1>8. known <= stored.version /\ stored.version <= stored'.version
  BY <1>1, PageNumbers DEF PageInv
<1>9. QED
  BY <1>1, <1>2, <1>3, <1>6, <1>7, <1>8, Untouched, HandlerGoesOn DEF Page!ThreadReads

LEMMA ReadFailsKeeps ==
  ASSUME PageAssumption, PageInv, NEW h \in Handlers, Page!ReadFails(h)
  PROVE  PageInv'
<1>1. handler[h] \in Running /\ handler[h].pc = "read" /\ UNCHANGED <<stored, receipts, view, known>>
  BY HandlerAt DEF Page!ReadFails
<1>2. view \in Page!Views
  BY DEF PageInv, PageType
<1>3. PICK r : r = [of |-> handler[h].of, pc |-> "failed", newest |-> handler[h].newest,
                    reasons |-> Page!Errors \ {"stale"}]
  OBVIOUS
<1>4. handler[h].of \in Kind /\ handler[h].newest \in BOOLEAN
  BY <1>1, RunningFields
<1>5. r \in [of : Kind, pc : {"failed"}, newest : BOOLEAN, reasons : SUBSET Page!Errors]
  BY <1>3, <1>4
<1>6. r \in Running /\ r # Page!Idle /\ r.pc = "failed"
  BY <1>3, <1>5 DEF Running, Page!Idle
<1>7. Newest(r) => Newest(handler[h])
  BY <1>1, <1>3 DEF Newest
<1>8. QED
  BY <1>1, <1>2, <1>3, <1>6, <1>7, Untouched, HandlerGoesOn DEF Page!ReadFails

LEMMA ReadBackKeeps ==
  ASSUME PageAssumption, PageInv, NEW h \in Handlers, Page!ReadBack(h)
  PROVE  PageInv'
<1>1. /\ handler[h] \in Running /\ handler[h].pc = "committed" /\ Stands(handler[h])
      /\ UNCHANGED <<stored, receipts, view>> /\ known' = Page!Newer(handler[h].version)
      /\ Page!StartRead(h, "commit")
  BY HandlerAt DEF Page!ReadBack
<1>2. handler[h].version \in 0 .. PageVersions /\ handler[h].version <= stored.version
  BY <1>1, RunningFields DEF Stands
<1>3. known' \in 0 .. PageVersions /\ known' <= stored'.version
  BY <1>1, <1>2, NewerIs, PageNumbers
<1>4. view' \in Page!Views
  BY <1>1 DEF PageInv, PageType
<1>5. QED
  BY <1>1, <1>3, <1>4, Untouched, ReadBegins DEF Kind

LEMMA IdleIsRunning == Page!Idle \in Running /\ Page!Idle.pc = "idle"
BY DEF Running, Page!Idle

LEMMA NoWait ==
  /\ \A e \in Page!Episode, c \in BOOLEAN : view' = Page!Brief(e, c) => ~Page!Waits'
  /\ \A r : view' = Page!Error(r) => ~Page!Waits'
<1>1. ASSUME NEW e \in Page!Episode, NEW c \in BOOLEAN, view' = Page!Brief(e, c)
      PROVE  ~Page!Waits'
  <2>1. view' # Page!Loading
    BY <1>1 DEF Page!Brief, Page!Loading
  <2>2. view'.primary <=> (e.work \in {"OPEN", "CLAIMED"})
    BY <1>1 DEF Page!Brief
  <2>3. view'.episode = e
    BY <1>1 DEF Page!Brief
  <2>4. QED
    BY <2>1, <2>2, <2>3 DEF Page!Waits
<1>2. ASSUME NEW r, view' = Page!Error(r)
      PROVE  ~Page!Waits'
  BY <1>2 DEF Page!Waits, Page!Error, Page!Loading
<1>3. QED
  BY <1>1, <1>2

LEMMA ShowKeeps ==
  ASSUME PageAssumption, PageInv, NEW h \in Handlers, Page!Show(h)
  PROVE  PageInv'
<1>1. /\ handler[h] \in Running /\ handler[h].pc = "answered" /\ Stands(handler[h])
      /\ UNCHANGED <<stored, receipts>> /\ handler' = [handler EXCEPT ![h] = Page!Idle]
  BY HandlerAt DEF Page!Show, Page!End
<1>2. handler[h].got \in Page!Episode /\ handler[h].got.version \in 0 .. PageVersions
  BY <1>1, RunningFields DEF Page!Episode
<1>3. ~Newest(Page!Idle)
  BY IdleIsRunning DEF Newest
<1>4. CASE /\ Page!IsNewest(h) /\ \E checks \in BOOLEAN : view' = Page!Brief(handler[h].got, checks)
           /\ known' = Page!Newer(handler[h].got.version)
  <2>1. view' \in Page!Views /\ ~Page!Waits'
    BY <1>2, <1>4, OtherViews, NoWait
  <2>2. known' \in 0 .. PageVersions /\ known' <= stored'.version
    BY <1>1, <1>2, <1>4, NewerIs, PageNumbers DEF Stands
  <2>3. Newest(handler[h])
    BY <1>1, <1>4 DEF Page!IsNewest, Newest
  <2>4. QED
    BY <1>1, <1>3, <2>1, <2>2, <2>3, IdleIsRunning, Untouched, HandlerGoesOn
<1>5. CASE view' = Page!Error("stale") /\ UNCHANGED known
  <2>1. view' \in Page!Views /\ ~Page!Waits'
    BY <1>5, OtherViews, NoWait DEF Page!Errors
  <2>2. QED
    BY <1>1, <1>3, <1>5, <2>1, IdleIsRunning, Untouched, HandlerGoesOn
<1>6. QED
  BY <1>4, <1>5 DEF Page!Show

LEMMA FailKeeps ==
  ASSUME PageAssumption, PageInv, NEW h \in Handlers, Page!Fail(h)
  PROVE  PageInv'
<1>1. handler[h] \in Running /\ handler[h].pc = "failed" /\ UNCHANGED <<stored, receipts, known>>
  BY HandlerAt DEF Page!Fail
<1>2. PICK reason \in handler[h].reasons :
        IF handler[h].of = "check" /\ reason \in {"conflict", "incoherent"} THEN Page!Load(h)
        ELSE view' = Page!Failed(h, reason) /\ Page!End(h)
  BY DEF Page!Fail
<1>3. CASE Page!Load(h)
  BY <1>1, <1>3, LoadKeeps
<1>4. CASE view' = Page!Failed(h, reason) /\ Page!End(h)
  <2>1. reason \in Page!Errors
    BY <1>1, <1>2, RunningFields
  <2>2. view' = Page!Error(reason)
    BY <1>4 DEF Page!Failed
  <2>3. view' \in Page!Views /\ ~Page!Waits'
    BY <2>1, <2>2, OtherViews, NoWait
  <2>4. ~Newest(Page!Idle)
    BY IdleIsRunning DEF Newest
  <2>5. QED
    BY <1>1, <1>4, <2>3, <2>4, IdleIsRunning, Untouched, HandlerGoesOn DEF Page!End
<1>5. QED
  BY <1>2, <1>3, <1>4

LEMMA PageKeep ==
  ASSUME PageAssumption, PageInv, Page!Next \/ UNCHANGED pageVars
  PROVE  PageInv'
<1>1. CASE UNCHANGED pageVars
  BY <1>1 DEF pageVars, PageInv, PageType, Stands, Newest, Page!WaitsForSomebody, Page!Waits
<1>2. ASSUME NEW h \in Handlers, Page!ClickRetry(h)
      PROVE  PageInv'
  BY <1>2, LoadKeeps DEF Page!ClickRetry
<1>3. QED
  BY <1>1, <1>2, OthersWorkKeeps, ClickPrimaryKeeps, ClickCheckKeeps, ThreadExecutesKeeps,
     ThreadReadsKeeps, ReadFailsKeeps, ReadBackKeeps, ShowKeeps, FailKeeps DEF Page!Next

\* Only an answer that is the newest renders anything, and it is not behind.
LEMMA PageNeverBack ==
  ASSUME PageAssumption, PageInv, Page!Next \/ UNCHANGED pageVars
  PROVE  [Page!Rendered => view'.episode.version >= known]_(Page!vars)
<1>1. SUFFICES ASSUME Page!Next, Page!Rendered
               PROVE  view'.episode.version >= known
  BY DEF pageVars, Page!vars
<1>2. view'.kind = "brief" /\ (view.kind = "brief" => view'.episode # view.episode)
  BY <1>1 DEF Page!Rendered
<1>3. \A r : Page!Error(r).kind # "brief"
  BY DEF Page!Error
<1>4. Page!Loading.kind # "brief"
  BY DEF Page!Loading
<1>5. view' # view
  BY <1>2
<1>6. ASSUME NEW h \in Handlers, Page!Show(h)
      PROVE  view'.episode.version >= known
  <2>1. /\ handler[h] \in Running /\ handler[h].pc = "answered" /\ Stands(handler[h])
    BY <1>6, HandlerAt DEF Page!Show
  <2>2. Page!IsNewest(h) /\ \E checks \in BOOLEAN : view' = Page!Brief(handler[h].got, checks)
    BY <1>2, <1>3, <1>6 DEF Page!Show
  <2>3. view'.episode = handler[h].got
    BY <2>2 DEF Page!Brief
  <2>4. known <= handler[h].got.version /\ handler[h].got.version \in Int /\ known \in Int
    BY <2>1, <2>2, RunningFields, PageNumbers DEF Stands, Page!IsNewest
  <2>5. QED
    BY <2>3, <2>4
<1>7. ASSUME NEW h \in Handlers, Page!ClickPrimary(h) \/ Page!ClickCheck(h)
      PROVE  FALSE
  <2>1. view \in Page!Views /\ view.kind = "brief"
    BY <1>7 DEF Page!ClickPrimary, Page!ClickCheck, PageInv, PageType
  <2>2. PICK e \in Page!Episode, p \in BOOLEAN, c \in BOOLEAN :
          view = [kind |-> "brief", episode |-> e, primary |-> p, checks |-> c]
    BY <2>1, BriefView
  <2>3. \/ view' = [view EXCEPT !.primary = FALSE]
        \/ view' = [view EXCEPT !.primary = FALSE, !.checks = FALSE]
        \/ view' = Page!Loading \/ \E r \in Page!Errors : view' = Page!Error(r)
    BY <1>7 DEF Page!ClickPrimary, Page!ClickCheck, Page!RequestCheck, Page!Load
  <2>4. view'.episode = view.episode
    BY <1>2, <1>3, <1>4, <2>2, <2>3
  <2>5. QED
    BY <1>2, <2>1, <2>4
<1>8. ASSUME NEW h \in Handlers, Page!Fail(h) \/ Page!ClickRetry(h)
      PROVE  FALSE
  BY <1>2, <1>3, <1>4, <1>8 DEF Page!Fail, Page!ClickRetry, Page!Load, Page!Failed
<1>9. ASSUME NEW h \in Handlers, Page!ThreadExecutes(h) \/ Page!ThreadReads(h) \/ Page!ReadFails(h) \/ Page!ReadBack(h)
      PROVE  FALSE
  BY <1>5, <1>9 DEF Page!ThreadExecutes, Page!ThreadReads, Page!ReadFails, Page!ReadBack
<1>10. CASE Page!OthersWork
  BY <1>5, <1>10 DEF Page!OthersWork
<1>11. QED
  BY <1>1, <1>6, <1>7, <1>8, <1>9, <1>10 DEF Page!Next

-----------------------------------------------------------------------------
(***************************************************************************)
(* AssetHistory: a transaction in progress has a row that may be added,    *)
(* rows have keys, and no revision is ahead of its Episode's commands.     *)
(* As long as no row that was stamped by the cutoff has come later, what   *)
(* was read and answered by the cutoff is what the tables have by it.      *)
(***************************************************************************)
RevisionRow == [id : Nat, episode : Assets!Episodes, asset : STRING, target : STRING,
                at : Assets!Instants, version : Nat]
ReceiptRow == [episode : Assets!Episodes, version : Nat, at : Nat]
SnapshotRow == [of : Snapshots, at : Assets!Instants]

\* A revision is no newer than a command that there was.
Backed(r) ==
  r.version = 0 \/ \E x \in committed : x.episode = r.episode /\ r.version <= x.version

RevisionFits(r) ==
  r \in RevisionRow /\ r.at <= clock /\ r.version <= AssetVersions[r.episode] /\ Backed(r)
ReceiptFits(r) ==
  r \in ReceiptRow /\ r.at <= AssetClock + Assets!Max(Skews) /\ r.version \in 1 .. AssetVersions[r.episode]
SnapshotFits(x) == x \in SnapshotRow /\ x.at <= clock

TablesStand ==
  /\ clock \in Assets!Instants
  /\ IsFiniteSet(revisions) /\ IsFiniteSet(committed) /\ IsFiniteSet(snapshots)
  /\ \A r \in revisions : RevisionFits(r)
  /\ \A r \in committed : ReceiptFits(r)
  /\ \A x \in snapshots : SnapshotFits(x)
  /\ \A r, s \in revisions : r.id = s.id => r = s
  /\ \A x, y \in snapshots : x.of = y.of => x = y

MayCome(table, row) ==
  \/ /\ table = "read_revision" /\ RevisionFits(row)
     /\ \A r \in revisions : r.id # row.id
  \/ table = "command_receipt" /\ ReceiptFits(row)
  \/ /\ table = "source_snapshot" /\ SnapshotFits(row)
     /\ \A x \in snapshots : x.of # row.of
FlightStands == \A table, row : flight # None /\ flight = [table |-> table, row |-> row] => MayCome(table, row)
FlightIs == flight # None => \E table, row : flight = [table |-> table, row |-> row]

\* What the tables have by the cutoff of a question.
HistoryOf(v) == Assets!History(v.question.asset, v.cutoff)
HasSnapshot(v) ==
  /\ v.snapshot \in Snapshots \cup {None}
  /\ v.settled /\ v.snapshot # None =>
       Assets!Eligible(v.cutoff) # {} /\ v.snapshot = Assets!SnapshotAsOf(v.cutoff)
HasTimeline(v) == v.settled => v.timeline = Assets!Timeline(HistoryOf(v), v.cutoff)

Asks(v) ==
  /\ {"pc", "question", "cutoff", "settled", "target"} \subseteq DOMAIN v
  /\ v.question \in Questions /\ v.cutoff = v.question.cutoff /\ v.settled \in BOOLEAN
  /\ v.pc \in {"source", "workflow", "measure"}
  /\ v.pc \in {"source", "workflow"} => "rows" \in DOMAIN v /\ (v.settled => v.rows = HistoryOf(v))
  /\ v.pc \in {"workflow", "measure"} => "snapshot" \in DOMAIN v /\ HasSnapshot(v)
  /\ v.pc = "measure" => "timeline" \in DOMAIN v /\ HasTimeline(v)

\* The head of an Episode among what is listed, and how far its commands are.
Heads(f) ==
  /\ f.head \in revisions /\ f.version \in Nat
  /\ \A s \in revisions : s.episode = f.head.episode => s = f.head \/ Assets!Later(f.head, s)
  /\ f.head.version <= f.version
  /\ \A x \in committed :
       x.episode = f.head.episode /\ x.at <= AssetClock + 1 => x.version <= f.version
Lists(v) ==
  /\ {"pc", "cutoff", "settled", "rows"} \subseteq DOMAIN v
  /\ v.pc = "list" /\ v.cutoff = AssetClock + 1 /\ v.settled \in BOOLEAN
  /\ v.settled => \A f \in v.rows : Heads(f)

InquiryStands == \A v : v = inquiry /\ v # None => Asks(v) \/ Lists(v)

Tells(v) ==
  /\ {"kind", "question", "cutoff", "settled", "timeline", "target", "snapshot", "primary", "peer"}
       \subseteq DOMAIN v
  /\ v.kind = "asset" /\ v.question \in Questions /\ v.cutoff = v.question.cutoff
  /\ v.settled \in BOOLEAN /\ HasSnapshot(v) /\ HasTimeline(v)
  /\ \A p \in v.primary.points \cup v.peer.points :
       /\ v.snapshot # None /\ p.snapshot = v.snapshot.id
       /\ p.event <= v.cutoff /\ p.available <= v.cutoff
  /\ v.peer.state # "UNAVAILABLE" =>
       /\ Assets!Proves(v.primary) /\ Assets!Proves(v.peer)
       /\ v.snapshot.limit # None /\ v.cutoff - v.snapshot.available <= v.snapshot.limit

\* A row of a list is of the latest revision by its instant.
RowStands(row, cutoff) ==
  \E r \in revisions :
    /\ r.asset = row.asset /\ r.id = row.id /\ r.at <= cutoff
    /\ \A s \in revisions : s.episode = r.episode /\ s.at <= cutoff => s = r \/ Assets!Later(r, s)
    /\ row.version \in Nat /\ r.version <= row.version
    /\ \A x \in committed : x.episode = r.episode /\ x.at <= cutoff => x.version <= row.version
TellsList(v) ==
  /\ {"kind", "cutoff", "settled", "rows", "source"} \subseteq DOMAIN v
  /\ v.kind = "list" /\ v.cutoff \in Assets!Instants /\ v.settled \in BOOLEAN
  /\ v.settled => \A row \in v.rows : RowStands(row, v.cutoff)

OutcomeStands == \A v : v = outcome /\ v # None => Tells(v) \/ TellsList(v)

AssetInv == TablesStand /\ FlightIs /\ FlightStands /\ InquiryStands /\ OutcomeStands

-----------------------------------------------------------------------------
LEMMA AssetsInitially == ASSUME AssetsAssumption, Assets!Init PROVE AssetInv
BY FS_EmptySet
   DEF Assets!Init, AssetsAssumption, AssetInv, TablesStand, FlightIs, FlightStands, InquiryStands, OutcomeStands,
       Assets!Instants

\* The order of revisions and that of snapshots are orders, since both have keys.
LEMMA LaterOrders ==
  ASSUME AssetsAssumption, TablesStand, NEW rows, rows \subseteq revisions, rows # {}
  PROVE  /\ \A r, s \in rows : ~(Assets!Later(r, s) /\ Assets!Later(s, r))
         /\ \E r \in rows : \A s \in rows : s = r \/ Assets!Later(r, s)
<1>1. PICK R : R = {p \in rows \X rows : Assets!Later(p[1], p[2])}
  OBVIOUS
<1>2. \A r, s \in rows : <<r, s>> \in R <=> Assets!Later(r, s)
  BY <1>1
<1>3. /\ \A r \in rows : r.at \in Int /\ r.id \in Int /\ r.episode \in Int
      /\ \A r, s \in rows : r.id = s.id => r = s
  <2>1. \A d \in AssetDrafts : d.episode \in Int
    BY DEF AssetsAssumption, Assets!Draft
  <2>2. Assets!Episodes \subseteq Int
    BY <2>1 DEF Assets!Episodes
  <2>3. \A r \in revisions : r \in RevisionRow
    BY DEF TablesStand, RevisionFits
  <2>4. \A r \in revisions : r.at \in Int /\ r.id \in Int /\ r.episode \in Int
    <3>1. \A r \in RevisionRow : r.at \in Assets!Instants /\ r.id \in Int /\ r.episode \in Assets!Episodes
      BY DEF RevisionRow
    <3>2. Assets!Instants \subseteq Int
      BY DEF Assets!Instants
    <3> QED BY <2>2, <2>3, <3>1, <3>2
  <2>5. \A r, s \in revisions : r.id = s.id => r = s
    BY DEF TablesStand
  <2> QED BY <2>4, <2>5
<1>4. \A r \in rows : ~Assets!Later(r, r)
  BY <1>3 DEF Assets!Later
<1>5. ASSUME NEW x \in rows, NEW y \in rows, NEW z \in rows
      PROVE  /\ (Assets!Later(x, y) /\ Assets!Later(y, z)) => Assets!Later(x, z)
             /\ x = y \/ Assets!Later(x, y) \/ Assets!Later(y, x)
  BY <1>3 DEF Assets!Later
<1>6. IsFiniteSet(rows)
  BY FS_Subset DEF TablesStand
<1>7. \E r \in rows : \A s \in rows : s = r \/ <<r, s>> \in R
  <2>1. \A x \in rows : <<x, x>> \notin R
    BY <1>2, <1>4
  <2>2. \A x, y, z \in rows : (<<x, y>> \in R /\ <<y, z>> \in R) => <<x, z>> \in R
    BY <1>2, <1>5
  <2>3. \A x, y \in rows : x = y \/ <<x, y>> \in R \/ <<y, x>> \in R
    BY <1>2, <1>5
  <2> QED BY <1>6, <2>1, <2>2, <2>3, HasFirst, Zenon
<1> QED BY <1>2, <1>4, <1>5, <1>7

\* A row that is later than all others is the latest.
LEMMA LatestIs ==
  ASSUME AssetsAssumption, TablesStand, NEW rows, rows \subseteq revisions, rows # {}
  PROVE  /\ Assets!Latest(rows) \in rows
         /\ \A s \in rows : s = Assets!Latest(rows) \/ Assets!Later(Assets!Latest(rows), s)
         /\ \A r \in rows : (\A s \in rows : s = r \/ Assets!Later(r, s)) => r = Assets!Latest(rows)
<1>1. \A r, s \in rows : ~(Assets!Later(r, s) /\ Assets!Later(s, r))
  BY LaterOrders
<1>2. \E r \in rows : \A s \in rows : s = r \/ Assets!Later(r, s)
  BY LaterOrders
<1>3. /\ Assets!Latest(rows) \in rows
      /\ \A s \in rows : s = Assets!Latest(rows) \/ Assets!Later(Assets!Latest(rows), s)
  BY <1>2, Zenon DEF Assets!Latest
<1> QED BY <1>1, <1>3, Zenon

\* ... and likewise of snapshots.
LEMMA NewestIs ==
  ASSUME AssetsAssumption, TablesStand, NEW cutoff, Assets!Eligible(cutoff) # {}
  PROVE  \E x \in Assets!Eligible(cutoff) :
           /\ Assets!SnapshotAsOf(cutoff) = x.of
           /\ \A y \in Assets!Eligible(cutoff) : (y = x \/ Assets!NewerSnapshot(x, y))
                                                  /\ ~Assets!NewerSnapshot(y, x)
<1> PICK E : E = Assets!Eligible(cutoff)
  OBVIOUS
<1>1. PICK R : R = {p \in E \X E : Assets!NewerSnapshot(p[1], p[2])}
  OBVIOUS
<1>2. \A r, s \in E : <<r, s>> \in R <=> Assets!NewerSnapshot(r, s)
  BY <1>1
<1>3. /\ E \subseteq snapshots
      /\ \A x \in E : x.at \in Int /\ x.of.id \in Int /\ x.of.available \in Int
      /\ \A x, y \in E : x.of.id = y.of.id => x = y
  <2>1. E \subseteq snapshots
    BY DEF Assets!Eligible
  <2>2. \A s \in Snapshots : s.id \in Int /\ s.available \in Int
    BY DEF AssetsAssumption, Assets!Snapshot, Assets!Instants
  <2>3. \A x \in snapshots : x.of \in Snapshots /\ x.at \in Int
    BY DEF TablesStand, SnapshotFits, SnapshotRow, Assets!Instants
  <2>4. \A x, y \in snapshots : x.of.id = y.of.id => x = y
    BY <2>3 DEF AssetsAssumption, TablesStand
  <2> QED BY <2>1, <2>2, <2>3, <2>4
<1>4. \A r \in E : ~Assets!NewerSnapshot(r, r)
  BY <1>3 DEF Assets!NewerSnapshot
<1>5. ASSUME NEW x \in E, NEW y \in E, NEW z \in E
      PROVE  /\ (Assets!NewerSnapshot(x, y) /\ Assets!NewerSnapshot(y, z)) => Assets!NewerSnapshot(x, z)
             /\ x = y \/ Assets!NewerSnapshot(x, y) \/ Assets!NewerSnapshot(y, x)
  BY <1>3 DEF Assets!NewerSnapshot
<1>6. IsFiniteSet(E)
  BY <1>3, FS_Subset DEF TablesStand
<1>7. \E r \in E : \A s \in E : s = r \/ <<r, s>> \in R
  <2>1. \A x \in E : <<x, x>> \notin R
    BY <1>2, <1>4
  <2>2. \A x, y, z \in E : (<<x, y>> \in R /\ <<y, z>> \in R) => <<x, z>> \in R
    BY <1>2, <1>5
  <2>3. \A x, y \in E : x = y \/ <<x, y>> \in R \/ <<y, x>> \in R
    BY <1>2, <1>5
  <2>4. E # {}
    OBVIOUS
  <2> QED BY <1>6, <2>1, <2>2, <2>3, <2>4, HasFirst
<1>8. PICK x : x = CHOOSE z \in E : \A y \in E : y = z \/ Assets!NewerSnapshot(z, y)
  OBVIOUS
<1>9. x \in E /\ \A y \in E : y = x \/ Assets!NewerSnapshot(x, y)
  <2>1. \E r \in E : \A s \in E : s = r \/ Assets!NewerSnapshot(r, s)
    BY <1>2, <1>7
  <2> QED BY <1>8, <2>1, Zenon
<1>10. Assets!SnapshotAsOf(cutoff) = x.of
  BY <1>8 DEF Assets!SnapshotAsOf
<1>11. \A y \in E : ~Assets!NewerSnapshot(y, x)
  BY <1>4, <1>5, <1>9
<1> QED BY <1>9, <1>10, <1>11, Zenon

-----------------------------------------------------------------------------
\* No row that is stamped by an instant comes.
SameBy(cutoff) ==
  /\ {r \in revisions' : r.at <= cutoff} = {r \in revisions : r.at <= cutoff}
  /\ {r \in committed' : r.at <= cutoff} = {r \in committed : r.at <= cutoff}
  /\ {x \in snapshots' : x.at <= cutoff} = {x \in snapshots : x.at <= cutoff}

\* Then what is read by that instant is what was read.
LEMMA AsOf ==
  ASSUME NEW cutoff, SameBy(cutoff)
  PROVE  /\ \A a : Assets!History(a, cutoff)' = Assets!History(a, cutoff)
         /\ Assets!Eligible(cutoff)' = Assets!Eligible(cutoff)
         /\ Assets!SnapshotAsOf(cutoff)' = Assets!SnapshotAsOf(cutoff)
         /\ \A rows : Assets!Timeline(rows, cutoff)' = Assets!Timeline(rows, cutoff)
<1>1. /\ \A r : (r \in revisions' /\ r.at <= cutoff) <=> (r \in revisions /\ r.at <= cutoff)
      /\ \A r : (r \in committed' /\ r.at <= cutoff) <=> (r \in committed /\ r.at <= cutoff)
      /\ \A x : (x \in snapshots' /\ x.at <= cutoff) <=> (x \in snapshots /\ x.at <= cutoff)
  BY DEF SameBy
<1>2. \A a : Assets!History(a, cutoff)' = Assets!History(a, cutoff)
  BY <1>1 DEF Assets!History
<1>3. Assets!Eligible(cutoff)' = Assets!Eligible(cutoff)
  BY <1>1 DEF Assets!Eligible
<1>4. Assets!SnapshotAsOf(cutoff)' = Assets!SnapshotAsOf(cutoff)
  <2>1. PICK E : E = Assets!Eligible(cutoff)
    OBVIOUS
  <2>2. Assets!Eligible(cutoff)' = E
    BY <1>3, <2>1
  <2>3. PICK newest : newest = (CHOOSE x \in E : \A y \in E : y = x \/ Assets!NewerSnapshot(x, y)).of
    OBVIOUS
  <2>4. Assets!SnapshotAsOf(cutoff) = IF E = {} THEN None ELSE newest
    BY <2>1, <2>3 DEF Assets!SnapshotAsOf
  <2>5. Assets!SnapshotAsOf(cutoff)' = IF E = {} THEN None ELSE newest
    BY <2>2, <2>3 DEF Assets!SnapshotAsOf
  <2> QED BY <2>4, <2>5
<1>5. \A e : Assets!VersionsBy(e, cutoff)' = Assets!VersionsBy(e, cutoff)
  <2>1. ASSUME NEW e
        PROVE  {x \in committed' : x.episode = e /\ x.at <= cutoff} = {x \in committed : x.episode = e /\ x.at <= cutoff}
    BY <1>1
  <2> QED BY <2>1, Zenon DEF Assets!VersionsBy
<1>6. \A e, version : Assets!ActionsBy(e, version, cutoff)' = Assets!ActionsBy(e, version, cutoff)
  BY <1>1 DEF Assets!ActionsBy, Assets!ActionsOf
<1>7. \A rows : Assets!Timeline(rows, cutoff)' = Assets!Timeline(rows, cutoff)
  BY <1>5, <1>6 DEF Assets!Timeline
<1> QED BY <1>2, <1>3, <1>4, <1>7

\* What a reader has stands for the same, or for less of it: it may no longer be
\* settled.
NoMore(v, w) ==
  /\ DOMAIN w = DOMAIN v /\ \A x \in DOMAIN v \ {"settled"} : w[x] = v[x]
  /\ w.settled \in BOOLEAN
  /\ w.settled => v.settled /\ SameBy(v.cutoff)

LEMMA SnapshotStands ==
  ASSUME NEW v, NEW w, HasSnapshot(v), NoMore(v, w), {"snapshot", "cutoff"} \subseteq DOMAIN v
  PROVE  HasSnapshot(w)'
<1>1. w.snapshot = v.snapshot /\ w.cutoff = v.cutoff
  BY DEF NoMore
<1>2. CASE w.settled
  <2>1. v.settled /\ SameBy(v.cutoff)
    BY <1>2 DEF NoMore
  <2>2. /\ Assets!Eligible(v.cutoff)' = Assets!Eligible(v.cutoff)
        /\ Assets!SnapshotAsOf(v.cutoff)' = Assets!SnapshotAsOf(v.cutoff)
    BY <2>1, AsOf
  <2> QED BY <1>1, <2>1, <2>2 DEF HasSnapshot
<1>3. CASE ~w.settled
  BY <1>1, <1>3 DEF HasSnapshot
<1> QED BY <1>2, <1>3

LEMMA TimelineStands ==
  ASSUME NEW v, NEW w, HasTimeline(v), NoMore(v, w), {"question", "timeline", "cutoff"} \subseteq DOMAIN v
  PROVE  HasTimeline(w)'
<1>1. w.question = v.question /\ w.timeline = v.timeline /\ w.cutoff = v.cutoff
  BY DEF NoMore
<1>2. CASE w.settled
  <2>1. v.settled /\ SameBy(v.cutoff)
    BY <1>2 DEF NoMore
  <2>2. PICK h : h = HistoryOf(v)
    OBVIOUS
  <2>3. HistoryOf(w)' = h
    BY <1>1, <2>1, <2>2, AsOf DEF HistoryOf
  <2>4. Assets!Timeline(h, v.cutoff)' = Assets!Timeline(h, v.cutoff)
    BY <2>1, AsOf
  <2>5. v.timeline = Assets!Timeline(h, v.cutoff)
    BY <2>1, <2>2 DEF HasTimeline
  <2> QED BY <1>1, <2>3, <2>4, <2>5 DEF HasTimeline
<1>3. CASE ~w.settled
  BY <1>3 DEF HasTimeline
<1> QED BY <1>2, <1>3


LEMMA AsksStand ==
  ASSUME NEW v, NEW w, Asks(v), NoMore(v, w)
  PROVE  Asks(w)'
<1>1. /\ {"pc", "question", "cutoff", "settled", "target"} \subseteq DOMAIN v
      /\ v.question \in Questions /\ v.cutoff = v.question.cutoff
      /\ v.pc \in {"source", "workflow", "measure"}
  BY DEF Asks
<1>2. /\ DOMAIN w = DOMAIN v /\ w.pc = v.pc /\ w.question = v.question /\ w.cutoff = v.cutoff
      /\ w.settled \in BOOLEAN
  BY <1>1 DEF NoMore
<1>3. ASSUME w.pc \in {"source", "workflow"}
      PROVE  "rows" \in DOMAIN w /\ (w.settled => w.rows = HistoryOf(w)')
  <2>1. "rows" \in DOMAIN v /\ w.rows = v.rows
    BY <1>2, <1>3 DEF Asks, NoMore
  <2>2. ASSUME w.settled PROVE w.rows = HistoryOf(w)'
    <3>1. v.settled /\ SameBy(v.cutoff)
      BY <2>2 DEF NoMore
    <3>2. v.rows = Assets!History(v.question.asset, v.cutoff)
      BY <1>2, <1>3, <3>1 DEF Asks, HistoryOf
    <3>3. Assets!History(v.question.asset, v.cutoff)' = Assets!History(v.question.asset, v.cutoff)
      BY <3>1, AsOf
    <3> QED BY <1>2, <2>1, <3>2, <3>3 DEF HistoryOf
  <2> QED BY <1>2, <2>1, <2>2
<1>4. ASSUME w.pc \in {"workflow", "measure"} PROVE "snapshot" \in DOMAIN w /\ HasSnapshot(w)'
  <2>1. "snapshot" \in DOMAIN v /\ HasSnapshot(v)
    BY <1>2, <1>4 DEF Asks
  <2> QED BY <1>1, <1>2, <2>1, SnapshotStands
<1>5. ASSUME w.pc = "measure" PROVE "timeline" \in DOMAIN w /\ HasTimeline(w)'
  <2>1. "timeline" \in DOMAIN v /\ HasTimeline(v)
    BY <1>2, <1>5 DEF Asks
  <2> QED BY <1>1, <1>2, <2>1, TimelineStands
<1> QED BY <1>1, <1>2, <1>3, <1>4, <1>5 DEF Asks

\* Whoever lists is settled as long as no revision comes at all.
LEMMA ListsStand ==
  ASSUME AssetsAssumption, TablesStand, TablesStand', NEW v, NEW w, Lists(v), NoMore(v, w)
  PROVE  Lists(w)'
<1>1. /\ {"pc", "cutoff", "settled", "rows"} \subseteq DOMAIN v
      /\ v.pc = "list" /\ v.cutoff = AssetClock + 1
  BY DEF Lists
<1>2. /\ DOMAIN w = DOMAIN v /\ w.pc = v.pc /\ w.cutoff = v.cutoff /\ w.rows = v.rows
      /\ w.settled \in BOOLEAN
  BY <1>1 DEF NoMore
<1>3. ASSUME w.settled, NEW f \in w.rows PROVE Heads(f)'
  <2>1. v.settled /\ SameBy(v.cutoff)
    BY <1>3 DEF NoMore
  <2>2. Heads(f)
    BY <1>2, <1>3, <2>1 DEF Lists
  <2>3. \A x : (x \in committed' /\ x.at <= AssetClock + 1) <=> (x \in committed /\ x.at <= AssetClock + 1)
    BY <1>1, <2>1 DEF SameBy
  <2>4. \A r : (r \in revisions' /\ r.at <= AssetClock + 1) <=> (r \in revisions /\ r.at <= AssetClock + 1)
    BY <1>1, <2>1 DEF SameBy
  <2>5. \A r \in revisions : r.at <= AssetClock + 1
    BY DEF TablesStand, RevisionFits, RevisionRow, Assets!Instants, AssetsAssumption
  <2>6. \A r \in revisions' : r.at <= AssetClock + 1
    BY DEF TablesStand, RevisionFits, RevisionRow, Assets!Instants, AssetsAssumption
  <2>7. revisions' = revisions
    BY <2>4, <2>5, <2>6
  <2> QED BY <2>2, <2>3, <2>7 DEF Heads
<1> QED BY <1>1, <1>2, <1>3 DEF Lists

LEMMA TellsStand ==
  ASSUME NEW v, NEW w, Tells(v), NoMore(v, w)
  PROVE  Tells(w)'
<1>1. /\ {"kind", "question", "cutoff", "settled", "timeline", "target", "snapshot", "primary", "peer"}
           \subseteq DOMAIN v
      /\ HasSnapshot(v) /\ HasTimeline(v)
  BY DEF Tells
<1>2. /\ DOMAIN w = DOMAIN v /\ w.kind = v.kind /\ w.question = v.question /\ w.cutoff = v.cutoff
      /\ w.snapshot = v.snapshot /\ w.primary = v.primary /\ w.peer = v.peer
      /\ w.settled \in BOOLEAN
  BY <1>1 DEF NoMore
<1>3. HasSnapshot(w)' /\ HasTimeline(w)'
  BY <1>1, SnapshotStands, TimelineStands
<1> QED BY <1>2, <1>3 DEF Tells, Assets!Proves

LEMMA TellsListStand ==
  ASSUME NEW v, NEW w, TellsList(v), NoMore(v, w)
  PROVE  TellsList(w)'
<1>1. {"kind", "cutoff", "settled", "rows", "source"} \subseteq DOMAIN v
  BY DEF TellsList
<1>2. /\ DOMAIN w = DOMAIN v /\ w.kind = v.kind /\ w.cutoff = v.cutoff /\ w.rows = v.rows
      /\ w.settled \in BOOLEAN
  BY <1>1 DEF NoMore
<1>3. ASSUME w.settled, NEW row \in w.rows PROVE RowStands(row, w.cutoff)'
  <2>1. v.settled /\ SameBy(v.cutoff)
    BY <1>3 DEF NoMore
  <2>2. RowStands(row, v.cutoff)
    BY <1>2, <1>3, <2>1 DEF TellsList
  <2>3. PICK r \in revisions :
          /\ r.asset = row.asset /\ r.id = row.id /\ r.at <= v.cutoff
          /\ \A s \in revisions : s.episode = r.episode /\ s.at <= v.cutoff => s = r \/ Assets!Later(r, s)
          /\ row.version \in Nat /\ r.version <= row.version
          /\ \A x \in committed : x.episode = r.episode /\ x.at <= v.cutoff => x.version <= row.version
    BY <2>2 DEF RowStands
  <2>4. /\ \A x : (x \in committed' /\ x.at <= v.cutoff) <=> (x \in committed /\ x.at <= v.cutoff)
        /\ \A s : (s \in revisions' /\ s.at <= v.cutoff) <=> (s \in revisions /\ s.at <= v.cutoff)
    BY <2>1 DEF SameBy
  <2>5. r \in revisions'
    BY <2>3, <2>4
  <2>6. \A s \in revisions' : s.episode = r.episode /\ s.at <= v.cutoff => s = r \/ Assets!Later(r, s)
    BY <2>3, <2>4
  <2>7. \A x \in committed' : x.episode = r.episode /\ x.at <= v.cutoff => x.version <= row.version
    BY <2>3, <2>4
  <2> QED BY <1>2, <2>3, <2>5, <2>6, <2>7 DEF RowStands
<1> QED BY <1>2, <1>3 DEF TellsList

\* Nobody reads while others write.
LEMMA ReadersStand ==
  ASSUME AssetsAssumption, AssetInv, TablesStand',
         \A v : v = inquiry /\ v # None => \E w : w = inquiry' /\ NoMore(v, w),
         \A v : v = outcome /\ v # None => \E w : w = outcome' /\ NoMore(v, w),
         inquiry = None => inquiry' = None, outcome = None => outcome' = None
  PROVE  InquiryStands' /\ OutcomeStands'
<1>1. ASSUME NEW w, w = inquiry', w # None PROVE Asks(w)' \/ Lists(w)'
  <2>1. PICK v : v = inquiry
    OBVIOUS
  <2>2. v # None
    BY <1>1, <2>1
  <2>3. NoMore(v, w)
    BY <1>1, <2>1, <2>2
  <2>4. Asks(v) \/ Lists(v)
    BY <2>1, <2>2 DEF AssetInv, InquiryStands
  <2> QED BY <2>3, <2>4, AsksStand, ListsStand DEF AssetInv
<1>2. ASSUME NEW w, w = outcome', w # None PROVE Tells(w)' \/ TellsList(w)'
  <2>1. PICK v : v = outcome
    OBVIOUS
  <2>2. v # None
    BY <1>2, <2>1
  <2>3. NoMore(v, w)
    BY <1>2, <2>1, <2>2
  <2>4. Tells(v) \/ TellsList(v)
    BY <2>1, <2>2 DEF AssetInv, OutcomeStands
  <2> QED BY <2>3, <2>4, TellsStand, TellsListStand
<1> QED BY <1>1, <1>2 DEF InquiryStands, OutcomeStands

LEMMA SameIsNoMore ==
  ASSUME NEW v, v.settled \in BOOLEAN, UNCHANGED <<revisions, committed, snapshots>>
  PROVE  NoMore(v, v)
BY DEF NoMore, SameBy

LEMMA ReadersUntouched ==
  ASSUME AssetsAssumption, AssetInv, TablesStand',
         UNCHANGED <<revisions, committed, snapshots, inquiry, outcome>>
  PROVE  InquiryStands' /\ OutcomeStands'
<1>1. ASSUME NEW v, v = inquiry, v # None PROVE v.settled \in BOOLEAN
  BY <1>1 DEF AssetInv, InquiryStands, Asks, Lists
<1>2. ASSUME NEW v, v = outcome, v # None PROVE v.settled \in BOOLEAN
  BY <1>2 DEF AssetInv, OutcomeStands, Tells, TellsList
<1>3. \A v : v = inquiry /\ v # None => \E w : w = inquiry' /\ NoMore(v, w)
  BY <1>1, SameIsNoMore
<1>4. \A v : v = outcome /\ v # None => \E w : w = outcome' /\ NoMore(v, w)
  BY <1>2, SameIsNoMore
<1> QED BY <1>3, <1>4, ReadersStand

LEMMA DisturbedIs ==
  ASSUME NEW v, {"settled", "cutoff"} \subseteq DOMAIN v, v # None, v.settled \in BOOLEAN, NEW at,
         ~(at <= v.cutoff) => SameBy(v.cutoff)
  PROVE  NoMore(v, Assets!Disturbed(v, at))
<1>1. PICK n : n = FALSE
  OBVIOUS
<1>2. CASE at <= v.cutoff
  <2>1. Assets!Disturbed(v, at) = [v EXCEPT !.settled = n]
    BY <1>1, <1>2, Zenon DEF Assets!Disturbed
  <2>2. n \in BOOLEAN /\ ~n
    BY <1>1
  <2> QED BY <2>1, <2>2 DEF NoMore
<1>3. CASE ~(at <= v.cutoff)
  <2>1. Assets!Disturbed(v, at) = v
    BY <1>3, Zenon DEF Assets!Disturbed
  <2> QED BY <1>3, <2>1 DEF NoMore
<1> QED BY <1>2, <1>3


-----------------------------------------------------------------------------
\* The writers.

\* Who writes nothing else leaves what stands.
LEMMA TablesUntouched ==
  ASSUME TablesStand, UNCHANGED <<revisions, committed, snapshots>>, clock' \in Assets!Instants,
         clock' >= clock
  PROVE  TablesStand'
<1>1. clock \in Int /\ clock' \in Int
  BY DEF TablesStand, Assets!Instants
<1>2. ASSUME NEW r \in revisions PROVE RevisionFits(r)'
  <2>1. RevisionFits(r)
    BY DEF TablesStand
  <2>2. r.at \in Int
    BY <2>1 DEF RevisionFits, RevisionRow, Assets!Instants
  <2> QED BY <1>1, <2>1, <2>2 DEF RevisionFits, Backed
<1>3. ASSUME NEW x \in snapshots PROVE SnapshotFits(x)'
  <2>1. SnapshotFits(x)
    BY DEF TablesStand
  <2>2. x.at \in Int
    BY <2>1 DEF SnapshotFits, SnapshotRow, Assets!Instants
  <2> QED BY <1>1, <2>1, <2>2 DEF SnapshotFits
<1>4. \A r \in committed : ReceiptFits(r)'
  BY DEF TablesStand, ReceiptFits
<1> QED BY <1>2, <1>3, <1>4 DEF TablesStand

LEMMA FlightUntouched ==
  ASSUME TablesStand, FlightIs, FlightStands, UNCHANGED <<revisions, committed, snapshots, flight>>,
         clock' \in Int, clock' >= clock
  PROVE  FlightIs' /\ FlightStands'
<1>1. clock \in Int
  BY DEF TablesStand, Assets!Instants
<1>2. ASSUME NEW table, NEW row, MayCome(table, row) PROVE MayCome(table, row)'
  <2>1. RevisionFits(row) => RevisionFits(row)'
    <3>1. row \in RevisionRow => row.at \in Int
      BY DEF RevisionRow, Assets!Instants
    <3> QED BY <1>1, <3>1 DEF RevisionFits, Backed
  <2>2. SnapshotFits(row) => SnapshotFits(row)'
    <3>1. row \in SnapshotRow => row.at \in Int
      BY DEF SnapshotRow, Assets!Instants
    <3> QED BY <1>1, <3>1 DEF SnapshotFits
  <2>3. ReceiptFits(row) => ReceiptFits(row)'
    BY DEF ReceiptFits
  <2> QED BY <1>2, <2>1, <2>2, <2>3 DEF MayCome
<1> QED BY <1>2 DEF FlightIs, FlightStands

LEMMA TickKeeps == ASSUME AssetsAssumption, AssetInv, Assets!Tick PROVE AssetInv'
<1>1. clock' \in Assets!Instants /\ clock' >= clock /\ clock' \in Int
  BY DEF Assets!Tick, AssetInv, TablesStand, Assets!Instants, AssetsAssumption
<1>2. UNCHANGED <<revisions, committed, snapshots, flight, inquiry, outcome>>
  BY DEF Assets!Tick
<1> QED BY <1>1, <1>2, TablesUntouched, FlightUntouched, ReadersUntouched DEF AssetInv

\* A transaction begins.
LEMMA StampKeeps ==
  ASSUME AssetsAssumption, AssetInv, NEW table, NEW row, MayCome(table, row),
         flight' = [table |-> table, row |-> row],
         UNCHANGED <<clock, revisions, committed, snapshots, inquiry, outcome>>
  PROVE  AssetInv'
<1>1. TablesStand' /\ InquiryStands' /\ OutcomeStands'
  <2>1. clock \in Assets!Instants /\ clock >= clock
    BY DEF AssetInv, TablesStand, Assets!Instants
  <2> QED BY <2>1, TablesUntouched, ReadersUntouched DEF AssetInv
<1>2. MayCome(table, row)'
  BY DEF MayCome, RevisionFits, Backed, ReceiptFits, SnapshotFits
<1>3. ASSUME NEW t, NEW r, flight' = [table |-> t, row |-> r] PROVE MayCome(t, r)'
  <2>1. t = table /\ r = row
    BY <1>3
  <2> QED BY <1>2, <2>1
<1> QED BY <1>1, <1>3 DEF AssetInv, FlightIs, FlightStands

LEMMA VersionIs ==
  ASSUME TablesStand, NEW e
  PROVE  /\ Assets!Version(e) \in Nat
         /\ Assets!Version(e) = 0 \/ \E x \in committed : x.episode = e /\ Assets!Version(e) = x.version
         /\ \A x \in committed : x.episode = e => x.version <= Assets!Version(e)
<1>1. PICK S : S = {0} \cup {r.version : r \in {x \in committed : x.episode = e}}
  OBVIOUS
<1>2. \A x \in committed : x.version \in Nat
  BY DEF TablesStand, ReceiptFits, ReceiptRow
<1>3. IsFiniteSet(S)
  <2>1. PICK T : T = {x \in committed : x.episode = e}
    OBVIOUS
  <2>2. IsFiniteSet(T)
    BY <2>1, FS_Subset DEF TablesStand
  <2>3. PICK f : f = [x \in T |-> x.version]
    OBVIOUS
  <2>4. f \in Surjection(T, {r.version : r \in T})
    BY <2>3 DEF Surjection
  <2>5. IsFiniteSet({r.version : r \in T})
    BY <2>2, <2>4, FS_Surjection
  <2>6. IsFiniteSet({0})
    BY FS_Singleton
  <2> QED BY <1>1, <2>1, <2>5, <2>6, FS_Union
<1>4. S # {} /\ S \subseteq Int
  BY <1>1, <1>2
<1>5. Assets!Max(S) \in S /\ \A y \in S : Assets!Max(S) >= y
  BY <1>3, <1>4, AssetsMax
<1>6. Assets!Version(e) = Assets!Max(S)
  BY <1>1 DEF Assets!Version
<1>7. Assets!Version(e) = 0 \/ \E x \in committed : x.episode = e /\ Assets!Version(e) = x.version
  BY <1>1, <1>5, <1>6
<1>8. \A x \in committed : x.episode = e => x.version \in S
  BY <1>1
<1>9. \A x \in committed : x.episode = e => x.version <= Assets!Version(e)
  BY <1>2, <1>4, <1>5, <1>6, <1>8
<1>10. Assets!Version(e) \in Nat
  BY <1>2, <1>7
<1> QED BY <1>7, <1>9, <1>10

LEMMA StampRevisionKeeps ==
  ASSUME AssetsAssumption, AssetInv, NEW d \in AssetDrafts, Assets!StampRevision(d)
  PROVE  AssetInv'
<1>1. PICK v \in 0 .. Assets!Version(d.episode) :
        flight' = [table |-> "read_revision",
                   row |-> [id |-> d.id, episode |-> d.episode, asset |-> d.asset,
                            target |-> d.target, at |-> clock, version |-> v]]
  BY DEF Assets!StampRevision
<1>2. PICK row : row = [id |-> d.id, episode |-> d.episode, asset |-> d.asset,
                        target |-> d.target, at |-> clock, version |-> v]
  OBVIOUS
<1>3. TablesStand /\ clock \in Assets!Instants
  BY DEF AssetInv, TablesStand
<1>4. v \in Nat /\ v <= Assets!Version(d.episode)
  BY <1>1, <1>3, VersionIs
<1>5. d.episode \in Assets!Episodes /\ d.id \in Nat /\ d.asset \in STRING /\ d.target \in STRING
  BY DEF AssetsAssumption, Assets!Draft, Assets!Episodes
<1>6. row \in RevisionRow /\ row.id = d.id /\ row.episode = d.episode /\ row.version = v /\ row.at = clock
  BY <1>2, <1>3, <1>4, <1>5 DEF RevisionRow
<1>7. v = 0 \/ \E x \in committed : x.episode = d.episode /\ v <= x.version
  BY <1>3, <1>4, VersionIs
<1>8. v <= AssetVersions[d.episode]
  <2>1. AssetVersions[d.episode] \in Nat
    BY <1>5 DEF AssetsAssumption
  <2>2. \A x \in committed : x.version <= AssetVersions[x.episode] /\ x.version \in Nat
    BY <1>3 DEF TablesStand, ReceiptFits, ReceiptRow
  <2> QED BY <1>4, <1>7, <2>1, <2>2
<1>9. RevisionFits(row)
  BY <1>3, <1>6, <1>7, <1>8 DEF RevisionFits, Backed, Assets!Instants
<1>10. MayCome("read_revision", row)
  BY <1>6, <1>9 DEF MayCome, Assets!StampRevision
<1>11. flight' = [table |-> "read_revision", row |-> row]
  BY <1>1, <1>2
<1>12. UNCHANGED <<clock, revisions, committed, snapshots, inquiry, outcome>>
  BY DEF Assets!StampRevision
<1> QED BY <1>10, <1>11, <1>12, StampKeeps

LEMMA StampCommandKeeps ==
  ASSUME AssetsAssumption, AssetInv, NEW e \in Assets!Episodes, Assets!StampCommand(e)
  PROVE  AssetInv'
<1>1. PICK ahead \in Skews :
        flight' = [table |-> "command_receipt",
                   row |-> [episode |-> e, version |-> Assets!Version(e) + 1, at |-> clock + ahead]]
  BY DEF Assets!StampCommand
<1>2. PICK row : row = [episode |-> e, version |-> Assets!Version(e) + 1, at |-> clock + ahead]
  OBVIOUS
<1>3. clock \in Nat /\ clock <= AssetClock /\ AssetClock \in Nat
  BY DEF AssetInv, TablesStand, Assets!Instants, AssetsAssumption
<1>4. Assets!Version(e) \in Nat /\ AssetVersions[e] \in Nat /\ Assets!Version(e) < AssetVersions[e]
  BY VersionIs DEF AssetInv, AssetsAssumption, Assets!StampCommand
<1>5. ahead \in Nat /\ Assets!Max(Skews) \in Nat /\ ahead <= Assets!Max(Skews)
  <2>1. Skews \subseteq Int /\ Skews # {} /\ IsFiniteSet(Skews) /\ Skews \subseteq Nat
    BY DEF AssetsAssumption
  <2>2. Assets!Max(Skews) \in Skews /\ \A y \in Skews : Assets!Max(Skews) >= y
    BY <2>1, AssetsMax
  <2> QED BY <2>1, <2>2
<1>6. clock + ahead \in Nat /\ Assets!Version(e) + 1 \in Nat /\ Assets!Version(e) + 1 \in 1 .. AssetVersions[e]
      /\ clock + ahead <= AssetClock + Assets!Max(Skews)
  BY <1>3, <1>4, <1>5
<1>7. row \in ReceiptRow /\ row.episode = e /\ row.version = Assets!Version(e) + 1 /\ row.at = clock + ahead
  BY <1>2, <1>6 DEF ReceiptRow
<1>8. MayCome("command_receipt", row)
  BY <1>6, <1>7 DEF MayCome, ReceiptFits
<1>9. flight' = [table |-> "command_receipt", row |-> row]
  BY <1>1, <1>2
<1>10. UNCHANGED <<clock, revisions, committed, snapshots, inquiry, outcome>>
  BY DEF Assets!StampCommand
<1> QED BY <1>8, <1>9, <1>10, StampKeeps

LEMMA StampSnapshotKeeps ==
  ASSUME AssetsAssumption, AssetInv, NEW s \in Snapshots, Assets!StampSnapshot(s)
  PROVE  AssetInv'
<1>1. PICK row : row = [of |-> s, at |-> clock]
  OBVIOUS
<1>2. flight' = [table |-> "source_snapshot", row |-> row]
  BY <1>1 DEF Assets!StampSnapshot
<1>3. clock \in Assets!Instants /\ clock <= clock
  BY DEF AssetInv, TablesStand, Assets!Instants
<1>4. row \in SnapshotRow /\ row.of = s /\ row.at = clock
  BY <1>1, <1>3 DEF SnapshotRow
<1>5. MayCome("source_snapshot", row)
  BY <1>3, <1>4 DEF MayCome, SnapshotFits, Assets!StampSnapshot
<1>6. UNCHANGED <<clock, revisions, committed, snapshots, inquiry, outcome>>
  BY DEF Assets!StampSnapshot
<1> QED BY <1>2, <1>5, <1>6, StampKeeps

LEMMA RollBackKeeps == ASSUME AssetsAssumption, AssetInv, Assets!RollBack PROVE AssetInv'
<1>1. TablesStand' /\ InquiryStands' /\ OutcomeStands'
  <2>1. clock \in Assets!Instants /\ clock >= clock
    BY DEF AssetInv, TablesStand, Assets!Instants
  <2> QED BY <2>1, TablesUntouched, ReadersUntouched DEF AssetInv, Assets!RollBack
<1>2. FlightIs' /\ FlightStands'
  BY DEF FlightIs, FlightStands, Assets!RollBack
<1> QED BY <1>1, <1>2 DEF AssetInv

\* A transaction commits: its row is the only one that comes.
LEMMA CommitKeeps == ASSUME AssetsAssumption, AssetInv, Assets!Commit PROVE AssetInv'
<1>1. PICK table, row : flight = [table |-> table, row |-> row]
  BY DEF AssetInv, FlightIs, Assets!Commit
<1>2. MayCome(table, row) /\ flight # None
  BY <1>1 DEF AssetInv, FlightStands, Assets!Commit
<1>3. /\ revisions' = revisions \cup (IF table = "read_revision" THEN {row} ELSE {})
      /\ committed' = committed \cup (IF table = "command_receipt" THEN {row} ELSE {})
      /\ snapshots' = snapshots \cup (IF table = "source_snapshot" THEN {row} ELSE {})
      /\ flight' = None /\ clock' = clock
      /\ inquiry' = Assets!Disturbed(inquiry, row.at) /\ outcome' = Assets!Disturbed(outcome, row.at)
  BY <1>1 DEF Assets!Commit
<1>4. /\ revisions' \subseteq revisions \cup {row} /\ committed' \subseteq committed \cup {row}
      /\ snapshots' \subseteq snapshots \cup {row}
      /\ revisions \subseteq revisions' /\ committed \subseteq committed' /\ snapshots \subseteq snapshots'
  BY <1>3
<1>5. TablesStand
  BY DEF AssetInv
<1>6. TablesStand'
  <2>1. IsFiniteSet(revisions') /\ IsFiniteSet(committed') /\ IsFiniteSet(snapshots')
    <3>1. IsFiniteSet(revisions \cup {row}) /\ IsFiniteSet(committed \cup {row}) /\ IsFiniteSet(snapshots \cup {row})
      BY <1>5, FS_AddElement DEF TablesStand
    <3> QED BY <1>4, <3>1, FS_Subset
  <2>2. \A r : RevisionFits(r) => RevisionFits(r)'
    BY <1>3, <1>4 DEF RevisionFits, Backed
  <2>3. \A r : (ReceiptFits(r) => ReceiptFits(r)') /\ (SnapshotFits(r) => SnapshotFits(r)')
    BY <1>3 DEF ReceiptFits, SnapshotFits
  <2>4. table # "read_revision" => revisions' = revisions
    BY <1>3
  <2>5. table # "command_receipt" => committed' = committed
    BY <1>3
  <2>6. table # "source_snapshot" => snapshots' = snapshots
    BY <1>3
  <2>7. /\ table = "read_revision" => RevisionFits(row) /\ \A r \in revisions : r.id # row.id
        /\ table = "command_receipt" => ReceiptFits(row)
        /\ table = "source_snapshot" => SnapshotFits(row) /\ \A x \in snapshots : x.of # row.of
    BY <1>2 DEF MayCome
  <2>8. \A r \in revisions' : RevisionFits(r)'
    <3>1. \A r \in revisions : RevisionFits(r)
      BY <1>5 DEF TablesStand
    <3> QED BY <1>4, <2>2, <2>4, <2>7, <3>1
  <2>9. \A r \in committed' : ReceiptFits(r)'
    <3>1. \A r \in committed : ReceiptFits(r)
      BY <1>5 DEF TablesStand
    <3> QED BY <1>4, <2>3, <2>5, <2>7, <3>1
  <2>10. \A x \in snapshots' : SnapshotFits(x)'
    <3>1. \A x \in snapshots : SnapshotFits(x)
      BY <1>5 DEF TablesStand
    <3> QED BY <1>4, <2>3, <2>6, <2>7, <3>1
  <2>11. \A r, s \in revisions' : r.id = s.id => r = s
    BY <1>4, <1>5, <2>4, <2>7 DEF TablesStand
  <2>12. \A x, y \in snapshots' : x.of = y.of => x = y
    BY <1>4, <1>5, <2>6, <2>7 DEF TablesStand
  <2>13. clock' \in Assets!Instants
    BY <1>3, <1>5 DEF TablesStand
  <2> QED BY <2>1, <2>8, <2>9, <2>10, <2>11, <2>12, <2>13 DEF TablesStand
<1>7. ASSUME NEW v, {"settled", "cutoff"} \subseteq DOMAIN v, v # None, v.settled \in BOOLEAN
      PROVE  NoMore(v, Assets!Disturbed(v, row.at))
  <2>1. ~(row.at <= v.cutoff) => SameBy(v.cutoff)
    BY <1>4 DEF SameBy
  <2> QED BY <1>7, <2>1, DisturbedIs
<1>8. InquiryStands' /\ OutcomeStands'
  <2>1. ASSUME NEW v, v = inquiry, v # None PROVE {"settled", "cutoff"} \subseteq DOMAIN v /\ v.settled \in BOOLEAN
    BY <2>1 DEF AssetInv, InquiryStands, Asks, Lists
  <2>2. ASSUME NEW v, v = outcome, v # None PROVE {"settled", "cutoff"} \subseteq DOMAIN v /\ v.settled \in BOOLEAN
    BY <2>2 DEF AssetInv, OutcomeStands, Tells, TellsList
  <2>3. \A v : v = inquiry /\ v # None => \E w : w = inquiry' /\ NoMore(v, w)
    BY <1>3, <1>7, <2>1
  <2>4. \A v : v = outcome /\ v # None => \E w : w = outcome' /\ NoMore(v, w)
    BY <1>3, <1>7, <2>2
  <2>5. (inquiry = None => inquiry' = None) /\ (outcome = None => outcome' = None)
    BY <1>3, Zenon DEF Assets!Disturbed
  <2> QED BY <1>6, <2>3, <2>4, <2>5, ReadersStand
<1>9. FlightIs' /\ FlightStands'
  BY <1>3 DEF FlightIs, FlightStands
<1> QED BY <1>6, <1>8, <1>9 DEF AssetInv


-----------------------------------------------------------------------------
\* The readers.  What one reads in a step is what the tables have.
LEMMA InquiryGoesOn ==
  ASSUME AssetsAssumption, AssetInv,
         UNCHANGED <<clock, revisions, committed, snapshots, flight>>,
         \A v : v = inquiry' /\ v # None => Asks(v) \/ Lists(v),
         \A v : v = outcome' /\ v # None => Tells(v) \/ TellsList(v)
  PROVE  AssetInv'
<1>1. TablesStand' /\ FlightIs' /\ FlightStands'
  <2>1. clock' \in Assets!Instants /\ clock' >= clock /\ clock' \in Int
    BY DEF AssetInv, TablesStand, Assets!Instants
  <2> QED BY <2>1, TablesUntouched, FlightUntouched DEF AssetInv
<1>2. ASSUME NEW v, v = inquiry', v # None PROVE Asks(v)' \/ Lists(v)'
  <2>1. Asks(v) \/ Lists(v)
    BY <1>2
  <2>2. NoMore(v, v)
    BY <2>1, SameIsNoMore DEF Asks, Lists
  <2> QED BY <1>1, <2>1, <2>2, AsksStand, ListsStand DEF AssetInv
<1>3. ASSUME NEW v, v = outcome', v # None PROVE Tells(v)' \/ TellsList(v)'
  <2>1. Tells(v) \/ TellsList(v)
    BY <1>3
  <2>2. NoMore(v, v)
    BY <2>1, SameIsNoMore DEF Tells, TellsList
  <2> QED BY <2>1, <2>2, TellsStand, TellsListStand
<1> QED BY <1>1, <1>2, <1>3 DEF AssetInv, InquiryStands, OutcomeStands

LEMMA InquiryIs ==
  ASSUME AssetInv, NEW v, v = inquiry, v # None, v.pc \in {"source", "workflow", "measure"}
  PROVE  Asks(v)
BY DEF AssetInv, InquiryStands, Lists

LEMMA OutcomeIs ==
  ASSUME AssetInv, outcome' = outcome, NEW v, v = outcome', v # None
  PROVE  Tells(v) \/ TellsList(v)
BY DEF AssetInv, OutcomeStands

LEMMA AskKeeps ==
  ASSUME AssetsAssumption, AssetInv, NEW q \in Questions, Assets!Ask(q)
  PROVE  AssetInv'
<1>1. PICK rows, target :
        /\ rows = Assets!History(q.asset, q.cutoff)
        /\ inquiry' = [pc |-> "source", question |-> q, cutoff |-> q.cutoff, settled |-> TRUE,
                       rows |-> rows, target |-> target]
  BY DEF Assets!Ask
<1>2. UNCHANGED <<clock, revisions, committed, snapshots, flight, outcome>>
  BY DEF Assets!Ask
<1>3. ASSUME NEW v, v = inquiry' PROVE Asks(v)
  <2>1. /\ {"pc", "question", "cutoff", "settled", "target", "rows"} \subseteq DOMAIN v
        /\ v.question = q /\ v.cutoff = q.cutoff /\ v.rows = rows /\ v.pc = "source" /\ v.settled \in BOOLEAN
    BY <1>1, <1>3
  <2> QED BY <1>1, <2>1 DEF Asks, HistoryOf
<1> QED BY <1>2, <1>3, InquiryGoesOn, OutcomeIs

LEMMA ReadSourceKeeps == ASSUME AssetsAssumption, AssetInv, Assets!ReadSource PROVE AssetInv'
<1>1. PICK v : v = inquiry
  OBVIOUS
<1>2. v.pc = "source" /\ v # None /\ Asks(v)
  BY <1>1, InquiryIs DEF Assets!ReadSource
<1>3. PICK s \in {Assets!SnapshotAsOf(v.cutoff), None} :
        inquiry' = [pc |-> "workflow", question |-> v.question, cutoff |-> v.cutoff,
                    settled |-> v.settled, rows |-> v.rows, target |-> v.target, snapshot |-> s]
  BY <1>1 DEF Assets!ReadSource
<1>4. UNCHANGED <<clock, revisions, committed, snapshots, flight, outcome>>
  BY DEF Assets!ReadSource
<1>5. /\ s \in Snapshots \cup {None}
      /\ s # None => Assets!Eligible(v.cutoff) # {} /\ s = Assets!SnapshotAsOf(v.cutoff)
  <2>1. CASE s = None
    BY <2>1
  <2>2. CASE s # None
    <3>1. s = Assets!SnapshotAsOf(v.cutoff)
      BY <1>3, <2>2
    <3>2. Assets!Eligible(v.cutoff) # {}
      BY <2>2, <3>1 DEF Assets!SnapshotAsOf
    <3>3. PICK x \in Assets!Eligible(v.cutoff) : s = x.of
      BY <3>1, <3>2, NewestIs DEF AssetInv
    <3>4. x.of \in Snapshots
      BY <3>3 DEF AssetInv, TablesStand, SnapshotFits, SnapshotRow, Assets!Eligible
    <3> QED BY <3>1, <3>2, <3>3, <3>4
  <2> QED BY <2>1, <2>2
<1>6. ASSUME NEW w, w = inquiry' PROVE Asks(w)
  <2>1. /\ {"pc", "question", "cutoff", "settled", "target", "rows", "snapshot"} \subseteq DOMAIN w
        /\ w.question = v.question /\ w.cutoff = v.cutoff /\ w.rows = v.rows /\ w.settled = v.settled
        /\ w.pc = "workflow" /\ w.snapshot = s
    BY <1>3, <1>6
  <2>2. HasSnapshot(w)
    BY <1>5, <2>1 DEF HasSnapshot
  <2> QED BY <1>2, <2>1, <2>2 DEF Asks, HistoryOf
<1> QED BY <1>4, <1>6, InquiryGoesOn, OutcomeIs

LEMMA ReadWorkflowOfAssetKeeps == ASSUME AssetsAssumption, AssetInv, Assets!ReadWorkflow PROVE AssetInv'
<1>1. PICK v : v = inquiry
  OBVIOUS
<1>2. v.pc = "workflow" /\ v # None /\ Asks(v)
  BY <1>1, InquiryIs DEF Assets!ReadWorkflow
<1>3. PICK timeline : timeline = Assets!Timeline(v.rows, v.cutoff)
  OBVIOUS
<1>4. /\ inquiry' = [pc |-> "measure", question |-> v.question, cutoff |-> v.cutoff,
                     settled |-> v.settled, target |-> v.target, snapshot |-> v.snapshot,
                     timeline |-> timeline]
      /\ UNCHANGED <<clock, revisions, committed, snapshots, flight, outcome>>
  BY <1>1, <1>3 DEF Assets!ReadWorkflow
<1>5. ASSUME NEW w, w = inquiry' PROVE Asks(w)
  <2>1. /\ {"pc", "question", "cutoff", "settled", "target", "timeline", "snapshot"} \subseteq DOMAIN w
        /\ w.question = v.question /\ w.cutoff = v.cutoff /\ w.timeline = timeline /\ w.settled = v.settled
        /\ w.pc = "measure" /\ w.snapshot = v.snapshot
    BY <1>4, <1>5
  <2>2. HasSnapshot(w)
    BY <1>2, <2>1 DEF Asks, HasSnapshot
  <2>3. HasTimeline(w)
    BY <1>2, <1>3, <2>1 DEF Asks, HasTimeline, HistoryOf
  <2> QED BY <1>2, <2>1, <2>2, <2>3 DEF Asks
<1> QED BY <1>4, <1>5, InquiryGoesOn, OutcomeIs

LEMMA RefuseKeeps == ASSUME AssetsAssumption, AssetInv, Assets!Refuse PROVE AssetInv'
<1>1. inquiry' = None /\ UNCHANGED <<clock, revisions, committed, snapshots, flight, outcome>>
  BY DEF Assets!Refuse
<1>2. \A v : ~(v = inquiry' /\ v # None)
  BY <1>1
<1> QED BY <1>1, <1>2, InquiryGoesOn, OutcomeIs

\* Measurements are of the snapshot that was read, and by the cutoff.
LEMMA MeasuredIs ==
  ASSUME AssetsAssumption, NEW v, v = inquiry, Asks(v), NEW a, NEW ok \in BOOLEAN,
         NEW m, m = Assets!Measured(a, ok)
  PROVE  \A p \in m.points :
           /\ v.snapshot # None /\ p.snapshot = v.snapshot.id
           /\ p.event <= v.cutoff /\ p.available <= v.cutoff
<1>1. PICK points : points = {p \in Points : p.snapshot = v.snapshot.id /\ p.asset = a
                                               /\ Assets!InWindow(p, v.question)}
  OBVIOUS
<1>2. \/ m = Assets!Unavailable
      \/ /\ v.snapshot # None
         /\ m = [state |-> IF points = {} THEN "PARTIAL" ELSE "READY", points |-> points]
  BY <1>1 DEF Assets!Measured
<1>3. CASE m = Assets!Unavailable
  BY <1>3 DEF Assets!Unavailable
<1>4. CASE v.snapshot # None /\ m.points = points
  <2>1. ASSUME NEW p \in points PROVE p.event <= v.cutoff /\ p.available <= v.cutoff
    <3>1. p \in Points /\ Assets!InWindow(p, v.question)
      BY <1>1
    <3>2. /\ v.question \in Assets!Question /\ v.question.end <= v.question.cutoff
          /\ v.cutoff = v.question.cutoff /\ p \in Assets!Point
      BY <3>1 DEF Asks, AssetsAssumption
    <3>3. v.question.end \in Int /\ v.question.cutoff \in Int /\ p.event \in Int /\ p.available \in Int
      BY <3>2 DEF Assets!Question, Assets!Point, Assets!Instants
    <3> QED BY <3>1, <3>2, <3>3 DEF Assets!InWindow
  <2>2. \A p \in points : p.snapshot = v.snapshot.id
    BY <1>1
  <2> QED BY <1>4, <2>1, <2>2
<1> QED BY <1>2, <1>3, <1>4

LEMMA AnswerKeeps == ASSUME AssetsAssumption, AssetInv, Assets!Answer PROVE AssetInv'
<1>1. PICK v : v = inquiry
  OBVIOUS
<1>2. v.pc = "measure" /\ v # None /\ Asks(v)
  BY <1>1, InquiryIs DEF Assets!Answer
<1>3. PICK ok1 \in BOOLEAN, ok2 \in BOOLEAN :
        LET q == v.question
            first == Assets!Measured(q.asset, ok1)
            peer == IF q.peer = None THEN Assets!Unavailable ELSE Assets!Measured(q.peer, ok2)
            peerRows == IF q.peer = None THEN {} ELSE Assets!History(q.peer, q.cutoff)
        IN  outcome' = [kind |-> "asset", question |-> q, cutoff |-> q.cutoff,
                        settled |-> v.settled, timeline |-> v.timeline,
                        target |-> v.target, snapshot |-> v.snapshot,
                        primary |-> first,
                        peer |-> IF Assets!Comparable(q, first, peerRows, peer) THEN peer
                                 ELSE Assets!Unavailable]
  BY <1>1 DEF Assets!Answer
<1>4. PICK first : first = Assets!Measured(v.question.asset, ok1)
  OBVIOUS
<1>5. PICK peer : peer = IF v.question.peer = None THEN Assets!Unavailable
                         ELSE Assets!Measured(v.question.peer, ok2)
  OBVIOUS
<1>6. PICK peerRows : peerRows = IF v.question.peer = None THEN {}
                                 ELSE Assets!History(v.question.peer, v.question.cutoff)
  OBVIOUS
<1>7. PICK compared : compared = IF Assets!Comparable(v.question, first, peerRows, peer) THEN peer
                                 ELSE Assets!Unavailable
  OBVIOUS
<1>8. outcome' = [kind |-> "asset", question |-> v.question, cutoff |-> v.question.cutoff,
                  settled |-> v.settled, timeline |-> v.timeline, target |-> v.target,
                  snapshot |-> v.snapshot, primary |-> first, peer |-> compared]
  BY <1>3, <1>4, <1>5, <1>6, <1>7
<1>9. inquiry' = None /\ UNCHANGED <<clock, revisions, committed, snapshots, flight>>
  BY DEF Assets!Answer
<1>10. \A p \in first.points \cup peer.points \cup compared.points :
         /\ v.snapshot # None /\ p.snapshot = v.snapshot.id
         /\ p.event <= v.cutoff /\ p.available <= v.cutoff
  <2>1. Assets!Unavailable.points = {}
    BY DEF Assets!Unavailable
  <2>2. \A p \in first.points :
         /\ v.snapshot # None /\ p.snapshot = v.snapshot.id
         /\ p.event <= v.cutoff /\ p.available <= v.cutoff
    BY <1>1, <1>2, <1>4, MeasuredIs
  <2>3. \A p \in peer.points :
         /\ v.snapshot # None /\ p.snapshot = v.snapshot.id
         /\ p.event <= v.cutoff /\ p.available <= v.cutoff
    <3>1. CASE v.question.peer = None
      BY <1>5, <2>1, <3>1
    <3>2. CASE v.question.peer # None
      BY <1>1, <1>2, <1>5, <3>2, MeasuredIs
    <3> QED BY <3>1, <3>2
  <2>4. compared = peer \/ compared = Assets!Unavailable
    BY <1>7
  <2> QED BY <2>1, <2>2, <2>3, <2>4
<1>11. ASSUME compared.state # "UNAVAILABLE"
       PROVE  /\ Assets!Proves(first) /\ Assets!Proves(compared)
              /\ v.snapshot.limit # None /\ v.cutoff - v.snapshot.available <= v.snapshot.limit
  <2>1. Assets!Unavailable.state = "UNAVAILABLE"
    BY DEF Assets!Unavailable
  <2>2. compared = peer /\ Assets!Comparable(v.question, first, peerRows, peer)
    BY <1>7, <1>11, <2>1
  <2>3. /\ Assets!SourceState(v.snapshot, v.question.cutoff) = "READY"
        /\ Assets!Proves(first) /\ Assets!Proves(peer)
    BY <1>1, <2>2 DEF Assets!Comparable
  <2>4. /\ v.snapshot # None /\ v.snapshot.limit # None
        /\ ~(v.question.cutoff - v.snapshot.available > v.snapshot.limit)
    BY <2>3 DEF Assets!SourceState
  <2>5. v.snapshot \in Snapshots /\ v.cutoff = v.question.cutoff /\ v.question \in Questions
    BY <1>2, <2>4 DEF Asks, HasSnapshot
  <2>6. v.snapshot.limit \in Int /\ v.snapshot.available \in Int /\ v.question.cutoff \in Int
    <3>1. v.snapshot \in Assets!Snapshot /\ v.question \in Assets!Question
      BY <2>5 DEF AssetsAssumption
    <3> QED BY <2>4, <3>1 DEF Assets!Snapshot, Assets!Question, Assets!Instants
  <2> QED BY <2>2, <2>3, <2>4, <2>5, <2>6
<1>12. ASSUME NEW w, w = outcome' PROVE Tells(w)
  <2>1. /\ {"kind", "question", "cutoff", "settled", "timeline", "target", "snapshot", "primary", "peer"}
             \subseteq DOMAIN w
        /\ w.kind = "asset" /\ w.question = v.question /\ w.cutoff = v.question.cutoff
        /\ w.settled = v.settled /\ w.timeline = v.timeline /\ w.snapshot = v.snapshot
        /\ w.primary = first /\ w.peer = compared
    BY <1>8, <1>12
  <2>2. v.cutoff = v.question.cutoff /\ v.question \in Questions /\ v.settled \in BOOLEAN
        /\ HasSnapshot(v) /\ HasTimeline(v)
    BY <1>2 DEF Asks
  <2>3. HasSnapshot(w) /\ HasTimeline(w)
    BY <2>1, <2>2 DEF HasSnapshot, HasTimeline, HistoryOf
  <2>4. \A p \in w.primary.points \cup w.peer.points :
         /\ w.snapshot # None /\ p.snapshot = w.snapshot.id
         /\ p.event <= w.cutoff /\ p.available <= w.cutoff
    BY <1>10, <2>1, <2>2
  <2>5. w.peer.state # "UNAVAILABLE" =>
          /\ Assets!Proves(w.primary) /\ Assets!Proves(w.peer)
          /\ w.snapshot.limit # None /\ w.cutoff - w.snapshot.available <= w.snapshot.limit
    BY <1>11, <2>1, <2>2
  <2> QED BY <2>1, <2>2, <2>3, <2>4, <2>5 DEF Tells
<1>13. \A w : ~(w = inquiry' /\ w # None)
  BY <1>9
<1> QED BY <1>9, <1>12, <1>13, InquiryGoesOn


LEMMA ListHeadsKeeps == ASSUME AssetsAssumption, AssetInv, Assets!ListHeads PROVE AssetInv'
<1>1. PICK rows : rows = {[head |-> h, version |-> Assets!Version(h.episode)] : h \in Assets!Heads}
  OBVIOUS
<1>2. inquiry' = [pc |-> "list", cutoff |-> AssetClock + 1, settled |-> TRUE, rows |-> rows]
  BY <1>1 DEF Assets!ListHeads
<1>3. UNCHANGED <<clock, revisions, committed, snapshots, flight, outcome>>
  BY DEF Assets!ListHeads
<1>4. ASSUME NEW f \in rows PROVE Heads(f)
  <2>1. PICK h \in Assets!Heads : f = [head |-> h, version |-> Assets!Version(h.episode)]
    BY <1>1
  <2>2. PICK e \in {r.episode : r \in revisions} : h = Assets!Latest(Assets!OfEpisode(revisions, e))
    BY DEF Assets!Heads, Assets!Head
  <2>3. PICK of : of = Assets!OfEpisode(revisions, e)
    OBVIOUS
  <2>4. of \subseteq revisions /\ of # {} /\ \A r \in revisions : r \in of <=> r.episode = e
    BY <2>3 DEF Assets!OfEpisode
  <2>5. TablesStand
    BY DEF AssetInv
  <2>6. h \in of /\ \A s \in of : s = h \/ Assets!Later(h, s)
    BY <2>2, <2>3, <2>4, <2>5, LatestIs
  <2>7. f.head = h /\ f.version = Assets!Version(h.episode)
    BY <2>1
  <2>8. /\ f.version \in Nat /\ \A x \in committed : x.episode = h.episode => x.version <= f.version
    BY <2>5, <2>7, VersionIs
  <2>9. h.version <= f.version
    <3>1. h \in revisions /\ RevisionFits(h)
      BY <2>4, <2>5, <2>6 DEF TablesStand
    <3>2. h.version = 0 \/ \E x \in committed : x.episode = h.episode /\ h.version <= x.version
      BY <3>1 DEF RevisionFits, Backed
    <3>3. h.version \in Nat /\ \A x \in committed : x.version \in Nat
      BY <2>5, <3>1 DEF TablesStand, RevisionFits, RevisionRow, ReceiptFits, ReceiptRow
    <3> QED BY <2>8, <3>2, <3>3
  <2>10. \A s \in revisions : s.episode = h.episode => s = h \/ Assets!Later(h, s)
    BY <2>4, <2>6
  <2> QED BY <2>4, <2>6, <2>7, <2>8, <2>9, <2>10 DEF Heads
<1>5. ASSUME NEW w, w = inquiry' PROVE Lists(w)
  <2>1. /\ {"pc", "cutoff", "settled", "rows"} \subseteq DOMAIN w
        /\ w.pc = "list" /\ w.cutoff = AssetClock + 1 /\ w.settled \in BOOLEAN /\ w.rows = rows
    BY <1>2, <1>5
  <2> QED BY <1>4, <2>1 DEF Lists
<1> QED BY <1>3, <1>5, InquiryGoesOn, OutcomeIs

LEMMA ListAssetsKeeps == ASSUME AssetsAssumption, AssetInv, Assets!ListAssets PROVE AssetInv'
<1>1. PICK v : v = inquiry
  OBVIOUS
<1>2. v.pc = "list" /\ v # None /\ Lists(v)
  BY <1>1 DEF AssetInv, InquiryStands, Assets!ListAssets, Asks
<1>3. PICK rows, source : /\ rows = Assets!Rows(v.rows)
        /\ outcome' = [kind |-> "list", cutoff |-> clock, settled |-> v.settled, rows |-> rows,
                       source |-> source]
  BY <1>1 DEF Assets!ListAssets
<1>4. inquiry' = None /\ UNCHANGED <<clock, revisions, committed, snapshots, flight>>
  BY DEF Assets!ListAssets
<1>5. ASSUME v.settled, NEW row \in rows PROVE RowStands(row, clock)
  <2>1. PICK f \in v.rows : row = [asset |-> f.head.asset, id |-> f.head.id, version |-> f.version]
    BY <1>3 DEF Assets!Rows
  <2>2. Heads(f)
    BY <1>2, <1>5 DEF Lists
  <2>3. PICK r \in revisions : r = f.head
    BY <2>2 DEF Heads
  <2>4. r.asset = row.asset /\ r.id = row.id /\ row.version = f.version
    BY <2>1, <2>3
  <2>5. r.at <= clock
    BY DEF AssetInv, TablesStand, RevisionFits
  <2>6. \A s \in revisions : s.episode = r.episode => s = r \/ Assets!Later(r, s)
    BY <2>2, <2>3 DEF Heads
  <2>7. row.version \in Nat /\ r.version <= row.version
    BY <2>2, <2>3, <2>4 DEF Heads
  <2>8. \A x \in committed : x.episode = r.episode /\ x.at <= clock => x.version <= row.version
    <3>1. clock <= AssetClock + 1 /\ clock \in Int /\ AssetClock \in Int
      BY DEF AssetInv, TablesStand, Assets!Instants, AssetsAssumption
    <3>2. \A x \in committed : x.at \in Int
      BY DEF AssetInv, TablesStand, ReceiptFits, ReceiptRow
    <3>3. \A x \in committed : x.at <= clock => x.at <= AssetClock + 1
      BY <3>1, <3>2
    <3> QED BY <2>2, <2>3, <2>4, <3>3 DEF Heads
  <2> QED BY <2>4, <2>5, <2>6, <2>7, <2>8 DEF RowStands
<1>6. ASSUME NEW w, w = outcome' PROVE TellsList(w)
  <2>1. /\ {"kind", "cutoff", "settled", "rows", "source"} \subseteq DOMAIN w
        /\ w.kind = "list" /\ w.cutoff = clock /\ w.settled = v.settled /\ w.rows = rows
    BY <1>3, <1>6
  <2>2. v.settled \in BOOLEAN /\ clock \in Assets!Instants
    BY <1>2 DEF Lists, AssetInv, TablesStand
  <2> QED BY <1>5, <2>1, <2>2 DEF TellsList
<1>7. \A w : ~(w = inquiry' /\ w # None)
  BY <1>4
<1> QED BY <1>4, <1>6, <1>7, InquiryGoesOn

LEMMA AssetsKeep ==
  ASSUME AssetsAssumption, AssetInv, Assets!Next \/ UNCHANGED assetVars
  PROVE  AssetInv'
<1>1. CASE Assets!Next
  BY <1>1, TickKeeps, CommitKeeps, RollBackKeeps, StampRevisionKeeps, StampCommandKeeps,
     StampSnapshotKeeps, AskKeeps, ReadSourceKeeps, ReadWorkflowOfAssetKeeps, AnswerKeeps,
     RefuseKeeps, ListHeadsKeeps, ListAssetsKeeps, Zenon
     DEF Assets!Next
<1>2. CASE UNCHANGED assetVars
  <2>1. UNCHANGED <<clock, revisions, committed, snapshots, flight, inquiry, outcome>>
    BY <1>2 DEF assetVars
  <2>2. \A v : v = inquiry' /\ v # None => Asks(v) \/ Lists(v)
    BY <2>1 DEF AssetInv, InquiryStands
  <2>3. \A v : v = outcome' /\ v # None => Tells(v) \/ TellsList(v)
    BY <2>1 DEF AssetInv, OutcomeStands
  <2> QED BY <2>1, <2>2, <2>3, InquiryGoesOn
<1> QED BY <1>1, <1>2

-----------------------------------------------------------------------------
\* What the timeline of some revisions says.
LEMMA LastVersionIs ==
  ASSUME TablesStand, NEW e, NEW cutoff, NEW seed \in Nat,
         NEW last, last = Assets!LastVersion(seed, Assets!VersionsBy(e, cutoff))
  PROVE  /\ last \in Nat /\ seed <= last
         /\ last = seed \/ \E x \in committed : x.episode = e /\ x.at <= cutoff /\ x.version = last
         /\ \A x \in committed : x.episode = e /\ x.at <= cutoff => x.version <= last
<1>1. PICK T : T = {x \in committed : x.episode = e /\ x.at <= cutoff}
  OBVIOUS
<1>2. PICK S : S = {seed} \cup {r.version : r \in T}
  OBVIOUS
<1>3. \A x \in committed : x.version \in Nat
  BY DEF TablesStand, ReceiptFits, ReceiptRow
<1>4. IsFiniteSet(S)
  <2>1. IsFiniteSet(T)
    BY <1>1, FS_Subset DEF TablesStand
  <2>2. PICK f : f = [x \in T |-> x.version]
    OBVIOUS
  <2>3. f \in Surjection(T, {r.version : r \in T})
    BY <2>2 DEF Surjection
  <2>4. IsFiniteSet({r.version : r \in T})
    BY <2>1, <2>3, FS_Surjection
  <2>5. IsFiniteSet({seed})
    BY FS_Singleton
  <2> QED BY <1>2, <2>4, <2>5, FS_Union
<1>5. S # {} /\ S \subseteq Int
  BY <1>1, <1>2, <1>3
<1>6. Assets!Max(S) \in S /\ \A y \in S : Assets!Max(S) >= y
  BY <1>4, <1>5, AssetsMax
<1>7. last = Assets!Max(S)
  BY <1>1, <1>2 DEF Assets!LastVersion, Assets!VersionsBy
<1>8. last = seed \/ \E x \in T : x.version = last
  BY <1>2, <1>6, <1>7
<1>9. last \in Nat
  BY <1>1, <1>3, <1>8
<1>10. seed \in S /\ \A x \in T : x.version \in S
  BY <1>2
<1>11. seed <= last /\ \A x \in T : x.version <= last
  BY <1>1, <1>3, <1>6, <1>7, <1>9, <1>10
<1> QED BY <1>1, <1>8, <1>9, <1>11

\* The row of a revision among those of an asset.
RowOf(rows, cutoff, r) ==
  LET e == r.episode
      version == Assets!LastVersion(r.version, Assets!VersionsBy(e, cutoff))
  IN  IF r = Assets!Latest(Assets!OfEpisode(rows, e))
      THEN [id |-> r.id, episode |-> e, latest |-> TRUE, version |-> version,
            actions |-> Assets!ActionsBy(e, version, cutoff)]
      ELSE [id |-> r.id, episode |-> e, latest |-> FALSE, version |-> r.version, actions |-> {}]

LEMMA TimelineIs ==
  ASSUME NEW rows, NEW cutoff, NEW told, told = Assets!Timeline(rows, cutoff)
  PROVE  told = {RowOf(rows, cutoff, r) : r \in rows}
BY DEF Assets!Timeline, RowOf

LEMMA RowIs ==
  ASSUME NEW rows, NEW cutoff, NEW r, NEW t, t = RowOf(rows, cutoff, r)
  PROVE  /\ t.id = r.id /\ t.episode = r.episode /\ t.latest \in BOOLEAN
         /\ t.latest <=> r = Assets!Latest(Assets!OfEpisode(rows, r.episode))
         /\ t.latest => /\ t.version = Assets!LastVersion(r.version, Assets!VersionsBy(r.episode, cutoff))
                        /\ t.actions = Assets!ActionsBy(r.episode, t.version, cutoff)
<1>1. CASE r = Assets!Latest(Assets!OfEpisode(rows, r.episode))
  <2>1. PICK version : version = Assets!LastVersion(r.version, Assets!VersionsBy(r.episode, cutoff))
    OBVIOUS
  <2>2. PICK yes : yes = TRUE
    OBVIOUS
  <2>3. t = [id |-> r.id, episode |-> r.episode, latest |-> yes, version |-> version,
             actions |-> Assets!ActionsBy(r.episode, version, cutoff)]
    BY <1>1, <2>1, <2>2, Zenon DEF RowOf
  <2>4. t.id = r.id /\ t.episode = r.episode /\ t.latest = yes /\ t.version = version
        /\ t.actions = Assets!ActionsBy(r.episode, version, cutoff)
    BY <2>3
  <2> QED BY <1>1, <2>1, <2>2, <2>4
<1>2. CASE r # Assets!Latest(Assets!OfEpisode(rows, r.episode))
  <2>1. PICK no : no = FALSE
    OBVIOUS
  <2>2. t = [id |-> r.id, episode |-> r.episode, latest |-> no, version |-> r.version, actions |-> {}]
    BY <1>2, <2>1, Zenon DEF RowOf
  <2>3. t.id = r.id /\ t.episode = r.episode /\ t.latest = no
    BY <2>2
  <2> QED BY <1>2, <2>1, <2>3
<1> QED BY <1>1, <1>2

LEMMA EpisodeRows ==
  ASSUME AssetsAssumption, TablesStand, NEW rows, rows \subseteq revisions, NEW r \in rows,
         NEW last, last = Assets!Latest(Assets!OfEpisode(rows, r.episode))
  PROVE  /\ last \in rows /\ last.episode = r.episode
         /\ \A s \in rows : s.episode = r.episode => s = last \/ Assets!Later(last, s)
         /\ (\A s \in rows : s.episode = r.episode => s = r \/ Assets!Later(r, s)) => r = last
<1>1. PICK of : of = Assets!OfEpisode(rows, r.episode)
  OBVIOUS
<1>2. of \subseteq rows /\ r \in of /\ \A s \in rows : s \in of <=> s.episode = r.episode
  BY <1>1 DEF Assets!OfEpisode
<1>3. /\ last \in of /\ \A s \in of : s = last \/ Assets!Later(last, s)
      /\ \A x \in of : (\A s \in of : s = x \/ Assets!Later(x, s)) => x = last
  <2>1. of \subseteq revisions /\ of # {}
    BY <1>2
  <2> QED BY <1>1, <2>1, LatestIs
<1> QED BY <1>2, <1>3


LEMMA ToldAsKnown ==
  ASSUME AssetsAssumption, TablesStand, NEW rows, rows \subseteq revisions, NEW cutoff \in Nat,
         NEW told, told = Assets!Timeline(rows, cutoff)
  PROVE  /\ {t.id : t \in told} = {r.id : r \in rows}
         /\ \A t \in told : \E u \in told : u.episode = t.episode /\ u.latest
         /\ \A t, u \in told : t.latest /\ u.latest /\ t.episode = u.episode => t = u
         /\ \A t \in told : t.latest =>
              /\ \A r \in committed : r.episode = t.episode /\ r.at <= cutoff =>
                   r.version <= t.version /\ r.at \in t.actions
              /\ t.actions \subseteq 0 .. cutoff
              /\ \E r \in rows :
                   /\ r.id = t.id /\ r.version <= t.version
                   /\ r.version # t.version =>
                        \E x \in committed : x.episode = t.episode /\ x.at <= cutoff /\ x.version = t.version
<1>1. told = {RowOf(rows, cutoff, r) : r \in rows}
  BY TimelineIs
<1>2. \A t \in told : \E r \in rows : t = RowOf(rows, cutoff, r)
  BY <1>1
<1>3. \A r \in rows : RowOf(rows, cutoff, r) \in told
  BY <1>1
<1>4. \A r \in rows : RowOf(rows, cutoff, r).id = r.id
  BY RowIs
<1>5. {t.id : t \in told} = {r.id : r \in rows}
  BY <1>2, <1>3, <1>4
<1>6. ASSUME NEW t \in told PROVE \E u \in told : u.episode = t.episode /\ u.latest
  <2>1. PICK r \in rows : t = RowOf(rows, cutoff, r)
    BY <1>2
  <2>2. PICK s : s = Assets!Latest(Assets!OfEpisode(rows, r.episode))
    OBVIOUS
  <2>3. s \in rows /\ s.episode = r.episode
    BY <2>2, EpisodeRows
  <2>4. PICK u : u = RowOf(rows, cutoff, s)
    OBVIOUS
  <2>5. u.episode = s.episode /\ u.latest
    BY <2>2, <2>3, <2>4, RowIs
  <2>6. t.episode = r.episode
    BY <2>1, RowIs
  <2> QED BY <1>3, <2>3, <2>4, <2>5, <2>6
<1>7. ASSUME NEW t \in told, NEW u \in told, t.latest, u.latest, t.episode = u.episode PROVE t = u
  <2>1. PICK r \in rows : t = RowOf(rows, cutoff, r)
    BY <1>2
  <2>2. PICK s \in rows : u = RowOf(rows, cutoff, s)
    BY <1>2
  <2>3. /\ t.episode = r.episode /\ r = Assets!Latest(Assets!OfEpisode(rows, r.episode))
    BY <1>7, <2>1, RowIs
  <2>4. /\ u.episode = s.episode /\ s = Assets!Latest(Assets!OfEpisode(rows, s.episode))
    BY <1>7, <2>2, RowIs
  <2>5. r = s
    BY <1>7, <2>3, <2>4
  <2> QED BY <2>1, <2>2, <2>5
<1>8. ASSUME NEW t \in told, t.latest
      PROVE  /\ \A r \in committed : r.episode = t.episode /\ r.at <= cutoff =>
                   r.version <= t.version /\ r.at \in t.actions
             /\ t.actions \subseteq 0 .. cutoff
             /\ \E r \in rows :
                   /\ r.id = t.id /\ r.version <= t.version
                   /\ r.version # t.version =>
                        \E x \in committed : x.episode = t.episode /\ x.at <= cutoff /\ x.version = t.version
  <2>1. PICK r \in rows : t = RowOf(rows, cutoff, r)
    BY <1>2
  <2>2. /\ t.id = r.id /\ t.episode = r.episode
        /\ t.version = Assets!LastVersion(r.version, Assets!VersionsBy(r.episode, cutoff))
        /\ t.actions = Assets!ActionsBy(r.episode, t.version, cutoff)
    BY <1>8, <2>1, RowIs
  <2>3. r.version \in Nat
    BY DEF TablesStand, RevisionFits, RevisionRow
  <2>4. /\ r.version <= t.version
        /\ t.version = r.version \/ \E x \in committed : x.episode = r.episode /\ x.at <= cutoff /\ x.version = t.version
        /\ \A x \in committed : x.episode = r.episode /\ x.at <= cutoff => x.version <= t.version
    BY <2>2, <2>3, LastVersionIs
  <2>5. \A x \in committed : x.episode = r.episode /\ x.at <= cutoff => x.at \in t.actions
    BY <2>2, <2>4 DEF Assets!ActionsBy, Assets!ActionsOf
  <2>6. \A x \in committed : x.at \in Nat
    BY DEF TablesStand, ReceiptFits, ReceiptRow
  <2>7. t.actions \subseteq 0 .. cutoff
    BY <2>2, <2>6 DEF Assets!ActionsBy, Assets!ActionsOf
  <2> QED BY <2>2, <2>4, <2>5, <2>7
<1> QED BY <1>5, <1>6, <1>7, <1>8

LEMMA AssetsTyped == ASSUME AssetsAssumption, AssetInv PROVE Assets!TypeOK
<1>1. ASSUME NEW r \in revisions PROVE r.at \in Assets!Instants /\ r.version \in 0 .. AssetVersions[r.episode]
  <2>1. RevisionFits(r)
    BY DEF AssetInv, TablesStand
  <2>2. r.at \in Assets!Instants /\ r.version \in Nat /\ AssetVersions[r.episode] \in Nat
    BY <2>1 DEF RevisionFits, RevisionRow, AssetsAssumption
  <2> QED BY <2>1, <2>2 DEF RevisionFits
<1>2. ASSUME NEW r \in committed
      PROVE  r.at \in 0 .. (AssetClock + Assets!Max(Skews)) /\ r.version \in 1 .. AssetVersions[r.episode]
  <2>1. ReceiptFits(r)
    BY DEF AssetInv, TablesStand
  <2>2. r.at \in Nat
    BY <2>1 DEF ReceiptFits, ReceiptRow
  <2> QED BY <2>1, <2>2 DEF ReceiptFits
<1>3. \A x \in snapshots : x.of \in Snapshots /\ x.at \in Assets!Instants
  BY DEF AssetInv, TablesStand, SnapshotFits, SnapshotRow
<1> QED BY <1>1, <1>2, <1>3 DEF AssetInv, TablesStand, Assets!TypeOK

LEMMA TimelineAsKnown == ASSUME AssetsAssumption, AssetInv PROVE Assets!TimelineIsAsKnown
<1>1. SUFFICES ASSUME Assets!Settled("asset") PROVE Assets!TimelineIsAsKnown
  BY DEF Assets!TimelineIsAsKnown
<1>2. PICK v : v = outcome
  OBVIOUS
<1>3. v # None /\ v.kind = "asset" /\ v.settled /\ Tells(v)
  BY <1>1, <1>2 DEF AssetInv, OutcomeStands, TellsList, Assets!Settled
<1>4. PICK rows : rows = Assets!History(v.question.asset, v.cutoff)
  OBVIOUS
<1>5. rows \subseteq revisions
  BY <1>4 DEF Assets!History
<1>6. v.timeline = Assets!Timeline(rows, v.cutoff)
  BY <1>3, <1>4 DEF Tells, HasTimeline, HistoryOf
<1>7. v.cutoff \in Nat
  <2>1. v.question \in Assets!Question /\ v.cutoff = v.question.cutoff
    BY <1>3 DEF Tells, AssetsAssumption
  <2> QED BY <2>1 DEF Assets!Question, Assets!Instants
<1>8. TablesStand
  BY DEF AssetInv
<1>9. PICK told : told = v.timeline
  OBVIOUS
<1>10. /\ {t.id : t \in told} = {r.id : r \in rows}
       /\ \A t \in told : \E u \in told : u.episode = t.episode /\ u.latest
       /\ \A t, u \in told : t.latest /\ u.latest /\ t.episode = u.episode => t = u
       /\ \A t \in told : t.latest =>
            /\ \A r \in committed : r.episode = t.episode /\ r.at <= v.cutoff =>
                 r.version <= t.version /\ r.at \in t.actions
            /\ t.actions \subseteq 0 .. v.cutoff
            /\ \E r \in rows :
                 /\ r.id = t.id /\ r.version <= t.version
                 /\ r.version # t.version =>
                      \E x \in committed : x.episode = t.episode /\ x.at <= v.cutoff /\ x.version = t.version
  <2>1. PICK c : c = v.cutoff
    OBVIOUS
  <2>2. told = Assets!Timeline(rows, c) /\ c \in Nat
    BY <1>6, <1>7, <1>9, <2>1
  <2>3. {t.id : t \in told} = {r.id : r \in rows}
    BY <1>5, <1>8, <2>2, ToldAsKnown
  <2>4. \A t \in told : \E u \in told : u.episode = t.episode /\ u.latest
    BY <1>5, <1>8, <2>2, ToldAsKnown
  <2>5. \A t, u \in told : t.latest /\ u.latest /\ t.episode = u.episode => t = u
    BY <1>5, <1>8, <2>2, ToldAsKnown
  <2>6. \A t \in told : t.latest =>
            /\ \A r \in committed : r.episode = t.episode /\ r.at <= c =>
                 r.version <= t.version /\ r.at \in t.actions
            /\ t.actions \subseteq 0 .. c
            /\ \E r \in rows :
                 /\ r.id = t.id /\ r.version <= t.version
                 /\ r.version # t.version =>
                      \E x \in committed : x.episode = t.episode /\ x.at <= c /\ x.version = t.version
    BY <1>5, <1>8, <2>2, ToldAsKnown
  <2> QED BY <2>1, <2>3, <2>4, <2>5, <2>6
<1>11. {t.id : t \in outcome.timeline}
          = {r.id : r \in Assets!History(outcome.question.asset, outcome.cutoff)}
  BY <1>2, <1>4, <1>9, <1>10
<1>12. ASSUME NEW t \in told, t.latest
       PROVE  LET by(e) == {r \in committed : r.episode = e /\ r.at <= v.cutoff}
              IN  /\ \A r \in by(t.episode) : r.version <= t.version /\ r.at \in t.actions
                  /\ t.actions \subseteq 0 .. v.cutoff
                  /\ \E r \in revisions :
                       /\ r.id = t.id /\ r.version <= t.version
                       /\ r.version # t.version => \E x \in by(t.episode) : x.version = t.version
  <2>1. PICK r \in rows :
                 /\ r.id = t.id /\ r.version <= t.version
                 /\ r.version # t.version =>
                      \E x \in committed : x.episode = t.episode /\ x.at <= v.cutoff /\ x.version = t.version
    BY <1>10, <1>12
  <2>2. r.version # t.version =>
          \E x \in {y \in committed : y.episode = t.episode /\ y.at <= v.cutoff} : x.version = t.version
    BY <2>1
  <2> QED BY <1>5, <1>10, <1>12, <2>1, <2>2
<1>13. /\ \A t \in outcome.timeline : \E u \in outcome.timeline : u.episode = t.episode /\ u.latest
       /\ \A t, u \in outcome.timeline : t.latest /\ u.latest /\ t.episode = u.episode => t = u
  BY <1>2, <1>9, <1>10
<1>14. \A t \in outcome.timeline : t.latest =>
         LET by(e) == {r \in committed : r.episode = e /\ r.at <= outcome.cutoff}
         IN  /\ \A r \in by(t.episode) : r.version <= t.version /\ r.at \in t.actions
             /\ t.actions \subseteq 0 .. outcome.cutoff
             /\ \E r \in revisions :
                  /\ r.id = t.id /\ r.version <= t.version
                  /\ r.version # t.version => \E x \in by(t.episode) : x.version = t.version
  BY <1>2, <1>9, <1>12
<1> QED BY <1>11, <1>13, <1>14, Zenon DEF Assets!TimelineIsAsKnown

LEMMA MeasuredAsKnown == ASSUME AssetsAssumption, AssetInv PROVE Assets!MeasurementsAreAsKnown
<1>1. SUFFICES ASSUME outcome # None, outcome.kind = "asset" PROVE Assets!MeasurementsAreAsKnown
  BY DEF Assets!MeasurementsAreAsKnown
<1>2. PICK v : v = outcome
  OBVIOUS
<1>3. Tells(v)
  BY <1>1, <1>2 DEF AssetInv, OutcomeStands, TellsList
<1>4. ASSUME v.settled, v.snapshot # None,
             NEW x \in Assets!Eligible(v.cutoff), NEW y \in Assets!Eligible(v.cutoff),
             x.of = v.snapshot, y # x, Assets!NewerSnapshot(y, x)
      PROVE  FALSE
  <2>1. Assets!Eligible(v.cutoff) # {} /\ v.snapshot = Assets!SnapshotAsOf(v.cutoff)
    BY <1>3, <1>4 DEF Tells, HasSnapshot
  <2>2. TablesStand
    BY DEF AssetInv
  <2>3. PICK z \in Assets!Eligible(v.cutoff) :
          /\ v.snapshot = z.of
          /\ \A u \in Assets!Eligible(v.cutoff) : ~Assets!NewerSnapshot(u, z)
    BY <2>1, <2>2, NewestIs
  <2>4. x \in snapshots /\ z \in snapshots
    BY DEF Assets!Eligible
  <2>5. x = z
    BY <1>4, <2>2, <2>3, <2>4 DEF TablesStand
  <2> QED BY <1>4, <2>3, <2>5
<1>5. /\ \A p \in v.primary.points \cup v.peer.points :
           /\ v.snapshot # None /\ p.snapshot = v.snapshot.id
           /\ p.event <= v.cutoff /\ p.available <= v.cutoff
      /\ v.peer.state # "UNAVAILABLE" =>
           /\ Assets!Proves(v.primary) /\ Assets!Proves(v.peer)
           /\ v.snapshot.limit # None /\ v.cutoff - v.snapshot.available <= v.snapshot.limit
  BY <1>3 DEF Tells
<1>6. v.settled /\ v.snapshot # None =>
         ~\E x, y \in Assets!Eligible(v.cutoff) :
            x.of = v.snapshot /\ y # x /\ Assets!NewerSnapshot(y, x)
  BY <1>4
<1> QED BY <1>2, <1>5, <1>6 DEF Assets!MeasurementsAreAsKnown

LEMMA ListAsKnown == ASSUME AssetsAssumption, AssetInv PROVE Assets!ListAgrees
<1>1. SUFFICES ASSUME Assets!Settled("list") PROVE Assets!ListAgrees
  BY DEF Assets!ListAgrees
<1>2. PICK v : v = outcome
  OBVIOUS
<1>3. v # None /\ v.kind = "list" /\ v.settled /\ TellsList(v)
  BY <1>1, <1>2 DEF AssetInv, OutcomeStands, Tells, Assets!Settled
<1>4. TablesStand /\ v.cutoff \in Nat
  BY <1>3 DEF AssetInv, TellsList, Assets!Instants
<1>5. ASSUME NEW row \in v.rows
      PROVE  \E t \in Assets!Timeline(Assets!History(row.asset, v.cutoff), v.cutoff) :
               t.id = row.id /\ t.latest /\ t.version <= row.version
  <2>1. RowStands(row, v.cutoff)
    BY <1>3 DEF TellsList
  <2>2. PICK r \in revisions :
          /\ r.asset = row.asset /\ r.id = row.id /\ r.at <= v.cutoff
          /\ \A s \in revisions : s.episode = r.episode /\ s.at <= v.cutoff => s = r \/ Assets!Later(r, s)
          /\ row.version \in Nat /\ r.version <= row.version
          /\ \A x \in committed : x.episode = r.episode /\ x.at <= v.cutoff => x.version <= row.version
    BY <2>1 DEF RowStands
  <2>3. PICK rows : rows = Assets!History(row.asset, v.cutoff)
    OBVIOUS
  <2>4. rows \subseteq revisions /\ r \in rows /\ \A s \in rows : s.at <= v.cutoff
    BY <2>2, <2>3 DEF Assets!History
  <2>5. r = Assets!Latest(Assets!OfEpisode(rows, r.episode))
    BY <1>4, <2>2, <2>4, EpisodeRows
  <2>6. PICK t : t = RowOf(rows, v.cutoff, r)
    OBVIOUS
  <2>7. /\ t.id = r.id /\ t.latest
        /\ t.version = Assets!LastVersion(r.version, Assets!VersionsBy(r.episode, v.cutoff))
    BY <2>5, <2>6, RowIs
  <2>8. r.version \in Nat
    BY <1>4 DEF TablesStand, RevisionFits, RevisionRow
  <2>9. t.version = r.version \/ \E x \in committed : x.episode = r.episode /\ x.at <= v.cutoff /\ x.version = t.version
    BY <1>4, <2>7, <2>8, LastVersionIs
  <2>10. t.version <= row.version
    BY <2>2, <2>9
  <2>11. t \in Assets!Timeline(rows, v.cutoff)
    <3>1. PICK told : told = Assets!Timeline(rows, v.cutoff)
      OBVIOUS
    <3>2. told = {RowOf(rows, v.cutoff, s) : s \in rows}
      BY <3>1, TimelineIs
    <3> QED BY <2>4, <2>6, <3>1, <3>2
  <2> QED BY <2>2, <2>3, <2>7, <2>10, <2>11
<1> QED BY <1>2, <1>5 DEF Assets!ListAgrees

LEMMA AssetsImply == ASSUME AssetsAssumption, AssetInv PROVE Assets!AssetIsAsKnown
BY AssetsTyped, TimelineAsKnown, MeasuredAsKnown, ListAsKnown DEF Assets!AssetIsAsKnown

-----------------------------------------------------------------------------
ViewsInv == ComposedInv /\ PageInv

\* The components that a composed view shows as ready were read at the version and
\* cycle of the brief that they are shown with, though each is read on its own
\* (investigation.py); a page never waits for nobody (ui/app.py).
THEOREM ViewsCohere == WorkSpec => []ViewsAreCoherent
<1>1. WorkInit => ViewsInv
  BY ComposedInit, PageInitially, EpisodeWorkAssumption DEF WorkInit, EpisodeWorkAssumption, ViewsInv
<1>2. ViewsInv /\ [WorkNext]_workVars => ViewsInv'
  BY ComposedKeep, PageKeep, ComponentSteps, EpisodeWorkAssumption DEF EpisodeWorkAssumption, ViewsInv
<1>3. ViewsInv => ViewsAreCoherent
  BY ComposedImply, PageImply DEF ViewsInv, ViewsAreCoherent
<1> QED BY <1>1, <1>2, <1>3, PTL DEF WorkSpec

\* What was not known by the cutoff changes no comparison of cohorts and a
\* repetition changes no count (rca.py); a page never goes back behind what it
\* showed or was answered, whichever reads overtake each other (ui/app.py).
THEOREM AnswersStandForGood == WorkSpec => AnswersStand
<1>1. WorkInit => CohortsInv /\ PageInv
  BY CohortsInitially, PageInitially, EpisodeWorkAssumption DEF WorkInit, EpisodeWorkAssumption
<1>2. CohortsInv /\ PageInv /\ [WorkNext]_workVars => (CohortsInv /\ PageInv)'
  BY CohortsKeep, PageKeep, ComponentSteps, EpisodeWorkAssumption DEF EpisodeWorkAssumption
<1>3. CohortsInv => JobTells
  BY JobIsTold, EpisodeWorkAssumption DEF EpisodeWorkAssumption
<1>4. CohortsInv /\ JobTells /\ JobTells' /\ [WorkNext]_workVars =>
        [LET new == facts' \ facts
         IN  /\ (\E f \in new : f.event > CohortCutoff \/ f.available > CohortCutoff) =>
                  Cohorts!Job' = Cohorts!Job
             /\ (/\ \E f \in new, g \in Cohorts!Seen : f.cohort = g.cohort /\ f.group = g.group
                                                         /\ f.factors \subseteq g.factors
                 /\ Cohorts!Job.state \notin {"REJECTED"} /\ Cohorts!Job'.state \notin {"REJECTED"}) =>
                  /\ Cohorts!Job'.state = Cohorts!Job.state
                  /\ Cohorts!Job'.associations = Cohorts!Job.associations
                  /\ <<Cohorts!Job'.affected, Cohorts!Job'.controls>>
                       = <<Cohorts!Job.affected, Cohorts!Job.controls>>]_(Cohorts!vars)
  BY CohortsCountOnce, ComponentSteps, EpisodeWorkAssumption DEF EpisodeWorkAssumption
<1>5. PageInv /\ [WorkNext]_workVars => [Page!Rendered => view'.episode.version >= known]_(Page!vars)
  BY PageNeverBack, ComponentSteps, EpisodeWorkAssumption DEF EpisodeWorkAssumption
<1> QED BY <1>1, <1>2, <1>3, <1>4, <1>5, PTL
        DEF WorkSpec, AnswersStand, Cohorts!FactsCountOnce, Page!NeverGoesBack

AnswersInv == CasesInv /\ CohortsInv /\ AssetInv

\* What is told of comparable cases is one view, whole, in order and, unless a
\* manifest came late, the same whenever it is asked (comparable_history.py); a
\* comparison of cohorts is earned, and a job gives the one that a read gives
\* (rca.py); an asset is shown as its tables were known by the cutoff
\* (application/assets.py).
THEOREM AnswersAreKnown == WorkSpec => []AnswersAreAsKnown
<1>1. WorkInit => AnswersInv
  BY CasesInitially, CohortsInitially, AssetsInitially, EpisodeWorkAssumption
     DEF WorkInit, EpisodeWorkAssumption, AnswersInv
<1>2. AnswersInv /\ [WorkNext]_workVars => AnswersInv'
  BY CasesKeep, CohortsKeep, AssetsKeep, ComponentSteps, EpisodeWorkAssumption
     DEF EpisodeWorkAssumption, AnswersInv
<1>3. AnswersInv => AnswersAreAsKnown
  BY CasesImply, ReadyWhenEarned, JobIsRead, AssetsImply, EpisodeWorkAssumption
     DEF EpisodeWorkAssumption, AnswersInv, AnswersAreAsKnown, Cohorts!AnalysisIsSound, CohortsInv
<1> QED BY <1>1, <1>2, <1>3, PTL DEF WorkSpec

\* A plan of next checks is only given out for the Episode as it is, and is the
\* best that there is for it: eligible, not redundant, the most useful check first,
\* and nothing left out that should be in it (planner.py).
THEOREM PlansStayCurrent == WorkSpec => PlansAreCurrent
<1>1. WorkInit => PlannerInv
  BY PlannerInitially DEF WorkInit
<1>2. PlannerInv /\ [WorkNext]_workVars => PlannerInv'
  BY PlannerKeep, ComponentSteps, EpisodeWorkAssumption DEF EpisodeWorkAssumption
<1>3. PlannerInv /\ [WorkNext]_workVars =>
        [disclosed' # disclosed /\ disclosed' # None => Planner!Sound(disclosed')]_(Planner!vars)
  BY PlansHold, ComponentSteps, EpisodeWorkAssumption DEF EpisodeWorkAssumption
<1> QED BY <1>1, <1>2, <1>3, PTL DEF WorkSpec, PlansAreCurrent, Planner!PlansAreCurrent

=============================================================================
