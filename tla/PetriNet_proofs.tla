-------------------------- MODULE PetriNet_proofs ---------------------------
(* Lemmas about the operators of PetriNet, for every net, and about sums.   *)
EXTENDS PetriNet, FiniteSetTheorems, WellFoundedInduction, TLAPS

\* A transition's arcs are sets of places of its net.
LEMMA TransitionType ==
    ASSUME NEW n, IsNet(n), NEW t \in Trans(n)
    PROVE  n.transitions[t] \in Transition(n.places)
BY DEF IsNet, Trans

\* Firing a transition of a net leads from markings to markings.
LEMMA FireType ==
    ASSUME NEW n, IsNet(n), NEW m \in SUBSET n.places, NEW t \in Trans(n)
    PROVE  Fire(n, m, t) \in SUBSET n.places
BY TransitionType DEF Fire, Transition

\* The ranks of a net's transitions are numbers.
LEMMA TransNat ==
    ASSUME NEW n, IsNet(n)
    PROVE  Trans(n) \subseteq Nat
BY DEF IsNet, Trans

\* What u leaves undisturbed stays enabled when u fires.
LEMMA UndisturbedStaysEnabled ==
    ASSUME NEW n, NEW m, NEW t, NEW u,
           Enabled(n, m, t), Enabled(n, m, u), Undisturbed(n, t, u)
    PROVE  Enabled(n, Fire(n, m, u), t)
BY DEF Enabled, Undisturbed, Fire

\* Two enabled transitions that leave each other undisturbed fire in either
\* order to the same marking.
LEMMA Diamond ==
    ASSUME NEW n, NEW m, NEW t, NEW u,
           Enabled(n, m, t), Enabled(n, m, u),
           Undisturbed(n, t, u), Undisturbed(n, u, t)
    PROVE  Fire(n, Fire(n, m, u), t) = Fire(n, Fire(n, m, t), u)
BY DEF Enabled, Undisturbed, Fire

-----------------------------------------------------------------------------
(* The state space.                                                         *)

\* C holds the initial marking and what firings lead to from its members.
Stable(n, C) ==
    /\ n.initial \in C
    /\ \A m \in C : \A t \in EnabledIn(n, m) : Fire(n, m, t) \in C

\* The least such set of markings: what firing sequences lead to.
Reachable(n) ==
    {m \in SUBSET n.places : \A C \in SUBSET SUBSET n.places : Stable(n, C) => m \in C}

\* The reachable markings are such a set themselves.
LEMMA ReachableStable ==
    ASSUME NEW n, IsNet(n)
    PROVE  Stable(n, Reachable(n))
<1>1. n.initial \in Reachable(n)
  BY DEF Reachable, Stable, IsNet
<1>2. ASSUME NEW m \in Reachable(n), NEW t \in EnabledIn(n, m)
      PROVE  Fire(n, m, t) \in Reachable(n)
  <2>1. Fire(n, m, t) \in SUBSET n.places
    BY <1>2, FireType DEF Reachable, EnabledIn
  <2>2. ASSUME NEW C \in SUBSET SUBSET n.places, Stable(n, C)
        PROVE  Fire(n, m, t) \in C
    BY <2>2 DEF Reachable, Stable
  <2>3. QED
    BY <2>1, <2>2 DEF Reachable
<1>3. QED
  BY <1>1, <1>2 DEF Stable

\* ... and within every other.
LEMMA ReachableLeast ==
    ASSUME NEW n, NEW C \in SUBSET SUBSET n.places, Stable(n, C)
    PROVE  Reachable(n) \subseteq C
BY DEF Reachable

-----------------------------------------------------------------------------
\* The six transitions, spelled out.
LEMMA CoffeeTable ==
    /\ Trans(CoffeeNet) = {BoilWater, BrewCoffee, Credit, GrindBeans, PourCoffee, Send}
    /\ CoffeeNet.transitions[BoilWater] = Arcs({"Water"}, {"BoiledWater"}, {})
    /\ CoffeeNet.transitions[BrewCoffee] =
         Arcs({"BoiledWater", "GroundCoffee", "Filter"}, {"CoffeeInPot"}, {})
    /\ CoffeeNet.transitions[Credit] = Arcs({"Sent"}, {"Payment"}, {})
    /\ CoffeeNet.transitions[GrindBeans] = Arcs({"CoffeeBeans"}, {"GroundCoffee"}, {})
    /\ CoffeeNet.transitions[PourCoffee] = Arcs({"CoffeeInPot", "Cup"}, {}, {"Payment"})
    /\ CoffeeNet.transitions[Send] = Arcs({"Pending"}, {"Sent"}, {})
BY DEF CoffeeNet, CoffeeTransitions, Trans, BoilWater, BrewCoffee, Credit,
       GrindBeans, PourCoffee, Send

-----------------------------------------------------------------------------
(* The golden trace.                                                        *)

\* The markings of the coffee machine along parity/trace.golden.
GoldenMarkings == <<
    CoffeeInitial,
    {"BoiledWater", "CoffeeBeans", "Filter", "Cup", "Pending"},
    {"BoiledWater", "GroundCoffee", "Filter", "Cup", "Pending"},
    {"CoffeeInPot", "Cup", "Pending"},
    {"CoffeeInPot", "Cup", "Sent"},
    {"CoffeeInPot", "Cup", "Payment"},
    {"Payment"}>>

\* The canonical policy fires the golden transition and nothing before it.
LEMMA GoldenStep ==
    ASSUME NEW i \in 1..6
    PROVE  /\ Golden[i] \in 1..6
           /\ Enabled(CoffeeNet, GoldenMarkings[i], Golden[i])
           /\ \A t \in 1..6 : t < Golden[i] => ~Enabled(CoffeeNet, GoldenMarkings[i], t)
           /\ Fire(CoffeeNet, GoldenMarkings[i], Golden[i]) = GoldenMarkings[i + 1]
<1> USE CoffeeTable DEF Golden, GoldenMarkings, CoffeeInitial, Arcs, BoilWater, BrewCoffee,
           Credit, GrindBeans, PourCoffee, Send
<1>1. CASE i = 1
  BY <1>1 DEF Enabled, Fire
<1>2. CASE i = 2
  BY <1>2 DEF Enabled, Fire
<1>3. CASE i = 3
  BY <1>3 DEF Enabled, Fire
<1>4. CASE i = 4
  BY <1>4 DEF Enabled, Fire
<1>5. CASE i = 5
  BY <1>5 DEF Enabled, Fire
<1>6. CASE i = 6
  BY <1>6 DEF Enabled, Fire
<1>7. QED
  BY <1>1, <1>2, <1>3, <1>4, <1>5, <1>6

\* Where the golden trace ends nothing is enabled.
LEMMA GoldenEnd == \A t \in 1..6 : ~Enabled(CoffeeNet, GoldenMarkings[7], t)
BY CoffeeTable DEF GoldenMarkings, Arcs, Enabled, BoilWater, BrewCoffee, Credit,
   GrindBeans, PourCoffee, Send

\* Off the golden trace there are three choices, in the first three markings: what is
\* enabled there beside the golden transition.
LEMMA GoldenChoice ==
    ASSUME NEW i \in 1..6, NEW t \in 1..6
    PROVE  Enabled(CoffeeNet, GoldenMarkings[i], t) <=>
              \/ t = Golden[i]
              \/ i = 1 /\ t \in {GrindBeans, Send}
              \/ i = 2 /\ t = Send
              \/ i = 3 /\ t = Send
<1> USE CoffeeTable DEF Golden, GoldenMarkings, CoffeeInitial, Arcs, BoilWater, BrewCoffee,
           Credit, GrindBeans, PourCoffee, Send, Enabled
<1>1. CASE i = 1
  BY <1>1
<1>2. CASE i = 2
  BY <1>2
<1>3. CASE i = 3
  BY <1>3
<1>4. CASE i = 4
  BY <1>4
<1>5. CASE i = 5
  BY <1>5
<1>6. CASE i = 6
  BY <1>6
<1> HIDE CoffeeTable DEF Golden, GoldenMarkings, CoffeeInitial, Arcs, BoilWater, BrewCoffee,
            Credit, GrindBeans, PourCoffee, Send, Enabled
<1>7. QED
  BY <1>1, <1>2, <1>3, <1>4, <1>5, <1>6
-----------------------------------------------------------------------------
(* Sums.  What a fold computes is shown to be a count of units, and counts  *)
(* add up.                                                                  *)

\* A function to the integers.
IntValued(y) == \A p \in DOMAIN y : y[p] \in Int

\* One point for every unit of positive weight: y[p] of them over each place p.
Units(y, S) == {u \in S \X Nat : 1 <= u[2] /\ u[2] <= y[u[1]]}

\* The weights with their signs turned.
Negated(y) == [p \in DOMAIN y |-> -y[p]]

\* The weight of S, counted: the units above zero less those below.
Total(y, S) == Cardinality(Units(y, S)) - Cardinality(Units(Negated(y), S))

\* A finite set of places has finitely many units.
LEMMA UnitsFinite ==
    ASSUME NEW y, IntValued(y), NEW S, S \subseteq DOMAIN y, IsFiniteSet(S)
    PROVE  IsFiniteSet(Units(y, S)) /\ Cardinality(Units(y, S)) \in Nat
<1> DEFINE column(p) == {p} \X (1..y[p])
           T == {column(p) : p \in S}
           f == [p \in S |-> column(p)]
<1>1. f \in Surjection(S, T)
  BY DEF Surjection
<1>2. IsFiniteSet(T)
  BY <1>1, FS_Surjection
<1>3. \A c \in T : IsFiniteSet(c)
  <2> SUFFICES ASSUME NEW p \in S PROVE IsFiniteSet(column(p))
    OBVIOUS
  <2>1. IsFiniteSet({p})
    BY FS_Singleton
  <2>2. IsFiniteSet(1..y[p])
    BY FS_Interval DEF IntValued
  <2>3. QED
    BY <2>1, <2>2, FS_Product
<1>4. IsFiniteSet(UNION T)
  BY <1>2, <1>3, FS_UNION
<1>5. Units(y, S) \subseteq UNION T
  <2> SUFFICES ASSUME NEW u \in Units(y, S) PROVE u \in UNION T
    OBVIOUS
  <2>1. u \in S \X Nat /\ 1 <= u[2] /\ u[2] <= y[u[1]]
    BY DEF Units
  <2>2. u[1] \in S /\ y[u[1]] \in Int /\ u = <<u[1], u[2]>>
    BY <2>1 DEF IntValued
  <2>3. u \in column(u[1])
    BY <2>1, <2>2
  <2>4. QED
    BY <2>2, <2>3
<1>6. IsFiniteSet(Units(y, S))
  BY <1>4, <1>5, FS_Subset
<1>7. QED
  BY <1>6, FS_CardinalityType

\* The units of disjoint sets add up.
LEMMA UnitsOfUnion ==
    ASSUME NEW y, IntValued(y), NEW A, NEW B,
           A \subseteq DOMAIN y, B \subseteq DOMAIN y,
           IsFiniteSet(A), IsFiniteSet(B), A \cap B = {}
    PROVE  Cardinality(Units(y, A \cup B))
             = Cardinality(Units(y, A)) + Cardinality(Units(y, B))
<1> DEFINE a == Units(y, A)
           b == Units(y, B)
<1>1. Units(y, A \cup B) = a \cup b /\ a \cap b = {}
  BY DEF Units
<1>2. /\ IsFiniteSet(a) /\ Cardinality(a) \in Nat
      /\ IsFiniteSet(b) /\ Cardinality(b) \in Nat
  BY UnitsFinite
<1> HIDE DEF a, b
<1>3. Cardinality(a \cup b) = Cardinality(a) + Cardinality(b) - Cardinality(a \cap b)
  BY <1>2, FS_Union
<1>4. Cardinality(a \cap b) = 0
  BY <1>1, FS_EmptySet
<1>5. Cardinality(a \cup b) = Cardinality(a) + Cardinality(b)
  BY <1>2, <1>3, <1>4
<1>6. QED
  BY <1>1, <1>5 DEF a, b

\* A place has its weight in units, or none if that is not positive.
LEMMA UnitsOfOne ==
    ASSUME NEW y, IntValued(y), NEW p \in DOMAIN y
    PROVE  Cardinality(Units(y, {p})) = IF y[p] > 0 THEN y[p] ELSE 0
<1>1. y[p] \in Int
  BY DEF IntValued
<1>2. Units(y, {p}) = {p} \X (1..y[p])
  BY <1>1 DEF Units
<1>3. IsFiniteSet({p}) /\ Cardinality({p}) = 1
  BY FS_Singleton
<1>4. /\ IsFiniteSet(1..y[p])
      /\ Cardinality(1..y[p]) = IF y[p] > 0 THEN y[p] ELSE 0
  <2> DEFINE w == y[p]
  <2>1. w \in Int
    BY <1>1
  <2> HIDE DEF w
  <2>2. IsFiniteSet(1..w) /\ Cardinality(1..w) = IF 1 > w THEN 0 ELSE w - 1 + 1
    BY <2>1, FS_Interval
  <2>3. Cardinality(1..w) = IF w > 0 THEN w ELSE 0
    BY <2>1, <2>2
  <2>4. QED
    BY <2>2, <2>3 DEF w
<1>5. Cardinality({p} \X (1..y[p])) = 1 * Cardinality(1..y[p])
  BY <1>3, <1>4, FS_Product
<1> DEFINE c == Cardinality(1..y[p])
<1>6. c = (IF y[p] > 0 THEN y[p] ELSE 0) /\ c \in Int
  BY <1>1, <1>4
<1>7. Cardinality(Units(y, {p})) = 1 * c
  BY <1>2, <1>5
<1> HIDE DEF c
<1>8. 1 * c = c
  BY <1>6
<1>9. QED
  BY <1>6, <1>7, <1>8

\* The counted weight is what a sum should be: zero of nothing, the weight of a single
\* place, additive over disjoint sets.
LEMMA TotalFacts ==
    ASSUME NEW y, IntValued(y)
    PROVE  /\ Total(y, {}) = 0
           /\ \A p \in DOMAIN y : Total(y, {p}) = y[p]
           /\ \A S \in SUBSET DOMAIN y : IsFiniteSet(S) => Total(y, S) \in Int
           /\ \A A, B \in SUBSET DOMAIN y :
                 IsFiniteSet(A) /\ IsFiniteSet(B) /\ A \cap B = {} =>
                    Total(y, A \cup B) = Total(y, A) + Total(y, B)
<1>1. IntValued(Negated(y)) /\ DOMAIN Negated(y) = DOMAIN y
  BY DEF IntValued, Negated
<1>2. \A p \in DOMAIN y : y[p] \in Int /\ Negated(y)[p] = -y[p]
  BY DEF IntValued, Negated
<1>3. Total(y, {}) = 0
  <2>1. Units(y, {}) = {} /\ Units(Negated(y), {}) = {}
    BY DEF Units
  <2>2. QED
    BY <2>1, FS_EmptySet DEF Total
<1>4. ASSUME NEW p \in DOMAIN y
      PROVE  Total(y, {p}) = y[p]
  <2>1. Cardinality(Units(y, {p})) = IF y[p] > 0 THEN y[p] ELSE 0
    BY UnitsOfOne
  <2>2. Cardinality(Units(Negated(y), {p})) = IF -y[p] > 0 THEN -y[p] ELSE 0
    BY <1>1, <1>2, UnitsOfOne
  <2>3. QED
    BY <1>2, <2>1, <2>2 DEF Total
<1>5. ASSUME NEW S \in SUBSET DOMAIN y, IsFiniteSet(S)
      PROVE  /\ Total(y, S) \in Int
             /\ Cardinality(Units(y, S)) \in Nat
             /\ Cardinality(Units(Negated(y), S)) \in Nat
  BY <1>1, <1>5, UnitsFinite DEF Total
<1>6. ASSUME NEW A \in SUBSET DOMAIN y, NEW B \in SUBSET DOMAIN y,
             IsFiniteSet(A), IsFiniteSet(B), A \cap B = {}
      PROVE  Total(y, A \cup B) = Total(y, A) + Total(y, B)
  <2>1. Cardinality(Units(y, A \cup B))
          = Cardinality(Units(y, A)) + Cardinality(Units(y, B))
    BY <1>6, UnitsOfUnion
  <2>2. Cardinality(Units(Negated(y), A \cup B))
          = Cardinality(Units(Negated(y), A)) + Cardinality(Units(Negated(y), B))
    BY <1>1, <1>6, UnitsOfUnion
  <2>3. QED
    BY <1>5, <1>6, <2>1, <2>2 DEF Total
<1>7. QED
  BY <1>3, <1>4, <1>5, <1>6

\* The equation of the recursive function that the folds of the library apply to S.
Adds(y, S, f) ==
    f = [s \in SUBSET S |->
           IF s = {} THEN 0
           ELSE LET x == CHOOSE x \in s : TRUE IN y[x] + f[s \ {x}]]

\* That function sums.  It is a CHOOSE: that there is one is shown by the count, which
\* satisfies its equation; that there is only one, by a smallest set on which they would
\* differ.
LEMMA FoldIsTotal ==
    ASSUME NEW y, IntValued(y), NEW S, S \subseteq DOMAIN y, IsFiniteSet(S)
    PROVE  (CHOOSE f : Adds(y, S, f))[S] = Total(y, S)
<1> DEFINE sum == CHOOSE f : Adds(y, S, f)
           some(s) == CHOOSE x \in s : TRUE
<1>1. ASSUME NEW s \in SUBSET S, s # {}
      PROVE  /\ some(s) \in s
             /\ Total(y, s) = y[some(s)] + Total(y, s \ {some(s)})
  <2> DEFINE x == some(s)
  <2>1. x \in s
    BY <1>1
  <2> HIDE DEF x
  <2>2. IsFiniteSet({x}) /\ IsFiniteSet(s \ {x})
    BY FS_Singleton, FS_Subset
  <2>3. Total(y, {x} \cup (s \ {x})) = Total(y, {x}) + Total(y, s \ {x})
    BY <2>1, <2>2, TotalFacts
  <2>4. {x} \cup (s \ {x}) = s
    BY <2>1
  <2>5. Total(y, {x}) = y[x]
    BY <2>1, TotalFacts
  <2>6. QED
    BY <2>1, <2>3, <2>4, <2>5 DEF x
<1>2. Adds(y, S, [s \in SUBSET S |-> Total(y, s)])
  <2> DEFINE f == [s \in SUBSET S |-> Total(y, s)]
  <2>1. ASSUME NEW s \in SUBSET S
        PROVE  f[s] = IF s = {} THEN 0 ELSE y[some(s)] + f[s \ {some(s)}]
    <3>1. CASE s = {}
      BY <3>1, TotalFacts
    <3>2. CASE s # {}
      BY <1>1, <3>2
    <3>3. QED
      BY <3>1, <3>2
  <2> HIDE DEF f
  <2>2. f = [s \in SUBSET S |-> f[s]]
    BY DEF f
  <2>3. QED
    BY <2>1, <2>2, Zenon DEF Adds, f
<1>3. Adds(y, S, sum)
  BY <1>2, Zenon
<1> HIDE DEF sum
<1>4. \A s \in SUBSET S :
         sum[s] = IF s = {} THEN 0 ELSE y[some(s)] + sum[s \ {some(s)}]
  BY <1>3, Zenon DEF Adds
<1> HIDE DEF some
<1> DEFINE wrong == {s \in SUBSET S : sum[s] # Total(y, s)}
<1>5. wrong = {}
  <2> SUFFICES ASSUME wrong # {} PROVE FALSE
    OBVIOUS
  <2>1. wrong \subseteq FiniteSubsetsOf(S)
    BY FS_FiniteSubsetsOfFinite
  <2>2. PICK s \in wrong : \A r \in wrong : <<r, s>> \notin StrictSubsetOrdering(S)
    BY <2>1, FS_StrictSubsetOrderingWellFounded, WFMin, Zenon
  <2>3. s # {}
    BY <1>4, TotalFacts
  <2>4. some(s) \in s
    BY <1>1, <2>3
  <2>5. <<s \ {some(s)}, s>> \in StrictSubsetOrdering(S)
    BY <2>4 DEF StrictSubsetOrdering
  <2>6. s \ {some(s)} \notin wrong
    BY <2>2, <2>5
  <2>7. sum[s \ {some(s)}] = Total(y, s \ {some(s)})
    BY <2>6
  <2>8. QED
    BY <1>1, <1>4, <2>3, <2>7
<1>6. QED
  BY <1>5 DEF sum
=============================================================================
