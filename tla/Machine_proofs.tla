--------------------------- MODULE Machine_proofs ---------------------------
(* Proofs about Machine and, in the second half, about two runs of it       *)
(* (Reruns): for every net that is loaded, and for the coffee machine.      *)
EXTENDS Reruns, PetriNet_proofs

-----------------------------------------------------------------------------
(* Every net.                                                               *)

\* The marking holds places of the net, and nothing else, for ever.
THEOREM TypeCorrect == Spec => []TypeOK
<1>1. Init => TypeOK
  BY NetsAssumption DEF Init, TypeOK, IsNet
<1>2. TypeOK /\ [Next]_vars => TypeOK'
  <2> SUFFICES ASSUME TypeOK, [Next]_vars
               PROVE  TypeOK'
    OBVIOUS
  <2>1. ASSUME NEW t \in Trans(net), FireTransition(t)
        PROVE  TypeOK'
    BY <2>1, FireType DEF TypeOK, FireTransition
  <2>2. CASE UNCHANGED vars
    BY <2>2 DEF TypeOK, vars
  <2> QED
    BY <2>1, <2>2 DEF Next
<1> QED
  BY <1>1, <1>2, PTL DEF Spec

\* The machine is only ever in a marking of the state space.
InStateSpace == marking \in Reachable(net)

\* What the machine reaches, the tool that lists the state space has listed.
THEOREM StaysInStateSpace == Spec => []InStateSpace
<1>1. Init => InStateSpace
  BY NetsAssumption, ReachableStable DEF Init, InStateSpace, Stable
<1>2. TypeOK /\ InStateSpace /\ [Next]_vars => InStateSpace'
  <2> SUFFICES ASSUME TypeOK, InStateSpace, [Next]_vars
               PROVE  InStateSpace'
    OBVIOUS
  <2>1. ASSUME NEW t \in Trans(net), FireTransition(t)
        PROVE  InStateSpace'
    <3>1. t \in EnabledIn(net, marking)
      BY <2>1 DEF FireTransition, EnabledIn
    <3>2. Fire(net, marking, t) \in Reachable(net)
      BY <3>1, ReachableStable DEF TypeOK, InStateSpace, Stable
    <3>3. QED
      BY <2>1, <3>2 DEF InStateSpace, FireTransition
  <2>2. CASE UNCHANGED vars
    BY <2>2 DEF InStateSpace, vars
  <2>3. QED
    BY <2>1, <2>2 DEF Next
<1>3. QED
  BY <1>1, <1>2, TypeCorrect, PTL DEF Spec

\* No transition of any net loses its enablement but by firing or to an arc of
\* the one that fires.
THEOREM NoSpuriousDisabling == Spec => DisabledOnlyByConflict
<1>1. [Next]_vars => [KeepsUndisturbed]_vars
  <2>1. ASSUME NEW t \in Trans(net), NEW u \in Trans(net),
               Enabled(net, marking, t), FireTransition(u), Undisturbed(net, t, u)
        PROVE  Enabled(net, marking, t)'
    <3>1. Enabled(net, Fire(net, marking, u), t)
      BY <2>1, UndisturbedStaysEnabled DEF FireTransition
    <3> QED
      BY <2>1, <3>1 DEF FireTransition, Enabled
  <2> QED
    BY <2>1 DEF KeepsUndisturbed
<1> QED
  BY <1>1, PTL DEF Spec, DisabledOnlyByConflict
-----------------------------------------------------------------------------
(* Sums of weights.                                                         *)

\* What Weighted computes is the sum.
LEMMA WeightedIsTotal ==
    ASSUME NEW y, IsWeighting(y), NEW S, S \subseteq DOMAIN y, IsFiniteSet(S)
    PROVE  Weighted(y, S) = Total(y, S)
<1>1. Weighted(y, S) = (CHOOSE f : Adds(y, S, f))[S]
  BY Zenon DEF Weighted, MapThenSumSet, MapThenFoldSet, Adds
<1>2. IntValued(y)
  BY DEF IntValued, IsWeighting
<1>3. QED
  BY <1>1, <1>2, FoldIsTotal

\* A firing takes the inputs, which were marked, and adds the outputs, which were not:
\* with equal weights the sum stays.
LEMMA FireConserves ==
    ASSUME NEW n, IsNet(n), IsFiniteSet(n.places), NEW y, IsWeighting(y),
           IsPInvariant(n, y), NEW M \in SUBSET n.places, NEW t \in Trans(n),
           Enabled(n, M, t)
    PROVE  Weighted(y, Fire(n, M, t)) = Weighted(y, M)
<1> DEFINE ins == n.transitions[t].inputs
           outs == n.transitions[t].outputs
<1>1. /\ ins \in SUBSET n.places /\ outs \in SUBSET n.places
      /\ ins \subseteq M /\ outs \cap M = {}
      /\ Fire(n, M, t) = (M \ ins) \cup outs
  BY TransitionType DEF Enabled, Fire, Transition
<1>2. Weighted(y, ins) = Weighted(y, outs) /\ DOMAIN y = n.places
  BY DEF IsPInvariant
<1> HIDE DEF ins, outs
<1>3. /\ IsFiniteSet(ins) /\ IsFiniteSet(outs) /\ IsFiniteSet(M)
      /\ IsFiniteSet(M \ ins) /\ IsFiniteSet((M \ ins) \cup outs)
  <2>1. \A S \in SUBSET n.places : IsFiniteSet(S)
    BY FS_Subset
  <2>2. QED
    BY <1>1, <2>1
<1>4. /\ Total(y, (M \ ins) \cup outs) = Total(y, M \ ins) + Total(y, outs)
      /\ Total(y, (M \ ins) \cup ins) = Total(y, M \ ins) + Total(y, ins)
  <2>1. M \ ins \in SUBSET DOMAIN y /\ ins \in SUBSET DOMAIN y /\ outs \in SUBSET DOMAIN y
    BY <1>1, <1>2
  <2>2. (M \ ins) \cap outs = {} /\ (M \ ins) \cap ins = {}
    BY <1>1
  <2>3. IntValued(y)
    BY DEF IntValued, IsWeighting
  <2>4. QED
    BY <1>3, <2>1, <2>2, <2>3, TotalFacts
<1>5. (M \ ins) \cup ins = M
  BY <1>1
<1>6. \A S \in SUBSET n.places : IsFiniteSet(S) => Weighted(y, S) = Total(y, S)
  BY <1>2, WeightedIsTotal
<1>7. Total(y, ins) = Total(y, outs)
  BY <1>1, <1>2, <1>3, <1>6
<1>8. Weighted(y, (M \ ins) \cup outs) = Total(y, M)
  BY <1>1, <1>3, <1>4, <1>5, <1>6, <1>7
<1>9. QED
  BY <1>1, <1>3, <1>6, <1>8

\* Conserved is inductive once the marking is known to hold places of the net.
ConservedInv == net \in Nets /\ TypeOK /\ Conserved

\* For every net and every vector of the left nullspace of its incidence matrix, the
\* weighted sum of the tokens is what it was in the initial marking: the theorem that
\* codegen states for each vector of PInvariants.
THEOREM Conservation == Spec => []Conserved
<1>1. Init => ConservedInv
  BY NetsAssumption DEF Init, ConservedInv, TypeOK, IsNet, Conserved
<1>2. ConservedInv /\ [Next]_vars => ConservedInv'
  <2> SUFFICES ASSUME ConservedInv, [Next]_vars PROVE ConservedInv'
    OBVIOUS
  <2>1. ASSUME NEW t \in Trans(net), FireTransition(t)
        PROVE  ConservedInv'
    <3>1. /\ net' = net /\ Enabled(net, marking, t)
          /\ marking' = Fire(net, marking, t)
          /\ net \in Nets /\ IsNet(net) /\ IsFiniteSet(net.places)
          /\ marking \in SUBSET net.places
      BY <2>1, NetsAssumption DEF ConservedInv, TypeOK, FireTransition
    <3>2. marking' \in SUBSET net.places
      BY <3>1, FireType
    <3>3. ASSUME NEW y \in Weightings, IsPInvariant(net, y)
          PROVE  Weighted(y, marking') = Weighted(y, net.initial)
      <4>1. Weighted(y, Fire(net, marking, t)) = Weighted(y, marking)
        BY <3>1, <3>3, FireConserves, WeightingsAssumption
      <4>2. QED
        BY <3>1, <3>3, <4>1 DEF ConservedInv, Conserved
    <3>4. QED
      BY <3>1, <3>2, <3>3 DEF ConservedInv, TypeOK, Conserved
  <2>2. CASE UNCHANGED vars
    BY <2>2 DEF ConservedInv, TypeOK, Conserved, vars
  <2>3. QED
    BY <2>1, <2>2 DEF Next
<1>3. ConservedInv => Conserved
  BY DEF ConservedInv
<1>4. QED
  BY <1>1, <1>2, <1>3, PTL DEF Spec

-----------------------------------------------------------------------------
(* The coffee machine.                                                      *)

\* The coffee invariant: the four conserved sums and the guard, together with
\* the marking holding only places of the net.
CoffeeInv ==
    /\ TypeOK
    /\ CoffeeConserved
    /\ PaidBeforePoured

LEMMA CoffeeInitially == Init => CoffeeInv
<1> SUFFICES ASSUME Init, net = CoffeeNet
             PROVE  CoffeeConserved /\ PaidBeforePoured
  BY NetsAssumption DEF Init, CoffeeInv, TypeOK, IsNet, CoffeeConserved, PaidBeforePoured
<1>1. marking = {"Water", "CoffeeBeans", "Filter", "Cup", "Pending"}
  BY DEF Init, CoffeeNet, CoffeeInitial
<1> QED
  BY <1>1 DEF CoffeeConserved, PaidBeforePoured, Tokens

\* Each of the six transitions keeps the four sums, and none of them takes the
\* cup without the payment.
LEMMA CoffeeStep == CoffeeInv /\ [Next]_vars => CoffeeInv'
<1> SUFFICES ASSUME CoffeeInv, [Next]_vars
             PROVE  CoffeeInv'
  OBVIOUS
<1>1. TypeOK'
  <2>1. ASSUME NEW t \in Trans(net), FireTransition(t)
        PROVE  TypeOK'
    BY <2>1, FireType DEF CoffeeInv, TypeOK, FireTransition
  <2> QED
    BY <2>1 DEF CoffeeInv, TypeOK, Next, vars
<1>2. CASE UNCHANGED vars
  BY <1>1, <1>2 DEF CoffeeInv, CoffeeConserved, PaidBeforePoured, Tokens, vars
<1>3. CASE net # CoffeeNet
  BY <1>1, <1>3 DEF CoffeeInv, CoffeeConserved, PaidBeforePoured, Next, FireTransition, vars
<1>4. ASSUME net = CoffeeNet, NEW t \in Trans(net), FireTransition(t)
      PROVE  CoffeeInv'
  <2> USE <1>1, <1>4, CoffeeTable
      DEF CoffeeInv, CoffeeConserved, PaidBeforePoured, Tokens, FireTransition,
          Enabled, Fire, Arcs
  <2>1. CASE t = BoilWater
    BY <2>1
  <2>2. CASE t = BrewCoffee
    BY <2>2
  <2>3. CASE t = Credit
    BY <2>3
  <2>4. CASE t = GrindBeans
    BY <2>4
  <2>5. CASE t = PourCoffee
    BY <2>5
  <2>6. CASE t = Send
    BY <2>6
  <2> QED
    BY <2>1, <2>2, <2>3, <2>4, <2>5, <2>6
<1> QED
  BY <1>2, <1>3, <1>4 DEF Next

\* A coffee marking that enables nothing is the served one.
LEMMA CoffeeEnds == CoffeeInv => UniqueOutcome
<1> SUFFICES ASSUME CoffeeInv, net = CoffeeNet, Terminal(net, marking)
             PROVE  marking = Served
  BY DEF UniqueOutcome
<1>1. \A t \in Trans(net) : ~Enabled(net, marking, t)
  BY DEF Terminal, EnabledIn
<1>2. marking \subseteq CoffeePlaces
  BY DEF CoffeeInv, TypeOK, CoffeeNet
<1> USE CoffeeTable DEF CoffeeInv, CoffeeConserved, Tokens, Enabled, Arcs
<1>3. "Pending" \notin marking /\ "Sent" \notin marking /\ "Payment" \in marking
  <2>1. ~Enabled(net, marking, Send) /\ ~Enabled(net, marking, Credit)
    BY <1>1
  <2> QED
    BY <2>1
<1>4. "Water" \notin marking
  <2>1. ~Enabled(net, marking, BoilWater)
    BY <1>1
  <2> QED
    BY <2>1
<1>5. "CoffeeBeans" \notin marking
  <2>1. ~Enabled(net, marking, GrindBeans)
    BY <1>1
  <2> QED
    BY <2>1
<1>6. "BoiledWater" \notin marking /\ "GroundCoffee" \notin marking
        /\ "Filter" \notin marking
  <2>1. ~Enabled(net, marking, BrewCoffee)
    BY <1>1
  <2> QED
    BY <2>1, <1>4, <1>5
<1>7. "CoffeeInPot" \notin marking /\ "Cup" \notin marking
  <2>1. ~Enabled(net, marking, PourCoffee)
    BY <1>1
  <2> QED
    BY <2>1, <1>3, <1>6
<1> QED
  BY <1>2, <1>3, <1>4, <1>5, <1>6, <1>7 DEF Served, CoffeePlaces

\* The sums that lean/proof.lean states are conserved by every firing sequence.
THEOREM CoffeeConservation == Spec => []CoffeeConserved
BY CoffeeInitially, CoffeeStep, PTL DEF Spec, CoffeeInv

\* The coffee is never poured unpaid.
THEOREM NeverPouredUnpaid == Spec => []PaidBeforePoured
BY CoffeeInitially, CoffeeStep, PTL DEF Spec, CoffeeInv

\* Wherever the coffee machine stops, the coffee is served and paid for.
THEOREM AlwaysServed == Spec => []UniqueOutcome
BY CoffeeInitially, CoffeeStep, CoffeeEnds, PTL DEF Spec

-----------------------------------------------------------------------------
(* Two runs.  In a net without choice no scheduling policy changes the       *)
(* outcome, for every bound on the firings.  Places hold one token or none,  *)
(* so a marking is determined by how often each transition has fired, and a  *)
(* step of one run can be carried over to the other.                        *)

(* Counting: what a vector of firings says of a place.                      *)

Producers(n, p) == {t \in Trans(n) : p \in n.transitions[t].outputs}
Consumers(n, p) == {t \in Trans(n) : p \in n.transitions[t].inputs}

\* How often the one element of T has fired.
Count(c, T) == IF T = {} THEN 0 ELSE c[CHOOSE t \in T : TRUE]

\* The tokens on p after the firings c.
TokensAfter(n, c, p) == (IF p \in n.initial THEN 1 ELSE 0)
                        + Count(c, Producers(n, p)) - Count(c, Consumers(n, p))

Vectors(n) == [Trans(n) -> Nat]

\* The firings c mark exactly the places m.
Marks(n, c, m) == \A p \in n.places : TokensAfter(n, c, p) = IF p \in m THEN 1 ELSE 0

\* Enabled, read off the firings instead of off the marking.
EnabledAfter(n, c, t) ==
    LET tr == n.transitions[t]
    IN  /\ \A p \in tr.inputs \cup tr.guards : TokensAfter(n, c, p) >= 1
        /\ \A p \in tr.outputs \cup tr.blockers : TokensAfter(n, c, p) <= 0

OnceMore(c, t) == [c EXCEPT ![t] = @ + 1]

\* Of the vectors below c, each other than c can be extended toward c.
Exchange(n, c) ==
    \A r \in Vectors(n) :
        (\A t \in Trans(n) : r[t] <= c[t]) /\ r # c =>
            \E t \in Trans(n) : r[t] < c[t] /\ EnabledAfter(n, r, t)

AtMostOne(T) == \A x, y \in T : x = y

\* A set of at most one transition has fired as often as its element.
LEMMA CountOne ==
    ASSUME NEW T, AtMostOne(T), NEW t \in T, NEW c
    PROVE  Count(c, T) = c[t]
BY DEF Count, AtMostOne

\* A count is a number of firings.
LEMMA CountNat ==
    ASSUME NEW n, NEW c \in Vectors(n), NEW T \in SUBSET Trans(n)
    PROVE  Count(c, T) \in Nat
<1>1. CASE T = {}
  BY <1>1 DEF Count
<1>2. CASE T # {}
  <2>1. (CHOOSE t \in T : TRUE) \in Trans(n)
    BY <1>2
  <2>2. QED
    BY <1>2, <2>1 DEF Count, Vectors
<1>3. QED
  BY <1>1, <1>2

\* One more firing counts where its transition does.
LEMMA CountStep ==
    ASSUME NEW n, NEW c \in Vectors(n), NEW t \in Trans(n),
           NEW T \in SUBSET Trans(n), AtMostOne(T)
    PROVE  /\ OnceMore(c, t) \in Vectors(n)
           /\ Count(OnceMore(c, t), T) = Count(c, T) + IF t \in T THEN 1 ELSE 0
<1>1. OnceMore(c, t) \in Vectors(n)
  BY DEF OnceMore, Vectors
<1>2. CASE T = {}
  BY <1>1, <1>2 DEF Count
<1>3. CASE T # {}
  <2>1. PICK u \in T : TRUE
    BY <1>3
  <2>2. Count(c, T) = c[u] /\ Count(OnceMore(c, t), T) = OnceMore(c, t)[u]
    BY <2>1, CountOne
  <2>3. t \in T <=> t = u
    BY <2>1 DEF AtMostOne
  <2>4. OnceMore(c, t)[u] = IF t = u THEN c[u] + 1 ELSE c[u]
    BY DEF OnceMore, Vectors
  <2>5. c[u] \in Nat
    BY DEF Vectors
  <2>6. QED
    BY <1>1, <2>2, <2>3, <2>4, <2>5
<1>4. QED
  BY <1>2, <1>3

\* In a net without choice a place has one producer and one consumer at most.
LEMMA OneEach ==
    ASSUME NEW n, Persistent(n), NEW p
    PROVE  /\ Producers(n, p) \in SUBSET Trans(n) /\ AtMostOne(Producers(n, p))
           /\ Consumers(n, p) \in SUBSET Trans(n) /\ AtMostOne(Consumers(n, p))
BY DEF Persistent, Undisturbed, Producers, Consumers, AtMostOne

\* What one more firing does to the tokens on a place.
LEMMA TokensAfterStep ==
    ASSUME NEW n, Persistent(n), NEW c \in Vectors(n), NEW t \in Trans(n), NEW p
    PROVE  /\ TokensAfter(n, c, p) \in Int
           /\ TokensAfter(n, OnceMore(c, t), p)
                = TokensAfter(n, c, p)
                  + (IF p \in n.transitions[t].outputs THEN 1 ELSE 0)
                  - (IF p \in n.transitions[t].inputs THEN 1 ELSE 0)
<1> DEFINE P == Producers(n, p)
           C == Consumers(n, p)
<1>1. P \in SUBSET Trans(n) /\ AtMostOne(P) /\ C \in SUBSET Trans(n) /\ AtMostOne(C)
  BY OneEach
<1>2. /\ t \in P <=> p \in n.transitions[t].outputs
      /\ t \in C <=> p \in n.transitions[t].inputs
  BY DEF Producers, Consumers
<1>3. Count(c, P) \in Nat /\ Count(c, C) \in Nat
  BY <1>1, CountNat
<1>4. /\ Count(OnceMore(c, t), P) = Count(c, P) + IF t \in P THEN 1 ELSE 0
      /\ Count(OnceMore(c, t), C) = Count(c, C) + IF t \in C THEN 1 ELSE 0
  BY <1>1, CountStep
<1> HIDE DEF P, C
<1>5. /\ TokensAfter(n, c, p)
           = (IF p \in n.initial THEN 1 ELSE 0) + Count(c, P) - Count(c, C)
      /\ TokensAfter(n, OnceMore(c, t), p)
           = (IF p \in n.initial THEN 1 ELSE 0)
             + Count(OnceMore(c, t), P) - Count(OnceMore(c, t), C)
  BY DEF TokensAfter, P, C
<1>6. QED
  BY <1>2, <1>3, <1>4, <1>5

-----------------------------------------------------------------------------
(* Steps, seen through the counts.                                          *)

\* Enabledness can be read off the firings.
LEMMA EnabledCounts ==
    ASSUME NEW n, IsNet(n), NEW c, NEW m, Marks(n, c, m), NEW t \in Trans(n)
    PROVE  Enabled(n, m, t) <=> EnabledAfter(n, c, t)
<1>1. n.transitions[t] \in Transition(n.places)
  BY TransitionType
<1>2. \A p \in n.places : /\ p \in m <=> TokensAfter(n, c, p) >= 1
                          /\ p \notin m <=> TokensAfter(n, c, p) <= 0
  BY DEF Marks
<1>3. QED
  BY <1>1, <1>2 DEF Enabled, EnabledAfter, Transition

\* Before anything fires the counts mark the initial places.
LEMMA MarksInitially ==
    ASSUME NEW n
    PROVE  Marks(n, [t \in Trans(n) |-> 0], n.initial)
<1> DEFINE zero == [t \in Trans(n) |-> 0]
<1>1. ASSUME NEW T \in SUBSET Trans(n)
      PROVE  Count(zero, T) = 0
  <2>1. CASE T = {}
    BY <2>1 DEF Count
  <2>2. CASE T # {}
    <3>1. (CHOOSE t \in T : TRUE) \in Trans(n)
      BY <2>2
    <3>2. QED
      BY <2>2, <3>1 DEF Count
  <2>3. QED
    BY <2>1, <2>2
<1>2. ASSUME NEW p
      PROVE  Count(zero, Producers(n, p)) = 0 /\ Count(zero, Consumers(n, p)) = 0
  <2>1. Producers(n, p) \in SUBSET Trans(n) /\ Consumers(n, p) \in SUBSET Trans(n)
    BY DEF Producers, Consumers
  <2>2. QED
    BY <1>1, <2>1
<1> HIDE DEF zero
<1>3. QED
  BY <1>2 DEF Marks, TokensAfter, zero

\* Firing keeps the counts and the marking in step.
LEMMA MarksStep ==
    ASSUME NEW n, IsNet(n), Persistent(n), NEW c \in Vectors(n), NEW m,
           NEW t \in Trans(n), Marks(n, c, m), Enabled(n, m, t)
    PROVE  Marks(n, OnceMore(c, t), Fire(n, m, t))
<1> SUFFICES ASSUME NEW p \in n.places
             PROVE  TokensAfter(n, OnceMore(c, t), p) = IF p \in Fire(n, m, t) THEN 1 ELSE 0
  BY DEF Marks
<1>1. TokensAfter(n, c, p) = IF p \in m THEN 1 ELSE 0
  BY DEF Marks
<1>2. TokensAfter(n, OnceMore(c, t), p)
        = TokensAfter(n, c, p) + (IF p \in n.transitions[t].outputs THEN 1 ELSE 0)
                          - (IF p \in n.transitions[t].inputs THEN 1 ELSE 0)
  BY TokensAfterStep
<1>3. /\ p \in n.transitions[t].inputs => p \in m
      /\ p \in n.transitions[t].outputs => p \notin m
      /\ p \in Fire(n, m, t) <=> \/ p \in m /\ p \notin n.transitions[t].inputs
                                 \/ p \in n.transitions[t].outputs
  BY DEF Enabled, Fire
<1>4. QED
  BY <1>1, <1>2, <1>3

\* A transition stays enabled while others fire.
LEMMA StaysEnabled ==
    ASSUME NEW n, IsNet(n), Persistent(n), NEW c \in Vectors(n),
           NEW t \in Trans(n), NEW u \in Trans(n), t # u, EnabledAfter(n, c, u)
    PROVE  EnabledAfter(n, OnceMore(c, t), u)
<1> DEFINE tr == n.transitions[u]
<1>1. Undisturbed(n, u, t)
  BY DEF Persistent
<1>2. \A p \in tr.inputs \cup tr.guards : p \notin n.transitions[t].inputs
  BY <1>1 DEF Undisturbed
<1>3. \A p \in tr.outputs \cup tr.blockers : p \notin n.transitions[t].outputs
  BY <1>1 DEF Undisturbed
<1>4. \A p : /\ TokensAfter(n, c, p) \in Int
             /\ TokensAfter(n, OnceMore(c, t), p)
                  = TokensAfter(n, c, p) + (IF p \in n.transitions[t].outputs THEN 1 ELSE 0)
                                    - (IF p \in n.transitions[t].inputs THEN 1 ELSE 0)
  BY TokensAfterStep
<1>5. ASSUME NEW p \in tr.inputs \cup tr.guards
      PROVE  TokensAfter(n, OnceMore(c, t), p) >= 1
  <2>1. TokensAfter(n, c, p) >= 1
    BY DEF EnabledAfter
  <2>2. QED
    BY <1>2, <1>4, <2>1
<1>6. ASSUME NEW p \in tr.outputs \cup tr.blockers
      PROVE  TokensAfter(n, OnceMore(c, t), p) <= 0
  <2>1. TokensAfter(n, c, p) <= 0
    BY DEF EnabledAfter
  <2>2. QED
    BY <1>3, <1>4, <2>1
<1>7. QED
  BY <1>5, <1>6 DEF EnabledAfter

\* A transition that has fired equally often in both is enabled after the longer
\* firings if it is after the shorter ones: the others only prepare it.
LEMMA EnabledCarriesOver ==
    ASSUME NEW n, IsNet(n), Persistent(n), NEW c \in Vectors(n), NEW r \in Vectors(n),
           \A t \in Trans(n) : r[t] <= c[t],
           NEW u \in Trans(n), r[u] = c[u], EnabledAfter(n, r, u)
    PROVE  EnabledAfter(n, c, u)
<1> DEFINE tr == n.transitions[u]
<1>1. ASSUME NEW T \in SUBSET Trans(n), AtMostOne(T)
      PROVE  /\ Count(r, T) \in Nat /\ Count(c, T) \in Nat
             /\ Count(r, T) <= Count(c, T)
             /\ T \subseteq {u} => Count(r, T) = Count(c, T)
  <2>1. Count(r, T) \in Nat /\ Count(c, T) \in Nat
    BY CountNat
  <2>2. CASE T = {}
    BY <2>2 DEF Count
  <2>3. CASE T # {}
    <3>1. PICK t \in T : TRUE
      BY <2>3
    <3>2. Count(r, T) = r[t] /\ Count(c, T) = c[t]
      BY <1>1, <3>1, CountOne
    <3>3. QED
      BY <2>1, <3>1, <3>2
  <2>4. QED
    BY <2>1, <2>2, <2>3
<1>2. ASSUME NEW p \in tr.inputs \cup tr.guards
      PROVE  TokensAfter(n, c, p) >= 1
  <2>1. TokensAfter(n, r, p) >= 1
    BY DEF EnabledAfter
  <2>2. Consumers(n, p) \subseteq {u}
    BY DEF Persistent, Undisturbed, Consumers
  <2>3. /\ Count(r, Consumers(n, p)) = Count(c, Consumers(n, p))
        /\ Count(r, Producers(n, p)) <= Count(c, Producers(n, p))
        /\ Count(r, Consumers(n, p)) \in Nat /\ Count(c, Consumers(n, p)) \in Nat
        /\ Count(r, Producers(n, p)) \in Nat /\ Count(c, Producers(n, p)) \in Nat
    BY <1>1, <2>2, OneEach
  <2>4. QED
    BY <2>1, <2>3 DEF TokensAfter
<1>3. ASSUME NEW p \in tr.outputs \cup tr.blockers
      PROVE  TokensAfter(n, c, p) <= 0
  <2>1. TokensAfter(n, r, p) <= 0
    BY DEF EnabledAfter
  <2>2. Producers(n, p) \subseteq {u}
    BY DEF Persistent, Undisturbed, Producers
  <2>3. /\ Count(r, Consumers(n, p)) <= Count(c, Consumers(n, p))
        /\ Count(r, Producers(n, p)) = Count(c, Producers(n, p))
        /\ Count(r, Consumers(n, p)) \in Nat /\ Count(c, Consumers(n, p)) \in Nat
        /\ Count(r, Producers(n, p)) \in Nat /\ Count(c, Producers(n, p)) \in Nat
    BY <1>1, <2>2, OneEach
  <2>4. QED
    BY <2>1, <2>3 DEF TokensAfter
<1>4. QED
  BY <1>2, <1>3 DEF EnabledAfter

\* The exchange property survives a firing.
LEMMA ExchangeStep ==
    ASSUME NEW n, IsNet(n), Persistent(n), NEW c \in Vectors(n),
           NEW t \in Trans(n), Exchange(n, c), EnabledAfter(n, c, t)
    PROVE  Exchange(n, OnceMore(c, t))
<1> DEFINE d == OnceMore(c, t)
<1>1. /\ d \in Vectors(n)
      /\ \A u \in Trans(n) : d[u] = IF u = t THEN c[u] + 1 ELSE c[u]
  BY DEF OnceMore, Vectors
<1> HIDE DEF d
<1> SUFFICES ASSUME NEW r \in Vectors(n), \A u \in Trans(n) : r[u] <= d[u], r # d
             PROVE  \E u \in Trans(n) : r[u] < d[u] /\ EnabledAfter(n, r, u)
  BY DEF Exchange, d
<1>2. /\ \A u \in Trans(n) : c[u] \in Nat /\ r[u] \in Nat /\ d[u] \in Nat
      /\ c = [u \in Trans(n) |-> c[u]] /\ r = [u \in Trans(n) |-> r[u]]
      /\ d = [u \in Trans(n) |-> d[u]]
  BY <1>1 DEF Vectors
<1>3. CASE r = c
  BY <1>1, <1>2, <1>3
<1>4. CASE r # c /\ \A u \in Trans(n) : r[u] <= c[u]
  <2>1. PICK u \in Trans(n) : r[u] < c[u] /\ EnabledAfter(n, r, u)
    BY <1>4 DEF Exchange
  <2>2. r[u] < d[u]
    BY <1>1, <1>2, <2>1
  <2>3. QED
    BY <2>1, <2>2
<1>5. CASE ~ \A u \in Trans(n) : r[u] <= c[u]
  <2> DEFINE q == [r EXCEPT ![t] = c[t]]
  <2>1. r[t] = c[t] + 1
    BY <1>1, <1>2, <1>5
  <2>2. q \in Vectors(n) /\ \A u \in Trans(n) : q[u] = IF u = t THEN c[u] ELSE r[u]
    BY <1>2 DEF Vectors
  <2>3. r = OnceMore(q, t)
    BY <1>2, <2>1, <2>2 DEF OnceMore, Vectors
  <2> HIDE DEF q
  <2>4. \A u \in Trans(n) : q[u] <= c[u]
    BY <1>1, <1>2, <2>2
  <2>5. q # c
    BY <2>3 DEF d
  <2>6. PICK u \in Trans(n) : q[u] < c[u] /\ EnabledAfter(n, q, u)
    BY <2>2, <2>4, <2>5 DEF Exchange
  <2>7. u # t
    BY <1>2, <2>2, <2>6
  <2>8. EnabledAfter(n, r, u)
    BY <2>2, <2>3, <2>6, <2>7, StaysEnabled
  <2>9. r[u] < d[u]
    BY <1>1, <2>2, <2>6, <2>7
  <2>10. QED
    BY <2>8, <2>9
<1>6. QED
  BY <1>3, <1>4, <1>5

-----------------------------------------------------------------------------
(* The inductive invariant.                                                 *)

RerunTyping ==
    /\ net \in Nets
    /\ marking \in SUBSET net.places /\ firings \in Vectors(net)
    /\ second \in SUBSET net.places /\ refirings \in Vectors(net)

Bounded == \A t \in Trans(net) : refirings[t] <= firings[t]

RerunInv ==
    /\ RerunTyping
    /\ Persistent(net) => /\ Marks(net, firings, marking)
                          /\ Marks(net, refirings, second)
                          /\ Exchange(net, firings)
                          /\ Bounded

\* Two runs that have not begun.
LEMMA RerunInitially == RerunInit => RerunInv
<1> SUFFICES ASSUME RerunInit PROVE RerunInv
  OBVIOUS
<1> DEFINE zero == [t \in Trans(net) |-> 0]
<1>1. zero \in Vectors(net) /\ firings = zero /\ refirings = zero
  BY DEF RerunInit, Init, Vectors
<1>2. RerunTyping
  BY <1>1, NetsAssumption DEF RerunInit, Init, RerunTyping, IsNet
<1>3. Marks(net, firings, marking) /\ Marks(net, refirings, second)
  BY <1>1, MarksInitially DEF RerunInit, Init
<1>4. Exchange(net, firings)
  <2> SUFFICES ASSUME NEW r \in Vectors(net), \A t \in Trans(net) : r[t] <= zero[t]
               PROVE  r = zero
    BY <1>1 DEF Exchange
  <2>1. \A t \in Trans(net) : r[t] = 0
    BY DEF Vectors
  <2>2. QED
    BY <2>1 DEF Vectors
<1>5. Bounded
  BY <1>1 DEF Bounded
<1>6. QED
  BY <1>2, <1>3, <1>4, <1>5 DEF RerunInv

\* A step of the first run.
LEMMA FirstInv ==
    ASSUME RerunInv, NEW t \in Trans(net), FirstFires(t)
    PROVE  RerunInv'
<1>1. /\ IsNet(net) /\ Enabled(net, marking, t)
      /\ net' = net /\ second' = second /\ refirings' = refirings
      /\ marking' = Fire(net, marking, t) /\ firings' = OnceMore(firings, t)
  BY NetsAssumption DEF RerunInv, RerunTyping, FirstFires, FireTransition, OnceMore
<1>2. RerunTyping'
  <2>1. marking' \in SUBSET net.places
    BY <1>1, FireType DEF RerunInv, RerunTyping
  <2>2. firings' \in Vectors(net)
    BY <1>1 DEF RerunInv, RerunTyping, OnceMore, Vectors
  <2>3. QED
    BY <1>1, <2>1, <2>2 DEF RerunInv, RerunTyping
<1>3. ASSUME Persistent(net)
      PROVE  /\ Marks(net, firings', marking') /\ Marks(net, refirings', second')
             /\ Exchange(net, firings') /\ Bounded'
  <2>1. Marks(net, firings', marking')
    BY <1>1, <1>3, MarksStep DEF RerunInv, RerunTyping
  <2>2. EnabledAfter(net, firings, t)
    BY <1>1, <1>3, EnabledCounts DEF RerunInv
  <2>3. Exchange(net, firings')
    BY <1>1, <1>3, <2>2, ExchangeStep DEF RerunInv, RerunTyping
  <2>4. Bounded'
    <3> SUFFICES ASSUME NEW u \in Trans(net) PROVE refirings'[u] <= firings'[u]
      BY <1>1 DEF Bounded
    <3>1. /\ refirings[u] \in Nat /\ firings[u] \in Nat /\ refirings[u] <= firings[u]
          /\ firings'[u] = IF u = t THEN firings[u] + 1 ELSE firings[u]
      BY <1>1, <1>3 DEF RerunInv, RerunTyping, Vectors, Bounded, OnceMore
    <3>2. QED
      BY <1>1, <3>1
  <2>5. QED
    BY <1>1, <1>3, <2>1, <2>3, <2>4 DEF RerunInv
<1>4. QED
  BY <1>1, <1>2, <1>3 DEF RerunInv

\* A step of the second run: had its transition fired as often as in the first
\* run already, it would be enabled where the first run ended.
LEMMA SecondInv ==
    ASSUME RerunInv, NEW t \in Trans(net), SecondFires(t)
    PROVE  RerunInv'
<1>1. /\ IsNet(net) /\ Terminal(net, marking) /\ Enabled(net, second, t)
      /\ net' = net /\ marking' = marking /\ firings' = firings
      /\ second' = Fire(net, second, t) /\ refirings' = OnceMore(refirings, t)
  BY NetsAssumption DEF RerunInv, RerunTyping, SecondFires, OnceMore, vars
<1>2. RerunTyping'
  <2>1. second' \in SUBSET net.places
    BY <1>1, FireType DEF RerunInv, RerunTyping
  <2>2. refirings' \in Vectors(net)
    BY <1>1 DEF RerunInv, RerunTyping, OnceMore, Vectors
  <2>3. QED
    BY <1>1, <2>1, <2>2 DEF RerunInv, RerunTyping
<1>3. ASSUME Persistent(net)
      PROVE  /\ Marks(net, firings', marking') /\ Marks(net, refirings', second')
             /\ Exchange(net, firings') /\ Bounded'
  <2>1. Marks(net, refirings', second')
    BY <1>1, <1>3, MarksStep DEF RerunInv, RerunTyping
  <2>2. EnabledAfter(net, refirings, t)
    BY <1>1, <1>3, EnabledCounts DEF RerunInv
  <2>3. refirings[t] # firings[t]
    <3> SUFFICES ASSUME refirings[t] = firings[t] PROVE FALSE
      OBVIOUS
    <3>1. EnabledAfter(net, firings, t)
      BY <1>1, <1>3, <2>2, EnabledCarriesOver DEF RerunInv, RerunTyping, Bounded
    <3>2. Enabled(net, marking, t)
      BY <1>1, <1>3, <3>1, EnabledCounts DEF RerunInv
    <3>3. QED
      BY <1>1, <3>2 DEF Terminal, EnabledIn
  <2>4. Bounded'
    <3> SUFFICES ASSUME NEW u \in Trans(net) PROVE refirings'[u] <= firings'[u]
      BY <1>1 DEF Bounded
    <3>1. /\ refirings[u] \in Nat /\ firings[u] \in Nat /\ refirings[u] <= firings[u]
          /\ refirings'[u] = IF u = t THEN refirings[u] + 1 ELSE refirings[u]
      BY <1>1, <1>3 DEF RerunInv, RerunTyping, Vectors, Bounded, OnceMore
    <3>2. QED
      BY <1>1, <2>3, <3>1
  <2>5. QED
    BY <1>1, <1>3, <2>1, <2>4 DEF RerunInv
<1>4. QED
  BY <1>1, <1>2, <1>3 DEF RerunInv

\* The invariant is inductive.
THEOREM RerunInvariance == RerunSpec => []RerunInv
<1>1. RerunInv /\ [RerunNext]_rerunVars => RerunInv'
  <2> SUFFICES ASSUME RerunInv, [RerunNext]_rerunVars PROVE RerunInv'
    OBVIOUS
  <2>1. CASE RerunNext
    BY <2>1, FirstInv, SecondInv DEF RerunNext
  <2>2. CASE UNCHANGED rerunVars
    BY <2>2 DEF rerunVars, vars, RerunInv, RerunTyping, Bounded
  <2>3. QED
    BY <2>1, <2>2
<1>2. QED
  BY RerunInitially, <1>1, PTL DEF RerunSpec

-----------------------------------------------------------------------------
\* Whatever the policies, in a net without choice a run that ends bounds every
\* other run: no transition fires more often in the second.
THEOREM NoRunOutlastsHolds == RerunSpec => []NoRunOutlasts
<1>1. RerunInv => NoRunOutlasts
  BY DEF RerunInv, Bounded, NoRunOutlasts
<1>2. QED
  BY <1>1, RerunInvariance, PTL

\* ... and ends in the same marking after the same firings: if the second run
\* were short of a firing, the exchange property would name one that is enabled
\* where it ended.
THEOREM SameOutcomeHolds == RerunSpec => []SameOutcome
<1>1. RerunInv => SameOutcome
  <2> SUFFICES ASSUME RerunInv, Persistent(net), BothEnded
               PROVE  marking = second /\ firings = refirings
    BY DEF SameOutcome
  <2>1. IsNet(net)
    BY NetsAssumption DEF RerunInv, RerunTyping
  <2>2. firings = refirings
    <3> SUFFICES ASSUME refirings # firings PROVE FALSE
      OBVIOUS
    <3>1. PICK t \in Trans(net) : EnabledAfter(net, refirings, t)
      BY DEF RerunInv, RerunTyping, Exchange, Bounded
    <3>2. Enabled(net, second, t)
      BY <2>1, <3>1, EnabledCounts DEF RerunInv
    <3>3. QED
      BY <3>2 DEF BothEnded, Terminal, EnabledIn
  <2>3. \A p \in net.places : p \in marking <=> p \in second
    BY <2>2 DEF RerunInv, Marks
  <2>4. QED
    BY <2>2, <2>3 DEF RerunInv, RerunTyping
<1>2. QED
  BY <1>1, RerunInvariance, PTL

\* The first run is a run of the machine, whatever the second does.
THEOREM FirstRunIsMachine == RerunSpec => Spec
<1>1. RerunInit => Init
  BY DEF RerunInit
<1>2. [RerunNext]_rerunVars => [Next]_vars
  <2> SUFFICES ASSUME [RerunNext]_rerunVars PROVE [Next]_vars
    OBVIOUS
  <2>1. ASSUME NEW t \in Trans(net), FirstFires(t)
        PROVE  Next
    BY <2>1 DEF FirstFires, Next
  <2>2. ASSUME NEW t \in Trans(net), SecondFires(t)
        PROVE  UNCHANGED vars
    BY <2>2 DEF SecondFires
  <2>3. CASE UNCHANGED rerunVars
    BY <2>3 DEF rerunVars
  <2>4. QED
    BY <2>1, <2>2, <2>3 DEF RerunNext
<1>3. QED
  BY <1>1, <1>2, PTL DEF RerunSpec, Spec
=============================================================================
