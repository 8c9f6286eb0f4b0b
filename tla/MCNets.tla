------------------------------- MODULE MCNets -------------------------------
(* The nets that the model-checking runs quantify over: the coffee machine  *)
(* and families of all the nets of a small shape.                           *)
EXTENDS PetriNet

P2 == {"a", "b"}

TwoTransitionNets(Transitions) ==
    {[places |-> P2, initial |-> init, transitions |-> <<t, u>>] :
        init \in SUBSET P2, t \in Transitions, u \in Transitions}

\* Every two-transition net over two places, with at most one test arc for each
\* transition, and those with no test arc at all.
SmallTransitions ==
    {tr \in Transition(P2) : Cardinality(tr.guards) + Cardinality(tr.blockers) <= 1}

PlainTransitions ==
    [inputs : SUBSET P2, outputs : SUBSET P2, guards : {{}}, blockers : {{}}]

SmallNets == TwoTransitionNets(SmallTransitions)

\* Those whose second transition has no test arc.
HalfPlainNets ==
    {[places |-> P2, initial |-> init, transitions |-> <<t, u>>] :
        init \in SUBSET P2, t \in SmallTransitions, u \in PlainTransitions}

\* A basis of the coffee machine's invariants (PInvariants, lean/proof.lean).
CoffeeVector(plus, minus) ==
    [p \in CoffeePlaces |-> IF p \in plus THEN 1 ELSE IF p \in minus THEN -1 ELSE 0]

CoffeeWeightings ==
    {CoffeeVector({"BoiledWater", "CoffeeInPot", "Water"}, {"Cup"}),
     CoffeeVector({"CoffeeBeans", "CoffeeInPot", "GroundCoffee"}, {"Cup"}),
     CoffeeVector({"CoffeeInPot", "Filter"}, {"Cup"}),
     CoffeeVector({"Payment", "Pending", "Sent"}, {})}

MCNets == SmallNets \cup {CoffeeNet}
MCWeightings == [P2 -> -2..2] \cup CoffeeWeightings
=============================================================================
