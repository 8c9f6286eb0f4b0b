---------------------------- MODULE MCProofForm -----------------------------
(* ProofForm on the coffee machine, on two slips in writing it down, and on *)
(* every net of two places and two transitions without inhibitor arcs.      *)
EXTENDS ProofForm, MCNets

Q2 == {"Payment", "Other"}

ReadTransitions == {tr \in Transition(Q2) : tr.blockers = {} /\ Cardinality(tr.guards) <= 1}

\* A second source of payment breaks 1-safety; a cup that is not consumed is
\* left over in the end.
CoffeeSlips ==
    {[CoffeeNet EXCEPT !.transitions[GrindBeans].outputs = @ \cup {"Payment"}],
     [CoffeeNet EXCEPT !.transitions[PourCoffee].inputs = {"CoffeeInPot"}]}

SmallProofNets ==
    {[places |-> Q2, initial |-> init, transitions |-> <<t, u>>] :
        init \in SUBSET Q2, t \in ReadTransitions, u \in ReadTransitions}

MCNetsOfProof == {CoffeeNet} \cup CoffeeSlips \cup SmallProofNets

=============================================================================
