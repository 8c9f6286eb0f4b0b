------------------------------ MODULE PetriNet ------------------------------
(* The net and its canonical semantics, as tools/codegen/internal/petri     *)
(* /petri.go computes them and FORMS.md ("Canonical semantics") states      *)
(* them.  A marking is the set of marked places.  A net is a record         *)
(*                                                                          *)
(*    places       the places                                               *)
(*    initial      the initially marked places                              *)
(*    transitions  a sequence of transitions in sorted order of their names *)
(*                                                                          *)
(* so a transition is known by its rank in the sort, and "lexicographically *)
(* least" is the least rank.  The arcs of a transition are the four sets    *)
(* that normalize sorts them into.                                          *)
EXTENDS Integers, Sequences, FiniteSets

\* The transitions over places P: petri.Transition with its arcs classified.
Transition(P) == [inputs : SUBSET P, outputs : SUBSET P,
                  guards : SUBSET P, blockers : SUBSET P]

\* petri.Model: what Load returns.
IsNet(net) ==
    /\ net = [places |-> net.places, initial |-> net.initial,
              transitions |-> net.transitions]
    /\ net.initial \subseteq net.places
    /\ net.transitions \in Seq(Transition(net.places))

\* The ranks of a net's transitions.
Trans(net) == DOMAIN net.transitions

\* Mutant: the clause that outputs are clear is forgotten.
Enabled_OutputsUnchecked(net, marking, t) ==
    LET tr == net.transitions[t]
    IN  /\ tr.inputs \cup tr.guards \subseteq marking
        /\ tr.blockers \cap marking = {}

\* The four clauses of the enablement rule: inputs marked, outputs clear,
\* guards marked, blockers clear.
Enabled(net, marking, t) ==
    LET tr == net.transitions[t]
    IN  /\ tr.inputs \subseteq marking
        /\ tr.outputs \cap marking = {}
        /\ tr.guards \subseteq marking
        /\ tr.blockers \cap marking = {}

EnabledIn(net, marking) == {t \in Trans(net) : Enabled(net, marking, t)}

\* The transitions of T as a list, in the order of their names.
InOrder(T) ==
    [k \in 1..Cardinality(T) |->
        CHOOSE t \in T : Cardinality({u \in T : u < t}) = k - 1]

\* Remove the inputs, then add the outputs.
Fire(net, marking, t) ==
    (marking \ net.transitions[t].inputs) \cup net.transitions[t].outputs

Terminal(net, marking) == EnabledIn(net, marking) = {}

-----------------------------------------------------------------------------
(* Structure: what the arcs alone say of a pair of transitions.             *)

\* No two transitions consume from the same place (analysis.go, ConflictFree).
ConflictFree(net) ==
    \A t, u \in Trans(net) :
        t # u => net.transitions[t].inputs \cap net.transitions[u].inputs = {}

\* Firing u cannot disable t: u neither consumes what t needs nor marks a
\* place that t needs clear.
Undisturbed(net, t, u) ==
    LET T == net.transitions[t]
        U == net.transitions[u]
    IN  /\ U.inputs \cap (T.inputs \cup T.guards) = {}
        /\ U.outputs \cap (T.outputs \cup T.blockers) = {}

\* No transition can disable another: the net has no choice to make.
Persistent(net) == \A t, u \in Trans(net) : t # u => Undisturbed(net, t, u)

-----------------------------------------------------------------------------
(* model.json: the coffee machine.                                          *)

BoilWater  == 1
BrewCoffee == 2
Credit     == 3
GrindBeans == 4
PourCoffee == 5
Send       == 6

CoffeePlaces == {"BoiledWater", "CoffeeBeans", "CoffeeInPot", "Cup", "Filter",
                 "GroundCoffee", "Payment", "Pending", "Sent", "Water"}

CoffeeInitial == {"Water", "CoffeeBeans", "Filter", "Cup", "Pending"}

Arcs(ins, outs, gs) == [inputs |-> ins, outputs |-> outs,
                        guards |-> gs, blockers |-> {}]

\* Mutant: the filter is not used up.
CoffeeTransitions_FilterKept == <<
    Arcs({"Water"}, {"BoiledWater"}, {}),
    Arcs({"BoiledWater", "GroundCoffee"}, {"CoffeeInPot"}, {"Filter"}),
    Arcs({"Sent"}, {"Payment"}, {}),
    Arcs({"CoffeeBeans"}, {"GroundCoffee"}, {}),
    Arcs({"CoffeeInPot", "Cup"}, {}, {"Payment"}),
    Arcs({"Pending"}, {"Sent"}, {}) >>

\* Mutant: the guard of PourCoffee is missing.
CoffeeTransitions_PourUnguarded == <<
    Arcs({"Water"}, {"BoiledWater"}, {}),
    Arcs({"BoiledWater", "GroundCoffee", "Filter"}, {"CoffeeInPot"}, {}),
    Arcs({"Sent"}, {"Payment"}, {}),
    Arcs({"CoffeeBeans"}, {"GroundCoffee"}, {}),
    Arcs({"CoffeeInPot", "Cup"}, {}, {}),
    Arcs({"Pending"}, {"Sent"}, {}) >>

\* Mutant: the guard of PourCoffee is drawn as an input arc.
CoffeeTransitions_PourSpends == <<
    Arcs({"Water"}, {"BoiledWater"}, {}),
    Arcs({"BoiledWater", "GroundCoffee", "Filter"}, {"CoffeeInPot"}, {}),
    Arcs({"Sent"}, {"Payment"}, {}),
    Arcs({"CoffeeBeans"}, {"GroundCoffee"}, {}),
    Arcs({"CoffeeInPot", "Cup", "Payment"}, {}, {}),
    Arcs({"Pending"}, {"Sent"}, {}) >>

CoffeeTransitions == <<
    Arcs({"Water"}, {"BoiledWater"}, {}),
    Arcs({"BoiledWater", "GroundCoffee", "Filter"}, {"CoffeeInPot"}, {}),
    Arcs({"Sent"}, {"Payment"}, {}),
    Arcs({"CoffeeBeans"}, {"GroundCoffee"}, {}),
    Arcs({"CoffeeInPot", "Cup"}, {}, {"Payment"}),
    Arcs({"Pending"}, {"Sent"}, {}) >>

CoffeeNet == [places |-> CoffeePlaces, initial |-> CoffeeInitial,
              transitions |-> CoffeeTransitions]

\* parity/trace.golden: the firing sequence, and the marking it ends in.
Golden == <<BoilWater, GrindBeans, BrewCoffee, Send, Credit, PourCoffee>>
Served == {"Payment"}
=============================================================================
