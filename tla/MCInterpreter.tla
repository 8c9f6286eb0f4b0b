--------------------------- MODULE MCInterpreter ----------------------------
(* Interpreter on the coffee machine, with its transitions declared in each *)
(* of the 720 orders, and on every small net, its arrows listed in two      *)
(* orders.                                                                  *)
EXTENDS Interpreter, MCNets, SequencesExt

CoffeeOrders == {f \in [1..6 -> 1..6] : IsInjective(f)}

In(p, t) == [place |-> p, transition |-> t, into |-> TRUE]
Out(t, p) == [place |-> p, transition |-> t, into |-> FALSE]

\* NewCoffeeMachine, its arrows and guards in the order written there.
CoffeeArrows == <<
    In("Water", BoilWater), Out(BoilWater, "BoiledWater"),
    In("CoffeeBeans", GrindBeans), Out(GrindBeans, "GroundCoffee"),
    In("BoiledWater", BrewCoffee), In("GroundCoffee", BrewCoffee),
    In("Filter", BrewCoffee), Out(BrewCoffee, "CoffeeInPot"),
    In("CoffeeInPot", PourCoffee), In("Cup", PourCoffee),
    In("Pending", Send), Out(Send, "Sent"),
    In("Sent", Credit), Out(Credit, "Payment")>>

CoffeeMachines ==
    {[name |-> "coffee", places |-> CoffeePlaces, initial |-> CoffeeInitial,
      arrows |-> CoffeeArrows, guards |-> <<Out(PourCoffee, "Payment")>>,
      declared |-> f] : f \in CoffeeOrders}

\* The arrows of a net as a list, and the same list reversed.
ArrowList(n, ins(_), outs(_)) ==
    SetToSeq(UNION {{In(p, t) : p \in ins(n.transitions[t])} : t \in Trans(n)})
    \o SetToSeq(UNION {{Out(t, p) : p \in outs(n.transitions[t])} : t \in Trans(n)})

MachineOf(n, flip) ==
    LET arrows == ArrowList(n, LAMBDA tr : tr.inputs, LAMBDA tr : tr.outputs)
    IN  [name |-> "small", places |-> n.places, initial |-> n.initial,
         arrows |-> IF flip THEN Reverse(arrows) ELSE arrows,
         guards |-> ArrowList(n, LAMBDA tr : tr.blockers, LAMBDA tr : tr.guards),
         declared |-> <<2, 1>>]

TestTransitions == {tr \in SmallTransitions : Cardinality(tr.outputs) <= 1}

SmallMachines ==
    {MachineOf(n, flip) : n \in TwoTransitionNets(TestTransitions), flip \in BOOLEAN}

MCMachines == CoffeeMachines \cup SmallMachines
MCMaxSteps == 6
=============================================================================
