---------------------------- MODULE MCScheduler -----------------------------
(* Scheduler on the coffee machine with each of the 720 candidate orders,   *)
(* and on small nets with their sorted and their reversed candidates.       *)
EXTENDS Scheduler, MCNets

CoffeeOrders == {f \in [1..6 -> 1..6] : IsInjective(f)}

ASSUME GoldenOrders ==
    LET at(f, t) == CHOOSE k \in 1..6 : f[k] = t
    IN  Cardinality({f \in CoffeeOrders :
                        /\ at(f, BoilWater) < at(f, GrindBeans)
                        /\ at(f, GrindBeans) < at(f, Send)
                        /\ at(f, BrewCoffee) < at(f, Send)}) = 90

MCPrograms ==
    [net : {CoffeeNet}, candidates : CoffeeOrders]
    \cup [net : HalfPlainNets, candidates : {<<1, 2>>, <<2, 1>>}]

MCMaxSteps == 6
=============================================================================
