------------------------------ MODULE MCLambda ------------------------------
(* Lambda with each of the 720 schedules.                                   *)
EXTENDS Lambda, FiniteSetsExt

AllSchedules == {f \in [1..6 -> 1..6] : \A j, k \in 1..6 : f[j] = f[k] => j = k}

\* The comment on ServesExactly counts them.
ASSUME CausalSchedules ==
    LET at(f, t) == CHOOSE k \in 1..6 : f[k] = t
    IN  Cardinality({f \in AllSchedules :
                        /\ at(f, BoilWater) < at(f, BrewCoffee)
                        /\ at(f, GrindBeans) < at(f, BrewCoffee)
                        /\ at(f, BrewCoffee) < at(f, PourCoffee)
                        /\ at(f, Send) < at(f, Credit)
                        /\ at(f, Credit) < at(f, PourCoffee)}) = 20
=============================================================================
