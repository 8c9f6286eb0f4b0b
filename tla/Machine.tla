------------------------------ MODULE Machine -------------------------------
(* The machine every implementation promises to be: FORMS.md, "Canonical    *)
(* semantics", as petri.Enabled and petri.Fire compute it.  Any enabled      *)
(* transition may fire; which one does is the business of a scheduler, a    *)
(* driver or a caller.  The forms are shown to implement this module.       *)
(*                                                                          *)
(* The net is whatever Load returned, so it is a variable that never        *)
(* changes: one run checks every net of a family, and the theorems hold for *)
(* every net.                                                               *)
EXTENDS PetriNet, FiniteSetsExt

CONSTANTS Nets,         \* the nets the machine may be built from
          Weightings    \* weight vectors over the places of some net

\* A weight for every place of some net.
IsWeighting(y) == \A p \in DOMAIN y : y[p] \in Int

ASSUME NetsAssumption == \A n \in Nets : IsNet(n) /\ IsFiniteSet(n.places)
ASSUME WeightingsAssumption == \A y \in Weightings : IsWeighting(y)

VARIABLES net,          \* the loaded Model; never changes
          marking       \* the set of marked places

vars == <<net, marking>>

TypeOK == /\ IsNet(net)
          /\ marking \subseteq net.places

Init == /\ net \in Nets
        /\ marking = net.initial

FireTransition(t) ==
    /\ Enabled(net, marking, t)
    /\ marking' = Fire(net, marking, t)
    /\ UNCHANGED net

Next == \E t \in Trans(net) : FireTransition(t)

Spec == Init /\ [][Next]_vars
-----------------------------------------------------------------------------
(* Conservation.                                                            *)

\* Sum of the weights of the places of S.
Weighted(y, S) == MapThenSumSet(LAMBDA p : y[p], S)

\* yC = 0, where C is Incidence of analysis.go: what a transition consumes
\* weighs what it produces.
IsPInvariant(n, y) ==
    /\ DOMAIN y = n.places
    /\ \A t \in Trans(n) : Weighted(y, n.transitions[t].inputs)
                         = Weighted(y, n.transitions[t].outputs)

\* Every vector of the left nullspace of the incidence matrix is conserved by
\* every firing sequence, from the arcs alone: the theorem invariant<k>_conserved
\* that codegen emits for each vector of PInvariants.  It needs the clause that
\* outputs are clear: a token produced into a marked place would be lost.
Conserved ==
    \A y \in Weightings :
        IsPInvariant(net, y) => Weighted(y, marking) = Weighted(y, net.initial)

-----------------------------------------------------------------------------
(* The coffee machine.                                                      *)

Tokens(p) == IF p \in marking THEN 1 ELSE 0

\* The four invariants lean/proof.lean states, as equations on the marking.
CoffeeConserved ==
    net = CoffeeNet =>
        /\ Tokens("Water") + Tokens("BoiledWater") + Tokens("CoffeeInPot")
             = Tokens("Cup")
        /\ Tokens("CoffeeBeans") + Tokens("GroundCoffee")
             + Tokens("CoffeeInPot") = Tokens("Cup")
        /\ Tokens("Filter") + Tokens("CoffeeInPot") = Tokens("Cup")
        /\ Tokens("Pending") + Tokens("Sent") + Tokens("Payment") = 1

\* The cup is gone only once the payment is in: the one guard of the model, the
\* read arc of PourCoffee, makes the coffee chain wait for the payment chain
\* whatever the order in which the two advance.
PaidBeforePoured ==
    net = CoffeeNet /\ "Cup" \notin marking => "Payment" \in marking

\* Claim 2 of the proof form: wherever the machine stops, it has served the
\* coffee and kept the payment, for all the firing sequences.
UniqueOutcome ==
    net = CoffeeNet /\ Terminal(net, marking) => marking = Served

-----------------------------------------------------------------------------
(* Choice.                                                                  *)

\* A transition that loses its enablement without firing lost it to an arc of
\* the one that fired: it was disturbed.  In a persistent net (the coffee
\* machine is one) an enabled transition therefore waits for ever, which is why
\* a scheduling policy decides the order and never the outcome.
KeepsUndisturbed ==
    \A t, u \in Trans(net) :
        /\ Enabled(net, marking, t)
        /\ FireTransition(u)
        /\ t # u
        /\ Undisturbed(net, t, u)
        => Enabled(net, marking, t)'

DisabledOnlyByConflict == [][KeepsUndisturbed]_vars
=============================================================================
