------------------------------- MODULE PTNet --------------------------------
(* The proof form's reading of a net: a marking is a multiset, a count for  *)
(* each place, and enablement is plain place/transition semantics, without  *)
(* the clause that outputs are clear (golang/proof/main.go).                *)
EXTENDS PetriNet

Markings(net) == [net.places -> Nat]

InitialTokens(net) == [p \in net.places |-> IF p \in net.initial THEN 1 ELSE 0]

\* Mutant: the guards are not looked at.
PTEnabled_GuardsUnchecked(net, m, t) ==
    \A p \in net.transitions[t].inputs : m[p] >= 1

\* Inputs and guards hold a token; nothing is asked of the outputs.
PTEnabled(net, m, t) ==
    \A p \in net.transitions[t].inputs \cup net.transitions[t].guards : m[p] >= 1

PTEnabledIn(net, m) == {t \in Trans(net) : PTEnabled(net, m, t)}

PTFire(net, m, t) ==
    LET tr == net.transitions[t]
    IN  [p \in net.places |-> m[p] - (IF p \in tr.inputs THEN 1 ELSE 0)
                                   + (IF p \in tr.outputs THEN 1 ELSE 0)]

Successors(net, m) == {PTFire(net, m, t) : t \in PTEnabledIn(net, m)}

\* Mutant: off by one.
OneSafe_UpToTwo(net, m) == \A p \in net.places : m[p] <= 2

OneSafe(net, m) == \A p \in net.places : m[p] <= 1

IsDeadlock(net, m) == PTEnabledIn(net, m) = {}

\* The places that render shows.
Support(net, m) == {p \in net.places : m[p] > 0}

-----------------------------------------------------------------------------
(* The proof form's nets have no inhibitor arcs, and no transition that     *)
(* consumes and produces in the same place.                                 *)
NoBlockers(net) == \A t \in Trans(net) : net.transitions[t].blockers = {}

NoSelfLoops(net) ==
    \A t \in Trans(net) :
        net.transitions[t].inputs \cap net.transitions[t].outputs = {}
=============================================================================
