------------------------------ MODULE LeanForm ------------------------------
(* The Lean proof form, tools/codegen/templates/lean.tmpl, from the Model   *)
(* that it is generated from to its verdict: Analysis chooses the theorems  *)
(* and computes their constants, explore searches the net again, on lists   *)
(* of counts and under place/transition semantics, and the file elaborates  *)
(* only if every theorem evaluates to true.                                 *)
(*                                                                          *)
(* explore is a structural recursion on its fuel, 2^n for n places.         *)
EXTENDS Analysis, PTNet

VARIABLES fuel,         \* the recursion depth left
          listed,       \* seen: the markings found, a list
          queue         \* frontier: those still to be expanded, a list

leanVars == <<analysisVars, fuel, listed, queue>>

LeanInit == AnalysisInit /\ fuel = 0 /\ listed = <<>> /\ queue = <<>>

Analyse == AnalysisNext /\ UNCHANGED <<fuel, listed, queue>>

\* Mutant: inhibitor arcs are not looked at.
LeanEnabled_BlockersUnchecked(m, t) == PTEnabled(Net, m, t)

\* enabled: inputs and guards marked, blockers empty.
LeanEnabled(m, t) == /\ PTEnabled(Net, m, t)
                     /\ \A p \in Net.transitions[t].blockers : m[p] = 0

\* successors: the enabled transitions, fired.
LeanSuccessors(m) == {PTFire(Net, m, t) : t \in {t \in Trans(Net) : LeanEnabled(m, t)}}

\* The successors of m that known does not have, one entry for each transition.
Fresh(m, known) ==
    LET ts == InOrder({t \in Trans(Net) : /\ LeanEnabled(m, t)
                                          /\ PTFire(Net, m, t) \notin known})
    IN  [k \in DOMAIN ts |-> PTFire(Net, m, ts[k])]

\* reachable: the search starts, unless the fuel is no Nat.
Generate ==
    /\ phase = "shown"
    /\ phase' = IF view.fuel < 0 THEN "rejected" ELSE "search"
    /\ fuel' = view.fuel
    /\ listed' = <<InitialTokens(Net)>>
    /\ queue' = listed'
    /\ UNCHANGED <<model, width, all, terminals, unvisited, matrix, col, pivotCols, basis, view>>

\* Mutant: what is queued already is queued again.
Search_Requeues ==
    /\ phase = "search"
    /\ fuel > 0
    /\ queue # <<>>
    /\ LET expanded == SubSeq(listed, 1, Len(listed) - Len(queue))
           fresh == Fresh(Head(queue), ToSet(expanded))
       IN  /\ listed' = listed \o fresh
           /\ queue' = Tail(queue) \o fresh
    /\ fuel' = fuel - 1
    /\ UNCHANGED analysisVars

\* explore (fuel + 1) seen (m :: frontier).  Two transitions that lead to the
\* same new marking put it into fresh twice.
Search ==
    /\ phase = "search"
    /\ fuel > 0
    /\ queue # <<>>
    /\ LET fresh == Fresh(Head(queue), ToSet(listed))
       IN  /\ listed' = listed \o fresh
           /\ queue' = Tail(queue) \o fresh
    /\ fuel' = fuel - 1
    /\ UNCHANGED analysisVars

Deadlocked(m) == \A t \in Trans(Net) : ~LeanEnabled(m, t)

ReachableClosed ==
    \A m \in ToSet(listed) : LeanSuccessors(m) \subseteq ToSet(listed)

ReachableOneSafe == \A m \in ToSet(listed) : OneSafe(Net, m)

\* weighted: the sum of a weight for each token.
WeightedCount(w, m) == SumOf([p \in 1..NP |-> w[p] * m[model.places[p]]])

\* invariant1_conserved, invariant2_conserved, ...
InvariantsConserved ==
    \A k \in DOMAIN basis : \A m \in ToSet(listed) :
        WeightedCount(basis[k], m) = view.initial[k]

FinalMarking == [p \in Net.places |-> IF p \in view.final THEN 1 ELSE 0]

\* unique_deadlock: the list has one deadlock, once; stated if a final marking is
\* known.
UniqueDeadlock ==
    view.final # {} =>
        \E k \in DOMAIN listed : /\ listed[k] = FinalMarking
                                 /\ {j \in DOMAIN listed : Deadlocked(listed[j])} = {k}

Theorems == /\ ReachableClosed
            /\ ReachableOneSafe
            /\ InvariantsConserved
            /\ UniqueDeadlock

\* The recursion ends; `decide` evaluates the theorems.
Elaborate ==
    /\ phase = "search"
    /\ fuel = 0 \/ queue = <<>>
    /\ phase' = IF Theorems THEN "elaborated" ELSE "rejected"
    /\ UNCHANGED <<model, width, all, terminals, unvisited, matrix, col, pivotCols,
                   basis, view, fuel, listed, queue>>

LeanNext == Analyse \/ Generate \/ Search \/ Elaborate

LeanSpec == LeanInit /\ [][LeanNext]_leanVars
-----------------------------------------------------------------------------
OutOfFuel == phase = "search" /\ fuel = 0 /\ queue # <<>>

\* The fuel is 2^n and not what an int of the given width keeps of it.
FuelHasRoom == NP < width - 1

\* No two transitions have the same effect on the counts.
Effect(t) == [p \in Net.places |->
    (IF p \in Net.transitions[t].outputs THEN 1 ELSE 0)
    - (IF p \in Net.transitions[t].inputs THEN 1 ELSE 0)]

DistinctEffects == \A t, u \in Trans(Net) : Effect(t) = Effect(u) => t = u

\* A marking is in the list more than once.
ListedTwice == ~IsInjective(listed)

\* The comment on explore: "The frontier bound is 2^n: past it, some marking
\* must exceed one token, and theorem 1 has already failed."  It is so if the
\* effects of the transitions differ: then no marking is queued twice, and a
\* search that ends with fuel to spare has closed the space.
FuelSuffices ==
    FuelHasRoom /\ DistinctEffects =>
        /\ OutOfFuel => ~ReachableOneSafe
        /\ phase = "search" /\ queue = <<>> => ReachableClosed

\* A file is refused for the reason it is meant to find, a marking with two tokens in
\* one place, or for one of four that a sound net may have as well: the fuel is cut
\* to the width of an int; a sum is not conserved, because an arc occurs twice
\* (Incidence counts it twice, firing once) or an integer has no room; transitions with
\* one effect have put a marking into the list twice, which spends the fuel on copies
\* and makes two deadlocks of one; a transition consumes and produces in one place, so
\* that the clause on outputs has led Go to another final marking.  In all other nets
\* what Go computed from sets holds for Lean's counts.
Elaborates ==
    phase = "rejected" =>
        \/ ~ReachableOneSafe
        \/ ~FuelHasRoom
        \/ ~InvariantsConserved /\ ~SumsHaveRoom
        \/ ListedTwice /\ ~DistinctEffects /\ ~(ReachableClosed /\ UniqueDeadlock)
        \/ ~NoSelfLoops(Net) /\ ~UniqueDeadlock

\* In a file that elaborated, the two searches found one space, terminals
\* included, although one of them tests that outputs are clear and the other
\* does not.
SpacesAgree ==
    phase = "elaborated" /\ NoSelfLoops(Net) =>
        /\ {Support(Net, m) : m \in ToSet(listed)} = ToSet(all)
        /\ view.reachCount = Cardinality(ToSet(listed))
        /\ {Support(Net, m) : m \in {m \in ToSet(listed) : Deadlocked(m)}} = ToSet(terminals)
=============================================================================
