----------------------------- MODULE MCLeanForm -----------------------------
(* LeanForm on the coffee machine, on nets of two places and two or three   *)
(* transitions, on lists in which arcs occur twice, and on nets of four     *)
(* places whose invariants have weights that differ.                        *)
EXTENDS LeanForm, MCNets

\* The Model of a net, its places listed in the given order.
Listed(net, places) ==
    LET List(S) == SelectSeq(places, LAMBDA p : p \in S)
    IN  [places |-> places, initial |-> List(net.initial),
         transitions |-> [t \in DOMAIN net.transitions |->
             [arcs \in DOMAIN net.transitions[t] |-> List(net.transitions[t][arcs])]]]

CoffeeModel ==
    Listed(CoffeeNet, <<"BoiledWater", "CoffeeBeans", "CoffeeInPot", "Cup", "Filter",
                        "GroundCoffee", "Payment", "Pending", "Sent", "Water">>)

\* Three transitions of which two consume one token.
MoveTransitions == {tr \in PlainTransitions : Cardinality(tr.inputs) = 1}

ThreeMoveNets ==
    {[places |-> P2, initial |-> init, transitions |-> <<t, u, v>>] :
        init \in SUBSET P2, t \in MoveTransitions, u \in MoveTransitions,
        v \in PlainTransitions}

\* Lists with repetitions.
Lists == {<<>>, <<"a">>, <<"a", "a">>, <<"b", "b">>, <<"a", "b">>}

ListModels ==
    {[places |-> <<"a", "b">>, initial |-> init,
      transitions |-> <<[inputs |-> ins, outputs |-> outs,
                         guards |-> <<>>, blockers |-> <<>>]>>] :
        init \in {<<"a">>, <<"a", "b">>}, ins \in Lists, outs \in Lists}

\* Three transitions over four places, each of which takes from one place and puts
\* into others: weights up to 4, which is one too many for three bits.
P4 == <<1, 2, 3, 4>>

SplitNets ==
    {[places |-> 1..4, initial |-> {4},
      transitions |-> <<Arcs({1}, s, {}), Arcs({2}, t, {}), Arcs({p}, u, {})>>] :
        s \in SUBSET {2, 3, 4}, t \in SUBSET {1, 3, 4}, p \in {3, 4}, u \in SUBSET {1, 2, 3}}

\* A dead net whose weights, 1, 1 and 2, fit into three bits and whose initial sum, 4,
\* does not.
DeadNet ==
    LET Gate(ins, outs) == [inputs |-> ins, outputs |-> outs, guards |-> {4}, blockers |-> {}]
    IN  [places |-> 1..4, initial |-> {1, 2, 3},
         transitions |-> <<Gate({1}, {2}), Gate({1, 2}, {3})>>]

\* A 1-safe net with one terminal marking, of which the search misses the end: three
\* transitions move the token from a to b, the copies of the marking spend the fuel,
\* and the step from none to both is not taken.
CopyingNet ==
    LET Move == [inputs |-> {"a"}, outputs |-> {"b"}, guards |-> {}, blockers |-> {"b"}]
    IN  [places |-> P2, initial |-> {"a"},
         transitions |->
             <<Move, Move, Move,
               [inputs |-> {"b"}, outputs |-> {}, guards |-> {}, blockers |-> {"a"}],
               [inputs |-> {}, outputs |-> P2, guards |-> {}, blockers |-> P2]>>]

MCModels == {Listed(net, <<"a", "b">>) : net \in HalfPlainNets \cup ThreeMoveNets \cup {CopyingNet}}
            \cup ListModels
            \cup {Listed(net, P4) : net \in SplitNets}
            \cup {Listed(DeadNet, P4), CoffeeModel}
=============================================================================
