--------------------------- MODULE MCRegeneration ---------------------------
(* Regeneration on every document of a few small shapes.  Names are ranks.  *)
EXTENDS Regeneration

Names == 1..4

AllArcs == [source : Names, target : Names, inhibit : BOOLEAN]

Place(tokens, room) == [initial |-> tokens, capacity |-> room]

\* Places with a token and room for one.
Marked(keys) == [k \in DOMAIN keys |-> [key |-> keys[k], val |-> Place(1, 1)]]

\* Arcs of any kind, right or wrong, between two places and two transitions; in
\* the second shape a place and a transition share a name.
ArcDocuments ==
    {[places |-> Marked(<<1, 3>>), transitions |-> <<2, 4>>, arcs |-> arcs] :
        arcs \in SeqOf(AllArcs, 2)}
    \cup
    {[places |-> Marked(<<1, 2>>), transitions |-> <<2, 3>>, arcs |-> arcs] :
        arcs \in SeqOf(AllArcs, 2)}

\* Longer lists, in every order, with arcs that occur twice.
ListDocuments ==
    {[places |-> Marked(<<1, 3>>), transitions |-> <<2>>, arcs |-> arcs] :
        arcs \in [1..3 -> [source : {1, 3}, target : {2}, inhibit : BOOLEAN]]
            \cup [1..3 -> [source : {2}, target : {1, 3}, inhibit : BOOLEAN]]}

\* Tokens and capacities, declared or left out, on three places, of which two may
\* have one name.
PlaceDocuments ==
    {[places |-> [k \in 1..3 |-> [key |-> keys[k], val |-> vals[k]]],
      transitions |-> <<2, 5>>, arcs |-> <<>>] :
        keys \in {<<1, 3, 4>>, <<3, 1, 3>>},
        vals \in [1..3 -> [initial : 0..2, capacity : 0..2]]}

MCDocuments == ArcDocuments \cup ListDocuments \cup PlaceDocuments
MCFiles == {Decoded(doc) : doc \in MCDocuments}
=============================================================================
