------------------------------- MODULE Loader -------------------------------
(* Load and normalize of tools/codegen/internal/petri/petri.go: from the    *)
(* objects and arrays of a model.json to a Model whose lists are sorted.    *)
(*                                                                          *)
(* Places and transitions are read by ranging over Go maps, in an order     *)
(* that changes from run to run; arcs are read in the order of the file.    *)
(* A name is its rank among the names of the file, and decoding the text    *)
(* is left out.                                                             *)
EXTENDS PetriNet, SequencesExt

CONSTANT Files          \* the decoded files: records [places, transitions, arcs]

Arc == [source : Nat, target : Nat, inhibit : BOOLEAN]

\* netJSON.  What a file leaves out is zero or false.
IsFile(f) ==
    /\ \A p \in DOMAIN f.places : /\ p \in Nat
                                  /\ f.places[p].initial \in Int
                                  /\ f.places[p].capacity \in Int
    /\ f.transitions \subseteq Nat
    /\ f.arcs \in Seq(Arc)

ASSUME FilesAssumption == \A f \in Files : IsFile(f)

VARIABLES file,         \* the decoded file; never changes
          pc,           \* "places", "arcs", "transitions", "loaded", "failed"
          unread,       \* the keys the loop over a map has yet to visit
          next,         \* the next arc
          places,       \* m.Places
          initial,      \* m.Initial
          byName,       \* byName: the four lists of each transition
          transitions   \* m.Transitions: the names and their lists

vars == <<file, pc, unread, next, places, initial, byName, transitions>>

Sorted(names) == SortSeq(names, <)

NoArcs == [inputs |-> <<>>, outputs |-> <<>>, guards |-> <<>>, blockers |-> <<>>]

\* normalize begins on file.
Start == /\ pc = "places"
         /\ unread = DOMAIN file.places
         /\ next = 1
         /\ places = <<>>
         /\ initial = <<>>
         /\ byName = [t \in file.transitions |-> NoArcs]
         /\ transitions = <<>>

Init == file \in Files /\ Start

IsPlace(name) == name \in DOMAIN file.places

\* The loop over the places takes p next.
ReadPlace(p) ==
    /\ pc = "places"
    /\ p \in unread
    /\ unread' = unread \ {p}
    /\ places' = Append(places, p)
    /\ initial' = IF file.places[p].initial > 0 THEN Append(initial, p) ELSE initial
    /\ pc' = IF file.places[p].capacity > 1 THEN "failed" ELSE pc
    /\ UNCHANGED <<file, next, byName, transitions>>

\* Mutant: the initial places stay in the order in which the map was walked.
SortPlaces_InitialUnsorted ==
    /\ pc = "places"
    /\ unread = {}
    /\ pc' = "arcs"
    /\ places' = Sorted(places)
    /\ UNCHANGED <<file, unread, next, initial, byName, transitions>>

SortPlaces ==
    /\ pc = "places"
    /\ unread = {}
    /\ pc' = "arcs"
    /\ places' = Sorted(places)
    /\ initial' = Sorted(initial)
    /\ UNCHANGED <<file, unread, next, byName, transitions>>

\* Mutant: a read arc is taken for an output.
Resolve_ReadArcProduces(a) ==
    IF IsPlace(a.source)
    THEN [transition |-> a.target, place |-> a.source,
          list |-> IF a.inhibit THEN "blockers" ELSE "inputs"]
    ELSE [transition |-> a.source, place |-> a.target, list |-> "outputs"]

\* The transition that an arc belongs to, the place at its other end, and the
\* list the place goes into.
Resolve(a) ==
    IF IsPlace(a.source)
    THEN [transition |-> a.target, place |-> a.source,
          list |-> IF a.inhibit THEN "blockers" ELSE "inputs"]
    ELSE [transition |-> a.source, place |-> a.target,
          list |-> IF a.inhibit THEN "guards" ELSE "outputs"]

\* One end is a place and the other a transition.
Resolvable(a) == /\ IsPlace(a.source) \/ IsPlace(a.target)
                 /\ Resolve(a).transition \in file.transitions

ReadArc ==
    /\ pc = "arcs"
    /\ next <= Len(file.arcs)
    /\ LET a == file.arcs[next]
           r == Resolve(a)
       IN  IF Resolvable(a)
           THEN /\ byName' = [byName EXCEPT ![r.transition][r.list] = Append(@, r.place)]
                /\ pc' = pc
           ELSE /\ pc' = "failed"
                /\ UNCHANGED byName
    /\ next' = next + 1
    /\ UNCHANGED <<file, unread, places, initial, transitions>>

ArcsRead ==
    /\ pc = "arcs"
    /\ next > Len(file.arcs)
    /\ pc' = "transitions"
    /\ unread' = file.transitions
    /\ UNCHANGED <<file, next, places, initial, byName, transitions>>

\* The loop over byName takes t next.
EmitTransition(t) ==
    /\ pc = "transitions"
    /\ t \in unread
    /\ unread' = unread \ {t}
    /\ transitions' = Append(transitions,
           [name |-> t, lists |-> [l \in DOMAIN byName[t] |-> Sorted(byName[t][l])]])
    /\ UNCHANGED <<file, pc, next, places, initial, byName>>

Finish ==
    /\ pc = "transitions"
    /\ unread = {}
    /\ pc' = "loaded"
    /\ transitions' = SortSeq(transitions, LAMBDA s, t : s.name < t.name)
    /\ UNCHANGED <<file, unread, next, places, initial, byName>>

Next == \/ \E p \in unread : ReadPlace(p)
        \/ SortPlaces
        \/ ReadArc
        \/ ArcsRead
        \/ \E t \in unread : EmitTransition(t)
        \/ Finish

Spec == Init /\ [][Next]_vars
-----------------------------------------------------------------------------
(* The net of a file f, whatever the order in which the file lists it.      *)

\* Every place declares room for one token.
CapacityOne(f) == \A p \in DOMAIN f.places : f.places[p].capacity = 1

\* Every arc joins a place and a transition.  A source that is both is a place.
ArcsResolve(f) ==
    \A a \in ToSet(f.arcs) :
        \/ a.source \in DOMAIN f.places /\ a.target \in f.transitions
        \/ a.source \in f.transitions \ DOMAIN f.places /\ a.target \in DOMAIN f.places

\* How many arcs of the file lead from source to target.
ArcCount(f, source, target, inhibit) ==
    Cardinality({k \in DOMAIN f.arcs :
        f.arcs[k] = [source |-> source, target |-> target, inhibit |-> inhibit]})

Ascending(s) == \A k \in 1..Len(s) - 1 : s[k] <= s[k + 1]

Occurrences(s, p) == Cardinality({k \in DOMAIN s : s[k] = p})

\* The lists of t hold p once for each arc.  A transition that has the name of a
\* place is the target of arcs only.
Holds(f, t, lists, p) ==
    LET back == IF t \in DOMAIN f.places THEN 0 ELSE 1
    IN  /\ Occurrences(lists.inputs, p) = ArcCount(f, p, t, FALSE)
        /\ Occurrences(lists.blockers, p) = ArcCount(f, p, t, TRUE)
        /\ Occurrences(lists.outputs, p) = back * ArcCount(f, t, p, FALSE)
        /\ Occurrences(lists.guards, p) = back * ArcCount(f, t, p, TRUE)

\* The model as the net that the other modules work with.
AsNet == [places |-> ToSet(places), initial |-> ToSet(initial),
          transitions |-> [k \in DOMAIN transitions |->
              [l \in DOMAIN NoArcs |-> ToSet(transitions[k].lists[l])]]]

\* What is loaded is the Model of f: its lists are sorted and hold what f declares
\* and nothing else, each arc in the list of its kind and as often as f has it.
IsModelOf(f) ==
    /\ ToSet(places) = DOMAIN f.places /\ Len(places) = Cardinality(DOMAIN f.places)
    /\ ToSet(initial) = {p \in DOMAIN f.places : f.places[p].initial > 0}
    /\ Ascending(places) /\ Ascending(initial)
    /\ Ascending([k \in DOMAIN transitions |-> transitions[k].name])
    /\ {transitions[k].name : k \in DOMAIN transitions} = f.transitions
    /\ \A k \in DOMAIN transitions :
          LET lists == transitions[k].lists
          IN  /\ \A l \in DOMAIN lists : Ascending(lists[l])
              /\ \A p \in DOMAIN f.places : Holds(f, transitions[k].name, lists, p)
    /\ IsNet(AsNet)
=============================================================================
