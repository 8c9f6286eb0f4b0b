------------------------------ MODULE Explore -------------------------------
(* tools/codegen/reachability: explore lists every marking the net reaches  *)
(* under the canonical semantics, breadth-first, and renderTrace walks the  *)
(* list from the initial marking along the canonical policy.                *)
(*                                                                          *)
(* A marking stands for its key.  The list is sorted by key before it is    *)
(* returned; the walk looks its states up by key, so the model leaves them  *)
(* in the order in which explore found them.                                *)
EXTENDS PetriNet

CONSTANTS Nets,         \* the models given to the tool
          MaxLines      \* bound on the lines of a trace

ASSUME NetsAssumption == \A n \in Nets : IsNet(n)
ASSUME MaxLinesAssumption == MaxLines \in Nat

VARIABLES model,        \* the model; never changes
          pc,           \* "explore", "fire", "trace" or "done"
          seen,         \* the markings found
          frontier,     \* those still to be visited, a queue
          state,        \* the state of the marking that is visited, so far
          rank,         \* the transition that is tried next in it
          states,       \* the states visited: key, enabled and targets
          terminals,    \* the keys of those that enable nothing
          edges,        \* the firings found
          current,      \* the key where the walk is
          lines         \* the lines of the trace

visiting == <<seen, frontier, state, rank, states, terminals, edges>>
walking == <<current, lines>>
vars == <<model, pc, visiting, walking>>

NewState(marking) == [key |-> marking, enabled |-> <<>>, targets |-> <<>>]

Init == /\ model \in Nets
        /\ pc = "explore"
        /\ seen = {model.initial}
        /\ frontier = <<model.initial>>
        /\ state = NewState(model.initial)
        /\ rank = 1
        /\ states = <<>>
        /\ terminals = {}
        /\ edges = 0
        /\ current = model.initial
        /\ lines = <<>>

Keys == {states[k].key : k \in DOMAIN states}

\* One turn of the loop of explore begins: the head of the queue.
Visit ==
    /\ pc = "explore"
    /\ frontier # <<>>
    /\ state' = NewState(Head(frontier))
    /\ frontier' = Tail(frontier)
    /\ rank' = 1
    /\ pc' = "fire"
    /\ UNCHANGED <<model, seen, states, terminals, edges, walking>>

\* EnabledIn goes through the transitions in the order of their names, and the
\* loop over what it returns keeps that order: a transition is tried, and
\* followed if it is enabled.
Trying == pc = "fire" /\ rank \in Trans(model)

\* One more enabled transition of a state, and its target.
Extended(s, t) == [key |-> s.key,
                   enabled |-> Append(s.enabled, t),
                   targets |-> Append(s.targets, Fire(model, s.key, t))]

\* Mutant: a target counts as seen only once it is listed.
Follow_SeenLate ==
    /\ Trying
    /\ Enabled(model, state.key, rank)
    /\ state' = Extended(state, rank)
    /\ LET target == Fire(model, state.key, rank)
       IN  /\ seen' = seen \cup {target}
           /\ frontier' = IF target \in Keys THEN frontier ELSE Append(frontier, target)
    /\ edges' = edges + 1
    /\ rank' = rank + 1
    /\ UNCHANGED <<model, pc, states, terminals, walking>>

\* The transition fires: note it and its target, and queue a target not seen
\* before.
Follow ==
    /\ Trying
    /\ Enabled(model, state.key, rank)
    /\ state' = Extended(state, rank)
    /\ LET target == Fire(model, state.key, rank)
       IN  /\ seen' = seen \cup {target}
           /\ frontier' = IF target \in seen THEN frontier ELSE Append(frontier, target)
    /\ edges' = edges + 1
    /\ rank' = rank + 1
    /\ UNCHANGED <<model, pc, states, terminals, walking>>

\* It is not enabled.
PassOver ==
    /\ Trying
    /\ ~Enabled(model, state.key, rank)
    /\ rank' = rank + 1
    /\ UNCHANGED <<model, pc, seen, frontier, state, states, terminals, edges, walking>>

\* Mutant: a terminal marking is noted and put back into the queue.
Record_TerminalKept ==
    /\ pc = "fire"
    /\ rank \notin Trans(model)
    /\ IF state.enabled = <<>>
       THEN /\ terminals' = terminals \cup {state.key}
            /\ frontier' = Append(frontier, state.key)
            /\ UNCHANGED states
       ELSE /\ states' = Append(states, state)
            /\ UNCHANGED <<terminals, frontier>>
    /\ pc' = "explore"
    /\ UNCHANGED <<model, seen, state, rank, edges, walking>>

\* Every transition has been tried: the turn ends.
Record ==
    /\ pc = "fire"
    /\ rank \notin Trans(model)
    /\ terminals' = IF state.enabled = <<>> THEN terminals \cup {state.key} ELSE terminals
    /\ states' = Append(states, state)
    /\ pc' = "explore"
    /\ UNCHANGED <<model, seen, frontier, state, rank, edges, walking>>

\* Mutant: the walk starts from a state of the list, not from the initial one.
Finish_FromTheList ==
    /\ pc = "explore"
    /\ frontier = <<>>
    /\ pc' = "trace"
    /\ current' = states[Len(states)].key
    /\ UNCHANGED <<model, visiting, lines>>

\* The frontier is empty: renderTrace takes the list.
Finish ==
    /\ pc = "explore"
    /\ frontier = <<>>
    /\ pc' = "trace"
    /\ current' = model.initial
    /\ UNCHANGED <<model, visiting, lines>>

\* byKey[current], if it is there.
Found == {k \in DOMAIN states : states[k].key = current}

\* A line for the first of the enabled transitions.
Walk ==
    /\ pc = "trace"
    /\ Len(lines) < MaxLines
    /\ \E k \in Found :
          /\ states[k].enabled # <<>>
          /\ lines' = Append(lines, [fired |-> Head(states[k].enabled),
                                     marking |-> Head(states[k].targets)])
          /\ current' = Head(states[k].targets)
    /\ UNCHANGED <<model, pc, visiting>>

\* The key is not listed, or nothing is enabled.
WalkEnds ==
    /\ pc = "trace"
    /\ \A k \in Found : states[k].enabled = <<>>
    /\ pc' = "done"
    /\ UNCHANGED <<model, visiting, walking>>

Next == Visit \/ Follow \/ PassOver \/ Record \/ Finish \/ Walk \/ WalkEnds

\* The tool is one thread.
Spec == Init /\ [][Next]_vars /\ WF_vars(Next)
-----------------------------------------------------------------------------
Explored == pc \in {"trace", "done"}

\* The state lists the marking among its targets.
Leads(s, marking) == \E i \in DOMAIN s.targets : s.targets[i] = marking

\* When the exploration is over the list is the state space: it holds the
\* initial marking and every target, no marking twice, and no marking that is
\* not the target of one listed before it; edges and terminals are its own.
ListsReachable ==
    Explored =>
        /\ model.initial \in Keys
        /\ \A m \in Keys : \A t \in EnabledIn(model, m) : Fire(model, m, t) \in Keys
        /\ \A j, k \in DOMAIN states : states[j].key = states[k].key => j = k
        /\ \A k \in 2..Len(states) : \E j \in 1..k - 1 : Leads(states[j], states[k].key)
        /\ terminals = {m \in Keys : Terminal(model, m)}
        /\ edges = Cardinality({e \in Keys \X Trans(model) : Enabled(model, e[1], e[2])})

\* No bound is needed: there are 2^|places| markings and each is visited once.
ExploreEnds == <>Explored

\* The marking before line k.
Before(k) == IF k = 1 THEN model.initial ELSE lines[k - 1].marking

\* The walk over the list is the run of the canonical policy, although the walk
\* itself tests nothing: every line fires the least transition enabled in the
\* marking the line before left, and the walk ends only where the net does, never
\* on a marking that the list has lost.  On the coffee machine it is the golden
\* trace.
WalkIsPolicy ==
    /\ \A k \in 1..Len(lines) :
          /\ Enabled(model, Before(k), lines[k].fired)
          /\ \A t \in EnabledIn(model, Before(k)) : lines[k].fired <= t
          /\ lines[k].marking = Fire(model, Before(k), lines[k].fired)
    /\ pc = "done" => /\ Terminal(model, Before(Len(lines) + 1))
                      /\ model = CoffeeNet =>
                            [k \in DOMAIN lines |-> lines[k].fired] = Golden
=============================================================================
