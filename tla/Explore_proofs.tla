--------------------------- MODULE Explore_proofs ---------------------------
(* What explore lists is the state space of the net, and the walk over the  *)
(* list is the run of the canonical policy: proved for every net, however   *)
(* many places it has.                                                      *)
EXTENDS Explore, PetriNet_proofs, FiniteSetTheorems, SequenceTheorems

Marking == SUBSET model.places

State == [key : Marking, enabled : Seq(Trans(model)), targets : Seq(Marking)]

Line == [fired : Trans(model), marking : Marking]

\* Every variable has its type.
TypeOK == /\ model \in Nets
          /\ pc \in {"explore", "fire", "trace", "done"}
          /\ seen \in SUBSET Marking
          /\ IsFiniteSet(seen)
          /\ frontier \in Seq(Marking)
          /\ state \in State
          /\ rank \in 1..Len(model.transitions) + 1
          /\ states \in Seq(State)
          /\ terminals \in SUBSET Marking
          /\ edges \in Nat
          /\ current \in Marking
          /\ lines \in Seq(Line)

-----------------------------------------------------------------------------
(* The inductive invariant of the exploration.                              *)

\* The state records the enabled transitions below r, least first, and where
\* each of them leads.
Records(s, r) ==
    /\ Len(s.targets) = Len(s.enabled)
    /\ \A k \in 1..Len(s.enabled) : /\ s.enabled[k] < r
                                    /\ Enabled(model, s.key, s.enabled[k])
                                    /\ s.targets[k] = Fire(model, s.key, s.enabled[k])
    /\ \A t \in Trans(model) : t < r /\ Enabled(model, s.key, t) =>
          \E k \in 1..Len(s.enabled) : s.enabled[k] = t
    /\ \A j, k \in 1..Len(s.enabled) : j < k => s.enabled[j] < s.enabled[k]

Recorded ==
    /\ \A k \in 1..Len(states) : Records(states[k], Len(model.transitions) + 1)
    /\ pc = "fire" => Records(state, rank)

\* The marking that is visited.
Visited == IF pc = "fire" THEN {state.key} ELSE {}

Queued == {frontier[i] : i \in 1..Len(frontier)}

\* A marking that has been seen is listed, or visited, or queued: one of the
\* three, and once.
Once ==
    /\ seen = Keys \cup Visited \cup Queued
    /\ Keys \cap Queued = {}
    /\ Visited \cap (Keys \cup Queued) = {}
    /\ \A j, k \in 1..Len(states) : states[j].key = states[k].key => j = k
    /\ \A j, k \in 1..Len(frontier) : frontier[j] = frontier[k] => j = k

\* Where the firings noted so far lead has been seen.
Closed ==
    /\ model.initial \in seen
    /\ \A k \in 1..Len(states), m \in Marking : Leads(states[k], m) => m \in seen
    /\ pc = "fire" => \A m \in Marking : Leads(state, m) => m \in seen

\* The visit is the first, or a firing of a listed state led to its marking; and so
\* for what is queued, where the state that is visited counts too.
First(m) == m = model.initial /\ states = <<>>

Listed(m) == \E j \in 1..Len(states) : Leads(states[j], m)

Discovered ==
    /\ \A k \in 2..Len(states) : \E j \in 1..k - 1 : Leads(states[j], states[k].key)
    /\ pc = "fire" => First(state.key) \/ Listed(state.key)
    /\ \A i \in 1..Len(frontier) :
          \/ pc # "fire" /\ First(frontier[i])
          \/ Listed(frontier[i])
          \/ pc = "fire" /\ Leads(state, frontier[i])

\* The firings noted so far.
Noted ==
    {e \in seen \X Trans(model) :
        /\ Enabled(model, e[1], e[2])
        /\ e[1] \in Keys \/ (e[1] \in Visited /\ e[2] < rank)}

Counted == /\ terminals = {m \in Keys : Terminal(model, m)}
           /\ edges = Cardinality(Noted)

Emptied == Explored => frontier = <<>>

Exploration == TypeOK /\ Recorded /\ Once /\ Closed /\ Discovered /\ Counted /\ Emptied

-----------------------------------------------------------------------------
(* The inductive invariant of the walk.                                     *)

\* The walk stands on a listed marking, the one its last line printed, and each
\* line is the canonical policy's.
Walked ==
    /\ ~Explored => lines = <<>>
    /\ Explored => current = Before(Len(lines) + 1) /\ current \in Keys
    /\ \A k \in 1..Len(lines) :
          /\ Enabled(model, Before(k), lines[k].fired)
          /\ \A t \in EnabledIn(model, Before(k)) : lines[k].fired <= t
          /\ lines[k].marking = Fire(model, Before(k), lines[k].fired)
    /\ pc = "done" => Terminal(model, current)

\* On the coffee machine it has come some way along the golden trace.
Along ==
    model = CoffeeNet /\ Explored =>
        /\ Len(lines) <= 6
        /\ current = GoldenMarkings[Len(lines) + 1]
        /\ \A k \in 1..Len(lines) : lines[k].fired = Golden[k]

Inv == Exploration /\ Walked /\ Along

-----------------------------------------------------------------------------
(* Types.                                                                   *)

\* The ranks of a model's transitions are the numbers up to their count.
LEMMA Ranks ==
    ASSUME TypeOK
    PROVE  /\ IsNet(model)
           /\ Len(model.transitions) \in Nat
           /\ Trans(model) = 1..Len(model.transitions)
           /\ model.initial \in Marking
BY NetsAssumption, LenProperties DEF TypeOK, IsNet, Trans, Marking

\* A new state has a marking and nothing else.
LEMMA NewStateType ==
    ASSUME NEW m \in Marking
    PROVE  NewState(m) \in State
BY EmptySeq DEF NewState, State

\* The types hold initially.
LEMMA TypeInit == Init => TypeOK
<1> SUFFICES ASSUME Init PROVE TypeOK
  OBVIOUS
<1>1. /\ IsNet(model) /\ Len(model.transitions) \in Nat /\ model.initial \in Marking
  BY NetsAssumption, LenProperties DEF Init, IsNet, Marking
<1>2. IsFiniteSet(seen)
  BY FS_Singleton DEF Init
<1>3. state \in State
  BY <1>1, NewStateType DEF Init
<1>4. QED
  BY <1>1, <1>2, <1>3 DEF Init, TypeOK

\* Every step keeps the types.
LEMMA TypeStep == TypeOK /\ Recorded /\ [Next]_vars => TypeOK'
<1> SUFFICES ASSUME TypeOK, Recorded, [Next]_vars PROVE TypeOK'
  OBVIOUS
<1> USE DEF TypeOK
<1>0. /\ model' = model => State' = State /\ Marking' = Marking /\ Line' = Line
      /\ Trans(model) = 1..Len(model.transitions)
      /\ Len(model.transitions) \in Nat
      /\ model.initial \in Marking
      /\ IsNet(model)
  BY Ranks DEF State, Marking, Line
<1>1. CASE Visit
  <2>1. Head(frontier) \in Marking /\ Tail(frontier) \in Seq(Marking)
    BY <1>1, HeadTailProperties DEF Visit
  <2>2. state' \in State
    BY <1>1, <2>1, NewStateType DEF Visit
  <2>3. QED
    BY <1>0, <1>1, <2>1, <2>2 DEF Visit, walking
<1>2. CASE Follow
  <2> DEFINE target == Fire(model, state.key, rank)
  <2>1. target \in Marking /\ rank \in Trans(model)
    BY <1>0, <1>2, FireType DEF Follow, Trying, State, Marking
  <2>2. state' \in State
    BY <1>0, <1>2, <2>1 DEF Follow, Extended, State
  <2>3. IsFiniteSet(seen') /\ seen' \in SUBSET Marking
    BY <1>2, <2>1, FS_AddElement DEF Follow
  <2>4. frontier' \in Seq(Marking)
    BY <1>2, <2>1 DEF Follow
  <2>5. rank' \in 1..Len(model.transitions) + 1 /\ edges' \in Nat
    BY <1>0, <1>2, <2>1 DEF Follow
  <2>6. QED
    BY <1>0, <1>2, <2>2, <2>3, <2>4, <2>5 DEF Follow, Trying, walking
<1>3. CASE PassOver
  <2>1. rank' \in 1..Len(model.transitions) + 1
    BY <1>0, <1>3 DEF PassOver, Trying
  <2>2. QED
    BY <1>0, <1>3, <2>1 DEF PassOver, Trying, walking
<1>4. CASE Record
  <2>1. state.key \in Marking
    BY DEF State
  <2>2. terminals' \in SUBSET Marking
    BY <1>4, <2>1 DEF Record
  <2>3. states' \in Seq(State)
    BY <1>4 DEF Record
  <2>4. QED
    BY <1>0, <1>4, <2>2, <2>3 DEF Record, walking
<1>5. CASE Finish
  BY <1>0, <1>5 DEF Finish, visiting
<1>6. CASE Walk
  <2>1. PICK k \in DOMAIN states :
           /\ states[k].enabled # <<>>
           /\ lines' = Append(lines, [fired |-> Head(states[k].enabled),
                                      marking |-> Head(states[k].targets)])
           /\ current' = Head(states[k].targets)
    BY <1>6 DEF Walk, Found
  <2>2. states[k] \in State
    BY <2>1, LenProperties, ElementOfSeq
  <2>3. Head(states[k].enabled) \in Trans(model)
    BY <2>1, <2>2, HeadTailProperties DEF State
  <2>4. Head(states[k].targets) \in Marking
    <3>1. Len(states[k].targets) = Len(states[k].enabled)
      BY <2>1, LenProperties DEF Recorded, Records
    <3>2. states[k].targets # <<>>
      BY <2>1, <2>2, <3>1, EmptySeq DEF State
    <3>3. QED
      BY <2>2, <3>2, HeadTailProperties DEF State
  <2>5. lines' \in Seq(Line) /\ current' \in Marking
    BY <2>1, <2>3, <2>4 DEF Line
  <2>6. UNCHANGED <<model, pc, visiting>>
    BY <1>6 DEF Walk
  <2>7. QED
    BY <1>0, <2>5, <2>6 DEF visiting
<1>7. CASE WalkEnds
  BY <1>0, <1>7 DEF WalkEnds, visiting, walking
<1>8. CASE UNCHANGED vars
  BY <1>0, <1>8 DEF vars, visiting, walking
<1>9. QED
  BY <1>1, <1>2, <1>3, <1>4, <1>5, <1>6, <1>7, <1>8 DEF Next

-----------------------------------------------------------------------------
(* What the actions do to the lists.                                        *)

\* A visit takes the head of the queue.
LEMMA VisitFacts ==
    ASSUME TypeOK, Visit
    PROVE  /\ pc = "explore" /\ pc' = "fire" /\ rank' = 1
           /\ Len(frontier) \in Nat /\ Len(frontier) >= 1
           /\ Len(frontier') = Len(frontier) - 1
           /\ \A i \in 1..Len(frontier') : frontier'[i] = frontier[i + 1]
           /\ state'.key = frontier[1] /\ frontier[1] \in Marking
           /\ state'.enabled = <<>> /\ state'.targets = <<>>
           /\ UNCHANGED <<model, seen, states, terminals, edges>>
<1>1. frontier \in Seq(Marking) /\ frontier # <<>>
  BY DEF TypeOK, Visit
<1>2. Len(frontier) \in Nat /\ Len(frontier) >= 1
  BY <1>1, EmptySeq
<1>3. /\ Len(frontier') = Len(frontier) - 1
      /\ \A i \in 1..Len(frontier') : frontier'[i] = frontier[i + 1]
  BY <1>1, HeadTailProperties DEF Visit
<1>4. Head(frontier) = frontier[1] /\ frontier[1] \in Marking
  BY <1>1, <1>2
<1>5. QED
  BY <1>2, <1>3, <1>4 DEF Visit, NewState

\* Following a transition notes it, and queues its target unless it has been seen.
LEMMA FollowFacts ==
    ASSUME TypeOK, Recorded, Follow
    PROVE  /\ pc = "fire" /\ pc' = "fire"
           /\ rank \in Trans(model) /\ rank' = rank + 1 /\ edges' = edges + 1
           /\ Enabled(model, state.key, rank)
           /\ state'.key = state.key /\ state.key \in Marking
           /\ Len(state.enabled) \in Nat
           /\ Len(state.targets) = Len(state.enabled)
           /\ Len(state'.enabled) = Len(state.enabled) + 1
           /\ Len(state'.targets) = Len(state.enabled) + 1
           /\ \A k \in 1..Len(state.enabled) :
                 /\ state'.enabled[k] = state.enabled[k]
                 /\ state'.targets[k] = state.targets[k]
           /\ state'.enabled[Len(state.enabled) + 1] = rank
           /\ state'.targets[Len(state.enabled) + 1] = Fire(model, state.key, rank)
           /\ Fire(model, state.key, rank) \in Marking
           /\ seen' = seen \cup {Fire(model, state.key, rank)}
           /\ UNCHANGED <<model, states, terminals>>
<1>1. state.enabled \in Seq(Trans(model)) /\ state.targets \in Seq(Marking)
      /\ state.key \in Marking
  BY DEF TypeOK, State
<1>2. /\ pc = "fire" /\ pc' = "fire"
      /\ rank \in Trans(model) /\ rank' = rank + 1 /\ edges' = edges + 1
      /\ Enabled(model, state.key, rank)
      /\ seen' = seen \cup {Fire(model, state.key, rank)}
      /\ UNCHANGED <<model, states, terminals>>
  BY DEF Follow, Trying
<1>3. Len(state.targets) = Len(state.enabled) /\ Len(state.enabled) \in Nat
  BY <1>1, <1>2, LenProperties DEF Recorded, Records
<1>4. Fire(model, state.key, rank) \in Marking
  BY <1>1, <1>2, Ranks, FireType DEF Marking
<1>5. /\ state'.key = state.key
      /\ state'.enabled = Append(state.enabled, rank)
      /\ state'.targets = Append(state.targets, Fire(model, state.key, rank))
  BY DEF Follow, Extended
<1>6. /\ Len(state'.enabled) = Len(state.enabled) + 1
      /\ \A k \in 1..Len(state.enabled) : state'.enabled[k] = state.enabled[k]
      /\ state'.enabled[Len(state.enabled) + 1] = rank
  BY <1>1, <1>2, <1>5
<1>7. /\ Len(state'.targets) = Len(state.enabled) + 1
      /\ \A k \in 1..Len(state.enabled) : state'.targets[k] = state.targets[k]
      /\ state'.targets[Len(state.enabled) + 1] = Fire(model, state.key, rank)
  BY <1>1, <1>3, <1>4, <1>5
<1>8. QED
  BY <1>1, <1>2, <1>3, <1>4, <1>5, <1>6, <1>7

\* The queue after it.
LEMMA FollowQueue ==
    ASSUME TypeOK, Recorded, Follow
    PROVE  LET target == Fire(model, state.key, rank)
           IN  /\ Len(frontier) \in Nat
               /\ target \in seen => frontier' = frontier
               /\ target \notin seen =>
                     /\ Len(frontier') = Len(frontier) + 1
                     /\ \A i \in 1..Len(frontier) : frontier'[i] = frontier[i]
                     /\ frontier'[Len(frontier) + 1] = target
<1> DEFINE target == Fire(model, state.key, rank)
<1>1. target \in Marking
  BY FollowFacts
<1>2. frontier' = IF target \in seen THEN frontier ELSE Append(frontier, target)
  BY DEF Follow
<1> HIDE DEF target
<1>3. frontier \in Seq(Marking)
  BY DEF TypeOK
<1>4. QED
  BY <1>1, <1>2, <1>3 DEF target

\* Recording a state puts it at the end of the list.
LEMMA RecordFacts ==
    ASSUME TypeOK, Record
    PROVE  /\ pc = "fire" /\ pc' = "explore"
           /\ rank = Len(model.transitions) + 1
           /\ Len(states) \in Nat
           /\ Len(states') = Len(states) + 1
           /\ \A k \in 1..Len(states) : states'[k] = states[k]
           /\ states'[Len(states) + 1] = state
           /\ terminals' = IF state.enabled = <<>> THEN terminals \cup {state.key}
                                                  ELSE terminals
           /\ UNCHANGED <<model, seen, frontier, state, rank, edges>>
<1>1. /\ pc = "fire" /\ pc' = "explore" /\ rank \notin Trans(model)
      /\ states' = Append(states, state)
      /\ terminals' = IF state.enabled = <<>> THEN terminals \cup {state.key}
                                             ELSE terminals
      /\ UNCHANGED <<model, seen, frontier, state, rank, edges>>
  BY DEF Record
<1>2. rank = Len(model.transitions) + 1
  BY <1>1, Ranks DEF TypeOK
<1>3. states \in Seq(State) /\ state \in State
  BY DEF TypeOK
<1>4. /\ Len(states) \in Nat
      /\ Len(states') = Len(states) + 1
      /\ \A k \in 1..Len(states) : states'[k] = states[k]
      /\ states'[Len(states) + 1] = state
  BY <1>1, <1>3
<1>5. QED
  BY <1>1, <1>2, <1>4

\* A transition that is passed over is not enabled, and only its rank is left behind.
LEMMA PassOverFacts ==
    ASSUME PassOver
    PROVE  /\ pc = "fire" /\ pc' = "fire"
           /\ rank \in Trans(model) /\ rank' = rank + 1
           /\ ~Enabled(model, state.key, rank)
           /\ UNCHANGED <<model, seen, frontier, state, states, terminals, edges>>
BY DEF PassOver, Trying

\* Nothing happens to the exploration.
Idle == /\ UNCHANGED <<model, seen, frontier, state, rank, states, terminals, edges>>
        /\ pc' = "fire" <=> pc = "fire"

\* Four actions make the exploration; the other steps leave it alone.
LEMMA Steps ==
    ASSUME [Next]_vars
    PROVE  Visit \/ Follow \/ PassOver \/ Record \/ Idle
<1>1. CASE Finish
  BY <1>1 DEF Finish, visiting, Idle
<1>2. CASE Walk
  BY <1>2 DEF Walk, visiting, Idle
<1>3. CASE WalkEnds
  BY <1>3 DEF WalkEnds, visiting, Idle
<1>4. CASE UNCHANGED vars
  BY <1>4 DEF vars, visiting, Idle
<1>5. QED
  BY <1>1, <1>2, <1>3, <1>4 DEF Next

\* The positions of the lists.
LEMMA Lists ==
    ASSUME TypeOK
    PROVE  /\ Len(states) \in Nat /\ DOMAIN states = 1..Len(states)
           /\ Len(frontier) \in Nat
           /\ \A k \in 1..Len(states) :
                 /\ states[k].key \in Marking
                 /\ states[k].enabled \in Seq(Trans(model))
                 /\ states[k].targets \in Seq(Marking)
           /\ \A i \in 1..Len(frontier) : frontier[i] \in Marking
<1>1. states \in Seq(State) /\ frontier \in Seq(Marking)
  BY DEF TypeOK
<1>2. /\ Len(states) \in Nat /\ DOMAIN states = 1..Len(states)
      /\ Len(frontier) \in Nat
  BY <1>1, LenProperties
<1>3. \A k \in 1..Len(states) : states[k] \in State
  BY <1>1, ElementOfSeq
<1>4. \A i \in 1..Len(frontier) : frontier[i] \in Marking
  BY <1>1, ElementOfSeq
<1>5. QED
  BY <1>2, <1>3, <1>4 DEF State

-----------------------------------------------------------------------------
(* A step keeps the parts of the invariant.                                 *)

\* What has been listed is not touched: its record stays true.
LEMMA ListKept ==
    ASSUME Recorded, model' = model, states' = states
    PROVE  (\A k \in 1..Len(states) : Records(states[k], Len(model.transitions) + 1))'
<1> SUFFICES ASSUME NEW k \in 1..Len(states)
             PROVE  Records(states[k], Len(model.transitions) + 1)'
  OBVIOUS
<1>1. Records(states[k], Len(model.transitions) + 1)
  BY DEF Recorded
<1>2. QED
  BY <1>1 DEF Records

\* A state that records everything below r and is not changed still does after r,
\* if r is not enabled in it.
LEMMA RecordedStep ==
    ASSUME TypeOK, Recorded, [Next]_vars
    PROVE  Recorded'
<1>0. /\ Trans(model) = 1..Len(model.transitions) /\ Len(model.transitions) \in Nat
      /\ rank \in Nat
  BY Ranks DEF TypeOK
<1>1. CASE Visit
  <2>1. Records(state, rank)'
    <3>1. Len(state'.enabled) = 0 /\ Len(state'.targets) = 0
      BY <1>1, VisitFacts
    <3>2. \A t \in Trans(model) : ~(t < 1)
      BY <1>0
    <3>3. QED
      BY <1>1, <3>1, <3>2, VisitFacts DEF Records
  <2>2. QED
    BY <1>1, <2>1, VisitFacts, ListKept DEF Recorded
<1>2. CASE Follow
  <2>1. Records(state, rank) /\ Records(state, rank)'
    <3> DEFINE n == Len(state.enabled)
    <3>1. n \in Nat /\ Len(state'.enabled) = n + 1 /\ Len(state'.targets) = n + 1
      BY <1>2, FollowFacts
    <3>2. Records(state, rank)
      BY <1>2, FollowFacts DEF Recorded
    <3>3. \A k \in 1..n + 1 : k \in 1..n \/ k = n + 1
      BY <3>1
    <3>4. \A k \in 1..n : state.enabled[k] \in Nat /\ state.enabled[k] < rank
      <4>1. state.enabled \in Seq(Trans(model))
        BY DEF TypeOK, State
      <4>2. \A k \in 1..n : state.enabled[k] \in Trans(model)
        BY <4>1, ElementOfSeq
      <4>3. QED
        BY <1>0, <3>2, <4>2 DEF Records
    <3> HIDE DEF n
    <3>5. \A k \in 1..n + 1 : /\ state'.enabled[k] < rank'
                              /\ Enabled(model', state'.key, state'.enabled[k])
                              /\ state'.targets[k] = Fire(model', state'.key, state'.enabled[k])
      <4> SUFFICES ASSUME NEW k \in 1..n + 1
                   PROVE  /\ state'.enabled[k] < rank'
                          /\ Enabled(model', state'.key, state'.enabled[k])
                          /\ state'.targets[k] = Fire(model', state'.key, state'.enabled[k])
        OBVIOUS
      <4>0. /\ rank' = rank + 1 /\ model' = model /\ state'.key = state.key
        BY <1>2, FollowFacts
      <4>1. CASE k = n + 1
        <5>1. /\ state'.enabled[k] = rank
              /\ state'.targets[k] = Fire(model, state.key, rank)
              /\ Enabled(model, state.key, rank)
          BY <1>2, <4>1, FollowFacts DEF n
        <5>2. QED
          BY <1>0, <4>0, <5>1
      <4>2. CASE k \in 1..n
        <5>1. state'.enabled[k] = state.enabled[k] /\ state'.targets[k] = state.targets[k]
          BY <1>2, <4>2, FollowFacts DEF n
        <5>2. /\ Enabled(model, state.key, state.enabled[k])
              /\ state.targets[k] = Fire(model, state.key, state.enabled[k])
          BY <3>2, <4>2 DEF Records, n
        <5>3. state.enabled[k] < rank + 1
          BY <1>0, <3>4, <4>2
        <5>4. QED
          BY <4>0, <5>1, <5>2, <5>3
      <4>3. QED
        BY <3>3, <4>1, <4>2
    <3>6. \A t \in Trans(model') : t < rank' /\ Enabled(model', state'.key, t) =>
             \E k \in 1..n + 1 : state'.enabled[k] = t
      <4> SUFFICES ASSUME NEW t \in Trans(model), t < rank + 1, Enabled(model, state.key, t)
                   PROVE  \E k \in 1..n + 1 : state'.enabled[k] = t
        BY <1>2, FollowFacts
      <4>1. CASE t = rank
        <5>1. state'.enabled[n + 1] = t
          BY <1>2, <4>1, FollowFacts DEF n
        <5>2. QED
          BY <3>1, <5>1
      <4>2. CASE t < rank
        <5>1. PICK k \in 1..n : state.enabled[k] = t
          BY <3>2, <4>2 DEF Records, n
        <5>2. state'.enabled[k] = t
          BY <1>2, <5>1, FollowFacts DEF n
        <5>3. QED
          BY <3>1, <5>1, <5>2
      <4>3. QED
        BY <1>0, <4>1, <4>2
    <3>7. \A j, k \in 1..n + 1 : j < k => state'.enabled[j] < state'.enabled[k]
      <4> SUFFICES ASSUME NEW j \in 1..n + 1, NEW k \in 1..n + 1, j < k
                   PROVE  state'.enabled[j] < state'.enabled[k]
        OBVIOUS
      <4>1. j \in 1..n
        BY <3>1
      <4>2. state'.enabled[j] = state.enabled[j]
        BY <1>2, <4>1, FollowFacts DEF n
      <4>3. CASE k = n + 1
        <5>1. state'.enabled[k] = rank
          BY <1>2, <4>3, FollowFacts DEF n
        <5>2. QED
          BY <3>4, <4>1, <4>2, <5>1
      <4>4. CASE k \in 1..n
        <5>1. state'.enabled[k] = state.enabled[k]
          BY <1>2, <4>4, FollowFacts DEF n
        <5>2. state.enabled[j] < state.enabled[k]
          BY <3>2, <4>1, <4>4 DEF Records, n
        <5>3. QED
          BY <4>2, <5>1, <5>2
      <4>5. QED
        BY <3>3, <4>3, <4>4
    <3>8. Records(state, rank)'
      BY <3>1, <3>5, <3>6, <3>7 DEF Records
    <3>9. QED
      BY <3>2, <3>8
  <2>2. model' = model /\ states' = states
    BY <1>2, FollowFacts
  <2>3. (\A k \in 1..Len(states) : Records(states[k], Len(model.transitions) + 1))'
    BY <2>2, ListKept
  <2>4. QED
    BY <2>1, <2>3 DEF Recorded
<1>3. CASE PassOver
  <2>1. Records(state, rank)
    BY <1>3, PassOverFacts DEF Recorded
  <2>2. \A t \in Trans(model) :
           t < rank + 1 /\ Enabled(model, state.key, t) => t < rank
    BY <1>0, <1>3, PassOverFacts
  <2>3. \A k \in 1..Len(state.enabled) : state.enabled[k] < rank + 1
    <3>1. state.enabled \in Seq(Trans(model))
      BY DEF TypeOK, State
    <3>2. \A k \in 1..Len(state.enabled) : state.enabled[k] \in Nat
      BY <1>0, <3>1, ElementOfSeq
    <3>3. QED
      BY <1>0, <2>1, <3>2 DEF Records
  <2>4. Records(state, rank + 1)
    BY <2>1, <2>2, <2>3 DEF Records
  <2>5. Records(state, rank)'
    BY <1>3, <2>4, PassOverFacts DEF Records
  <2>6. QED
    BY <1>3, <2>5, PassOverFacts, ListKept DEF Recorded
<1>4. CASE Record
  <2>1. Records(state, Len(model.transitions) + 1)
    BY <1>4, RecordFacts DEF Recorded
  <2>2. \A k \in 1..Len(states') : Records(states'[k], Len(model.transitions) + 1)
    <3>1. \A k \in 1..Len(states') : k \in 1..Len(states) \/ k = Len(states) + 1
      BY <1>4, RecordFacts
    <3>2. QED
      BY <1>4, <2>1, <3>1, RecordFacts DEF Recorded
  <2>3. QED
    BY <1>4, <2>2, RecordFacts DEF Recorded, Records
<1>5. CASE Idle
  BY <1>5 DEF Idle, Recorded, Records
<1>6. QED
  BY <1>1, <1>2, <1>3, <1>4, <1>5, Steps

\* Where a listed state stands does not change, and the state that is recorded comes
\* after all of them.
LEMMA KeysAfterRecord ==
    ASSUME TypeOK, Record
    PROVE  /\ Keys' = Keys \cup {state.key}
           /\ \A k \in 1..Len(states') : k \in 1..Len(states) \/ k = Len(states) + 1
<1>1. /\ DOMAIN states = 1..Len(states) /\ Len(states) \in Nat
      /\ DOMAIN states' = 1..Len(states) + 1 /\ Len(states') = Len(states) + 1
  BY Lists, RecordFacts DEF Record, TypeOK
<1>2. \A k \in 1..Len(states) + 1 : k \in 1..Len(states) \/ k = Len(states) + 1
  BY <1>1
<1>3. Keys' \subseteq Keys \cup {state.key}
  BY <1>1, <1>2, RecordFacts DEF Keys
<1>4. Keys \cup {state.key} \subseteq Keys'
  <2>1. 1..Len(states) \subseteq 1..Len(states) + 1 /\ Len(states) + 1 \in 1..Len(states) + 1
    BY <1>1
  <2>2. QED
    BY <1>1, <2>1, RecordFacts DEF Keys
<1>5. QED
  BY <1>1, <1>2, <1>3, <1>4

\* A marking moves from the queue to the visit and on to the list; what is found is
\* queued only if it is in none of the three.
LEMMA OnceStep ==
    ASSUME TypeOK, Recorded, Once, [Next]_vars
    PROVE  Once'
<1>0. DOMAIN states = 1..Len(states) /\ Len(states) \in Nat /\ Len(frontier) \in Nat
  BY Lists
<1>1. CASE Visit
  <2>1. Keys' = Keys /\ Visited' = {frontier[1]} /\ Visited = {}
    BY <1>1, VisitFacts DEF Keys, Visited
  <2>2. \A i \in 1..Len(frontier') : /\ i + 1 \in 1..Len(frontier) /\ i + 1 # 1
                                     /\ frontier'[i] = frontier[i + 1]
    BY <1>0, <1>1, VisitFacts
  <2>3. \A i \in 1..Len(frontier) :
           i = 1 \/ (i - 1 \in 1..Len(frontier') /\ frontier'[i - 1] = frontier[i])
    <3> SUFFICES ASSUME NEW i \in 1..Len(frontier), i # 1
                 PROVE  i - 1 \in 1..Len(frontier') /\ frontier'[i - 1] = frontier[i]
      OBVIOUS
    <3>1. i - 1 \in 1..Len(frontier') /\ (i - 1) + 1 = i
      BY <1>0, <1>1, VisitFacts
    <3>2. QED
      BY <2>2, <3>1
  <2>4. 1 \in 1..Len(frontier)
    BY <1>0, <1>1, VisitFacts
  <2>5. Queued = Queued' \cup {frontier[1]}
    <3>1. \A i \in 1..Len(frontier) : frontier[i] \in Queued' \cup {frontier[1]}
      BY <2>3 DEF Queued
    <3>2. \A i \in 1..Len(frontier') : frontier'[i] \in Queued
      BY <2>2 DEF Queued
    <3>3. Queued \subseteq Queued' \cup {frontier[1]}
      BY <3>1 DEF Queued
    <3>4. Queued' \subseteq Queued
      BY <3>2 DEF Queued
    <3>5. frontier[1] \in Queued
      BY <2>4 DEF Queued
    <3>6. QED
      BY <3>3, <3>4, <3>5
  <2>6. frontier[1] \notin Queued'
    <3> SUFFICES ASSUME NEW i \in 1..Len(frontier'), frontier'[i] = frontier[1]
                 PROVE  FALSE
      BY DEF Queued
    <3>1. /\ i + 1 \in 1..Len(frontier) /\ i + 1 # 1
          /\ frontier[i + 1] = frontier[1]
      BY <2>2
    <3>2. QED
      BY <2>4, <3>1 DEF Once
  <2>7. \A j, k \in 1..Len(frontier') : frontier'[j] = frontier'[k] => j = k
    <3> SUFFICES ASSUME NEW j \in 1..Len(frontier'), NEW k \in 1..Len(frontier'),
                        frontier'[j] = frontier'[k]
                 PROVE  j = k
      OBVIOUS
    <3>1. j + 1 = k + 1
      BY <2>2 DEF Once
    <3>2. QED
      BY <1>0, <1>1, <3>1, VisitFacts
  <2>8. \A j, k \in 1..Len(states') : states'[j].key = states'[k].key => j = k
    BY <1>1, VisitFacts DEF Once
  <2>9. seen' = seen
    BY <1>1, VisitFacts
  <2>10. QED
    BY <2>1, <2>5, <2>6, <2>7, <2>8, <2>9 DEF Once
<1>2. CASE Follow
  <2> DEFINE target == Fire(model, state.key, rank)
  <2>1. Keys' = Keys /\ Visited' = Visited /\ seen' = seen \cup {target}
    BY <1>2, FollowFacts DEF Keys, Visited
  <2>2. \A j, k \in 1..Len(states') : states'[j].key = states'[k].key => j = k
    BY <1>2, FollowFacts DEF Once
  <2>3. CASE target \in seen
    <3>1. frontier' = frontier /\ seen' = seen
      BY <1>2, <2>1, <2>3, FollowQueue
    <3>2. QED
      BY <2>1, <2>2, <3>1 DEF Once, Queued
  <2>4. CASE target \notin seen
    <3>1. /\ Len(frontier') = Len(frontier) + 1
          /\ \A i \in 1..Len(frontier) : frontier'[i] = frontier[i]
          /\ frontier'[Len(frontier) + 1] = target
      BY <1>2, <2>4, FollowQueue
    <3> HIDE DEF target
    <3>2. \A i \in 1..Len(frontier') : i \in 1..Len(frontier) \/ i = Len(frontier) + 1
      BY <1>0, <3>1
    <3>3. /\ \A i \in 1..Len(frontier) : i \in 1..Len(frontier')
          /\ Len(frontier) + 1 \in 1..Len(frontier')
      BY <1>0, <3>1
    <3>4. Queued' = Queued \cup {target}
      BY <3>1, <3>2, <3>3 DEF Queued
    <3>5. target \notin Keys /\ target \notin Visited /\ target \notin Queued
      BY <2>4 DEF Once
    <3>6. \A j, k \in 1..Len(frontier') : frontier'[j] = frontier'[k] => j = k
      BY <3>1, <3>2, <3>5 DEF Once, Queued
    <3>7. QED
      BY <2>1, <2>2, <3>4, <3>5, <3>6 DEF Once
  <2>5. QED
    BY <2>3, <2>4
<1>3. CASE PassOver
  BY <1>3, PassOverFacts DEF Once, Keys, Visited, Queued
<1>4. CASE Record
  <2>1. Keys' = Keys \cup {state.key} /\ Visited = {state.key} /\ Visited' = {}
    BY <1>4, KeysAfterRecord, RecordFacts DEF Visited
  <2>2. Queued' = Queued /\ seen' = seen /\ frontier' = frontier
    BY <1>4, RecordFacts DEF Queued
  <2>3. \A k \in 1..Len(states) : states[k].key # state.key
    BY <1>0, <2>1 DEF Once, Keys
  <2>4. \A j, k \in 1..Len(states') : states'[j].key = states'[k].key => j = k
    BY <1>4, <2>3, KeysAfterRecord, RecordFacts DEF Once
  <2>5. QED
    BY <2>1, <2>2, <2>4 DEF Once
<1>5. CASE Idle
  BY <1>5 DEF Idle, Once, Keys, Visited, Queued
<1>6. QED
  BY <1>1, <1>2, <1>3, <1>4, <1>5, Steps

\* A state whose targets are noted has one more after a transition is followed, and
\* the new one is where the transition leads.
LEMMA LeadsAfterFollow ==
    ASSUME TypeOK, Recorded, Follow, NEW m
    PROVE  Leads(state', m) <=> Leads(state, m) \/ m = Fire(model, state.key, rank)
<1> DEFINE n == Len(state.enabled)
<1>1. n \in Nat /\ Len(state.targets) = n /\ Len(state'.targets) = n + 1
  BY FollowFacts
<1>2. state.targets \in Seq(Marking) /\ state'.targets \in Seq(Marking)
  <2>1. /\ state'.targets = Append(state.targets, Fire(model, state.key, rank))
        /\ Fire(model, state.key, rank) \in Marking
    BY FollowFacts DEF Follow, Extended
  <2>2. QED
    BY <2>1 DEF TypeOK, State
<1>3. DOMAIN state.targets = 1..n /\ DOMAIN state'.targets = 1..n + 1
  BY <1>1, <1>2, LenProperties
<1>4. /\ \A k \in 1..n : state'.targets[k] = state.targets[k]
      /\ state'.targets[n + 1] = Fire(model, state.key, rank)
  BY FollowFacts
<1>5. (\A k \in 1..n + 1 : k \in 1..n \/ k = n + 1) /\ 1..n \subseteq 1..n + 1 /\ n + 1 \in 1..n + 1
  BY <1>1
<1>6. QED
  BY <1>3, <1>4, <1>5 DEF Leads

\* What a firing leads to is seen when it is noted.
LEMMA ClosedStep ==
    ASSUME TypeOK, Recorded, Closed, [Next]_vars
    PROVE  Closed'
<1>1. CASE Visit
  <2>1. /\ model' = model /\ states' = states /\ seen' = seen /\ state'.targets = <<>>
    BY <1>1, VisitFacts
  <2>2. \A m : ~Leads(state', m)
    BY <2>1 DEF Leads
  <2>3. QED
    BY <2>1, <2>2 DEF Closed, Leads, Marking
<1>2. CASE Follow
  <2>1. /\ model' = model /\ states' = states /\ pc = "fire"
        /\ seen' = seen \cup {Fire(model, state.key, rank)}
    BY <1>2, FollowFacts
  <2>2. \A m \in Marking : Leads(state', m) => m \in seen'
    BY <1>2, <2>1, LeadsAfterFollow DEF Closed
  <2>3. \A k \in 1..Len(states), m \in Marking : Leads(states[k], m) => m \in seen'
    BY <2>1 DEF Closed
  <2>4. model.initial \in seen'
    BY <2>1 DEF Closed
  <2>5. Marking' = Marking
    BY <2>1 DEF Marking
  <2>6. QED
    BY <2>1, <2>2, <2>3, <2>4, <2>5 DEF Closed, Leads
<1>3. CASE PassOver
  BY <1>3, PassOverFacts DEF Closed, Leads, Marking
<1>4. CASE Record
  <2>1. \A m \in Marking : Leads(state, m) => m \in seen
    BY <1>4, RecordFacts DEF Closed
  <2>2. \A k \in 1..Len(states') : \A m \in Marking : Leads(states'[k], m) => m \in seen
    BY <1>4, <2>1, KeysAfterRecord, RecordFacts DEF Closed
  <2>3. model' = model /\ seen' = seen /\ pc' # "fire" /\ Marking' = Marking
    BY <1>4, RecordFacts DEF Marking
  <2>4. QED
    BY <2>2, <2>3 DEF Closed, Leads
<1>5. CASE Idle
  BY <1>5 DEF Idle, Closed, Leads, Marking
<1>6. QED
  BY <1>1, <1>2, <1>3, <1>4, <1>5, Steps

\* The first visit is the initial marking's; afterwards nothing comes to the queue, and
\* so to the list, but what a listed state leads to.
LEMMA DiscoveredStep ==
    ASSUME TypeOK, Recorded, Once, Discovered, [Next]_vars
    PROVE  Discovered'
<1>0. Len(states) \in Nat /\ Len(frontier) \in Nat
  BY Lists
<1>1. CASE Visit
  <2>1. /\ model' = model /\ states' = states /\ pc # "fire" /\ state'.key = frontier[1]
        /\ \A i \in 1..Len(frontier') : /\ i + 1 \in 1..Len(frontier) /\ i + 1 # 1
                                        /\ frontier'[i] = frontier[i + 1]
        /\ 1 \in 1..Len(frontier)
    BY <1>0, <1>1, VisitFacts
  <2>2. \A i \in 1..Len(frontier) : First(frontier[i]) \/ Listed(frontier[i])
    BY <2>1 DEF Discovered
  <2>3. \A i \in 1..Len(frontier) : i # 1 => Listed(frontier[i])
    <3> SUFFICES ASSUME NEW i \in 1..Len(frontier), i # 1, First(frontier[i])
                 PROVE  FALSE
      BY <2>2
    <3>1. states = <<>> /\ frontier[i] = model.initial
      BY DEF First
    <3>2. ~Listed(frontier[1])
      BY <3>1 DEF Listed
    <3>3. frontier[1] = model.initial
      BY <2>1, <2>2, <3>2 DEF First
    <3>4. QED
      BY <2>1, <3>1, <3>3 DEF Once
  <2>4. First(state'.key) \/ Listed(state'.key)
    BY <2>1, <2>2
  <2>5. \A i \in 1..Len(frontier') : Listed(frontier'[i])
    BY <2>1, <2>3
  <2>6. \A m : (First(m)' <=> First(m)) /\ (Listed(m)' <=> Listed(m))
    BY <2>1 DEF First, Listed, Leads
  <2>7. (\A k \in 2..Len(states) : \E j \in 1..k - 1 : Leads(states[j], states[k].key))'
    BY <2>1 DEF Discovered, Leads
  <2>8. QED
    BY <2>1, <2>4, <2>5, <2>7 DEF Discovered, First, Listed, Leads
<1>2. CASE Follow
  <2> DEFINE target == Fire(model, state.key, rank)
  <2>1. /\ model' = model /\ states' = states /\ pc = "fire" /\ pc' = "fire"
        /\ state'.key = state.key
    BY <1>2, FollowFacts
  <2>2. \A m : Leads(state', m) <=> Leads(state, m) \/ m = target
    BY <1>2, LeadsAfterFollow
  <2>3. \A i \in 1..Len(frontier) : Listed(frontier[i]) \/ Leads(state', frontier[i])
    BY <2>1, <2>2 DEF Discovered
  <2>4. \A i \in 1..Len(frontier') : Listed(frontier'[i]) \/ Leads(state', frontier'[i])
    <3>1. CASE target \in seen
      BY <1>2, <2>3, <3>1, FollowQueue
    <3>2. CASE target \notin seen
      <4>1. /\ Len(frontier') = Len(frontier) + 1
            /\ \A i \in 1..Len(frontier) : frontier'[i] = frontier[i]
            /\ frontier'[Len(frontier) + 1] = target
        BY <1>2, <3>2, FollowQueue
      <4> HIDE DEF target
      <4>2. \A i \in 1..Len(frontier') : i \in 1..Len(frontier) \/ i = Len(frontier) + 1
        BY <1>0, <4>1
      <4>3. QED
        BY <2>2, <2>3, <4>1, <4>2
    <3>3. QED
      BY <3>1, <3>2
  <2>5. (\A k \in 2..Len(states) : \E j \in 1..k - 1 : Leads(states[j], states[k].key))'
    BY <2>1 DEF Discovered, Leads
  <2>6. (First(state.key) \/ Listed(state.key))'
    BY <2>1 DEF Discovered, First, Listed, Leads
  <2>7. QED
    BY <2>1, <2>4, <2>5, <2>6 DEF Discovered, Listed, Leads
<1>3. CASE PassOver
  BY <1>3, PassOverFacts DEF Discovered, First, Listed, Leads
<1>4. CASE Record
  <2>1. /\ pc = "fire" /\ pc' # "fire" /\ Len(states') = Len(states) + 1
        /\ \A k \in 1..Len(states) : states'[k] = states[k]
        /\ states'[Len(states) + 1] = state
        /\ frontier' = frontier
    BY <1>4, RecordFacts
  <2>2. /\ \A k \in 1..Len(states') : k \in 1..Len(states) \/ k = Len(states) + 1
        /\ \A k \in 1..Len(states) : k \in 1..Len(states')
        /\ Len(states) + 1 \in 1..Len(states')
    BY <1>0, <2>1
  <2>3. \A m : Listed(m) \/ Leads(state, m) => \E j \in 1..Len(states') : Leads(states'[j], m)
    BY <2>1, <2>2 DEF Listed
  <2>4. \A k \in 2..Len(states') : \E j \in 1..k - 1 : Leads(states'[j], states'[k].key)
    <3> SUFFICES ASSUME NEW k \in 2..Len(states')
                 PROVE  \E j \in 1..k - 1 : Leads(states'[j], states'[k].key)
      OBVIOUS
    <3>1. CASE k = Len(states) + 1
      <4>1. states # <<>> /\ k - 1 = Len(states) /\ states'[k] = state
        BY <1>0, <2>1, <3>1
      <4>2. Listed(state.key)
        BY <2>1, <4>1 DEF Discovered, First
      <4>3. QED
        BY <2>1, <4>1, <4>2 DEF Listed
    <3>2. CASE k # Len(states) + 1
      <4>1. k \in 2..Len(states) /\ \A j \in 1..k - 1 : j \in 1..Len(states)
        BY <1>0, <2>1, <3>2
      <4>2. k \in 1..Len(states)
        BY <1>0, <4>1
      <4>3. QED
        BY <2>1, <4>1, <4>2 DEF Discovered
    <3>3. QED
      BY <3>1, <3>2
  <2>5. \A i \in 1..Len(frontier) : Listed(frontier[i]) \/ Leads(state, frontier[i])
    BY <2>1 DEF Discovered
  <2>6. \A i \in 1..Len(frontier') : \E j \in 1..Len(states') : Leads(states'[j], frontier'[i])
    BY <2>1, <2>3, <2>5
  <2>7. QED
    BY <2>1, <2>4, <2>6 DEF Discovered, Listed, Leads
<1>5. CASE Idle
  BY <1>5 DEF Idle, Discovered, First, Listed, Leads
<1>6. QED
  BY <1>1, <1>2, <1>3, <1>4, <1>5, Steps

\* The firings noted are finitely many.
LEMMA NotedFinite ==
    ASSUME TypeOK
    PROVE  IsFiniteSet(Noted)
<1>1. IsFiniteSet(Trans(model))
  BY Ranks, FS_Interval
<1>2. IsFiniteSet(seen \X Trans(model))
  BY <1>1, FS_Product DEF TypeOK
<1>3. QED
  BY <1>2, FS_Subset DEF Noted

\* A complete record lists nothing if and only if its marking is terminal.
LEMMA TerminalRecord ==
    ASSUME NEW s, Len(s.enabled) \in Nat, s.enabled \in Seq(Trans(model)),
           Records(s, Len(model.transitions) + 1),
           Trans(model) = 1..Len(model.transitions), Len(model.transitions) \in Nat
    PROVE  s.enabled = <<>> <=> Terminal(model, s.key)
<1>1. ASSUME s.enabled = <<>> PROVE Terminal(model, s.key)
  <2>1. Len(s.enabled) = 0
    BY <1>1
  <2>2. \A t \in Trans(model) : ~Enabled(model, s.key, t)
    BY <2>1 DEF Records
  <2>3. QED
    BY <2>2 DEF Terminal, EnabledIn
<1>2. ASSUME s.enabled # <<>> PROVE ~Terminal(model, s.key)
  <2>1. 1 \in 1..Len(s.enabled)
    BY <1>2, EmptySeq
  <2>2. s.enabled[1] \in Trans(model)
    BY <2>1, ElementOfSeq
  <2>3. QED
    BY <2>1, <2>2 DEF Records, Terminal, EnabledIn
<1>3. QED
  BY <1>1, <1>2

\* A transition followed is one firing more, and a record that is closed adds none.
LEMMA CountedStep ==
    ASSUME TypeOK, Recorded, Once, Counted, [Next]_vars
    PROVE  Counted'
<1>0. /\ Trans(model) = 1..Len(model.transitions) /\ Len(model.transitions) \in Nat
      /\ rank \in Nat
  BY Ranks DEF TypeOK
<1>1. CASE Visit
  <2>1. /\ UNCHANGED <<model, seen, states, terminals, edges>> /\ rank' = 1
        /\ Visited = {}
    BY <1>1, VisitFacts DEF Visited
  <2>2. Keys' = Keys
    BY <2>1 DEF Keys
  <2>3. \A t \in Trans(model) : ~(t < rank')
    BY <1>0, <2>1
  <2>4. Noted' = Noted
    BY <2>1, <2>2, <2>3 DEF Noted
  <2>5. QED
    BY <2>1, <2>2, <2>4 DEF Counted
<1>2. CASE Follow
  <2> DEFINE firing == <<state.key, rank>>
  <2>1. /\ model' = model /\ states' = states /\ terminals' = terminals
        /\ edges' = edges + 1 /\ rank' = rank + 1 /\ rank \in Trans(model)
        /\ Enabled(model, state.key, rank) /\ seen \subseteq seen'
        /\ Visited = {state.key} /\ Visited' = {state.key}
    BY <1>2, FollowFacts DEF Visited
  <2>2. Keys' = Keys /\ Keys \subseteq seen /\ state.key \in seen /\ state.key \notin Keys
    BY <2>1 DEF Keys, Once
  <2>3. \A t \in Trans(model) : t < rank + 1 <=> t < rank \/ t = rank
    BY <1>0
  <2>4. Noted' = Noted \cup {firing}
    BY <2>1, <2>2, <2>3 DEF Noted
  <2>5. firing \notin Noted
    BY <1>0, <2>2 DEF Noted
  <2> HIDE DEF firing
  <2>6. Cardinality(Noted') = Cardinality(Noted) + 1
    BY <2>4, <2>5, NotedFinite, FS_AddElement
  <2>7. QED
    BY <2>1, <2>2, <2>6 DEF Counted
<1>3. CASE PassOver
  <2>1. /\ UNCHANGED <<model, seen, state, states, terminals, edges>> /\ rank' = rank + 1
        /\ ~Enabled(model, state.key, rank)
        /\ Visited = {state.key} /\ Visited' = {state.key}
    BY <1>3, PassOverFacts DEF Visited
  <2>2. Keys' = Keys
    BY <2>1 DEF Keys
  <2>3. \A t \in Trans(model) : t < rank + 1 <=> t < rank \/ t = rank
    BY <1>0
  <2>4. Noted' = Noted
    BY <2>1, <2>2, <2>3 DEF Noted
  <2>5. QED
    BY <2>1, <2>2, <2>4 DEF Counted
<1>4. CASE Record
  <2>1. /\ UNCHANGED <<model, seen, edges>> /\ rank = Len(model.transitions) + 1
        /\ Visited = {state.key} /\ Visited' = {} /\ Keys' = Keys \cup {state.key}
    BY <1>4, RecordFacts, KeysAfterRecord DEF Visited
  <2>2. \A t \in Trans(model) : t < rank
    BY <1>0, <2>1
  <2>3. Noted' = Noted
    BY <2>1, <2>2 DEF Noted
  <2>4. state.enabled = <<>> <=> Terminal(model, state.key)
    <3>1. state.enabled \in Seq(Trans(model)) /\ Len(state.enabled) \in Nat
      BY LenProperties DEF TypeOK, State
    <3>2. Records(state, Len(model.transitions) + 1)
      BY <1>4, RecordFacts DEF Recorded
    <3>3. QED
      BY <1>0, <3>1, <3>2, TerminalRecord
  <2>5. terminals' = {m \in Keys' : Terminal(model, m)}
    BY <1>4, <2>1, <2>4, RecordFacts DEF Counted
  <2>6. QED
    BY <2>1, <2>3, <2>5 DEF Counted
<1>5. CASE Idle
  BY <1>5 DEF Idle, Counted, Noted, Keys, Visited
<1>6. QED
  BY <1>1, <1>2, <1>3, <1>4, <1>5, Steps

\* The walk begins when nothing is queued, and queues nothing.
LEMMA EmptiedStep ==
    ASSUME Emptied, [Next]_vars
    PROVE  Emptied'
<1>1. CASE Visit \/ Follow \/ PassOver \/ Record
  <2>1. pc' \in {"fire", "explore"}
    BY <1>1 DEF Visit, Follow, Trying, PassOver, Record
  <2>2. QED
    BY <2>1 DEF Emptied, Explored
<1>2. CASE Finish \/ Walk \/ WalkEnds \/ UNCHANGED vars
  <2>1. frontier' = frontier
    BY <1>2 DEF Finish, Walk, WalkEnds, vars, visiting
  <2>2. frontier = <<>> \/ pc' = pc
    BY <1>2 DEF Emptied, Explored, Finish, Walk, WalkEnds, vars
  <2>3. QED
    BY <2>1, <2>2 DEF Emptied, Explored
<1>3. QED
  BY <1>1, <1>2 DEF Next

-----------------------------------------------------------------------------
(* The walk.                                                                *)

\* When nothing is queued and nothing is visited, what has been seen is listed.
LEMMA SeenIsListed ==
    ASSUME TypeOK, Once, frontier = <<>>, pc # "fire"
    PROVE  seen = Keys
<1>1. Len(frontier) = 0
  OBVIOUS
<1>2. Queued = {} /\ Visited = {}
  BY <1>1 DEF Queued, Visited
<1>3. QED
  BY <1>2 DEF Once

\* The first of a complete record's transitions is the least that is enabled, and its
\* target is where that leads.
LEMMA HeadIsLeast ==
    ASSUME TypeOK, Recorded, NEW k \in 1..Len(states), states[k].enabled # <<>>
    PROVE  LET t == Head(states[k].enabled)
               m == states[k].key
           IN  /\ t \in Trans(model)
               /\ Enabled(model, m, t)
               /\ \A u \in EnabledIn(model, m) : t <= u
               /\ Head(states[k].targets) = Fire(model, m, t)
<1> DEFINE s == states[k]
<1>1. /\ s.enabled \in Seq(Trans(model)) /\ s.targets \in Seq(Marking)
      /\ Records(s, Len(model.transitions) + 1)
  BY Lists DEF Recorded
<1>2. /\ Trans(model) = 1..Len(model.transitions) /\ Len(model.transitions) \in Nat
  BY Ranks
<1> HIDE DEF s
<1>3. Len(s.enabled) \in Nat \ {0} /\ Len(s.targets) = Len(s.enabled)
  BY <1>1, EmptySeq DEF Records, s
<1>4. Head(s.enabled) = s.enabled[1] /\ Head(s.targets) = s.targets[1]
  BY <1>1, <1>3
<1>5. 1 \in 1..Len(s.enabled)
  BY <1>3
<1>6. s.enabled[1] \in Trans(model)
  BY <1>1, <1>5, ElementOfSeq
<1>7. /\ Enabled(model, s.key, s.enabled[1])
      /\ s.targets[1] = Fire(model, s.key, s.enabled[1])
  BY <1>1, <1>5 DEF Records
<1>8. \A u \in EnabledIn(model, s.key) : s.enabled[1] <= u
  <2> SUFFICES ASSUME NEW u \in Trans(model), Enabled(model, s.key, u)
               PROVE  s.enabled[1] <= u
    BY DEF EnabledIn
  <2>1. u < Len(model.transitions) + 1
    BY <1>2
  <2>2. PICK j \in 1..Len(s.enabled) : s.enabled[j] = u
    BY <1>1, <2>1 DEF Records
  <2>3. j = 1 \/ 1 < j
    BY <1>3
  <2>4. 1 < j => s.enabled[1] < s.enabled[j]
    BY <1>1, <1>5 DEF Records
  <2>5. QED
    BY <1>2, <1>6, <2>2, <2>3, <2>4
<1>9. QED
  BY <1>4, <1>6, <1>7, <1>8 DEF s

\* The steps of the walk.
LEMMA WalkSteps ==
    ASSUME [Next]_vars
    PROVE  \/ Finish
           \/ Walk
           \/ WalkEnds
           \/ /\ UNCHANGED <<model, current, lines>> /\ ~Explored /\ ~Explored'
           \/ UNCHANGED vars
<1>1. CASE Visit \/ Follow \/ PassOver \/ Record
  BY <1>1 DEF Visit, Follow, Trying, PassOver, Record, walking, Explored
<1>2. QED
  BY <1>1 DEF Next

\* What a line of the walk is: the transition that the state listed for the current
\* marking has first.
LEMMA WalkFacts ==
    ASSUME TypeOK, Recorded, Walk
    PROVE  \E t \in Trans(model) :
              /\ Enabled(model, current, t)
              /\ \A u \in EnabledIn(model, current) : t <= u
              /\ current' = Fire(model, current, t)
              /\ current' \in Marking
              /\ Len(lines) \in Nat
              /\ Len(lines') = Len(lines) + 1
              /\ \A k \in 1..Len(lines) : lines'[k] = lines[k]
              /\ lines'[Len(lines) + 1].fired = t
              /\ lines'[Len(lines) + 1].marking = current'
<1>1. PICK k \in Found :
           /\ states[k].enabled # <<>>
           /\ lines' = Append(lines, [fired |-> Head(states[k].enabled),
                                      marking |-> Head(states[k].targets)])
           /\ current' = Head(states[k].targets)
  BY DEF Walk
<1>2. k \in 1..Len(states) /\ states[k].key = current
  BY Lists DEF Found
<1> DEFINE t == Head(states[k].enabled)
           l == [fired |-> t, marking |-> current']
<1>3. /\ t \in Trans(model)
      /\ Enabled(model, current, t)
      /\ \A u \in EnabledIn(model, current) : t <= u
      /\ current' = Fire(model, current, t)
  BY <1>1, <1>2, HeadIsLeast
<1>4. lines' = Append(lines, l)
  BY <1>1
<1>5. current' \in Marking
  BY <1>3, Ranks, FireType DEF TypeOK, Marking
<1> HIDE DEF t
<1>6. l \in Line
  BY <1>3, <1>5 DEF Line
<1>7. lines \in Seq(Line)
  BY DEF TypeOK
<1> HIDE DEF l
<1>8. /\ Len(lines) \in Nat
      /\ Len(lines') = Len(lines) + 1
      /\ \A j \in 1..Len(lines) : lines'[j] = lines[j]
      /\ lines'[Len(lines) + 1] = l
  BY <1>4, <1>6, <1>7
<1>9. l.fired = t /\ l.marking = current'
  BY DEF l
<1>10. QED
  BY <1>3, <1>5, <1>8, <1>9

\* The walk goes on from a listed marking to a listed marking.
LEMMA WalkedStep ==
    ASSUME TypeOK, Recorded, Once, Closed, Emptied, Walked, [Next]_vars
    PROVE  Walked'
<1>1. CASE Finish
  <2>1. /\ pc = "explore" /\ pc' = "trace" /\ frontier = <<>> /\ current' = model.initial
        /\ UNCHANGED <<model, states, lines>> /\ lines = <<>>
    BY <1>1 DEF Finish, visiting, Walked, Explored
  <2>2. model.initial \in Keys
    BY <2>1, SeenIsListed DEF Closed
  <2>3. Keys' = Keys /\ Len(lines') = 0
    BY <2>1 DEF Keys
  <2>4. current' = Before(Len(lines) + 1)'
    BY <2>1, <2>3 DEF Before
  <2>5. QED
    BY <2>1, <2>2, <2>3, <2>4 DEF Walked, Explored
<1>2. CASE Walk
  <2>1. PICK t \in Trans(model) :
              /\ Enabled(model, current, t)
              /\ \A u \in EnabledIn(model, current) : t <= u
              /\ current' = Fire(model, current, t)
              /\ current' \in Marking
              /\ Len(lines) \in Nat
              /\ Len(lines') = Len(lines) + 1
              /\ \A k \in 1..Len(lines) : lines'[k] = lines[k]
              /\ lines'[Len(lines) + 1].fired = t
              /\ lines'[Len(lines) + 1].marking = current'
    BY <1>2, WalkFacts
  <2>2. pc = "trace" /\ pc' = "trace" /\ UNCHANGED <<model, states, frontier>>
    BY <1>2 DEF Walk, visiting
  <2>3. Explored /\ Explored' /\ frontier = <<>> /\ pc # "fire" /\ pc' # "done"
    BY <2>2 DEF Explored, Emptied
  <2> DEFINE n == Len(lines)
  <2>4. \A k \in 1..n + 1 : Before(k)' = Before(k)
    <3> SUFFICES ASSUME NEW k \in 1..n + 1 PROVE Before(k)' = Before(k)
      OBVIOUS
    <3>1. k = 1 \/ k - 1 \in 1..n
      BY <2>1
    <3>2. QED
      BY <2>1, <2>2, <3>1 DEF Before
  <2>5. Before(n + 1) = current
    BY <2>3 DEF Walked
  <2>6. Before(Len(lines) + 1)' = current'
    <3>1. Len(lines') + 1 # 1 /\ (Len(lines') + 1) - 1 = n + 1
      BY <2>1
    <3>2. QED
      BY <2>1, <3>1 DEF Before
  <2>7. current' \in Keys'
    <3>1. PICK k \in Found : /\ states[k].enabled # <<>>
                             /\ current' = Head(states[k].targets)
      BY <1>2 DEF Walk
    <3>2. /\ k \in 1..Len(states) /\ states[k].targets \in Seq(Marking)
          /\ states[k].enabled \in Seq(Trans(model))
      BY <3>1, Lists DEF Found
    <3>3. Len(states[k].targets) = Len(states[k].enabled)
      BY <3>2 DEF Recorded, Records
    <3>4. states[k].targets # <<>> /\ 1 \in 1..Len(states[k].targets)
      BY <3>1, <3>2, <3>3, EmptySeq
    <3>5. current' = states[k].targets[1] /\ 1 \in DOMAIN states[k].targets
      BY <3>1, <3>2, <3>4, LenProperties
    <3>6. Leads(states[k], current')
      BY <3>5 DEF Leads
    <3>7. current' \in seen
      BY <2>1, <3>2, <3>6 DEF Closed
    <3>8. QED
      BY <2>2, <2>3, <3>7, SeenIsListed DEF Keys
  <2>8. \A k \in 1..n + 1 :
          /\ Enabled(model, Before(k)', lines'[k].fired)
          /\ \A u \in EnabledIn(model, Before(k)') : lines'[k].fired <= u
          /\ lines'[k].marking = Fire(model, Before(k)', lines'[k].fired)
    <3> SUFFICES ASSUME NEW k \in 1..n + 1
                 PROVE  /\ Enabled(model, Before(k), lines'[k].fired)
                        /\ \A u \in EnabledIn(model, Before(k)) : lines'[k].fired <= u
                        /\ lines'[k].marking = Fire(model, Before(k), lines'[k].fired)
      BY <2>4
    <3>1. CASE k = n + 1
      BY <2>1, <2>5, <3>1
    <3>2. CASE k # n + 1
      <4>1. k \in 1..n
        BY <2>1, <3>2
      <4>2. QED
        BY <2>1, <4>1 DEF Walked
    <3>3. QED
      BY <3>1, <3>2
  <2>9. (\A k \in 1..Len(lines) :
            /\ Enabled(model, Before(k), lines[k].fired)
            /\ \A u \in EnabledIn(model, Before(k)) : lines[k].fired <= u
            /\ lines[k].marking = Fire(model, Before(k), lines[k].fired))'
    BY <2>1, <2>2, <2>8
  <2>10. QED
    BY <2>3, <2>6, <2>7, <2>9 DEF Walked
<1>3. CASE WalkEnds
  <2>1. /\ pc = "trace" /\ pc' = "done" /\ UNCHANGED <<model, states, current, lines>>
        /\ \A k \in Found : states[k].enabled = <<>>
    BY <1>3 DEF WalkEnds, visiting, walking
  <2>2. PICK k \in DOMAIN states : states[k].key = current
    BY <2>1 DEF Walked, Explored, Keys
  <2>3. states[k].enabled = <<>> /\ k \in 1..Len(states)
    BY <2>1, <2>2, Lists DEF Found
  <2>4. Terminal(model, states[k].key)
    <3>1. /\ states[k].enabled \in Seq(Trans(model)) /\ Len(states[k].enabled) \in Nat
          /\ Records(states[k], Len(model.transitions) + 1)
      BY <2>3, Lists, LenProperties DEF Recorded
    <3>2. QED
      BY <2>3, <3>1, Ranks, TerminalRecord
  <2>5. Keys' = Keys /\ \A j : Before(j)' = Before(j)
    BY <2>1 DEF Keys, Before
  <2>6. QED
    BY <2>1, <2>2, <2>4, <2>5 DEF Walked, Explored
<1>4. CASE UNCHANGED <<model, current, lines>> /\ ~Explored /\ ~Explored'
  <2>1. lines' = <<>> /\ Len(lines') = 0 /\ pc' # "done"
    BY <1>4 DEF Walked, Explored
  <2>2. QED
    BY <1>4, <2>1 DEF Walked
<1>5. CASE UNCHANGED vars
  BY <1>5 DEF vars, visiting, walking, Walked, Explored, Keys, Before
<1>6. QED
  BY <1>1, <1>2, <1>3, <1>4, <1>5, WalkSteps

\* On the coffee machine the least enabled transition is the golden one.
LEMMA AlongStep ==
    ASSUME TypeOK, Recorded, Walked, Along, [Next]_vars
    PROVE  Along'
<1> SUFFICES ASSUME model' = CoffeeNet, Explored'
             PROVE  /\ Len(lines') <= 6
                    /\ current' = GoldenMarkings[Len(lines') + 1]
                    /\ \A k \in 1..Len(lines') : lines'[k].fired = Golden[k]
  BY DEF Along
<1>1. CASE Finish
  <2>1. /\ current' = model.initial /\ model = CoffeeNet /\ lines' = <<>>
    BY <1>1 DEF Finish, visiting, Walked, Explored
  <2>2. Len(lines') = 0 /\ model.initial = CoffeeInitial
    BY <2>1 DEF CoffeeNet
  <2>3. GoldenMarkings[1] = CoffeeInitial
    BY DEF GoldenMarkings
  <2>4. QED
    BY <2>1, <2>2, <2>3
<1>2. CASE Walk
  <2>1. PICK t \in Trans(model) :
              /\ Enabled(model, current, t)
              /\ \A u \in EnabledIn(model, current) : t <= u
              /\ current' = Fire(model, current, t)
              /\ Len(lines) \in Nat
              /\ Len(lines') = Len(lines) + 1
              /\ \A k \in 1..Len(lines) : lines'[k] = lines[k]
              /\ lines'[Len(lines) + 1].fired = t
    BY <1>2, WalkFacts
  <2>2. model = CoffeeNet /\ Explored
    BY <1>2 DEF Walk, Explored
  <2> DEFINE i == Len(lines) + 1
  <2>3. /\ i \in 1..7 /\ current = GoldenMarkings[i]
        /\ \A k \in 1..Len(lines) : lines[k].fired = Golden[k]
    BY <2>1, <2>2 DEF Along
  <2>4. Trans(CoffeeNet) = 1..6
    BY CoffeeTable DEF BoilWater, BrewCoffee, Credit, GrindBeans, PourCoffee, Send
  <2> HIDE DEF i
  <2>5. i \in 1..6
    BY <2>1, <2>2, <2>3, <2>4, GoldenEnd
  <2>6. /\ Golden[i] \in 1..6
        /\ Enabled(CoffeeNet, current, Golden[i])
        /\ ~(t < Golden[i])
        /\ Fire(CoffeeNet, current, Golden[i]) = GoldenMarkings[i + 1]
    BY <2>1, <2>2, <2>3, <2>4, <2>5, GoldenStep
  <2>7. t <= Golden[i] /\ t \in 1..6
    BY <2>1, <2>2, <2>4, <2>6 DEF EnabledIn
  <2>8. t = Golden[i]
    BY <2>6, <2>7
  <2>9. current' = GoldenMarkings[i + 1] /\ Len(lines') = i /\ i <= 6
    BY <2>1, <2>2, <2>5, <2>6, <2>8 DEF i
  <2>10. \A k \in 1..i : lines'[k].fired = Golden[k]
    <3>1. \A k \in 1..i : k \in 1..Len(lines) \/ k = i
      BY <2>1 DEF i
    <3>2. lines'[i].fired = Golden[i]
      BY <2>1, <2>8 DEF i
    <3>3. QED
      BY <2>1, <2>3, <3>1, <3>2
  <2>11. QED
    BY <2>9, <2>10
<1>3. CASE WalkEnds
  BY <1>3 DEF WalkEnds, visiting, walking, Along, Explored
<1>4. CASE UNCHANGED vars
  BY <1>4 DEF vars, visiting, walking, Along, Explored
<1>5. QED
  BY <1>1, <1>2, <1>3, <1>4, WalkSteps

-----------------------------------------------------------------------------
(* The theorems.                                                            *)

\* The invariant holds initially: one marking is seen, it is queued, and nothing is
\* noted of it.
LEMMA InvInit == Init => Inv
<1> SUFFICES ASSUME Init PROVE Inv
  OBVIOUS
<1>1. TypeOK
  BY TypeInit
<1>2. /\ pc = "explore" /\ seen = {model.initial} /\ frontier = <<model.initial>>
      /\ states = <<>> /\ terminals = {} /\ edges = 0 /\ lines = <<>>
  BY DEF Init
<1>3. /\ Len(states) = 0 /\ DOMAIN states = {} /\ Len(frontier) = 1 /\ Len(lines) = 0
      /\ frontier[1] = model.initial
  BY <1>2
<1>4. Keys = {} /\ Visited = {} /\ Queued = {model.initial}
  BY <1>2, <1>3 DEF Keys, Visited, Queued
<1>5. Recorded /\ Closed /\ Emptied
  BY <1>2, <1>3 DEF Recorded, Closed, Emptied, Explored
<1>6. Once
  BY <1>2, <1>3, <1>4 DEF Once
<1>7. Discovered
  BY <1>2, <1>3 DEF Discovered, First
<1>8. Counted
  <2>1. Noted = {}
    BY <1>4 DEF Noted
  <2>2. QED
    BY <1>2, <1>4, <2>1, FS_EmptySet DEF Counted
<1>9. Walked /\ Along
  BY <1>2, <1>3 DEF Walked, Along, Explored
<1>10. QED
  BY <1>1, <1>5, <1>6, <1>7, <1>8, <1>9 DEF Inv, Exploration

\* Every step of the tool keeps the invariant.
LEMMA InvStep == Inv /\ [Next]_vars => Inv'
<1> SUFFICES ASSUME Inv, [Next]_vars PROVE Inv'
  OBVIOUS
<1> USE DEF Inv, Exploration
<1>1. TypeOK' /\ Recorded'
  BY TypeStep, RecordedStep
<1>2. Once' /\ Closed'
  BY OnceStep, ClosedStep
<1>3. Discovered' /\ Counted' /\ Emptied'
  BY DiscoveredStep, CountedStep, EmptiedStep
<1>4. Walked' /\ Along'
  BY WalkedStep, AlongStep
<1>5. QED
  BY <1>1, <1>2, <1>3, <1>4

\* In every state of the tool the invariant of the exploration and of the walk holds,
\* types included.
THEOREM Invariance == Spec => []Inv
<1>1. QED
  BY InvInit, InvStep, PTL DEF Spec

\* What explore returns is the state space of the net: every marking that firings lead
\* to from the initial one, once, with its firings and the terminals counted.
THEOREM ListsReachableHolds == Spec => []ListsReachable
<1>1. Inv => ListsReachable
  <2> SUFFICES ASSUME Inv, Explored PROVE ListsReachable
    BY DEF ListsReachable
  <2> USE DEF Inv, Exploration
  <2>1. seen = Keys /\ pc # "fire"
    BY SeenIsListed DEF Emptied, Explored
  <2>2. Len(states) \in Nat /\ DOMAIN states = 1..Len(states)
    BY Lists
  <2>3. model.initial \in Keys
    BY <2>1 DEF Closed
  <2>4. ASSUME NEW m \in Keys, NEW t \in EnabledIn(model, m)
        PROVE  Fire(model, m, t) \in Keys
    <3>1. PICK k \in 1..Len(states) : states[k].key = m
      BY <2>2 DEF Keys
    <3>2. /\ states[k].targets \in Seq(Marking) /\ states[k].enabled \in Seq(Trans(model))
          /\ m \in Marking /\ Records(states[k], Len(model.transitions) + 1)
      BY <3>1, Lists DEF Recorded
    <3>3. t \in Trans(model) /\ Enabled(model, m, t) /\ t < Len(model.transitions) + 1
      BY Ranks DEF EnabledIn
    <3>4. PICK i \in 1..Len(states[k].enabled) : states[k].enabled[i] = t
      BY <3>1, <3>2, <3>3 DEF Records
    <3>5. /\ i \in DOMAIN states[k].targets
          /\ states[k].targets[i] = Fire(model, m, t)
      BY <3>1, <3>2, <3>4, LenProperties DEF Records
    <3>6. Leads(states[k], Fire(model, m, t))
      BY <3>5 DEF Leads
    <3>7. Fire(model, m, t) \in Marking
      BY <3>2, <3>3, Ranks, FireType DEF Marking
    <3>8. QED
      BY <2>1, <3>6, <3>7 DEF Closed
  <2>5. \A j, k \in DOMAIN states : states[j].key = states[k].key => j = k
    BY <2>2 DEF Once
  <2>6. \A k \in 2..Len(states) : \E j \in 1..k - 1 : Leads(states[j], states[k].key)
    BY DEF Discovered
  <2>7. terminals = {m \in Keys : Terminal(model, m)}
    BY DEF Counted
  <2>8. edges = Cardinality({e \in Keys \X Trans(model) : Enabled(model, e[1], e[2])})
    <3>1. Visited = {}
      BY <2>1 DEF Visited
    <3>2. Noted = {e \in Keys \X Trans(model) : Enabled(model, e[1], e[2])}
      BY <2>1, <3>1 DEF Noted
    <3>3. QED
      BY <3>2 DEF Counted
  <2>9. QED
    BY <2>3, <2>4, <2>5, <2>6, <2>7, <2>8 DEF ListsReachable
<1>2. QED
  BY <1>1, Invariance, PTL

\* What has been seen is reachable.
SeenReachable == seen \subseteq Reachable(model)

\* ... because a firing of the marking that is visited led to it.
LEMMA SeenReachableAlways == Spec => []SeenReachable
<1>1. Init => SeenReachable
  BY NetsAssumption, ReachableStable DEF Init, SeenReachable, Stable
<1>2. Inv /\ SeenReachable /\ [Next]_vars => SeenReachable'
  <2> SUFFICES ASSUME Inv, SeenReachable, [Next]_vars PROVE SeenReachable'
    OBVIOUS
  <2>1. CASE Follow
    <3>1. state.key \in seen
      BY <2>1 DEF Follow, Trying, Inv, Exploration, Once, Visited
    <3>2. rank \in EnabledIn(model, state.key)
      BY <2>1 DEF Follow, Trying, EnabledIn
    <3>3. Fire(model, state.key, rank) \in Reachable(model)
      BY <3>1, <3>2, Ranks, ReachableStable DEF SeenReachable, Stable, Inv, Exploration
    <3>4. seen' = seen \cup {Fire(model, state.key, rank)} /\ model' = model
      BY <2>1 DEF Follow
    <3>5. QED
      BY <3>3, <3>4 DEF SeenReachable
  <2>2. CASE ~Follow
    <3>1. UNCHANGED <<model, seen>>
      BY <2>2 DEF Next, Visit, PassOver, Record, Finish, Walk, WalkEnds, vars, visiting
    <3>2. QED
      BY <3>1 DEF SeenReachable
  <2>3. QED
    BY <2>1, <2>2
<1>3. QED
  BY <1>1, <1>2, Invariance, PTL DEF Spec

\* The keys of the list, when the exploration is over.
ListsExactly == Explored => Keys = Reachable(model)

\* The list is the least set that holds the initial marking and is closed under
\* firing: nothing that is reachable is missing, and nothing else is listed.
THEOREM ListsReachableExactly == Spec => []ListsExactly
<1>1. Inv /\ SeenReachable /\ ListsReachable => ListsExactly
  <2> SUFFICES ASSUME Inv, SeenReachable, ListsReachable, Explored
               PROVE  Keys = Reachable(model)
    BY DEF ListsExactly
  <2> USE DEF Inv, Exploration
  <2>1. seen = Keys
    BY SeenIsListed DEF Emptied, Explored
  <2>2. Stable(model, Keys)
    BY DEF ListsReachable, Stable
  <2>3. Keys \in SUBSET SUBSET model.places
    BY <2>1 DEF TypeOK, Marking
  <2>4. Reachable(model) \subseteq Keys
    BY <2>2, <2>3, ReachableLeast
  <2>5. QED
    BY <2>1, <2>4 DEF SeenReachable
<1>2. QED
  BY <1>1, Invariance, SeenReachableAlways, ListsReachableHolds, PTL

\* The walk over the list, which tests nothing, is the run of the canonical policy, and
\* on the coffee machine it prints the golden trace.
THEOREM WalkIsPolicyHolds == Spec => []WalkIsPolicy
<1>1. Inv => WalkIsPolicy
  <2> SUFFICES ASSUME Inv PROVE WalkIsPolicy
    OBVIOUS
  <2> USE DEF Inv, Exploration
  <2>1. Len(lines) \in Nat /\ DOMAIN lines = 1..Len(lines)
    BY LenProperties DEF TypeOK
  <2>2. \A k \in 1..Len(lines) :
          /\ Enabled(model, Before(k), lines[k].fired)
          /\ \A t \in EnabledIn(model, Before(k)) : lines[k].fired <= t
          /\ lines[k].marking = Fire(model, Before(k), lines[k].fired)
    BY DEF Walked
  <2>3. ASSUME pc = "done"
        PROVE  Terminal(model, Before(Len(lines) + 1))
    BY <2>3 DEF Walked, Explored
  <2>4. ASSUME pc = "done", model = CoffeeNet
        PROVE  [k \in DOMAIN lines |-> lines[k].fired] = Golden
    <3> DEFINE n == Len(lines)
    <3>1. /\ n <= 6 /\ current = GoldenMarkings[n + 1]
          /\ \A k \in 1..n : lines[k].fired = Golden[k]
      BY <2>4 DEF Along, Explored
    <3>2. Trans(CoffeeNet) = 1..6
      BY CoffeeTable DEF BoilWater, BrewCoffee, Credit, GrindBeans, PourCoffee, Send
    <3>3. \A t \in 1..6 : ~Enabled(CoffeeNet, current, t)
      BY <2>4, <3>2 DEF Walked, Terminal, EnabledIn
    <3> HIDE DEF n
    <3>4. ~(n + 1 \in 1..6)
      BY <3>1, <3>3, GoldenStep
    <3>5. n = 6
      BY <2>1, <3>1, <3>4 DEF n
    <3>6. [k \in DOMAIN lines |-> lines[k].fired] = [k \in 1..6 |-> Golden[k]]
      BY <2>1, <3>1, <3>5 DEF n
    <3>7. [k \in 1..6 |-> Golden[k]] = Golden
      BY DEF Golden
    <3>8. QED
      BY <3>6, <3>7
  <2>5. QED
    BY <2>2, <2>3, <2>4 DEF WalkIsPolicy
<1>2. QED
  BY <1>1, Invariance, PTL

\* The comment on explore: no bound is needed, the space is bounded by 2^|places|.  No
\* net makes it list more states, however its transitions interfere.
ListIsBounded ==
    IsFiniteSet(model.places) => Len(states) <= 2 ^ Cardinality(model.places)

\* What is visited has not been listed, so the loop runs at most 2^|places| turns.
THEOREM NoBoundNeeded == Spec => []ListIsBounded
<1>1. Inv => ListIsBounded
  <2> SUFFICES ASSUME Inv, IsFiniteSet(model.places)
               PROVE  Len(states) <= 2 ^ Cardinality(model.places)
    BY DEF ListIsBounded
  <2> USE DEF Inv, Exploration
  <2> DEFINE n == Len(states)
             f == [k \in 1..n |-> states[k].key]
  <2>1. n \in Nat /\ \A k \in 1..n : states[k].key \in SUBSET model.places
    BY Lists DEF Marking
  <2>2. f \in Injection(1..n, SUBSET model.places)
    <3>1. f \in [1..n -> SUBSET model.places]
      BY <2>1
    <3>2. \A j, k \in 1..n : f[j] = f[k] => j = k
      BY DEF Once
    <3> HIDE DEF f
    <3>3. QED
      BY <3>1, <3>2 DEF Injection, IsInjective
  <2> HIDE DEF f, n
  <2>3. /\ IsFiniteSet(SUBSET model.places)
        /\ Cardinality(SUBSET model.places) = 2 ^ Cardinality(model.places)
    BY FS_SUBSET
  <2>4. Cardinality(1..n) <= Cardinality(SUBSET model.places)
    BY <2>2, <2>3, FS_Injection
  <2>5. Cardinality(1..n) = n
    <3>1. Cardinality(1..n) = IF 1 > n THEN 0 ELSE n - 1 + 1
      BY <2>1, FS_Interval
    <3>2. QED
      BY <2>1, <3>1
  <2>6. QED
    BY <2>3, <2>4, <2>5 DEF n
<1>2. QED
  BY <1>1, Invariance, PTL
=============================================================================
