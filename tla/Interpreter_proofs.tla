------------------------- MODULE Interpreter_proofs -------------------------
(* Walking the arrow lists decides what the four clauses of the enablement  *)
(* rule decide, and the counts stay markings: proved for every machine      *)
(* whose arrows are drawn once, whatever the order of its lists.            *)
EXTENDS Interpreter, PetriNet_proofs, FiniteSetTheorems, SequenceTheorems

Net == NetOf(machine)

Ranks == 1..Len(machine.declared)

Line == [fired : Nat, marking : SUBSET machine.places]

\* The arrows of t in one direction, by their places in the list.
Drawn(t, into) == {k \in DOMAIN machine.arrows : /\ machine.arrows[k].transition = t
                                                 /\ machine.arrows[k].into = into}

-----------------------------------------------------------------------------
(* The lists.                                                               *)

\* What is known of a machine.
LEMMA MachineFacts ==
    ASSUME NEW m \in Machines
    PROVE  /\ m.initial \in SUBSET m.places
           /\ Len(m.declared) \in Nat
           /\ DOMAIN m.declared = 1..Len(m.declared)
           /\ \A k \in 1..Len(m.declared) : m.declared[k] \in 1..Len(m.declared)
           /\ \A t \in 1..Len(m.declared) :
                 \E k \in 1..Len(m.declared) : m.declared[k] = t
           /\ \A k \in DOMAIN m.arrows : m.arrows[k] \in Arrow(m)
           /\ \A k \in DOMAIN m.guards : m.guards[k] \in Arrow(m)
           /\ \A j, k \in DOMAIN m.arrows : m.arrows[j] = m.arrows[k] => j = k
<1>1. IsMachine(m)
  BY MachinesAssumption
<1>2. /\ Len(m.declared) \in Nat /\ DOMAIN m.declared = 1..Len(m.declared)
      /\ \A k \in 1..Len(m.declared) : m.declared[k] \in 1..Len(m.declared)
  BY <1>1, LenProperties, ElementOfSeq DEF IsMachine
<1>3. /\ \A k \in DOMAIN m.arrows : m.arrows[k] \in Arrow(m)
      /\ \A k \in DOMAIN m.guards : m.guards[k] \in Arrow(m)
  BY <1>1, LenProperties, ElementOfSeq DEF IsMachine
<1>4. QED
  BY <1>1, <1>2, <1>3 DEF IsMachine

\* Sorting by name lists the transitions in the order of their ranks, however they
\* are declared.
LEMMA SortedRanks ==
    ASSUME NEW m \in Machines
    PROVE  Sorted(m.declared) = [k \in 1..Len(m.declared) |-> k]
<1> DEFINE n == Len(m.declared)
           all == {m.declared[j] : j \in DOMAIN m.declared}
<1>1. /\ n \in Nat /\ DOMAIN m.declared = 1..n
      /\ \A k \in 1..n : m.declared[k] \in 1..n
      /\ \A t \in 1..n : \E k \in 1..n : m.declared[k] = t
  BY MachineFacts
<1>2. Sorted(m.declared) = [k \in 1..n |-> CHOOSE t \in all : Lesser(all, t) = k - 1]
  BY <1>1 DEF Sorted
<1> HIDE DEF n
<1>3. all = 1..n
  BY <1>1
<1> HIDE DEF all
<1>4. \A t \in 1..n : Lesser(1..n, t) = t - 1
  <2> SUFFICES ASSUME NEW t \in 1..n
               PROVE  Cardinality({u \in 1..n : u < t}) = t - 1
    BY DEF Lesser
  <2>0. n \in Nat
    BY <1>1
  <2>1. {u \in 1..n : u < t} = 1..t - 1
    BY <2>0
  <2>2. Cardinality(1..t - 1) = t - 1
    <3>1. t - 1 \in Int /\ t - 1 >= 0
      BY <2>0
    <3>2. Cardinality(1..t - 1) = IF 1 > t - 1 THEN 0 ELSE (t - 1) - 1 + 1
      BY <3>1, FS_Interval
    <3>3. QED
      BY <3>1, <3>2
  <2>3. QED
    BY <2>1, <2>2
<1>5. \A k \in 1..n : (CHOOSE t \in 1..n : Lesser(1..n, t) = k - 1) = k
  <2> SUFFICES ASSUME NEW k \in 1..n
               PROVE  (CHOOSE t \in 1..n : Lesser(1..n, t) = k - 1) = k
    OBVIOUS
  <2>0. n \in Nat
    BY <1>1
  <2>1. \A t \in 1..n : Lesser(1..n, t) = k - 1 <=> t = k
    <3> SUFFICES ASSUME NEW t \in 1..n PROVE Lesser(1..n, t) = k - 1 <=> t = k
      OBVIOUS
    <3>1. Lesser(1..n, t) = t - 1
      BY <1>4
    <3>2. QED
      BY <2>0, <3>1
  <2>2. QED
    BY <2>1
<1>6. QED
  BY <1>2, <1>3, <1>5 DEF n

\* The net the lists denote.
LEMMA NetFacts ==
    ASSUME machine \in Machines, NEW t \in Ranks
    PROVE  /\ Net.places = machine.places
           /\ Net.transitions[t].inputs = PlacesOf(machine.arrows, t, TRUE)
           /\ Net.transitions[t].outputs = PlacesOf(machine.arrows, t, FALSE)
           /\ Net.transitions[t].guards = PlacesOf(machine.guards, t, FALSE)
           /\ Net.transitions[t].blockers = PlacesOf(machine.guards, t, TRUE)
           /\ PlacesOf(machine.arrows, t, TRUE) \subseteq machine.places
           /\ PlacesOf(machine.arrows, t, FALSE) \subseteq machine.places
<1>1. \A into : PlacesOf(machine.arrows, t, into) \subseteq machine.places
  <2>1. \A k \in DOMAIN machine.arrows : machine.arrows[k].place \in machine.places
    BY MachineFacts DEF Arrow
  <2>2. QED
    BY <2>1 DEF PlacesOf
<1>2. QED
  BY <1>1 DEF Net, NetOf, Ranks

\* A place is named by one arrow of a transition in one direction at most.
LEMMA OccursOnce ==
    ASSUME machine \in Machines, NEW t, NEW into, NEW p
    PROVE  Occurrences(Drawn(t, into), p)
             = IF p \in PlacesOf(machine.arrows, t, into) THEN 1 ELSE 0
<1> DEFINE ks == {k \in Drawn(t, into) : machine.arrows[k].place = p}
<1>1. \A j, k \in ks : j = k
  <2> SUFFICES ASSUME NEW j \in ks, NEW k \in ks PROVE j = k
    OBVIOUS
  <2>1. /\ j \in DOMAIN machine.arrows /\ k \in DOMAIN machine.arrows
        /\ machine.arrows[j] \in Arrow(machine) /\ machine.arrows[k] \in Arrow(machine)
    BY MachineFacts DEF Drawn
  <2>2. machine.arrows[j] = machine.arrows[k]
    BY <2>1 DEF Drawn, Arrow
  <2>3. QED
    BY <2>1, <2>2, MachineFacts
<1>2. p \in PlacesOf(machine.arrows, t, into) <=> ks # {}
  BY DEF PlacesOf, Drawn
<1>3. Occurrences(Drawn(t, into), p) = Cardinality(ks)
  BY DEF Occurrences
<1> HIDE DEF ks
<1>4. CASE ks = {}
  BY <1>2, <1>3, <1>4, FS_EmptySet
<1>5. CASE ks # {}
  <2>1. PICK k \in ks : ks = {k}
    BY <1>1, <1>5
  <2>2. Cardinality(ks) = 1
    BY <2>1, FS_Singleton
  <2>3. QED
    BY <1>2, <1>3, <1>5, <2>2
<1>6. QED
  BY <1>4, <1>5

-----------------------------------------------------------------------------
(* One transition.                                                          *)

Counts == [machine.places -> 0..1]

\* The walk decides what the four clauses decide; one that is not cut short names
\* all the arrows of its transition.
LEMMA WalkDecides ==
    ASSUME machine \in Machines, NEW st \in Counts, NEW t \in Ranks
    PROVE  LET prepared == PrepareTransition(st, t)
           IN  /\ prepared.canExecute <=> Enabled(Net, Marked(st), t)
               /\ prepared.canExecute => /\ prepared.placesToRemove = Drawn(t, TRUE)
                                         /\ prepared.placesToAdd = Drawn(t, FALSE)
<1> DEFINE prepared == PrepareTransition(st, t)
           failing == {k \in DOMAIN machine.arrows : ArrowFails(st, t, machine.arrows[k])}
           tr == Net.transitions[t]
<1>1. /\ prepared.canExecute <=> ~GuardFails(st, t) /\ failing = {}
      /\ prepared.canExecute => /\ prepared.placesToRemove = Drawn(t, TRUE)
                                /\ prepared.placesToAdd = Drawn(t, FALSE)
  BY DEF PrepareTransition, Drawn
<1>2. /\ \A k \in DOMAIN machine.arrows : machine.arrows[k].place \in machine.places
      /\ \A k \in DOMAIN machine.guards : machine.guards[k].place \in machine.places
      /\ \A k \in DOMAIN machine.arrows : machine.arrows[k].into \in BOOLEAN
      /\ \A k \in DOMAIN machine.guards : machine.guards[k].into \in BOOLEAN
  BY MachineFacts DEF Arrow
<1>3. \A p \in machine.places : /\ st[p] = 0 <=> p \notin Marked(st)
                                /\ st[p] > 0 <=> p \in Marked(st)
  BY DEF Marked, Counts
<1>4. failing = {} <=> /\ PlacesOf(machine.arrows, t, TRUE) \subseteq Marked(st)
                       /\ PlacesOf(machine.arrows, t, FALSE) \cap Marked(st) = {}
  BY <1>2, <1>3 DEF ArrowFails, PlacesOf
<1>5. ~GuardFails(st, t) <=> /\ PlacesOf(machine.guards, t, FALSE) \subseteq Marked(st)
                             /\ PlacesOf(machine.guards, t, TRUE) \cap Marked(st) = {}
  BY <1>2, <1>3 DEF GuardFails, PlacesOf
<1>6. QED
  BY <1>1, <1>4, <1>5, NetFacts DEF Enabled

\* Decrements and increments do to the counts what Fire does to the marking.
LEMMA CountsFire ==
    ASSUME machine \in Machines, NEW st \in Counts, NEW t \in Ranks,
           PrepareTransition(st, t).canExecute
    PROVE  /\ Apply(st, PrepareTransition(st, t)) \in Counts
           /\ Marked(Apply(st, PrepareTransition(st, t))) = Fire(Net, Marked(st), t)
<1> DEFINE to == Apply(st, PrepareTransition(st, t))
           ins == PlacesOf(machine.arrows, t, TRUE)
           outs == PlacesOf(machine.arrows, t, FALSE)
<1>1. to = [p \in machine.places |->
              st[p] - Occurrences(Drawn(t, TRUE), p) + Occurrences(Drawn(t, FALSE), p)]
  BY WalkDecides DEF Apply, Counts
<1>2. \A p \in machine.places :
        to[p] = st[p] - (IF p \in ins THEN 1 ELSE 0) + (IF p \in outs THEN 1 ELSE 0)
  <2> SUFFICES ASSUME NEW p \in machine.places
               PROVE  to[p] = st[p] - (IF p \in ins THEN 1 ELSE 0)
                                    + (IF p \in outs THEN 1 ELSE 0)
    OBVIOUS
  <2>1. to[p] = st[p] - Occurrences(Drawn(t, TRUE), p) + Occurrences(Drawn(t, FALSE), p)
    BY <1>1
  <2>2. /\ Occurrences(Drawn(t, TRUE), p) = IF p \in ins THEN 1 ELSE 0
        /\ Occurrences(Drawn(t, FALSE), p) = IF p \in outs THEN 1 ELSE 0
    BY OccursOnce
  <2>3. QED
    BY <2>1, <2>2
<1>3. \A p \in machine.places : /\ st[p] \in 0..1
                                /\ p \in ins => st[p] = 1
                                /\ p \in outs => st[p] = 0
  <2>1. ins \subseteq Marked(st) /\ outs \cap Marked(st) = {}
    <3>1. Enabled(Net, Marked(st), t)
      BY WalkDecides
    <3>2. Net.transitions[t].inputs = ins /\ Net.transitions[t].outputs = outs
      BY NetFacts
    <3>3. QED
      BY <3>1, <3>2 DEF Enabled
  <2>2. \A p \in machine.places : /\ st[p] \in 0..1
                                  /\ p \in Marked(st) <=> st[p] > 0
    BY DEF Marked, Counts
  <2> HIDE DEF ins, outs
  <2>3. QED
    BY <2>1, <2>2
<1>4. \A p \in machine.places :
        to[p] = IF p \in outs THEN 1 ELSE IF p \in ins THEN 0 ELSE st[p]
  <2> HIDE DEF to, ins, outs
  <2>1. QED
    BY <1>2, <1>3
<1>5. DOMAIN to = machine.places /\ DOMAIN st = machine.places
  BY <1>1 DEF Counts
<1> HIDE DEF to, ins, outs
<1>6. to \in Counts
  <2>1. \A p \in machine.places : to[p] \in 0..1
    BY <1>3, <1>4
  <2>2. to = [p \in machine.places |-> to[p]]
    BY <1>1
  <2>3. QED
    BY <2>1, <2>2 DEF Counts
<1>7. Marked(to) = (Marked(st) \ ins) \cup outs
  <2>1. ins \subseteq machine.places /\ outs \subseteq machine.places
    BY NetFacts DEF ins, outs
  <2>2. QED
    BY <1>3, <1>4, <1>5, <2>1 DEF Marked
<1>8. Fire(Net, Marked(st), t) = (Marked(st) \ ins) \cup outs
  BY NetFacts DEF Fire, ins, outs
<1>9. QED
  BY <1>6, <1>7, <1>8 DEF to
-----------------------------------------------------------------------------
(* The inductive invariant.                                                 *)

Typing == /\ machine \in Machines
          /\ candidates = [k \in Ranks |-> k]
          /\ state \in Counts
          /\ next \in Ranks \cup {Len(machine.declared) + 1}
          /\ trace \in Seq(Line)
          /\ Len(trace) <= MaxSteps
          /\ halted \in BOOLEAN
          /\ halted => next = Len(machine.declared) + 1

\* The candidates the scan has passed over are disabled.
ScanIsFresh == \A t \in Ranks : t < next => ~Enabled(Net, Marked(state), t)

\* The lines of the coffee machine are a prefix of the golden ones.
GoldenSoFar ==
    machine.name = "coffee" =>
        /\ Len(trace) <= 6
        /\ Marked(state) = GoldenMarkings[Len(trace) + 1]
        /\ \A k \in 1..Len(trace) : trace[k].fired = Golden[k]

IInv == Typing /\ ScanIsFresh /\ GoldenSoFar

\* The coffee machine has the coffee net's six transitions.
LEMMA CoffeeMachine ==
    ASSUME machine \in Machines, machine.name = "coffee"
    PROVE  Net = CoffeeNet /\ Len(machine.declared) = 6
<1>1. Net = CoffeeNet
  BY CoffeeAssumption DEF Net
<1>2. Trans(Net) = 1..Len(machine.declared)
  BY DEF Net, NetOf, Trans
<1>3. Trans(Net) = 1..6
  BY <1>1, CoffeeTable DEF BoilWater, BrewCoffee, Credit, GrindBeans, PourCoffee, Send
<1>4. Len(machine.declared) \in Nat
  BY MachineFacts
<1> DEFINE n == Len(machine.declared)
<1> HIDE DEF n
<1>5. n = 6
  <2>1. n \in Nat /\ 1..n = 1..6
    BY <1>2, <1>3, <1>4 DEF n
  <2>2. 6 \in 1..n
    BY <2>1
  <2>3. n > 6 => 7 \in 1..n
    BY <2>1
  <2>4. QED
    BY <2>1, <2>2, <2>3
<1>6. QED
  BY <1>1, <1>5 DEF n

\* The candidates run through the ranks.
LEMMA CandidateFacts ==
    ASSUME Typing
    PROVE  /\ Len(machine.declared) \in Nat
           /\ Len(candidates) = Len(machine.declared)
           /\ \A k \in Ranks : candidates[k] = k
<1>1. Len(machine.declared) \in Nat
  BY MachineFacts DEF Typing
<1>2. candidates \in [1..Len(machine.declared) -> Nat]
  BY <1>1 DEF Typing, Ranks
<1>3. Len(candidates) = Len(machine.declared)
  <2>1. candidates \in Seq(Nat)
    BY <1>1, <1>2, SeqDef
  <2>2. DOMAIN candidates = 1..Len(machine.declared)
    BY <1>2
  <2>3. QED
    BY <1>1, <2>1, <2>2, LenProperties
<1>4. QED
  BY <1>1, <1>3 DEF Typing

\* The program begins with the initial counts and a sorted schedule.
LEMMA Initially == Init => IInv
<1> SUFFICES ASSUME Init PROVE IInv
  OBVIOUS
<1>1. /\ machine \in Machines /\ Len(machine.declared) \in Nat
      /\ machine.initial \in SUBSET machine.places
  BY MachineFacts DEF Init
<1>2. candidates = [k \in Ranks |-> k]
  BY <1>1, SortedRanks DEF Init, Ranks
<1>3. state \in Counts /\ Marked(state) = machine.initial
  BY <1>1 DEF Init, Counts, Marked
<1>4. next = 1 /\ next \in Ranks \cup {Len(machine.declared) + 1}
  BY <1>1 DEF Init, Ranks
<1>5. trace \in Seq(Line) /\ Len(trace) = 0 /\ 0 <= MaxSteps /\ halted = FALSE
  BY MaxStepsAssumption DEF Init
<1>6. Typing
  BY <1>1, <1>2, <1>3, <1>4, <1>5 DEF Typing
<1>7. ScanIsFresh
  BY <1>1, <1>4 DEF ScanIsFresh, Ranks
<1>8. GoldenSoFar
  <2> SUFFICES ASSUME machine.name = "coffee"
               PROVE  Marked(state) = GoldenMarkings[1]
    BY <1>5 DEF GoldenSoFar
  <2>1. machine.initial = CoffeeInitial
    BY <1>1, CoffeeMachine DEF Net, NetOf, CoffeeNet
  <2>2. QED
    BY <1>3, <2>1 DEF GoldenMarkings
<1>9. QED
  BY <1>6, <1>7, <1>8 DEF IInv

\* A candidate that is executed was enabled, the first that was; its effect is Fire.
LEMMA ExecuteStep ==
    ASSUME IInv, Execute
    PROVE  /\ next \in Ranks
           /\ Enabled(Net, Marked(state), next)
           /\ state' \in Counts
           /\ Marked(state') = Fire(Net, Marked(state), next)
           /\ Marked(state') \in SUBSET machine.places
           /\ trace' = Append(trace, [fired |-> next, marking |-> Marked(state')])
           /\ Len(trace) < MaxSteps
           /\ next' = 1 /\ machine' = machine /\ candidates' = candidates
           /\ halted' = halted /\ ~halted
<1>1. next \in Ranks /\ candidates[next] = next
  BY CandidateFacts DEF IInv, Typing, Execute
<1>2. /\ PrepareTransition(state, next).canExecute
      /\ state' = Apply(state, PrepareTransition(state, next))
      /\ trace' = Append(trace, [fired |-> next, marking |-> Marked(state')])
      /\ Len(trace) < MaxSteps
      /\ next' = 1 /\ machine' = machine /\ candidates' = candidates
      /\ halted' = halted /\ ~halted
  BY <1>1 DEF Execute
<1>3. machine \in Machines /\ state \in Counts
  BY DEF IInv, Typing
<1>4. Enabled(Net, Marked(state), next)
  BY <1>1, <1>2, <1>3, WalkDecides
<1>5. state' \in Counts /\ Marked(state') = Fire(Net, Marked(state), next)
  BY <1>1, <1>2, <1>3, CountsFire
<1>6. Marked(state') \in SUBSET machine.places
  BY <1>5 DEF Marked, Counts
<1>7. QED
  BY <1>1, <1>2, <1>4, <1>5, <1>6

\* A step that executes a candidate preserves the invariant.
LEMMA ExecuteInv ==
    ASSUME IInv, Execute
    PROVE  IInv'
<1>1. /\ machine \in Machines /\ machine' = machine
      /\ Net' = Net /\ Ranks' = Ranks /\ Line' = Line /\ Counts' = Counts
      /\ Len(machine.declared) \in Nat /\ trace \in Seq(Line) /\ Len(trace) \in Nat
      /\ Ranks = 1..Len(machine.declared)
  <2>1. machine \in Machines /\ trace \in Seq(Line)
    BY DEF IInv, Typing
  <2>2. machine' = machine
    BY ExecuteStep
  <2>3. Net' = Net /\ Ranks' = Ranks /\ Line' = Line /\ Counts' = Counts
    BY <2>2 DEF Net, Ranks, Line, Counts
  <2>4. Len(trace) \in Nat
    BY <2>1, LenProperties
  <2>5. Len(machine.declared) \in Nat
    BY <2>1, MachineFacts
  <2>6. QED
    BY <2>1, <2>2, <2>3, <2>4, <2>5 DEF Ranks
<1>2. [fired |-> next, marking |-> Marked(state')] \in Line
  BY <1>1, ExecuteStep DEF Line
<1>3. /\ trace' \in Seq(Line) /\ Len(trace') = Len(trace) + 1
      /\ \A k \in 1..Len(trace) : trace'[k] = trace[k]
      /\ trace'[Len(trace) + 1].fired = next
  BY <1>1, <1>2, ExecuteStep
<1>4. Typing'
  <2>1. Len(trace') <= MaxSteps
    BY <1>1, <1>3, ExecuteStep, MaxStepsAssumption
  <2>2. 1 \in Ranks
    BY <1>1, ExecuteStep
  <2>3. QED
    BY <1>1, <1>3, <2>1, <2>2, ExecuteStep DEF IInv, Typing
<1>5. ScanIsFresh'
  BY <1>1, ExecuteStep DEF ScanIsFresh
<1>6. ASSUME machine.name = "coffee"
      PROVE  /\ Len(trace') <= 6
             /\ Marked(state') = GoldenMarkings[Len(trace') + 1]
             /\ \A k \in 1..Len(trace') : trace'[k].fired = Golden[k]
  <2>1. Net = CoffeeNet /\ Ranks = 1..6
    BY <1>1, <1>6, CoffeeMachine DEF Ranks
  <2>2. /\ Len(trace) <= 6
        /\ Marked(state) = GoldenMarkings[Len(trace) + 1]
        /\ \A k \in 1..Len(trace) : trace[k].fired = Golden[k]
    BY <1>6 DEF IInv, GoldenSoFar
  <2>3. Len(trace) # 6
    <3> SUFFICES ASSUME Len(trace) = 6 PROVE FALSE
      OBVIOUS
    <3>1. Marked(state) = GoldenMarkings[7]
      BY <2>2
    <3>2. next \in 1..6 /\ Enabled(CoffeeNet, GoldenMarkings[7], next)
      BY <2>1, <3>1, ExecuteStep
    <3>3. QED
      BY <3>2, GoldenEnd
  <2> DEFINE n == Len(trace)
           i == n + 1
  <2>4. i \in 1..6
    <3>1. n \in Nat /\ n <= 6 /\ n # 6
      BY <1>1, <2>2, <2>3
    <3> HIDE DEF n
    <3>2. QED
      BY <3>1
  <2> USE DEF n
  <2> HIDE DEF i
  <2>5. /\ Golden[i] \in 1..6
        /\ Enabled(CoffeeNet, GoldenMarkings[i], Golden[i])
        /\ \A t \in 1..6 : t < Golden[i] => ~Enabled(CoffeeNet, GoldenMarkings[i], t)
        /\ Fire(CoffeeNet, GoldenMarkings[i], Golden[i]) = GoldenMarkings[i + 1]
    BY <2>4, GoldenStep
  <2>6. next = Golden[i]
    <3>1. Enabled(CoffeeNet, GoldenMarkings[i], next) /\ next \in 1..6
      BY <2>1, <2>2, ExecuteStep DEF i
    <3>2. \A t \in 1..6 : t < next => ~Enabled(CoffeeNet, GoldenMarkings[i], t)
      BY <2>1, <2>2 DEF IInv, ScanIsFresh, i
    <3>3. QED
      BY <2>5, <3>1, <3>2
  <2>7. Marked(state') = GoldenMarkings[i + 1]
    BY <2>1, <2>2, <2>5, <2>6, ExecuteStep DEF i
  <2>8. Len(trace') = i
    BY <1>3 DEF i
  <2>9. \A k \in 1..Len(trace') : trace'[k].fired = Golden[k]
    BY <1>1, <1>3, <2>2, <2>6 DEF i
  <2>10. QED
    BY <2>4, <2>7, <2>8, <2>9
<1>7. GoldenSoFar'
  BY <1>1, <1>6 DEF GoldenSoFar
<1>8. QED
  BY <1>4, <1>5, <1>7 DEF IInv

\* A candidate that is skipped is disabled.
LEMMA SkipStep ==
    ASSUME IInv, Skip
    PROVE  /\ next \in Ranks
           /\ ~Enabled(Net, Marked(state), next)
           /\ next' = next + 1 /\ ~halted
           /\ machine' = machine /\ state' = state /\ candidates' = candidates
           /\ trace' = trace /\ halted' = halted
<1>1. next \in Ranks /\ candidates[next] = next
  BY CandidateFacts DEF IInv, Typing, Skip
<1>2. ~Enabled(Net, Marked(state), next)
  BY <1>1, WalkDecides DEF IInv, Typing, Skip
<1>3. QED
  BY <1>1, <1>2 DEF Skip

\* A step that skips a candidate preserves the invariant.
LEMMA SkipInv ==
    ASSUME IInv, Skip
    PROVE  IInv'
<1>1. /\ machine' = machine /\ state' = state /\ trace' = trace
      /\ Net' = Net /\ Ranks' = Ranks /\ Line' = Line /\ Counts' = Counts
      /\ Len(machine.declared) \in Nat /\ Ranks = 1..Len(machine.declared)
  BY SkipStep, MachineFacts DEF IInv, Typing, Net, Ranks, Line, Counts
<1>2. Typing'
  <2>1. next + 1 \in Ranks \cup {Len(machine.declared) + 1}
    BY <1>1, SkipStep
  <2>2. QED
    BY <1>1, <2>1, SkipStep DEF IInv, Typing
<1>3. ScanIsFresh'
  <2>1. \A t \in Ranks : t < next + 1 => t < next \/ t = next
    BY <1>1, SkipStep
  <2>2. QED
    BY <1>1, <2>1, SkipStep DEF IInv, ScanIsFresh
<1>4. GoldenSoFar'
  BY <1>1 DEF IInv, GoldenSoFar
<1>5. QED
  BY <1>2, <1>3, <1>4 DEF IInv

\* The return preserves the invariant.
LEMMA ReturnInv ==
    ASSUME IInv, Return
    PROVE  IInv'
<1>1. /\ machine' = machine /\ state' = state /\ trace' = trace /\ next' = next
      /\ candidates' = candidates /\ halted' = TRUE /\ next > Len(candidates)
      /\ Net' = Net /\ Ranks' = Ranks /\ Line' = Line /\ Counts' = Counts
  BY DEF Return, Net, Ranks, Line, Counts
<1>2. next = Len(machine.declared) + 1
  BY <1>1, CandidateFacts DEF IInv, Typing, Ranks
<1>3. Typing'
  BY <1>1, <1>2 DEF IInv, Typing
<1>4. QED
  BY <1>1, <1>3 DEF IInv, ScanIsFresh, GoldenSoFar

\* The invariant is inductive.
LEMMA Inductive == IInv /\ [Next]_vars => IInv'
<1> SUFFICES ASSUME IInv, [Next]_vars PROVE IInv'
  OBVIOUS
<1>1. CASE UNCHANGED vars
  <2>1. /\ machine' = machine /\ state' = state /\ trace' = trace /\ next' = next
        /\ candidates' = candidates /\ halted' = halted
        /\ Net' = Net /\ Ranks' = Ranks /\ Line' = Line /\ Counts' = Counts
    BY <1>1 DEF vars, Net, Ranks, Line, Counts
  <2>2. QED
    BY <2>1 DEF IInv, Typing, ScanIsFresh, GoldenSoFar
<1>2. CASE Next
  BY <1>2, ExecuteInv, SkipInv, ReturnInv DEF Next
<1>3. QED
  BY <1>1, <1>2

\* The invariant holds throughout.
THEOREM Invariance == Spec => []IInv
BY Initially, Inductive, PTL DEF Spec

-----------------------------------------------------------------------------
\* A count is never anything but 0 or 1, although the code would decrement below
\* and increment above: the walk has looked at every place first.
THEOREM TypeCorrect == Spec => []TypeOK
<1>1. IInv => TypeOK
  BY CandidateFacts DEF IInv, Typing, TypeOK, Ranks, Counts
<1>2. QED
  BY <1>1, Invariance, PTL

\* In every count the program reaches, the walk and the rule agree on every
\* transition, and executing is firing.
THEOREM WalkAgreesHolds == Spec => []WalkAgrees
<1>1. IInv => WalkAgrees
  BY WalkDecides, CountsFire DEF IInv, Typing, WalkAgrees, Net, Ranks
<1>2. QED
  BY <1>1, Invariance, PTL

\* The coffee machine prints parity/trace.golden in whatever order its arrows,
\* guards and transitions are listed.
THEOREM PrintsGoldenHolds == Spec => []PrintsGolden
<1>1. IInv => PrintsGolden
  <2> SUFFICES ASSUME IInv, halted, machine.name = "coffee"
               PROVE  /\ [k \in DOMAIN trace |-> trace[k].fired] = Golden
                      /\ Marked(state) = Served
    BY DEF PrintsGolden
  <2>0. machine \in Machines /\ next = Len(machine.declared) + 1
    BY DEF IInv, Typing
  <2>1. Net = CoffeeNet /\ Ranks = 1..6 /\ next = 7
    <3>1. Net = CoffeeNet /\ Len(machine.declared) = 6
      BY <2>0, CoffeeMachine
    <3>2. QED
      BY <2>0, <3>1 DEF Ranks
  <2>2. /\ Len(trace) \in Nat /\ DOMAIN trace = 1..Len(trace)
        /\ Len(trace) <= 6
        /\ Marked(state) = GoldenMarkings[Len(trace) + 1]
        /\ \A k \in 1..Len(trace) : trace[k].fired = Golden[k]
    BY LenProperties DEF IInv, Typing, GoldenSoFar
  <2>3. \A t \in 1..6 : ~Enabled(CoffeeNet, Marked(state), t)
    BY <2>1 DEF IInv, ScanIsFresh
  <2>4. Len(trace) = 6
    <3> DEFINE i == Len(trace) + 1
    <3>1. SUFFICES ASSUME i \in 1..6 PROVE FALSE
      BY <2>2
    <3>2. Golden[i] \in 1..6 /\ Enabled(CoffeeNet, GoldenMarkings[i], Golden[i])
      BY <3>1, GoldenStep
    <3>3. QED
      BY <2>2, <2>3, <3>2
  <2>5. Marked(state) = Served
    BY <2>2, <2>4 DEF GoldenMarkings, Served
  <2>6. [k \in DOMAIN trace |-> trace[k].fired] = Golden
    <3>1. Golden = [k \in 1..6 |-> Golden[k]]
      BY DEF Golden
    <3>2. QED
      BY <2>2, <2>4, <3>1
  <2>7. QED
    BY <2>5, <2>6
<1>2. QED
  BY <1>1, Invariance, PTL

-----------------------------------------------------------------------------
\* The loop's initial state and steps; LoopSpec adds its fairness.
LoopSafety == Loop!Init /\ [][Loop!Next]_(Loop!vars)

\* The interpreter implements the scheduler loop over the net its lists denote.
THEOREM ImplementsLoop == Spec => LoopSafety
<1>1. Init => Loop!Init
  <2> SUFFICES ASSUME Init PROVE Loop!Init
    OBVIOUS
  <2>0. machine \in Machines /\ machine.initial \subseteq machine.places
    BY MachineFacts DEF Init
  <2>1. Marked(state) = machine.initial
    BY <2>0 DEF Init, Marked
  <2>2. [net |-> NetOf(machine), candidates |-> candidates] \in ScheduledPrograms
    BY DEF Init, ScheduledPrograms
  <2>3. NetOf(machine).initial = machine.initial
    BY DEF NetOf
  <2>4. QED
    BY <2>1, <2>2, <2>3 DEF Init, Loop!Init
<1>2. IInv /\ [Next]_vars => [Loop!Next]_(Loop!vars)
  <2> SUFFICES ASSUME IInv, [Next]_vars
               PROVE  [Loop!Next]_(Loop!vars)
    OBVIOUS
  <2>1. /\ Loop!net = Net /\ Loop!candidates = candidates
        /\ Len(Loop!candidates) = Len(machine.declared)
        /\ next \in Ranks => Loop!Candidate = next
    BY CandidateFacts DEF IInv, Loop!net, Loop!candidates, Loop!Candidate, Net
  <2>2. \A t : Loop!Enabled(Net, Marked(state), t) <=> Enabled(Net, Marked(state), t)
    BY DEF Loop!Enabled, Enabled
  <2>3. \A t : Loop!Fire(Net, Marked(state), t) = Fire(Net, Marked(state), t)
    BY DEF Loop!Fire, Fire
  <2>4. next \in Ranks => next <= Len(machine.declared)
    BY CandidateFacts DEF IInv, Ranks
  <2>5. CASE Execute
    <3>1. Loop!Accept
      BY <2>1, <2>2, <2>3, <2>4, <2>5, ExecuteStep DEF Loop!Accept
    <3>2. QED
      BY <3>1 DEF Loop!Next
  <2>6. CASE Skip
    <3>1. Loop!Refuse
      BY <2>1, <2>2, <2>4, <2>6, SkipStep DEF Loop!Refuse
    <3>2. QED
      BY <3>1 DEF Loop!Next
  <2>7. CASE Return
    <3>1. Loop!Halt
      BY <2>1, <2>7, CandidateFacts DEF IInv, Return, Loop!Halt
    <3>2. QED
      BY <3>1 DEF Loop!Next
  <2>8. CASE UNCHANGED vars
    BY <2>8 DEF vars, Loop!vars
  <2>9. QED
    BY <2>5, <2>6, <2>7, <2>8 DEF Next
<1>3. QED
  BY <1>1, <1>2, Invariance, PTL DEF Spec, LoopSafety
=============================================================================
