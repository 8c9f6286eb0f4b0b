---------------------------- MODULE Interpreter -----------------------------
(* The interpreter form, golang/interpreter/main.go: the net is a list of    *)
(* arrows and a list of guards, a place holds a count, and a transition is  *)
(* prepared by walking the lists.  The walk stops at the first arrow that   *)
(* fails, with the places collected so far in its hands.                    *)
(*                                                                          *)
(* An arrow or a guard is a record [place, transition, into]: into is TRUE  *)
(* for place -> transition and FALSE for transition -> place.               *)
EXTENDS PetriNet

CONSTANTS Machines,     \* CoffeeMachine values, and the list schedule() sorts
          MaxSteps      \* bound on the lines a program may print

\* The arrows and guards of a machine.
Arrow(m) == [place : m.places, transition : 1..Len(m.declared), into : BOOLEAN]

\* No arrow is drawn twice, and every transition is declared once.
IsMachine(m) ==
    /\ m.initial \subseteq m.places
    /\ m.arrows \in Seq(Arrow(m))
    /\ m.guards \in Seq(Arrow(m))
    /\ \A j, k \in DOMAIN m.arrows : m.arrows[j] = m.arrows[k] => j = k
    /\ m.declared \in Seq(1..Len(m.declared))
    /\ \A t \in 1..Len(m.declared) :
          \E k \in DOMAIN m.declared : m.declared[k] = t

ASSUME MachinesAssumption == \A m \in Machines : IsMachine(m)
ASSUME MaxStepsAssumption == MaxSteps \in Nat

VARIABLES machine,      \* the machine that runs; its lists never change
          state,        \* StateVector: tokens in each place
          candidates,   \* what schedule() returned to ExecuteProcess
          next,         \* the candidate it tries next
          trace,        \* the lines printed
          halted        \* ExecuteProcess returned

vars == <<machine, state, candidates, next, trace, halted>>

\* Mutant: only read arcs are looked at, inhibitor arcs are not.
GuardFails_ReadsOnly(st, t) ==
    \E k \in DOMAIN machine.guards :
        LET g == machine.guards[k]
        IN  g.transition = t /\ ~g.into /\ st[g.place] = 0

\* GuardFails: a guard transition -> place wants the place marked, a guard
\* place -> transition wants it clear.
GuardFails(st, t) ==
    \E k \in DOMAIN machine.guards :
        LET g == machine.guards[k]
        IN  /\ g.transition = t
            /\ IF g.into THEN st[g.place] > 0 ELSE st[g.place] = 0

\* Mutant: only inputs are looked at.
ArrowFails_InputsOnly(st, t, a) ==
    a.transition = t /\ a.into /\ st[a.place] = 0

\* The arrow that makes PrepareTransition return false.
ArrowFails(st, t, a) ==
    /\ a.transition = t
    /\ IF a.into THEN st[a.place] = 0 ELSE st[a.place] > 0

\* PrepareTransition: whether t may fire, and which arrows of t it walked over
\* before the first that fails; none, if a guard does.
PrepareTransition(st, t) ==
    LET failing == {k \in DOMAIN machine.arrows : ArrowFails(st, t, machine.arrows[k])}
        walked == {k \in DOMAIN machine.arrows :
                      ~GuardFails(st, t) /\ \A j \in failing : k < j}
        places(into) == {k \in walked : /\ machine.arrows[k].transition = t
                                        /\ machine.arrows[k].into = into}
    IN  [canExecute |-> ~GuardFails(st, t) /\ failing = {},
         placesToRemove |-> places(TRUE),
         placesToAdd |-> places(FALSE)]

\* How often the arrows ks name the place p.
Occurrences(ks, p) == Cardinality({k \in ks : machine.arrows[k].place = p})

\* ExecuteTransition, once prepared: a decrement for every place to remove and
\* an increment for every place to add.
Apply(st, prepared) ==
    [p \in DOMAIN st |-> st[p] - Occurrences(prepared.placesToRemove, p)
                               + Occurrences(prepared.placesToAdd, p)]

\* FilteredState.
Marked(st) == {p \in DOMAIN st : st[p] > 0}

\* Mutant: the candidates as they are declared.
Sorted_AsDeclared(list) == list

\* How many of the transitions have lesser names than t.
Lesser(all, t) == Cardinality({u \in all : u < t})

\* schedule(), every transition sorted by name: in place k stands the one that
\* k - 1 others are less than.
Sorted(list) ==
    LET all == {list[j] : j \in DOMAIN list}
    IN  [k \in DOMAIN list |-> CHOOSE t \in all : Lesser(all, t) = k - 1]

Init == /\ machine \in Machines
        /\ state = [p \in machine.places |-> IF p \in machine.initial THEN 1 ELSE 0]
        /\ candidates = Sorted(machine.declared)
        /\ next = 1
        /\ trace = <<>>
        /\ halted = FALSE

\* Mutant: the break is missing.
Execute_ScanGoesOn ==
    /\ ~halted
    /\ next <= Len(candidates)
    /\ Len(trace) < MaxSteps
    /\ LET t == candidates[next]
           prepared == PrepareTransition(state, t)
       IN  /\ prepared.canExecute
           /\ state' = Apply(state, prepared)
           /\ trace' = Append(trace, [fired |-> t, marking |-> Marked(state')])
    /\ next' = next + 1
    /\ UNCHANGED <<machine, candidates, halted>>

\* ExecuteTransition returned true: print and break.
Execute ==
    /\ ~halted
    /\ next <= Len(candidates)
    /\ Len(trace) < MaxSteps
    /\ LET t == candidates[next]
           prepared == PrepareTransition(state, t)
       IN  /\ prepared.canExecute
           /\ state' = Apply(state, prepared)
           /\ trace' = Append(trace, [fired |-> t, marking |-> Marked(state')])
    /\ next' = 1
    /\ UNCHANGED <<machine, candidates, halted>>

\* ExecuteTransition returned false: the next candidate.
Skip ==
    /\ ~halted
    /\ next <= Len(candidates)
    /\ ~PrepareTransition(state, candidates[next]).canExecute
    /\ next' = next + 1
    /\ UNCHANGED <<machine, state, candidates, trace, halted>>

\* anyExecuted is false after a pass.
Return ==
    /\ ~halted
    /\ next > Len(candidates)
    /\ halted' = TRUE
    /\ UNCHANGED <<machine, state, candidates, next, trace>>

Next == Execute \/ Skip \/ Return

Spec == Init /\ [][Next]_vars /\ WF_vars(Next)
-----------------------------------------------------------------------------
(* The net that the lists denote.                                           *)

PlacesOf(list, t, into) ==
    {list[k].place : k \in {j \in DOMAIN list : /\ list[j].transition = t
                                                /\ list[j].into = into}}

NetOf(m) ==
    [places |-> m.places,
     initial |-> m.initial,
     transitions |->
        [t \in 1..Len(m.declared) |->
            [inputs |-> PlacesOf(m.arrows, t, TRUE),
             outputs |-> PlacesOf(m.arrows, t, FALSE),
             guards |-> PlacesOf(m.guards, t, FALSE),
             blockers |-> PlacesOf(m.guards, t, TRUE)]]]

\* NewCoffeeMachine draws the coffee machine.
ASSUME CoffeeAssumption ==
    \A m \in Machines : m.name = "coffee" => NetOf(m) = CoffeeNet

-----------------------------------------------------------------------------
\* A count never leaves 0..1: no decrement below zero, no increment above one,
\* although nothing in StateVector forbids either.
TypeOK == /\ state \in [machine.places -> 0..1]
          /\ next \in 1..Len(candidates) + 1
          /\ Len(trace) <= MaxSteps
          /\ halted \in BOOLEAN

\* Whatever the order in which the transitions are declared, the coffee machine
\* prints parity/trace.golden: schedule() sorts them.
PrintsGolden ==
    halted /\ machine.name = "coffee" =>
        /\ [k \in DOMAIN trace |-> trace[k].fired] = Golden
        /\ Marked(state) = Served

\* Walking the arrows decides what the four clauses decide, in whatever order
\* the arrows are listed, and counting tokens does what the sets do.
WalkAgrees ==
    \A t \in 1..Len(machine.declared) :
        LET prepared == PrepareTransition(state, t)
        IN  /\ prepared.canExecute <=> Enabled(NetOf(machine), Marked(state), t)
            /\ prepared.canExecute =>
                 Marked(Apply(state, prepared)) = Fire(NetOf(machine), Marked(state), t)

\* The interpreter implements the scheduler loop over the net its lists denote,
\* with its sorted candidates.
ScheduledPrograms ==
    {[net |-> NetOf(m), candidates |-> Sorted(m.declared)] :
        m \in Machines}

Loop == INSTANCE Scheduler WITH
            Programs <- ScheduledPrograms,
            program <- [net |-> NetOf(machine), candidates |-> candidates],
            marking <- Marked(state)

LoopSpec == Loop!Spec
=============================================================================
