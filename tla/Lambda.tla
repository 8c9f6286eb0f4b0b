------------------------------- MODULE Lambda -------------------------------
(* The lambda form, golang/lambda/main.go: every transition is a pure        *)
(* function from a marking to a marking or a refusal, and the program makes *)
(* one pass over a schedule its author wrote down.  An entry that is        *)
(* refused is passed over and never tried again.                            *)
EXTENDS PetriNet

CONSTANT Schedules      \* the schedules an author may write: permutations

\* A schedule lists each transition once.
IsSchedule(s) == /\ s \in [1..Len(CoffeeTransitions) -> Trans(CoffeeNet)]
                 /\ \A j, k \in DOMAIN s : s[j] = s[k] => j = k

ASSUME SchedulesAssumption == \A s \in Schedules : IsSchedule(s)

VARIABLES schedule,     \* the list; never changes
          marking,      \* the value threaded through the pass
          next,         \* the entry that is applied next
          trace         \* the lines printed

lambdaVars == <<schedule, marking, next, trace>>

LambdaInit == /\ schedule \in Schedules
              /\ marking = CoffeeInitial
              /\ next = 1
              /\ trace = <<>>

\* Mutant: the guard is not tested.
Applies_Unguarded(m, t) ==
    LET tr == CoffeeNet.transitions[t]
    IN  tr.inputs \subseteq m /\ tr.outputs \cap m = {}

\* Whether a function applies, and what it returns if so: it has its inputs and
\* guards, its outputs are empty.
Applies(m, t) == Enabled(CoffeeNet, m, t)

Applied(m, t) == Fire(CoffeeNet, m, t)

\* fired: adopt the returned marking and print the line.
Apply ==
    /\ next <= Len(schedule)
    /\ Applies(marking, schedule[next])
    /\ marking' = Applied(marking, schedule[next])
    /\ trace' = Append(trace, [fired |-> schedule[next], marking |-> marking'])
    /\ next' = next + 1
    /\ UNCHANGED schedule

\* !fired: continue.
PassOver ==
    /\ next <= Len(schedule)
    /\ ~Applies(marking, schedule[next])
    /\ next' = next + 1
    /\ UNCHANGED <<schedule, marking, trace>>

LambdaNext == Apply \/ PassOver

\* One thread, one pass.
LambdaSpec == LambdaInit /\ [][LambdaNext]_lambdaVars /\ WF_lambdaVars(LambdaNext)
-----------------------------------------------------------------------------
Finished == next > Len(schedule)

At(t) == CHOOSE k \in DOMAIN schedule : schedule[k] = t

\* The schedule respects what the arcs and the guard demand.
IsCausal == /\ At(BoilWater) < At(BrewCoffee)
            /\ At(GrindBeans) < At(BrewCoffee)
            /\ At(BrewCoffee) < At(PourCoffee)
            /\ At(Send) < At(Credit)
            /\ At(Credit) < At(PourCoffee)

\* One pass serves the coffee exactly if the author ordered it causally (20 of
\* the 720 schedules do); any other pass ends with work left undone, an enabled
\* transition that is never tried again.
ServesExactly ==
    Finished => /\ marking = Served <=> IsCausal
                /\ IsCausal <=> Terminal(CoffeeNet, marking)
=============================================================================
