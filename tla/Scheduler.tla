----------------------------- MODULE Scheduler ------------------------------
(* The scheduler loop that the interpreter, generated and proof forms run:  *)
(* main of golang/generated/main.go.  Each pass of the outer loop scans the *)
(* candidate list from its head, fires the first candidate that accepts,    *)
(* prints its line and starts a new pass; a pass that fires nothing ends    *)
(* the program.                                                             *)
(*                                                                          *)
(* One step is one call of a candidate's fire function.  A program is a net *)
(* together with the candidate list it scans.                               *)
EXTENDS PetriNet, FiniteSetsExt

CONSTANTS Programs,     \* the programs: records [net, candidates]
          MaxSteps      \* bound on the lines a program may print

\* The candidate list holds every transition of the net, once.
IsProgram(p) == /\ IsNet(p.net)
                /\ p.candidates \in Seq(Trans(p.net))
                /\ \A t \in Trans(p.net) :
                      \E k \in DOMAIN p.candidates : p.candidates[k] = t
                /\ \A j, k \in DOMAIN p.candidates :
                      p.candidates[j] = p.candidates[k] => j = k

ASSUME ProgramsAssumption == \A p \in Programs : IsProgram(p)
ASSUME MaxStepsAssumption == MaxSteps \in Nat

VARIABLES program,      \* the program that runs; never changes
          marking,      \* m, the set of marked places
          next,         \* the candidate the scan tries next
          trace,        \* the lines printed: the transition and the marking
          halted        \* main returned

vars == <<program, marking, next, trace, halted>>

net == program.net
candidates == program.candidates

\* A line: the transition it names and the marking after it.
Line == [fired : Nat, marking : SUBSET net.places]

TypeOK == /\ IsProgram(program)
          /\ marking \subseteq net.places
          /\ next \in 1..Len(candidates) + 1
          /\ trace \in Seq(Line)
          /\ halted \in BOOLEAN

Init == /\ program \in Programs
        /\ marking = program.net.initial
        /\ next = 1
        /\ trace = <<>>
        /\ halted = FALSE

Candidate == candidates[next]

\* Mutant: the break is missing, the scan goes on behind the one that fired.
Accept_ScanGoesOn ==
    /\ ~halted
    /\ next <= Len(candidates)
    /\ Enabled(net, marking, Candidate)
    /\ Len(trace) < MaxSteps
    /\ marking' = Fire(net, marking, Candidate)
    /\ trace' = Append(trace, [fired |-> Candidate, marking |-> marking'])
    /\ next' = next + 1
    /\ UNCHANGED <<program, halted>>

\* t.fire(m) returned true: print the line, break out of the scan.
Accept ==
    /\ ~halted
    /\ next <= Len(candidates)
    /\ Enabled(net, marking, Candidate)
    /\ Len(trace) < MaxSteps
    /\ marking' = Fire(net, marking, Candidate)
    /\ trace' = Append(trace, [fired |-> Candidate, marking |-> marking'])
    /\ next' = 1
    /\ UNCHANGED <<program, halted>>

\* Mutant: the scan wraps round, so that no pass ever ends.
Refuse_Wraps ==
    /\ ~halted
    /\ next <= Len(candidates)
    /\ ~Enabled(net, marking, Candidate)
    /\ next' = IF next = Len(candidates) THEN 1 ELSE next + 1
    /\ UNCHANGED <<program, marking, trace, halted>>

\* t.fire(m) returned false: the scan goes on.
Refuse ==
    /\ ~halted
    /\ next <= Len(candidates)
    /\ ~Enabled(net, marking, Candidate)
    /\ next' = next + 1
    /\ UNCHANGED <<program, marking, trace, halted>>

\* Mutant: the last candidate is never tried.
Halt_OneShort ==
    /\ ~halted
    /\ next >= Len(candidates)
    /\ halted' = TRUE
    /\ UNCHANGED <<program, marking, next, trace>>

\* Mutant: a program that has printed all the lines it may returns.
Halt_BudgetSpent ==
    /\ ~halted
    /\ next > Len(candidates) \/ Len(trace) = MaxSteps
    /\ halted' = TRUE
    /\ UNCHANGED <<program, marking, next, trace>>

\* The pass fired nothing.
Halt ==
    /\ ~halted
    /\ next > Len(candidates)
    /\ halted' = TRUE
    /\ UNCHANGED <<program, marking, next, trace>>

Next == Accept \/ Refuse \/ Halt

\* The program is one thread: as long as it has not returned it runs.
Spec == Init /\ [][Next]_vars /\ WF_vars(Next)
-----------------------------------------------------------------------------
(* What the loop promises of every program.                                 *)

\* The candidates the scan has passed over are disabled in the marking as it is
\* now: the scan restarts after every firing, so no refusal is ever stale.
ScanIsFresh ==
    \A k \in 1..next - 1 : ~Enabled(net, marking, candidates[k])

\* The program stops where the net stops and nowhere else.
HaltedAtTerminal == halted => Terminal(net, marking)

\* The marking before line k of the lines printed.
Before(lines, k) == IF k = 1 THEN net.initial ELSE lines[k - 1].marking

\* The printed lines are a firing sequence of the net from its initial marking
\* to the current one.
TraceIsRun ==
    /\ \A k \in 1..Len(trace) :
          /\ Enabled(net, Before(trace, k), trace[k].fired)
          /\ trace[k].marking = Fire(net, Before(trace, k), trace[k].fired)
    /\ marking = Before(trace, Len(trace) + 1)

\* The candidates are every transition, sorted by name.
IsSorted(cands) == \A j, k \in DOMAIN cands : j < k => cands[j] < cands[k]

\* The canonical scheduling policy of FORMS.md: a program whose candidates are
\* sorted only ever prints the lexicographically least enabled transition.
FiresLeast ==
    IsSorted(candidates) =>
        \A k \in 1..Len(trace) :
            \A t \in EnabledIn(net, Before(trace, k)) : trace[k].fired <= t

\* A program that returned never saw a marking twice: the choice depends on the
\* marking alone, so a marking that comes back comes back for ever.
\* (renderTrace of tools/codegen/reachability walks the same way.)
Repeats ==
    \E j, k \in 1..Len(trace) + 1 : j < k /\ Before(trace, j) = Before(trace, k)

HaltedNeverRepeated == halted => ~Repeats

\* A program returns or runs into a marking it has seen: there are at most
\* 2^|places| of them.
Settles == <>(halted \/ Repeats)

-----------------------------------------------------------------------------
(* The golden trace.                                                        *)

Fired == [k \in 1..Len(trace) |-> trace[k].fired]

Position(t) == CHOOSE k \in DOMAIN candidates : candidates[k] = t

\* Exactly these candidate orders reproduce parity/trace.golden: 90 of the 720,
\* as the comment on schedule in golang/interpreter/main.go counts them, and
\* the sorted order among them.
GoldenOrder == /\ Position(BoilWater) < Position(GrindBeans)
               /\ Position(GrindBeans) < Position(Send)
               /\ Position(BrewCoffee) < Position(Send)

GoldenExactly ==
    net = CoffeeNet /\ halted => (Fired = Golden <=> GoldenOrder)

-----------------------------------------------------------------------------
\* The loop implements the machine: a firing is a firing, a refusal and the
\* return change nothing.
ProgramNets == {p.net : p \in Programs}

Machine == INSTANCE Machine WITH Nets <- ProgramNets, Weightings <- {}

MachineSpec == Machine!Spec
=============================================================================
