----------------------------- MODULE Generated ------------------------------
(* The generated form: the templates of tools/codegen unroll each            *)
(* transition into a function of straight-line statements, tests that       *)
(* return false and then assignments to the one mutable marking (a Go map,  *)
(* a Python set, ...), and emit the scheduler loop around the functions.    *)
(*                                                                          *)
(* One step is one statement.  The templates list the places of a group in  *)
(* the order of their names; here it is whatever order SetToSeq chooses.    *)
EXTENDS PetriNet, SequencesExt

CONSTANTS Models,       \* the models given to codegen
          MaxSteps      \* bound on the lines a program may print

ASSUME ModelsAssumption == \A n \in Models : IsNet(n) /\ IsFiniteSet(n.places)
ASSUME MaxStepsAssumption == MaxSteps \in Nat

VARIABLES model,        \* the model the program was generated from
          code,         \* the fire functions, one statement list for each
          m,            \* the marking, mutated in place
          schedule,     \* the entry of the schedule that is called
          pc,           \* the statement of its function that is next
          trace,        \* the lines printed
          returned      \* main returned

vars == <<model, code, m, schedule, pc, trace, returned>>

Statements(op, S) == [k \in 1..Cardinality(S) |-> [op |-> op, place |-> SetToSeq(S)[k]]]

\* Mutant: the outputs are tested when the inputs are cleared already.
Unroll_OutputsTestedLast(tr) == Statements("needs", tr.inputs)
                                \o Statements("needs", tr.guards)
                                \o Statements("refuses", tr.blockers)
                                \o Statements("clear", tr.inputs)
                                \o Statements("refuses", tr.outputs)
                                \o Statements("mark", tr.outputs)

\* The body of fire<Name>: inputs, guards, blockers and outputs are tested, then
\* the inputs are cleared and the outputs marked.
Unroll(tr) == Statements("needs", tr.inputs)
              \o Statements("needs", tr.guards)
              \o Statements("refuses", tr.blockers)
              \o Statements("refuses", tr.outputs)
              \o Statements("clear", tr.inputs)
              \o Statements("mark", tr.outputs)

Emit(n) == [t \in Trans(n) |-> Unroll(n.transitions[t])]

Init == /\ model \in Models
        /\ code = Emit(model)
        /\ m = model.initial
        /\ schedule = 1
        /\ pc = 1
        /\ trace = <<>>
        /\ returned = FALSE

Running == ~returned /\ schedule <= Len(code)

Statement == code[schedule][pc]

Holds == \/ Statement.op = "needs" /\ Statement.place \in m
         \/ Statement.op = "refuses" /\ Statement.place \notin m

\* A test that passes.
Pass ==
    /\ Running
    /\ pc <= Len(code[schedule])
    /\ Holds
    /\ pc' = pc + 1
    /\ UNCHANGED <<model, code, m, schedule, trace, returned>>

\* A test that fails: return false, and the loop calls the next function.
ReturnFalse ==
    /\ Running
    /\ pc <= Len(code[schedule])
    /\ Statement.op \in {"needs", "refuses"}
    /\ ~Holds
    /\ schedule' = schedule + 1
    /\ pc' = 1
    /\ UNCHANGED <<model, code, m, trace, returned>>

\* An assignment.
Assign ==
    /\ Running
    /\ pc <= Len(code[schedule])
    /\ \/ Statement.op = "clear" /\ m' = m \ {Statement.place}
       \/ Statement.op = "mark" /\ m' = m \cup {Statement.place}
    /\ pc' = pc + 1
    /\ UNCHANGED <<model, code, schedule, trace, returned>>

\* Mutant: the break is missing.
ReturnTrue_ScanGoesOn ==
    /\ Running
    /\ pc > Len(code[schedule])
    /\ Len(trace) < MaxSteps
    /\ trace' = Append(trace, [fired |-> schedule, marking |-> m])
    /\ schedule' = schedule + 1
    /\ pc' = 1
    /\ UNCHANGED <<model, code, m, returned>>

\* return true: the loop prints the line and breaks.
ReturnTrue ==
    /\ Running
    /\ pc > Len(code[schedule])
    /\ Len(trace) < MaxSteps
    /\ trace' = Append(trace, [fired |-> schedule, marking |-> m])
    /\ schedule' = 1
    /\ pc' = 1
    /\ UNCHANGED <<model, code, m, returned>>

\* Every function returned false.
Return ==
    /\ ~returned
    /\ schedule > Len(code)
    /\ returned' = TRUE
    /\ UNCHANGED <<model, code, m, schedule, pc, trace>>

Next == Pass \/ ReturnFalse \/ Assign \/ ReturnTrue \/ Return

Spec == Init /\ [][Next]_vars /\ WF_vars(Next)
-----------------------------------------------------------------------------
\* The marking the function was called with, which the trace tells.
Called == IF trace = <<>> THEN model.initial ELSE trace[Len(trace)].marking

\* The comment the templates write over every function: "Every check precedes
\* every mutation, so a disabled transition leaves the marking untouched."  The
\* marking a call changes is one in which its transition is enabled by all four
\* clauses, and a function that gets through leaves exactly what Fire returns.
UntouchedUnlessEnabled ==
    /\ m # Called => Running /\ Enabled(model, Called, schedule)
    /\ Running /\ pc > Len(code[schedule]) => /\ Enabled(model, Called, schedule)
                                              /\ m = Fire(model, Called, schedule)

\* The program implements the scheduler loop over the model, statement by
\* statement: a call takes effect when it returns.
SortedPrograms ==
    {[net |-> n, candidates |-> [t \in Trans(n) |-> t]] : n \in Models}

Loop == INSTANCE Scheduler WITH
            Programs <- SortedPrograms,
            program <- [net |-> model, candidates |-> [t \in Trans(model) |-> t]],
            marking <- Called,
            next <- schedule,
            halted <- returned

LoopSpec == Loop!Spec
=============================================================================
