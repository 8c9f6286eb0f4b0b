# The coffee machine, nine languages, five forms: a TLA+ verification project

The repository runs one Petri net, the coffee machine of `model.json`, as some
forty small programs. Nine languages (and Solidity) write it in up to five *forms* (interpreter,
lambda, generated, contract, proof), a Go code generator emits some of them, and
shell gates require that all of them print the same six lines,
`parity/trace.golden`. `FORMS.md` states what they share: the canonical
semantics of a net and the canonical scheduling policy (fire the enabled
transition whose name is least).

This project models the net, the loader, the permutation gate in front of it, the
five forms, the reachability tool, and the way from a model through its analysis to
the theorems of the Lean proof form. TLC checks all of it on the coffee machine and
on families of *all* nets of a small shape, and TLAPS proves the results that matter
most for every value of the constants.

    tlc -config MCScheduler.cfg MCScheduler     # a run
    tlapm Scheduler_proofs.tla                  # the proofs of a module

## 1. Inventory

| Component | State | Operations | Interacts with |
|---|---|---|---|
| net and semantics (`tools/codegen/internal/petri/petri.go`) | `Model`: sorted places, initial places, transitions with four lists of arcs; `Marking`: a set | `Load`, `normalize`, `Enabled`, `EnabledIn`, `Fire` | called by the generator, the reachability tool and the analysis |
| analysis (`analysis.go`) | the queue of a search, a matrix under reduction | `Incidence`, `PInvariants`, `primitive`, `Weighted`, `Reachable`, `ConflictFree`, `ProofView` | feeds `lean.tmpl` |
| interpreter form (9 languages) | `StateVector`: tokens per place; lists of arrows and guards | `GuardFails`, `PrepareTransition`, `ExecuteTransition`, `ExecuteProcess`, `schedule` | prints the trace |
| generated form (4) | one shared marking | one unrolled function per transition, the loop over the sorted schedule | emitted from `model.json` by the templates |
| lambda form (9) | a marking threaded through a pass | one pure function per transition, one pass over a list written by hand | prints the trace |
| contract form (10, and the generated one in Solidity) | the marked places, the event log | six entry points, each with its `require` checks; a driver that calls them in the golden order | any number of callers share one machine |
| proof form (5) | search: seen, frontier, deadlocks; then a marking of counts | `enabled`, `fire`, `oneSafe`, `isDeadlock`, `verify`, `executeProcess` | runs only after its own verdict |
| Lean proof form (`lean/proof.lean`, `lean.tmpl`) | lists seen and frontier, fuel | `successors`, `explore`, the theorems over `reachable` | elaborated by the Lean kernel |
| reachability tool (`tools/codegen/reachability/main.go`) | the state space, a walk through it | `explore`, `render`, `renderTrace` | `reachability.golden`, compared with `trace.golden` |
| code generator (`tools/codegen/main.go`, `templates/`) | none | load, analyse (for `lean`), execute a template | emits the generated form, `solidity/generated.sol`, `lean/proof.lean` |
| permutation gate (`permute/main.go`, `check_permutations.sh`) | a document, its keys in order | `parseObject`, `reversed`, `shuffled`, `render` | rewrites what the generator loads |
| gates (`parity/*.sh`, `tools/codegen/check_*.sh`) | files | run, diff | every other component |

Every program but the contract is one thread; nothing is persisted, no message
is sent, and there are no timers. What is hard here is therefore not crashes but:

- **concurrency in the net**: two chains that meet only in the read arc of
  PourCoffee, 20 maximal firing sequences, 16 markings;
- **order that must not matter**: of candidates, of arrows, of Go's maps, of the
  frontier (Rust takes the youngest marking, the others the oldest), of callers;
- **order that must matter**: the golden trace is one order, 90 of the 720
  candidate orders print it, and 20 of the 720 hand-written schedules serve at all;
- **in-place firing**: a fire function that returns in the middle must have
  changed nothing;
- **two semantics**: sets with the clause "outputs are clear", against counts without;
  in the Lean form what Go computed with the first must hold in the second;
- **exact and wrapping integers**: fractions without bound, reduced, scaled and cut to 64 bits;
- **shared contracts**: callers that race, are refused, and go on;
- **unbounded loops and searches**: why each of them ends, or on which nets it does not.

What makes each component correct: the net conserves its invariants and ends in
one marking; a loop fires the policy's choice and stops where the net stops; a
pass serves if its schedule is causal; an entry point succeeds once and a
refusal comes too late rather than too early; a verdict is a proof; a list of
states is the state space; a `Model` is a function of the net; a basis is complete
and fits; a generated proof fails only where the net does. The hazards are
listed, line by line, in `PROJECT.json`.

## 2. The modules

The forms are independent rewrites of one program. A module models a *form*, and
its definitions are anchored in `PROJECT.json` ("map") at the language whose code
reads closest to the definition; where languages differ (the order of the
frontier, the order of checks), the module admits every variant and says so.

| Module | Models | State in the code | Actions and operators |
|---|---|---|---|
| `PetriNet` | `petri.go`, `model.json` | none | `Enabled` (four clauses), `EnabledIn`, `Fire`, `ConflictFree`; `CoffeeNet` and its names; `Undisturbed`, `Persistent` |
| `Machine` | the canonical semantics: the **abstract specification** of every form | `marking` | `FireTransition(t)` for any enabled `t`; `Weighted`, `IsPInvariant` |
| `Scheduler` | the loop that scans and restarts | `marking` = `m`, `next` = the loop variable, `trace` = the lines, `halted` = main returned | `Accept` (a candidate fires, line, `break`), `Refuse`, `Halt` (a pass without a firing) |
| `Interpreter` | the interpreter form, refines `Scheduler` | `state` = `StateVector`, `machine` = its lists, `candidates` = what `schedule()` returned | `Sorted`, `PrepareTransition` (stops at the first failing arrow), `Execute`, `Skip`, `Return`; `NetOf`, the net that the lists denote |
| `Generated` | templates and generated form, refines `Scheduler` | `marking`, position in a function | `Unroll`, `Emit`; one step per statement: `Pass`, `ReturnFalse`, `Assign`, `ReturnTrue`, `Return` |
| `Lambda` | the lambda form | `marking`, `next`, `trace` | `Apply`, `PassOver` |
| `Contract` | the contract form, refines `Machine` | `marked`, `events`, `call[d]` = the driver's index | `DriverCall(d)`, `OtherCall(t)`, both through `Transact` = `Require` and `Perform`, or a revert |
| `PTNet` | place/transition semantics on counts | none | `PTEnabled`, `PTFire`, `Successors`, `OneSafe`, `IsDeadlock`, `Support` |
| `ProofForm` | the proof form, its run refines `Machine` | `seen`, `frontier`, `deadlocks`, `tokens`, `pc` | `Expand(m)`, `RejectUnsafe(m)`, `Conclude`, `RunStep(t)`, `RunEnd` |
| `Reruns` | two runs of one net, what the parity gate compares; extends `Machine`, which is the first run | `second` = the marking of the second run, `firings` and `refirings` of each transition | `FirstFires(t)`, `SecondFires(t)` |
| `Explore` | `explore` and `renderTrace` | `seen`, `frontier` (a queue), `states`, `terminals`, `edges`; `state` and `rank`, the marking that is visited and the transition tried in it; `current`, `lines` | a turn of the loop: `Visit`, then `Follow` or `PassOver` for each transition, then `Record`; `Finish`, `Walk`, `WalkEnds` |
| `Analysis` | `analysis.go`: what `ProofView` computes | `all`, `terminals` = its `deadlocks`, `unvisited` = its `frontier` (`Reachable`); `matrix`, `col`, `pivotCols` of the reduction; `basis`; `view` = the `Proof` | `Visit` (with `Discovers`, the new successors), `Reached`, `Reduce` (one turn of the loop over the columns), `Reduced`, `Basis`, `Show`; `Rat` and its operations, `Primitive`, `Int64`; `phase` says how far `ProofView` has come |
| `LeanForm` | `lean.tmpl`, composes `Analysis` with `PTNet` | `fuel`, `listed` = `seen`, `queue` = `frontier` (lists) | `Analyse`, `Generate`, `Search` (one unit of fuel of `explore`, with `Fresh`), `Elaborate`; the theorems: `ReachableClosed`, `ReachableOneSafe`, `InvariantsConserved`, `UniqueDeadlock` |
| `Loader` | `Load`, `normalize` | `places`, `initial`, `byName`, `transitions` under construction; `unread` = what the loop over a map has left | `ReadPlace(p)`, `SortPlaces`, `ReadArc`, `ArcsRead`, `EmitTransition(t)`, `Finish`; `IsModelOf(f)`, what the result should be; `CapacityOne`, `ArcsResolve`, which files the documents and the arcs allow |
| `Regeneration` | the gates that run `codegen` again, with `permute` in front of `Loader` | `document` = the text, as far as its order shows; `checkedIn` = how the first run ended | the steps of `Loader` on the original, then again and again `Permute("reverse")`, `Permute("seed")` or `Direct` (the original once more) and the steps of `Loader` |

`MCNets` holds the families of nets; each `MC*` module gives one module its
constants. The theorems are in a module `M_proofs` for each `M` of `PetriNet`, `Machine`,
`Scheduler`, `Interpreter`, `Generated`, `Contract`, `ProofForm` and `Explore`; those about
`Reruns` are in the second half of `Machine_proofs`, those about `Analysis` and `LeanForm`
in the second half of `ProofForm_proofs`, those about `Lambda` at the end of
`Contract_proofs`. An operator with a suffix (`Visit_...`)
under a comment "Mutant:" is a plausible slip in the code that the property
under test must notice; the specifications do not use it.

How they compose:

    Interpreter --\
                   >-- Scheduler -- Machine        PetriNet under all of them
    Generated ----/                 /  |
    Contract ----------------------/  / \           PTNet under ProofForm, LeanForm
    ProofForm (its run) -------------/   Reruns

    Explore                                        the state space of the Machine

    Loader -- Regeneration                         the file, in any order
    Analysis -- LeanForm                           the Model, to its theorems

`Interpreter!LoopSpec` and `Generated!LoopSpec` are checked, fairness included, and
their safety part is proved; `Scheduler!MachineSpec` and `Contract!MachineSpec` are
proved; `ProofForm!RunIsMachine` is checked and proved. Five modules meet in the set
`Reachable(net)` of `PetriNet_proofs`, the least set of markings that holds the initial
one and is closed under firing: the machine stays in it, `Explore` and `Analysis` list
it, and what an accepting proof form has gone through is it, in Go and in Lean.

### Abstractions

A transition is its rank in the order of the names, so that "lexicographically
least" is "least"; what the policy sorts by is thus in the model, the spelling is
not. A line of output is the transition and the marking it prints; wording is
left out. A contract transaction is one atomic step, as it is on chain; the
contract programs in the other languages run one call at a time. In `Contract`
the order of the checks within a transaction is left out (no caller can tell),
which is why the hand-written and the generated contract share one model.
`Explore` leaves the final sort of the list out: the walk finds states by key; and the
loop of `EnabledIn` and the loop over what it returns, which keeps its order, are one.
`big.Rat` is a reduced fraction and `int64` an integer that wraps at a width which
is a constant of `Analysis`; Lean's `Nat` and `Int` do not wrap. A document of
`Regeneration` is three sequences, its places, transitions and arcs; parsing is what
it does to keys that are repeated (the last value stays), and `shuffled` is any
permutation, whatever the seed.

## 3. The runs

| Run | Question | Instance |
|---|---|---|
| `scheduler` | is every refusal in a scan still true when it is used, is each line the policy's choice, does the loop stop where the net does, which orders print the golden trace (90 of 720) | coffee machine with all 720 candidate orders; small nets, sorted and reversed candidates |
| `interpreter` | golden trace for all 720 orders of declaration; does walking arrows decide the four clauses, in either order of the arrows, with counts in 0..1; implements the loop | coffee machine with its arrows as written; small nets with test arcs, arrows in two orders |
| `generated` | does a fire function that returns false leave the marking alone, does the program implement the loop | coffee machine, small nets, statement by statement |
| `lambda` | which schedules serve (20 of 720), and do the others leave work undone | all 720 schedules |
| `contract` | can callers in any order make an entry point succeed twice, pour unpaid, or strand a driver | 3 drivers and arbitrary other calls |
| `proof_form` | is a verdict a proof in any frontier order, does it come, does the run stay inside it and agree with the sets | coffee machine, two slips in writing it down, all nets of 2 places and 2 transitions without inhibitors |
| `reruns` | do the arcs alone conserve every vector of the left nullspace, is `{Payment}` the only end; in a net without choice, must two runs agree | coffee machine; every net of 2 places and 2 transitions with at most one test arc each; those of 3 transitions without test arcs that have no choice; all weightings in -2..2, the four of `proof.lean` for coffee |
| `explore` | is the list the state space, does the walk over it give the policy's trace, does it end | coffee machine, small nets |
| `lean_form` | is `2^n` enough fuel; are the invariants a complete, primitive basis, and does it survive the cut to int64; has every refusal of the file its cause, which for a net without oddities is a place with two tokens; do the set search and the count search find one space | coffee machine; all nets of 2 places and 2 transitions with one test arc at most between them; nets of 3 transitions of which two consume one token each; lists of arcs with repetitions; nets of 4 places and 3 transitions that split tokens; a net whose search spends its fuel on copies and misses the end; each with integers of 3 and of 16 bits |
| `regeneration` | does `codegen` end, on every permutation and in every order of Go's maps, as it did when its output was checked in; is what it loads what the original declares, and is nothing refused that the documents admit | all lists of at most 2 arcs between 4 names, some of them no place or no transition or both; lists of 3 arcs with repetitions; 3 places, two of which may share a key, with every initial marking and capacity in 0..2; each as it is, reversed, and in every shuffle |
| `conflict_free`, `capacity` | two statements of the repository that the code does not keep (section 6): TLC finds the counterexamples | the small nets of `reruns`, and the instance of `regeneration` |

**Bounds.** `MaxSteps` = 6 lines: the coffee machine prints exactly six, and a
net of two places has four markings, so every loop returns or repeats a marking
within the bound; it cuts only the endless repetition. `MaxLines` = 6 likewise.
`MaxFirings` = 3 firings of each transition in a run of `Reruns`: of the four markings
of a net of two places each is at most three firings away, so nothing that a `Machine`
reaches is lost. Two places are
enough for every relation two arcs can have (same place, different places, both
ends), and two transitions for every relation two transitions can have; the nets
include those that never end, that block at once, that compete for an input, an
output or a test. Four clauses and two test arcs all decide something on these
nets, which they do not all do on the coffee machine. Three drivers allow one to
be overtaken by two others between any two of its calls. `PROJECT.json` has, for
every property, a slip in the code that makes the run fail.

The width of an integer is 64 bits in the code and 3 or 16 in `lean_form`. With 16
nothing is lost on nets of this size; with 3 weights and the fuel do get cut (a weight
of 4 becomes -4, the fuel of four places 0), and a sum that `Weighted` makes of weights
that fit (`DeadNet`, whose first three places weigh 1, 1 and 2: the sum 4), so the
conditions `WeightsHaveRoom`, `SumsHaveRoom` and `FuelHasRoom` each decide something. For a matrix of entries -1, 0 and 1 and rank r, Hadamard's
bound r^(r/2) on a minor bounds every primitive weight; it is below 2^63 up to rank 26
(with a sum over 250 places, up to rank 24), and `1 << |P|` is positive up to 62
places, which is where the code is safe. Four places are enough for a pivot that needs a swap of rows, a column without one, and a
null vector with fractions; completeness is compared with all vectors
of entries -1, 0, 1.

**Deadlock** is not checked where the program really returns (the loops, the
searches, the elaboration) or the net ends (`Machine`, `Reruns`). In `Contract` and
`Regeneration` it is: anyone may always call, and the gates can always be run again.

**Fairness.** The loops of `Scheduler`, `Interpreter`, `Generated`, `Lambda`,
`ProofForm` and `Explore` are sequential programs without waiting: weak fairness
of `Next` says that the thread runs. In `Contract` each driver is a loop over six
calls that goes on after a refusal: weak fairness of `DriverCall(d)`, for each
driver; other callers are assumed to do nothing in particular, and
`EventuallyServed` needs one driver. `Machine`, `Reruns`, `LeanForm` and
`Regeneration` state safety only and assume no fairness: the steps of `LeanForm` run
on fuel and over columns, those of `Regeneration` over finite files.

## 4. The theorems

All are theorems of the specification, for every value of the constants: every
set of nets, machines, programs or drivers, every bound.

**`PetriNet_proofs`** (lemmas): `Fire` stays within the places; an undisturbed
transition stays enabled; two transitions that do not disturb one another commute
(`Diamond`); `Reachable(n)` is closed under firing and the least such set
(`ReachableStable`, `ReachableLeast`); the arcs of the coffee machine as a table, and
what is enabled along the golden trace (`GoldenStep`, `GoldenChoice`, `GoldenEnd`); and
sums. A sum over a set is a fold, of which the provers know its recursive equation and
nothing else. The lemmas introduce a sum that they can count with, `Total`: one unit for
every positive value, less one for every negative. It is additive over disjoint sets and
over functions (`TotalFacts`, `Adds`), and it is what the fold computes (`FoldIsTotal`):
the smallest set on which they differed would have a smaller one.

**`Machine_proofs`**, the machine: `TypeCorrect`; `StaysInStateSpace`;
`NoSpuriousDisabling`, by the lemma on undisturbed transitions; `Conservation`, of
every integer vector of the left nullspace, on every net: with the lemmas on sums, a
firing changes the weighted sum by what the transition produces less what it consumes,
because the outputs were clear.
`CoffeeConservation`, `NeverPouredUnpaid` and `AlwaysServed` follow by the
inductive invariant `CoffeeInv == TypeOK /\ CoffeeConserved /\ PaidBeforePoured`.
Neither conjunct can do without the equations: that the cup outlives the coffee
chain until the payment is in is read off the sums. That only `{Payment}` is
terminal follows from the invariant by cases on what is marked.

**`Machine_proofs`**, two runs: `NoRunOutlastsHolds` and `SameOutcomeHolds`, for every
persistent net and any two runs, by the inductive invariant `RerunInv`: types, and for
persistent nets

    Marks(net, firings, marking) /\ Marks(net, refirings, second)
        /\ Exchange(net, firings) /\ Bounded

`Marks` says that the firing counts determine the marking. `Bounded`, no transition
has fired more often in the second run, is what is wanted and is not inductive: the
first run may have ended with a transition just short of what the second could still
fire. `Exchange` excludes that. Whenever fewer firings have been made than in the
first run, some transition that is behind is enabled; so with the same count of `t` and
`t` enabled again, `t` would be enabled at the end of the first run too.
`FirstRunIsMachine` says that the first run is a run of `Machine`.

**`Scheduler_proofs`**: the inductive invariant is

    IInv == TypeOK /\ ScanIsFresh /\ TraceIsRun /\ FiresFirst /\ HaltedScanned

where `FiresFirst` says that each line fired the first candidate enabled before
it, and `HaltedScanned` that a return comes after a complete pass. `FiresLeast`
alone is not inductive: what is known of a line when it is printed is that the
candidates before it were refused, in this marking (`ScanIsFresh`). It gives
`ScanNeverStale`, `TraceIsFiringSequence`, `StopsAtTerminal`, `FollowsPolicy` and
`ImplementsMachine`. `ReturnsOnlyWithoutRepeat` needs one invariant more,
`RepeatStays`: the choice is a function of the marking, so if a marking came back
the current marking has been seen before and was left, and there is no return.
`GoldenExactlyHolds` says of which orders print the golden trace without going through
them: in the three markings that offer a choice (`GoldenChoice`) the golden transition
must come before the others, which is the three comparisons of `GoldenOrder`, and
conversely a trace that is golden fired the first enabled candidate each time.

**`Interpreter_proofs`**: for every machine and every order of its three lists. The
invariant `IInv == Typing /\ ScanIsFresh /\ GoldenSoFar` bounds the counts by 0 and 1;
that this is kept is not in `Apply`, which subtracts and adds without looking, but in
the walk, which has looked at every place, and in that no arrow is drawn twice
(`OccursOnce`). From it, the walk decides what the four clauses decide and executing is
firing (`WalkAgreesHolds`); `schedule()` lists the ranks in ascending order however
they are declared (`SortedRanks`), hence `PrintsGoldenHolds`; and `ImplementsLoop`,
the refinement of `Scheduler` under the mapping of counts to the places that hold some.

**`Generated_proofs`**: for every model and every order of the places within a group of
statements. What is proved of the templates is that tests come before clears and
clears before marks (`InPhases`) and that the statements are those of the arcs. The
invariant `IInv == Typing /\ Effect` relates the position in a function to what has
happened: the tests that were passed hold of the marking the function was called
with, and the marking is that one with the assignments made so far. It gives
`UntouchedUnlessEnabledHolds`, and `ImplementsLoop`: a call is one step of the loop,
taken when it returns.

**`Contract_proofs`**: `IInv` adds to the log properties and `DriverAdvanced` the
conjunct `MarkingTells`, which reads the history off the marking and the marking
off the history: a place is marked exactly if what produces it has happened and
what consumes it has not. From it, a refusal at the k-th call of a driver whose
first k-1 calls have happened means that the k-th has happened too
(`RefusedHasHappened`), for any number of drivers and any other calls. It gives
`LogIsTrace`, `SucceedsOnce`, `NeverPouredUnpaid`, `RefusalsAreLate`,
`EveryDriverServes` and `ImplementsMachine`.

**`Contract_proofs`**, the lambda form: the same idea for a list that is gone through
once. `PassInv` reads the marking off two things, how far the pass has come and how the
list is ordered: BrewCoffee has fired if the pass has come to it and BoilWater and
GrindBeans stood before it, and so on. That an entry fires exactly if it stands behind
what it waits for (`FiresIfFollows`) keeps it, whether the entry fires or is passed over.
`ServesExactlyHolds` follows without going through the 720 lists, which the run does.

**`ProofForm_proofs`**: for every set of nets without inhibitor arcs, however the
frontier is ordered. The inductive invariant is

    IInv == SearchInv /\ InitialTokens(net) \in seen /\ SearchIsBounded
            /\ tokens \in seen /\ VerdictInv

where `SearchInv` says that everything seen and no longer in the frontier is 1-safe,
has its successors seen and is recorded if it is a deadlock, and `VerdictInv` that a
verdict in favour was given on an empty frontier. `VerdictIsProof` alone is not
inductive: it says nothing before there is a verdict. With an empty frontier `SearchInv`
speaks of everything seen, which is `VerdictsAreProofs`; closure keeps the run inside
(`RunNeverLeaves`). That the clause on outputs never decides follows from 1-safety of a
marking *and of its successors*: an output that is marked and not an input would hold
two tokens after the firing (`OutputsAreClear`). Hence `ClauseNeverDecides`, and
`ImplementsMachine`, both for nets without self-loops: on a self-loop the two semantics
differ.

The verdict is also exact (`VerdictDecides`): with `PTReachable(net)`, all the counts
that the net can reach, of which there may be infinitely many, a verdict is in favour
if *and only if* each of them is 1-safe and the served coffee is the one deadlock among
them. `ExactInv` adds that everything seen is reachable, that what is recorded is a
deadlock, and that a refusal had a reason. And on an accepted net without self-loops
the places marked in what was seen are exactly `Reachable(net)` of the sets
(`SameSpace`): the verdict is about the programs of the other forms.

**`ProofForm_proofs`**, the Lean form: for every set of models, with lists of arcs in any
order and with repetitions, and every width of the integers. The inductive invariant is

    LeanInv == model \in Models /\ width \in Widths
            /\ VisitInv /\ (phase # "reach" => unvisited = <<>>) /\ TerminalsInv
            /\ ViewInv /\ ListInv /\ PassedInv

`VisitInv` and `TerminalsInv` are about Go's search: what is met is reachable, is listed
or waits, one of the two and once, and what a listed marking leads to is met. With an empty
queue that is `AnalysisExplores`. `ListInv` is about Lean's: the list is what has been
expanded, followed by the queue; one unit of fuel has gone into each marking expanded; the
successors of these are in the list; and *if the effects of the transitions differ*, no
marking is in it twice. `FuelSuffices` alone is not inductive, since it says nothing of
fuel while there is some. With `ListInv` it is a count (`FuelIsEnough`): if the fuel, 2^n,
is spent and a marking waits, then more than 2^n different markings are in the list, and
so they are not all sets of the n places. The condition on the effects is the one that a comment
of the code omits (section 6). `ViewInv` says what the template is handed, `PassedInv`
that a file that elaborated has passed its first two theorems; with both, and because in a
closed 1-safe list the two semantics enable the same (`OutputsAreClear` again),
`SearchesAgree`: Go's space and Lean's are one, and so are their deadlocks.

What a refusal means takes three steps. If the fuel was not cut and no marking is in the
list twice, closure is no reason (`EnoughFuel`). Without self-loops, the final marking is
none either (`FinalIsUnique`): that Go found one terminal marking and that Lean finds one
deadlock are the same fact. And a marking is listed twice only if two transitions have one
effect. Hence `RefusedForCause`, in which nothing is assumed of the model or the width: a
refused file has two tokens in a place, a fuel that was cut, a sum that is not conserved, a
marking listed twice (then closure or the final marking fails), or a self-loop (then the
final marking fails). Each of these occurs alone in the run. It is not the sum if the integers
are what they should be: a firing changes a weighted sum over the counts by a column of
the incidence matrix (`FiringKeepsSum`), which the arcs of the file enter once each
(`IncidenceIsEffect`), so a null vector has the same sum on all that is listed
(`ListConserves`), and Go's sum over the set, if it is not cut, is the first of them
(`InitialSum`). Hence `RefusalsExplained`:

    LeanSpec => [](BasisIsComplete /\ WeightsFit => Elaborates)

`Elaborates` is `RefusedForCause` with the cause of a failing sum: an arc that occurs
twice, or integers without room. All that it says of the two searches and of the theorems
in the file is proved. What is assumed is the arithmetic of `PInvariants`, which TLC checks
in the same run: that the vectors are null vectors and that neither they nor their sums are
cut.
`ProofFormsAgree` puts the two proof forms side by side on one net: once the Go form
(or any other with its search) has accepted and the Lean file elaborated, they have found
the same markings, and on a net of which `Elaborates` leaves no cause but two tokens, with
the arithmetic right, the Lean file is not refused.

**`Explore_proofs`**: for every net, finite or not. The invariant of the exploration is

    Exploration == TypeOK /\ Recorded /\ Once /\ Closed /\ Discovered /\ Counted /\ Emptied

A marking that was seen is listed, or visited, or queued, one of the three and once
(`Once`); where the firings noted so far lead has been seen (`Closed`), and what is
visited or queued was led to by one of them (`Discovered`). `ListsReachable` says
nothing before the queue is empty, so it is not inductive; with an empty queue the
invariant is `ListsReachableHolds`. `ListsReachableExactly` puts it without the list: the
keys are `Reachable(model)`. `NoBoundNeeded` is the claim of the comment on `explore`, at
most `2^|places|` states, by counting the keys, which are different sets of places. For
`WalkIsPolicyHolds`, `Walked` says that the walk stands on a listed marking, so that the
first of the enabled transitions recorded there is the policy's choice, and `Along` how
far it has come on the coffee machine.

Assumptions, each evaluated by TLC in the runs: nets, models and files are well formed
(`NetsAssumption`, `ModelsAssumption`: what `LoadsWhatIsDeclared` checks of the loader), with
finitely many places in `Machine` and `Generated` (a file is finite), and without
inhibitor arcs in `ProofForm`; weights are integers; a machine of the interpreter draws
no arrow twice and declares each transition once, and the one named coffee denotes
`CoffeeNet`; a model of `Analysis` lists each place once (`normalize` sorts the keys of
a map), and a width is any positive number of bits, the 64 of the code among them; a
program of `Scheduler` lists each transition of its net, and none twice; bounds are
natural numbers; a schedule of `Lambda` lists each transition of the net once
(`SchedulesAssumption`). `Contract` itself assumes nothing.

**Model-checked only**:

- liveness (`Settles`, `EventuallyServed`, `VerdictReached`, `ExploreEnds`) and the fairness
  of `LoopSpec`, which are beyond the prover; `NoBoundNeeded` and `SearchStaysBounded`
  are the safety half of two of them;
- the arithmetic of `Analysis` (`BasisIsComplete`, `WeightsFit`): the row reduction, the
  denominators and the gcd are folds over rows of fractions, and what they compute is an
  induction over data. `Elaborates` rests on these two, and is otherwise proved;
- `RegeneratesSame` and `LoadsWhatIsDeclared`: they are about what `SortSeq` and
  `Permutations` of the module `TLC` return, which the prover knows by name only.

## 5. Not modelled

- Elaboration in Lean: how the kernel evaluates `decide`, and its limits on depth.
  What is evaluated is `Theorems` in `LeanForm`.
- `render`, `Key`, `itoa` and the terms of a comment, the wording of lines and
  refusals, the spelling of identifiers, flags and files: formatting and I/O. Where the
  order of a rendering matters it is the order of ranks.
- The tokens of JSON, and a document that has one of its three top-level keys twice.
  `permute` numbers the arcs with three digits; beyond a thousand of them the reverse
  order is another permutation, which changes nothing.
- The shell of the gates: they run programs and compare files. What they compare is
  modelled (`Reruns`, `GoldenExactly`, `PrintsGolden`, `RegeneratesSame`).
- Build files and CI: no run-time state.

## 6. Where the repository says something else

Two runs look for a counterexample to a sentence of the repository, and find one.

- `conflict_free`: `analysis.go:206-208` and `FORMS.md:281-284` say that a net in
  which no two transitions share an input place always ends in the same marking.
  Two producers of one place compete for it under the canonical clause that
  outputs are clear, and end in different ones. `SameOutcome` holds with
  `Persistent`, which compares outputs and test arcs too; the coffee machine is
  persistent.
- `capacity`: `FORMS.md:321` and `lean.tmpl:111` say that the loader rejects every
  capacity but 1. It rejects those above 1 (`petri.go:82`); 0, and none, are loaded.
  `LoadsWhatIsDeclared` therefore asks that files of capacity 1 are never refused and
  that no place with room for more is loaded, and leaves open what becomes of the rest.

Two more sentences do not hold on odd nets. The checked properties name the oddity as a
condition or as a cause, so that they say where the sentence does hold.

- The comment on `explore` (`lean.tmpl:86-88`, `lean/proof.lean:103-105`)
  says that a search that goes past `2^n` has found a marking with two tokens. Transitions
  with the same effect queue a marking once each: with `a` and `b` marked, two transitions
  that consume `a` and one that consumes both and produces `a`, the fuel of 4 is spent,
  markings still wait, and none has two tokens in a place. `FuelSuffices` assumes
  `DistinctEffects`, and `Elaborates` has the cause `ListedTwice`.
- The comment on `Invariant` (`analysis.go:12-16`) and `FORMS.md:322` say
  that the weighted sums are constant along every firing sequence. An arc that the file has
  twice counts twice in `Incidence` and once in a firing: with two arcs from `a` to `t` and
  one from `t` to each of `a` and `b`, the weights (1, 1) are a null vector, and the first
  firing takes their sum from 1 to 2. `SumsHaveRoom` asks for arcs that occur once, and
  `Elaborates` has a failing sum as a cause without it.

So a generated proof can fail for a net that is 1-safe: with two transitions of one
effect (`unique_deadlock` compares lists, and the deadlock is listed twice), with a
transition that consumes and produces in one place (the clause that outputs are clear
refuses it, the Lean semantics do not), with an arc that the file has twice, with
63 places or more, and with weights that an `int64` cannot hold. `Elaborates` says that
there is no other way.

On these no property depends:

- The comment on `Proof.Final` (`analysis.go:240`) says "if ConflictFree && one
  deadlock", and `lean.tmpl:137` calls the net conflict-free wherever it states
  `unique_deadlock`. The code (`analysis.go:267`) asks for one deadlock only.
- `analysis.go:53-54` says that the basis is ordered by the index of the free place; it is
  sorted by the first place with a weight (lines 122-124). With one transition that
  consumes the first of three places and produces into the third, the vector of the
  third comes before that of the second.
- `analysis.go:46-48` speaks of integer combinations and of combinations over the rationals
  in one sentence; what holds, and what `BasisIsComplete` checks, is the latter.

## 7. Plan

Done, in this order: `PetriNet`, `Machine`, `Scheduler` with their proofs;
`Interpreter`, `Generated`, `Lambda`; `Contract` with its proofs; `PTNet`,
`ProofForm` with its proofs; `Reruns`; `Explore`, `Loader`; `Analysis`, `LeanForm`,
`Regeneration`; then the proofs of `Generated`, `Interpreter`, `Reruns`, `Explore`, of
`Conserved` and `GoldenExactly`, and that the verdict of the proof form is exact; then
those of `Analysis` and `LeanForm`, and that the two proof forms agree. The model covers
every component whose state changes; what is left of it is text.

What is left is the arithmetic and the sorting: that the reduction yields null vectors
within Hadamard's bound, and that two orders of the loops over Go's maps are sorted into
one model. The first needs an induction over the columns of a matrix of fractions, the
second a sort that the prover can expand, as `InOrder` of `PetriNet` is; both stay with
TLC.
