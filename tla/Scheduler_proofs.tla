-------------------------- MODULE Scheduler_proofs --------------------------
(* Proofs about Scheduler, for every program: any net, any candidate list    *)
(* that holds its transitions.                                              *)
EXTENDS Scheduler, PetriNet_proofs

\* A line was printed by the first candidate enabled before it.
FiresFirst ==
    \A k \in 1..Len(trace) :
        \E c \in 1..Len(candidates) :
            /\ candidates[c] = trace[k].fired
            /\ \A b \in 1..c - 1 : ~Enabled(net, Before(trace, k), candidates[b])

\* A returned program has scanned all its candidates.
HaltedScanned == halted => next > Len(candidates)

IInv == /\ TypeOK
        /\ ScanIsFresh
        /\ TraceIsRun
        /\ FiresFirst
        /\ HaltedScanned

LEMMA Initially == Init => IInv
<1> SUFFICES ASSUME Init
             PROVE  IInv
  OBVIOUS
<1>1. IsProgram(program)
  BY ProgramsAssumption DEF Init
<1>2. Len(candidates) \in Nat
  BY <1>1 DEF IsProgram, candidates
<1>3. Len(trace) = 0 /\ trace \in Seq(Line)
  BY DEF Init
<1>4. marking \subseteq net.places
  BY <1>1 DEF IsProgram, IsNet, Init, net
<1>5. TypeOK
  <2>1. next \in 1..Len(candidates) + 1
    BY <1>2 DEF Init
  <2>2. halted \in BOOLEAN
    BY DEF Init
  <2> QED
    BY <1>1, <1>3, <1>4, <2>1, <2>2 DEF TypeOK
<1> QED
  BY <1>3, <1>5
  DEF Init, IInv, ScanIsFresh, TraceIsRun, FiresFirst, HaltedScanned, Before, net

\* The lines already printed, and the markings before them, stay as they are
\* when a line is added.
LEMMA AcceptKeepsLines ==
    ASSUME IInv, Accept
    PROVE  /\ Len(trace') = Len(trace) + 1
           /\ \A k \in 1..Len(trace) : trace'[k] = trace[k]
           /\ \A k \in 1..Len(trace) + 1 : Before(trace', k) = Before(trace, k)
           /\ trace'[Len(trace) + 1] = [fired |-> Candidate, marking |-> marking']
           /\ Before(trace', Len(trace') + 1) = marking'
           /\ Before(trace, Len(trace) + 1) = marking
<1>1. trace \in Seq(Line) /\ Len(trace) \in Nat
  BY DEF IInv, TypeOK
<1>2. trace' = Append(trace, [fired |-> Candidate, marking |-> marking'])
  BY DEF Accept
<1>3. /\ Len(trace') = Len(trace) + 1
      /\ \A k \in 1..Len(trace) : trace'[k] = trace[k]
      /\ trace'[Len(trace) + 1] = [fired |-> Candidate, marking |-> marking']
  BY <1>1, <1>2
<1>4. net' = net
  BY DEF Accept, net
<1>5. \A k \in 1..Len(trace) + 1 : Before(trace', k) = Before(trace, k)
  <2>1. ASSUME NEW k \in 1..Len(trace) + 1, k # 1
        PROVE  k - 1 \in 1..Len(trace)
    BY <1>1, <2>1
  <2> QED
    BY <2>1, <1>3, <1>4 DEF Before
<1>6. Before(trace', Len(trace') + 1) = marking'
  <2>1. Len(trace') + 1 # 1 /\ (Len(trace') + 1) - 1 = Len(trace) + 1
    BY <1>1, <1>3
  <2>2. Before(trace', Len(trace') + 1) = trace'[Len(trace) + 1].marking
    BY <1>1, <2>1 DEF Before
  <2> QED
    BY <1>3, <2>2
<1> QED
  BY <1>3, <1>5, <1>6 DEF IInv, TraceIsRun

LEMMA StepAccept == IInv /\ Accept => IInv'
<1> SUFFICES ASSUME IInv, Accept
             PROVE  IInv'
  OBVIOUS
<1> DEFINE n == Len(trace)
<1>1. /\ net' = net /\ candidates' = candidates /\ program' = program
      /\ n \in Nat
      /\ next \in 1..Len(candidates)
      /\ Candidate \in Trans(net)
      /\ IsNet(net)
  BY DEF IInv, TypeOK, Accept, net, candidates, Candidate, IsProgram
<1>2. marking' \in SUBSET net.places
  BY <1>1, FireType DEF IInv, TypeOK, Accept
<1>3. TypeOK'
  <2>1. [fired |-> Candidate, marking |-> marking'] \in Line
    BY <1>1, <1>2, TransNat DEF Line
  <2>2. trace' \in Seq(Line)
    BY <2>1 DEF Accept, IInv, TypeOK
  <2>3. Line' = Line
    BY <1>1 DEF Line
  <2>4. Len(candidates) \in Nat
    BY DEF IInv, TypeOK, IsProgram, candidates
  <2> QED
    BY <1>1, <1>2, <2>2, <2>3, <2>4 DEF TypeOK, IInv, Accept
<1>4. ScanIsFresh'
  BY DEF Accept, ScanIsFresh
<1>5. TraceIsRun'
  <2>1. ASSUME NEW k \in 1..n
        PROVE  /\ Enabled(net, Before(trace', k), trace'[k].fired)
               /\ trace'[k].marking = Fire(net, Before(trace', k), trace'[k].fired)
    BY <1>1, <2>1, AcceptKeepsLines DEF IInv, TraceIsRun
  <2>2. /\ Enabled(net, Before(trace', n + 1), trace'[n + 1].fired)
        /\ trace'[n + 1].marking = Fire(net, Before(trace', n + 1), trace'[n + 1].fired)
    BY <1>1, AcceptKeepsLines DEF Accept
  <2>3. \A k \in 1..Len(trace') : k \in 1..n \/ k = n + 1
    BY <1>1, AcceptKeepsLines
  <2>4. marking' = Before(trace', Len(trace') + 1)
    BY <1>1, AcceptKeepsLines
  <2> QED
    BY <1>1, <2>1, <2>2, <2>3, <2>4 DEF TraceIsRun, Before
<1>6. FiresFirst'
  <2>1. ASSUME NEW k \in 1..n
        PROVE  \E c \in 1..Len(candidates) :
                   /\ candidates[c] = trace'[k].fired
                   /\ \A b \in 1..c - 1 : ~Enabled(net, Before(trace', k), candidates[b])
    <3>1. k \in 1..n + 1 /\ Before(trace', k) = Before(trace, k) /\ trace'[k] = trace[k]
      BY <1>1, <2>1, AcceptKeepsLines
    <3> QED
      BY <2>1, <3>1 DEF IInv, FiresFirst
  <2>2. /\ candidates[next] = trace'[n + 1].fired
        /\ \A b \in 1..next - 1 : ~Enabled(net, Before(trace', n + 1), candidates[b])
    BY <1>1, AcceptKeepsLines DEF IInv, ScanIsFresh, Candidate
  <2>3. \A k \in 1..Len(trace') : k \in 1..n \/ k = n + 1
    BY <1>1, AcceptKeepsLines
  <2> QED
    BY <1>1, <2>1, <2>2, <2>3 DEF FiresFirst, Before
<1>7. HaltedScanned'
  BY DEF Accept, HaltedScanned
<1> QED
  BY <1>3, <1>4, <1>5, <1>6, <1>7 DEF IInv

LEMMA StepRefuse == IInv /\ Refuse => IInv'
<1> SUFFICES ASSUME IInv, Refuse
             PROVE  IInv'
  OBVIOUS
<1>1. /\ net' = net /\ candidates' = candidates
      /\ next \in 1..Len(candidates)
      /\ Len(candidates) \in Nat
  BY DEF IInv, TypeOK, Refuse, net, candidates, IsProgram
<1>2. TypeOK'
  BY <1>1 DEF IInv, TypeOK, Refuse, Line
<1>3. ScanIsFresh'
  BY <1>1 DEF IInv, ScanIsFresh, Refuse, Candidate
<1>4. TraceIsRun' /\ FiresFirst' /\ HaltedScanned'
  BY <1>1 DEF IInv, TraceIsRun, FiresFirst, HaltedScanned, Refuse, Before
<1> QED
  BY <1>2, <1>3, <1>4 DEF IInv

LEMMA StepHalt == IInv /\ (Halt \/ UNCHANGED vars) => IInv'
<1> SUFFICES ASSUME IInv, Halt \/ UNCHANGED vars
             PROVE  IInv'
  OBVIOUS
<1>1. /\ program' = program /\ marking' = marking /\ next' = next /\ trace' = trace
      /\ net' = net /\ candidates' = candidates
      /\ halted' => next > Len(candidates)
      /\ halted' \in BOOLEAN
  <2>1. CASE Halt
    BY <2>1 DEF Halt, net, candidates
  <2>2. CASE UNCHANGED vars
    BY <2>2 DEF vars, net, candidates, IInv, HaltedScanned, TypeOK
  <2> QED
    BY <2>1, <2>2
<1>2. TypeOK'
  BY <1>1 DEF IInv, TypeOK, Line
<1>3. ScanIsFresh' /\ HaltedScanned'
  BY <1>1 DEF IInv, ScanIsFresh, HaltedScanned
<1>4. TraceIsRun' /\ FiresFirst'
  BY <1>1 DEF IInv, TraceIsRun, FiresFirst, Before
<1> QED
  BY <1>2, <1>3, <1>4 DEF IInv

LEMMA Inductive == IInv /\ [Next]_vars => IInv'
BY StepAccept, StepRefuse, StepHalt DEF Next

\* The types are right.
THEOREM TypeCorrect == Spec => []TypeOK
BY Initially, Inductive, PTL DEF Spec, IInv

\* No refusal the scan relies on is stale.
THEOREM ScanNeverStale == Spec => []ScanIsFresh
BY Initially, Inductive, PTL DEF Spec, IInv

\* What is printed is a firing sequence of the net, to the current marking.
THEOREM TraceIsFiringSequence == Spec => []TraceIsRun
BY Initially, Inductive, PTL DEF Spec, IInv

\* Every transition of the net is a candidate.
LEMMA EveryTransitionIsCandidate ==
    ASSUME IInv, NEW t \in Trans(net)
    PROVE  \E c \in 1..Len(candidates) : candidates[c] = t
BY DEF IInv, TypeOK, IsProgram, net, candidates

\* The program stops only where the net does: when it returns the scan has
\* refused every candidate in the marking it returns with.
LEMMA HaltedTerminal == IInv => HaltedAtTerminal
<1> SUFFICES ASSUME IInv, halted, NEW t \in Trans(net)
             PROVE  ~Enabled(net, marking, t)
  BY DEF HaltedAtTerminal, Terminal, EnabledIn
<1>1. PICK c \in 1..Len(candidates) : candidates[c] = t
  BY EveryTransitionIsCandidate
<1>2. c \in 1..next - 1
  BY <1>1 DEF IInv, HaltedScanned, TypeOK, IsProgram, candidates
<1> QED
  BY <1>1, <1>2 DEF IInv, ScanIsFresh

THEOREM StopsAtTerminal == Spec => []HaltedAtTerminal
BY Initially, Inductive, HaltedTerminal, PTL DEF Spec

\* A program with sorted candidates follows the canonical scheduling policy.
LEMMA FirstIsLeast == IInv => FiresLeast
<1> SUFFICES ASSUME IInv, IsSorted(candidates), NEW k \in 1..Len(trace),
                    NEW t \in EnabledIn(net, Before(trace, k))
             PROVE  trace[k].fired <= t
  BY DEF FiresLeast
<1>1. candidates \in Seq(Trans(net)) /\ Trans(net) \subseteq Nat
  BY TransNat DEF IInv, TypeOK, IsProgram, net, candidates
<1>2. PICK c \in 1..Len(candidates) :
          /\ candidates[c] = trace[k].fired
          /\ \A b \in 1..c - 1 : ~Enabled(net, Before(trace, k), candidates[b])
  BY DEF IInv, FiresFirst
<1>3. PICK d \in 1..Len(candidates) : candidates[d] = t
  BY EveryTransitionIsCandidate DEF EnabledIn
<1>4. ~(d < c)
  BY <1>1, <1>2, <1>3 DEF EnabledIn
<1>5. c = d \/ c < d
  BY <1>1, <1>4
<1>6. candidates[c] <= candidates[d]
  BY <1>1, <1>5 DEF IsSorted
<1> QED
  BY <1>2, <1>3, <1>6

THEOREM FollowsPolicy == Spec => []FiresLeast
BY Initially, Inductive, FirstIsLeast, PTL DEF Spec

-----------------------------------------------------------------------------
(* Divergence.  The choice of the loop is a function of the marking, so once *)
(* a marking has come back the current one is always one that was seen.     *)

RepeatStays ==
    Repeats => \E i \in 1..Len(trace) : Before(trace, i) = marking

\* From equal markings the loop fires equal transitions.
LEMMA SameMarkingSameChoice ==
    ASSUME IInv, NEW i \in 1..Len(trace), Before(trace, i) = marking,
           next \in 1..Len(candidates), Enabled(net, marking, Candidate)
    PROVE  trace[i].fired = Candidate
<1>1. PICK c \in 1..Len(candidates) :
          /\ candidates[c] = trace[i].fired
          /\ \A b \in 1..c - 1 : ~Enabled(net, marking, candidates[b])
  BY DEF IInv, FiresFirst
<1>2. Enabled(net, marking, candidates[c])
  BY <1>1 DEF IInv, TraceIsRun
<1>3. Len(candidates) \in Nat
  BY DEF IInv, TypeOK, IsProgram, candidates
<1>4. ~(next < c) /\ ~(c < next)
  BY <1>1, <1>2, <1>3 DEF IInv, ScanIsFresh, Candidate
<1>5. c = next
  BY <1>3, <1>4
<1> QED
  BY <1>1, <1>5 DEF Candidate

LEMMA RepeatStep == IInv /\ RepeatStays /\ [Next]_vars => RepeatStays'
<1> SUFFICES ASSUME IInv, RepeatStays, [Next]_vars
             PROVE  RepeatStays'
  OBVIOUS
<1>1. CASE Refuse \/ Halt \/ UNCHANGED vars
  BY <1>1 DEF Refuse, Halt, vars, RepeatStays, Repeats, Before, net
<1>2. CASE Accept
  <2> DEFINE n == Len(trace)
  <2>1. /\ n \in Nat /\ net' = net
        /\ next \in 1..Len(candidates)
        /\ Enabled(net, marking, Candidate)
        /\ marking' = Fire(net, marking, Candidate)
    BY <1>2 DEF IInv, TypeOK, Accept, net, IsProgram, candidates
  <2>2. SUFFICES ASSUME NEW j \in 1..Len(trace') + 1, NEW k \in 1..Len(trace') + 1,
                        j < k, Before(trace', j) = Before(trace', k)
                 PROVE  \E i \in 1..Len(trace') : Before(trace', i) = marking'
    BY <2>1 DEF RepeatStays, Repeats, Before
  <2>3. CASE k = n + 2
    BY <1>2, <2>1, <2>2, <2>3, AcceptKeepsLines
  <2>4. CASE k # n + 2
    <3>1. j \in 1..n + 1 /\ k \in 1..n + 1
      BY <1>2, <2>1, <2>2, <2>4, AcceptKeepsLines
    <3>2. Before(trace, j) = Before(trace, k)
      BY <1>2, <2>1, <2>2, <3>1, AcceptKeepsLines
    <3>3. PICK i \in 1..n : Before(trace, i) = marking
      BY <2>2, <3>1, <3>2 DEF RepeatStays, Repeats
    <3>4. trace[i].fired = Candidate
      BY <2>1, <3>3, SameMarkingSameChoice
    <3>5. trace[i].marking = marking'
      BY <2>1, <3>3, <3>4 DEF IInv, TraceIsRun
    <3>6. i + 1 \in 1..Len(trace') /\ trace'[i] = trace[i]
      BY <1>2, <2>1, <3>3, AcceptKeepsLines
    <3>7. Before(trace', i + 1) = trace'[i].marking
      BY <2>1, <3>3 DEF Before
    <3> QED
      BY <3>5, <3>6, <3>7
  <2> QED
    BY <2>3, <2>4
<1> QED
  BY <1>1, <1>2 DEF Next

LEMMA RepeatInitially == Init => RepeatStays
<1> SUFFICES ASSUME Init
             PROVE  ~Repeats
  BY DEF RepeatStays
<1>1. Len(trace) = 0
  BY DEF Init
<1> QED
  BY <1>1 DEF Repeats

\* In a marking the loop has fired from, something is enabled.
LEMMA NoReturnAfterRepeat == IInv /\ RepeatStays => HaltedNeverRepeated
<1> SUFFICES ASSUME IInv, RepeatStays, halted, Repeats
             PROVE  FALSE
  BY DEF HaltedNeverRepeated
<1>1. PICK i \in 1..Len(trace) : Before(trace, i) = marking
  BY DEF RepeatStays
<1>2. Enabled(net, marking, trace[i].fired)
  BY <1>1 DEF IInv, TraceIsRun
<1>3. PICK c \in 1..Len(candidates) : candidates[c] = trace[i].fired
  BY DEF IInv, FiresFirst
<1>4. c \in 1..next - 1
  BY <1>3 DEF IInv, HaltedScanned, TypeOK, IsProgram, candidates
<1> QED
  BY <1>2, <1>3, <1>4 DEF IInv, ScanIsFresh

\* A program that returns has never been in a marking twice: a net that comes
\* back to a marking under the policy runs for ever.
THEOREM ReturnsOnlyWithoutRepeat == Spec => []HaltedNeverRepeated
<1>1. IInv /\ RepeatStays /\ [Next]_vars => (IInv /\ RepeatStays)'
  BY Inductive, RepeatStep
<1> QED
  BY <1>1, Initially, RepeatInitially, NoReturnAfterRepeat, PTL DEF Spec

-----------------------------------------------------------------------------
(* The golden trace.                                                        *)

\* No candidate stands in the list twice, so a transition has one position.
LEMMA PositionIs ==
    ASSUME IsProgram(program), NEW c \in 1..Len(candidates)
    PROVE  Position(candidates[c]) = c
<1>1. /\ DOMAIN candidates = 1..Len(candidates)
      /\ \A j, k \in DOMAIN candidates : candidates[j] = candidates[k] => j = k
  BY DEF IsProgram, candidates
<1> DEFINE t == candidates[c]
<1>2. \A k \in DOMAIN candidates : candidates[k] = t <=> k = c
  BY <1>1
<1> HIDE DEF t
<1>3. (CHOOSE k \in DOMAIN candidates : candidates[k] = t) = c
  BY <1>1, <1>2
<1>4. QED
  BY <1>3 DEF Position, t

\* Of the candidates enabled before a line, the one it fires stands first.
LEMMA FiredStandsFirst ==
    ASSUME IInv, NEW k \in 1..Len(trace), NEW t \in Trans(net),
           Enabled(net, Before(trace, k), t), t # trace[k].fired
    PROVE  Position(trace[k].fired) < Position(t)
<1>1. PICK c \in 1..Len(candidates) :
          /\ candidates[c] = trace[k].fired
          /\ \A b \in 1..c - 1 : ~Enabled(net, Before(trace, k), candidates[b])
  BY DEF IInv, FiresFirst
<1>2. PICK d \in 1..Len(candidates) : candidates[d] = t
  BY EveryTransitionIsCandidate
<1>3. Position(trace[k].fired) = c /\ Position(t) = d
  BY <1>1, <1>2, PositionIs DEF IInv, TypeOK
<1>4. Len(candidates) \in Nat
  BY DEF IInv, TypeOK, IsProgram, candidates
<1>5. ~(d < c) /\ d # c
  BY <1>1, <1>2, <1>4
<1>6. c < d
  BY <1>4, <1>5
<1>7. QED
  BY <1>3, <1>6

\* The trace has followed the golden one up to line k.
GoldenUpTo(k) ==
    /\ k - 1 <= Len(trace)
    /\ Before(trace, k) = GoldenMarkings[k]

\* Where a coffee program that has returned has followed the golden trace so far, it
\* has printed another line.
LEMMA GoldenGoesOn ==
    ASSUME IInv, halted, net = CoffeeNet, NEW k \in 1..6, GoldenUpTo(k)
    PROVE  k <= Len(trace)
<1>1. Len(trace) \in Nat
  BY DEF IInv, TypeOK
<1>2. SUFFICES ASSUME Len(trace) = k - 1 PROVE FALSE
  BY <1>1 DEF GoldenUpTo
<1>3. marking = GoldenMarkings[k]
  <2>1. Len(trace) + 1 = k
    BY <1>1, <1>2
  <2>2. QED
    BY <2>1 DEF IInv, TraceIsRun, GoldenUpTo
<1>4. Golden[k] \in 1..6 /\ Enabled(net, marking, Golden[k])
  BY <1>3, GoldenStep
<1>5. Trans(net) = 1..6
  BY CoffeeTable DEF BoilWater, BrewCoffee, Credit, GrindBeans, PourCoffee, Send
<1>6. QED
  BY <1>4, <1>5, HaltedTerminal DEF HaltedAtTerminal, Terminal, EnabledIn

\* A line that follows the golden trace fires the golden transition or one of the few
\* others.
LEMMA GoldenLine ==
    ASSUME IInv, net = CoffeeNet, NEW k \in 1..6, k <= Len(trace), GoldenUpTo(k)
    PROVE  /\ trace[k].fired = Golden[k] => GoldenUpTo(k + 1)
           /\ \/ trace[k].fired = Golden[k]
              \/ k = 1 /\ trace[k].fired \in {GrindBeans, Send}
              \/ k \in {2, 3} /\ trace[k].fired = Send
           /\ trace[k].fired # Golden[k] =>
                 Position(trace[k].fired) < Position(Golden[k])
<1>1. Len(trace) \in Nat /\ k \in 1..Len(trace)
  BY DEF IInv, TypeOK
<1>2. Trans(net) = 1..6
  BY CoffeeTable DEF BoilWater, BrewCoffee, Credit, GrindBeans, PourCoffee, Send
<1>3. /\ Enabled(CoffeeNet, GoldenMarkings[k], trace[k].fired)
      /\ trace[k].marking = Fire(CoffeeNet, GoldenMarkings[k], trace[k].fired)
  BY <1>1 DEF IInv, TraceIsRun, GoldenUpTo
<1>4. trace[k].fired \in 1..6
  <2>1. PICK c \in 1..Len(candidates) : candidates[c] = trace[k].fired
    BY <1>1 DEF IInv, FiresFirst
  <2>2. candidates[c] \in Trans(net)
    BY DEF IInv, TypeOK, IsProgram, candidates, net
  <2>3. QED
    BY <1>2, <2>1, <2>2
<1>5. trace[k].fired = Golden[k] => GoldenUpTo(k + 1)
  <2>1. Before(trace, k + 1) = trace[k].marking
    <3>1. k + 1 # 1 /\ (k + 1) - 1 = k
      OBVIOUS
    <3>2. QED
      BY <3>1 DEF Before
  <2>2. k - 1 <= Len(trace) /\ (k + 1) - 1 <= Len(trace)
    BY <1>1
  <2>3. trace[k].fired = Golden[k] => trace[k].marking = GoldenMarkings[k + 1]
    BY <1>3, GoldenStep
  <2>4. QED
    BY <2>1, <2>2, <2>3 DEF GoldenUpTo
<1>6. \/ trace[k].fired = Golden[k]
      \/ k = 1 /\ trace[k].fired \in {GrindBeans, Send}
      \/ k \in {2, 3} /\ trace[k].fired = Send
  BY <1>3, <1>4, GoldenChoice
<1>7. trace[k].fired # Golden[k] => Position(trace[k].fired) < Position(Golden[k])
  <2>1. Golden[k] \in Trans(net) /\ Enabled(net, Before(trace, k), Golden[k])
    BY <1>2, GoldenStep DEF GoldenUpTo
  <2>2. QED
    BY <1>1, <2>1, FiredStandsFirst
<1>8. QED
  BY <1>5, <1>6, <1>7

\* The positions of the candidates are numbers.
LEMMA PositionNat ==
    ASSUME IInv, NEW t \in Trans(net)
    PROVE  Position(t) \in Nat
<1>1. PICK c \in 1..Len(candidates) : candidates[c] = t
  BY EveryTransitionIsCandidate
<1>2. QED
  BY <1>1, PositionIs DEF IInv, TypeOK

\* With the golden order a returned coffee program has printed the golden trace: at the
\* three lines where something else is enabled, the order puts it later.
LEMMA OrderGivesGolden ==
    ASSUME IInv, halted, net = CoffeeNet, GoldenOrder
    PROVE  Fired = Golden
<1>1. /\ Position(BoilWater) \in Nat /\ Position(GrindBeans) \in Nat
      /\ Position(BrewCoffee) \in Nat /\ Position(Send) \in Nat
  BY CoffeeTable, PositionNat
<1>2. ASSUME NEW k \in 1..6, GoldenUpTo(k)
      PROVE  k <= Len(trace) /\ trace[k].fired = Golden[k] /\ GoldenUpTo(k + 1)
  <2>1. k <= Len(trace)
    BY <1>2, GoldenGoesOn
  <2>2. SUFFICES ASSUME trace[k].fired # Golden[k] PROVE FALSE
    BY <1>2, <2>1, GoldenLine
  <2>3. /\ \/ k = 1 /\ trace[k].fired \in {GrindBeans, Send}
           \/ k \in {2, 3} /\ trace[k].fired = Send
        /\ Position(trace[k].fired) < Position(Golden[k])
    BY <1>2, <2>1, <2>2, GoldenLine
  <2>4. CASE k = 1
    <3>1. Golden[k] = BoilWater
      BY <2>4 DEF Golden
    <3>2. QED
      BY <1>1, <2>3, <2>4, <3>1 DEF GoldenOrder
  <2>5. CASE k = 2
    <3>1. Golden[k] = GrindBeans
      BY <2>5 DEF Golden
    <3>2. QED
      BY <1>1, <2>3, <2>5, <3>1 DEF GoldenOrder
  <2>6. CASE k = 3
    <3>1. Golden[k] = BrewCoffee
      BY <2>6 DEF Golden
    <3>2. QED
      BY <1>1, <2>3, <2>6, <3>1 DEF GoldenOrder
  <2>7. QED
    BY <2>3, <2>4, <2>5, <2>6
<1>3. GoldenUpTo(1)
  BY DEF GoldenUpTo, Before, GoldenMarkings, CoffeeNet, IInv, TypeOK
<1>4. GoldenUpTo(2)
  BY <1>2, <1>3
<1>5. GoldenUpTo(3)
  BY <1>2, <1>4
<1>6. GoldenUpTo(4)
  BY <1>2, <1>5
<1>7. GoldenUpTo(5)
  BY <1>2, <1>6
<1>8. GoldenUpTo(6)
  BY <1>2, <1>7
<1>9. GoldenUpTo(7) /\ 6 <= Len(trace)
  BY <1>2, <1>8
<1>10. \A k \in 1..6 : trace[k].fired = Golden[k]
  <2>1. \A k \in 1..6 : GoldenUpTo(k)
    BY <1>3, <1>4, <1>5, <1>6, <1>7, <1>8
  <2>2. QED
    BY <1>2, <2>1
<1>11. Len(trace) = 6
  <2>1. Len(trace) \in Nat
    BY DEF IInv, TypeOK
  <2>2. SUFFICES ASSUME 7 \in 1..Len(trace) PROVE FALSE
    <3> DEFINE n == Len(trace)
    <3>1. n \in Nat /\ 6 <= n
      BY <1>9, <2>1
    <3> HIDE DEF n
    <3>2. n = 6 \/ 7 \in 1..n
      BY <3>1
    <3>3. QED
      BY <3>2 DEF n
  <2>3. Enabled(CoffeeNet, GoldenMarkings[7], trace[7].fired)
    BY <1>9, <2>2 DEF IInv, TraceIsRun, GoldenUpTo
  <2>4. trace[7].fired \in 1..6
    <3>1. PICK c \in 1..Len(candidates) : candidates[c] = trace[7].fired
      BY <2>2 DEF IInv, FiresFirst
    <3>2. candidates[c] \in Trans(net)
      BY DEF IInv, TypeOK, IsProgram, candidates, net
    <3>3. Trans(net) = 1..6
      BY CoffeeTable DEF BoilWater, BrewCoffee, Credit, GrindBeans, PourCoffee, Send
    <3>4. QED
      BY <3>1, <3>2, <3>3
  <2>5. QED
    BY <2>3, <2>4, GoldenEnd
<1>12. Golden = [k \in 1..6 |-> Golden[k]]
  BY DEF Golden
<1>13. QED
  BY <1>10, <1>11, <1>12 DEF Fired

\* A program that prints the golden trace has the golden order: at each of its first
\* three lines it left something enabled that stands later.
LEMMA GoldenGivesOrder ==
    ASSUME IInv, net = CoffeeNet, Fired = Golden
    PROVE  GoldenOrder
<1>1. Len(trace) = 6 /\ \A k \in 1..6 : trace[k].fired = Golden[k]
  <2>1. DOMAIN Fired = 1..Len(trace) /\ DOMAIN Golden = 1..6 /\ Len(trace) \in Nat
    BY DEF Fired, Golden, IInv, TypeOK
  <2> DEFINE n == Len(trace)
  <2>2. 1..n = 1..6 /\ n \in Nat
    BY <2>1
  <2> HIDE DEF n
  <2>3. n = 6
    <3>1. 6 \in 1..n /\ (n > 6 => 7 \in 1..n)
      BY <2>2
    <3>2. QED
      BY <2>2, <3>1
  <2>4. QED
    BY <2>3 DEF Fired, n
<1>2. GoldenUpTo(1)
  BY <1>1 DEF GoldenUpTo, Before, GoldenMarkings, CoffeeNet
<1>3. GoldenUpTo(2)
  BY <1>1, <1>2, GoldenLine
<1>4. GoldenUpTo(3)
  BY <1>1, <1>3, GoldenLine
<1>5. Trans(net) = {BoilWater, BrewCoffee, Credit, GrindBeans, PourCoffee, Send}
  BY CoffeeTable
<1>6. Position(BoilWater) < Position(GrindBeans)
  <2>1. trace[1].fired = BoilWater /\ BoilWater # GrindBeans
    BY <1>1 DEF Golden, BoilWater, GrindBeans
  <2>2. GrindBeans \in 1..6
    BY DEF GrindBeans
  <2>3. Enabled(net, Before(trace, 1), GrindBeans)
    BY <1>2, <2>2, GoldenChoice DEF GoldenUpTo
  <2>4. QED
    BY <1>1, <1>5, <2>1, <2>3, FiredStandsFirst
<1>7. Position(GrindBeans) < Position(Send)
  <2>1. trace[2].fired = GrindBeans /\ GrindBeans # Send
    BY <1>1 DEF Golden, Send, GrindBeans
  <2>2. Send \in 1..6
    BY DEF Send
  <2>3. Enabled(net, Before(trace, 2), Send)
    BY <1>3, <2>2, GoldenChoice DEF GoldenUpTo
  <2>4. QED
    BY <1>1, <1>5, <2>1, <2>3, FiredStandsFirst
<1>8. Position(BrewCoffee) < Position(Send)
  <2>1. trace[3].fired = BrewCoffee /\ BrewCoffee # Send
    BY <1>1 DEF Golden, Send, BrewCoffee
  <2>2. Send \in 1..6
    BY DEF Send
  <2>3. Enabled(net, Before(trace, 3), Send)
    BY <1>4, <2>2, GoldenChoice DEF GoldenUpTo
  <2>4. QED
    BY <1>1, <1>5, <2>1, <2>3, FiredStandsFirst
<1>9. QED
  BY <1>6, <1>7, <1>8 DEF GoldenOrder

\* Exactly the candidate orders that schedule() is said to need print the golden trace:
\* three comparisons, and no other property of the order matters.
THEOREM GoldenExactlyHolds == Spec => []GoldenExactly
<1>1. IInv => GoldenExactly
  BY OrderGivesGolden, GoldenGivesOrder DEF GoldenExactly
<1>2. QED
  BY <1>1, Initially, Inductive, PTL DEF Spec

-----------------------------------------------------------------------------
\* The loop implements the canonical machine, for every program.
THEOREM ImplementsMachine == Spec => MachineSpec
<1>1. Init => Machine!Init
  BY DEF Init, Machine!Init, ProgramNets, net
<1>2. IInv /\ [Next]_vars => [Machine!Next]_(Machine!vars)
  <2> SUFFICES ASSUME IInv, [Next]_vars
               PROVE  [Machine!Next]_(Machine!vars)
    OBVIOUS
  <2>1. CASE Accept
    <3>1. Candidate \in Trans(net) /\ net' = net
      BY <2>1 DEF IInv, TypeOK, IsProgram, Accept, net, candidates, Candidate
    <3> QED
      BY <2>1, <3>1 DEF Accept, Machine!Next, Machine!FireTransition,
         Enabled, Machine!Enabled, Fire, Machine!Fire, Trans, Machine!Trans
  <2>2. CASE Refuse \/ Halt \/ UNCHANGED vars
    BY <2>2 DEF Refuse, Halt, vars, Machine!vars, net
  <2> QED
    BY <2>1, <2>2 DEF Next
<1> QED
  BY <1>1, <1>2, Initially, Inductive, PTL DEF Spec, MachineSpec, Machine!Spec
=============================================================================
