------------------------------ MODULE Analysis ------------------------------
(* tools/codegen/internal/petri/analysis.go: what ProofView computes of a   *)
(* Model for the Lean template.  Reachable explores the net under the       *)
(* canonical semantics; PInvariants row-reduces the transposed incidence    *)
(* matrix over the rationals, one step for each column, and scales a basis  *)
(* of its null space to primitive integer vectors.                          *)
(*                                                                          *)
(* A Model is a record of lists, as Load returns it: an arc that the file   *)
(* has twice is twice in its list, and counts twice in Incidence.  Places   *)
(* are their positions in m.Places or, for the coffee machine, names; the   *)
(* order of the list is all that the code uses.                             *)
EXTENDS PetriNet, SequencesExt

CONSTANTS Models,       \* the models the analysis may be given
          Widths        \* widths of an integer in bits; 64 in the code

VARIABLES model,        \* the Model; never changes
          width,        \* the width of int64 and int; never changes
          phase,        \* "reach", "reduce", "basis", "view", ...
          all,          \* the markings Reachable has visited
          terminals,    \* its deadlocks, those of them that enable nothing
          unvisited,    \* its frontier, a queue
          matrix,       \* the transposed incidence matrix under reduction
          col,          \* the column that comes next
          pivotCols,    \* the columns with a pivot, by row
          basis,        \* the weights of the invariants
          view          \* the Proof handed to the template

analysisVars == <<model, width, phase, all, terminals, unvisited,
                  matrix, col, pivotCols, basis, view>>

\* A Model as the net it denotes: its lists as sets.
AsNet(m) == [places |-> ToSet(m.places), initial |-> ToSet(m.initial),
             transitions |-> [t \in DOMAIN m.transitions |->
                 [arcs \in DOMAIN m.transitions[t] |-> ToSet(m.transitions[t][arcs])]]]

Net == AsNet(model)
NP == Len(model.places)
NT == Len(model.transitions)

ASSUME ModelsAssumption ==
    \A m \in Models : /\ IsNet(AsNet(m))
                      /\ m.places \in Seq(ToSet(m.places))
                      /\ IsInjective(m.places)
                      /\ m.transitions \in Seq(ToSet(m.transitions))
ASSUME WidthsAssumption == Widths \subseteq Nat \ {0}

-----------------------------------------------------------------------------
(* Arithmetic: big.Rat as reduced fractions, int64 as wrapping integers.    *)

Abs(n) == IF n < 0 THEN -n ELSE n

Divisors(n) == {d \in 1..n : n % d = 0}

GCD(m, n) == IF m = 0 THEN n ELSE IF n = 0 THEN m
             ELSE Max(Divisors(m) \cap Divisors(n))

\* The gcd of the entries of a vector.
Content(w) == FoldLeft(LAMBDA n, i : GCD(n, Abs(i)), 0, w)

LCM(m, n) == m * (n \div GCD(m, n))

\* The fraction n / d in lowest terms.
Rat(n, d) == LET g == GCD(Abs(n), Abs(d)) * (IF d < 0 THEN -1 ELSE 1)
             IN  [num |-> n \div g, den |-> d \div g]

Zero == Rat(0, 1)
One == Rat(1, 1)
Minus(x) == Rat(-x.num, x.den)
Plus(x, y) == Rat(x.num * y.den + y.num * x.den, x.den * y.den)
Times(x, y) == Rat(x.num * y.num, x.den * y.den)
Inv(x) == Rat(x.den, x.num)

\* The sum of the values of f.
SumOf(f) == FoldFunction(+, 0, f)

\* What two's complement keeps of n.
Int64(n) == LET half == 2 ^ (width - 1) IN ((n + half) % (2 * half)) - half

-----------------------------------------------------------------------------
Occurs(list, p) == Cardinality({k \in DOMAIN list : list[k] = p})

\* Incidence: C[p][t].
Incidence(p, t) == Occurs(model.transitions[t].outputs, model.places[p])
                   - Occurs(model.transitions[t].inputs, model.places[p])

AnalysisInit ==
    /\ model \in Models
    /\ width \in Widths
    /\ phase = "reach"
    /\ all = <<>>
    /\ terminals = <<>>
    /\ unvisited = <<ToSet(model.initial)>>
    /\ matrix = <<>>
    /\ col = 1
    /\ pivotCols = <<>>
    /\ basis = <<>>
    /\ view = <<>>

\* The transitions enabled in cur that lead to a marking not met so far, the first
\* of them for each such marking.
Discovers(cur) ==
    {t \in EnabledIn(Net, cur) :
        LET next == Fire(Net, cur, t)
        IN  /\ next \notin ToSet(all) \cup ToSet(unvisited)
            /\ \A u \in EnabledIn(Net, cur) : u < t => Fire(Net, cur, u) # next}

\* One turn of the loop of Reachable.
Visit ==
    /\ phase = "reach"
    /\ unvisited # <<>>
    /\ LET cur == Head(unvisited)
           found == InOrder(Discovers(cur))
       IN  /\ all' = Append(all, cur)
           /\ terminals' = IF Terminal(Net, cur) THEN Append(terminals, cur) ELSE terminals
           /\ unvisited' = Tail(unvisited) \o [k \in DOMAIN found |-> Fire(Net, cur, found[k])]
    /\ UNCHANGED <<model, width, phase, matrix, col, pivotCols, basis, view>>

\* PInvariants starts from A, the transpose of C.
Reached ==
    /\ phase = "reach"
    /\ unvisited = <<>>
    /\ phase' = "reduce"
    /\ matrix' = [t \in 1..NT |-> [p \in 1..NP |-> Rat(Incidence(p, t), 1)]]
    /\ UNCHANGED <<model, width, all, terminals, unvisited, col, pivotCols, basis, view>>

\* x - f * y, column by column.
Combine(x, f, y) == [p \in 1..NP |-> Plus(x[p], Minus(Times(f, y[p])))]

\* Mutant: only the rows below the pivot are cleared.
Eliminate_BelowOnly(row, pr) ==
    LET swapped == [matrix EXCEPT ![row] = matrix[pr], ![pr] = matrix[row]]
        pivot == [p \in 1..NP |-> Times(swapped[row][p], Inv(swapped[row][col]))]
    IN  [r \in 1..NT |-> IF r = row THEN pivot
                         ELSE IF r < row THEN swapped[r]
                         ELSE Combine(swapped[r], swapped[r][col], pivot)]

\* The rows are swapped, the pivot becomes 1 and the rest of the column 0.
Eliminate(row, pr) ==
    LET swapped == [matrix EXCEPT ![row] = matrix[pr], ![pr] = matrix[row]]
        pivot == [p \in 1..NP |-> Times(swapped[row][p], Inv(swapped[row][col]))]
    IN  [r \in 1..NT |-> IF r = row THEN pivot
                         ELSE Combine(swapped[r], swapped[r][col], pivot)]

\* One turn of the loop over the columns.
Reduce ==
    /\ phase = "reduce"
    /\ col <= NP /\ Len(pivotCols) < NT
    /\ LET row == Len(pivotCols) + 1
           candidates == {r \in row..NT : matrix[r][col] # Zero}
       IN  IF candidates = {}
           THEN UNCHANGED <<matrix, pivotCols>>
           ELSE /\ matrix' = Eliminate(row, Min(candidates))
                /\ pivotCols' = Append(pivotCols, col)
    /\ col' = col + 1
    /\ UNCHANGED <<model, width, phase, all, terminals, unvisited, basis, view>>

Reduced ==
    /\ phase = "reduce"
    /\ col > NP \/ Len(pivotCols) = NT
    /\ phase' = "basis"
    /\ UNCHANGED <<model, width, all, terminals, unvisited, matrix, col, pivotCols, basis, view>>

FirstNonZero(w) == Min({k \in DOMAIN w : w[k] # 0} \cup {Len(w) + 1})

\* Mutant: the fractions are scaled by the product of their denominators.
Primitive_NotReduced(y) ==
    LET l == FoldLeft(LAMBDA n, v : n * v.den, 1, y)
        out == [k \in DOMAIN y |-> Int64(y[k].num * (l \div y[k].den))]
        first == FirstNonZero(out)
    IN  IF first <= Len(out) /\ out[first] < 0
        THEN [k \in DOMAIN out |-> Int64(-out[k])] ELSE out

\* The integer vector with gcd 1 along y whose first entry is positive.
Primitive(y) ==
    LET l == FoldLeft(LAMBDA n, v : LCM(n, v.den), 1, y)
        ints == [k \in DOMAIN y |-> y[k].num * (l \div y[k].den)]
        g == Content(ints)
        out == [k \in DOMAIN y |-> Int64(ints[k] \div (IF g = 0 THEN 1 ELSE g))]
        first == FirstNonZero(out)
    IN  IF first <= Len(out) /\ out[first] < 0
        THEN [k \in DOMAIN out |-> Int64(-out[k])] ELSE out

FreeCols == (1..NP) \ ToSet(pivotCols)

\* The null vector with 1 at the free column.
NullVector(free) ==
    [p \in 1..NP |->
        IF p = free THEN One
        ELSE IF p \in FreeCols THEN Zero
        ELSE Minus(matrix[CHOOSE r \in DOMAIN pivotCols : pivotCols[r] = p][free])]

\* The basis, in a stable sort by the first place of a vector.
Basis ==
    /\ phase = "basis"
    /\ LET w == [free \in FreeCols |-> Primitive(NullVector(free))]
           Before(f, g) == \/ FirstNonZero(w[f]) < FirstNonZero(w[g])
                           \/ FirstNonZero(w[f]) = FirstNonZero(w[g]) /\ f < g
           order == SetToSortSeq(FreeCols, Before)
       IN  basis' = [k \in DOMAIN order |-> w[order[k]]]
    /\ phase' = "view"
    /\ UNCHANGED <<model, width, all, terminals, unvisited, matrix, col, pivotCols, view>>

\* Weighted: the sum of the weights of the marked places.
Weighted(w, marking) ==
    FoldSet(LAMBDA p, n : IF model.places[p] \in marking THEN Int64(n + w[p]) ELSE n,
            0, 1..NP)

\* Mutant: the first of the terminals is the final marking.
View_FirstDeadlock ==
    [conflictFree |-> ConflictFree(Net),
     fuel |-> Int64(2 ^ NP),
     reachCount |-> Len(all),
     initial |-> [k \in DOMAIN basis |-> Weighted(basis[k], ToSet(model.initial))],
     final |-> IF terminals # <<>> THEN Head(terminals) ELSE {}]

\* ProofView: the fuel is an int, 1 << |P|; there is a final marking if there is
\* one deadlock, and the template takes an empty one for none.
View == [conflictFree |-> ConflictFree(Net),
         fuel |-> Int64(2 ^ NP),
         reachCount |-> Len(all),
         initial |-> [k \in DOMAIN basis |-> Weighted(basis[k], ToSet(model.initial))],
         final |-> IF Len(terminals) = 1 THEN Head(terminals) ELSE {}]

Show == /\ phase = "view"
        /\ phase' = "shown"
        /\ view' = View
        /\ UNCHANGED <<model, width, all, terminals, unvisited, matrix, col, pivotCols, basis>>

AnalysisNext == Visit \/ Reached \/ Reduce \/ Reduced \/ Basis \/ Show
-----------------------------------------------------------------------------
HasBasis == phase \notin {"reach", "reduce", "basis"}
HasView == HasBasis /\ phase # "view"

\* No arc occurs twice.
SimpleArcs ==
    \A t \in DOMAIN model.transitions : \A arcs \in DOMAIN model.transitions[t] :
        IsInjective(model.transitions[t][arcs])

\* Hadamard's bound on the square of a minor of order r, the rank of the incidence
\* matrix, if the entries are -1, 0 and 1.
Hadamard == LET r == Len(pivotCols) IN IF r = 0 THEN 1 ELSE r ^ r

\* The rank leaves room for the weights; with 64 bits, up to rank 26.
WeightsHaveRoom == SimpleArcs /\ Hadamard < 4 ^ (width - 1)

\* It leaves room for the sum of a weight for each place, too; with 64 bits, at rank
\* 24 for 250 places.
SumsHaveRoom == WeightsHaveRoom /\ NP ^ 2 * Hadamard < 4 ^ (width - 1)

IsNullVector(y) ==
    \A t \in 1..NT : SumOf([p \in 1..NP |-> y[p] * Incidence(p, t)]) = 0

\* y over the basis: its coefficient for a vector w is y / w at the free place of w.
Combination(y, p) ==
    FoldLeft(LAMBDA sum, w :
                 LET free == CHOOSE f \in FreeCols : w[f] # 0
                 IN  Plus(sum, Rat(y[free] * w[p], w[free])),
             Zero, basis)

\* The comment on PInvariants: the vectors are invariants, as many as there are
\* free places, and every other one (here: of entries -1, 0, 1) is a combination
\* of them; no law that the net obeys is missing from the generated theorems.
BasisIsComplete ==
    HasBasis /\ WeightsHaveRoom =>
        /\ Len(basis) = NP - Len(pivotCols)
        /\ \A k \in DOMAIN basis : IsNullVector(basis[k])
        /\ NP <= 4 =>
             \A y \in [1..NP -> -1..1] :
                 IsNullVector(y) => \A p \in 1..NP : Combination(y, p) = Rat(y[p], 1)

\* The weights are primitive, their first is positive, and they are within the
\* bound, so that nothing is lost in the cut to int64; nor is it in the sums of the
\* initial marking.
WeightsFit ==
    HasBasis /\ WeightsHaveRoom =>
        \A k \in DOMAIN basis :
            /\ basis[k] \in [1..NP -> Int]
            /\ Content(basis[k]) = 1
            /\ basis[k][FirstNonZero(basis[k])] > 0
            /\ \A p \in 1..NP : basis[k][p] ^ 2 <= Hadamard
            /\ HasView /\ SumsHaveRoom =>
                 view.initial[k] =
                     SumOf([p \in 1..NP |-> IF model.places[p] \in ToSet(model.initial)
                                            THEN basis[k][p] ELSE 0])
=============================================================================
