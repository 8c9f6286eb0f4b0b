-------------------------- MODULE Generated_proofs --------------------------
(* The generated functions change nothing unless their transition is        *)
(* enabled, and the program they make implements the scheduler loop: proved *)
(* for every set of models and every bound on the lines.  The places of a   *)
(* group may be listed in any order; what the proofs need of the templates  *)
(* is that every test precedes every clear and every clear every mark.      *)
EXTENDS Generated, PetriNet_proofs, FiniteSetTheorems, SequenceTheorems

-----------------------------------------------------------------------------
(* The statement lists.                                                     *)

Tests == {"needs", "refuses"}
Ops == Tests \cup {"clear", "mark"}

\* The statements about the places P.
Stmt(P) == [op : Ops, place : P]

\* The statements op of a group of places.
Group(op, S) == {[op |-> op, place |-> p] : p \in S}

\* Tests are written first, then the clears, then the marks.
Phase(op) == IF op = "mark" THEN 3 ELSE IF op = "clear" THEN 2 ELSE 1

InPhases(B) ==
    \A j, k \in 1..Len(B) : j < k => Phase(B[j].op) <= Phase(B[k].op)

\* SetToSeq lists every element of a finite set.
LEMMA SetListed ==
    ASSUME NEW S, IsFiniteSet(S)
    PROVE  /\ Cardinality(S) \in Nat
           /\ SetToSeq(S) \in [1..Cardinality(S) -> S]
           /\ \A x \in S : \E k \in 1..Cardinality(S) : SetToSeq(S)[k] = x
<1> DEFINE D == 1..Cardinality(S)
<1>1. Cardinality(S) \in Nat /\ ExistsBijection(D, S)
  BY FS_CardinalityType
<1>2. PICK f \in [D -> S] : IsInjective(f)
  BY <1>1 DEF ExistsBijection, Bijection, Injection
<1>3. SetToSeq(S) \in [D -> S] /\ IsInjective(SetToSeq(S))
  BY <1>2 DEF SetToSeq
<1>4. SetToSeq(S) \in Injection(D, S)
  BY <1>3 DEF Injection
<1>5. Cardinality(D) = Cardinality(S)
  BY <1>1, FS_Interval
<1>6. SetToSeq(S) \in Surjection(D, S)
  BY <1>4, <1>5, FS_Injection
<1>7. QED
  BY <1>1, <1>3, <1>6 DEF Surjection

\* A group of statements is the list of its places under one operation.
LEMMA StatementsList ==
    ASSUME NEW P, NEW S \in SUBSET P, IsFiniteSet(S), NEW op \in Ops
    PROVE  /\ Statements(op, S) \in Seq(Stmt(P))
           /\ InPhases(Statements(op, S))
           /\ Range(Statements(op, S)) = Group(op, S)
<1> DEFINE n == Cardinality(S)
           Q == Statements(op, S)
<1>1. n \in Nat /\ \A k \in 1..n : SetToSeq(S)[k] \in S
  BY SetListed
<1>2. Q = [k \in 1..n |-> [op |-> op, place |-> SetToSeq(S)[k]]]
  BY DEF Statements
<1>3. \A x \in S : \E k \in 1..n : SetToSeq(S)[k] = x
  BY SetListed
<1> HIDE DEF n, Q
<1>4. Q \in [1..n -> Stmt(P)]
  BY <1>1, <1>2 DEF Stmt
<1>5. Q \in Seq(Stmt(P)) /\ Len(Q) = n
  BY <1>1, <1>4
<1>6. \A k \in 1..n : Q[k].op = op
  BY <1>2
<1>7. InPhases(Q)
  BY <1>5, <1>6 DEF InPhases, Phase
<1>8. Range(Q) = Group(op, S)
  <2>1. DOMAIN Q = 1..n
    BY <1>2
  <2>2. Range(Q) = {Q[k] : k \in 1..n}
    BY <2>1 DEF Range
  <2>3. \A k \in 1..n : Q[k] \in Group(op, S)
    BY <1>1, <1>2 DEF Group
  <2>4. \A x \in S : \E k \in 1..n : Q[k] = [op |-> op, place |-> x]
    BY <1>2, <1>3
  <2>5. QED
    BY <2>2, <2>3, <2>4 DEF Group
<1>9. QED
  BY <1>5, <1>7, <1>8 DEF Q

\* Lists joined in the order of their phases are in the order of the phases.
LEMMA Joined ==
    ASSUME NEW P, NEW s \in Seq(Stmt(P)), NEW u \in Seq(Stmt(P)),
           InPhases(s), InPhases(u),
           \A a \in Range(s), b \in Range(u) : Phase(a.op) <= Phase(b.op)
    PROVE  /\ s \o u \in Seq(Stmt(P))
           /\ InPhases(s \o u)
           /\ Range(s \o u) = Range(s) \cup Range(u)
<1> DEFINE r == s \o u
<1>1. /\ Len(s) \in Nat /\ Len(u) \in Nat
      /\ DOMAIN s = 1..Len(s) /\ DOMAIN u = 1..Len(u)
  BY LenProperties
<1>2. /\ r \in Seq(Stmt(P)) /\ Len(r) = Len(s) + Len(u)
      /\ \A i \in 1..Len(s) + Len(u) :
            r[i] = IF i <= Len(s) THEN s[i] ELSE u[i - Len(s)]
  BY ConcatProperties
<1>3. DOMAIN r = 1..Len(s) + Len(u)
  BY <1>2, LenProperties
<1> HIDE DEF r
<1>4. /\ Range(s) = {s[i] : i \in 1..Len(s)}
      /\ Range(u) = {u[i] : i \in 1..Len(u)}
      /\ Range(r) = {r[i] : i \in 1..Len(s) + Len(u)}
  BY <1>1, <1>3 DEF Range
<1>5. InPhases(r)
  <2> SUFFICES ASSUME NEW j \in 1..Len(r), NEW k \in 1..Len(r), j < k
               PROVE  Phase(r[j].op) <= Phase(r[k].op)
    BY DEF InPhases
  <2>1. CASE k <= Len(s)
    BY <1>1, <1>2, <2>1 DEF InPhases
  <2>2. CASE j > Len(s)
    <3>1. /\ j - Len(s) \in 1..Len(u) /\ k - Len(s) \in 1..Len(u)
          /\ j - Len(s) < k - Len(s)
          /\ r[j] = u[j - Len(s)] /\ r[k] = u[k - Len(s)]
      BY <1>1, <1>2, <2>2
    <3>2. QED
      BY <3>1 DEF InPhases
  <2>3. CASE j <= Len(s) /\ k > Len(s)
    <3>1. j \in 1..Len(s) /\ k - Len(s) \in 1..Len(u)
      BY <1>1, <1>2, <2>3
    <3>2. r[j] \in Range(s) /\ r[k] \in Range(u)
      BY <1>1, <1>2, <1>4, <2>3, <3>1
    <3>3. QED
      BY <3>2
  <2>4. QED
    BY <1>1, <1>2, <2>1, <2>2, <2>3
<1>6. Range(r) = Range(s) \cup Range(u)
  <2>1. \A i \in 1..Len(s) : i \in 1..Len(s) + Len(u) /\ r[i] = s[i]
    BY <1>1, <1>2
  <2>2. \A i \in 1..Len(u) : /\ Len(s) + i \in 1..Len(s) + Len(u)
                             /\ r[Len(s) + i] = u[i]
    BY <1>1, <1>2
  <2>3. \A i \in 1..Len(s) + Len(u) :
            \/ i \in 1..Len(s) /\ r[i] = s[i]
            \/ i - Len(s) \in 1..Len(u) /\ r[i] = u[i - Len(s)]
    BY <1>1, <1>2
  <2>4. QED
    BY <1>4, <2>1, <2>2, <2>3
<1>7. QED
  BY <1>2, <1>5, <1>6 DEF r

\* The list B, written through phase ph, holds the statements R.
Written(P, B, ph, R) == /\ B \in Seq(Stmt(P))
                        /\ InPhases(B)
                        /\ Range(B) = R
                        /\ \A s \in R : Phase(s.op) <= ph

\* The next group of statements is written behind those before it.
LEMMA GroupWritten ==
    ASSUME NEW P, IsFiniteSet(P), NEW B, NEW ph \in 1..3, NEW R, Written(P, B, ph, R),
           NEW op \in Ops, ph <= Phase(op), NEW S \in SUBSET P
    PROVE  Written(P, B \o Statements(op, S), Phase(op), R \cup Group(op, S))
<1> DEFINE Q == Statements(op, S)
<1>1. IsFiniteSet(S)
  BY FS_Subset
<1>2. Q \in Seq(Stmt(P)) /\ InPhases(Q) /\ Range(Q) = Group(op, S)
  BY <1>1, StatementsList
<1>3. \A s \in Group(op, S) : Phase(s.op) = Phase(op)
  BY DEF Group
<1>4. \A x : Phase(x) \in 1..3
  BY DEF Phase
<1>5. \A s \in R : Phase(s.op) <= Phase(op)
  BY <1>4 DEF Written
<1> HIDE DEF Q
<1>6. \A x \in Range(B), y \in Range(Q) : Phase(x.op) <= Phase(y.op)
  BY <1>2, <1>3, <1>5 DEF Written
<1>7. /\ B \o Q \in Seq(Stmt(P)) /\ InPhases(B \o Q)
      /\ Range(B \o Q) = Range(B) \cup Range(Q)
  BY <1>2, <1>6, Joined DEF Written
<1>8. \A s \in R \cup Group(op, S) : Phase(s.op) <= Phase(op)
  BY <1>3, <1>4, <1>5
<1>9. QED
  BY <1>2, <1>7, <1>8 DEF Written, Q

\* What the function of a transition is made of.
Parts(tr) == Group("needs", tr.inputs \cup tr.guards)
             \cup Group("refuses", tr.blockers \cup tr.outputs)
             \cup Group("clear", tr.inputs)
             \cup Group("mark", tr.outputs)

\* The function of a transition holds the tests, clears and marks of its arcs,
\* in the order of the phases.
LEMMA UnrollShape ==
    ASSUME NEW P, IsFiniteSet(P), NEW tr \in Transition(P)
    PROVE  /\ Unroll(tr) \in Seq(Stmt(P))
           /\ InPhases(Unroll(tr))
           /\ Range(Unroll(tr)) = Parts(tr)
<1> DEFINE a == Statements("needs", tr.inputs)
           b == a \o Statements("needs", tr.guards)
           c == b \o Statements("refuses", tr.blockers)
           d == c \o Statements("refuses", tr.outputs)
           e == d \o Statements("clear", tr.inputs)
           f == e \o Statements("mark", tr.outputs)
           A == Group("needs", tr.inputs)
           B == A \cup Group("needs", tr.guards)
           C == B \cup Group("refuses", tr.blockers)
           D == C \cup Group("refuses", tr.outputs)
           E == D \cup Group("clear", tr.inputs)
           F == E \cup Group("mark", tr.outputs)
<1>1. /\ tr.inputs \in SUBSET P /\ tr.guards \in SUBSET P
      /\ tr.blockers \in SUBSET P /\ tr.outputs \in SUBSET P
  BY DEF Transition
<1>2. /\ "needs" \in Ops /\ Phase("needs") = 1
      /\ "refuses" \in Ops /\ Phase("refuses") = 1
      /\ "clear" \in Ops /\ Phase("clear") = 2
      /\ "mark" \in Ops /\ Phase("mark") = 3
  BY DEF Ops, Tests, Phase
<1>3. Written(P, a, 1, A)
  <2>1. IsFiniteSet(tr.inputs)
    BY <1>1, FS_Subset
  <2>2. a \in Seq(Stmt(P)) /\ InPhases(a) /\ Range(a) = A
    BY <1>1, <1>2, <2>1, StatementsList
  <2>3. \A s \in A : Phase(s.op) <= 1
    BY <1>2 DEF Group
  <2>4. QED
    BY <2>2, <2>3 DEF Written
<1> HIDE DEF a, A
<1>4. Written(P, b, 1, B)
  BY <1>1, <1>2, <1>3, GroupWritten
<1> HIDE DEF b, B
<1>5. Written(P, c, 1, C)
  BY <1>1, <1>2, <1>4, GroupWritten
<1> HIDE DEF c, C
<1>6. Written(P, d, 1, D)
  BY <1>1, <1>2, <1>5, GroupWritten
<1> HIDE DEF d, D
<1>7. Written(P, e, 2, E)
  BY <1>1, <1>2, <1>6, GroupWritten
<1> HIDE DEF e, E
<1>8. Written(P, f, 3, F)
  BY <1>1, <1>2, <1>7, GroupWritten
<1>9. F = Parts(tr)
  <2>1. \A op, x, y : Group(op, x \cup y) = Group(op, x) \cup Group(op, y)
    BY DEF Group
  <2>2. QED
    BY <2>1 DEF Parts, A, B, C, D, E
<1>10. Unroll(tr) = f
  BY DEF Unroll, a, b, c, d, e
<1> HIDE DEF f, F
<1>11. QED
  BY <1>8, <1>9, <1>10 DEF Written
-----------------------------------------------------------------------------
(* What the statements before the next one have done.                       *)

\* The places of the statements op before statement k of B.
Done(B, k, op) == {B[j].place : j \in {i \in 1..k - 1 : B[i].op = op}}

\* Nothing is done before the first statement.
LEMMA NothingDone ==
    ASSUME NEW B, NEW op
    PROVE  Done(B, 1, op) = {}
BY DEF Done

\* One more statement is done.
LEMMA DoneStep ==
    ASSUME NEW B, NEW k \in Nat \ {0}, NEW op
    PROVE  Done(B, k + 1, op) = IF B[k].op = op THEN Done(B, k, op) \cup {B[k].place}
                                                ELSE Done(B, k, op)
<1>1. 1..(k + 1) - 1 = (1..k - 1) \cup {k}
  OBVIOUS
<1>2. {i \in 1..(k + 1) - 1 : B[i].op = op}
        = {i \in 1..k - 1 : B[i].op = op} \cup (IF B[k].op = op THEN {k} ELSE {})
  BY <1>1
<1>3. QED
  BY <1>2 DEF Done

\* Before a test nothing is cleared or marked, before a clear nothing marked.
LEMMA TestsPrecede ==
    ASSUME NEW B, Len(B) \in Nat, InPhases(B), NEW k \in 1..Len(B)
    PROVE  /\ B[k].op \in Tests => Done(B, k, "clear") = {} /\ Done(B, k, "mark") = {}
           /\ B[k].op = "clear" => Done(B, k, "mark") = {}
<1>1. \A j \in 1..k - 1 : j \in 1..Len(B) /\ j < k
  OBVIOUS
<1>2. \A j \in 1..k - 1 : Phase(B[j].op) <= Phase(B[k].op)
  BY <1>1 DEF InPhases
<1>3. CASE B[k].op \in Tests
  <2>1. \A j \in 1..k - 1 : B[j].op # "clear" /\ B[j].op # "mark"
    BY <1>2, <1>3 DEF Phase, Tests
  <2>2. QED
    BY <1>3, <2>1 DEF Done, Tests
<1>4. CASE B[k].op = "clear"
  <2>1. \A j \in 1..k - 1 : B[j].op # "mark"
    BY <1>2, <1>4 DEF Phase
  <2>2. QED
    BY <1>4, <2>1 DEF Done, Tests
<1>5. QED
  BY <1>3, <1>4

\* When something is cleared or marked, or the end is reached, every statement of
\* the groups before is done.
LEMMA AllTested ==
    ASSUME NEW B, Len(B) \in Nat, InPhases(B), NEW k \in 1..Len(B) + 1,
           DOMAIN B = 1..Len(B),
           \/ Done(B, k, "clear") # {}
           \/ Done(B, k, "mark") # {}
           \/ k = Len(B) + 1,
           NEW s \in Range(B), s.op \in Tests
    PROVE  s.place \in Done(B, k, s.op)
<1>1. PICK i \in 1..Len(B) : B[i] = s
  BY DEF Range
<1>2. i <= k - 1
  <2> SUFFICES ASSUME i >= k PROVE FALSE
    OBVIOUS
  <2>1. B[i].op \in Tests
    BY <1>1
  <2>2. Done(B, i, "clear") = {} /\ Done(B, i, "mark") = {}
    BY <2>1, TestsPrecede
  <2>3. Done(B, k, "clear") \subseteq Done(B, i, "clear")
    BY DEF Done
  <2>4. Done(B, k, "mark") \subseteq Done(B, i, "mark")
    BY DEF Done
  <2>5. QED
    BY <2>2, <2>3, <2>4
<1>3. QED
  BY <1>1, <1>2 DEF Done

\* The places of the statements op among R.
PlacesOf(R, op) == {s.place : s \in {r \in R : r.op = op}}

\* At the end every statement is done.
LEMMA AllDone ==
    ASSUME NEW B, Len(B) \in Nat, DOMAIN B = 1..Len(B), NEW op
    PROVE  Done(B, Len(B) + 1, op) = PlacesOf(Range(B), op)
<1>1. 1..(Len(B) + 1) - 1 = 1..Len(B)
  OBVIOUS
<1>2. QED
  BY <1>1 DEF Done, Range, PlacesOf

\* The groups of a function, by operation.
LEMMA PartsOf ==
    ASSUME NEW tr
    PROVE  /\ PlacesOf(Parts(tr), "clear") = tr.inputs
           /\ PlacesOf(Parts(tr), "mark") = tr.outputs
<1>1. ASSUME NEW op, NEW S
      PROVE  /\ \A s \in Group(op, S) : s.op = op /\ s.place \in S
             /\ \A p \in S : \E s \in Group(op, S) : s.op = op /\ s.place = p
  <2>1. \A s \in Group(op, S) : \E p \in S : s = [op |-> op, place |-> p]
    BY DEF Group
  <2>2. \A p \in S : [op |-> op, place |-> p] \in Group(op, S)
    BY DEF Group
  <2>3. \A p : [op |-> op, place |-> p].op = op /\ [op |-> op, place |-> p].place = p
    OBVIOUS
  <2>4. QED
    BY <2>1, <2>2, <2>3
<1>2. /\ \A s \in Parts(tr) : /\ s.op = "clear" => s.place \in tr.inputs
                              /\ s.op = "mark" => s.place \in tr.outputs
      /\ \A p \in tr.inputs : \E s \in Parts(tr) : s.op = "clear" /\ s.place = p
      /\ \A p \in tr.outputs : \E s \in Parts(tr) : s.op = "mark" /\ s.place = p
  <2> DEFINE tests == Group("needs", tr.inputs \cup tr.guards)
                         \cup Group("refuses", tr.blockers \cup tr.outputs)
             clears == Group("clear", tr.inputs)
             marks == Group("mark", tr.outputs)
  <2>1. Parts(tr) = tests \cup clears \cup marks
    BY DEF Parts
  <2>2. \A s \in tests : s.op # "clear" /\ s.op # "mark"
    <3>1. \A s \in Group("needs", tr.inputs \cup tr.guards) : s.op = "needs"
      BY <1>1
    <3>2. \A s \in Group("refuses", tr.blockers \cup tr.outputs) : s.op = "refuses"
      BY <1>1
    <3>3. QED
      BY <3>1, <3>2
  <2>3. /\ \A s \in clears : s.op = "clear" /\ s.place \in tr.inputs
        /\ \A p \in tr.inputs : \E s \in clears : s.op = "clear" /\ s.place = p
    BY <1>1
  <2>4. /\ \A s \in marks : s.op = "mark" /\ s.place \in tr.outputs
        /\ \A p \in tr.outputs : \E s \in marks : s.op = "mark" /\ s.place = p
    BY <1>1
  <2> HIDE DEF tests, clears, marks
  <2>5. QED
    BY <2>1, <2>2, <2>3, <2>4
<1>3. QED
  BY <1>2 DEF PlacesOf

\* Passing every test of a function is being enabled.
LEMMA TestsEnable ==
    ASSUME NEW n, NEW t, NEW c, NEW needs \in SUBSET c, NEW refused, refused \cap c = {},
           \A s \in Parts(n.transitions[t]) :
              /\ s.op = "needs" => s.place \in needs
              /\ s.op = "refuses" => s.place \in refused
    PROVE  Enabled(n, c, t)
<1> DEFINE tr == n.transitions[t]
<1>1. \A op, S : \A p \in S : [op |-> op, place |-> p] \in Group(op, S)
  BY DEF Group
<1>2. \A p \in tr.inputs \cup tr.guards : [op |-> "needs", place |-> p] \in Parts(tr)
  BY <1>1 DEF Parts
<1>3. \A p \in tr.blockers \cup tr.outputs : [op |-> "refuses", place |-> p] \in Parts(tr)
  BY <1>1 DEF Parts
<1>4. /\ \A p \in tr.inputs \cup tr.guards : p \in needs
      /\ \A p \in tr.blockers \cup tr.outputs : p \in refused
  BY <1>2, <1>3
<1>5. QED
  BY <1>4 DEF Enabled

-----------------------------------------------------------------------------
(* The inductive invariant.                                                 *)

Body == code[schedule]

Line == [fired : Nat, marking : SUBSET model.places]

Typing == /\ model \in Models
          /\ code = Emit(model)
          /\ m \in SUBSET model.places
          /\ schedule \in 1..Len(model.transitions) + 1
          /\ schedule <= Len(model.transitions) => pc \in 1..Len(Body) + 1
          /\ trace \in Seq(Line)
          /\ returned \in BOOLEAN
          /\ returned => schedule = Len(model.transitions) + 1

\* The tests that were passed hold in the marking the function was called with,
\* and the marking is that one with the assignments made that were made.
Effect ==
    IF schedule <= Len(model.transitions)
    THEN /\ Done(Body, pc, "needs") \subseteq Called
         /\ Done(Body, pc, "refuses") \cap Called = {}
         /\ m = (Called \ Done(Body, pc, "clear")) \cup Done(Body, pc, "mark")
    ELSE m = Called

IInv == Typing /\ Effect

\* What is known of the code of a model.
LEMMA CodeShape ==
    ASSUME Typing
    PROVE  /\ IsNet(model)
           /\ Len(model.transitions) \in Nat
           /\ Trans(model) = 1..Len(model.transitions)
           /\ Len(code) = Len(model.transitions)
           /\ \A t \in Trans(model) :
                 /\ code[t] = Unroll(model.transitions[t])
                 /\ model.transitions[t] \in Transition(model.places)
                 /\ code[t] \in Seq(Stmt(model.places))
                 /\ Len(code[t]) \in Nat /\ DOMAIN code[t] = 1..Len(code[t])
                 /\ \A k \in 1..Len(code[t]) : code[t][k] \in Stmt(model.places)
                 /\ InPhases(code[t])
                 /\ Range(code[t]) = Parts(model.transitions[t])
<1>1. IsNet(model) /\ IsFiniteSet(model.places)
  BY ModelsAssumption DEF Typing
<1>2. /\ Len(model.transitions) \in Nat
      /\ Trans(model) = 1..Len(model.transitions)
  BY <1>1 DEF IsNet, Trans
<1>3. code = [t \in 1..Len(model.transitions) |-> Unroll(model.transitions[t])]
  BY <1>2 DEF Typing, Emit
<1>4. ASSUME NEW t \in Trans(model)
      PROVE  /\ code[t] = Unroll(model.transitions[t])
             /\ model.transitions[t] \in Transition(model.places)
             /\ code[t] \in Seq(Stmt(model.places))
             /\ Len(code[t]) \in Nat /\ DOMAIN code[t] = 1..Len(code[t])
             /\ \A k \in 1..Len(code[t]) : code[t][k] \in Stmt(model.places)
             /\ InPhases(code[t])
             /\ Range(code[t]) = Parts(model.transitions[t])
  <2>1. model.transitions[t] \in Transition(model.places)
    BY <1>1, TransitionType
  <2>2. code[t] = Unroll(model.transitions[t])
    BY <1>2, <1>3
  <2>3. /\ code[t] \in Seq(Stmt(model.places)) /\ InPhases(code[t])
        /\ Range(code[t]) = Parts(model.transitions[t])
    BY <1>1, <2>1, <2>2, UnrollShape
  <2>4. /\ Len(code[t]) \in Nat /\ DOMAIN code[t] = 1..Len(code[t])
        /\ \A k \in 1..Len(code[t]) : code[t][k] \in Stmt(model.places)
    BY <2>3, LenProperties, ElementOfSeq
  <2>5. QED
    BY <2>1, <2>2, <2>3, <2>4
<1>5. code \in Seq(Seq(Stmt(model.places)))
  <2>1. \A t \in 1..Len(model.transitions) : code[t] \in Seq(Stmt(model.places))
    BY <1>2, <1>4
  <2>2. code \in [1..Len(model.transitions) -> Seq(Stmt(model.places))]
    BY <1>3, <2>1
  <2>3. QED
    BY <1>2, <2>2, SeqDef
<1>6. Len(code) = Len(model.transitions)
  BY <1>2, <1>3, <1>5, LenProperties
<1>7. QED
  BY <1>1, <1>2, <1>4, <1>6

\* Where a call begins, nothing is done.
LEMMA CallBegins ==
    ASSUME Typing, pc = 1, m = Called
    PROVE  Effect
BY NothingDone DEF Effect

\* The program begins with the call of the first function.
LEMMA Initially == Init => IInv
<1> SUFFICES ASSUME Init PROVE IInv
  OBVIOUS
<1>1. IsNet(model)
  BY ModelsAssumption DEF Init
<1>2. /\ Len(model.transitions) \in Nat
      /\ Trans(model) = 1..Len(model.transitions)
  BY <1>1 DEF IsNet, Trans
<1>3. m \in SUBSET model.places /\ m = Called /\ trace \in Seq(Line)
  BY <1>1 DEF Init, IsNet, Called
<1>4. 1 <= Len(model.transitions) => Len(Body) \in Nat
  <2> SUFFICES ASSUME 1 <= Len(model.transitions) PROVE Len(Body) \in Nat
    OBVIOUS
  <2>1. /\ 1 \in Trans(model) /\ IsFiniteSet(model.places)
        /\ Body = Unroll(model.transitions[1])
    BY <1>2, ModelsAssumption DEF Init, Body, Emit
  <2>2. Body \in Seq(Stmt(model.places))
    BY <1>1, <2>1, TransitionType, UnrollShape
  <2>3. QED
    BY <2>2, LenProperties
<1>5. Typing
  <2>1. 1 \in 1..Len(model.transitions) + 1
    BY <1>2
  <2>2. 1 <= Len(model.transitions) => 1 \in 1..Len(Body) + 1
    BY <1>4
  <2>3. QED
    BY <1>3, <2>1, <2>2 DEF Init, Typing
<1>6. QED
  BY <1>3, <1>5, CallBegins DEF Init, IInv
-----------------------------------------------------------------------------
(* The steps.                                                               *)

\* What holds at a statement, and once it is done.
LEMMA AtStatement ==
    ASSUME IInv, Running, pc <= Len(Body)
    PROVE  /\ schedule \in Trans(model) /\ schedule <= Len(model.transitions)
           /\ pc \in 1..Len(Body) /\ Len(Body) \in Nat
           /\ Statement = Body[pc] /\ Statement \in Stmt(model.places)
           /\ Done(Body, pc, "needs") \subseteq Called
           /\ Done(Body, pc, "refuses") \cap Called = {}
           /\ m = (Called \ Done(Body, pc, "clear")) \cup Done(Body, pc, "mark")
           /\ Statement.op \in Tests => m = Called
           /\ Statement.op = "clear" => Done(Body, pc, "mark") = {}
           /\ \A op : Done(Body, pc + 1, op) =
                        IF Statement.op = op THEN Done(Body, pc, op) \cup {Statement.place}
                                             ELSE Done(Body, pc, op)
<1>1. schedule \in Trans(model) /\ schedule <= Len(model.transitions)
  BY CodeShape DEF IInv, Typing, Running
<1>2. /\ Len(Body) \in Nat /\ InPhases(Body)
      /\ \A k \in 1..Len(Body) : Body[k] \in Stmt(model.places)
  BY <1>1, CodeShape DEF IInv, Body
<1>3. pc \in 1..Len(Body)
  BY <1>1, <1>2 DEF IInv, Typing
<1>4. Statement = Body[pc]
  BY DEF Statement, Body
<1>5. /\ Statement.op \in Tests => Done(Body, pc, "clear") = {} /\ Done(Body, pc, "mark") = {}
      /\ Statement.op = "clear" => Done(Body, pc, "mark") = {}
  BY <1>2, <1>3, <1>4, TestsPrecede
<1>6. \A op : Done(Body, pc + 1, op) =
                IF Statement.op = op THEN Done(Body, pc, op) \cup {Statement.place}
                                     ELSE Done(Body, pc, op)
  <2>1. pc \in Nat \ {0}
    BY <1>2, <1>3
  <2>2. QED
    BY <1>4, <2>1, DoneStep
<1>7. /\ Done(Body, pc, "needs") \subseteq Called
      /\ Done(Body, pc, "refuses") \cap Called = {}
      /\ m = (Called \ Done(Body, pc, "clear")) \cup Done(Body, pc, "mark")
  BY <1>1 DEF IInv, Effect
<1>8. QED
  BY <1>1, <1>2, <1>3, <1>4, <1>5, <1>6, <1>7

\* A test that passes holds in the marking the function was called with.
LEMMA PassInv ==
    ASSUME IInv, Pass
    PROVE  IInv'
<1>1. /\ Running /\ pc <= Len(Body) /\ Holds /\ pc' = pc + 1
      /\ model' = model /\ code' = code /\ m' = m /\ schedule' = schedule
      /\ trace' = trace /\ returned' = returned
      /\ Body' = Body /\ Called' = Called /\ Line' = Line
  BY DEF Pass, Body, Called, Line
<1>2. Statement.op \in Tests /\ m = Called
  BY <1>1, AtStatement DEF Holds, Tests
<1>3. Typing'
  BY <1>1, AtStatement DEF IInv, Typing
<1>4. /\ Done(Body, pc + 1, "needs") \subseteq Called
      /\ Done(Body, pc + 1, "refuses") \cap Called = {}
  BY <1>1, <1>2, AtStatement DEF Holds
<1>5. m = (Called \ Done(Body, pc + 1, "clear")) \cup Done(Body, pc + 1, "mark")
  BY <1>1, <1>2, AtStatement DEF Tests
<1>6. Effect'
  BY <1>1, <1>4, <1>5, AtStatement DEF Effect
<1>7. QED
  BY <1>3, <1>6 DEF IInv

\* A test that fails comes before every assignment.
LEMMA ReturnFalseInv ==
    ASSUME IInv, ReturnFalse
    PROVE  IInv'
<1>1. /\ Running /\ pc <= Len(Body) /\ Statement.op \in Tests /\ pc' = 1
      /\ model' = model /\ code' = code /\ m' = m /\ schedule' = schedule + 1
      /\ trace' = trace /\ returned' = returned
      /\ Called' = Called /\ Line' = Line
  BY DEF ReturnFalse, Body, Called, Line, Tests
<1>2. m = Called
  BY <1>1, AtStatement
<1>3. /\ schedule + 1 \in 1..Len(model.transitions) + 1 /\ ~returned
      /\ Len(model.transitions) \in Nat
  BY <1>1, AtStatement, CodeShape DEF IInv, Typing, Running
<1>4. schedule + 1 <= Len(model.transitions) => Len(code[schedule + 1]) \in Nat
  BY <1>3, CodeShape DEF IInv
<1>5. Body' = code[schedule + 1]
  BY <1>1 DEF Body
<1>6. Typing'
  BY <1>1, <1>3, <1>4, <1>5 DEF IInv, Typing
<1>7. Effect'
  BY <1>1, <1>2, NothingDone DEF Effect
<1>8. QED
  BY <1>6, <1>7 DEF IInv

\* An assignment adds its place to what is cleared or marked.
LEMMA AssignInv ==
    ASSUME IInv, Assign
    PROVE  IInv'
<1>1. /\ Running /\ pc <= Len(Body) /\ pc' = pc + 1
      /\ model' = model /\ code' = code /\ schedule' = schedule
      /\ trace' = trace /\ returned' = returned
      /\ Body' = Body /\ Called' = Called /\ Line' = Line
  BY DEF Assign, Body, Called, Line
<1>2. \/ Statement.op = "clear" /\ m' = m \ {Statement.place}
      \/ Statement.op = "mark" /\ m' = m \cup {Statement.place}
  BY DEF Assign
<1>3. Statement.place \in model.places
  BY <1>1, AtStatement DEF Stmt
<1>4. Typing'
  BY <1>1, <1>2, <1>3, AtStatement DEF IInv, Typing
<1>5. /\ Done(Body, pc + 1, "needs") \subseteq Called
      /\ Done(Body, pc + 1, "refuses") \cap Called = {}
  BY <1>1, <1>2, AtStatement
<1>6. m' = (Called \ Done(Body, pc + 1, "clear")) \cup Done(Body, pc + 1, "mark")
  <2>1. CASE Statement.op = "clear"
    BY <1>1, <1>2, <2>1, AtStatement
  <2>2. CASE Statement.op = "mark"
    BY <1>1, <1>2, <2>2, AtStatement
  <2>3. QED
    BY <1>2, <2>1, <2>2
<1>7. Effect'
  BY <1>1, <1>5, <1>6, AtStatement DEF Effect
<1>8. QED
  BY <1>4, <1>7 DEF IInv

\* A function that gets through has passed all its tests and leaves what Fire
\* returns.
LEMMA AtEnd ==
    ASSUME IInv, Running, pc > Len(Body)
    PROVE  /\ schedule \in Trans(model) /\ schedule <= Len(model.transitions)
           /\ Enabled(model, Called, schedule)
           /\ m = Fire(model, Called, schedule)
<1> DEFINE tr == model.transitions[schedule]
<1>1. schedule \in Trans(model) /\ schedule <= Len(model.transitions)
  BY CodeShape DEF IInv, Typing, Running
<1>2. /\ Len(Body) \in Nat /\ InPhases(Body) /\ DOMAIN Body = 1..Len(Body)
      /\ Range(Body) = Parts(tr)
  BY <1>1, CodeShape DEF IInv, Body
<1>3. pc = Len(Body) + 1
  BY <1>1, <1>2 DEF IInv, Typing
<1>4. \A s \in Parts(tr) : /\ s.op = "needs" => s.place \in Done(Body, pc, "needs")
                           /\ s.op = "refuses" => s.place \in Done(Body, pc, "refuses")
  BY <1>2, <1>3, AllTested DEF Tests
<1>5. Done(Body, pc, "clear") = tr.inputs /\ Done(Body, pc, "mark") = tr.outputs
  <2>1. \A op : Done(Body, pc, op) = PlacesOf(Parts(tr), op)
    BY <1>2, <1>3, AllDone
  <2>2. QED
    BY <2>1, PartsOf
<1>6. /\ Done(Body, pc, "needs") \subseteq Called
      /\ Done(Body, pc, "refuses") \cap Called = {}
      /\ m = (Called \ Done(Body, pc, "clear")) \cup Done(Body, pc, "mark")
  BY <1>1 DEF IInv, Effect
<1>7. Enabled(model, Called, schedule)
  BY <1>4, <1>6, TestsEnable
<1>8. QED
  BY <1>1, <1>5, <1>6, <1>7 DEF Fire

\* return true: the marking the function leaves is the one the next is called with.
LEMMA ReturnTrueInv ==
    ASSUME IInv, ReturnTrue
    PROVE  /\ IInv'
           /\ Enabled(model, Called, schedule)
           /\ m = Fire(model, Called, schedule)
           /\ Called' = m
<1>1. /\ Running /\ pc > Len(Body) /\ pc' = 1 /\ schedule' = 1
      /\ model' = model /\ code' = code /\ m' = m /\ returned' = returned
      /\ trace' = Append(trace, [fired |-> schedule, marking |-> m])
      /\ Line' = Line
  BY DEF ReturnTrue, Body, Line
<1>2. /\ schedule \in Trans(model) /\ schedule <= Len(model.transitions)
      /\ Enabled(model, Called, schedule)
      /\ m = Fire(model, Called, schedule)
  BY <1>1, AtEnd
<1>3. [fired |-> schedule, marking |-> m] \in Line
  BY <1>2, CodeShape DEF IInv, Typing, Line
<1>4. /\ trace' \in Seq(Line) /\ trace' # <<>>
      /\ trace'[Len(trace')] = [fired |-> schedule, marking |-> m]
  BY <1>1, <1>3 DEF IInv, Typing
<1>5. Called' = m
  BY <1>4 DEF Called
<1>6. ~returned /\ 1 \in Trans(model) /\ Len(model.transitions) \in Nat
  BY <1>1, <1>2, CodeShape DEF IInv, Typing, Running
<1>7. Body' = code[1] /\ Len(code[1]) \in Nat
  BY <1>1, <1>6, CodeShape DEF IInv, Body
<1>8. Typing'
  BY <1>1, <1>4, <1>6, <1>7 DEF IInv, Typing
<1>9. Effect'
  BY <1>1, <1>5, NothingDone DEF Effect
<1>10. QED
  BY <1>2, <1>5, <1>8, <1>9 DEF IInv

\* The program returns when every function returned false.
LEMMA ReturnInv ==
    ASSUME IInv, Return
    PROVE  IInv'
<1>1. /\ model' = model /\ code' = code /\ m' = m /\ schedule' = schedule
      /\ pc' = pc /\ trace' = trace /\ returned' = TRUE /\ schedule > Len(code)
      /\ Body' = Body /\ Called' = Called /\ Line' = Line
  BY DEF Return, Body, Called, Line
<1>2. schedule = Len(model.transitions) + 1
  BY <1>1, CodeShape DEF IInv, Typing
<1>3. Typing'
  BY <1>1, <1>2 DEF IInv, Typing
<1>4. Effect'
  BY <1>1 DEF IInv, Effect
<1>5. QED
  BY <1>3, <1>4 DEF IInv

\* The invariant is inductive.
LEMMA Inductive == IInv /\ [Next]_vars => IInv'
<1> SUFFICES ASSUME IInv, [Next]_vars PROVE IInv'
  OBVIOUS
<1>1. CASE UNCHANGED vars
  <2>1. /\ model' = model /\ code' = code /\ m' = m /\ schedule' = schedule
        /\ pc' = pc /\ trace' = trace /\ returned' = returned
        /\ Body' = Body /\ Called' = Called /\ Line' = Line
    BY <1>1 DEF vars, Body, Called, Line
  <2>2. QED
    BY <2>1 DEF IInv, Typing, Effect
<1>2. CASE Next
  BY <1>2, PassInv, ReturnFalseInv, AssignInv, ReturnTrueInv, ReturnInv DEF Next
<1>3. QED
  BY <1>1, <1>2

\* The invariant holds throughout.
THEOREM Invariance == Spec => []IInv
BY Initially, Inductive, PTL DEF Spec

-----------------------------------------------------------------------------
\* A call that has changed the marking has passed every test: a disabled transition
\* leaves the marking untouched, and a function that gets through leaves what
\* Fire returns.
THEOREM UntouchedUnlessEnabledHolds == Spec => []UntouchedUnlessEnabled
<1>1. IInv => UntouchedUnlessEnabled
  <2> SUFFICES ASSUME IInv PROVE UntouchedUnlessEnabled
    OBVIOUS
  <2> DEFINE tr == model.transitions[schedule]
  <2>1. ASSUME m # Called
        PROVE  Running /\ Enabled(model, Called, schedule)
    <3>1. schedule <= Len(model.transitions)
      BY <2>1 DEF IInv, Effect
    <3>2. Running /\ schedule \in Trans(model)
      BY <3>1, CodeShape DEF IInv, Typing, Running
    <3>3. /\ Len(Body) \in Nat /\ InPhases(Body) /\ DOMAIN Body = 1..Len(Body)
          /\ Range(Body) = Parts(tr) /\ pc \in 1..Len(Body) + 1
      BY <3>1, <3>2, CodeShape DEF IInv, Typing, Body
    <3>4. /\ Done(Body, pc, "needs") \subseteq Called
          /\ Done(Body, pc, "refuses") \cap Called = {}
          /\ m = (Called \ Done(Body, pc, "clear")) \cup Done(Body, pc, "mark")
      BY <3>1 DEF IInv, Effect
    <3>5. Done(Body, pc, "clear") # {} \/ Done(Body, pc, "mark") # {}
      BY <2>1, <3>4
    <3>6. \A s \in Parts(tr) : /\ s.op = "needs" => s.place \in Done(Body, pc, "needs")
                               /\ s.op = "refuses" => s.place \in Done(Body, pc, "refuses")
      BY <3>3, <3>5, AllTested DEF Tests
    <3>7. QED
      BY <3>2, <3>4, <3>6, TestsEnable
  <2>2. ASSUME Running, pc > Len(code[schedule])
        PROVE  Enabled(model, Called, schedule) /\ m = Fire(model, Called, schedule)
    BY <2>2, AtEnd DEF Body
  <2>3. QED
    BY <2>1, <2>2 DEF UntouchedUnlessEnabled
<1>2. QED
  BY <1>1, Invariance, PTL
-----------------------------------------------------------------------------
(* The program implements the scheduler loop.                               *)

\* The loop's initial state and steps; LoopSpec adds its fairness.
LoopSafety == Loop!Init /\ [][Loop!Next]_(Loop!vars)

\* A statement that fails is a clause of the enablement rule that fails.
LEMMA FailedTest ==
    ASSUME NEW n, NEW t, NEW c, NEW s \in Parts(n.transitions[t]), s.op \in Tests,
           ~ (s.op = "needs" /\ s.place \in c), ~ (s.op = "refuses" /\ s.place \notin c)
    PROVE  ~Enabled(n, c, t)
<1> DEFINE tr == n.transitions[t]
<1>1. \A op, S : \A r \in Group(op, S) : r.op = op /\ r.place \in S
  <2>1. \A op, S : \A r \in Group(op, S) : \E p \in S : r = [op |-> op, place |-> p]
    BY DEF Group
  <2>2. \A op, p : [op |-> op, place |-> p].op = op /\ [op |-> op, place |-> p].place = p
    OBVIOUS
  <2>3. QED
    BY <2>1, <2>2
<1>2. \/ s.op = "needs" /\ s.place \in tr.inputs \cup tr.guards
      \/ s.op = "refuses" /\ s.place \in tr.blockers \cup tr.outputs
  BY <1>1 DEF Parts, Tests
<1>3. QED
  BY <1>2 DEF Enabled

\* The candidates of the loop are the functions of the program, in their order.
LEMMA LoopCandidates ==
    ASSUME IInv
    PROVE  /\ Loop!net = model
           /\ Len(Loop!candidates) = Len(model.transitions)
           /\ schedule \in Trans(model) => Loop!Candidate = schedule
<1>1. Loop!net = model
  BY DEF Loop!net
<1>2. Loop!candidates = [t \in Trans(model) |-> t]
  BY DEF Loop!candidates
<1>3. /\ Trans(model) = 1..Len(model.transitions)
      /\ Len(model.transitions) \in Nat
  BY CodeShape DEF IInv
<1>4. Loop!candidates \in [1..Len(model.transitions) -> Nat]
  BY <1>2, <1>3
<1>5. Loop!candidates \in Seq(Nat)
  BY <1>3, <1>4, SeqDef
<1>6. Len(Loop!candidates) = Len(model.transitions)
  BY <1>3, <1>4, <1>5, LenProperties
<1>7. schedule \in Trans(model) => Loop!Candidate = schedule
  BY <1>2 DEF Loop!Candidate
<1>8. QED
  BY <1>1, <1>6, <1>7

\* A call that returns false is a refusal of the loop.
LEMMA ReturnFalseRefuses ==
    ASSUME IInv, ReturnFalse
    PROVE  Loop!Refuse
<1>1. /\ Running /\ pc <= Len(Body) /\ Statement.op \in Tests /\ ~Holds
      /\ schedule' = schedule + 1
      /\ model' = model /\ trace' = trace /\ returned' = returned
      /\ Called' = Called
  BY DEF ReturnFalse, Body, Called, Tests
<1>2. schedule \in Trans(model) /\ schedule <= Len(model.transitions) /\ m = Called
  BY <1>1, AtStatement
<1>3. Statement \in Parts(model.transitions[schedule])
  <2>1. Statement \in Range(Body)
    <3>1. pc \in 1..Len(Body) /\ Statement = Body[pc]
      BY <1>1, AtStatement
    <3>2. DOMAIN Body = 1..Len(Body)
      BY <1>2, CodeShape DEF IInv, Body
    <3>3. QED
      BY <3>1, <3>2 DEF Range
  <2>2. QED
    BY <1>2, <2>1, CodeShape DEF IInv, Body
<1>4. ~Enabled(model, Called, schedule)
  BY <1>1, <1>2, <1>3, FailedTest DEF Holds
<1>5. ~Loop!Enabled(Loop!net, Called, Loop!Candidate)
  BY <1>2, <1>4, LoopCandidates DEF Loop!Enabled, Enabled
<1>6. ~returned /\ schedule <= Len(Loop!candidates)
  BY <1>1, <1>2, LoopCandidates DEF Running
<1>7. QED
  BY <1>1, <1>5, <1>6 DEF Loop!Refuse, Trans

\* A call that returns true is a firing of the loop.
LEMMA ReturnTrueAccepts ==
    ASSUME IInv, ReturnTrue
    PROVE  Loop!Accept
<1>1. /\ Running /\ pc > Len(Body) /\ Len(trace) < MaxSteps /\ schedule' = 1
      /\ model' = model /\ m' = m /\ returned' = returned
      /\ trace' = Append(trace, [fired |-> schedule, marking |-> m])
  BY DEF ReturnTrue, Body
<1>2. /\ Enabled(model, Called, schedule) /\ Called' = m
      /\ m = Fire(model, Called, schedule)
  BY ReturnTrueInv
<1>3. schedule \in Trans(model) /\ schedule <= Len(model.transitions)
  BY <1>1, AtEnd
<1>4. /\ Loop!Enabled(Loop!net, Called, Loop!Candidate)
      /\ Called' = Loop!Fire(Loop!net, Called, Loop!Candidate)
      /\ Loop!Candidate = schedule
  BY <1>2, <1>3, LoopCandidates DEF Loop!Enabled, Enabled, Loop!Fire, Fire
<1>5. ~returned /\ schedule <= Len(Loop!candidates)
  BY <1>1, <1>3, LoopCandidates DEF Running
<1>6. QED
  BY <1>1, <1>2, <1>4, <1>5 DEF Loop!Accept, Trans

\* The generated program implements the scheduler loop over its model: statements
\* inside a call are invisible, a call takes effect when it returns.
THEOREM ImplementsLoop == Spec => LoopSafety
<1>1. Init => Loop!Init
  BY DEF Init, Loop!Init, SortedPrograms, Called
<1>2. IInv /\ [Next]_vars => [Loop!Next]_(Loop!vars)
  <2> SUFFICES ASSUME IInv, [Next]_vars
               PROVE  [Loop!Next]_(Loop!vars)
    OBVIOUS
  <2>1. CASE Pass \/ Assign \/ UNCHANGED vars
    <3>1. /\ model' = model /\ Called' = Called /\ schedule' = schedule
          /\ trace' = trace /\ returned' = returned
      BY <2>1 DEF Pass, Assign, vars, Called
    <3>2. QED
      BY <3>1 DEF Loop!vars, Trans
  <2>2. CASE ReturnFalse
    BY <2>2, ReturnFalseRefuses DEF Loop!Next
  <2>3. CASE ReturnTrue
    BY <2>3, ReturnTrueAccepts DEF Loop!Next
  <2>4. CASE Return
    <3>1. schedule > Len(Loop!candidates)
      BY <2>4, CodeShape, LoopCandidates DEF IInv, Return
    <3>2. /\ model' = model /\ Called' = Called /\ schedule' = schedule
          /\ trace' = trace /\ ~returned /\ returned' = TRUE
      BY <2>4 DEF Return, Called
    <3>3. QED
      BY <3>1, <3>2 DEF Loop!Next, Loop!Halt, Trans
  <2>5. QED
    BY <2>1, <2>2, <2>3, <2>4 DEF Next
<1>3. QED
  BY <1>1, <1>2, Invariance, PTL DEF Spec, LoopSafety
=============================================================================
