-------------------------- MODULE ProofForm_proofs --------------------------
(* Proofs about the two proof forms: ProofForm, for every set of nets        *)
(* without inhibitor arcs and every order in which the frontier is taken;   *)
(* LeanForm, for every model and width; and the two side by side.           *)
EXTENDS ProofForm, LeanForm, PetriNet_proofs, SequenceTheorems

-----------------------------------------------------------------------------
(* Counts.                                                                  *)

\* Firing an enabled transition leads from counts to counts.
LEMMA PTFireType ==
    ASSUME NEW n, IsNet(n), NEW m \in Markings(n), NEW t \in PTEnabledIn(n, m)
    PROVE  PTFire(n, m, t) \in Markings(n)
<1>1. n.transitions[t].inputs \subseteq n.places
  BY TransitionType DEF PTEnabledIn, Transition
<1> QED
  BY <1>1 DEF PTFire, PTEnabledIn, PTEnabled, Markings

\* So does every enabled transition.
LEMMA SuccessorsType ==
    ASSUME NEW n, IsNet(n), NEW m \in Markings(n)
    PROVE  Successors(n, m) \subseteq Markings(n)
BY PTFireType DEF Successors

\* The initial marking is counts.
LEMMA InitialTokensType ==
    ASSUME NEW n
    PROVE  InitialTokens(n) \in Markings(n)
BY DEF InitialTokens, Markings

\* One firing adds at most one token to a place.
LEMMA SuccessorsOfOneSafe ==
    ASSUME NEW n, NEW m \in Markings(n), OneSafe(n, m), NEW s \in Successors(n, m)
    PROVE  \A p \in n.places : s[p] <= 2
<1>1. PICK t \in PTEnabledIn(n, m) : s = PTFire(n, m, t)
  BY DEF Successors
<1> QED
  BY <1>1 DEF PTFire, OneSafe, Markings
-----------------------------------------------------------------------------
(* The inductive invariant.                                                 *)

\* A verdict in favour was given when nothing was left to expand, and the run
\* that follows it never leaves what was seen.
VerdictInv == Accepted => frontier = {} /\ OutcomeIsServed

\* The whole of it.
IInv == /\ SearchInv
        /\ InitialTokens(net) \in seen
        /\ SearchIsBounded
        /\ tokens \in seen
        /\ VerdictInv

\* It holds initially.
LEMMA Initially == Init => IInv
<1> SUFFICES ASSUME Init
             PROVE  IInv
  OBVIOUS
<1>1. TypeOK
  BY NetsAssumption, InitialTokensType DEF Init, TypeOK
<1>2. SearchIsBounded
  BY DEF Init, SearchIsBounded, InitialTokens
<1> QED
  BY <1>1, <1>2 DEF Init, IInv, SearchInv, Expanded, VerdictInv, Accepted

\* A marking is expanded: it is 1-safe, its successors are seen from now on, and
\* it is recorded if it is a deadlock; nobody else leaves the frontier.
LEMMA ExpandKeeps ==
    ASSUME IInv, NEW m \in frontier, Expand(m)
    PROVE  IInv'
<1>1. m \in seen /\ m \in Markings(net)
  BY DEF IInv, SearchInv, TypeOK
<1>2. Successors(net, m) \subseteq Markings(net)
  BY <1>1, SuccessorsType DEF IInv, SearchInv, TypeOK
<1>3. TypeOK'
  BY <1>1, <1>2 DEF IInv, SearchInv, TypeOK, Expand
<1>4. Expanded'
  <2> SUFFICES ASSUME NEW k \in seen', k \notin frontier'
               PROVE  /\ OneSafe(net, k)
                      /\ Successors(net, k) \subseteq seen'
                      /\ IsDeadlock(net, k) => k \in deadlocks'
    BY DEF Expanded, Expand
  <2>1. CASE k = m
    BY <2>1 DEF Expand
  <2>2. CASE k # m
    <3>1. k \in seen \ frontier
      BY <2>2 DEF Expand
    <3>2. pc # "failed"
      BY DEF Expand
    <3> QED
      BY <3>1, <3>2 DEF IInv, SearchInv, Expanded, Expand
  <2> QED
    BY <2>1, <2>2
<1>5. SearchIsBounded'
  BY <1>1, SuccessorsOfOneSafe DEF IInv, SearchIsBounded, Expand
<1>6. VerdictInv'
  BY DEF VerdictInv, Accepted, Expand
<1> QED
  BY <1>3, <1>4, <1>5, <1>6 DEF IInv, SearchInv, Expand

\* The search gives up at a marking that is not 1-safe.
LEMMA RejectKeeps ==
    ASSUME IInv, NEW m \in frontier, RejectUnsafe(m)
    PROVE  IInv'
BY DEF IInv, SearchInv, TypeOK, Expanded, SearchIsBounded, VerdictInv, Accepted,
   RejectUnsafe

\* The frontier is empty: the verdict.
LEMMA ConcludeKeeps ==
    ASSUME IInv, Conclude
    PROVE  IInv'
<1>1. TypeOK'
  BY DEF IInv, SearchInv, TypeOK, Conclude
<1>2. Expanded'
  BY DEF IInv, SearchInv, Expanded, Conclude
<1>3. VerdictInv'
  BY DEF VerdictInv, Accepted, OutcomeIsServed, Conclude
<1> QED
  BY <1>1, <1>2, <1>3 DEF IInv, SearchInv, SearchIsBounded, Conclude

\* What is accepted is closed: a step of the run leads to a marking seen.
LEMMA RunStepKeeps ==
    ASSUME IInv, NEW t \in Trans(net), RunStep(t)
    PROVE  IInv'
<1>1. Accepted /\ pc # "failed"
  BY DEF RunStep, Accepted
<1>2. tokens \in seen \ frontier
  BY <1>1 DEF IInv, VerdictInv
<1>3. tokens' \in Successors(net, tokens)
  BY DEF RunStep, Successors, PTEnabledIn
<1>4. tokens' \in seen
  BY <1>1, <1>2, <1>3 DEF IInv, SearchInv, Expanded
<1>5. TypeOK'
  BY <1>4 DEF IInv, SearchInv, TypeOK, RunStep
<1>6. Expanded'
  BY DEF IInv, SearchInv, Expanded, RunStep
<1>7. VerdictInv'
  BY DEF IInv, VerdictInv, Accepted, OutcomeIsServed, RunStep
<1> QED
  BY <1>4, <1>5, <1>6, <1>7 DEF IInv, SearchInv, SearchIsBounded, RunStep

\* The run has come to a deadlock.
LEMMA RunEndKeeps ==
    ASSUME IInv, RunEnd
    PROVE  IInv'
<1>1. VerdictInv'
  BY DEF IInv, VerdictInv, Accepted, OutcomeIsServed, RunEnd
<1>2. Expanded'
  BY DEF IInv, SearchInv, Expanded, RunEnd
<1> QED
  BY <1>1, <1>2 DEF IInv, SearchInv, TypeOK, SearchIsBounded, RunEnd

\* Every step keeps it.
LEMMA Inductive == IInv /\ [Next]_vars => IInv'
<1> SUFFICES ASSUME IInv, [Next]_vars
             PROVE  IInv'
  OBVIOUS
<1>1. CASE Verify
  BY <1>1, ExpandKeeps, RejectKeeps, ConcludeKeeps DEF Verify
<1>2. CASE Run
  BY <1>2, RunStepKeeps, RunEndKeeps DEF Run
<1>3. CASE UNCHANGED vars
  BY <1>3 DEF vars, IInv, SearchInv, TypeOK, Expanded, SearchIsBounded, VerdictInv,
     Accepted, OutcomeIsServed
<1> QED
  BY <1>1, <1>2, <1>3 DEF Next
-----------------------------------------------------------------------------
(* The verdict.                                                             *)

\* What is expanded is 1-safe, has its successors seen and its deadlocks recorded.
THEOREM SearchIsSound == Spec => []SearchInv
BY Initially, Inductive, PTL DEF Spec, IInv

\* A place of a marking that is seen holds two tokens at most.
THEOREM SearchStaysBounded == Spec => []SearchIsBounded
BY Initially, Inductive, PTL DEF Spec, IInv

\* An accepted net has been explored completely.
LEMMA AcceptedIsProof == IInv => VerdictIsProof
<1> SUFFICES ASSUME IInv, Accepted, NEW m \in seen
             PROVE  /\ OneSafe(net, m)
                    /\ Successors(net, m) \subseteq seen
                    /\ IsDeadlock(net, m) => Support(net, m) = Served
  BY DEF VerdictIsProof, IInv
<1>1. m \in seen \ frontier /\ pc # "failed"
  BY DEF IInv, VerdictInv, Accepted
<1>2. /\ OneSafe(net, m)
      /\ Successors(net, m) \subseteq seen
      /\ IsDeadlock(net, m) => m \in deadlocks
  BY <1>1 DEF IInv, SearchInv, Expanded
<1>3. PICK d \in deadlocks : deadlocks = {d} /\ Support(net, d) = Served
  BY DEF IInv, VerdictInv, OutcomeIsServed
<1> QED
  BY <1>2, <1>3

\* A verdict in favour is a proof, for every net and every frontier order.
THEOREM VerdictsAreProofs == Spec => []VerdictIsProof
BY Initially, Inductive, AcceptedIsProof, PTL DEF Spec

\* The run that follows stays inside what was verified.
THEOREM RunNeverLeaves == Spec => []RunStaysVerified
<1>1. IInv => RunStaysVerified
  BY DEF IInv, RunStaysVerified
<1> QED
  BY <1>1, Initially, Inductive, PTL DEF Spec
-----------------------------------------------------------------------------
(* Counts against sets.                                                     *)

\* In a 1-safe marking whose successors are 1-safe, a transition that is enabled by
\* the counts has its outputs clear: one of them marked would then hold two tokens.
LEMMA OutputsAreClear ==
    ASSUME NEW n, IsNet(n), NoSelfLoops(n),
           NEW m \in Markings(n), NEW t \in Trans(n), PTEnabled(n, m, t),
           OneSafe(n, PTFire(n, m, t))
    PROVE  n.transitions[t].outputs \cap Support(n, m) = {}
<1> SUFFICES ASSUME NEW p \in n.transitions[t].outputs, p \in Support(n, m)
             PROVE  FALSE
  OBVIOUS
<1>1. p \in n.places /\ p \notin n.transitions[t].inputs /\ m[p] \in Nat /\ m[p] > 0
  BY DEF NoSelfLoops, Support, Markings
<1>2. PTFire(n, m, t)[p] = m[p] + 1
  BY <1>1 DEF PTFire
<1> QED
  BY <1>1, <1>2 DEF OneSafe

\* Under the same conditions the two semantics agree on what is enabled ...
LEMMA SameEnabled ==
    ASSUME NEW n, IsNet(n), NoSelfLoops(n), NoBlockers(n),
           NEW m \in Markings(n), NEW t \in Trans(n),
           PTEnabled(n, m, t) => OneSafe(n, PTFire(n, m, t))
    PROVE  PTEnabled(n, m, t) <=> Enabled(n, Support(n, m), t)
<1>1. /\ n.transitions[t].inputs \subseteq n.places
      /\ n.transitions[t].guards \subseteq n.places
  BY TransitionType DEF Transition
<1>2. \A p \in n.places : m[p] >= 1 <=> p \in Support(n, m)
  BY DEF Support, Markings
<1>3. n.transitions[t].blockers = {}
  BY DEF NoBlockers
<1>4. PTEnabled(n, m, t) <=> /\ n.transitions[t].inputs \subseteq Support(n, m)
                             /\ n.transitions[t].guards \subseteq Support(n, m)
  BY <1>1, <1>2 DEF PTEnabled
<1> QED
  BY <1>3, <1>4, OutputsAreClear DEF Enabled

\* ... and on what a firing does.
LEMMA SameFire ==
    ASSUME NEW n, IsNet(n), NoSelfLoops(n),
           NEW m \in Markings(n), OneSafe(n, m), NEW t \in Trans(n), PTEnabled(n, m, t)
    PROVE  Support(n, PTFire(n, m, t)) = Fire(n, Support(n, m), t)
<1>1. /\ n.transitions[t].inputs \subseteq n.places
      /\ n.transitions[t].outputs \subseteq n.places
  BY TransitionType DEF Transition
<1> SUFFICES ASSUME NEW p \in n.places
             PROVE  PTFire(n, m, t)[p] > 0 <=> p \in Fire(n, Support(n, m), t)
  BY <1>1 DEF Support, Fire
<1>2. m[p] \in Nat /\ m[p] <= 1
  BY DEF Markings, OneSafe
<1>3. CASE p \in n.transitions[t].inputs
  <2>1. p \notin n.transitions[t].outputs /\ m[p] = 1
    BY <1>2, <1>3 DEF NoSelfLoops, PTEnabled
  <2> QED
    BY <1>3, <2>1 DEF PTFire, Fire, Support
<1>4. CASE p \notin n.transitions[t].inputs
  BY <1>2, <1>4 DEF PTFire, Fire, Support
<1> QED
  BY <1>3, <1>4

\* Once a net is accepted, the clause decides nothing.
LEMMA AcceptedIsRedundant == IInv => ClauseIsRedundant
<1> SUFFICES ASSUME IInv, Accepted, NoSelfLoops(net),
                    NEW m \in seen, NEW t \in Trans(net)
             PROVE  /\ PTEnabled(net, m, t) <=> Enabled(net, Support(net, m), t)
                    /\ PTEnabled(net, m, t) =>
                         Support(net, PTFire(net, m, t)) = Fire(net, Support(net, m), t)
  BY DEF ClauseIsRedundant
<1>1. VerdictIsProof
  BY AcceptedIsProof
<1>2. m \in Markings(net) /\ IsNet(net) /\ NoBlockers(net)
  BY DEF IInv, SearchInv, TypeOK
<1>3. OneSafe(net, m)
  BY <1>1 DEF VerdictIsProof
<1>4. PTEnabled(net, m, t) => OneSafe(net, PTFire(net, m, t))
  <2>1. PTEnabled(net, m, t) => PTFire(net, m, t) \in Successors(net, m)
    BY DEF Successors, PTEnabledIn
  <2> QED
    BY <1>1, <2>1 DEF VerdictIsProof
<1> QED
  BY <1>2, <1>3, <1>4, SameEnabled, SameFire

\* Claim 1 of the proof form, for every net it accepts.
THEOREM ClauseNeverDecides == Spec => []ClauseIsRedundant
BY Initially, Inductive, AcceptedIsRedundant, PTL DEF Spec

\* The program that was verified is a run of the canonical machine on sets.
THEOREM ImplementsMachine == Spec => RunIsMachine
<1>1. IInv /\ [Next]_vars
      => [NoSelfLoops(net) => Machine!Next \/ UNCHANGED Machine!vars]_vars
  <2> SUFFICES ASSUME IInv, Next, NoSelfLoops(net)
               PROVE  Machine!Next \/ UNCHANGED Machine!vars
    OBVIOUS
  <2>1. CASE UNCHANGED <<net, tokens>>
    BY <2>1 DEF Machine!vars
  <2>2. ASSUME NEW t \in Trans(net), RunStep(t)
        PROVE  Machine!Next
    <3>1. Accepted /\ tokens \in seen
      BY <2>2 DEF IInv, RunStep, Accepted
    <3>2. /\ Enabled(net, Support(net, tokens), t)
          /\ Support(net, tokens') = Fire(net, Support(net, tokens), t)
      BY <2>2, <3>1, AcceptedIsRedundant DEF ClauseIsRedundant, RunStep
    <3> QED
      BY <2>2, <3>2 DEF RunStep, Machine!Next, Machine!FireTransition, Enabled,
         Machine!Enabled, Fire, Machine!Fire, Trans, Machine!Trans
  <2> QED
    BY <2>1, <2>2 DEF Next, Verify, Run, Expand, RejectUnsafe, Conclude, RunEnd
<1> QED
  BY <1>1, Initially, Inductive, PTL DEF Spec, RunIsMachine
-----------------------------------------------------------------------------
(* The verdict is exact.                                                    *)

\* C holds the initial counts and every successor of its members.
PTStable(n, C) ==
    /\ InitialTokens(n) \in C
    /\ \A m \in C : Successors(n, m) \subseteq C

\* The least such set of counts: what the net can reach when nothing limits it.
PTReachable(n) ==
    {m \in Markings(n) : \A C \in SUBSET Markings(n) : PTStable(n, C) => m \in C}

\* The reachable counts are such a set themselves.
LEMMA PTReachableStable ==
    ASSUME NEW n, IsNet(n)
    PROVE  PTStable(n, PTReachable(n))
<1>1. InitialTokens(n) \in PTReachable(n)
  BY InitialTokensType DEF PTReachable, PTStable
<1>2. ASSUME NEW m \in PTReachable(n), NEW s \in Successors(n, m)
      PROVE  s \in PTReachable(n)
  <2>1. s \in Markings(n)
    BY <1>2, SuccessorsType DEF PTReachable
  <2>2. ASSUME NEW C \in SUBSET Markings(n), PTStable(n, C)
        PROVE  s \in C
    <3>1. m \in C
      BY <2>2 DEF PTReachable
    <3>2. QED
      BY <2>2, <3>1 DEF PTStable
  <2>3. QED
    BY <2>1, <2>2 DEF PTReachable
<1>3. QED
  BY <1>1, <1>2 DEF PTStable

\* What the verdict is about: the net is 1-safe and stops in the served coffee alone.
Sound(n) ==
    /\ \A m \in PTReachable(n) : OneSafe(n, m)
    /\ \E d \in PTReachable(n) :
          /\ {m \in PTReachable(n) : IsDeadlock(n, m)} = {d}
          /\ Support(n, d) = Served

\* Everything seen is reachable, and what is recorded is a deadlock; and a refusal
\* has a reason.
ExactInv ==
    /\ seen \subseteq PTReachable(net)
    /\ deadlocks \subseteq {m \in seen : IsDeadlock(net, m)}
    /\ pc = "failed" => ~Sound(net)

\* An empty frontier: what has been seen is what is reachable, and what is recorded
\* are its deadlocks.
LEMMA ExhaustedIsExact ==
    ASSUME IInv, ExactInv, frontier = {}, pc # "failed"
    PROVE  /\ seen = PTReachable(net)
           /\ deadlocks = {m \in PTReachable(net) : IsDeadlock(net, m)}
           /\ \A m \in PTReachable(net) : OneSafe(net, m)
<1>1. \A m \in seen : /\ OneSafe(net, m)
                      /\ Successors(net, m) \subseteq seen
                      /\ IsDeadlock(net, m) => m \in deadlocks
  BY DEF IInv, SearchInv, Expanded
<1>2. PTStable(net, seen) /\ seen \in SUBSET Markings(net)
  BY <1>1 DEF PTStable, IInv, SearchInv, TypeOK
<1>3. PTReachable(net) \subseteq seen
  BY <1>2 DEF PTReachable
<1>4. seen = PTReachable(net)
  BY <1>3 DEF ExactInv
<1>5. QED
  BY <1>1, <1>4 DEF ExactInv

\* Every step keeps the bookkeeping exact.
LEMMA ExactStep == IInv /\ ExactInv /\ [Next]_vars => ExactInv'
<1> SUFFICES ASSUME IInv, ExactInv, [Next]_vars PROVE ExactInv'
  OBVIOUS
<1>1. IsNet(net) /\ frontier \subseteq seen
  BY DEF IInv, SearchInv, TypeOK
<1>2. ASSUME NEW m \in frontier, Expand(m)
      PROVE  ExactInv'
  <2>1. m \in seen /\ m \in PTReachable(net)
    BY <1>1 DEF ExactInv
  <2>2. Successors(net, m) \subseteq PTReachable(net)
    BY <1>1, <2>1, PTReachableStable DEF PTStable
  <2>3. net' = net /\ seen' = seen \cup Successors(net, m) /\ pc' = "verify"
    BY <1>2 DEF Expand
  <2>4. deadlocks' \subseteq {k \in seen' : IsDeadlock(net, k)}
    BY <1>2, <2>1 DEF Expand, ExactInv
  <2>5. QED
    BY <2>2, <2>3, <2>4 DEF ExactInv
<1>3. ASSUME NEW m \in frontier, RejectUnsafe(m)
      PROVE  ExactInv'
  <2>1. m \in PTReachable(net) /\ ~OneSafe(net, m)
    BY <1>1, <1>3 DEF ExactInv, RejectUnsafe
  <2>2. ~Sound(net)
    BY <2>1 DEF Sound
  <2>3. QED
    BY <1>3, <2>2 DEF ExactInv, RejectUnsafe
<1>4. CASE Conclude
  <2>1. /\ deadlocks = {m \in PTReachable(net) : IsDeadlock(net, m)}
        /\ UNCHANGED <<net, seen, deadlocks>>
        /\ pc' = IF OutcomeIsServed THEN "run" ELSE "failed"
    BY <1>4, ExhaustedIsExact DEF Conclude
  <2>2. ~OutcomeIsServed => ~Sound(net)
    BY <2>1 DEF Sound, OutcomeIsServed
  <2>3. QED
    BY <2>1, <2>2 DEF ExactInv
<1>5. CASE Run \/ UNCHANGED vars
  <2>1. UNCHANGED <<net, seen, deadlocks>> /\ (pc' = "failed" => pc = "failed")
    BY <1>5 DEF Run, RunStep, RunEnd, vars
  <2>2. QED
    BY <2>1 DEF ExactInv
<1>6. QED
  BY <1>2, <1>3, <1>4, <1>5 DEF Next, Verify

\* It holds initially.
LEMMA ExactInitially == Init => ExactInv
<1> SUFFICES ASSUME Init PROVE ExactInv
  OBVIOUS
<1>1. InitialTokens(net) \in PTReachable(net)
  BY NetsAssumption, PTReachableStable DEF Init, PTStable
<1>2. QED
  BY <1>1 DEF Init, ExactInv

\* The verdict, once there is one, is in favour exactly if the net is sound.
VerdictIsExact == pc # "verify" => (Accepted <=> Sound(net))

\* The search accepts every sound net and no other, although it stops at the first
\* marking that is not 1-safe and looks at no more than two tokens in a place.
THEOREM VerdictDecides == Spec => []VerdictIsExact
<1>1. IInv /\ ExactInv => VerdictIsExact
  <2> SUFFICES ASSUME IInv, ExactInv, pc # "verify"
               PROVE  Accepted <=> Sound(net)
    BY DEF VerdictIsExact
  <2>1. CASE pc = "failed"
    BY <2>1 DEF ExactInv, Accepted
  <2>2. CASE pc # "failed"
    <3>1. Accepted /\ frontier = {} /\ OutcomeIsServed
      BY <2>2 DEF IInv, SearchInv, TypeOK, Accepted, VerdictInv
    <3>2. /\ deadlocks = {m \in PTReachable(net) : IsDeadlock(net, m)}
          /\ \A m \in PTReachable(net) : OneSafe(net, m)
      BY <2>2, <3>1, ExhaustedIsExact
    <3>3. PICK d \in deadlocks : deadlocks = {d} /\ Support(net, d) = Served
      BY <3>1 DEF OutcomeIsServed
    <3>4. d \in PTReachable(net)
      BY <3>2, <3>3
    <3>5. Sound(net)
      BY <3>2, <3>3, <3>4 DEF Sound
    <3>6. QED
      BY <3>1, <3>5
  <2>3. QED
    BY <2>1, <2>2
<1>2. QED
  BY <1>1, Initially, Inductive, ExactInitially, ExactStep, PTL DEF Spec

\* The initial counts show the initially marked places.
LEMMA InitialSupport ==
    ASSUME NEW n, IsNet(n)
    PROVE  Support(n, InitialTokens(n)) = n.initial
BY DEF Support, InitialTokens, IsNet

\* What the verification has seen, as sets, is the state space of the set forms.
SpacesCoincide ==
    Accepted /\ NoSelfLoops(net) =>
        Reachable(net) = {Support(net, m) : m \in seen}

\* On every net it accepts the proof form has gone through exactly the markings that
\* the canonical semantics reach: its verdict is about the programs of the other forms.
THEOREM SameSpace == Spec => []SpacesCoincide
<1>1. IInv /\ ExactInv => SpacesCoincide
  <2> SUFFICES ASSUME IInv, ExactInv, Accepted, NoSelfLoops(net)
               PROVE  Reachable(net) = {Support(net, m) : m \in seen}
    BY DEF SpacesCoincide
  <2> DEFINE Shown == {Support(net, m) : m \in seen}
             Good == {m \in seen : Support(net, m) \in Reachable(net)}
  <2>1. /\ IsNet(net) /\ NoBlockers(net) /\ seen \subseteq Markings(net)
        /\ InitialTokens(net) \in seen
        /\ seen = PTReachable(net)
        /\ \A m \in seen : Successors(net, m) \subseteq seen
    <3>1. frontier = {} /\ pc # "failed"
      BY DEF IInv, VerdictInv, Accepted
    <3>2. QED
      BY <3>1, ExhaustedIsExact DEF IInv, SearchInv, TypeOK, Expanded
  <2>2. \A m \in seen, t \in Trans(net) :
           /\ PTEnabled(net, m, t) <=> Enabled(net, Support(net, m), t)
           /\ PTEnabled(net, m, t) =>
                Support(net, PTFire(net, m, t)) = Fire(net, Support(net, m), t)
    BY AcceptedIsRedundant DEF ClauseIsRedundant
  <2>3. \A m \in seen, t \in Trans(net) :
           PTEnabled(net, m, t) => PTFire(net, m, t) \in seen
    BY <2>1 DEF Successors, PTEnabledIn
  <2>4. Reachable(net) \subseteq Shown
    <3>1. net.initial \in Shown
      BY <2>1, InitialSupport
    <3>2. ASSUME NEW k \in Shown, NEW t \in EnabledIn(net, k)
          PROVE  Fire(net, k, t) \in Shown
      <4>1. PICK m \in seen : k = Support(net, m)
        OBVIOUS
      <4>2. t \in Trans(net) /\ PTEnabled(net, m, t)
        BY <2>2, <4>1 DEF EnabledIn
      <4>3. Fire(net, k, t) = Support(net, PTFire(net, m, t))
        BY <2>2, <4>1, <4>2
      <4>4. QED
        BY <2>3, <4>2, <4>3
    <3>3. Shown \in SUBSET SUBSET net.places
      BY DEF Support
    <3>4. Stable(net, Shown)
      BY <3>1, <3>2 DEF Stable
    <3> HIDE DEF Shown
    <3>5. QED
      BY <3>3, <3>4, ReachableLeast
  <2>5. Shown \subseteq Reachable(net)
    <3>1. InitialTokens(net) \in Good
      BY <2>1, InitialSupport, ReachableStable DEF Stable
    <3>2. ASSUME NEW m \in Good, NEW s \in Successors(net, m)
          PROVE  s \in Good
      <4>1. PICK t \in Trans(net) : PTEnabled(net, m, t) /\ s = PTFire(net, m, t)
        BY <3>2 DEF Successors, PTEnabledIn
      <4>2. t \in EnabledIn(net, Support(net, m))
        BY <2>2, <4>1 DEF EnabledIn
      <4>3. Fire(net, Support(net, m), t) \in Reachable(net)
        BY <2>1, <4>2, ReachableStable DEF Stable
      <4>4. Support(net, s) \in Reachable(net) /\ s \in seen
        BY <2>2, <2>3, <4>1, <4>3
      <4>5. QED
        BY <4>4
    <3>3. PTStable(net, Good) /\ Good \in SUBSET Markings(net)
      BY <2>1, <3>1, <3>2 DEF PTStable
    <3>4. PTReachable(net) \subseteq Good
      BY <3>3 DEF PTReachable
    <3>5. QED
      BY <2>1, <3>4
  <2>6. QED
    BY <2>4, <2>5
<1>2. QED
  BY <1>1, Initially, Inductive, ExactInitially, ExactStep, PTL DEF Spec
-----------------------------------------------------------------------------
(* Lists.                                                                   *)

\* The elements of a list are what its positions hold.
LEMMA ToSetOf ==
    ASSUME NEW S, NEW s \in Seq(S)
    PROVE  /\ ToSet(s) = {s[k] : k \in 1..Len(s)}
           /\ ToSet(s) \subseteq S
BY LenProperties DEF ToSet

\* A list that no element occurs in twice.
Once(s) == \A j, k \in 1..Len(s) : s[j] = s[k] => j = k

\* One element more at the end.
LEMMA AppendToOnce ==
    ASSUME NEW S, NEW s \in Seq(S), NEW e \in S
    PROVE  /\ ToSet(Append(s, e)) = ToSet(s) \cup {e}
           /\ Once(s) /\ e \notin ToSet(s) => Once(Append(s, e))
<1> DEFINE r == Append(s, e)
<1>1. /\ r \in Seq(S) /\ Len(r) = Len(s) + 1 /\ Len(s) \in Nat
      /\ \A i \in 1..Len(s) : r[i] = s[i]
      /\ r[Len(s) + 1] = e
  BY AppendProperties, LenProperties
<1>2. /\ ToSet(r) = {r[k] : k \in 1..Len(r)}
      /\ ToSet(s) = {s[k] : k \in 1..Len(s)}
  BY <1>1, ToSetOf
<1> HIDE DEF r
<1>3. 1..Len(r) = (1..Len(s)) \cup {Len(s) + 1}
  BY <1>1
<1>4. ToSet(r) = ToSet(s) \cup {e}
  BY <1>1, <1>2, <1>3
<1>5. ASSUME Once(s), e \notin ToSet(s), NEW j \in 1..Len(r), NEW k \in 1..Len(r),
             r[j] = r[k]
      PROVE  j = k
  <2>1. \A i \in 1..Len(s) : r[i] \in ToSet(s)
    BY <1>1, <1>2
  <2>2. (j \in 1..Len(s) \/ j = Len(s) + 1) /\ (k \in 1..Len(s) \/ k = Len(s) + 1)
    BY <1>3
  <2>3. CASE j \in 1..Len(s) /\ k \in 1..Len(s)
    BY <1>1, <1>5, <2>3 DEF Once
  <2>4. CASE ~(j \in 1..Len(s) /\ k \in 1..Len(s))
    BY <1>1, <1>5, <2>1, <2>2, <2>4
  <2>5. QED
    BY <2>3, <2>4
<1>6. QED
  BY <1>4, <1>5 DEF Once, r

\* One list after another.
LEMMA ConcatOnce ==
    ASSUME NEW S, NEW s \in Seq(S), NEW t \in Seq(S)
    PROVE  /\ ToSet(s \o t) = ToSet(s) \cup ToSet(t)
           /\ Once(s) /\ Once(t) /\ ToSet(s) \cap ToSet(t) = {} => Once(s \o t)
<1> DEFINE r == s \o t
           m == Len(s)
           n == Len(t)
<1>1. /\ r \in Seq(S) /\ Len(r) = m + n /\ m \in Nat /\ n \in Nat
      /\ \A i \in 1..m + n : r[i] = IF i <= m THEN s[i] ELSE t[i - m]
  BY ConcatProperties, LenProperties
<1>2. /\ ToSet(r) = {r[k] : k \in 1..m + n}
      /\ ToSet(s) = {s[k] : k \in 1..m}
      /\ ToSet(t) = {t[k] : k \in 1..n}
  BY <1>1, ToSetOf
<1>0. /\ Once(r) <=> \A j, k \in 1..m + n : r[j] = r[k] => j = k
      /\ Once(s) <=> \A j, k \in 1..m : s[j] = s[k] => j = k
      /\ Once(t) <=> \A j, k \in 1..n : t[j] = t[k] => j = k
  BY <1>1 DEF Once
<1> HIDE DEF r, m, n
<1>3. /\ \A i \in 1..m : i \in 1..m + n /\ r[i] = s[i]
      /\ \A i \in 1..n : m + i \in 1..m + n /\ r[m + i] = t[i]
  BY <1>1
<1>4. \A k \in 1..m + n : k \in 1..m \/ \E i \in 1..n : k = m + i
  <2> SUFFICES ASSUME NEW k \in 1..m + n, k \notin 1..m
               PROVE  \E i \in 1..n : k = m + i
    OBVIOUS
  <2>1. k - m \in 1..n /\ k = m + (k - m)
    BY <1>1
  <2>2. QED
    BY <2>1
<1>5. ToSet(r) = ToSet(s) \cup ToSet(t)
  BY <1>2, <1>3, <1>4
<1>6. ASSUME Once(s), Once(t), ToSet(s) \cap ToSet(t) = {},
             NEW j \in 1..m + n, NEW k \in 1..m + n, r[j] = r[k]
      PROVE  j = k
  <2>1. CASE j \in 1..m /\ k \in 1..m
    BY <1>0, <1>3, <1>6, <2>1
  <2>2. CASE j \notin 1..m /\ k \notin 1..m
    <3>1. PICK i \in 1..n, h \in 1..n : j = m + i /\ k = m + h
      BY <1>4, <2>2
    <3>2. i = h
      BY <1>0, <1>3, <1>6, <3>1
    <3>3. QED
      BY <3>1, <3>2
  <2>3. \A i \in 1..m, h \in 1..n : s[i] # t[h]
    BY <1>2, <1>6
  <2>4. CASE j \in 1..m /\ k \notin 1..m
    BY <1>3, <1>4, <1>6, <2>3, <2>4
  <2>5. CASE j \notin 1..m /\ k \in 1..m
    BY <1>3, <1>4, <1>6, <2>3, <2>5
  <2>6. QED
    BY <2>1, <2>2, <2>4, <2>5
<1>7. QED
  BY <1>0, <1>5, <1>6 DEF r

\* A list is its first element and the rest.
LEMMA HeadAndTail ==
    ASSUME NEW S, NEW s \in Seq(S), s # <<>>
    PROVE  /\ Head(s) \in S /\ Tail(s) \in Seq(S)
           /\ s = <<Head(s)>> \o Tail(s)
           /\ ToSet(s) = {Head(s)} \cup ToSet(Tail(s))
           /\ Once(s) => Once(Tail(s)) /\ Head(s) \notin ToSet(Tail(s))
<1> DEFINE h == Head(s)
           r == Tail(s)
<1>1. /\ h \in S /\ r \in Seq(S) /\ Len(r) = Len(s) - 1
      /\ \A i \in 1..Len(r) : r[i] = s[i + 1]
      /\ Len(s) \in Nat \ {0} /\ Len(r) \in Nat
      /\ h = s[1]
  BY HeadTailProperties, EmptySeq, LenProperties
<1> HIDE DEF h, r
<1>2. /\ <<h>> \in Seq(S) /\ Len(<<h>>) = 1 /\ <<h>>[1] = h
      /\ ToSet(<<h>>) = {h}
  BY <1>1 DEF ToSet
<1>3. /\ <<h>> \o r \in Seq(S) /\ Len(<<h>> \o r) = Len(s)
      /\ \A i \in 1..Len(s) : (<<h>> \o r)[i] = IF i <= 1 THEN <<h>>[i] ELSE r[i - 1]
  BY <1>1, <1>2, ConcatProperties
<1>4. \A i \in 1..Len(s) : s[i] = (<<h>> \o r)[i]
  <2> SUFFICES ASSUME NEW i \in 1..Len(s) PROVE s[i] = (<<h>> \o r)[i]
    OBVIOUS
  <2>1. CASE i = 1
    BY <1>1, <1>2, <1>3, <2>1
  <2>2. CASE i # 1
    <3>1. i - 1 \in 1..Len(r) /\ ~(i <= 1) /\ (i - 1) + 1 = i
      BY <1>1, <2>2
    <3>2. r[i - 1] = s[(i - 1) + 1]
      BY <1>1, <3>1
    <3>3. QED
      BY <1>3, <3>1, <3>2
  <2>3. QED
    BY <2>1, <2>2
<1>5. s = <<h>> \o r
  BY <1>3, <1>4, SeqEqual
<1>6. ToSet(s) = {h} \cup ToSet(r)
  <2> DEFINE one == <<h>>
  <2>1. one \in Seq(S) /\ ToSet(one) = {h} /\ s = one \o r
    BY <1>2, <1>5
  <2> HIDE DEF one
  <2>2. ToSet(one \o r) = ToSet(one) \cup ToSet(r)
    BY <1>1, <2>1, ConcatOnce
  <2>3. QED
    BY <2>1, <2>2
<1>7. ASSUME Once(s)
      PROVE  Once(r) /\ h \notin ToSet(r)
  <2>1. \A i \in 1..Len(r) : i + 1 \in 1..Len(s) /\ 1 \in 1..Len(s) /\ r[i] = s[i + 1]
    BY <1>1
  <2>2. ASSUME NEW j \in 1..Len(r), NEW k \in 1..Len(r), r[j] = r[k]
        PROVE  j = k
    <3>1. j + 1 = k + 1
      BY <1>7, <2>1, <2>2 DEF Once
    <3>2. QED
      BY <3>1
  <2>3. ASSUME NEW j \in 1..Len(r), r[j] = h
        PROVE  FALSE
    <3>1. j + 1 = 1
      BY <1>1, <1>7, <2>1, <2>3 DEF Once
    <3>2. QED
      BY <3>1
  <2>4. ToSet(r) = {r[k] : k \in 1..Len(r)}
    BY <1>1, ToSetOf
  <2>5. QED
    BY <2>2, <2>3, <2>4 DEF Once
<1>8. QED
  BY <1>1, <1>5, <1>6, <1>7 DEF h, r

\* A list has as many elements as positions if none occurs twice.
LEMMA OnceCounts ==
    ASSUME NEW S, NEW s \in Seq(S), Once(s)
    PROVE  Cardinality(ToSet(s)) = Len(s)
<1> DEFINE n == Len(s)
<1>1. n \in Nat /\ s \in [1..n -> S] /\ ToSet(s) = {s[k] : k \in 1..n}
  BY LenProperties, ToSetOf
<1>2. s \in [1..n -> ToSet(s)]
  BY <1>1
<1>3. s \in Injection(1..n, ToSet(s)) /\ s \in Surjection(1..n, ToSet(s))
  BY <1>1, <1>2 DEF Injection, IsInjective, Surjection, Once
<1> HIDE DEF n
<1>4. IsFiniteSet(1..n) /\ Cardinality(1..n) = n
  <2>1. IsFiniteSet(1..n) /\ Cardinality(1..n) = IF 1 > n THEN 0 ELSE n - 1 + 1
    BY <1>1, FS_Interval
  <2>2. QED
    BY <1>1, <2>1
<1>5. Cardinality(ToSet(s)) = Cardinality(1..n)
  BY <1>3, <1>4, FS_Surjection
<1>6. QED
  BY <1>4, <1>5 DEF n

\* InOrder lists a finite set of numbers: all of them, and each once.
LEMMA InOrderLists ==
    ASSUME NEW T \in SUBSET Nat, IsFiniteSet(T)
    PROVE  /\ InOrder(T) \in Seq(T)
           /\ ToSet(InOrder(T)) = T
           /\ Once(InOrder(T))
<1> DEFINE n == Cardinality(T)
           below(t) == {u \in T : u < t}
           rank == [t \in T |-> Cardinality(below(t)) + 1]
           pick(k) == CHOOSE t \in T : Cardinality(below(t)) = k - 1
           f == InOrder(T)
<1>0. f = [k \in 1..n |-> pick(k)]
  BY DEF InOrder
<1>1. n \in Nat
  BY FS_CardinalityType
<1>2. \A t \in T : IsFiniteSet(below(t)) /\ Cardinality(below(t)) \in Nat
  BY FS_Subset, FS_CardinalityType
<1>3. ASSUME NEW t \in T, NEW v \in T, t < v
      PROVE  rank[t] < rank[v]
  <2>0. \A u \in T : u < t => u < v
    BY <1>3
  <2>1. below(t) \in SUBSET below(v) /\ t \in below(v) /\ t \notin below(t)
    <3> HIDE DEF pick, f, rank, n
    <3>1. ~(t < t)
      OBVIOUS
    <3>2. QED
      BY <1>3, <2>0, <3>1, Zenon
  <2>2. Cardinality(below(t)) <= Cardinality(below(v)) /\ Cardinality(below(t)) # Cardinality(below(v))
    BY <1>2, <2>1, FS_Subset
  <2>3. QED
    BY <1>2, <2>2
<1>4. rank \in [T -> 1..n]
  <2> SUFFICES ASSUME NEW t \in T PROVE Cardinality(below(t)) + 1 \in 1..n
    OBVIOUS
  <2>1. below(t) \in SUBSET T /\ t \notin below(t)
    OBVIOUS
  <2>2. Cardinality(below(t)) <= n /\ Cardinality(below(t)) # n
    BY <2>1, FS_Subset
  <2>3. QED
    BY <1>1, <1>2, <2>2
<1>5. \A t, v \in T : rank[t] = rank[v] => t = v
  <2> SUFFICES ASSUME NEW t \in T, NEW v \in T, rank[t] = rank[v] PROVE t = v
    OBVIOUS
  <2>1. t \in Nat /\ v \in Nat /\ rank[t] \in Nat /\ rank[v] \in Nat
    BY <1>1, <1>4
  <2> HIDE DEF rank
  <2>2. ~(t < v) /\ ~(v < t)
    BY <1>3, <2>1
  <2>3. QED
    BY <2>1, <2>2
<1>6. \A t \in T : rank[t] = Cardinality(below(t)) + 1
  OBVIOUS
<1> HIDE DEF rank
<1>7. rank \in Injection(T, 1..n)
  BY <1>4, <1>5 DEF Injection, IsInjective
<1>8. IsFiniteSet(1..n) /\ Cardinality(1..n) = n
  <2> HIDE DEF n
  <2>1. IsFiniteSet(1..n) /\ Cardinality(1..n) = IF 1 > n THEN 0 ELSE n - 1 + 1
    BY <1>1, FS_Interval
  <2>2. QED
    BY <1>1, <2>1
<1>9. rank \in Surjection(T, 1..n)
  BY <1>7, <1>8, FS_Injection
<1>10. \A k \in 1..n : \E t \in T : rank[t] = k
  BY <1>9 DEF Surjection
<1>11. ASSUME NEW k \in 1..n
       PROVE  f[k] \in T /\ rank[f[k]] = k
  <2>1. f[k] = CHOOSE t \in T : Cardinality(below(t)) = k - 1
    BY <1>0
  <2>2. PICK t \in T : rank[t] = k
    BY <1>10
  <2>3. Cardinality(below(t)) = k - 1
    BY <1>2, <1>6, <2>2
  <2>4. f[k] \in T /\ Cardinality(below(f[k])) = k - 1
    BY <2>1, <2>3
  <2>5. (k - 1) + 1 = k
    BY <1>1
  <2>6. QED
    BY <1>6, <2>4, <2>5
<1> HIDE DEF f, pick
<1>12. f = [k \in 1..n |-> f[k]]
  BY <1>0
<1>13. f \in Seq(T) /\ Len(f) = n
  <2>1. f \in [1..n -> T]
    BY <1>11, <1>12
  <2> HIDE DEF n
  <2>2. QED
    BY <1>1, <2>1
<1>14. ToSet(f) = {f[k] : k \in 1..n}
  BY <1>13, ToSetOf
<1>15. ToSet(f) = T
  <2>1. ASSUME NEW t \in T PROVE t \in ToSet(f)
    <3>1. rank[t] \in 1..n
      BY <1>4
    <3>2. f[rank[t]] = t
      BY <1>5, <1>11, <3>1
    <3>3. QED
      BY <1>14, <3>1, <3>2
  <2>2. QED
    BY <1>11, <1>14, <2>1
<1>16. Once(f)
  <2> SUFFICES ASSUME NEW j \in 1..n, NEW k \in 1..n, f[j] = f[k] PROVE j = k
    BY <1>13 DEF Once
  <2>1. QED
    BY <1>11
<1>17. QED
  BY <1>13, <1>15, <1>16 DEF f
-----------------------------------------------------------------------------
(* The Lean form: facts about its model.                                    *)

\* A model denotes a net; its places are as many as its list is long.
LEMMA ModelFacts ==
    ASSUME model \in Models
    PROVE  /\ IsNet(Net) /\ NP \in Nat
           /\ IsFiniteSet(Net.places) /\ Cardinality(Net.places) = NP
           /\ Trans(Net) \subseteq Nat /\ IsFiniteSet(Trans(Net))
<1>1. /\ IsNet(Net)
      /\ model.places \in Seq(ToSet(model.places))
      /\ IsInjective(model.places)
  BY ModelsAssumption DEF Net
<1>2. Net.places = ToSet(model.places)
  BY DEF Net, AsNet
<1>3. NP \in Nat /\ model.places \in [1..NP -> Net.places]
  BY <1>1, <1>2, LenProperties DEF NP
<1>4. Once(model.places)
  BY <1>1, <1>3 DEF Once, IsInjective, NP
<1>5. Cardinality(Net.places) = NP
  BY <1>1, <1>2, <1>4, OnceCounts DEF NP
<1>6. IsFiniteSet(Net.places)
  <2>1. IsFiniteSet(1..NP)
    BY <1>3, FS_Interval
  <2>2. \A p \in Net.places : \E k \in 1..NP : model.places[k] = p
    BY <1>1, <1>2, ToSetOf DEF NP
  <2>3. model.places \in Surjection(1..NP, Net.places)
    BY <1>3, <2>2 DEF Surjection
  <2>4. QED
    BY <2>1, <2>3, FS_Surjection
<1>7. Trans(Net) \subseteq Nat
  BY <1>1, TransNat
<1>8. IsFiniteSet(Trans(Net))
  <2>1. Net.transitions \in Seq(Transition(Net.places))
    BY <1>1 DEF IsNet
  <2>2. Len(Net.transitions) \in Nat /\ Trans(Net) = 1..Len(Net.transitions)
    BY <2>1, LenProperties DEF Trans
  <2>3. QED
    BY <2>2, FS_Interval
<1>9. QED
  BY <1>1, <1>3, <1>5, <1>6, <1>7, <1>8

\* What is cut to a width is an integer, for every integer.
LEMMA Int64Type ==
    ASSUME model \in Models, width \in Widths
    PROVE  Int64(2 ^ NP) \in Int
<1> DEFINE half == 2 ^ (width - 1)
           x == 2 ^ NP
<1>1. x \in Nat /\ half \in Nat /\ half > 0
  <2>1. \A n \in Nat : 2 ^ n \in Nat /\ 2 ^ n > 0
    <3> SUFFICES ASSUME NEW n \in Nat PROVE 2 ^ n \in Nat /\ 2 ^ n > 0
      OBVIOUS
    <3>1. IsFiniteSet(1..n) /\ Cardinality(1..n) = IF 1 > n THEN 0 ELSE n - 1 + 1
      BY FS_Interval
    <3>2. Cardinality(1..n) = n
      BY <3>1
    <3>3. IsFiniteSet(SUBSET (1..n)) /\ Cardinality(SUBSET (1..n)) = 2 ^ n
      BY <3>1, <3>2, FS_SUBSET
    <3>4. 2 ^ n \in Nat /\ 2 ^ n # 0
      BY <3>3, FS_CardinalityType, FS_EmptySet
    <3>5. QED
      BY <3>4
  <2>2. NP \in Nat /\ width - 1 \in Nat
    BY ModelFacts, WidthsAssumption
  <2>3. QED
    BY <2>1, <2>2
<1>2. Int64(x) = ((x + half) % (2 * half)) - half
  BY DEF Int64
<1> HIDE DEF half, x
<1>3. (x + half) % (2 * half) \in Int
  BY <1>1
<1>4. QED
  BY <1>1, <1>2, <1>3 DEF x

\* A width with room for n bits and a sign keeps 2^n as it is.
LEMMA RoomForFuel ==
    ASSUME model \in Models, width \in Widths, FuelHasRoom
    PROVE  2 ^ NP \in Nat /\ Int64(2 ^ NP) = 2 ^ NP
<1>1. NP \in Nat /\ width - 1 \in Nat /\ NP < width - 1
  BY ModelFacts, WidthsAssumption DEF FuelHasRoom
<1> DEFINE v == width - 1
           S == 1..v
           R == 1..NP
           half == 2 ^ v
           x == 2 ^ NP
<1>2. /\ IsFiniteSet(S) /\ Cardinality(S) = v
      /\ IsFiniteSet(R) /\ Cardinality(R) = NP
  <2>1. \A n \in Nat : IsFiniteSet(1..n) /\ Cardinality(1..n) = n
    BY FS_Interval
  <2>2. v \in Nat /\ NP \in Nat
    BY <1>1
  <2> HIDE DEF v
  <2>3. QED
    BY <2>1, <2>2
<1>3. R \in SUBSET S /\ v \in S /\ v \notin R
  BY <1>1
<1> HIDE DEF S, R, v
<1>4. /\ IsFiniteSet(SUBSET S) /\ Cardinality(SUBSET S) = half
      /\ IsFiniteSet(SUBSET R) /\ Cardinality(SUBSET R) = x
  BY <1>2, FS_SUBSET
<1>5. half \in Nat /\ x \in Nat
  BY <1>4, FS_CardinalityType
<1>6. SUBSET R \in SUBSET SUBSET S /\ S \in SUBSET S /\ S \notin SUBSET R
  BY <1>3
<1>7. x <= half /\ x # half
  BY <1>4, <1>6, FS_Subset
<1> HIDE DEF half, x
<1>8. (x + half) % (2 * half) = x + half
  <2>1. half \in Nat /\ x + half \in Nat /\ 2 * half \in Nat /\ x + half < 2 * half
    BY <1>5, <1>7
  <2>2. QED
    BY <2>1
<1>9. QED
  BY <1>5, <1>8 DEF Int64, x, half, v

-----------------------------------------------------------------------------
(* The Lean form: its firings.                                              *)

\* Two transitions that lead from a marking to the same counts have one effect.
LEMMA SameEffect ==
    ASSUME NEW m \in Markings(Net), NEW t, NEW u, PTFire(Net, m, t) = PTFire(Net, m, u)
    PROVE  Effect(t) = Effect(u)
<1>1. ASSUME NEW p \in Net.places
      PROVE  Effect(t)[p] = Effect(u)[p]
  <2>1. PTFire(Net, m, t)[p] = PTFire(Net, m, u)[p] /\ m[p] \in Nat
    BY DEF Markings
  <2>2. QED
    BY <2>1 DEF PTFire, Effect
<1>2. QED
  BY <1>1 DEF Effect

\* Successors of counts are counts.
LEMMA LeanSuccessorsType ==
    ASSUME model \in Models, NEW m \in Markings(Net)
    PROVE  LeanSuccessors(m) \subseteq Markings(Net)
BY ModelFacts, PTFireType DEF LeanSuccessors, LeanEnabled, PTEnabledIn

\* What one expansion adds: the successors that are not known; and each of them
\* once, if the effects differ.
LEMMA FreshFacts ==
    ASSUME model \in Models, NEW m \in Markings(Net), NEW known
    PROVE  /\ Fresh(m, known) \in Seq(Markings(Net))
           /\ ToSet(Fresh(m, known)) = LeanSuccessors(m) \ known
           /\ DistinctEffects => Once(Fresh(m, known))
<1> DEFINE T == {t \in Trans(Net) : LeanEnabled(m, t) /\ PTFire(Net, m, t) \notin known}
           ts == InOrder(T)
           f == Fresh(m, known)
<1>1. T \in SUBSET Nat /\ IsFiniteSet(T) /\ T \subseteq Trans(Net)
  BY ModelFacts, FS_Subset
<1>2. f = [k \in DOMAIN ts |-> PTFire(Net, m, ts[k])]
  BY DEF Fresh
<1>3. {PTFire(Net, m, t) : t \in T} = LeanSuccessors(m) \ known
  BY DEF LeanSuccessors
<1> HIDE DEF T
<1>4. ts \in Seq(T) /\ ToSet(ts) = T /\ Once(ts)
  BY <1>1, InOrderLists
<1> HIDE DEF ts, f
<1>5. /\ Len(ts) \in Nat /\ DOMAIN ts = 1..Len(ts) /\ T = {ts[k] : k \in 1..Len(ts)}
      /\ \A k \in 1..Len(ts) : ts[k] \in T
  BY <1>4, LenProperties, ToSetOf
<1>6. \A k \in 1..Len(ts) : PTFire(Net, m, ts[k]) \in LeanSuccessors(m) \ known
  BY <1>3, <1>5
<1>7. f \in [1..Len(ts) -> Markings(Net)]
  BY <1>2, <1>5, <1>6, LeanSuccessorsType
<1>8. f \in Seq(Markings(Net)) /\ Len(f) = Len(ts)
  BY <1>5, <1>7
<1>9. ToSet(f) = {f[k] : k \in 1..Len(ts)}
  BY <1>8, ToSetOf
<1>10. ToSet(f) = LeanSuccessors(m) \ known
  BY <1>2, <1>3, <1>5, <1>9
<1>11. ASSUME DistinctEffects
       PROVE  Once(f)
  <2> SUFFICES ASSUME NEW j \in 1..Len(ts), NEW k \in 1..Len(ts), f[j] = f[k]
               PROVE  j = k
    BY <1>8 DEF Once
  <2>1. PTFire(Net, m, ts[j]) = PTFire(Net, m, ts[k]) /\ ts[j] \in Trans(Net) /\ ts[k] \in Trans(Net)
    BY <1>1, <1>2, <1>5
  <2>2. ts[j] = ts[k]
    BY <1>11, <2>1, SameEffect DEF DistinctEffects
  <2>3. QED
    BY <1>4, <2>2 DEF Once
<1>12. QED
  BY <1>8, <1>10, <1>11 DEF f

\* Counts of zeros and ones are the same if they show the same places.
LEMMA SupportTells ==
    ASSUME NEW n, NEW a \in Markings(n), NEW b \in Markings(n),
           OneSafe(n, a), OneSafe(n, b), Support(n, a) = Support(n, b)
    PROVE  a = b
<1>1. ASSUME NEW p \in n.places
      PROVE  a[p] = b[p]
  <2>1. a[p] \in Nat /\ b[p] \in Nat /\ a[p] <= 1 /\ b[p] <= 1
    BY DEF Markings, OneSafe
  <2>2. a[p] > 0 <=> b[p] > 0
    BY DEF Support
  <2>3. QED
    BY <2>1, <2>2
<1>2. QED
  BY <1>1 DEF Markings

\* There are no more than 2^n markings of zeros and ones.
LEMMA ListIsShort ==
    ASSUME model \in Models, listed \in Seq(Markings(Net)), Once(listed), ReachableOneSafe
    PROVE  Len(listed) <= 2 ^ NP
<1> DEFINE n == Len(listed)
           f == [k \in 1..n |-> Support(Net, listed[k])]
<1>1. /\ n \in Nat
      /\ \A k \in 1..n : listed[k] \in Markings(Net) /\ OneSafe(Net, listed[k])
  <2>1. n \in Nat /\ ToSet(listed) = {listed[k] : k \in 1..n}
    BY LenProperties, ToSetOf
  <2>2. QED
    BY <2>1, ElementOfSeq DEF ReachableOneSafe
<1>2. f \in Injection(1..n, SUBSET Net.places)
  <2>1. f \in [1..n -> SUBSET Net.places]
    BY DEF Support
  <2>2. ASSUME NEW j \in 1..n, NEW k \in 1..n, f[j] = f[k]
        PROVE  j = k
    <3>1. listed[j] = listed[k]
      BY <1>1, <2>2, SupportTells
    <3>2. QED
      BY <3>1 DEF Once
  <2> HIDE DEF f
  <2>3. QED
    BY <2>1, <2>2 DEF Injection, IsInjective
<1> HIDE DEF f, n
<1>3. /\ IsFiniteSet(SUBSET Net.places)
      /\ Cardinality(SUBSET Net.places) = 2 ^ NP
  BY ModelFacts, FS_SUBSET
<1>4. Cardinality(1..n) <= Cardinality(SUBSET Net.places)
  BY <1>2, <1>3, FS_Injection
<1>5. Cardinality(1..n) = n
  <2>1. Cardinality(1..n) = IF 1 > n THEN 0 ELSE n - 1 + 1
    BY <1>1, FS_Interval
  <2>2. QED
    BY <1>1, <2>1
<1>6. QED
  BY <1>3, <1>4, <1>5 DEF n
-----------------------------------------------------------------------------
(* The Lean form: the inductive invariant.                                  *)

\* C holds the initial counts and the successors of its members.
LeanStable(C) ==
    /\ InitialTokens(Net) \in C
    /\ \A m \in C : LeanSuccessors(m) \subseteq C

\* The least such set.
LeanReachable ==
    {m \in Markings(Net) : \A C \in SUBSET Markings(Net) : LeanStable(C) => m \in C}

\* What Reachable has met.
Met == ToSet(all) \cup ToSet(unvisited)

\* Reachable of analysis.go: a marking that is met is visited or waits, one of the
\* two and once; it is reachable; what firings lead to from a visited one is met.
VisitInv ==
    /\ all \in Seq(SUBSET Net.places) /\ unvisited \in Seq(SUBSET Net.places)
    /\ Once(all) /\ Once(unvisited)
    /\ ToSet(all) \cap ToSet(unvisited) = {}
    /\ Met \subseteq Reachable(Net)
    /\ Net.initial \in Met
    /\ \A m \in ToSet(all) : \A t \in EnabledIn(Net, m) : Fire(Net, m, t) \in Met

\* Its deadlocks are the visited markings that enable nothing, each of them once.
TerminalsInv ==
    /\ terminals \in Seq(SUBSET Net.places)
    /\ Once(terminals)
    /\ ToSet(terminals) = {m \in ToSet(all) : Terminal(Net, m)}

\* The view handed to the template shows what has been found.
ViewInv ==
    phase \in {"shown", "search", "elaborated", "rejected"} =>
        /\ view.fuel = Int64(2 ^ NP)
        /\ view.reachCount = Len(all)
        /\ view.final = IF Len(terminals) = 1 THEN Head(terminals) ELSE {}

\* explore: the list is what has been expanded, one unit of fuel for each, and
\* then the queue; the successors of what has been expanded are in it; if the
\* effects of the transitions differ, no marking is in it twice.
ListInv ==
    phase \in {"search", "elaborated", "rejected"} =>
        /\ queue \in Seq(Markings(Net))
        /\ \E done \in Seq(Markings(Net)) :
              /\ listed = done \o queue
              /\ FuelHasRoom => fuel + Len(done) = 2 ^ NP
              /\ \A m \in ToSet(done) : LeanSuccessors(m) \subseteq ToSet(listed)
        /\ fuel \in Int
        /\ DistinctEffects => Once(listed)
        /\ InitialTokens(Net) \in ToSet(listed)
        /\ ToSet(listed) \subseteq LeanReachable

\* A file that elaborated has passed the first two theorems.
PassedInv == phase = "elaborated" => ReachableClosed /\ ReachableOneSafe

\* The whole of it.
LeanInv ==
    /\ model \in Models /\ width \in Widths
    /\ VisitInv
    /\ phase # "reach" => unvisited = <<>>
    /\ TerminalsInv
    /\ ViewInv
    /\ ListInv
    /\ PassedInv

\* The model and the width stay as they are, and what is defined by them.
LEMMA SameModel ==
    ASSUME UNCHANGED <<model, width>>
    PROVE  /\ Net' = Net /\ NP' = NP
           /\ (2 ^ NP)' = 2 ^ NP
           /\ Int64(2 ^ NP)' = Int64(2 ^ NP)
           /\ FuelHasRoom' = FuelHasRoom
           /\ DistinctEffects' = DistinctEffects
           /\ LeanReachable' = LeanReachable
           /\ \A m : LeanSuccessors(m)' = LeanSuccessors(m)
<1>1. Net' = Net /\ NP' = NP
  BY DEF Net, AsNet, NP
<1>2. \A m, t : LeanEnabled(m, t)' = LeanEnabled(m, t)
  BY <1>1 DEF LeanEnabled
<1>3. \A m : LeanSuccessors(m)' = LeanSuccessors(m)
  BY <1>1, <1>2 DEF LeanSuccessors
<1>4. \A C : LeanStable(C)' = LeanStable(C)
  BY <1>1, <1>3 DEF LeanStable
<1>5. LeanReachable' = LeanReachable
  BY <1>1, <1>4 DEF LeanReachable
<1>6. DistinctEffects' = DistinctEffects
  BY <1>1 DEF DistinctEffects, Effect
<1>7. FuelHasRoom' = FuelHasRoom
  BY <1>1 DEF FuelHasRoom
<1>8. (2 ^ NP)' = 2 ^ NP /\ Int64(2 ^ NP)' = Int64(2 ^ NP)
  BY <1>1 DEF Int64
<1>9. QED
  BY <1>1, <1>3, <1>5, <1>6, <1>7, <1>8

\* The least such set has the initial counts.
LEMMA InitialTokensReached ==
    ASSUME model \in Models
    PROVE  InitialTokens(Net) \in LeanReachable
BY InitialTokensType DEF LeanReachable, LeanStable

\* It is such a set itself.
LEMMA LeanReachableStable ==
    ASSUME model \in Models, NEW m \in LeanReachable
    PROVE  LeanSuccessors(m) \subseteq LeanReachable
<1> SUFFICES ASSUME NEW s \in LeanSuccessors(m) PROVE s \in LeanReachable
  OBVIOUS
<1>1. s \in Markings(Net)
  BY LeanSuccessorsType DEF LeanReachable
<1>2. ASSUME NEW C \in SUBSET Markings(Net), LeanStable(C)
      PROVE  s \in C
  BY <1>2 DEF LeanReachable, LeanStable
<1>3. QED
  BY <1>1, <1>2 DEF LeanReachable

\* A list of one element.
LEMMA OneElement ==
    ASSUME NEW S, NEW e \in S
    PROVE  <<e>> \in Seq(S) /\ Len(<<e>>) = 1 /\ ToSet(<<e>>) = {e} /\ Once(<<e>>)
BY DEF ToSet, Once

\* It holds initially.
LEMMA LeanInitially == LeanInit => LeanInv
<1> SUFFICES ASSUME LeanInit PROVE LeanInv
  OBVIOUS
<1>1. /\ model \in Models /\ width \in Widths /\ phase = "reach"
      /\ all = <<>> /\ terminals = <<>> /\ unvisited = <<Net.initial>>
  BY DEF LeanInit, AnalysisInit, Net, AsNet
<1>2. Net.initial \in SUBSET Net.places /\ Net.initial \in Reachable(Net)
  BY <1>1, ModelFacts, ReachableStable DEF Stable, IsNet
<1>3. /\ unvisited \in Seq(SUBSET Net.places) /\ ToSet(unvisited) = {Net.initial}
      /\ Once(unvisited)
  BY <1>1, <1>2, OneElement
<1>4. /\ all \in Seq(SUBSET Net.places) /\ ToSet(all) = {} /\ Once(all)
      /\ terminals \in Seq(SUBSET Net.places) /\ ToSet(terminals) = {} /\ Once(terminals)
  BY <1>1 DEF ToSet, Once
<1>5. VisitInv
  BY <1>2, <1>3, <1>4 DEF VisitInv, Met
<1>6. TerminalsInv
  BY <1>4 DEF TerminalsInv
<1>7. QED
  BY <1>1, <1>5, <1>6 DEF LeanInv, ViewInv, ListInv, PassedInv

\* A marking is visited.
LEMMA VisitKeeps ==
    ASSUME LeanInv, Visit, UNCHANGED <<fuel, listed, queue>>
    PROVE  LeanInv'
<1> DEFINE cur == Head(unvisited)
           T == Discovers(cur)
           found == InOrder(T)
           new == [k \in DOMAIN found |-> Fire(Net, cur, found[k])]
           S == SUBSET Net.places
<1>1. /\ UNCHANGED <<model, width, phase, view>> /\ phase = "reach" /\ unvisited # <<>>
      /\ all' = Append(all, cur)
      /\ terminals' = IF Terminal(Net, cur) THEN Append(terminals, cur) ELSE terminals
      /\ unvisited' = Tail(unvisited) \o new
  BY DEF Visit
<1>2. /\ model \in Models /\ width \in Widths /\ IsNet(Net)
      /\ VisitInv /\ TerminalsInv /\ Net' = Net
  BY <1>1, ModelFacts, SameModel DEF LeanInv
<1>3. /\ cur \in S /\ Tail(unvisited) \in Seq(S)
      /\ ToSet(unvisited) = {cur} \cup ToSet(Tail(unvisited))
      /\ Once(Tail(unvisited)) /\ cur \notin ToSet(Tail(unvisited))
      /\ cur \notin ToSet(all) /\ cur \in Reachable(Net)
  <2>1. /\ unvisited \in Seq(S) /\ Once(unvisited) /\ ToSet(all) \cap ToSet(unvisited) = {}
        /\ ToSet(unvisited) \subseteq Reachable(Net)
    BY <1>2 DEF VisitInv, Met
  <2>2. /\ cur \in S /\ Tail(unvisited) \in Seq(S)
        /\ ToSet(unvisited) = {cur} \cup ToSet(Tail(unvisited))
        /\ Once(Tail(unvisited)) /\ cur \notin ToSet(Tail(unvisited))
    <3> HIDE DEF S
    <3>1. QED
      BY <1>1, <2>1, HeadAndTail
  <2>3. QED
    BY <2>1, <2>2
<1>4. \A t \in EnabledIn(Net, cur) :
         /\ Fire(Net, cur, t) \in S
         /\ Fire(Net, cur, t) \in Reachable(Net)
  <2>1. \A t \in EnabledIn(Net, cur) : t \in Trans(Net)
    BY DEF EnabledIn
  <2>2. QED
    BY <1>2, <1>3, <2>1, FireType, ReachableStable DEF Stable
<1>5. /\ T \subseteq EnabledIn(Net, cur)
      /\ \A t \in T : Fire(Net, cur, t) \notin Met
      /\ \A t \in T : \A u \in EnabledIn(Net, cur) : u < t => Fire(Net, cur, u) # Fire(Net, cur, t)
  BY DEF Discovers, Met
<1>6. \A t \in EnabledIn(Net, cur) :
         Fire(Net, cur, t) \in Met \/ \E u \in T : Fire(Net, cur, u) = Fire(Net, cur, t)
  <2> SUFFICES ASSUME NEW t \in EnabledIn(Net, cur), Fire(Net, cur, t) \notin Met
               PROVE  \E u \in T : Fire(Net, cur, u) = Fire(Net, cur, t)
    OBVIOUS
  <2> DEFINE W == {u \in EnabledIn(Net, cur) : Fire(Net, cur, u) = Fire(Net, cur, t)}
  <2>1. W \in SUBSET Nat /\ W # {}
    BY <1>2, ModelFacts DEF EnabledIn
  <2>2. PICK u \in W : \A v \in W : ~(v < u)
    <3> HIDE DEF W
    <3>1. PICK u \in W : \A v \in W : <<v, u>> \notin OpToRel(<, Nat)
      BY <2>1, NatLessThanWellFounded, WFMin
    <3>2. QED
      BY <2>1, <3>1 DEF OpToRel
  <2>3. u \in T
    BY <2>2 DEF Discovers, Met
  <2>4. QED
    BY <2>3
<1> HIDE DEF cur, T
<1>7. found \in Seq(T) /\ ToSet(found) = T /\ Once(found) /\ T \in SUBSET Nat
  <2>1. T \in SUBSET Nat /\ T \in SUBSET Trans(Net)
    BY <1>2, <1>5, ModelFacts DEF EnabledIn
  <2>2. IsFiniteSet(T)
    BY <1>2, <2>1, ModelFacts, FS_Subset
  <2>3. QED
    BY <2>1, <2>2, InOrderLists
<1> HIDE DEF found
<1>8. /\ Len(found) \in Nat /\ DOMAIN found = 1..Len(found) /\ T = {found[k] : k \in 1..Len(found)}
      /\ \A k \in 1..Len(found) : found[k] \in T
  <2>1. Len(found) \in Nat /\ DOMAIN found = 1..Len(found)
    BY <1>7, LenProperties
  <2>2. T = {found[k] : k \in 1..Len(found)}
    BY <1>7, ToSetOf
  <2>3. QED
    BY <2>1, <2>2
<1>9. new \in Seq(S) /\ Len(new) = Len(found)
  <2>1. new \in [1..Len(found) -> S]
    BY <1>4, <1>5, <1>8
  <2>2. QED
    BY <1>8, <2>1
<1>10. ToSet(new) = {Fire(Net, cur, t) : t \in T}
  <2>1. ToSet(new) = {new[k] : k \in 1..Len(found)}
    BY <1>9, ToSetOf
  <2>2. QED
    BY <1>8, <2>1
<1>11. Once(new)
  <2> SUFFICES ASSUME NEW j \in 1..Len(found), NEW k \in 1..Len(found), new[j] = new[k]
               PROVE  j = k
    BY <1>9 DEF Once
  <2>1. Fire(Net, cur, found[j]) = Fire(Net, cur, found[k]) /\ found[j] \in T /\ found[k] \in T
    BY <1>8
  <2>2. ~(found[j] < found[k]) /\ ~(found[k] < found[j])
    BY <1>5, <2>1
  <2>3. found[j] = found[k]
    <3>1. found[j] \in Nat /\ found[k] \in Nat
      BY <1>7, <2>1
    <3> HIDE DEF new
    <3>2. QED
      BY <2>2, <3>1
  <2>4. QED
    BY <1>7, <2>3 DEF Once
<1>12. ToSet(new) \cap Met = {} /\ ToSet(new) \subseteq Reachable(Net)
  BY <1>4, <1>5, <1>10
<1> HIDE DEF new
<1>13. /\ all' \in Seq(S) /\ ToSet(all') = ToSet(all) \cup {cur} /\ Once(all')
  BY <1>1, <1>2, <1>3, AppendToOnce, AppendProperties DEF VisitInv
<1>14. /\ unvisited' \in Seq(S)
       /\ ToSet(unvisited') = ToSet(Tail(unvisited)) \cup ToSet(new)
       /\ Once(unvisited')
  <2>1. ToSet(Tail(unvisited)) \cap ToSet(new) = {}
    BY <1>3, <1>12 DEF Met
  <2> DEFINE rest == Tail(unvisited)
  <2>2. /\ unvisited' = rest \o new /\ rest \in Seq(S) /\ new \in Seq(S)
        /\ Once(rest) /\ Once(new) /\ ToSet(rest) \cap ToSet(new) = {}
    BY <1>1, <1>3, <1>9, <1>11, <2>1
  <2> HIDE DEF rest, S
  <2>3. rest \o new \in Seq(S)
    BY <2>2, ConcatProperties
  <2>4. ToSet(rest \o new) = ToSet(rest) \cup ToSet(new) /\ Once(rest \o new)
    BY <2>2, ConcatOnce
  <2>5. QED
    BY <2>2, <2>3, <2>4 DEF rest
<1>15. ToSet(all') \cap ToSet(unvisited') = {}
  BY <1>2, <1>3, <1>12, <1>13, <1>14 DEF VisitInv, Met
<1>16. Met' = Met \cup ToSet(new)
  BY <1>3, <1>13, <1>14 DEF Met
<1>17. \A m \in ToSet(all') : \A t \in EnabledIn(Net, m) : Fire(Net, m, t) \in Met'
  <2> SUFFICES ASSUME NEW m \in ToSet(all'), NEW t \in EnabledIn(Net, m)
               PROVE  Fire(Net, m, t) \in Met'
    OBVIOUS
  <2>1. CASE m \in ToSet(all)
    BY <1>2, <1>16, <2>1 DEF VisitInv
  <2>2. CASE m = cur
    BY <1>6, <1>10, <1>16, <2>2
  <2>3. QED
    BY <1>13, <2>1, <2>2
<1>18. VisitInv'
  <2>1. Met' \subseteq Reachable(Net) /\ Net.initial \in Met'
    BY <1>2, <1>12, <1>16 DEF VisitInv
  <2>2. QED
    BY <1>2, <1>13, <1>14, <1>15, <1>17, <2>1 DEF VisitInv
<1>19. TerminalsInv'
  <2>1. CASE Terminal(Net, cur)
    <3>1. terminals' = Append(terminals, cur) /\ cur \notin ToSet(terminals)
      BY <1>1, <1>2, <1>3, <2>1 DEF TerminalsInv
    <3>2. /\ terminals' \in Seq(S) /\ Once(terminals')
          /\ ToSet(terminals') = ToSet(terminals) \cup {cur}
      BY <1>2, <1>3, <3>1, AppendToOnce, AppendProperties DEF TerminalsInv
    <3>3. ToSet(terminals') = {m \in ToSet(all') : Terminal(Net, m)}
      BY <1>2, <1>13, <2>1, <3>2 DEF TerminalsInv
    <3>4. QED
      BY <1>2, <3>2, <3>3 DEF TerminalsInv
  <2>2. CASE ~Terminal(Net, cur)
    <3>1. terminals' = terminals
      BY <1>1, <2>2
    <3>2. ToSet(terminals') = {m \in ToSet(all') : Terminal(Net, m)}
      BY <1>2, <1>13, <2>2, <3>1 DEF TerminalsInv
    <3>3. QED
      BY <1>2, <3>1, <3>2 DEF TerminalsInv
  <2>3. QED
    BY <2>1, <2>2
<1>20. ViewInv' /\ ListInv' /\ PassedInv'
  BY <1>1 DEF ViewInv, ListInv, PassedInv
<1>21. QED
  BY <1>1, <1>2, <1>18, <1>19, <1>20 DEF LeanInv

\* What has been met stays as it is while the list of it does.
LEMMA SameVisits ==
    ASSUME VisitInv, TerminalsInv, UNCHANGED <<model, width, all, terminals, unvisited>>
    PROVE  VisitInv' /\ TerminalsInv'
<1>1. Net' = Net /\ Met' = Met
  BY SameModel DEF Met
<1>2. VisitInv'
  BY <1>1 DEF VisitInv
<1>3. TerminalsInv'
  BY <1>1 DEF TerminalsInv
<1>4. QED
  BY <1>2, <1>3

\* The rest of the analysis leaves what has been met alone, and the view shows it.
LEMMA AnalysisKeeps ==
    ASSUME LeanInv, AnalysisNext, ~Visit, UNCHANGED <<fuel, listed, queue>>
    PROVE  LeanInv'
<1>1. UNCHANGED <<model, width, all, terminals, unvisited>>
  BY DEF AnalysisNext, Reached, Reduce, Reduced, Basis, Show
<1>2. \/ phase' \notin {"reach", "shown", "search", "elaborated", "rejected"}
      \/ phase' = "shown" /\ view' = View
  BY DEF AnalysisNext, Reached, Reduce, Reduced, Basis, Show
<1>3. phase' # "reach" /\ unvisited' = <<>>
  BY DEF LeanInv, AnalysisNext, Reached, Reduce, Reduced, Basis, Show
<1>4. VisitInv' /\ TerminalsInv'
  BY <1>1, SameVisits DEF LeanInv
<1>5. ListInv' /\ PassedInv'
  BY <1>2 DEF ListInv, PassedInv
<1>6. ViewInv'
  <2>1. CASE view' = View
    <3>1. /\ view'.fuel = Int64(2 ^ NP)
          /\ view'.reachCount = Len(all)
          /\ view'.final = IF Len(terminals) = 1 THEN Head(terminals) ELSE {}
      BY <2>1 DEF View
    <3>2. Int64(2 ^ NP)' = Int64(2 ^ NP)
      BY <1>1, SameModel
    <3>3. QED
      BY <1>1, <3>1, <3>2 DEF ViewInv
  <2>2. QED
    BY <1>2, <2>1 DEF ViewInv
<1>7. QED
  BY <1>1, <1>3, <1>4, <1>5, <1>6 DEF LeanInv

\* While the view stays, it shows what it showed.
LEMMA SameView ==
    ASSUME ViewInv, UNCHANGED <<model, width, all, terminals, view>>,
           phase \in {"shown", "search", "elaborated", "rejected"}
    PROVE  ViewInv'
<1>1. Int64(2 ^ NP)' = Int64(2 ^ NP)
  BY SameModel
<1>2. QED
  BY <1>1 DEF ViewInv

\* The search starts with the initial counts and all of its fuel.
LEMMA GenerateKeeps ==
    ASSUME LeanInv, Generate
    PROVE  LeanInv'
<1> DEFINE i == InitialTokens(Net)
           M == Markings(Net)
<1>1. /\ UNCHANGED <<model, width, all, terminals, unvisited, view>> /\ phase = "shown"
      /\ phase' # "reach" /\ phase' # "elaborated"
      /\ fuel' = view.fuel /\ listed' = <<i>> /\ queue' = <<i>>
  BY DEF Generate
<1>2. /\ model \in Models /\ width \in Widths /\ unvisited = <<>>
      /\ VisitInv /\ TerminalsInv /\ ViewInv
  BY <1>1 DEF LeanInv
<1>3. VisitInv' /\ TerminalsInv' /\ ViewInv'
  BY <1>1, <1>2, SameVisits, SameView
<1>4. ListInv'
  <2>1. i \in M /\ i \in LeanReachable
    BY <1>2, InitialTokensType, InitialTokensReached
  <2>2. <<i>> \in Seq(M) /\ ToSet(<<i>>) = {i} /\ Once(<<i>>)
    BY <2>1, OneElement
  <2>3. <<>> \in Seq(M) /\ Len(<<>>) = 0 /\ ToSet(<<>>) = {} /\ <<i>> = <<>> \o <<i>>
    BY <2>2, ConcatEmptySeq DEF ToSet
  <2>4. fuel' = Int64(2 ^ NP) /\ fuel' \in Int
    <3>1. fuel' = Int64(2 ^ NP)
      BY <1>1, <1>2 DEF ViewInv
    <3>2. Int64(2 ^ NP) \in Int
      BY <1>2, Int64Type
    <3>3. QED
      BY <3>1, <3>2
  <2>5. FuelHasRoom => fuel' + Len(<<>>) = 2 ^ NP
    BY <1>2, <2>3, <2>4, RoomForFuel
  <2>6. /\ Net' = Net /\ FuelHasRoom' = FuelHasRoom /\ DistinctEffects' = DistinctEffects
        /\ LeanReachable' = LeanReachable /\ (2 ^ NP)' = 2 ^ NP
        /\ \A m : LeanSuccessors(m)' = LeanSuccessors(m)
    BY <1>1, SameModel
  <2>7. queue' \in Seq(Markings(Net')) /\ Once(listed') /\ InitialTokens(Net') \in ToSet(listed')
        /\ ToSet(listed') \subseteq LeanReachable'
    BY <1>1, <2>1, <2>2, <2>6
  <2>8. \E done \in Seq(Markings(Net')) :
              /\ listed' = done \o queue'
              /\ FuelHasRoom' => fuel' + Len(done) = (2 ^ NP)'
              /\ \A m \in ToSet(done) : LeanSuccessors(m)' \subseteq ToSet(listed')
    BY <1>1, <2>3, <2>5, <2>6
  <2>9. QED
    BY <2>4, <2>7, <2>8 DEF ListInv
<1>5. QED
  BY <1>1, <1>2, <1>3, <1>4 DEF LeanInv, PassedInv

\* Four lists in a row are one list, whichever of them are joined first.
Regrouped(a, b, c, d) == (a \o (b \o c)) \o d = (a \o b) \o (c \o d)

\* The brackets can be moved.
LEMMA Regroup ==
    ASSUME NEW S, NEW a \in Seq(S), NEW b \in Seq(S), NEW c \in Seq(S), NEW d \in Seq(S)
    PROVE  Regrouped(a, b, c, d)
<1> DEFINE l == (a \o (b \o c)) \o d
           r == (a \o b) \o (c \o d)
           bc == b \o c
           ab == a \o b
           cd == c \o d
           abc == a \o bc
<1>1. bc \in Seq(S) /\ ab \in Seq(S) /\ cd \in Seq(S) /\ abc \in Seq(S)
  BY ConcatProperties
<1>2. l \in Seq(S) /\ r \in Seq(S)
  BY <1>1, ConcatProperties
<1>3. Len(l) = Len(a) + Len(b) + Len(c) + Len(d) /\ Len(r) = Len(l)
  BY <1>1, ConcatProperties
<1>4. ASSUME NEW i \in 1 .. Len(l) PROVE l[i] = r[i]
  BY <1>1, <1>3, ConcatProperties
<1> HIDE DEF l, r
<1>5. l = r
  BY <1>2, <1>3, <1>4, SeqEqual
<1>6. QED
  BY <1>5 DEF l, r, Regrouped

\* The head of the queue is expanded: one unit of fuel less, one marking more that
\* is done with, and what it adds is new to the list.
LEMMA SearchKeeps ==
    ASSUME LeanInv, Search
    PROVE  LeanInv'
<1> DEFINE M == Markings(Net)
           h == Head(queue)
           rest == Tail(queue)
           fresh == Fresh(h, ToSet(listed))
<1>1. /\ UNCHANGED <<model, width, phase, all, terminals, unvisited, view>>
      /\ phase = "search" /\ queue # <<>>
      /\ listed' = listed \o fresh /\ queue' = rest \o fresh /\ fuel' = fuel - 1
  BY DEF Search, analysisVars
<1>2. /\ model \in Models /\ width \in Widths /\ unvisited = <<>>
      /\ VisitInv /\ TerminalsInv /\ ViewInv /\ ListInv
  BY <1>1 DEF LeanInv
<1>3. VisitInv' /\ TerminalsInv' /\ ViewInv'
  BY <1>1, <1>2, SameVisits, SameView
<1>4. /\ queue \in Seq(M) /\ fuel \in Int
      /\ DistinctEffects => Once(listed)
      /\ InitialTokens(Net) \in ToSet(listed)
      /\ ToSet(listed) \subseteq LeanReachable
  BY <1>1, <1>2 DEF ListInv
<1>5. PICK done \in Seq(M) :
              /\ listed = done \o queue
              /\ FuelHasRoom => fuel + Len(done) = 2 ^ NP
              /\ \A m \in ToSet(done) : LeanSuccessors(m) \subseteq ToSet(listed)
  BY <1>1, <1>2 DEF ListInv
<1>6. /\ h \in M /\ rest \in Seq(M) /\ queue = <<h>> \o rest
      /\ <<h>> \in Seq(M) /\ h \in ToSet(queue)
  BY <1>1, <1>4, HeadAndTail, OneElement
<1>7. /\ fresh \in Seq(M) /\ ToSet(fresh) = LeanSuccessors(h) \ ToSet(listed)
      /\ DistinctEffects => Once(fresh)
  BY <1>2, <1>6, FreshFacts
<1> HIDE DEF h, rest, fresh, M
<1>8. listed \in Seq(M) /\ ToSet(queue) \subseteq ToSet(listed)
  BY <1>4, <1>5, ConcatProperties, ConcatOnce
<1>9. /\ listed' \in Seq(M) /\ ToSet(listed') = ToSet(listed) \cup ToSet(fresh)
      /\ DistinctEffects => Once(listed')
  <2>1. listed \o fresh \in Seq(M) /\ ToSet(listed \o fresh) = ToSet(listed) \cup ToSet(fresh)
    BY <1>7, <1>8, ConcatProperties, ConcatOnce
  <2>2. ToSet(listed) \cap ToSet(fresh) = {}
    BY <1>7
  <2>3. DistinctEffects => Once(listed \o fresh)
    BY <1>4, <1>7, <1>8, <2>2, ConcatOnce
  <2>4. QED
    BY <1>1, <2>1, <2>3
<1>10. queue' \in Seq(M)
  BY <1>1, <1>6, <1>7, ConcatProperties
<1> DEFINE more == Append(done, h)
<1>11. more \in Seq(M) /\ Len(more) = Len(done) + 1 /\ ToSet(more) = ToSet(done) \cup {h}
  BY <1>5, <1>6, AppendProperties, AppendToOnce
<1>12. listed' = more \o queue'
  <2>1. more = done \o <<h>>
    BY <1>5, <1>6, AppendIsConcat
  <2>2. listed' = (done \o (<<h>> \o rest)) \o fresh
    BY <1>1, <1>5, <1>6
  <2> DEFINE one == <<h>>
  <2>3. one \in Seq(M) /\ done \in Seq(M) /\ rest \in Seq(M) /\ fresh \in Seq(M)
    BY <1>5, <1>6, <1>7
  <2> HIDE DEF one, more, h, rest, fresh, M
  <2>4. Regrouped(done, one, rest, fresh)
    BY <2>3, Regroup
  <2>5. (done \o (one \o rest)) \o fresh = (done \o one) \o (rest \o fresh)
    BY <2>4 DEF Regrouped
  <2>6. QED
    BY <1>1, <2>1, <2>2, <2>5 DEF one
<1> HIDE DEF more
<1>13. \A m \in ToSet(more) : LeanSuccessors(m) \subseteq ToSet(listed')
  BY <1>5, <1>7, <1>9, <1>11
<1>14. FuelHasRoom => fuel' + Len(more) = 2 ^ NP
  <2>1. Len(done) \in Nat
    BY <1>5, LenProperties
  <2>2. fuel' + Len(more) = fuel + Len(done)
    BY <1>1, <1>4, <1>11, <2>1
  <2>3. QED
    BY <1>5, <2>2
<1>15. ToSet(listed') \subseteq LeanReachable
  <2>1. h \in LeanReachable
    BY <1>4, <1>6, <1>8
  <2>2. QED
    BY <1>2, <1>4, <1>7, <1>9, <2>1, LeanReachableStable
<1>16. ListInv'
  <2>1. /\ Net' = Net /\ FuelHasRoom' = FuelHasRoom /\ DistinctEffects' = DistinctEffects
        /\ LeanReachable' = LeanReachable /\ (2 ^ NP)' = 2 ^ NP
        /\ \A m : LeanSuccessors(m)' = LeanSuccessors(m)
    BY <1>1, SameModel
  <2>2. /\ queue' \in Seq(Markings(Net')) /\ fuel' \in Int
        /\ DistinctEffects' => Once(listed')
        /\ InitialTokens(Net') \in ToSet(listed') /\ ToSet(listed') \subseteq LeanReachable'
    BY <1>1, <1>4, <1>9, <1>10, <1>15, <2>1 DEF M
  <2>3. \E d \in Seq(Markings(Net')) :
              /\ listed' = d \o queue'
              /\ FuelHasRoom' => fuel' + Len(d) = (2 ^ NP)'
              /\ \A m \in ToSet(d) : LeanSuccessors(m)' \subseteq ToSet(listed')
    BY <1>11, <1>12, <1>13, <1>14, <2>1 DEF M
  <2>4. QED
    BY <2>2, <2>3 DEF ListInv
<1>17. QED
  BY <1>1, <1>2, <1>3, <1>16 DEF LeanInv, PassedInv

\* Nothing that ListInv and PassedInv speak of changes.
LEMMA SameList ==
    ASSUME ListInv, UNCHANGED <<model, width, fuel, listed, queue>>,
           phase' \in {"search", "elaborated", "rejected"}
               => phase \in {"search", "elaborated", "rejected"}
    PROVE  ListInv'
<1>1. /\ Net' = Net /\ FuelHasRoom' = FuelHasRoom /\ DistinctEffects' = DistinctEffects
      /\ LeanReachable' = LeanReachable /\ (2 ^ NP)' = 2 ^ NP
      /\ \A m : LeanSuccessors(m)' = LeanSuccessors(m)
  BY SameModel
<1>2. QED
  BY <1>1 DEF ListInv

\* The verdict.
LEMMA ElaborateKeeps ==
    ASSUME LeanInv, Elaborate
    PROVE  LeanInv'
<1>1. /\ UNCHANGED <<model, width, all, terminals, unvisited, view, fuel, listed, queue>>
      /\ phase = "search" /\ phase' \in {"elaborated", "rejected"}
      /\ phase' = "elaborated" => Theorems
  BY DEF Elaborate
<1>2. /\ model \in Models /\ width \in Widths /\ unvisited = <<>>
      /\ VisitInv /\ TerminalsInv /\ ViewInv /\ ListInv
  BY <1>1 DEF LeanInv
<1>3. VisitInv' /\ TerminalsInv' /\ ViewInv' /\ ListInv'
  BY <1>1, <1>2, SameVisits, SameView, SameList
<1>4. PassedInv'
  <2>1. Net' = Net /\ \A m : LeanSuccessors(m)' = LeanSuccessors(m)
    BY <1>1, SameModel
  <2>2. phase' = "elaborated" => ReachableClosed /\ ReachableOneSafe
    BY <1>1 DEF Theorems
  <2>3. QED
    BY <1>1, <2>1, <2>2 DEF PassedInv, ReachableClosed, ReachableOneSafe
<1>5. QED
  BY <1>1, <1>2, <1>3, <1>4 DEF LeanInv

\* Every step keeps the invariant.
LEMMA LeanInductive == LeanInv /\ [LeanNext]_leanVars => LeanInv'
<1> SUFFICES ASSUME LeanInv, [LeanNext]_leanVars PROVE LeanInv'
  OBVIOUS
<1>1. CASE Analyse
  <2>1. CASE Visit
    BY <1>1, <2>1, VisitKeeps DEF Analyse
  <2>2. CASE ~Visit
    BY <1>1, <2>2, AnalysisKeeps DEF Analyse
  <2>3. QED
    BY <2>1, <2>2
<1>2. CASE UNCHANGED leanVars
  <2>1. UNCHANGED <<model, width, phase, all, terminals, unvisited, view, fuel, listed, queue>>
    BY <1>2 DEF leanVars, analysisVars
  <2>2. VisitInv' /\ TerminalsInv' /\ ListInv'
    BY <2>1, SameVisits, SameList DEF LeanInv
  <2>3. ViewInv'
    BY <2>1, SameView DEF LeanInv, ViewInv
  <2>4. PassedInv'
    <3>1. Net' = Net /\ \A m : LeanSuccessors(m)' = LeanSuccessors(m)
      BY <2>1, SameModel
    <3>2. QED
      BY <2>1, <3>1 DEF LeanInv, PassedInv, ReachableClosed, ReachableOneSafe
  <2>5. QED
    BY <2>1, <2>2, <2>3, <2>4 DEF LeanInv
<1>3. QED
  BY <1>1, <1>2, GenerateKeeps, SearchKeeps, ElaborateKeeps DEF LeanNext

\* It holds for ever.
LEMMA LeanInvariance == LeanSpec => []LeanInv
BY LeanInitially, LeanInductive, PTL DEF LeanSpec
-----------------------------------------------------------------------------
(* The Lean form: the fuel.                                                 *)

\* Markings that are found once and hold one token at most are 2^n at most, so a
\* search that has spent 2^n units and has a queue left has found another kind.
LEMMA EnoughFuel ==
    ASSUME LeanInv, FuelHasRoom, Once(listed)
    PROVE  /\ OutOfFuel => ~ReachableOneSafe
           /\ phase = "search" /\ queue = <<>> => ReachableClosed
<1>1. ASSUME phase = "search"
      PROVE  \E done \in Seq(Markings(Net)) :
                /\ listed = done \o queue /\ listed \in Seq(Markings(Net))
                /\ Len(listed) = Len(done) + Len(queue)
                /\ Len(done) \in Nat /\ Len(queue) \in Nat
                /\ fuel + Len(done) = 2 ^ NP
                /\ \A m \in ToSet(done) : LeanSuccessors(m) \subseteq ToSet(listed)
  <2>1. PICK done \in Seq(Markings(Net)) :
                /\ listed = done \o queue
                /\ fuel + Len(done) = 2 ^ NP
                /\ \A m \in ToSet(done) : LeanSuccessors(m) \subseteq ToSet(listed)
    BY <1>1 DEF LeanInv, ListInv
  <2>2. queue \in Seq(Markings(Net))
    BY <1>1 DEF LeanInv, ListInv
  <2>3. /\ listed \in Seq(Markings(Net)) /\ Len(listed) = Len(done) + Len(queue)
        /\ Len(done) \in Nat /\ Len(queue) \in Nat
    BY <2>1, <2>2, ConcatProperties, LenProperties
  <2>4. QED
    BY <2>1, <2>3
<1>2. ASSUME OutOfFuel, ReachableOneSafe
      PROVE  FALSE
  <2>1. phase = "search" /\ fuel = 0 /\ queue # <<>>
    BY <1>2 DEF OutOfFuel
  <2>2. PICK done \in Seq(Markings(Net)) :
                /\ listed \in Seq(Markings(Net))
                /\ Len(listed) = Len(done) + Len(queue)
                /\ Len(done) \in Nat /\ Len(queue) \in Nat
                /\ fuel + Len(done) = 2 ^ NP
    BY <1>1, <2>1
  <2>3. model \in Models /\ queue \in Seq(Markings(Net))
    BY <2>1 DEF LeanInv, ListInv
  <2>4. Len(queue) # 0
    BY <2>1, <2>3, EmptySeq
  <2>5. Len(listed) <= 2 ^ NP
    BY <1>2, <2>2, <2>3, ListIsShort
  <2>6. QED
    BY <2>1, <2>2, <2>4, <2>5
<1>3. ASSUME phase = "search", queue = <<>>
      PROVE  ReachableClosed
  <2>1. PICK done \in Seq(Markings(Net)) :
                /\ listed = done \o queue
                /\ \A m \in ToSet(done) : LeanSuccessors(m) \subseteq ToSet(listed)
    BY <1>1, <1>3
  <2>2. listed = done
    BY <1>3, <2>1, ConcatEmptySeq
  <2>3. QED
    BY <2>1, <2>2 DEF ReachableClosed
<1>4. QED
  BY <1>2, <1>3

\* The fuel suffices.
THEOREM FuelIsEnough == LeanSpec => []FuelSuffices
<1>1. LeanInv => FuelSuffices
  <2> SUFFICES ASSUME LeanInv, FuelHasRoom, DistinctEffects, phase = "search"
               PROVE  /\ OutOfFuel => ~ReachableOneSafe
                      /\ phase = "search" /\ queue = <<>> => ReachableClosed
    BY DEF FuelSuffices, OutOfFuel
  <2>1. Once(listed)
    BY DEF LeanInv, ListInv
  <2>2. QED
    BY <2>1, EnoughFuel
<1>2. QED
  BY <1>1, LeanInvariance, PTL
-----------------------------------------------------------------------------
(* The Lean form: its spaces.                                               *)

\* Reachable of analysis.go, once it has returned: the first list has the reachable
\* markings, each once, and the second those of them that enable nothing.
AnalysisIsExact ==
    phase # "reach" =>
        /\ ToSet(all) = Reachable(Net)
        /\ Len(all) = Cardinality(Reachable(Net))
        /\ ToSet(terminals) = {m \in Reachable(Net) : Terminal(Net, m)}
        /\ Len(terminals) = Cardinality({m \in Reachable(Net) : Terminal(Net, m)})

\* The invariant says so: what has been met is closed under firing, and reachable.
LEMMA AnalysisFindsAll == LeanInv => AnalysisIsExact
<1> SUFFICES ASSUME LeanInv, phase # "reach"
             PROVE  /\ ToSet(all) = Reachable(Net)
                    /\ Len(all) = Cardinality(Reachable(Net))
                    /\ ToSet(terminals) = {m \in Reachable(Net) : Terminal(Net, m)}
                    /\ Len(terminals) = Cardinality({m \in Reachable(Net) : Terminal(Net, m)})
  BY DEF AnalysisIsExact
<1>1. unvisited = <<>> /\ VisitInv /\ TerminalsInv
  BY DEF LeanInv
<1>2. ToSet(unvisited) = {}
  BY <1>1 DEF ToSet
<1>3. Met = ToSet(all) /\ ToSet(all) \in SUBSET SUBSET Net.places
  BY <1>1, <1>2, ToSetOf DEF Met, VisitInv
<1>4. Stable(Net, ToSet(all))
  BY <1>1, <1>3 DEF Stable, VisitInv
<1>5. ToSet(all) = Reachable(Net)
  BY <1>1, <1>3, <1>4, ReachableLeast DEF VisitInv
<1>6. ToSet(terminals) = {m \in Reachable(Net) : Terminal(Net, m)}
  BY <1>1, <1>5 DEF TerminalsInv
<1>7. Len(all) = Cardinality(ToSet(all))
  BY <1>1, OnceCounts DEF VisitInv
<1>8. Len(terminals) = Cardinality(ToSet(terminals))
  BY <1>1, OnceCounts DEF TerminalsInv
<1>9. QED
  BY <1>5, <1>6, <1>7, <1>8

\* The breadth-first search of analysis.go finds the state space of the canonical
\* semantics and its deadlocks, for every model.
THEOREM AnalysisExplores == LeanSpec => []AnalysisIsExact
BY AnalysisFindsAll, LeanInvariance, PTL

\* In a list that is closed and 1-safe the counts enable what the sets enable.
LEMMA LeanSameEnabled ==
    ASSUME model \in Models, NoSelfLoops(Net), NEW m \in Markings(Net), NEW t \in Trans(Net),
           LeanEnabled(m, t) => OneSafe(Net, PTFire(Net, m, t))
    PROVE  LeanEnabled(m, t) <=> Enabled(Net, Support(Net, m), t)
<1> DEFINE tr == Net.transitions[t]
           k == Support(Net, m)
<1>0. IsNet(Net)
  BY ModelFacts
<1>1. /\ tr.inputs \subseteq Net.places
      /\ tr.guards \subseteq Net.places
      /\ tr.blockers \subseteq Net.places
  BY <1>0, TransitionType DEF Transition
<1>2. /\ \A p \in Net.places : m[p] >= 1 <=> p \in k
      /\ \A p \in Net.places : m[p] = 0 <=> p \notin k
  BY DEF Support, Markings
<1>3. LeanEnabled(m, t) <=> tr.inputs \subseteq k /\ tr.guards \subseteq k /\ tr.blockers \cap k = {}
  <2>1. PTEnabled(Net, m, t) <=> tr.inputs \subseteq k /\ tr.guards \subseteq k
    BY <1>1, <1>2 DEF PTEnabled
  <2>2. (\A p \in tr.blockers : m[p] = 0) <=> tr.blockers \cap k = {}
    BY <1>1, <1>2
  <2> HIDE DEF k, tr
  <2>3. QED
    BY <2>1, <2>2 DEF LeanEnabled, tr
<1>4. LeanEnabled(m, t) => tr.outputs \cap k = {}
  BY <1>0, OutputsAreClear DEF LeanEnabled
<1>5. QED
  BY <1>3, <1>4 DEF Enabled

\* A list that is closed and 1-safe shows the reachable markings and their deadlocks:
\* the clause that outputs are clear, which Lean does not test, never decides.
LEMMA ListShowsSpace ==
    ASSUME LeanInv, phase \in {"search", "elaborated"},
           ReachableClosed, ReachableOneSafe, NoSelfLoops(Net)
    PROVE  /\ {Support(Net, m) : m \in ToSet(listed)} = Reachable(Net)
           /\ {Support(Net, m) : m \in {m \in ToSet(listed) : Deadlocked(m)}}
                  = {k \in Reachable(Net) : Terminal(Net, k)}
<1> DEFINE L == ToSet(listed)
           Shows == {Support(Net, m) : m \in L}
           Good == {m \in L : Support(Net, m) \in Reachable(Net)}
<1>1. /\ model \in Models /\ IsNet(Net)
      /\ InitialTokens(Net) \in L /\ L \subseteq LeanReachable /\ L \subseteq Markings(Net)
  BY ModelFacts DEF LeanInv, ListInv, LeanReachable
<1>2. \A m \in L : OneSafe(Net, m) /\ LeanSuccessors(m) \subseteq L
  BY DEF ReachableClosed, ReachableOneSafe
<1>3. \A m \in L, t \in Trans(Net) : LeanEnabled(m, t) => PTFire(Net, m, t) \in L
  BY <1>2 DEF LeanSuccessors
<1>4. \A m \in L, t \in Trans(Net) :
         /\ LeanEnabled(m, t) <=> Enabled(Net, Support(Net, m), t)
         /\ LeanEnabled(m, t) =>
              Support(Net, PTFire(Net, m, t)) = Fire(Net, Support(Net, m), t)
  <2> SUFFICES ASSUME NEW m \in L, NEW t \in Trans(Net)
               PROVE  /\ LeanEnabled(m, t) <=> Enabled(Net, Support(Net, m), t)
                      /\ LeanEnabled(m, t) =>
                           Support(Net, PTFire(Net, m, t)) = Fire(Net, Support(Net, m), t)
    OBVIOUS
  <2>1. m \in Markings(Net) /\ OneSafe(Net, m)
        /\ (LeanEnabled(m, t) => OneSafe(Net, PTFire(Net, m, t)))
    BY <1>1, <1>2, <1>3
  <2>2. LeanEnabled(m, t) <=> Enabled(Net, Support(Net, m), t)
    BY <1>1, <2>1, LeanSameEnabled
  <2>3. LeanEnabled(m, t) => PTEnabled(Net, m, t)
    BY DEF LeanEnabled
  <2>4. QED
    BY <1>1, <2>1, <2>2, <2>3, SameFire
<1> HIDE DEF L
<1>5. Reachable(Net) \subseteq Shows
  <2>1. Net.initial \in Shows
    BY <1>1, InitialSupport
  <2>2. ASSUME NEW k \in Shows, NEW t \in EnabledIn(Net, k)
        PROVE  Fire(Net, k, t) \in Shows
    <3>1. PICK m \in L : k = Support(Net, m)
      OBVIOUS
    <3>2. t \in Trans(Net) /\ LeanEnabled(m, t)
      BY <1>4, <3>1 DEF EnabledIn
    <3>3. Fire(Net, k, t) = Support(Net, PTFire(Net, m, t)) /\ PTFire(Net, m, t) \in L
      BY <1>3, <1>4, <3>1, <3>2
    <3>4. QED
      BY <3>3
  <2>3. Shows \in SUBSET SUBSET Net.places
    BY DEF Support
  <2>4. Stable(Net, Shows)
    BY <2>1, <2>2 DEF Stable
  <2> HIDE DEF Shows
  <2>5. QED
    BY <2>3, <2>4, ReachableLeast
<1>6. Shows \subseteq Reachable(Net)
  <2>1. InitialTokens(Net) \in Good
    BY <1>1, InitialSupport, ReachableStable DEF Stable
  <2>2. ASSUME NEW m \in Good, NEW s \in LeanSuccessors(m)
        PROVE  s \in Good
    <3>1. PICK t \in Trans(Net) : LeanEnabled(m, t) /\ s = PTFire(Net, m, t)
      BY DEF LeanSuccessors
    <3>2. t \in EnabledIn(Net, Support(Net, m))
      BY <1>4, <3>1 DEF EnabledIn
    <3>3. Support(Net, s) \in Reachable(Net)
      BY <1>1, <1>4, <3>1, <3>2, ReachableStable DEF Stable
    <3>4. s \in L
      BY <1>3, <3>1
    <3>5. QED
      BY <3>3, <3>4
  <2>3. LeanStable(Good) /\ Good \in SUBSET Markings(Net)
    BY <1>1, <2>1, <2>2 DEF LeanStable
  <2>4. LeanReachable \subseteq Good
    <3> HIDE DEF Good
    <3>1. QED
      BY <2>3 DEF LeanReachable
  <2>5. QED
    BY <1>1, <2>4
<1>7. \A m \in L : Deadlocked(m) <=> Terminal(Net, Support(Net, m))
  BY <1>4 DEF Deadlocked, Terminal, EnabledIn
<1>8. QED
  BY <1>5, <1>6, <1>7 DEF L

\* A file that elaborated has seen the space that the analysis has found, deadlocks
\* included, and the count that it quotes is the number of its own markings.
THEOREM SearchesAgree == LeanSpec => []SpacesAgree
<1>1. LeanInv => SpacesAgree
  <2> SUFFICES ASSUME LeanInv, phase = "elaborated", NoSelfLoops(Net)
               PROVE  /\ {Support(Net, m) : m \in ToSet(listed)} = ToSet(all)
                      /\ view.reachCount = Cardinality(ToSet(listed))
                      /\ {Support(Net, m) : m \in {m \in ToSet(listed) : Deadlocked(m)}}
                             = ToSet(terminals)
    BY DEF SpacesAgree
  <2>1. ReachableClosed /\ ReachableOneSafe
    BY DEF LeanInv, PassedInv
  <2>2. /\ {Support(Net, m) : m \in ToSet(listed)} = Reachable(Net)
        /\ {Support(Net, m) : m \in {m \in ToSet(listed) : Deadlocked(m)}}
               = {k \in Reachable(Net) : Terminal(Net, k)}
    BY <2>1, ListShowsSpace
  <2>3. /\ ToSet(all) = Reachable(Net)
        /\ Len(all) = Cardinality(Reachable(Net))
        /\ ToSet(terminals) = {k \in Reachable(Net) : Terminal(Net, k)}
    BY AnalysisFindsAll DEF AnalysisIsExact
  <2>4. view.reachCount = Len(all)
    BY DEF LeanInv, ViewInv
  <2>5. Cardinality(ToSet(listed)) = Cardinality(Reachable(Net))
    <3> DEFINE L == ToSet(listed)
               f == [m \in L |-> Support(Net, m)]
    <3>1. L \subseteq Markings(Net) /\ \A m \in L : OneSafe(Net, m)
      BY <2>1 DEF LeanInv, ListInv, LeanReachable, ReachableOneSafe
    <3> HIDE DEF L
    <3>2. f \in [L -> Reachable(Net)]
      BY <2>2 DEF L
    <3>3. \A a, b \in L : f[a] = f[b] => a = b
      BY <3>1, SupportTells
    <3>4. \A k \in Reachable(Net) : \E m \in L : f[m] = k
      BY <2>2 DEF L
    <3> HIDE DEF f
    <3>5. f \in Injection(L, Reachable(Net)) /\ f \in Surjection(L, Reachable(Net))
      BY <3>2, <3>3, <3>4 DEF Injection, IsInjective, Surjection
    <3>6. IsFiniteSet(Reachable(Net))
      <4>1. model \in Models
        BY DEF LeanInv
      <4>2. IsFiniteSet(SUBSET Net.places)
        BY <4>1, ModelFacts, FS_SUBSET
      <4>3. Reachable(Net) \in SUBSET SUBSET Net.places
        BY DEF Reachable
      <4>4. QED
        BY <4>2, <4>3, FS_Subset
    <3>7. Cardinality(L) = Cardinality(Reachable(Net))
      BY <3>5, <3>6, FS_Injection
    <3>8. QED
      BY <3>7 DEF L
  <2>6. QED
    BY <2>2, <2>3, <2>4, <2>5
<1>2. QED
  BY <1>1, LeanInvariance, PTL
-----------------------------------------------------------------------------
(* The Lean form: its verdict.                                              *)

\* What Elaborates says, without a word on the arithmetic: a sum may fail for any reason.
RefusedInv ==
    phase = "rejected" =>
        \/ ~ReachableOneSafe
        \/ ~FuelHasRoom
        \/ ~InvariantsConserved
        \/ ListedTwice /\ ~DistinctEffects /\ ~(ReachableClosed /\ UniqueDeadlock)
        \/ ~NoSelfLoops(Net) /\ ~UniqueDeadlock

\* The marking that unique_deadlock names is the one deadlock of a closed 1-safe list.
LEMMA FinalIsUnique ==
    ASSUME LeanInv, phase = "search", Once(listed),
           ReachableClosed, ReachableOneSafe, NoSelfLoops(Net)
    PROVE  UniqueDeadlock
<1> SUFFICES ASSUME view.final # {}
             PROVE  \E k \in DOMAIN listed :
                       /\ listed[k] = FinalMarking
                       /\ {j \in DOMAIN listed : Deadlocked(listed[j])} = {k}
  BY DEF UniqueDeadlock
<1> DEFINE M == Markings(Net)
           final == view.final
           n == Len(listed)
<1>1. /\ Len(terminals) = 1 /\ final = Head(terminals)
      /\ terminals \in Seq(SUBSET Net.places) /\ VisitInv
      /\ phase # "reach"
  BY DEF LeanInv, TerminalsInv, ViewInv
<1>2. final \in SUBSET Net.places /\ ToSet(terminals) = {final}
  <2>1. terminals # <<>>
    BY <1>1, EmptySeq
  <2>2. final \in SUBSET Net.places /\ final = terminals[1]
    BY <1>1, <2>1, HeadTailProperties
  <2>3. ToSet(terminals) = {terminals[k] : k \in 1..1}
    BY <1>1, ToSetOf
  <2>4. QED
    BY <2>2, <2>3
<1>3. listed \in Seq(M) /\ Once(listed)
  <2>1. PICK done \in Seq(M) : listed = done \o queue
    BY DEF LeanInv, ListInv
  <2>2. queue \in Seq(M)
    BY DEF LeanInv, ListInv
  <2>3. QED
    BY <2>1, <2>2, ConcatProperties
<1>4. /\ n \in Nat /\ DOMAIN listed = 1..n /\ ToSet(listed) = {listed[k] : k \in 1..n}
      /\ \A k \in 1..n : listed[k] \in M /\ OneSafe(Net, listed[k])
  <2>1. n \in Nat /\ DOMAIN listed = 1..n /\ ToSet(listed) = {listed[k] : k \in 1..n}
    BY <1>3, LenProperties, ToSetOf
  <2>2. QED
    BY <1>3, <2>1, ElementOfSeq DEF ReachableOneSafe
<1>5. {Support(Net, m) : m \in {m \in ToSet(listed) : Deadlocked(m)}} = {final}
  BY <1>1, <1>2, ListShowsSpace, AnalysisFindsAll DEF AnalysisIsExact
<1>6. FinalMarking \in M /\ OneSafe(Net, FinalMarking) /\ Support(Net, FinalMarking) = final
  <2>1. final \subseteq Net.places
    BY <1>2
  <2>2. FinalMarking = [p \in Net.places |-> IF p \in final THEN 1 ELSE 0]
    BY DEF FinalMarking
  <2> HIDE DEF final
  <2>3. FinalMarking \in M /\ OneSafe(Net, FinalMarking)
    BY <2>2 DEF Markings, OneSafe
  <2>4. \A p \in Net.places : FinalMarking[p] > 0 <=> p \in final
    BY <2>2
  <2>5. QED
    BY <2>1, <2>3, <2>4 DEF Support
<1> HIDE DEF final, n, M
<1>7. ASSUME NEW j \in 1..n, Deadlocked(listed[j])
      PROVE  listed[j] = FinalMarking
  <2>1. Support(Net, listed[j]) = final
    BY <1>4, <1>5, <1>7
  <2>2. QED
    BY <1>4, <1>6, <2>1, SupportTells DEF M
<1>8. PICK k \in 1..n : Deadlocked(listed[k])
  <2>1. PICK m \in ToSet(listed) : Deadlocked(m)
    BY <1>5
  <2>2. QED
    BY <1>4, <2>1
<1>9. {j \in 1..n : Deadlocked(listed[j])} = {k}
  <2>1. ASSUME NEW j \in 1..n, Deadlocked(listed[j])
        PROVE  j = k
    <3>1. listed[j] = listed[k]
      BY <1>7, <1>8, <2>1
    <3>2. QED
      BY <1>3, <3>1 DEF Once, n
  <2>2. QED
    BY <1>8, <2>1
<1>10. QED
  BY <1>4, <1>7, <1>8, <1>9

\* A list without repetitions is one that no element occurs in twice.
LEMMA ListedOnce ==
    ASSUME LeanInv, phase = "search"
    PROVE  Once(listed) <=> ~ListedTwice
<1>1. PICK done \in Seq(Markings(Net)) : listed = done \o queue
  BY DEF LeanInv, ListInv
<1>2. listed \in Seq(Markings(Net))
  BY <1>1, ConcatProperties DEF LeanInv, ListInv
<1>3. DOMAIN listed = 1..Len(listed)
  BY <1>2, LenProperties
<1>4. QED
  BY <1>3 DEF Once, ListedTwice, IsInjective

\* The theorems are evaluated once, on the list that the search has left.
LEMMA ElaborateRefuses ==
    ASSUME LeanInv, Elaborate, phase' = "rejected",
           ReachableOneSafe, FuelHasRoom, InvariantsConserved
    PROVE  \/ ListedTwice /\ ~DistinctEffects /\ ~(ReachableClosed /\ UniqueDeadlock)
           \/ ~NoSelfLoops(Net) /\ ~UniqueDeadlock
<1>1. /\ phase = "search" /\ (fuel = 0 \/ queue = <<>>)
      /\ ~(ReachableClosed /\ UniqueDeadlock)
  BY DEF Elaborate, Theorems
<1>2. CASE ListedTwice
  <2>1. ~DistinctEffects
    BY <1>1, <1>2, ListedOnce DEF LeanInv, ListInv
  <2>2. QED
    BY <1>1, <1>2, <2>1
<1>3. CASE ~ListedTwice
  <2>1. Once(listed)
    BY <1>1, <1>3, ListedOnce
  <2>2. /\ OutOfFuel => ~ReachableOneSafe
        /\ phase = "search" /\ queue = <<>> => ReachableClosed
    BY <2>1, EnoughFuel
  <2>3. ReachableClosed
    BY <1>1, <2>2 DEF OutOfFuel
  <2>4. QED
    BY <1>1, <2>1, <2>3, FinalIsUnique
<1>4. QED
  BY <1>2, <1>3

\* Every refusal, of every model and at every width, has a cause among these: two tokens
\* in a place; a fuel cut to the width; a sum; a marking that the list has twice, which
\* takes two transitions of one effect, and then closure or the deadlock fails; or a
\* self-loop, and then the deadlock fails.
THEOREM RefusedForCause == LeanSpec => []RefusedInv
<1>1. LeanInit => RefusedInv
  BY DEF LeanInit, AnalysisInit, RefusedInv
<1>2. LeanInv /\ RefusedInv /\ [LeanNext]_leanVars => RefusedInv'
  <2> SUFFICES ASSUME LeanInv, RefusedInv, [LeanNext]_leanVars, phase' = "rejected",
                      ReachableOneSafe', FuelHasRoom', InvariantsConserved'
               PROVE  \/ ListedTwice' /\ ~DistinctEffects'
                              /\ ~(ReachableClosed' /\ UniqueDeadlock')
                      \/ ~NoSelfLoops(Net)' /\ ~UniqueDeadlock'
    BY DEF RefusedInv
  <2>1. UNCHANGED <<model, width>>
    BY DEF LeanNext, leanVars, analysisVars, Analyse, AnalysisNext, Visit, Reached, Reduce,
           Reduced, Basis, Show, Generate, Search, Elaborate
  <2>2. /\ Net' = Net /\ NP' = NP /\ FuelHasRoom /\ DistinctEffects' = DistinctEffects
        /\ NoSelfLoops(Net)' <=> NoSelfLoops(Net)
    BY <2>1, SameModel
  <2>3. CASE Generate
    <3>1. phase = "shown" /\ view.fuel < 0
      BY <2>3 DEF Generate
    <3>2. model \in Models /\ width \in Widths /\ view.fuel = Int64(2 ^ NP)
      BY <3>1 DEF LeanInv, ViewInv
    <3>3. view.fuel \in Nat
      BY <2>2, <3>2, RoomForFuel
    <3>4. QED
      BY <3>1, <3>3
  <2>4. ASSUME UNCHANGED <<listed, basis, view>>
        PROVE  /\ ReachableOneSafe' <=> ReachableOneSafe
               /\ InvariantsConserved' <=> InvariantsConserved
               /\ ReachableClosed' <=> ReachableClosed
               /\ UniqueDeadlock' <=> UniqueDeadlock
               /\ ListedTwice' <=> ListedTwice
    <3>1. ReachableOneSafe' <=> ReachableOneSafe
      BY <2>2, <2>4 DEF ReachableOneSafe
    <3>2. \A w, m : WeightedCount(w, m)' = WeightedCount(w, m)
      BY <2>1, <2>2 DEF WeightedCount
    <3>3. InvariantsConserved' <=> InvariantsConserved
      BY <2>4, <3>2 DEF InvariantsConserved
    <3>4. ReachableClosed' <=> ReachableClosed
      BY <2>1, <2>4, SameModel DEF ReachableClosed
    <3>5. \A m : Deadlocked(m)' <=> Deadlocked(m)
      BY <2>2 DEF Deadlocked, LeanEnabled, PTEnabled, Trans
    <3>6. UniqueDeadlock' <=> UniqueDeadlock
      <4>1. FinalMarking' = FinalMarking
        BY <2>2, <2>4 DEF FinalMarking
      <4>2. QED
        BY <2>4, <3>5, <4>1 DEF UniqueDeadlock
    <3>7. ListedTwice' <=> ListedTwice
      BY <2>4 DEF ListedTwice, IsInjective
    <3>8. QED
      BY <3>1, <3>3, <3>4, <3>6, <3>7
  <2>5. CASE Elaborate
    <3>1. UNCHANGED <<listed, basis, view>>
      BY <2>5 DEF Elaborate
    <3>2. QED
      BY <2>2, <2>4, <2>5, <3>1, ElaborateRefuses
  <2>6. CASE UNCHANGED leanVars
    <3>1. UNCHANGED <<listed, basis, view>> /\ phase = "rejected"
      BY <2>6 DEF leanVars, analysisVars
    <3>2. QED
      BY <2>2, <2>4, <3>1 DEF RefusedInv
  <2>7. CASE Search
    BY <2>7 DEF Search, analysisVars
  <2>8. CASE Analyse
    BY <2>8 DEF Analyse, AnalysisNext, Visit, Reached, Reduce, Reduced, Basis, Show
  <2>9. QED
    BY <2>3, <2>5, <2>6, <2>7, <2>8 DEF LeanNext
<1>3. QED
  BY <1>1, <1>2, LeanInvariance, PTL DEF LeanSpec
-----------------------------------------------------------------------------
(* The Lean form: its sums.                                                 *)

\* SumOf sums.
LEMMA SumIsTotal ==
    ASSUME NEW f, IntValued(f), IsFiniteSet(DOMAIN f)
    PROVE  SumOf(f) = Total(f, DOMAIN f)
<1>1. SumOf(f) = (CHOOSE g : Adds(f, DOMAIN f, g))[DOMAIN f]
  BY Zenon DEF SumOf, FoldFunction, FoldFunctionOnSet, MapThenFoldSet, Adds
<1>2. QED
  BY <1>1, FoldIsTotal

\* The sum of sums.
LEMMA SumsAdd ==
    ASSUME NEW D, IsFiniteSet(D), NEW f \in [D -> Int], NEW g \in [D -> Int],
           NEW h \in [D -> Int], \A p \in D : h[p] = f[p] + g[p]
    PROVE  SumOf(h) = SumOf(f) + SumOf(g)
<1>1. IntValued(f) /\ IntValued(g) /\ IntValued(h)
  BY DEF IntValued
<1>2. \A S \in SUBSET D : IsFiniteSet(S)
  BY FS_Subset
<1>3. \A S \in SUBSET D :
         Total(f, S) \in Int /\ Total(g, S) \in Int /\ Total(h, S) \in Int
  BY <1>1, <1>2, TotalFacts
<1>4. Total(f, {}) = 0 /\ Total(g, {}) = 0 /\ Total(h, {}) = 0
  BY <1>1, TotalFacts
<1>5. ASSUME NEW S \in SUBSET D, NEW p \in S
      PROVE  /\ Total(f, S) = f[p] + Total(f, S \ {p})
             /\ Total(g, S) = g[p] + Total(g, S \ {p})
             /\ Total(h, S) = h[p] + Total(h, S \ {p})
  <2>1. /\ {p} \in SUBSET D /\ S \ {p} \in SUBSET D
        /\ {p} \cap (S \ {p}) = {} /\ {p} \cup (S \ {p}) = S
    OBVIOUS
  <2>2. IsFiniteSet({p}) /\ IsFiniteSet(S \ {p})
    BY <1>2, <2>1
  <2>3. \A e \in {f, g, h} : IntValued(e) /\ DOMAIN e = D
    BY <1>1
  <2>4. ASSUME NEW e \in {f, g, h}
        PROVE  Total(e, S) = e[p] + Total(e, S \ {p})
    <3> DEFINE A == {p}
               B == S \ {p}
    <3>1. IntValued(e) /\ A \in SUBSET DOMAIN e /\ B \in SUBSET DOMAIN e /\ p \in DOMAIN e
      BY <2>1, <2>3
    <3>2. /\ IsFiniteSet(A) /\ IsFiniteSet(B) /\ A \cap B = {} /\ A \cup B = S
          /\ Total(e, A) = e[p]
      BY <2>1, <2>2, <3>1, TotalFacts
    <3> HIDE DEF A, B
    <3>3. Total(e, A \cup B) = Total(e, A) + Total(e, B)
      BY <3>1, <3>2, TotalFacts
    <3>4. QED
      BY <3>2, <3>3 DEF B
  <2>5. QED
    BY <2>4
<1> DEFINE wrong == {S \in SUBSET D : Total(h, S) # Total(f, S) + Total(g, S)}
<1>6. wrong = {}
  <2> SUFFICES ASSUME wrong # {} PROVE FALSE
    OBVIOUS
  <2>1. wrong \subseteq FiniteSubsetsOf(D)
    BY FS_FiniteSubsetsOfFinite
  <2>2. PICK S \in wrong : \A r \in wrong : <<r, S>> \notin StrictSubsetOrdering(D)
    BY <2>1, FS_StrictSubsetOrderingWellFounded, WFMin, Zenon
  <2>3. S # {}
    BY <1>4
  <2>4. PICK p \in S : TRUE
    BY <2>3
  <2>5. <<S \ {p}, S>> \in StrictSubsetOrdering(D)
    BY <2>4 DEF StrictSubsetOrdering
  <2>6. S \ {p} \notin wrong
    BY <2>2, <2>5
  <2>7. Total(h, S \ {p}) = Total(f, S \ {p}) + Total(g, S \ {p})
    BY <2>6
  <2>8. /\ S \in SUBSET D /\ S \ {p} \in SUBSET D /\ p \in D
        /\ h[p] = f[p] + g[p] /\ f[p] \in Int /\ g[p] \in Int /\ h[p] \in Int
    OBVIOUS
  <2>9. /\ Total(f, S) = f[p] + Total(f, S \ {p})
        /\ Total(g, S) = g[p] + Total(g, S \ {p})
        /\ Total(h, S) = h[p] + Total(h, S \ {p})
    BY <1>5, <2>4, <2>8
  <2>10. Total(h, S) = Total(f, S) + Total(g, S)
    BY <1>3, <2>7, <2>8, <2>9
  <2>11. QED
    BY <2>10
<1>7. Total(h, D) = Total(f, D) + Total(g, D)
  BY <1>6
<1>8. SumOf(f) = Total(f, D) /\ SumOf(g) = Total(g, D) /\ SumOf(h) = Total(h, D)
  BY <1>1, SumIsTotal
<1>9. QED
  BY <1>7, <1>8

\* An element that a list has once is counted once, one that it has not is not counted.
LEMMA OccursOnce ==
    ASSUME NEW list, IsInjective(list), NEW p
    PROVE  Occurs(list, p) = IF p \in ToSet(list) THEN 1 ELSE 0
<1> DEFINE K == {k \in DOMAIN list : list[k] = p}
<1>1. CASE p \in ToSet(list)
  <2>1. PICK k \in DOMAIN list : list[k] = p
    BY <1>1 DEF ToSet
  <2>2. K = {k}
    BY <2>1 DEF IsInjective
  <2>3. QED
    BY <1>1, <2>2, FS_Singleton DEF Occurs
<1>2. CASE p \notin ToSet(list)
  <2>1. K = {}
    BY <1>2 DEF ToSet
  <2>2. QED
    BY <1>2, <2>1, FS_EmptySet DEF Occurs
<1>3. QED
  BY <1>1, <1>2

\* The places and the transitions of a net are those of the lists, by their positions.
LEMMA Numbered ==
    ASSUME model \in Models
    PROVE  /\ Trans(Net) = 1..NT
           /\ \A p \in 1..NP : model.places[p] \in Net.places
<1>1. /\ model.transitions \in Seq(ToSet(model.transitions))
      /\ model.places \in Seq(ToSet(model.places))
  BY ModelsAssumption
<1>2. DOMAIN model.transitions = 1..NT
  BY <1>1, LenProperties DEF NT
<1>3. Trans(Net) = DOMAIN model.transitions /\ Net.places = ToSet(model.places)
  BY DEF Net, AsNet, Trans
<1>4. \A p \in 1..NP : model.places[p] \in ToSet(model.places)
  BY <1>1, ToSetOf DEF NP
<1>5. QED
  BY <1>2, <1>3, <1>4

\* The incidence of lists without repetitions is what a firing does to a count.
LEMMA IncidenceIsEffect ==
    ASSUME model \in Models, SimpleArcs, NEW t \in Trans(Net), NEW p \in 1..NP
    PROVE  Incidence(p, t)
             = (IF model.places[p] \in Net.transitions[t].outputs THEN 1 ELSE 0)
               - (IF model.places[p] \in Net.transitions[t].inputs THEN 1 ELSE 0)
<1> DEFINE tr == model.transitions[t]
<1>1. IsNet(Net)
  BY ModelFacts
<1>2. /\ t \in DOMAIN model.transitions
      /\ Net.transitions[t] = [arcs \in DOMAIN tr |-> ToSet(tr[arcs])]
  BY DEF Net, AsNet, Trans
<1>3. DOMAIN Net.transitions[t] = {"inputs", "outputs", "guards", "blockers"}
  BY <1>1, TransitionType DEF Transition
<1>4. "inputs" \in DOMAIN tr /\ "outputs" \in DOMAIN tr
  BY <1>2, <1>3
<1>5. /\ Net.transitions[t].inputs = ToSet(tr.inputs)
      /\ Net.transitions[t].outputs = ToSet(tr.outputs)
  BY <1>2, <1>4
<1>6. IsInjective(tr.inputs) /\ IsInjective(tr.outputs)
  BY <1>2, <1>4 DEF SimpleArcs
<1>7. QED
  BY <1>5, <1>6, OccursOnce DEF Incidence

\* A weight times the sum of two numbers.
LEMMA Distributes ==
    ASSUME NEW w \in Int, NEW m \in Int, NEW e \in Int
    PROVE  /\ w * (m + e) = w * m + w * e
           /\ w * m \in Int /\ w * e \in Int /\ w * (m + e) \in Int
OBVIOUS

\* A null vector weighs the counts after a firing as before it.
LEMMA FiringKeepsSum ==
    ASSUME model \in Models, SimpleArcs, NEW w \in [1..NP -> Int], IsNullVector(w),
           NEW m \in Markings(Net), NEW t \in Trans(Net)
    PROVE  WeightedCount(w, PTFire(Net, m, t)) = WeightedCount(w, m)
<1> DEFINE D == 1..NP
           e(p) == Incidence(p, t)
           f == [p \in D |-> w[p] * m[model.places[p]]]
           g == [p \in D |-> w[p] * e(p)]
           h == [p \in D |-> w[p] * PTFire(Net, m, t)[model.places[p]]]
<1>1. /\ t \in 1..NT
      /\ \A p \in D :
            e(p) = (IF model.places[p] \in Net.transitions[t].outputs THEN 1 ELSE 0)
                   - (IF model.places[p] \in Net.transitions[t].inputs THEN 1 ELSE 0)
  BY IncidenceIsEffect, Numbered
<1>2. ASSUME NEW p \in D
      PROVE  /\ w[p] \in Int /\ e(p) \in Int /\ m[model.places[p]] \in Int
             /\ PTFire(Net, m, t)[model.places[p]] = m[model.places[p]] + e(p)
  <2>1. model.places[p] \in Net.places
    BY Numbered
  <2> DEFINE q == model.places[p]
  <2>2. m[q] \in Nat
    BY <2>1 DEF Markings
  <2>3. PTFire(Net, m, t)[q] = m[q] - (IF q \in Net.transitions[t].inputs THEN 1 ELSE 0)
                                    + (IF q \in Net.transitions[t].outputs THEN 1 ELSE 0)
    BY <2>1 DEF PTFire
  <2>4. e(p) = (IF q \in Net.transitions[t].outputs THEN 1 ELSE 0)
               - (IF q \in Net.transitions[t].inputs THEN 1 ELSE 0)
    BY <1>1
  <2> HIDE DEF q, e
  <2>5. QED
    BY <2>2, <2>3, <2>4 DEF q
<1> HIDE DEF e
<1>3. ASSUME NEW p \in D
      PROVE  f[p] \in Int /\ g[p] \in Int /\ h[p] \in Int /\ h[p] = f[p] + g[p]
  BY <1>2, Distributes
<1>4. f \in [D -> Int] /\ g \in [D -> Int] /\ h \in [D -> Int]
  BY <1>3
<1>5. IsFiniteSet(D)
  <2>1. NP \in Nat
    BY ModelFacts
  <2>2. QED
    BY <2>1, FS_Interval
<1> HIDE DEF f, g, h, D
<1>6. SumOf(h) = SumOf(f) + SumOf(g)
  <2>1. \A p \in D : h[p] = f[p] + g[p]
    BY <1>3
  <2>2. \A E : IsFiniteSet(E) =>
           \A x, y, z \in [E -> Int] :
              (\A p \in E : z[p] = x[p] + y[p]) => SumOf(z) = SumOf(x) + SumOf(y)
    BY SumsAdd
  <2>3. \A x, y, z \in [D -> Int] :
           (\A p \in D : z[p] = x[p] + y[p]) => SumOf(z) = SumOf(x) + SumOf(y)
    BY <1>5, <2>2, Zenon
  <2>4. QED
    BY <1>4, <2>1, <2>3, Zenon
<1>7. SumOf(g) = 0
  BY <1>1 DEF IsNullVector, g, e, D
<1>8. SumOf(f) \in Int
  <2>1. IntValued(f) /\ DOMAIN f = D
    BY <1>4 DEF IntValued
  <2>2. QED
    BY <1>5, <2>1, SumIsTotal, TotalFacts
<1>9. SumOf(h) = SumOf(f)
  BY <1>6, <1>7, <1>8
<1>10. QED
  BY <1>9 DEF WeightedCount, f, h, D
-----------------------------------------------------------------------------
(* The Lean form: its refusals.                                             *)

\* The counts of the initial marking weigh what its places do.
LEMMA InitialSum ==
    ASSUME model \in Models, NEW w \in [1..NP -> Int]
    PROVE  WeightedCount(w, InitialTokens(Net))
             = SumOf([p \in 1..NP |-> IF model.places[p] \in ToSet(model.initial)
                                      THEN w[p] ELSE 0])
<1>1. ASSUME NEW p \in 1..NP
      PROVE  w[p] * InitialTokens(Net)[model.places[p]]
               = IF model.places[p] \in ToSet(model.initial) THEN w[p] ELSE 0
  <2>1. model.places[p] \in Net.places /\ Net.initial = ToSet(model.initial)
    BY Numbered DEF Net, AsNet
  <2>2. InitialTokens(Net)[model.places[p]]
          = IF model.places[p] \in ToSet(model.initial) THEN 1 ELSE 0
    BY <2>1 DEF InitialTokens
  <2>3. w[p] \in Int
    OBVIOUS
  <2>4. \A x \in Int : x * 1 = x /\ x * 0 = 0
    OBVIOUS
  <2>5. QED
    BY <2>2, <2>3, <2>4
<1>2. [p \in 1..NP |-> w[p] * InitialTokens(Net)[model.places[p]]]
        = [p \in 1..NP |-> IF model.places[p] \in ToSet(model.initial) THEN w[p] ELSE 0]
  BY <1>1
<1>3. QED
  BY <1>2 DEF WeightedCount

\* If the weights are null vectors, and their initial sums what the view says, then
\* each of the markings listed weighs the same.
LEMMA ListConserves ==
    ASSUME LeanInv, phase \in {"search", "rejected"},
           BasisIsComplete, WeightsFit, SumsHaveRoom
    PROVE  InvariantsConserved
<1>1. /\ model \in Models /\ ToSet(listed) \subseteq LeanReachable
      /\ HasBasis /\ HasView /\ WeightsHaveRoom /\ SimpleArcs
  BY DEF LeanInv, ListInv, HasBasis, HasView, SumsHaveRoom, WeightsHaveRoom
<1>2. ASSUME NEW k \in DOMAIN basis
      PROVE  /\ basis[k] \in [1..NP -> Int] /\ IsNullVector(basis[k])
             /\ WeightedCount(basis[k], InitialTokens(Net)) = view.initial[k]
  <2>1. IsNullVector(basis[k])
    BY <1>1 DEF BasisIsComplete
  <2>2. /\ basis[k] \in [1..NP -> Int]
        /\ view.initial[k] = SumOf([p \in 1..NP |-> IF model.places[p] \in ToSet(model.initial)
                                                    THEN basis[k][p] ELSE 0])
    BY <1>1 DEF WeightsFit
  <2>3. QED
    BY <1>1, <2>1, <2>2, InitialSum
<1> DEFINE C == {m \in Markings(Net) : \A k \in DOMAIN basis :
                    WeightedCount(basis[k], m) = view.initial[k]}
<1>3. InitialTokens(Net) \in C
  BY <1>1, <1>2, ModelFacts, InitialTokensType
<1>4. ASSUME NEW m \in C, NEW s \in LeanSuccessors(m)
      PROVE  s \in C
  <2>1. PICK t \in Trans(Net) : s = PTFire(Net, m, t)
    BY DEF LeanSuccessors
  <2>2. m \in Markings(Net) /\ s \in Markings(Net)
    BY <1>1, LeanSuccessorsType
  <2>3. ASSUME NEW k \in DOMAIN basis
        PROVE  WeightedCount(basis[k], s) = view.initial[k]
    <3>1. WeightedCount(basis[k], PTFire(Net, m, t)) = WeightedCount(basis[k], m)
      BY <1>1, <1>2, <2>2, FiringKeepsSum
    <3>2. QED
      BY <2>1, <3>1
  <2>4. QED
    BY <2>2, <2>3
<1>5. LeanStable(C) /\ C \in SUBSET Markings(Net)
  BY <1>3, <1>4 DEF LeanStable
<1>6. LeanReachable \subseteq C
  <2> HIDE DEF C
  <2>1. QED
    BY <1>5 DEF LeanReachable
<1>7. QED
  BY <1>1, <1>6 DEF InvariantsConserved

\* With the arithmetic right, a sum fails only where there is no room for it.
LEMMA ElaboratesIfExact ==
    ASSUME LeanInv, RefusedInv, BasisIsComplete, WeightsFit
    PROVE  Elaborates
<1>1. ASSUME phase = "rejected", SumsHaveRoom
      PROVE  InvariantsConserved
  BY <1>1, ListConserves
<1>2. QED
  BY <1>1 DEF RefusedInv, Elaborates

\* What Elaborates says of every file follows from two facts about the integers that
\* PInvariants computes: that they are null vectors, and that none is cut.
THEOREM RefusalsExplained == LeanSpec => [](BasisIsComplete /\ WeightsFit => Elaborates)
<1>1. LeanInv /\ RefusedInv => (BasisIsComplete /\ WeightsFit => Elaborates)
  BY ElaboratesIfExact
<1>2. QED
  BY <1>1, LeanInvariance, RefusedForCause, PTL
-----------------------------------------------------------------------------
(* The two proof forms, on one net.                                         *)

\* Without inhibitor arcs the Lean form reaches the counts that the Go form does.
LEMMA SameReachable ==
    ASSUME NoBlockers(Net)
    PROVE  LeanReachable = PTReachable(Net)
<1>1. \A m, t : t \in Trans(Net) => (LeanEnabled(m, t) <=> PTEnabled(Net, m, t))
  BY DEF LeanEnabled, NoBlockers
<1>2. \A m : LeanSuccessors(m) = Successors(Net, m)
  BY <1>1 DEF LeanSuccessors, Successors, PTEnabledIn
<1>3. \A C : LeanStable(C) <=> PTStable(Net, C)
  BY <1>2 DEF LeanStable, PTStable
<1>4. QED
  BY <1>3 DEF LeanReachable, PTReachable

\* Two searches of one net, in two languages, once the one has accepted and the other
\* elaborated: they have found the same markings.  And a net that the one accepts the
\* other does not refuse, if the room and the arcs are as Elaborates asks and the
\* integers of PInvariants are right.
FormsAgree ==
    Accepted /\ net = Net =>
        /\ phase = "elaborated" => ToSet(listed) = seen
        /\ /\ BasisIsComplete /\ WeightsFit
           /\ FuelHasRoom /\ SumsHaveRoom /\ DistinctEffects /\ NoSelfLoops(Net)
           => phase # "rejected"

\* The forms of one net, run side by side, agree on its space and on the verdict.
THEOREM ProofFormsAgree == Spec /\ LeanSpec => []FormsAgree
<1>1. IInv /\ ExactInv /\ NoBlockers(net) /\ LeanInv /\ RefusedInv => FormsAgree
  <2> SUFFICES ASSUME IInv, ExactInv, NoBlockers(net), LeanInv, RefusedInv,
                      Accepted, net = Net
               PROVE  /\ phase = "elaborated" => ToSet(listed) = seen
                      /\ BasisIsComplete /\ WeightsFit /\ FuelHasRoom /\ SumsHaveRoom
                           /\ DistinctEffects /\ NoSelfLoops(Net) => phase # "rejected"
    BY DEF FormsAgree
  <2>1. frontier = {} /\ pc # "failed"
    BY DEF IInv, SearchInv, Accepted, VerdictInv
  <2>2. seen = PTReachable(Net) /\ \A m \in PTReachable(Net) : OneSafe(Net, m)
    BY <2>1, ExhaustedIsExact
  <2>3. LeanReachable = PTReachable(Net)
    BY SameReachable
  <2>4. ASSUME phase = "elaborated"
        PROVE  ToSet(listed) = seen
    <3>1. /\ ReachableClosed /\ InitialTokens(Net) \in ToSet(listed)
          /\ ToSet(listed) \subseteq LeanReachable
      BY <2>4 DEF LeanInv, PassedInv, ListInv
    <3>2. LeanStable(ToSet(listed)) /\ ToSet(listed) \in SUBSET Markings(Net)
      BY <3>1 DEF LeanStable, ReachableClosed, LeanReachable
    <3>3. LeanReachable \subseteq ToSet(listed)
      BY <3>2 DEF LeanReachable
    <3>4. QED
      BY <2>2, <2>3, <3>1, <3>3
  <2>5. ASSUME phase = "rejected", BasisIsComplete, WeightsFit, FuelHasRoom, SumsHaveRoom,
               DistinctEffects, NoSelfLoops(Net)
        PROVE  FALSE
    <3>1. ~ReachableOneSafe
      BY <2>5, ElaboratesIfExact DEF Elaborates
    <3>2. ToSet(listed) \subseteq PTReachable(Net)
      BY <2>3, <2>5 DEF LeanInv, ListInv
    <3>3. QED
      BY <2>2, <3>1, <3>2 DEF ReachableOneSafe
  <2>6. QED
    BY <2>4, <2>5
<1>2. Init => NoBlockers(net)
  BY NetsAssumption DEF Init
<1>3. NoBlockers(net) /\ [Next]_vars => NoBlockers(net)'
  <2>1. [Next]_vars => UNCHANGED net
    BY DEF Next, Verify, Expand, RejectUnsafe, Conclude, Run, RunStep, RunEnd, vars
  <2>2. QED
    BY <2>1 DEF NoBlockers
<1>4. QED
  BY <1>1, <1>2, <1>3, Initially, Inductive, ExactInitially, ExactStep, LeanInvariance,
     RefusedForCause, PTL DEF Spec
=============================================================================
