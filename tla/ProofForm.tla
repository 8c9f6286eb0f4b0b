----------------------------- MODULE ProofForm ------------------------------
(* The proof form, golang/proof/main.go: verify explores every marking the  *)
(* net reaches under place/transition semantics, and only if the net is     *)
(* 1-safe and stops in {Payment} alone does executeProcess run it.          *)
(*                                                                          *)
(* The frontier is a set here: Go, Python, JavaScript and Bash take its     *)
(* oldest marking, Rust its youngest (rust/src/bin/proof.rs), and the        *)
(* properties hold for every order.                                         *)
EXTENDS PTNet

CONSTANT Nets           \* the nets a proof form may be written for

ASSUME NetsAssumption == \A n \in Nets : IsNet(n) /\ NoBlockers(n)

VARIABLES net,          \* the net the program is written for; never changes
          pc,           \* "verify", "run", "done" or "failed"
          seen,         \* the markings found so far
          frontier,     \* those of them still to be expanded
          deadlocks,    \* the expanded markings that enable nothing
          tokens        \* the marking executeProcess is in

vars == <<net, pc, seen, frontier, deadlocks, tokens>>

TypeOK == /\ IsNet(net) /\ NoBlockers(net)
          /\ pc \in {"verify", "run", "done", "failed"}
          /\ seen \subseteq Markings(net)
          /\ frontier \subseteq seen
          /\ deadlocks \subseteq seen
          /\ tokens \in Markings(net)

Init == /\ net \in Nets
        /\ pc = "verify"
        /\ seen = {InitialTokens(net)}
        /\ frontier = {InitialTokens(net)}
        /\ deadlocks = {}
        /\ tokens = InitialTokens(net)

\* Mutant: the successors replace what was waiting.
Expand_FrontierReplaced(m) ==
    /\ pc = "verify"
    /\ OneSafe(net, m)
    /\ seen' = seen \cup Successors(net, m)
    /\ frontier' = Successors(net, m) \ seen
    /\ deadlocks' = IF IsDeadlock(net, m) THEN deadlocks \cup {m} ELSE deadlocks
    /\ UNCHANGED <<net, pc, tokens>>

\* Mutant: markings that are not 1-safe are expanded like the others.
Expand_SafetyUnchecked(m) ==
    /\ pc = "verify"
    /\ seen' = seen \cup Successors(net, m)
    /\ frontier' = (frontier \ {m}) \cup (Successors(net, m) \ seen)
    /\ deadlocks' = IF IsDeadlock(net, m) THEN deadlocks \cup {m} ELSE deadlocks
    /\ UNCHANGED <<net, pc, tokens>>

\* Mutant: known successors are queued again.
Expand_Requeues(m) ==
    /\ pc = "verify"
    /\ OneSafe(net, m)
    /\ seen' = seen \cup Successors(net, m)
    /\ frontier' = (frontier \ {m}) \cup Successors(net, m)
    /\ deadlocks' = IF IsDeadlock(net, m) THEN deadlocks \cup {m} ELSE deadlocks
    /\ UNCHANGED <<net, pc, tokens>>

\* One turn of the loop of verify, on a marking that is 1-safe.
Expand(m) ==
    /\ pc = "verify"
    /\ OneSafe(net, m)
    /\ seen' = seen \cup Successors(net, m)
    /\ frontier' = (frontier \ {m}) \cup (Successors(net, m) \ seen)
    /\ deadlocks' = IF IsDeadlock(net, m) THEN deadlocks \cup {m} ELSE deadlocks
    /\ UNCHANGED <<net, pc, tokens>>

\* ... and on one that is not: verify returns an error, main exits with 1.
RejectUnsafe(m) ==
    /\ pc = "verify"
    /\ ~OneSafe(net, m)
    /\ pc' = "failed"
    /\ frontier' = frontier \ {m}
    /\ UNCHANGED <<net, seen, deadlocks, tokens>>

\* Mutant: one of the deadlocks is the outcome, others do not matter.
OutcomeIsServed_OneOfMany == \E m \in deadlocks : Support(net, m) = Served

\* The outcome verify asks for: one deadlock, and it renders as Payment.
OutcomeIsServed ==
    \E m \in deadlocks : deadlocks = {m} /\ Support(net, m) = Served

\* Mutant: the search stops at the first deadlock.
Conclude_AtFirstDeadlock ==
    /\ pc = "verify"
    /\ frontier = {} \/ deadlocks # {}
    /\ pc' = IF OutcomeIsServed THEN "run" ELSE "failed"
    /\ UNCHANGED <<net, seen, frontier, deadlocks, tokens>>

\* The frontier is empty: the verdict.
Conclude ==
    /\ pc = "verify"
    /\ frontier = {}
    /\ pc' = IF OutcomeIsServed THEN "run" ELSE "failed"
    /\ UNCHANGED <<net, seen, frontier, deadlocks, tokens>>

\* executeProcess fires the least enabled transition ...
RunStep(t) ==
    /\ pc = "run"
    /\ PTEnabled(net, tokens, t)
    /\ \A u \in PTEnabledIn(net, tokens) : t <= u
    /\ tokens' = PTFire(net, tokens, t)
    /\ UNCHANGED <<net, pc, seen, frontier, deadlocks>>

\* ... and returns when there is none.
RunEnd ==
    /\ pc = "run"
    /\ IsDeadlock(net, tokens)
    /\ pc' = "done"
    /\ UNCHANGED <<net, seen, frontier, deadlocks, tokens>>

Verify == \/ \E m \in frontier : Expand(m) \/ RejectUnsafe(m)
          \/ Conclude

Run == (\E t \in Trans(net) : RunStep(t)) \/ RunEnd

Next == Verify \/ Run

\* The program is one thread and never waits.
Spec == Init /\ [][Next]_vars /\ WF_vars(Next)
-----------------------------------------------------------------------------
Accepted == pc \in {"run", "done"}

\* What is expanded is done with: it is 1-safe, all its successors are known,
\* and it is recorded if it enables nothing.
Expanded ==
    \A m \in seen \ frontier :
        pc # "failed" => /\ OneSafe(net, m)
                         /\ Successors(net, m) \subseteq seen
                         /\ IsDeadlock(net, m) => m \in deadlocks

\* The invariant of the search, on which its verdict rests.
SearchInv == TypeOK /\ Expanded

\* A verdict in favour is a proof: the markings seen hold the initial marking,
\* are closed under every firing, are all 1-safe, and the only one among them
\* that enables nothing is the served coffee.
VerdictIsProof ==
    Accepted => /\ InitialTokens(net) \in seen
                /\ \A m \in seen :
                      /\ OneSafe(net, m)
                      /\ Successors(net, m) \subseteq seen
                      /\ IsDeadlock(net, m) => Support(net, m) = Served

\* Only markings of zeros and ones are expanded, so what is found is at most
\* one firing away from them: the search needs no bound to end, although the
\* net it looks at may be unbounded.
SearchIsBounded == \A m \in seen : \A p \in net.places : m[p] <= 2

\* The search ends in a verdict.
VerdictReached == <>(pc # "verify")

\* The verified program stays inside what was verified.
RunStaysVerified == Accepted => tokens \in seen

\* Claim 1 of the form: on a verified net the clause that outputs are clear
\* never decides anything, so the set forms run the same machine.
ClauseIsRedundant ==
    Accepted /\ NoSelfLoops(net) =>
        \A m \in seen : \A t \in Trans(net) :
            /\ PTEnabled(net, m, t) <=> Enabled(net, Support(net, m), t)
            /\ PTEnabled(net, m, t) =>
                 Support(net, PTFire(net, m, t)) = Fire(net, Support(net, m), t)

\* The verified program implements the machine of the set forms, step by step,
\* with the places it holds tokens in for the marking.
Machine == INSTANCE Machine WITH Weightings <- {}, marking <- Support(net, tokens)

RunIsMachine ==
    [][NoSelfLoops(net) => Machine!Next \/ UNCHANGED Machine!vars]_vars
=============================================================================
