------------------------------- MODULE Reruns -------------------------------
(* Two programs run the same net, one after the other, as the parity gate    *)
(* runs them (parity/check_parity.sh), but each free to fire what it likes: *)
(* what is it that no scheduling policy can change?  The first run is the   *)
(* Machine, with its firings counted; the second starts when the first has  *)
(* come to its end.                                                         *)
EXTENDS Machine

CONSTANT MaxFirings     \* bound on the firings of one transition in one run

ASSUME MaxFiringsAssumption == MaxFirings \in Nat

VARIABLES firings,      \* how often each transition has fired in the first run
          second,       \* the marking of the second run
          refirings     \* how often each transition has fired in it

rerunVars == <<vars, firings, second, refirings>>

RerunInit == /\ Init
             /\ second = net.initial
             /\ firings = [t \in Trans(net) |-> 0]
             /\ refirings = [t \in Trans(net) |-> 0]

\* Mutant: the two runs share one marking.
FirstFires_SharedMarking(t) ==
    /\ FireTransition(t)
    /\ firings[t] < MaxFirings
    /\ second' = marking'
    /\ firings' = [firings EXCEPT ![t] = @ + 1]
    /\ UNCHANGED refirings

FirstFires(t) ==
    /\ FireTransition(t)
    /\ firings[t] < MaxFirings
    /\ firings' = [firings EXCEPT ![t] = @ + 1]
    /\ UNCHANGED <<second, refirings>>

SecondFires(t) ==
    /\ Terminal(net, marking)
    /\ Enabled(net, second, t)
    /\ refirings[t] < MaxFirings
    /\ second' = Fire(net, second, t)
    /\ refirings' = [refirings EXCEPT ![t] = @ + 1]
    /\ UNCHANGED <<vars, firings>>

RerunNext == \E t \in Trans(net) : FirstFires(t) \/ SecondFires(t)

RerunSpec == RerunInit /\ [][RerunNext]_rerunVars
-----------------------------------------------------------------------------
BothEnded == Terminal(net, marking) /\ Terminal(net, second)

\* In a net without choice a run that ends bounds every other run: no
\* transition fires more often in the second, so the second ends as well.
NoRunOutlasts ==
    Persistent(net) /\ Terminal(net, marking) =>
        \A t \in Trans(net) : refirings[t] <= firings[t]

\* ... and ends in the same marking, after the same firings in another order:
\* the 20 maximal firing sequences of the coffee machine are permutations of
\* one another.
SameOutcome ==
    Persistent(net) /\ BothEnded => marking = second /\ firings = refirings

\* What the comment on ConflictFree in analysis.go says: a net in which no two
\* transitions share an input has no choice, so every maximal firing sequence
\* ends in the same marking.
ConflictFreeOutcome == ConflictFree(net) /\ BothEnded => marking = second
=============================================================================
