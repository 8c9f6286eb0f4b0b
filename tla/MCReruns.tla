------------------------------ MODULE MCReruns ------------------------------
(* Reruns, and with it Machine, its first run: on the coffee machine, on    *)
(* every small net and on the nets without a choice of three transitions    *)
(* (MCReruns.cfg), and on the small nets alone (MCConflictFree.cfg).        *)
EXTENDS Reruns, MCNets

ThreeTransitionNets ==
    {[places |-> P2, initial |-> init, transitions |-> <<t, u, v>>] :
        init \in SUBSET P2, t \in PlainTransitions, u \in PlainTransitions,
        v \in PlainTransitions}

RerunNets ==
    {n \in ThreeTransitionNets : Persistent(n)} \cup MCNets

MCMaxFirings == 3
=============================================================================
