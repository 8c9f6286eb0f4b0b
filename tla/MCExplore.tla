----------------------------- MODULE MCExplore ------------------------------
(* Explore on the coffee machine and on every small net.                    *)
EXTENDS Explore, MCNets

MCMaxLines == 6
=============================================================================
