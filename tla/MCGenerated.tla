---------------------------- MODULE MCGenerated -----------------------------
(* Generated for the coffee machine and for small models.                   *)
EXTENDS Generated, MCNets

MCModels == {CoffeeNet} \cup HalfPlainNets
MCMaxSteps == 6
=============================================================================
