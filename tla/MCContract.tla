----------------------------- MODULE MCContract -----------------------------
(* Contract with three drivers racing each other and every other caller.    *)
EXTENDS Contract

CONSTANTS d1, d2, d3
=============================================================================
