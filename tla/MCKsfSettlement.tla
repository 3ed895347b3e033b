--------------------------- MODULE MCKsfSettlement ---------------------------
(***************************************************************************)
(* An instance of KsfSettlement, and of KsfSignals in it, for TLC.         *)
(***************************************************************************)
EXTENDS KsfSettlement

OneDay == [n \in Optional |-> 1]
=============================================================================
