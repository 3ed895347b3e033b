------------------------------ MODULE MCDryRun ------------------------------
(***************************************************************************)
(* An instance of DryRun for TLC: the watchlist names one symbol twice.    *)
(***************************************************************************)
EXTENDS DryRun

RepeatedSymbol == <<"A", "B", "A">>
=============================================================================
