----------------------------- MODULE MCKsfStore -----------------------------
(***************************************************************************)
(* An instance of KsfStore for TLC: the collection stages are one, as each *)
(* of them only adds a commit.                                             *)
(***************************************************************************)
EXTENDS KsfStore

OneCollection == <<"domestic">>
TwoSymbols    == <<"A", "B">>
=============================================================================
