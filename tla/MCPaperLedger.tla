--------------------------- MODULE MCPaperLedger ---------------------------
(***************************************************************************)
(* Instances of PaperLedger for TLC.                                       *)
(***************************************************************************)
EXTENDS PaperLedger, FiniteSetsExt, TLC

(* Identifiers and keys are interchangeable: no action compares two of     *)
(* them for anything but equality.                                         *)
Symmetry ==
    Permutations(DecisionIds) \cup Permutations(ProposalIds) \cup Permutations(ReviewIds)
        \cup Permutations(OrderIds) \cup Permutations(FillIds) \cup Permutations(KsfIds)
        \cup Permutations(Keys) \cup Permutations(EventIds)
=============================================================================
