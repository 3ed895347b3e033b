---------------------------- MODULE MCPaperCycle ----------------------------
(***************************************************************************)
(* Instances of PaperCycle for TLC.                                        *)
(***************************************************************************)
EXTENDS PaperCycle

OneSymbol  == <<"A">>
TwoSymbols == <<"A", "B">>
ThreeSymbols == <<"A", "B", "C">>

LastInstant == CycleAt(MaxSession)
CycleIds    == Sessions \X Symbols
CycleNavIds == CycleIds \cup (Sessions \X {"cycle"})

Together    == {[s \in Symbols |-> 0]}
FirstLater  == Together \cup {[s \in Symbols |-> IF s = Head(SymbolOrder) THEN 1 ELSE 0]}

Answer(action, target) == [action |-> action, target |-> target]
EnterOnly    == {Answer("ENTER", 4000), Answer("ABSTAIN", 0)}
PairAnswers  == {Answer("ENTER", 2000), Answer("ENTER", 4000), Answer("EXIT", 0),
                 Answer("ABSTAIN", 0)}
AllAnswers   == {Answer("ENTER", 2000), Answer("ENTER", 4000), Answer("REDUCE", 1000),
                 Answer("EXIT", 0), Answer("ABSTAIN", 0)}
=============================================================================
