--------------------------- MODULE MCRecalculation ---------------------------
(* A sheet of three columns and two rows, and one cell of another sheet:    *)
(* formulas that can close one circle or two, and two transpositions whose  *)
(* blocks cross in C2.                                                      *)
EXTENDS Recalculation

CONSTANTS A1, A2, B1, B2, C1, C2, Other

MCCells == {A1, A2, B1, B2, C1, C2}
Formula(reads, over) == [reads |-> reads, over |-> over]
MCInputs ==
    <<<<A1, Number>>, <<A1, Formula(<<A2, B1>>, <<A1>>)>>, <<A1, Formula(<<C2>>, <<A1>>)>>,
      <<A1, Formula(<<Other>>, <<A1>>)>>,
      <<A2, Blank>>, <<A2, Number>>, <<A2, Formula(<<A1>>, <<A2>>)>>,
      <<B1, Number>>, <<B1, Formula(<<A1>>, <<B1>>)>>, <<B1, Formula(<<A2>>, <<B1>>)>>,
      <<B2, Formula(<<A1, A2>>, <<B2, C2>>)>>,
      <<C1, Formula(<<A1, B1>>, <<C1, C2>>)>>,
      <<C2, Blank>>, <<C2, Number>>>>
MCSelections == {<<p>> : p \in MCCells} \cup {<<C1, C2>>, <<A1, A2, B1>>}
Rowwise == <<A1, B1, C1, A2, B2, C2>>
MCOrders == {Rowwise, Reverse(Rowwise)}
MCOutside == {Other}
=============================================================================
