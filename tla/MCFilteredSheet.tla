--------------------------- MODULE MCFilteredSheet ---------------------------
(* Three rows: numbers in column A, the sum of the column and a reference    *)
(* to its last row in column B, and filters over one column or both.         *)
EXTENDS FilteredSheet

MCTyped ==
    {<<<<A, 1>>, 2, None>>, <<<<A, 2>>, 1, None>>, <<<<A, 3>>, 2, None>>,
     <<<<A, 3>>, Blank, None>>, <<<<B, 1>>, Blank, Whole>>, <<<<B, 2>>, Blank, Height>>}
MCSelections == {{<<A, 2>>, <<A, 3>>, <<B, 2>>}}
MCFilters == {[columns |-> {A}, last |-> Height], [columns |-> {A, B}, last |-> Height]}
MCShown == {{2}}
\* Bounds: one formula among three cells, conditions on one column, and no redo of
\* what missed a formula; calls that go beyond are checked and not followed.
Small ==
    /\ Cardinality(Populated(doc.cells)) <= 3
    /\ Cardinality(Formulas(Fresh(doc))) <= 1
    /\ missed => future = <<>>
    /\ filter # None => Cardinality(DOMAIN filter.conditions) <= 1
=============================================================================
