-------------------------- MODULE MCSheetStructure --------------------------
(* SheetStructure on a small sheet.  Row ids are interchangeable, and so   *)
(* are the plain values.                                                   *)
EXTENDS SheetStructure, TLC

Symmetry == Permutations(RowId) \cup Permutations(Values)

\* The kinds of data a sheet holds, and those that meet in one action or one
\* property.  Kinds that never meet are explored one at a time.
Kind(k) ==
    CASE k = "value"   -> DOMAIN cells # FormulaIds
      [] k = "formula" -> FormulaIds # {}
      [] k = "height"  -> DOMAIN heights # {}
      [] k = "thread"  -> DOMAIN threads # {}
      [] k = "hidden"  -> hidden \cup savedHidden # {}
      [] k = "merge"   -> merges # {}
      [] k = "frozen"  -> frozen # 0
      [] k = "rule"    -> rules # {}
      [] k = "chart"   -> chart # NoChart
Kinds ==
    {"value", "formula", "height", "thread", "hidden", "merge", "frozen", "rule",
     "chart"}
Together ==
    {{"value", "height", "merge"}, {"value", "thread"}, {"formula"}, {"hidden"},
     {"merge", "frozen"}, {"rule"}, {"chart"}}
MeetingKinds == \E T \in Together : \A k \in Kinds \ T : ~Kind(k)
=============================================================================
