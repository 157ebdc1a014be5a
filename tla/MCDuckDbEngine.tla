--------------------------- MODULE MCDuckDbEngine ---------------------------
(* Small instances of DuckDbEngine.                                         *)
EXTENDS DuckDbEngine, TLC

Symmetry == Permutations(Requests)
=============================================================================
