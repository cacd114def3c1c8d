--------------------------- MODULE MCTableService ---------------------------
(***************************************************************************)
(* Bounds for TableService.  Calls and tables are interchangeable.         *)
(***************************************************************************)
EXTENDS TableService, TLC

Symmetry == Permutations(Calls) \cup Permutations(Tables)
=============================================================================
