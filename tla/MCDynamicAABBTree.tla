-------------------------- MODULE MCDynamicAABBTree --------------------------
(***************************************************************************)
(* Small instances of DynamicAABBTree: a line of cells, two places for an  *)
(* item and, on request, a large box that it can shrink out of.            *)
(***************************************************************************)
EXTENDS DynamicAABBTree, TLC

Line == 1..3
OnePlace == {{1}}
FewPlaces == {{1}, {3}}
MCExpand(b) == IF b = {1} THEN {1, 2} ELSE b
MCOversized(fat, new) == Cardinality(fat) > Cardinality(new)
AllOneBody(i, j) == TRUE
Symmetry == Permutations(Item)
=============================================================================
