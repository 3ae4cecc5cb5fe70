------------------------ MODULE MCCollisionTracking ------------------------
(***************************************************************************)
(* A small world for CollisionTracking.  The line has cells 1..5; a fixture *)
(* occupies cell 1, cell 4 or the whole line.  The fat boxes of the first   *)
(* two are disjoint, and the second lies outside the bounds.  A fixture     *)
(* that shrinks from the line to cell 4 stays inside its leaf, which then   *)
(* overlaps leaves its box does not touch; one that shrinks to cell 1       *)
(* leaves an oversized leaf behind.                                         *)
(***************************************************************************)
EXTENDS CollisionTracking, TLC

CONSTANTS b1, b2, i1, i2, i3

\* Two interchangeable fixtures on b1, one on b2.
MCBodyOf == [i \in Item |-> IF i = i3 THEN b2 ELSE b1]
MCSymmetry == Permutations({i1, i2})

MCCell == 1..5
Line == MCCell
MCBox == {{1}, {4}, Line}
MCNarrow == {{1}, {4}}
MCExpand(b) == CASE b = {1} -> {1, 2} [] b = {4} -> {3, 4, 5} [] OTHER -> b
MCOversized(fat, new) == Cardinality(fat) > 2 * Cardinality(new)
MCBounds == {1, 2}
=============================================================================
