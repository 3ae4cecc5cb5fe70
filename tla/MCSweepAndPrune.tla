--------------------------- MODULE MCSweepAndPrune ---------------------------
(***************************************************************************)
(* Small instances of SweepAndPrune: boxes that overlap in one dimension   *)
(* only, that touch, that begin at the same x, and one that the detector   *)
(* keeps larger than the item.                                             *)
(***************************************************************************)
EXTENDS SweepAndPrune

Boxes == {<<0, 0, 2, 1>>, <<1, 2, 3, 3>>, <<2, 1, 4, 2>>, <<2, 3, 2, 4>>, <<3, 0, 5, 1>>}
MCExpand(b) == IF b = <<2, 3, 2, 4>> THEN <<1, 3, 3, 4>> ELSE b
MCOversized(fat, new) == MaxX(fat) - MinX(fat) > MaxX(new) - MinX(new)
AnyOther(i, j) == i # j
SharedHash(i) == i \div 2
=============================================================================
