--------------------------- MODULE MCOwnedSnapshot ---------------------------
(***************************************************************************)
(* Small instances of OwnedSnapshot.                                       *)
(***************************************************************************)
EXTENDS OwnedSnapshot

CONSTANTS t1, t2, t3

S(tids, holds, faults) == [tids |-> tids, holds |-> holds, faults |-> faults]

\* Three threads and two holds where nothing goes wrong, two threads and two
\* holds with every fault, three threads and one hold with kills and expiry.
Scenarios == {
  S({t1, t2, t3}, 2, {}),
  S({t1, t2}, 2, {"kill", "time", "vfork"}),
  S({t1, t2, t3}, 1, {"kill", "time"})}
=============================================================================
