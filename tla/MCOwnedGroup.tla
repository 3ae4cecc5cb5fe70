----------------------------- MODULE MCOwnedGroup -----------------------------
(***************************************************************************)
(* Small instances of OwnedGroup.                                          *)
(***************************************************************************)
EXTENDS OwnedGroup

CONSTANTS p1, p2, p3

S(pids, births, faults) == [pids |-> pids, births |-> births, faults |-> faults]

\* Three processes that may leave the group, three whose numbers are used again,
\* and two with whatever may happen.
Scenarios == {
  S({p1, p2, p3}, 1, {"leave", "bind"}),
  S({p1, p2, p3}, 2, {"reuse"}),
  S({p1, p2}, 2, {"leave", "lateFork", "reuse", "scanReuse", "bind"})}
=============================================================================
