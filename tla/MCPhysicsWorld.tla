---------------------------- MODULE MCPhysicsWorld ----------------------------
(***************************************************************************)
(* A small instance of PhysicsWorld: two bodies in contact and joined, and *)
(* a third one, whose contact with the first one is only sensed.           *)
(***************************************************************************)
EXTENDS PhysicsWorld

CONSTANTS b1, b2, b3, j1, none

Trio == {b1, b2, b3}
PairJoint == [j \in {j1} |-> {b1, b2}]
TrioContacts == {{b1, b2}, {b2, b3}}

NoUse == {}
=============================================================================
