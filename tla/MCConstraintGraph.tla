-------------------------- MODULE MCConstraintGraph --------------------------
(***************************************************************************)
(* Small instances of ConstraintGraph.                                     *)
(***************************************************************************)
EXTENDS ConstraintGraph

CONSTANTS b1, b2, b3, b4, e12, e23, e34, e24

\* A cycle b2-b3-b4 with a body b1 at b2; the edge b3-b4 is a joint.
Bodies == {b1, b2, b3, b4}
Contacts == {e12, e23, e24}
Joints == {e34}
Connects == [e \in Contacts \cup Joints |->
               CASE e = e12 -> {b1, b2} [] e = e23 -> {b2, b3}
                 [] e = e34 -> {b3, b4} [] e = e24 -> {b2, b4}]

\* A body of the cycle may have infinite mass, another may never rest, and the
\* body that hangs on the cycle may be disabled.
InfiniteBodies == {b2}
DisabledBodies == {b1}
RestlessBodies == {b4}
=============================================================================
