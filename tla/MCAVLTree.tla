------------------------------ MODULE MCAVLTree ------------------------------
(***************************************************************************)
(* A small instance of AVLTree: the first integers, compared by a          *)
(* difference that does not overflow.                                      *)
(***************************************************************************)
EXTENDS AVLTree

Exact(a, b) == a - b
=============================================================================
