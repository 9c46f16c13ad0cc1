------------------------------ MODULE MCLogOut ------------------------------
(***************************************************************************)
(* Small instances of LogOut.                                              *)
(***************************************************************************)
EXTENDS LogOut, TLC

CONSTANTS a1, a2, a3  \* applications

Symmetry == Permutations({a1, a2, a3})
=============================================================================
