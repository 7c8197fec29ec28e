----------------------------- MODULE MCChannel -----------------------------
EXTENDS Channel, TLC

(* Tasks are interchangeable.                                              *)
Symmetry == Permutations(Tasks)
=============================================================================
