----------------------------- MODULE MCRWMutex -----------------------------
(* RWMutex for TLC.                                                        *)
EXTENDS RWMutex, TLC

Symmetry == Permutations(Tasks)
=============================================================================
