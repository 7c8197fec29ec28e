--------------------------- MODULE MCBlockObject ---------------------------
(* BlockObject for TLC.  The coroutines are interchangeable where no       *)
(* liveness is checked.                                                    *)
EXTENDS BlockObject, TLC

Symmetry == Permutations(Tasks) \cup Permutations(Blocks)
=============================================================================
