------------------------- MODULE MCRotatingWriter -------------------------
(* The rotating writer with interchangeable cleanup goroutines. *)
EXTENDS RotatingWriter, TLC

CleanersSymmetry == Permutations(Cleaners)
=============================================================================
