------------------------------- MODULE MCQueue -------------------------------
(* Queue with interchangeable recipients and goroutines, for the safety runs. *)
EXTENDS Queue, TLC

Symmetry == Permutations(Rcpts) \cup Permutations(Workers)
==============================================================================
