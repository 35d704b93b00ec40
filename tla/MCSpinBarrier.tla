---------------------------- MODULE MCSpinBarrier -----------------------------
(* SpinBarrier over a few interchangeable threads. *)
EXTENDS SpinBarrier, TLC

Symmetry == Permutations(Threads)

===============================================================================
