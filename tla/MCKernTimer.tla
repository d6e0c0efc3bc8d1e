----------------------------- MODULE MCKernTimer -----------------------------
(* KernTimer on a small instance. *)
EXTENDS KernTimer

Symmetry == Permutations(Events)
=============================================================================
