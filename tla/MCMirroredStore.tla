-------------------------- MODULE MCMirroredStore --------------------------
(***************************************************************************)
(* Instances of MirroredStore for TLC.                                     *)
(***************************************************************************)
EXTENDS MirroredStore, TLC

\* Goroutines are interchangeable: nothing in the store tells them apart.
Goroutines == Permutations(Request)
=============================================================================
