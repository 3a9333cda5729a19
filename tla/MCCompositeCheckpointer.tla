---------------------- MODULE MCCompositeCheckpointer ----------------------
(* TLC instances of CompositeCheckpointer. *)
EXTENDS CompositeCheckpointer, TLC
CONSTANTS t1, t2
OneThread == {t1}
TwoThreads == {t1, t2}
Symmetry == Permutations(TwoThreads)
=============================================================================
