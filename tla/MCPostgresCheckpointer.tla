----------------------- MODULE MCPostgresCheckpointer -----------------------
(* TLC instances of PostgresCheckpointer: one thread or two. *)
EXTENDS PostgresCheckpointer, TLC
CONSTANTS t1, t2
OneThread == {t1}
TwoThreads == {t1, t2}
Symmetry == Permutations(TwoThreads)
=============================================================================
