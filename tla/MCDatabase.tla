----------------------------- MODULE MCDatabase -----------------------------
(* Instances of Database for TLC.                                          *)
EXTENDS Database, TLC

\* Threads run the same code and are only compared for equality.
ThreadSymmetry == Permutations(Threads)
=============================================================================
