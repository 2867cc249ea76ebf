----------------------------- MODULE MCCondvar ------------------------------
(* Small instances of Condvar; the .cfg files choose the threads, the      *)
(* mutexes and who may cancel.                                             *)
EXTENDS Condvar, TLC

Symmetry == Permutations(Threads)
=============================================================================
