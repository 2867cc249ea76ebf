------------------------------ MODULE MCRwlock ------------------------------
(* Instances of Rwlock; the threads are interchangeable.                   *)
EXTENDS Rwlock, TLC
Symmetry == Permutations(Threads) \cup Permutations(Objs)
=============================================================================
