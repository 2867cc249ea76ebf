---------------------------- MODULE GuestThreads ----------------------------
(* The guest threads as the blocking primitives see them, and the point of *)
(* its call each of them has reached.                                      *)
EXTENDS Guest

VARIABLE pc

At(t, l) == pc[t] = l
Goto(t, l) == pc' = [pc EXCEPT ![t] = l]
=============================================================================
