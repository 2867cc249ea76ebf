---------------------------- MODULE MCEventFlag -----------------------------
(* A small instance of EventFlag: threads, two of them of equal priority,  *)
(* that wait for one bit and clear it, for both bits and clear all, or for *)
(* either and clear nothing.                                               *)
EXTENDS EventFlag, TLC

CONSTANTS t1, b1
MCPrio == [t \in Threads |-> IF t = t1 THEN 1 ELSE 2]
FewRequests == {<<{b1}, "or", "bits">>, <<Bits, "and", "all">>, <<Bits, "or", "none">>}
=============================================================================
