------------------------- MODULE MCVideoCoreBridge -------------------------
(* Small instances of VideoCoreBridge: buffers of one word, or one of two  *)
(* words and one of one.                                                   *)
EXTENDS VideoCoreBridge
CONSTANT ra
OneWordEach == [r \in Resources |-> 1]
\* Allocations are rounded up: two words cost less than twice one word.
RoundedUp == [n \in 0 .. MaxTransfer |-> IF n = 0 THEN 0 ELSE n + 1]
TwoAndOne == [r \in Resources |-> IF r = ra THEN 2 ELSE 1]
=============================================================================
