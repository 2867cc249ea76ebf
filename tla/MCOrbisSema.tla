---------------------------- MODULE MCOrbisSema -----------------------------
(* Small instances of OrbisSema: three threads, two of equal priority.     *)
EXTENDS OrbisSema, TLC

CONSTANT t1
MCPrio == [t \in Threads |-> IF t = t1 THEN 1 ELSE 2]
=============================================================================
