----------------------------- MODULE MCPosixSem -----------------------------
(* A small instance of PosixSem: three threads, one of which cancels.      *)
EXTENDS PosixSem
=============================================================================
