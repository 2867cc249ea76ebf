------------------------ MODULE MCThreadLifecycle -------------------------
(* Instances of ThreadLifecycle: three objects, so that two threads can    *)
(* meet on a third, and a cache of one.                                    *)
EXTENDS ThreadLifecycle
=============================================================================
