------------------------------- MODULE Guest --------------------------------
(* The guest threads, as everything that blocks them knows them.           *)
CONSTANTS Threads,     \* the guest threads
          NULL         \* nullptr, and nobody
=============================================================================
