---------------------------- MODULE MCSleepQueue ----------------------------
(* Four threads over two wait channels: queues of up to four waiters, two  *)
(* queues at once, every migration of the four SleepQueue objects.         *)
EXTENDS SleepQueue
=============================================================================
