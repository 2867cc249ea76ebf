----------------------------- MODULE WaitQueues -----------------------------
(***************************************************************************)
(* What the sleep queues promise to the condition variables that use them: *)
(* one FIFO queue of threads per wait channel, a thread in at most one     *)
(* queue and at most once.  No SleepQueue object appears here; module      *)
(* SleepQueue is the code's implementation of this specification.          *)
(***************************************************************************)
EXTENDS Naturals, Sequences, SeqOps

CONSTANTS Threads,   \* the guest threads
          Wchans     \* the wait channels (addresses of condition variables)

VARIABLE queue       \* queue[c]: the threads blocked on c, oldest first

Queued(t) == \E c \in Wchans : \E i \in 1 .. Len(queue[c]) : queue[c][i] = t

Init == queue = [c \in Wchans |-> << >>]

(* A thread that waits nowhere goes to the end of the queue of c. *)
Enqueue(c, t) ==
    /\ ~Queued(t)
    /\ queue' = [queue EXCEPT ![c] = Append(@, t)]

(* One waiter leaves: signalled, timed out or cancelled.  The others keep  *)
(* their order.                                                            *)
Dequeue(c) ==
    \E i \in 1 .. Len(queue[c]) :
        queue' = [queue EXCEPT ![c] = Without(@, i)]

(* Broadcast: every waiter of c leaves at once. *)
Flush(c) ==
    /\ queue[c] # << >>
    /\ queue' = [queue EXCEPT ![c] = << >>]

Next == \E c \in Wchans :
            \/ \E t \in Threads : Enqueue(c, t)
            \/ Dequeue(c)
            \/ Flush(c)

Spec == Init /\ [][Next]_queue
=============================================================================
