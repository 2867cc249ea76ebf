----------------------------- MODULE SleepQueue -----------------------------
(***************************************************************************)
(* threads/sleepq.cpp: the sleep queues of the guest kernel.               *)
(*                                                                         *)
(* Every thread is allocated with one SleepQueue object.  The first thread *)
(* to block on a wait channel lends its object to the channel (it is       *)
(* linked in the hash chain and collects the blocked threads); every later *)
(* one puts its object on the free list of the linked object.  A thread    *)
(* that leaves takes an object back: any one of the free list, or the      *)
(* linked one when it is the last.  So the objects migrate between threads *)
(* and the free list must never run dry nor hand one object out twice.     *)
(*                                                                         *)
(* Each action is the body of one function of sleepq.cpp; all of them run  *)
(* under the spin lock of the channel's chain, hence atomically.  A        *)
(* SleepQueue object is named by the thread it was allocated with.         *)
(***************************************************************************)
EXTENDS Naturals, Sequences, SeqOps, Guest

CONSTANT Wchans      \* the wait channels

ASSUME NullAssumption == NULL \notin Threads /\ NULL \notin Wchans

VARIABLES linked,      \* the SleepQueue objects in the chains' sc_queues
          sq_wchan,    \* SleepQueue::sq_wchan
          sq_blocked,  \* SleepQueue::sq_blocked
          sq_freeq,    \* SleepQueue::sq_freeq
          sleepqueue,  \* Pthread::sleepqueue
          wchan        \* Pthread::wchan

sleepqVars == <<linked, sq_wchan, sq_blocked, sq_freeq, sleepqueue, wchan>>

SQs == Threads

(* SleepqLookup: sq_wchan of an unlinked object is stale and is not read. *)
SleepqLookup(c) ==
    IF \E q \in linked : sq_wchan[q] = c
    THEN CHOOSE q \in linked : sq_wchan[q] = c
    ELSE NULL

SleepqInit ==
    /\ linked = {}
    /\ sq_wchan = [q \in SQs |-> NULL]
    /\ sq_blocked = [q \in SQs |-> << >>]
    /\ sq_freeq = [q \in SQs |-> << >>]
    /\ sleepqueue = [t \in Threads |-> t]
    /\ wchan = [t \in Threads |-> NULL]

(* The caller asserts that the thread is on no queue. *)
SleepqAdd(c, t) ==
    /\ wchan[t] = NULL
    /\ LET sq == SleepqLookup(c)
           q  == IF sq # NULL THEN sq ELSE sleepqueue[t]
       IN  /\ IF sq # NULL
              THEN /\ sq_freeq' = [sq_freeq EXCEPT ![sq] = <<sleepqueue[t]>> \o @]
                   /\ UNCHANGED <<linked, sq_wchan>>
              ELSE /\ linked' = linked \cup {q}
                   /\ sq_wchan' = [sq_wchan EXCEPT ![q] = c]
                   /\ UNCHANGED sq_freeq
           /\ sleepqueue' = [sleepqueue EXCEPT ![t] = NULL]
           /\ wchan' = [wchan EXCEPT ![t] = c]
           /\ sq_blocked' = [sq_blocked EXCEPT ![q] = Append(@, t)]

(* Mutant: the object given to the leaving thread stays on the free list.  *)
MutRemoveNoPop(c, t) ==
    /\ wchan[t] = c
    /\ LET sq == SleepqLookup(c)
           rest == Without(sq_blocked[sq], IndexOf(sq_blocked[sq], t))
       IN  /\ sq_blocked' = [sq_blocked EXCEPT ![sq] = rest]
           /\ wchan' = [wchan EXCEPT ![t] = NULL]
           /\ IF rest = << >>
              THEN sleepqueue' = [sleepqueue EXCEPT ![t] = sq] /\ linked' = linked \ {sq}
              ELSE /\ sleepqueue' = [sleepqueue EXCEPT ![t] = Head(sq_freeq[sq])]
                   /\ UNCHANGED linked
    /\ UNCHANGED <<sq_wchan, sq_freeq>>

SleepqRemove(c, t) ==
    /\ wchan[t] = c
    /\ LET sq == SleepqLookup(c)
           rest == Without(sq_blocked[sq], IndexOf(sq_blocked[sq], t))
       IN  /\ sq_blocked' = [sq_blocked EXCEPT ![sq] = rest]
           /\ wchan' = [wchan EXCEPT ![t] = NULL]
           /\ IF rest = << >>
              THEN /\ sleepqueue' = [sleepqueue EXCEPT ![t] = sq]
                   /\ linked' = linked \ {sq}
                   /\ UNCHANGED sq_freeq
              ELSE /\ sleepqueue' = [sleepqueue EXCEPT ![t] = Head(sq_freeq[sq])]
                   /\ sq_freeq' = [sq_freeq EXCEPT ![sq] = Tail(@)]
                   /\ UNCHANGED linked
    /\ UNCHANGED sq_wchan

(* Mutant: the waiters behind the first one get no object back. *)
MutDropFirstOnly(c) ==
    /\ SleepqLookup(c) # NULL
    /\ LET sq == SleepqLookup(c)
       IN  /\ linked' = linked \ {sq}
           /\ sleepqueue' = [sleepqueue EXCEPT ![Head(sq_blocked[sq])] = sq]
           /\ wchan' = [t \in Threads |-> IF t \in Elems(sq_blocked[sq]) THEN NULL
                                          ELSE wchan[t]]
           /\ sq_blocked' = [sq_blocked EXCEPT ![sq] = << >>]
           /\ sq_freeq' = [sq_freeq EXCEPT ![sq] = << >>]
    /\ UNCHANGED sq_wchan

(* Mutant: the last waiter is left blocked by an off-by-one. *)
MutDropLeavesLast(c) ==
    /\ SleepqLookup(c) # NULL
    /\ LET sq == SleepqLookup(c)
           n == Len(sq_blocked[sq])
           released == {sq_blocked[sq][i] : i \in 1 .. n - 1}
           share(t) == LET i == IndexOf(sq_blocked[sq], t)
                       IN  IF i = 1 THEN sq ELSE sq_freeq[sq][i - 1]
       IN  /\ linked' = IF n = 1 THEN linked ELSE linked \ {sq}
           /\ sleepqueue' = [t \in Threads |-> IF t \in released THEN share(t)
                                               ELSE sleepqueue[t]]
           /\ wchan' = [t \in Threads |-> IF t \in released THEN NULL ELSE wchan[t]]
           /\ sq_blocked' = [sq_blocked EXCEPT ![sq] = <<sq_blocked[sq][n]>>]
           /\ UNCHANGED sq_freeq
    /\ UNCHANGED sq_wchan

(* The first blocked thread takes the linked object, the i-th one the     *)
(* (i-1)-th object of the free list.                                       *)
SleepqDrop(c) ==
    /\ SleepqLookup(c) # NULL
    /\ LET sq == SleepqLookup(c)
           released == Elems(sq_blocked[sq])
           share(t) == LET i == IndexOf(sq_blocked[sq], t)
                       IN  IF i = 1 THEN sq ELSE sq_freeq[sq][i - 1]
       IN  /\ linked' = linked \ {sq}
           /\ sleepqueue' = [t \in Threads |-> IF t \in released THEN share(t)
                                               ELSE sleepqueue[t]]
           /\ wchan' = [t \in Threads |-> IF t \in released THEN NULL ELSE wchan[t]]
           /\ sq_blocked' = [sq_blocked EXCEPT ![sq] = << >>]
           /\ sq_freeq' = [sq_freeq EXCEPT ![sq] = << >>]
    /\ UNCHANGED sq_wchan

SleepqNext == \E c \in Wchans :
            \/ \E t \in Threads : SleepqAdd(c, t)
            \/ \E t \in Threads : SleepqRemove(c, t)
            \/ SleepqDrop(c)

SleepqSpec == SleepqInit /\ [][SleepqNext]_sleepqVars
-----------------------------------------------------------------------------
(* Types: every pointer field of sleepq.cpp is NULL or names a queue       *)
(* object; lists hold threads or objects of the pool.                      *)
SleepqTypeOK ==
    /\ linked \subseteq SQs
    /\ sq_wchan \in [SQs -> Wchans \cup {NULL}]
    /\ sq_blocked \in [SQs -> Seq(Threads)]
    /\ sq_freeq \in [SQs -> Seq(SQs)]
    /\ sleepqueue \in [Threads -> SQs \cup {NULL}]
    /\ wchan \in [Threads -> Wchans \cup {NULL}]

(* The free list of a linked object holds exactly one object fewer than    *)
(* the threads it blocks, so SleepqRemove's "free list is empty while      *)
(* waiters remain" assertion and SleepqDrop's unchecked ++sq2 are safe;    *)
(* an unlinked object is empty, so lending it again starts a clean queue.  *)
FreeListMatches ==
    \A q \in SQs :
        IF q \in linked
        THEN /\ sq_wchan[q] \in Wchans
             /\ Len(sq_blocked[q]) > 0
             /\ Len(sq_freeq[q]) = Len(sq_blocked[q]) - 1
        ELSE sq_blocked[q] = << >> /\ sq_freeq[q] = << >>

(* A channel has at most one linked object: SleepqLookup is unambiguous    *)
(* and two waiters of one channel are always in the same queue.            *)
OneQueuePerChannel ==
    \A q, r \in linked : sq_wchan[q] = sq_wchan[r] => q = r

(* The parts of WchanIsQueue. *)
BlockedOnce ==
    \A q \in SQs : \A i, j \in 1 .. Len(sq_blocked[q]) :
        sq_blocked[q][i] = sq_blocked[q][j] => i = j
BlockedHasWchan ==
    \A q \in linked : \A i \in 1 .. Len(sq_blocked[q]) :
        wchan[sq_blocked[q][i]] = sq_wchan[q]
WchanHasQueue ==
    \A t \in Threads : wchan[t] # NULL =>
        \E q \in linked : /\ sq_wchan[q] = wchan[t]
                          /\ \E i \in 1 .. Len(sq_blocked[q]) : sq_blocked[q][i] = t

(* Pthread::wchan tells the truth: it names c exactly while the thread is  *)
(* blocked in the queue of c, once.  Wait decides between "signalled" and  *)
(* "timed out" by wchan alone.                                             *)
WchanIsQueue == BlockedOnce /\ BlockedHasWchan /\ WchanHasQueue

(* The parts of NoSharedObject. *)
ObjectUnlessBlocked ==
    \A t \in Threads : (sleepqueue[t] = NULL) <=> (wchan[t] # NULL)
ObjectOfOneThread ==
    \A t, u \in Threads : sleepqueue[t] # NULL /\ sleepqueue[t] = sleepqueue[u] => t = u
LinkedIsLent == \A t \in Threads : sleepqueue[t] \notin linked
FreeIsLent ==
    \A q \in SQs : \A i \in 1 .. Len(sq_freeq[q]) :
        /\ sq_freeq[q][i] \notin linked
        /\ \A t \in Threads : sleepqueue[t] # sq_freeq[q][i]
FreeOnce ==
    \A q, r \in SQs : \A i \in 1 .. Len(sq_freeq[q]), j \in 1 .. Len(sq_freeq[r]) :
        sq_freeq[q][i] = sq_freeq[r][j] => q = r /\ i = j

(* No SleepQueue object is handed out twice: the owners (a thread, a chain,*)
(* one place in one free list) are pairwise exclusive; and a thread is     *)
(* without an object exactly while it blocks.                              *)
NoSharedObject ==
    ObjectUnlessBlocked /\ ObjectOfOneThread /\ LinkedIsLent /\ FreeIsLent /\ FreeOnce

(* No SleepQueue object is lost: each one is with a thread, in a chain or  *)
(* on a free list, so a thread that leaves always finds one.               *)
NoLostObject ==
    \A o \in SQs :
        \/ o \in linked
        \/ \E t \in Threads : sleepqueue[t] = o
        \/ \E q \in SQs : \E i \in 1 .. Len(sq_freeq[q]) : sq_freeq[q][i] = o

(* Every thread and every object is in exactly the place that wchan, the   *)
(* chains and the free lists say, after any sequence of SleepqAdd,         *)
(* SleepqRemove and SleepqDrop (sleepq.cpp): none of the unchecked list    *)
(* operations there can run on an empty list, share an object or leave a   *)
(* thread's wchan behind.  This is the inductive invariant of the proofs.  *)
SleepqIInv == SleepqTypeOK /\ FreeListMatches /\ OneQueuePerChannel /\ WchanIsQueue /\ NoSharedObject

(* The queue of a channel is sq_blocked of its linked object. *)
QueueOf(c) == IF SleepqLookup(c) = NULL THEN << >> ELSE sq_blocked[SleepqLookup(c)]
WQ == INSTANCE WaitQueues WITH queue <- [c \in Wchans |-> QueueOf(c)]

(* sleepq.cpp implements WaitQueues: behind the migrating objects every    *)
(* channel is a FIFO queue of its own.                                     *)
ImplementsWaitQueues == WQ!Spec
=============================================================================
