------------------------------ MODULE Condvar -------------------------------
(***************************************************************************)
(* Guest mutexes, condition variables and deferred cancellation:           *)
(* threads/mutex.cpp, threads/condvar.cpp, the wake-up part of             *)
(* threads/pthread.h and the cancellation part of threads/pthread.cpp, on  *)
(* top of the queues that module WaitQueues specifies.                     *)
(*                                                                         *)
(* Guest threads run arbitrary programs: a running thread may start any    *)
(* call.  A call is as many steps as it has points where another thread    *)
(* can come between: taking the chain's spin lock, releasing the mutex,    *)
(* draining, sleeping on and releasing a wake semaphore.  pc[t] is the     *)
(* point the thread has reached:                                           *)
(*   run       outside of a call                                           *)
(*   enter     in Wait, past PthreadTestCancel, before SleepqLock          *)
(*   clear     in Wait's loop, chain locked, before ClearWake              *)
(*   check     in Wait's loop, chain locked, before ShouldCancel           *)
(*   presleep  in Sleep, releasing the deferred waiters                    *)
(*   sleep     in Sleep, waiting for wake_sema                             *)
(*   wake      out of Sleep, before SleepqLock                             *)
(*   relock    in Wait, off the queue, before CvLock                       *)
(*   drop      in Signal or Broadcast, chain locked, todo left to serve    *)
(*   flush     as drop, inside curthread->WakeAll()                        *)
(*   immflush  as drop, emptying a full immediate_wakes array              *)
(*   release   chain unlocked, releasing the immediate wakes               *)
(*   unlocked  in Unlock, m_lock released, inside WakeAll                  *)
(*   dead      terminated                                                  *)
(***************************************************************************)
EXTENDS Naturals, Sequences, SeqOps

CONSTANTS Threads,     \* the guest threads
          Conds,       \* the condition variables
          Mutexes,     \* the mutexes
          NULL,        \* nullptr
          MaxDefer,    \* Pthread::MaxDeferWaiters
          MaxCount,    \* largest m_count (INT_MAX)
          RecursiveM,  \* the mutexes of type Recursive; the others are ErrorCheck
          Cancellers,  \* the threads that call pthread_cancel
          Deadlines    \* the deadlines Wait is called with: "never", "at" (an
                       \* absolute time), "rel" (a relative one)

ASSUME CondvarAssumption ==
    /\ NULL \notin Threads \cup Conds \cup Mutexes
    /\ MaxDefer \in Nat \ {0}
    /\ MaxCount \in Nat
    /\ RecursiveM \subseteq Mutexes
    /\ Cancellers \subseteq Threads
    /\ Deadlines \subseteq {"never", "at", "rel"}

VARIABLES
    pc, owner, count, deferred,         \* m_owner (with m_lock), m_count, Deferred flag
    queue, chain, wchan,                \* sleep queues, holder of sc_lock, Pthread::wchan
    sema, defer, will_sleep,            \* wake_sema, defer_waiters[0..nwaiter_defer), will_sleep
    cond, mutex_obj, recurse, timed,    \* locals of Wait: this, mp, recurse, the deadline
    timedout, result,                   \* Sleep's answer; what the last Wait returned
    todo, imm,                          \* waiters still to serve; immediate_wakes
    cancel_pending, cancel_enable, no_cancel,
    signalled                           \* history: dequeued by Signal/Broadcast in this Wait

mutexVars  == <<owner, count, deferred>>
queueVars  == <<queue, wchan>>
waitVars   == <<cond, mutex_obj, recurse, timed, timedout, result>>
sendVars   == <<todo, imm>>
cancelVars == <<cancel_pending, cancel_enable, no_cancel>>
vars == <<pc, mutexVars, queueVars, chain, sema, defer, will_sleep, waitVars,
          sendVars, cancelVars, signalled>>

PCs == {"run", "enter", "clear", "check", "presleep", "sleep", "wake", "relock",
        "drop", "flush", "immflush", "release", "unlocked", "dead"}

Goto(t, l) == pc' = [pc EXCEPT ![t] = l]
At(t, l) == pc[t] = l

ShouldCancel(t) == cancel_pending[t] /\ cancel_enable[t] /\ ~no_cancel[t]

Init ==
    /\ pc = [t \in Threads |-> "run"]
    /\ owner = [m \in Mutexes |-> NULL]
    /\ count = [m \in Mutexes |-> 0]
    /\ deferred = [m \in Mutexes |-> FALSE]
    /\ queue = [c \in Conds |-> << >>]
    /\ chain = [c \in Conds |-> NULL]
    /\ wchan = [t \in Threads |-> NULL]
    /\ sema = [t \in Threads |-> 0]
    /\ defer = [t \in Threads |-> << >>]
    /\ will_sleep = [t \in Threads |-> FALSE]
    /\ cond = [t \in Threads |-> NULL]
    /\ mutex_obj = [t \in Threads |-> NULL]
    /\ recurse = [t \in Threads |-> 0]
    /\ timed = [t \in Threads |-> "never"]
    /\ timedout = [t \in Threads |-> FALSE]
    /\ result = [t \in Threads |-> "none"]
    /\ todo = [t \in Threads |-> << >>]
    /\ imm = [t \in Threads |-> << >>]
    /\ cancel_pending = [t \in Threads |-> FALSE]
    /\ cancel_enable = [t \in Threads |-> TRUE]
    /\ no_cancel = [t \in Threads |-> FALSE]
    /\ signalled = [t \in Threads |-> FALSE]
-----------------------------------------------------------------------------
(* Mutexes.                                                                *)

(* Lock and TryLock of a mutex the thread does not own: it becomes owner.  *)
(* Spinning, yielding and sleeping on m_lock end in this step; giving up   *)
(* (EBUSY, ETIMEDOUT) changes nothing.                                     *)
Lock(t, m) ==
    /\ At(t, "run") /\ owner[m] = NULL
    /\ owner' = [owner EXCEPT ![m] = t]
    /\ UNCHANGED <<pc, count, deferred, queueVars, chain, sema, defer, will_sleep,
                   waitVars, sendVars, cancelVars, signalled>>

(* SelfLock and SelfTryLock of a Recursive mutex (EAGAIN at the limit).    *)
(* Every other type answers an error and changes nothing.                  *)
SelfLock(t, m) ==
    /\ At(t, "run") /\ owner[m] = t /\ m \in RecursiveM /\ count[m] < MaxCount
    /\ count' = [count EXCEPT ![m] = @ + 1]
    /\ UNCHANGED <<pc, owner, deferred, queueVars, chain, sema, defer, will_sleep,
                   waitVars, sendVars, cancelVars, signalled>>

(* The last unlock: the Deferred flag is read and cleared, the mutex is    *)
(* released, and only then the deferred waiters are woken.                 *)
Release(t, m) ==
    /\ owner' = [owner EXCEPT ![m] = NULL]
    /\ deferred' = [deferred EXCEPT ![m] = FALSE]

(* Mutant: the Deferred flag is tested after it was cleared. *)
MutUnlockNoWake(t, m) ==
    /\ At(t, "run") /\ owner[m] = t
    /\ IF m \in RecursiveM /\ count[m] > 0
       THEN count' = [count EXCEPT ![m] = @ - 1] /\ UNCHANGED <<owner, deferred>>
       ELSE Release(t, m) /\ UNCHANGED count
    /\ UNCHANGED <<pc, queueVars, chain, sema, defer, will_sleep,
                   waitVars, sendVars, cancelVars, signalled>>

Unlock(t, m) ==
    /\ At(t, "run") /\ owner[m] = t
    /\ IF m \in RecursiveM /\ count[m] > 0
       THEN /\ count' = [count EXCEPT ![m] = @ - 1]
            /\ UNCHANGED <<pc, owner, deferred>>
       ELSE /\ Release(t, m)
            /\ UNCHANGED count
            /\ IF ~will_sleep[t] /\ deferred[m] THEN Goto(t, "unlocked") ELSE UNCHANGED pc
    /\ UNCHANGED <<queueVars, chain, sema, defer, will_sleep,
                   waitVars, sendVars, cancelVars, signalled>>

(* WakeAll: the head of defer_waiters is released; the call ends with an   *)
(* empty list.                                                             *)
WakeOne(t) ==
    /\ defer[t] # << >>
    /\ sema' = [sema EXCEPT ![Head(defer[t])] = @ + 1]
    /\ defer' = [defer EXCEPT ![t] = Tail(@)]
    /\ UNCHANGED pc

WakeAll(t, from, to) ==
    /\ At(t, from)
    /\ \/ WakeOne(t)
       \/ defer[t] = << >> /\ Goto(t, to) /\ UNCHANGED <<sema, defer>>
    /\ UNCHANGED <<mutexVars, queueVars, chain, will_sleep,
                   waitVars, sendVars, cancelVars, signalled>>
-----------------------------------------------------------------------------
(* Wait.                                                                   *)

(* posix_pthread_exit: no cancellation from here on.  The thread then runs *)
(* its cleanup handlers, which are guest code and may make any call.       *)
BeginExit(t) == no_cancel' = [no_cancel EXCEPT ![t] = TRUE]

(* Ownership is checked (EPERM otherwise), then PthreadTestCancel.  A      *)
(* relative deadline becomes "again" (first_sleep is false) at the first   *)
(* Sleep.                                                                  *)
Wait(t, c, m) ==
    /\ At(t, "run") /\ owner[m] = t
    /\ IF ShouldCancel(t)
       THEN /\ BeginExit(t)
            /\ UNCHANGED <<pc, cond, mutex_obj, timed, result, signalled>>
       ELSE /\ Goto(t, "enter")
            /\ \E d \in Deadlines : timed' = [timed EXCEPT ![t] = d]
            /\ cond' = [cond EXCEPT ![t] = c]
            /\ mutex_obj' = [mutex_obj EXCEPT ![t] = m]
            /\ result' = [result EXCEPT ![t] = "none"]
            /\ signalled' = [signalled EXCEPT ![t] = FALSE]
            /\ UNCHANGED no_cancel
    /\ UNCHANGED <<mutexVars, queueVars, chain, sema, defer, will_sleep,
                   recurse, timedout, sendVars, cancel_pending, cancel_enable>>

(* SleepqLock, will_sleep, CvUnlock (which wakes nobody: will_sleep is     *)
(* set, Sleep will) and SleepqAdd.                                         *)
WaitEnqueue(t) ==
    LET c == cond[t]
        m == mutex_obj[t]
    IN  /\ At(t, "enter") /\ chain[c] = NULL
        /\ chain' = [chain EXCEPT ![c] = t]
        /\ will_sleep' = [will_sleep EXCEPT ![t] = TRUE]
        /\ recurse' = [recurse EXCEPT ![t] = count[m]]
        /\ count' = [count EXCEPT ![m] = 0]
        /\ Release(t, m)
        /\ queue' = [queue EXCEPT ![c] = Append(@, t)]
        /\ wchan' = [wchan EXCEPT ![t] = c]
        /\ Goto(t, "clear")
        /\ UNCHANGED <<sema, defer, cond, mutex_obj, timed, timedout, result,
                       sendVars, cancelVars, signalled>>

(* Mutant: the semaphore is drained on the way to sleep, too. *)
MutClearWakeLate(t) ==
    /\ \/ At(t, "clear") /\ Goto(t, "check")
       \/ At(t, "presleep") /\ Goto(t, "sleep")
    /\ sema' = [sema EXCEPT ![t] = 0]
    /\ UNCHANGED <<mutexVars, queueVars, chain, defer, will_sleep,
                   waitVars, sendVars, cancelVars, signalled>>

(* Stale wake-ups are drained while the chain is locked, before the last   *)
(* look at the cancellation flag.                                          *)
ClearWake(t) ==
    /\ At(t, "clear")
    /\ sema' = [sema EXCEPT ![t] = 0]
    /\ Goto(t, "check")
    /\ UNCHANGED <<mutexVars, queueVars, chain, defer, will_sleep,
                   waitVars, sendVars, cancelVars, signalled>>

(* A pending cancellation skips Sleep altogether, and with it the WakeAll  *)
(* that Sleep starts with; so does a relative deadline that has passed     *)
(* when the loop comes round again.                                        *)
WaitUnlockQueue(t) ==
    /\ At(t, "check")
    /\ chain' = [chain EXCEPT ![cond[t]] = NULL]
    /\ \/ /\ ShouldCancel(t)
          /\ timedout' = [timedout EXCEPT ![t] = FALSE]
          /\ Goto(t, "wake")
          /\ UNCHANGED <<will_sleep, timed>>
       \/ /\ ~ShouldCancel(t)
          /\ timedout' = [timedout EXCEPT ![t] = FALSE]
          /\ timed' = [timed EXCEPT ![t] = IF @ = "rel" THEN "again" ELSE @]
          /\ will_sleep' = [will_sleep EXCEPT ![t] = FALSE]
          /\ Goto(t, "presleep")
       \/ /\ ~ShouldCancel(t) /\ timed[t] = "again"
          /\ timedout' = [timedout EXCEPT ![t] = TRUE]
          /\ Goto(t, "wake")
          /\ UNCHANGED <<will_sleep, timed>>
    /\ UNCHANGED <<mutexVars, queueVars, sema, defer, cond, mutex_obj, recurse,
                   result, sendVars, cancelVars, signalled>>

(* Sleep: a permit is taken, or the deadline passes without one.           *)
Sleep(t) ==
    /\ At(t, "sleep")
    /\ \/ sema[t] > 0 /\ sema' = [sema EXCEPT ![t] = @ - 1] /\ UNCHANGED timedout
       \/ /\ sema[t] = 0 /\ timed[t] # "never"
          /\ timedout' = [timedout EXCEPT ![t] = TRUE]
          /\ UNCHANGED sema
    /\ Goto(t, "wake")
    /\ UNCHANGED <<mutexVars, queueVars, chain, defer, will_sleep, cond, mutex_obj, recurse,
                   timed, result, sendVars, cancelVars, signalled>>

(* Mutant: wchan is left set. *)
MutRemoveKeepsWchan(t, c) ==
    /\ queue' = [queue EXCEPT ![c] = Without(@, IndexOf(@, t))]
    /\ UNCHANGED wchan

SleepqRemove(t, c) ==
    /\ queue' = [queue EXCEPT ![c] = Without(@, IndexOf(@, t))]
    /\ wchan' = [wchan EXCEPT ![t] = NULL]

Leave(t, r) == Goto(t, "relock") /\ result' = [result EXCEPT ![t] = r]

(* Mutant: the deadline is looked at before wchan. *)
MutTimeoutFirst(t) ==
    LET c == cond[t]
    IN  /\ At(t, "wake") /\ chain[c] = NULL
        /\ \/ /\ timedout[t]
              /\ IF wchan[t] # NULL THEN SleepqRemove(t, c) ELSE UNCHANGED queueVars
              /\ Leave(t, "timedout")
              /\ UNCHANGED chain
           \/ /\ ~timedout[t] /\ wchan[t] = NULL
              /\ Leave(t, "ok")
              /\ UNCHANGED <<queueVars, chain>>
           \/ /\ ~timedout[t] /\ wchan[t] # NULL /\ ~ShouldCancel(t)
              /\ chain' = [chain EXCEPT ![c] = t]
              /\ Goto(t, "clear")
              /\ UNCHANGED <<queueVars, result>>
        /\ UNCHANGED <<mutexVars, sema, defer, will_sleep, cond, mutex_obj, recurse, timed,
                       timedout, sendVars, cancelVars, signalled>>

(* Back under the chain lock: a waiter off the queue was signalled; else a *)
(* pending cancellation, else the deadline, takes it off; else it sleeps   *)
(* again (the chain stays locked).                                         *)
WaitWoken(t) ==
    LET c == cond[t]
    IN  /\ At(t, "wake") /\ chain[c] = NULL
        /\ \/ /\ wchan[t] = NULL
              /\ Leave(t, "ok")
              /\ UNCHANGED <<queueVars, chain>>
           \/ /\ wchan[t] # NULL /\ ShouldCancel(t)
              /\ SleepqRemove(t, c) /\ Leave(t, "canceled")
              /\ UNCHANGED chain
           \/ /\ wchan[t] # NULL /\ ~ShouldCancel(t) /\ timedout[t]
              /\ SleepqRemove(t, c) /\ Leave(t, "timedout")
              /\ UNCHANGED chain
           \/ /\ wchan[t] # NULL /\ ~ShouldCancel(t) /\ ~timedout[t]
              /\ chain' = [chain EXCEPT ![c] = t]
              /\ Goto(t, "clear")
              /\ UNCHANGED <<queueVars, result>>
        /\ UNCHANGED <<mutexVars, sema, defer, will_sleep, cond, mutex_obj, recurse, timed,
                       timedout, sendVars, cancelVars, signalled>>

(* CvLock; a cancelled waiter then exits from PthreadTestCancel.           *)
WaitRelock(t) ==
    LET m == mutex_obj[t]
    IN  /\ At(t, "relock") /\ owner[m] = NULL
        /\ owner' = [owner EXCEPT ![m] = t]
        /\ count' = [count EXCEPT ![m] = recurse[t]]
        /\ cond' = [cond EXCEPT ![t] = NULL]
        /\ mutex_obj' = [mutex_obj EXCEPT ![t] = NULL]
        /\ recurse' = [recurse EXCEPT ![t] = 0]
        /\ timed' = [timed EXCEPT ![t] = "never"]
        /\ timedout' = [timedout EXCEPT ![t] = FALSE]
        /\ IF result[t] = "canceled" THEN BeginExit(t) ELSE UNCHANGED no_cancel
        /\ Goto(t, "run")
        /\ UNCHANGED <<deferred, queueVars, chain, sema, defer, will_sleep, result,
                       sendVars, cancel_pending, cancel_enable, signalled>>
-----------------------------------------------------------------------------
(* Signal and Broadcast.                                                   *)

(* SleepqLock and the dequeuing; the dequeued threads are then served one  *)
(* by one under the chain lock.  An empty queue is left alone.             *)
StartDrop(t, c, tds, rest) ==
    /\ At(t, "run") /\ chain[c] = NULL /\ tds # << >>
    /\ chain' = [chain EXCEPT ![c] = t]
    /\ queue' = [queue EXCEPT ![c] = rest]
    /\ wchan' = [u \in Threads |-> IF u \in Elems(tds) THEN NULL ELSE wchan[u]]
    /\ signalled' = [u \in Threads |-> signalled[u] \/ u \in Elems(tds)]
    /\ todo' = [todo EXCEPT ![t] = tds]
    /\ Goto(t, "drop")
    /\ UNCHANGED <<mutexVars, sema, defer, will_sleep, waitVars, imm, cancelVars>>

(* pthread_cond_signal takes the oldest waiter, signalto_np the given one. *)
Signal(t, c) == queue[c] # << >> /\ StartDrop(t, c, <<Head(queue[c])>>, Tail(queue[c]))
SignalTo(t, c, td) ==
    /\ wchan[td] = c
    /\ StartDrop(t, c, <<td>>, Without(queue[c], IndexOf(queue[c], td)))
Broadcast(t, c) == StartDrop(t, c, queue[c], << >>)

(* Mutant: a full defer_waiters array is restarted without waking anybody. *)
MutDropForgets(t) ==
    LET td == Head(todo[t])
        m  == mutex_obj[td]
    IN  /\ At(t, "drop") /\ todo[t] # << >>
        /\ \/ /\ owner[m] = t
              /\ defer' = [defer EXCEPT ![t] = IF Len(@) >= MaxDefer THEN <<td>>
                                               ELSE Append(@, td)]
              /\ deferred' = [deferred EXCEPT ![m] = TRUE]
              /\ UNCHANGED imm
           \/ /\ owner[m] # t
              /\ imm' = [imm EXCEPT ![t] = Append(@, td)]
              /\ UNCHANGED <<defer, deferred>>
        /\ todo' = [todo EXCEPT ![t] = Tail(@)]
        /\ UNCHANGED <<pc, owner, count, queueVars, chain, sema, will_sleep, waitVars,
                       cancelVars, signalled>>

(* A waiter whose mutex the caller owns is deferred to the caller's unlock *)
(* (or sleep), the others are woken once the chain is unlocked.  A full    *)
(* array is emptied first.                                                 *)
DropStep(t) ==
    LET td == Head(todo[t])
        m  == mutex_obj[td]
    IN  /\ At(t, "drop") /\ todo[t] # << >>
        /\ \/ /\ owner[m] = t /\ Len(defer[t]) >= MaxDefer
              /\ Goto(t, "flush")
              /\ UNCHANGED <<defer, deferred, sendVars>>
           \/ /\ owner[m] = t /\ Len(defer[t]) < MaxDefer
              /\ defer' = [defer EXCEPT ![t] = Append(@, td)]
              /\ deferred' = [deferred EXCEPT ![m] = TRUE]
              /\ todo' = [todo EXCEPT ![t] = Tail(@)]
              /\ UNCHANGED <<pc, imm>>
           \/ /\ owner[m] # t /\ Len(imm[t]) >= MaxDefer
              /\ Goto(t, "immflush")
              /\ UNCHANGED <<defer, deferred, sendVars>>
           \/ /\ owner[m] # t /\ Len(imm[t]) < MaxDefer
              /\ imm' = [imm EXCEPT ![t] = Append(@, td)]
              /\ todo' = [todo EXCEPT ![t] = Tail(@)]
              /\ UNCHANGED <<pc, defer, deferred>>
        /\ UNCHANGED <<owner, count, queueVars, chain, sema, will_sleep, waitVars,
                       cancelVars, signalled>>

ChainHeld(t, c) == chain[c] = t

(* SleepqUnlock. *)
EndDrop(t) ==
    /\ At(t, "drop") /\ todo[t] = << >>
    /\ chain' = [c \in Conds |-> IF ChainHeld(t, c) THEN NULL ELSE chain[c]]
    /\ Goto(t, "release")
    /\ UNCHANGED <<mutexVars, queueVars, sema, defer, will_sleep, waitVars, sendVars,
                   cancelVars, signalled>>

(* The immediate wakes, one release() at a time. *)
ReleaseImmediate(t, from, to) ==
    /\ At(t, from)
    /\ \/ /\ imm[t] # << >>
          /\ sema' = [sema EXCEPT ![Head(imm[t])] = @ + 1]
          /\ imm' = [imm EXCEPT ![t] = Tail(@)]
          /\ UNCHANGED pc
       \/ imm[t] = << >> /\ Goto(t, to) /\ UNCHANGED <<sema, imm>>
    /\ UNCHANGED <<mutexVars, queueVars, chain, defer, will_sleep, waitVars, todo,
                   cancelVars, signalled>>
-----------------------------------------------------------------------------
(* Cancellation and exit.                                                  *)

(* posix_pthread_cancel: the wake-up follows the flag, and only the first  *)
(* request sends one.                                                      *)
Cancel(t, td) ==
    /\ At(t, "run") /\ t \in Cancellers /\ ~At(td, "dead") /\ ~cancel_pending[td]
    /\ cancel_pending' = [cancel_pending EXCEPT ![td] = TRUE]
    /\ imm' = [imm EXCEPT ![t] = <<td>>]
    /\ Goto(t, "release")
    /\ UNCHANGED <<mutexVars, queueVars, chain, sema, defer, will_sleep, waitVars, todo,
                   cancel_enable, no_cancel, signalled>>

(* posix_pthread_setcancelstate; enabling is a cancellation point. *)
SetCancelState(t) ==
    /\ At(t, "run") /\ Cancellers # {}
    /\ cancel_enable' = [cancel_enable EXCEPT ![t] = ~@]
    /\ IF ~cancel_enable[t] /\ cancel_pending[t] /\ ~no_cancel[t]
       THEN BeginExit(t) ELSE UNCHANGED no_cancel
    /\ UNCHANGED <<pc, mutexVars, queueVars, chain, sema, defer, will_sleep, waitVars,
                   sendVars, cancel_pending, signalled>>

(* The end of posix_pthread_exit; the cleanup handlers have unlocked what  *)
(* the thread owned.                                                       *)
ExitThread(t) ==
    /\ At(t, "run") /\ no_cancel[t]
    /\ \A m \in Mutexes : owner[m] # t
    /\ Goto(t, "dead")
    /\ UNCHANGED <<mutexVars, queueVars, chain, sema, defer, will_sleep, waitVars,
                   sendVars, cancelVars, signalled>>
-----------------------------------------------------------------------------
(* The calls a guest program may start, and the steps of a call under way. *)
Call(t) ==
    \/ \E m \in Mutexes : Lock(t, m) \/ SelfLock(t, m) \/ Unlock(t, m)
    \/ \E c \in Conds, m \in Mutexes : Wait(t, c, m)
    \/ \E c \in Conds : Signal(t, c) \/ Broadcast(t, c)
    \/ \E c \in Conds, td \in Threads : SignalTo(t, c, td)
    \/ \E td \in Threads : Cancel(t, td)
    \/ SetCancelState(t)
    \/ ExitThread(t)

Step(t) ==
    \/ WaitEnqueue(t) \/ ClearWake(t) \/ WaitUnlockQueue(t)
    \/ WakeAll(t, "presleep", "sleep")
    \/ Sleep(t) \/ WaitWoken(t) \/ WaitRelock(t)
    \/ DropStep(t) \/ EndDrop(t)
    \/ WakeAll(t, "flush", "drop")
    \/ ReleaseImmediate(t, "immflush", "drop")
    \/ ReleaseImmediate(t, "release", "run")
    \/ WakeAll(t, "unlocked", "run")

Next == \E t \in Threads : Call(t) \/ Step(t)

Spec == Init /\ [][Next]_vars

(* The host scheduler runs every thread that can take a step inside a      *)
(* call; nothing obliges a guest program to make a call.                   *)
FairSpec == Spec /\ \A t \in Threads : WF_vars(Step(t))
-----------------------------------------------------------------------------
OnQueuePCs == {"clear", "check", "presleep", "sleep", "wake"}

(* Pthread::wchan and the queues agree, at every point where a thread can  *)
(* look: wchan[t] = c exactly while t is in the queue of c, once, inside   *)
(* its Wait on c.  This is what lets Wait tell a signal from a timeout.    *)
QueueAgrees ==
    \A c \in Conds :
        /\ \A i, j \in 1 .. Len(queue[c]) : queue[c][i] = queue[c][j] => i = j
        /\ \A t \in Threads : (wchan[t] = c) <=> (t \in Elems(queue[c]))
        /\ \A t \in Elems(queue[c]) : pc[t] \in OnQueuePCs /\ cond[t] = c

(* The Deferred flag and the recursion count of a mutex belong to its      *)
(* current owner: a free mutex carries neither over to the next one.       *)
FreeMutexIsClean ==
    \A m \in Mutexes : owner[m] = NULL => ~deferred[m] /\ count[m] = 0

Types ==
    /\ pc \in [Threads -> PCs]
    /\ owner \in [Mutexes -> Threads \cup {NULL}]
    /\ count \in [Mutexes -> 0 .. MaxCount]
    /\ deferred \in [Mutexes -> BOOLEAN]
    /\ queue \in [Conds -> Seq(Threads)]
    /\ chain \in [Conds -> Threads \cup {NULL}]
    /\ wchan \in [Threads -> Conds \cup {NULL}]
    /\ sema \in [Threads -> Nat]
    /\ defer \in [Threads -> Seq(Threads)]
    /\ will_sleep \in [Threads -> BOOLEAN]
    /\ cond \in [Threads -> Conds \cup {NULL}]
    /\ mutex_obj \in [Threads -> Mutexes \cup {NULL}]
    /\ recurse \in [Threads -> 0 .. MaxCount]
    /\ timed \in [Threads -> {"never", "at", "rel", "again"}]
    /\ timedout \in [Threads -> BOOLEAN]
    /\ result \in [Threads -> {"none", "ok", "timedout", "canceled"}]
    /\ todo \in [Threads -> Seq(Threads)]
    /\ imm \in [Threads -> Seq(Threads)]
    /\ cancel_pending \in [Threads -> BOOLEAN]
    /\ cancel_enable \in [Threads -> BOOLEAN]
    /\ no_cancel \in [Threads -> BOOLEAN]
    /\ signalled \in [Threads -> BOOLEAN]

(* Recursion counts and the states of Pthread stay in range; wchan, the    *)
(* queues and the mutexes agree at every point of a Wait, a signal or a    *)
(* timeout (condvar.cpp:98-330, mutex.cpp:193-311).                        *)
TypeOK == Types /\ QueueAgrees /\ FreeMutexIsClean

Owes(s, t) == t \in Elems(defer[s]) \cup Elems(imm[s]) \cup Elems(todo[s])

(* No lost wake-up: a thread that was taken off the queue and sleeps with  *)
(* no permit is still on the list of a thread that will release it, be it  *)
(* deferred, immediate or about to be served.                              *)
NoLostWake ==
    \A t \in Threads :
        pc[t] \in {"presleep", "sleep"} /\ wchan[t] = NULL /\ sema[t] = 0
            => \E s \in Threads : Owes(s, t)

(* No lost cancellation: a thread that sleeps although it should cancel    *)
(* has a permit, or its canceller has yet to release one.  ClearWake may   *)
(* drain the canceller's permit only before ShouldCancel is read.          *)
NoLostCancel ==
    \A t \in Threads :
        pc[t] \in {"presleep", "sleep"} /\ ShouldCancel(t) /\ sema[t] = 0
            => \E s \in Threads : t \in Elems(imm[s])

Covered(s) == \E m \in Mutexes : owner[m] = s /\ deferred[m]

(* The debt is covered: a thread that runs guest code while it owes        *)
(* deferred wake-ups owns a mutex whose Unlock will pay them.  The one     *)
(* exception is a thread with a cancellation request whose last Wait       *)
(* skipped Sleep and so kept will_sleep.                                   *)
DebtCovered ==
    \A s \in Threads : pc[s] = "run" /\ defer[s] # << >>
        => Covered(s) \/ (will_sleep[s] /\ cancel_pending[s])

(* A wake-up is not absorbed: a waiter that Signal or Broadcast took off   *)
(* the queue returns 0 from that Wait, even when its deadline passes or a  *)
(* cancellation arrives before it runs again.                              *)
SignalNotAbsorbed ==
    \A t \in Threads : signalled[t] => result[t] \notin {"timedout", "canceled"}

WaitPCs == {"enter", "relock"} \cup OnQueuePCs
DropPCs == {"drop", "flush", "immflush"}

(* A thread inside Wait knows its condition variable and its mutex, and    *)
(* owns the mutex until CvUnlock.                                          *)
WaitAgrees ==
    \A t \in Threads :
        /\ pc[t] \in WaitPCs => cond[t] \in Conds /\ mutex_obj[t] \in Mutexes
        /\ pc[t] = "enter" => owner[mutex_obj[t]] = t

(* Only a Recursive mutex is counted, also while a Wait keeps its count.   *)
CountAgrees ==
    /\ \A m \in Mutexes \ RecursiveM : count[m] = 0
    /\ \A t \in Threads : recurse[t] # 0 => mutex_obj[t] \in RecursiveM /\ pc[t] \in WaitPCs \ {"enter"}

(* A chain is locked by a waiter on its way to sleep, which is in the      *)
(* queue then, or by a thread that serves the waiters it dequeued.         *)
ChainAgrees ==
    /\ \A t \in Threads : pc[t] \in {"clear", "check"} => chain[cond[t]] = t /\ wchan[t] = cond[t]
    /\ \A c \in Conds : chain[c] # NULL =>
           \/ pc[chain[c]] \in {"clear", "check"} /\ cond[chain[c]] = c
           \/ pc[chain[c]] \in DropPCs

(* A waiter that was dequeued and not served yet cannot leave its Wait:    *)
(* the chain it needs is locked.                                           *)
TodoPinned ==
    \A s \in Threads : \A t \in Elems(todo[s]) :
        /\ pc[s] \in DropPCs
        /\ pc[t] \in {"presleep", "sleep", "wake"} /\ chain[cond[t]] = s

(* immediate_wakes is empty outside of the calls that fill it; neither it  *)
(* nor defer_waiters overflows.                                            *)
ArraysInBounds ==
    \A t \in Threads :
        /\ Len(defer[t]) <= MaxDefer /\ Len(imm[t]) <= MaxDefer
        /\ imm[t] # << >> => pc[t] \in DropPCs \cup {"release"}

SkippedSleep(t) == will_sleep[t] /\ cancel_pending[t]

(* Where the deferred wake-ups of a thread will be paid: by the unlock of  *)
(* a mutex it owns, by the Sleep it is about to enter, or - after a Sleep  *)
(* that a cancellation skipped - not before the next one.                  *)
DebtTracked ==
    \A s \in Threads : defer[s] # << >> =>
        /\ pc[s] \in {"run", "enter", "release"} \cup DropPCs => Covered(s) \/ SkippedSleep(s)
        /\ pc[s] \in {"clear", "check"} => will_sleep[s]
        /\ pc[s] \in {"sleep", "wake", "relock"} => SkippedSleep(s)

(* will_sleep outlives the way to Sleep only when a cancellation skipped   *)
(* it; the second round of a relative wait has it cleared.                 *)
WillSleepAgrees ==
    \A t \in Threads :
        /\ will_sleep[t] /\ ~cancel_pending[t] => pc[t] \in {"clear", "check"} /\ timed[t] # "again"
        /\ pc[t] = "enter" => timed[t] # "again"

(* A waiter that was signalled is off the queue and, once it leaves its    *)
(* Wait, has the answer 0.                                                 *)
SignalAgrees ==
    \A t \in Threads :
        /\ pc[t] \in {"enter"} \cup OnQueuePCs => result[t] = "none"
        /\ signalled[t] => wchan[t] = NULL /\ pc[t] # "enter"

(* The inductive invariant of the proofs: the types, who owns what at each *)
(* point of a call, where each wake-up is, and the properties above        *)
(* (condvar.cpp, mutex.cpp, pthread.h).                                    *)
IInv ==
    /\ TypeOK /\ WaitAgrees /\ CountAgrees /\ ChainAgrees /\ TodoPinned /\ ArraysInBounds
    /\ DebtTracked /\ WillSleepAgrees /\ SignalAgrees
    /\ SignalNotAbsorbed /\ NoLostWake /\ NoLostCancel

(* WakeSemaphore is a Semaphore<2>: "A thread can receive one normal       *)
(* synchronization wake and one cancellation wake concurrently."           *)
WakeSemaphoreMax == \A t \in Threads : sema[t] <= 2

DebtorPending(t) ==
    \E s \in Threads : /\ Owes(s, t)
                       /\ (pc[s] = "run" /\ Covered(s)) \/ pc[s] = "enter"

(* A waiter taken off the queue wakes up, or the thread that owes it the   *)
(* wake-up is still at large: in guest code with the mutex locked, or      *)
(* contending for a chain lock on its way to sleep.                        *)
SignalledWakes ==
    \A t \in Threads :
        (pc[t] = "sleep" /\ wchan[t] = NULL) ~> (pc[t] # "sleep" \/ DebtorPending(t))
=============================================================================
