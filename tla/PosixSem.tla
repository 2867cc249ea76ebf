------------------------------ MODULE PosixSem ------------------------------
(***************************************************************************)
(* threads/semaphore.cpp, PthreadSem: the POSIX semaphore of the guest.    *)
(* The value is an atomic that is taken and posted without a lock; the     *)
(* list of waiters is under wait_mutex, and its threads sleep on the same  *)
(* wake semaphore (Pthread::wake_sema) that condition variables and        *)
(* cancellation use.  A post wakes everybody; who loses the race for the   *)
(* value lists itself again.  pc[t] is the point a thread has reached:     *)
(*   run      outside of a call                                            *)
(*   try      at the top of the loop of PthreadSemWait                     *)
(*   lock     past PthreadTestCancel, before wait_mutex                    *)
(*   check    wait_mutex held, wake_sema drained, before ShouldCancel      *)
(*   sleep    listed, in Sleep                                             *)
(*   remove   out of Sleep, before wait_mutex                              *)
(*   retry    off the list, before the last TryAcquire                     *)
(*   publish  in posix_sem_post, value raised, before wait_mutex           *)
(*   kick     in posix_pthread_cancel, before the release                  *)
(*   dead     left through a cancellation                                  *)
(***************************************************************************)
EXTENDS Naturals, GuestThreads

CONSTANTS MaxValue,    \* ORBIS_KERNEL_SEM_VALUE_MAX
          Cancellers,  \* the threads that call pthread_cancel
          Deadlines    \* as in Condvar: "never", "at", "rel"

ASSUME PosixSemAssumption ==
    /\ NULL \notin Threads
    /\ MaxValue \in Nat \ {0}
    /\ Cancellers \subseteq Threads
    /\ Deadlines \subseteq {"never", "at", "rel"}

VARIABLES value, waiters, wait_mutex, \* PthreadSem; the holder of wait_mutex
          timed, woke,                \* locals of PthreadSemWait (timed as in Condvar)
          sema,                       \* Pthread::wake_sema
          cancel_pending, victim      \* the flag; whom a canceller is waking

semVars == <<value, waiters, wait_mutex, pc, timed, woke, sema, cancel_pending, victim>>

SemInit ==
    /\ value = 0
    /\ waiters = {}
    /\ wait_mutex = NULL
    /\ pc = [t \in Threads |-> "run"]
    /\ timed = [t \in Threads |-> "never"]
    /\ woke = [t \in Threads |-> FALSE]
    /\ sema = [t \in Threads |-> 0]
    /\ cancel_pending = [t \in Threads |-> FALSE]
    /\ victim = [t \in Threads |-> NULL]

(* Back in guest code: the locals are gone. *)
Return(t) ==
    /\ Goto(t, "run")
    /\ timed' = [timed EXCEPT ![t] = "never"]
    /\ woke' = [woke EXCEPT ![t] = FALSE]

TryAcquire == value > 0 /\ value' = value - 1

(* PthreadTestCancel at the places where the loop goes on.  Cancellation   *)
(* is deferred and enabled throughout; Condvar has the other states.       *)
TestCancel(t, next) == IF cancel_pending[t] THEN Goto(t, "dead") ELSE Goto(t, next)

Wait(t) ==
    /\ pc[t] = "run"
    /\ \E d \in Deadlines : timed' = [timed EXCEPT ![t] = d]
    /\ Goto(t, "try")
    /\ UNCHANGED <<value, waiters, wait_mutex, woke, sema, cancel_pending, victim>>

SemTry(t) ==
    /\ pc[t] = "try"
    /\ \/ TryAcquire /\ Return(t)
       \/ value = 0 /\ TestCancel(t, "lock") /\ UNCHANGED <<value, timed, woke>>
    /\ UNCHANGED <<waiters, wait_mutex, sema, cancel_pending, victim>>

(* Mutant: the value is not looked at again under wait_mutex. *)
MutLockNoRetry(t) ==
    /\ pc[t] = "lock" /\ wait_mutex = NULL
    /\ wait_mutex' = t
    /\ sema' = [sema EXCEPT ![t] = 0]
    /\ Goto(t, "check")
    /\ UNCHANGED <<value, waiters, timed, woke, cancel_pending, victim>>

(* wait_mutex taken: the value once more, then the stale wake-ups go. *)
LockAndClear(t) ==
    /\ pc[t] = "lock" /\ wait_mutex = NULL
    /\ \/ TryAcquire /\ Return(t) /\ UNCHANGED <<wait_mutex, sema>>
       \/ /\ value = 0
          /\ wait_mutex' = t
          /\ sema' = [sema EXCEPT ![t] = 0]
          /\ Goto(t, "check")
          /\ UNCHANGED <<value, timed, woke>>
    /\ UNCHANGED <<waiters, cancel_pending, victim>>

(* Mutant: the waiter lists itself and drains its wake-ups afterwards. *)
MutPublishClears(t) ==
    /\ pc[t] = "check"
    /\ wait_mutex' = NULL
    /\ sema' = [sema EXCEPT ![t] = 0]
    /\ waiters' = waiters \cup {t}
    /\ Goto(t, "sleep")
    /\ UNCHANGED <<value, timed, woke, cancel_pending, victim>>

Publish(t) ==
    /\ pc[t] = "check"
    /\ wait_mutex' = NULL
    /\ IF cancel_pending[t]
       THEN Goto(t, "dead") /\ UNCHANGED waiters
       ELSE Goto(t, "sleep") /\ waiters' = waiters \cup {t}
    /\ UNCHANGED <<value, timed, woke, sema, cancel_pending, victim>>

(* A permit is taken, the deadline passes without one, or a relative       *)
(* deadline had passed before the thread came to sleep again.              *)
Sleep(t) ==
    /\ pc[t] = "sleep"
    /\ \/ /\ sema[t] > 0
          /\ sema' = [sema EXCEPT ![t] = @ - 1]
          /\ woke' = [woke EXCEPT ![t] = TRUE]
       \/ /\ timed[t] = "again" \/ (timed[t] # "never" /\ sema[t] = 0)
          /\ woke' = [woke EXCEPT ![t] = FALSE]
          /\ UNCHANGED sema
    /\ timed' = [timed EXCEPT ![t] = IF @ = "rel" THEN "again" ELSE @]
    /\ Goto(t, "remove")
    /\ UNCHANGED <<value, waiters, wait_mutex, cancel_pending, victim>>

(* Mutant: only a waiter that was not woken takes itself off the list. *)
MutRemoveIfExpired(t) ==
    /\ pc[t] = "remove" /\ wait_mutex = NULL
    /\ waiters' = IF woke[t] THEN waiters ELSE waiters \ {t}
    /\ Goto(t, "retry")
    /\ UNCHANGED <<value, wait_mutex, timed, woke, sema, cancel_pending, victim>>

Remove(t) ==
    /\ pc[t] = "remove" /\ wait_mutex = NULL
    /\ waiters' = waiters \ {t}
    /\ Goto(t, "retry")
    /\ UNCHANGED <<value, wait_mutex, timed, woke, sema, cancel_pending, victim>>

(* The value, then a cancellation, then the deadline; else once more. *)
Retry(t) ==
    /\ pc[t] = "retry"
    /\ \/ TryAcquire /\ Return(t)
       \/ value = 0 /\ cancel_pending[t] /\ Goto(t, "dead") /\ UNCHANGED <<value, timed, woke>>
       \/ value = 0 /\ ~cancel_pending[t] /\ ~woke[t] /\ Return(t) /\ UNCHANGED value
       \/ /\ value = 0 /\ ~cancel_pending[t] /\ woke[t]
          /\ Goto(t, "try")
          /\ UNCHANGED <<value, timed, woke>>
    /\ UNCHANGED <<waiters, wait_mutex, sema, cancel_pending, victim>>

(* posix_sem_post: EOVERFLOW at the limit, else the value is raised ...    *)
Post(t) ==
    /\ pc[t] = "run" /\ value < MaxValue
    /\ value' = value + 1
    /\ Goto(t, "publish")
    /\ UNCHANGED <<waiters, wait_mutex, timed, woke, sema, cancel_pending, victim>>

(* ... and everybody on the list is woken. *)
WakeWaiters(t) ==
    /\ pc[t] = "publish" /\ wait_mutex = NULL
    /\ sema' = [u \in Threads |-> IF u \in waiters THEN sema[u] + 1 ELSE sema[u]]
    /\ waiters' = {}
    /\ Goto(t, "run")
    /\ UNCHANGED <<value, wait_mutex, timed, woke, cancel_pending, victim>>

(* posix_pthread_cancel: the flag, then the wake-up, once per thread. *)
Cancel(t, td) ==
    /\ pc[t] = "run" /\ t \in Cancellers /\ pc[td] # "dead" /\ ~cancel_pending[td]
    /\ cancel_pending' = [cancel_pending EXCEPT ![td] = TRUE]
    /\ victim' = [victim EXCEPT ![t] = td]
    /\ Goto(t, "kick")
    /\ UNCHANGED <<value, waiters, wait_mutex, timed, woke, sema>>
Kick(t) ==
    /\ pc[t] = "kick"
    /\ sema' = [sema EXCEPT ![victim[t]] = @ + 1]
    /\ victim' = [victim EXCEPT ![t] = NULL]
    /\ Goto(t, "run")
    /\ UNCHANGED <<value, waiters, wait_mutex, timed, woke, cancel_pending>>

Step(t) == \/ SemTry(t) \/ LockAndClear(t) \/ Publish(t) \/ Sleep(t) \/ Remove(t) \/ Retry(t)
           \/ WakeWaiters(t) \/ Kick(t)
SemNext == \E t \in Threads : Step(t) \/ Wait(t) \/ Post(t) \/ \E td \in Threads : Cancel(t, td)

SemSpec == SemInit /\ [][SemNext]_semVars

(* The host runs a thread that can go on inside a call. *)
SemFairSpec == SemSpec /\ \A t \in Threads : WF_semVars(Step(t))
-----------------------------------------------------------------------------
(* The list names only threads that are asleep or on their way off it: no  *)
(* post wakes a thread that has left, or that sleeps for something else.   *)
ListedIsSleeping == \A t \in waiters : pc[t] \in {"sleep", "remove"}

(* The value stays within 0 .. SEM_VALUE_MAX however many posts and        *)
(* acquisitions race, and the waiter list agrees with who sleeps           *)
(* (semaphore.cpp, PthreadSemWait and posix_sem_post).                     *)
SemTypeOK ==
    /\ value \in 0 .. MaxValue
    /\ waiters \subseteq Threads
    /\ wait_mutex \in Threads \cup {NULL}
    /\ pc \in [Threads -> {"run", "try", "lock", "check", "sleep", "remove", "retry",
                           "publish", "kick", "dead"}]
    /\ timed \in [Threads -> {"never", "at", "rel", "again"}]
    /\ woke \in [Threads -> BOOLEAN]
    /\ sema \in [Threads -> Nat]
    /\ cancel_pending \in [Threads -> BOOLEAN]
    /\ victim \in [Threads -> Threads \cup {NULL}]
    /\ ListedIsSleeping

(* No stranded token: while the value is positive nobody sleeps without a  *)
(* permit, unless the thread that posted has yet to wake the list.  This   *)
(* is why the value is tried again once wait_mutex is held.                *)
NoStrandedToken ==
    value > 0 => \A t \in Threads :
        pc[t] = "sleep" /\ sema[t] = 0 => \E p \in Threads : pc[p] = "publish"

(* No lost cancellation: a thread that sleeps although it is cancelled has *)
(* a permit, or its canceller has yet to release one.                      *)
NoLostCancel ==
    \A t \in Threads : pc[t] = "sleep" /\ cancel_pending[t] /\ sema[t] = 0
        => \E s \in Threads : victim[s] = t

(* wait_mutex is held by the thread between the last look at the value and *)
(* its place on the list, and by nobody else from one step to the next.    *)
MutexAgrees == \A t \in Threads : pc[t] = "check" <=> wait_mutex = t

(* A sleeper that is off the list was woken: WakeWaiters released it.      *)
UnlistedHasPermit == \A t \in Threads : pc[t] = "sleep" /\ t \notin waiters => sema[t] > 0

(* A token that arrives between the last look and the sleep belongs to a   *)
(* post that has yet to lock wait_mutex, and then finds the thread listed. *)
CheckCovered ==
    value > 0 /\ (\E t \in Threads : pc[t] = "check") => \E p \in Threads : pc[p] = "publish"

(* Only a canceller that has yet to release its permit names a victim.     *)
VictimAgrees == \A t \in Threads : victim[t] # NULL <=> pc[t] = "kick"

(* The inductive invariant: the list, the mutex and the permits agree with *)
(* the point each thread has reached, so that neither a token nor a        *)
(* cancellation is lost (PthreadSemWait, posix_sem_post,                   *)
(* posix_pthread_cancel).                                                  *)
SemIInv ==
    /\ SemTypeOK
    /\ MutexAgrees
    /\ UnlistedHasPermit
    /\ CheckCovered
    /\ VictimAgrees
    /\ NoStrandedToken
    /\ NoLostCancel

(* A posted token is taken or everybody has left. *)
TokenServed == (value > 0 /\ waiters # {}) ~> (value = 0 \/ waiters = {})
=============================================================================
