----------------------------- MODULE EventFlag ------------------------------
(***************************************************************************)
(* threads/event_flag.cpp: a set of bits that threads wait for.  Set       *)
(* serves every waiter whose condition holds, in list order, but leaves it *)
(* on m_waiters: a waiter takes itself off when it runs again.  Deleting   *)
(* the flag releases the waiters and waits until the last one has left.    *)
(* Everything between two releases of m_mutex is one step.  pc[t]:         *)
(*   run      outside of the flag                                          *)
(*   wait     in Wait, listed, inside cv.wait                              *)
(*   destroy  in the destructor, inside m_destroy_cv.wait                  *)
(***************************************************************************)
EXTENDS Integers, Sequences, SeqOps

CONSTANTS Threads,   \* the guest threads
          Bits,      \* the bits of a pattern
          InitBits,  \* initPattern
          Single,    \* TRUE: m_thread_mode is ThreadMode::Single
          ByPrio,    \* TRUE: m_queue_mode is QueueMode::ThreadPrio
          Prio,      \* the priority of each thread (its attr.prio)
          Requests,  \* what Wait is called with: <<bits, wait mode, clear mode>>
          None       \* no answer

ASSUME EventFlagAssumption ==
    /\ InitBits \subseteq Bits
    /\ Single \in BOOLEAN /\ ByPrio \in BOOLEAN
    /\ Prio \in [Threads -> Nat]
    /\ Requests \subseteq (SUBSET Bits \ {{}}) \X {"and", "or"} \X {"none", "all", "bits"}
    /\ None \notin {"ok", "canceled", "deleted", "timedout"}

VARIABLES
    m_bits, m_waiters, m_deleted,
    freed,          \* the destructor has returned
    destroy_wake,   \* m_destroy_cv was notified
    pc,
    bits, wait_mode, clear_mode, timed,   \* of a thread's Waiter, and its deadline
    ready, canceled, deleted, woken,      \* of a thread's Waiter; its cv was notified
    pattern,                              \* Waiter::result
    answer          \* <<code, pattern>> if this step is the return of a blocked Wait

waiterVars == <<bits, wait_mode, clear_mode, timed, ready, canceled, deleted, woken, pattern>>
vars == <<m_bits, m_waiters, m_deleted, freed, destroy_wake, pc, waiterVars, answer>>

NoAnswer == <<None, {}>>

Init ==
    /\ m_bits = InitBits
    /\ m_waiters = << >>
    /\ m_deleted = FALSE
    /\ freed = FALSE
    /\ destroy_wake = FALSE
    /\ pc = [t \in Threads |-> "run"]
    /\ bits = [t \in Threads |-> {}]
    /\ wait_mode = [t \in Threads |-> "or"]
    /\ clear_mode = [t \in Threads |-> "none"]
    /\ timed = [t \in Threads |-> FALSE]
    /\ ready = [t \in Threads |-> FALSE]
    /\ canceled = [t \in Threads |-> FALSE]
    /\ deleted = [t \in Threads |-> FALSE]
    /\ woken = [t \in Threads |-> FALSE]
    /\ pattern = [t \in Threads |-> {}]
    /\ answer = NoAnswer

(* ConditionMet and ApplyClear, as functions of the bits they look at. *)
ConditionMet(m, b, mode) == IF mode = "and" THEN b \subseteq m ELSE m \cap b # {}
ApplyClear(m, b, clear) ==
    CASE clear = "none" -> m
      [] clear = "all"  -> {}
      [] clear = "bits" -> m \ b

Usable(t) == pc[t] = "run" /\ ~freed

(* EACCES once the destructor runs; EPERM for a second waiter of a flag    *)
(* made for one thread.  Both change nothing.                              *)
Rejected == m_deleted \/ (Single /\ m_waiters # << >>)

(* Wait whose condition holds. *)
WaitMet(t, b, mode, clear) ==
    /\ Usable(t) /\ ~Rejected /\ ConditionMet(m_bits, b, mode)
    /\ m_bits' = ApplyClear(m_bits, b, clear)
    /\ UNCHANGED <<m_waiters, m_deleted, freed, destroy_wake, pc, waiterVars>>

(* Mutant: equal priorities are served last come, first served. *)
MutAddWaiterBeforeEqual(t) ==
    InsertBefore(m_waiters, t, {u \in Threads : ByPrio /\ Prio[u] <= Prio[t]})

(* At the end for Fifo, else before the first smaller priority number. *)
AddWaiter(t) == InsertBefore(m_waiters, t, {u \in Threads : ByPrio /\ Prio[u] < Prio[t]})

(* Wait that has to block.  Poll is a Wait with a deadline that has passed.*)
WaitBlocks(t, b, mode, clear) ==
    /\ Usable(t) /\ ~Rejected /\ ~ConditionMet(m_bits, b, mode)
    /\ m_waiters' = AddWaiter(t)
    /\ bits' = [bits EXCEPT ![t] = b]
    /\ wait_mode' = [wait_mode EXCEPT ![t] = mode]
    /\ clear_mode' = [clear_mode EXCEPT ![t] = clear]
    /\ \E d \in BOOLEAN : timed' = [timed EXCEPT ![t] = d]
    /\ pc' = [pc EXCEPT ![t] = "wait"]
    /\ UNCHANGED <<m_bits, m_deleted, freed, destroy_wake, ready, canceled, deleted, woken, pattern>>

(* The Waiter goes out of scope with the call. *)
Return(t, code, m) ==
    /\ answer' = <<code, m>>
    /\ bits' = [bits EXCEPT ![t] = {}]
    /\ wait_mode' = [wait_mode EXCEPT ![t] = "or"]
    /\ clear_mode' = [clear_mode EXCEPT ![t] = "none"]
    /\ timed' = [timed EXCEPT ![t] = FALSE]
    /\ ready' = [ready EXCEPT ![t] = FALSE]
    /\ canceled' = [canceled EXCEPT ![t] = FALSE]
    /\ deleted' = [deleted EXCEPT ![t] = FALSE]
    /\ woken' = [woken EXCEPT ![t] = FALSE]
    /\ pattern' = [pattern EXCEPT ![t] = {}]
    /\ pc' = [pc EXCEPT ![t] = "run"]

(* Mutant: the destructor is not told that the list is empty. *)
MutRemoveWaiterSilent(t) ==
    /\ m_waiters' = WithoutAll(m_waiters, {t})
    /\ UNCHANGED destroy_wake

RemoveWaiter(t) ==
    /\ m_waiters' = WithoutAll(m_waiters, {t})
    /\ destroy_wake' = (destroy_wake \/ (m_deleted /\ m_waiters' = << >>))

Awake(t) == ready[t] \/ canceled[t] \/ deleted[t]

(* Notified, with a reason: cancellation is reported before deletion, and  *)
(* both before success.                                                    *)
WaitWoken(t) ==
    /\ pc[t] = "wait" /\ woken[t] /\ Awake(t)
    /\ RemoveWaiter(t)
    /\ Return(t, IF canceled[t] THEN "canceled" ELSE IF deleted[t] THEN "deleted" ELSE "ok",
              pattern[t])
    /\ UNCHANGED <<m_bits, m_deleted, freed>>

(* Mutant: a waiter whose deadline passed stays listed. *)
MutExpireKeepsWaiter(t) ==
    /\ pc[t] = "wait" /\ timed[t] /\ ~Awake(t)
    /\ Return(t, "timedout", m_bits)
    /\ UNCHANGED <<m_bits, m_waiters, m_deleted, freed, destroy_wake>>

(* The deadline passes: wait_for looks at the predicate once more. *)
WaitExpired(t) ==
    /\ pc[t] = "wait" /\ timed[t] /\ ~Awake(t)
    /\ RemoveWaiter(t)
    /\ Return(t, "timedout", m_bits)
    /\ UNCHANGED <<m_bits, m_deleted, freed>>

(* Mutant: the first waiter that is served ends the loop. *)
MutSetServesOne(t, b) ==
    LET met(u) == ConditionMet(m_bits \cup b, bits[u], wait_mode[u])
        served == {m_waiters[i] : i \in {i \in 1 .. Len(m_waiters) : met(m_waiters[i])
                       /\ \A j \in 1 .. i - 1 : ~met(m_waiters[j])}}
    IN  /\ Usable(t)
        /\ m_bits' = IF served = {} THEN m_bits \cup b
                     ELSE LET u == CHOOSE u \in served : TRUE
                          IN  ApplyClear(m_bits \cup b, bits[u], clear_mode[u])
        /\ ready' = [u \in Threads |-> ready[u] \/ u \in served]
        /\ woken' = [u \in Threads |-> woken[u] \/ u \in served]
        /\ pattern' = [u \in Threads |-> IF u \in served THEN m_bits \cup b ELSE pattern[u]]
        /\ UNCHANGED <<m_waiters, m_deleted, freed, destroy_wake, pc, bits, wait_mode,
                       clear_mode, timed, canceled, deleted>>

(* The bits that are left of m after each position of the list was served: *)
(* position i finds what those before it have left.                        *)
Found(m) ==
    LET found[i \in 0 .. Len(m_waiters)] ==
            IF i = 0 THEN m
            ELSE LET u == m_waiters[i]
                 IN  IF ConditionMet(found[i - 1], bits[u], wait_mode[u])
                     THEN ApplyClear(found[i - 1], bits[u], clear_mode[u]) ELSE found[i - 1]
    IN  found

(* Mutant: the pattern is reported after the clearing. *)
MutSetReportsCleared(t, b) ==
    LET found == Found(m_bits \cup b)
        at(u) == found[IndexOf(m_waiters, u) - 1]
        served == {u \in Elems(m_waiters) : ConditionMet(at(u), bits[u], wait_mode[u])}
    IN  /\ Usable(t)
        /\ m_bits' = found[Len(m_waiters)]
        /\ ready' = [u \in Threads |-> ready[u] \/ u \in served]
        /\ woken' = [u \in Threads |-> woken[u] \/ u \in served]
        /\ pattern' = [u \in Threads |-> IF u \in served THEN found[IndexOf(m_waiters, u)]
                                         ELSE pattern[u]]
        /\ UNCHANGED <<m_waiters, m_deleted, freed, destroy_wake, pc, bits, wait_mode,
                       clear_mode, timed, canceled, deleted>>

(* Set serves the list in order.  A waiter that is ready but has not run   *)
(* yet is still listed and is served again.                                *)
Set(t, b) ==
    LET found == Found(m_bits \cup b)
        at(u) == found[IndexOf(m_waiters, u) - 1]
        served == {u \in Elems(m_waiters) : ConditionMet(at(u), bits[u], wait_mode[u])}
    IN  /\ Usable(t)
        /\ m_bits' = found[Len(m_waiters)]
        /\ ready' = [u \in Threads |-> ready[u] \/ u \in served]
        /\ woken' = [u \in Threads |-> woken[u] \/ u \in served]
        /\ pattern' = [u \in Threads |-> IF u \in served THEN at(u) ELSE pattern[u]]
        /\ UNCHANGED <<m_waiters, m_deleted, freed, destroy_wake, pc, bits, wait_mode,
                       clear_mode, timed, canceled, deleted>>

Clear(t, b) ==
    /\ Usable(t)
    /\ m_bits' = m_bits \cap b
    /\ UNCHANGED <<m_waiters, m_deleted, freed, destroy_wake, pc, waiterVars>>

Cancel(t, b) ==
    /\ Usable(t)
    /\ m_bits' = b
    /\ pattern' = [u \in Threads |-> IF u \in Elems(m_waiters) THEN b ELSE pattern[u]]
    /\ canceled' = [u \in Threads |-> canceled[u] \/ u \in Elems(m_waiters)]
    /\ woken' = [u \in Threads |-> woken[u] \/ u \in Elems(m_waiters)]
    /\ UNCHANGED <<m_waiters, m_deleted, freed, destroy_wake, pc, bits, wait_mode, clear_mode,
                   timed, ready, deleted>>

(* The destructor: the guest deletes a flag once. *)
Destroy(t) ==
    /\ Usable(t) /\ ~m_deleted
    /\ m_deleted' = TRUE
    /\ deleted' = [u \in Threads |-> deleted[u] \/ u \in Elems(m_waiters)]
    /\ woken' = [u \in Threads |-> woken[u] \/ u \in Elems(m_waiters)]
    /\ IF m_waiters = << >> THEN freed' = TRUE /\ UNCHANGED pc
       ELSE pc' = [pc EXCEPT ![t] = "destroy"] /\ UNCHANGED freed
    /\ UNCHANGED <<m_bits, m_waiters, destroy_wake, bits, wait_mode, clear_mode, timed, ready,
                   canceled, pattern>>

Destroyed(t) ==
    /\ pc[t] = "destroy" /\ destroy_wake /\ m_waiters = << >>
    /\ freed' = TRUE
    /\ pc' = [pc EXCEPT ![t] = "run"]
    /\ UNCHANGED <<m_bits, m_waiters, m_deleted, destroy_wake, waiterVars>>

Step(t) == WaitWoken(t) \/ WaitExpired(t) \/ (Destroyed(t) /\ answer' = NoAnswer)
Call(t) ==
    \/ \E q \in Requests : WaitMet(t, q[1], q[2], q[3]) \/ WaitBlocks(t, q[1], q[2], q[3])
    \/ \E b \in SUBSET Bits : Set(t, b) \/ Clear(t, b) \/ Cancel(t, b)
    \/ Destroy(t)

Next == \E t \in Threads : Step(t) \/ (Call(t) /\ answer' = NoAnswer)

Spec == Init /\ [][Next]_vars

(* The host runs a thread whose condition variable was notified. *)
FairSpec == Spec /\ \A t \in Threads : WF_vars(Step(t))
-----------------------------------------------------------------------------
(* The list points at the records of exactly the threads inside Wait, each *)
(* once: the records live on the stacks of those threads.                  *)
ListedIsWaiting ==
    /\ \A i, j \in 1 .. Len(m_waiters) : m_waiters[i] = m_waiters[j] => i = j
    /\ \A t \in Threads : t \in Elems(m_waiters) <=> pc[t] = "wait"

(* The object outlives its waiters: once the destructor has returned no    *)
(* thread is inside Wait, and so none touches m_mutex or the list again.   *)
FreedHasNoWaiter == freed => m_waiters = << >> /\ \A t \in Threads : pc[t] # "wait"

(* The state of EventFlagInternal and of its Waiter records: the list      *)
(* agrees with who waits, and nobody waits on a destroyed flag             *)
(* (event_flag.cpp).                                                       *)
TypeOK ==
    /\ m_bits \subseteq Bits
    /\ m_waiters \in Seq(Threads)
    /\ m_deleted \in BOOLEAN /\ freed \in BOOLEAN /\ destroy_wake \in BOOLEAN
    /\ pc \in [Threads -> {"run", "wait", "destroy"}]
    /\ bits \in [Threads -> SUBSET Bits]
    /\ wait_mode \in [Threads -> {"and", "or"}]
    /\ clear_mode \in [Threads -> {"none", "all", "bits"}]
    /\ timed \in [Threads -> BOOLEAN]
    /\ ready \in [Threads -> BOOLEAN]
    /\ canceled \in [Threads -> BOOLEAN]
    /\ deleted \in [Threads -> BOOLEAN]
    /\ woken \in [Threads -> BOOLEAN]
    /\ pattern \in [Threads -> SUBSET Bits]
    /\ answer \in {None, "ok", "canceled", "deleted", "timedout"} \X SUBSET Bits
    /\ ListedIsWaiting /\ FreedHasNoWaiter

(* Nobody waits for what is there: the condition of a listed waiter that   *)
(* was not woken does not hold, whatever was set, cleared by others or     *)
(* cancelled in between.                                                   *)
NobodyOverlooked ==
    \A t \in Elems(m_waiters) :
        Awake(t) \/ ~ConditionMet(m_bits, bits[t], wait_mode[t])

Precedes(t, u) == ~ByPrio \/ Prio[t] >= Prio[u]

(* The list is in the order of falling priority numbers, unless Fifo. *)
ListInOrder ==
    \A i, j \in 1 .. Len(m_waiters) : i < j => Precedes(m_waiters[i], m_waiters[j])

(* What a record says agrees with where its thread is: no reason outside   *)
(* of Wait, a notification for exactly those with a reason, and a pattern  *)
(* that meets the condition once Set has served the record, until a        *)
(* cancellation replaces it.                                               *)
RecordAgrees ==
    \A t \in Threads :
        /\ pc[t] # "wait" => ~Awake(t)
        /\ woken[t] <=> Awake(t)
        /\ ready[t] /\ ~canceled[t] => ConditionMet(pattern[t], bits[t], wait_mode[t])

(* The destructor does not wait in vain: whoever is still listed has been  *)
(* told of the deletion, and when nobody is, the destructor has been told. *)
DestructorTold ==
    /\ m_deleted => \A t \in Elems(m_waiters) : deleted[t]
    /\ \A t \in Threads : pc[t] = "destroy" => m_deleted /\ (m_waiters = << >> => destroy_wake)

(* The inductive invariant of the proofs: the list in order and in         *)
(* agreement with who waits, the records in agreement with their threads,  *)
(* nobody overlooked, and the destructor told (event_flag.cpp).            *)
IInv == TypeOK /\ ListInOrder /\ RecordAgrees /\ NobodyOverlooked /\ DestructorTold

(* A Wait that succeeds reports a pattern that meets its condition, even   *)
(* when other waiters cleared bits or Set served it twice.                 *)
SuccessIsMet ==
    [][\A t \in Threads : pc[t] = "wait" /\ pc'[t] = "run" /\ answer'[1] = "ok"
          => ConditionMet(answer'[2], bits[t], wait_mode[t])]_vars

(* Waiters line up behind the ones that came first, unless their priority  *)
(* number is greater.                                                      *)
NoOvertaking ==
    [][\A t \in Elems(m_waiters), u \in Threads \ Elems(m_waiters) :
          /\ t \in Elems(m_waiters') /\ u \in Elems(m_waiters')
          /\ Precedes(t, u)
          => IndexOf(m_waiters', t) < IndexOf(m_waiters', u)]_vars

(* The destructor returns: every waiter leaves and the last one tells it.  *)
DestructorReturns == m_deleted ~> freed
=============================================================================
