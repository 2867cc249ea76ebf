----------------------------- MODULE OrbisSema ------------------------------
(***************************************************************************)
(* threads/semaphore.cpp, class OrbisSem: the kernel semaphore of the      *)
(* guest.  A waiter that cannot be served puts a record on wait_list, lets *)
(* go of the object's mutex and sleeps on a semaphore of its own; Signal,  *)
(* Cancel and Delete take it off the list, say why in its record and       *)
(* release it.  Everything between a lock and an unlock of the mutex is    *)
(* one step.  pc[t] is the point a thread has reached:                     *)
(*   run     outside of the semaphore                                      *)
(*   sleep   in WaitingThread::Wait, on its own semaphore                  *)
(*   relock  past it, before lk.lock()                                     *)
(*   erase   in sceKernelDeleteSema, between Delete and erase              *)
(*   stuck   never came back from lk.lock() on an erased object            *)
(***************************************************************************)
EXTENDS Integers, Sequences, SeqOps

CONSTANTS Threads,     \* the guest threads
          MaxTokens,   \* max_count
          InitTokens,  \* init_count
          IsFifo,      \* is_fifo
          Prio,        \* the priority of each thread (its attr.prio)
          None         \* the answer of a call that has not returned

ASSUME OrbisSemaAssumption ==
    /\ MaxTokens \in Nat \ {0}
    /\ InitTokens \in 0 .. MaxTokens
    /\ IsFifo \in BOOLEAN
    /\ Prio \in [Threads -> Nat]
    /\ None \notin {"ok", "canceled", "deleted", "timedout"}

VARIABLES
    allocated,    \* the slot of orbis_sems still holds the object
    token_count,
    wait_list,    \* the threads whose records are listed
    pc,
    need_count, timed, sem, \* of a thread's WaitingThread: need_count, a deadline, sem
    why,          \* was_signaled, was_deleted, was_canceled: the first one set
    result,       \* what the last Wait returned
    deducted      \* history: tokens taken on behalf of the Wait under way

waiterVars == <<need_count, timed, sem, why>>
vars == <<allocated, token_count, wait_list, pc, waiterVars, result, deducted>>

Counts == 1 .. MaxTokens

(* sceKernelCreateSema *)
Init ==
    /\ allocated = TRUE
    /\ token_count = InitTokens
    /\ wait_list = << >>
    /\ pc = [t \in Threads |-> "run"]
    /\ need_count = [t \in Threads |-> 1]
    /\ timed = [t \in Threads |-> FALSE]
    /\ sem = [t \in Threads |-> 0]
    /\ why = [t \in Threads |-> None]
    /\ result = [t \in Threads |-> None]
    /\ deducted = [t \in Threads |-> 0]

Goto(t, l) == pc' = [pc EXCEPT ![t] = l]

(* Mutant: equal priorities are served last come, first served. *)
MutAddWaiterBeforeEqual(t) ==
    InsertBefore(wait_list, t, {u \in Threads : ~IsFifo /\ Prio[u] >= Prio[t]})

(* At the end when is_fifo, else before the first greater priority number. *)
AddWaiter(t) == InsertBefore(wait_list, t, {u \in Threads : ~IsFifo /\ Prio[u] > Prio[t]})

(* Wait that is served at once (also Poll). *)
WaitServed(t, n) ==
    /\ pc[t] = "run" /\ allocated /\ token_count >= n
    /\ token_count' = token_count - n
    /\ result' = [result EXCEPT ![t] = "ok"]
    /\ UNCHANGED <<allocated, wait_list, pc, waiterVars, deducted>>

(* Wait that has to block; a Poll (EBUSY) or a zero timeout leaves at this *)
(* point and changes nothing.                                              *)
WaitBlocks(t, n) ==
    /\ pc[t] = "run" /\ allocated /\ token_count < n
    /\ wait_list' = AddWaiter(t)
    /\ need_count' = [need_count EXCEPT ![t] = n]
    /\ \E b \in BOOLEAN : timed' = [timed EXCEPT ![t] = b]
    /\ result' = [result EXCEPT ![t] = None]
    /\ Goto(t, "sleep")
    /\ UNCHANGED <<allocated, token_count, sem, why, deducted>>

(* WaitingThread::Wait: released, or the deadline passes first. *)
Acquire(t) ==
    /\ pc[t] = "sleep" /\ sem[t] > 0
    /\ sem' = [sem EXCEPT ![t] = @ - 1]
    /\ Goto(t, "relock")
    /\ UNCHANGED <<allocated, token_count, wait_list, need_count, timed, why, result, deducted>>
Expire(t) ==
    /\ pc[t] = "sleep" /\ sem[t] = 0 /\ timed[t]
    /\ Goto(t, "relock")
    /\ UNCHANGED <<allocated, token_count, wait_list, waiterVars, result, deducted>>

(* The record goes out of scope with the call. *)
Return(t, r) ==
    /\ result' = [result EXCEPT ![t] = r]
    /\ need_count' = [need_count EXCEPT ![t] = 1]
    /\ timed' = [timed EXCEPT ![t] = FALSE]
    /\ sem' = [sem EXCEPT ![t] = 0]
    /\ why' = [why EXCEPT ![t] = None]
    /\ deducted' = [deducted EXCEPT ![t] = 0]
    /\ Goto(t, "run")

GetResult(t) == IF why[t] = None THEN "timedout" ELSE why[t]

(* Mutant: a record whose deadline passed stays listed. *)
MutFinishKeepsRecord(t) ==
    /\ pc[t] = "relock"
    /\ Return(t, GetResult(t))
    /\ UNCHANGED <<allocated, token_count, wait_list>>

(* Mutant: the answer is what the sleep said, not what the record says. *)
MutFinishTrustsClock(t) ==
    /\ pc[t] = "relock"
    /\ wait_list' = WithoutAll(wait_list, {t})
    /\ Return(t, IF sem[t] > 0 THEN "timedout" ELSE GetResult(t))
    /\ UNCHANGED <<allocated, token_count>>

(* Under the mutex again.  Only a record that nobody answered is still     *)
(* listed, and only then it is erased.  On an erased object lk.lock()      *)
(* works on freed memory: it may return or not.                            *)
Finish(t) ==
    /\ pc[t] = "relock"
    /\ \/ /\ Return(t, GetResult(t))
          /\ wait_list' = IF GetResult(t) = "timedout"
                          THEN Without(wait_list, IndexOf(wait_list, t)) ELSE wait_list
       \/ /\ ~allocated
          /\ Goto(t, "stuck")
          /\ UNCHANGED <<wait_list, waiterVars, result, deducted>>
    /\ UNCHANGED <<allocated, token_count>>

(* Mutant: the records are answered but nobody is released. *)
MutAnswerNoRelease(served, r) ==
    /\ wait_list' = WithoutAll(wait_list, served)
    /\ why' = [u \in Threads |-> IF u \in served THEN r ELSE why[u]]
    /\ UNCHANGED sem

(* Takes the threads of a set off the list, answers and releases them.     *)
Answer(served, r) ==
    /\ wait_list' = WithoutAll(wait_list, served)
    /\ why' = [u \in Threads |-> IF u \in served THEN r ELSE why[u]]
    /\ sem' = [u \in Threads |-> IF u \in served THEN sem[u] + 1 ELSE sem[u]]

(* Mutant: the first record that cannot be served ends the loop. *)
MutLeftStopsEarly(n) ==
    LET left[i \in 0 .. Len(wait_list)] ==
            IF i = 0 THEN n
            ELSE LET c == need_count[wait_list[i]]
                 IN  IF c > left[i - 1] \/ (i > 1 /\ left[i - 1] = left[i - 2])
                     THEN left[i - 1] ELSE left[i - 1] - c
    IN  left

(* What is left of n tokens after each position of the list was offered    *)
(* its share: a record that needs more than there is left is passed over.  *)
Left(n) ==
    LET left[i \in 0 .. Len(wait_list)] ==
            IF i = 0 THEN n
            ELSE LET c == need_count[wait_list[i]]
                 IN  IF c > left[i - 1] THEN left[i - 1] ELSE left[i - 1] - c
    IN  left

(* Signal: EINVAL beyond max_count, else the list is served in order. *)
Signal(t, n) ==
    /\ pc[t] = "run" /\ allocated /\ token_count + n <= MaxTokens
    /\ LET left == Left(token_count + n)
           served == {wait_list[i] : i \in {i \in 1 .. Len(wait_list) : left[i] < left[i - 1]}}
       IN  /\ Answer(served, "ok")
           /\ token_count' = left[Len(wait_list)]
           /\ deducted' = [u \in Threads |-> IF u \in served THEN need_count[u] ELSE deducted[u]]
    /\ UNCHANGED <<allocated, pc, need_count, timed, result>>

(* Cancel: everybody is released and the count set anew (unchecked; the    *)
(* guest passes a legal count or a negative one).                          *)
Cancel(t, n) ==
    /\ pc[t] = "run" /\ allocated
    /\ Answer(Elems(wait_list), "canceled")
    /\ token_count' = IF n < 0 THEN InitTokens ELSE n
    /\ UNCHANGED <<allocated, pc, need_count, timed, result, deducted>>

(* sceKernelDeleteSema: Delete releases everybody under the mutex; the     *)
(* slot is erased after it, and with it the object.  The guest deletes a   *)
(* semaphore once.                                                         *)
Delete(t) ==
    /\ pc[t] = "run" /\ allocated /\ \A u \in Threads : pc[u] # "erase"
    /\ Answer(Elems(wait_list), "deleted")
    /\ Goto(t, "erase")
    /\ UNCHANGED <<allocated, token_count, need_count, timed, result, deducted>>
Erase(t) ==
    /\ pc[t] = "erase"
    /\ allocated' = FALSE
    /\ Goto(t, "run")
    /\ UNCHANGED <<token_count, wait_list, waiterVars, result, deducted>>

Step(t) == Acquire(t) \/ Expire(t) \/ Finish(t) \/ Erase(t)
Next == \E t \in Threads :
            \/ Step(t)
            \/ \E n \in Counts : WaitServed(t, n) \/ WaitBlocks(t, n) \/ Signal(t, n)
            \/ \E n \in -1 .. MaxTokens : Cancel(t, n)
            \/ Delete(t)

Spec == Init /\ [][Next]_vars

(* The host runs a thread that can leave its semaphore. *)
FairSpec == Spec /\ \A t \in Threads : WF_vars(Step(t))
-----------------------------------------------------------------------------
(* The list holds the records of exactly the threads inside Wait that      *)
(* nobody answered: no dangling record of a thread that left, no thread    *)
(* that sleeps unlisted and unanswered, no record twice.                   *)
ListedIsWaiting ==
    /\ \A i, j \in 1 .. Len(wait_list) : wait_list[i] = wait_list[j] => i = j
    /\ \A t \in Threads :
           t \in Elems(wait_list) <=> (pc[t] \in {"sleep", "relock", "stuck"} /\ why[t] = None)

(* Types and bounds: the count stays within 0 .. max_count and a record's *)
(* BinarySemaphore within its one permit, whatever races with Signal, and *)
(* the list agrees with who waits (semaphore.cpp, OrbisSem).              *)
TypeOK ==
    /\ allocated \in BOOLEAN
    /\ token_count \in 0 .. MaxTokens
    /\ wait_list \in Seq(Threads)
    /\ pc \in [Threads -> {"run", "sleep", "relock", "erase", "stuck"}]
    /\ need_count \in [Threads -> Counts]
    /\ timed \in [Threads -> BOOLEAN]
    /\ sem \in [Threads -> {0, 1}]
    /\ why \in [Threads -> {None, "ok", "canceled", "deleted"}]
    /\ result \in [Threads -> {None, "ok", "canceled", "deleted", "timedout"}]
    /\ deducted \in [Threads -> 0 .. MaxTokens]
    /\ ListedIsWaiting

Precedes(t, u) == IsFifo \/ Prio[t] <= Prio[u]

(* The list is in the order of the priority numbers, unless is_fifo. *)
ListInOrder ==
    \A i, j \in 1 .. Len(wait_list) : i < j => Precedes(wait_list[i], wait_list[j])

(* What a record says agrees with where its thread is: no answer outside   *)
(* of Wait, one permit for a sleeper that was answered and none for one    *)
(* that was not, and tokens taken exactly for an answer of ORBIS_OK.       *)
RecordAgrees ==
    \A t \in Threads :
        /\ pc[t] \in {"run", "erase"} => why[t] = None
        /\ why[t] = None => sem[t] = 0
        /\ pc[t] = "sleep" /\ why[t] # None => sem[t] = 1
        /\ deducted[t] = IF why[t] = "ok" THEN need_count[t] ELSE 0

(* Nobody waits for what is there: a listed record needs more tokens than  *)
(* the semaphore has, whatever was signalled, taken or expired before.     *)
NobodyOverlooked ==
    \A i \in 1 .. Len(wait_list) : need_count[wait_list[i]] > token_count

(* The inductive invariant of the proofs: the count within its bounds, the *)
(* list in order and in agreement with who waits, each record in agreement *)
(* with its thread, and nobody overlooked (semaphore.cpp, OrbisSem).       *)
IInv == TypeOK /\ ListInOrder /\ RecordAgrees /\ NobodyOverlooked

(* Tokens are taken for a Wait exactly when it returns ORBIS_OK: a         *)
(* deadline, a cancellation or a deletion racing with Signal neither       *)
(* swallows tokens nor hands out what was not taken.                       *)
TokensMatchResult ==
    [][\A t \in Threads : pc[t] = "relock" /\ pc'[t] = "run" =>
          deducted[t] = IF result'[t] = "ok" THEN need_count[t] ELSE 0]_vars

(* The list is served in order: a record is overtaken only by a smaller   *)
(* priority number; the others that arrive later line up behind it (all of *)
(* them, when is_fifo).                                                    *)
NoOvertaking ==
    [][\A t \in Elems(wait_list), u \in Threads \ Elems(wait_list) :
          t \in Elems(wait_list') /\ u \in Elems(wait_list') /\ Precedes(t, u)
              => IndexOf(wait_list', t) < IndexOf(wait_list', u)]_vars

(* A waiter that was answered leaves, or is lost with the erased object. *)
AnsweredReturns ==
    \A t \in Threads : (pc[t] = "sleep" /\ why[t] # None) ~> (pc[t] # "sleep" /\ pc[t] # "relock")
=============================================================================
