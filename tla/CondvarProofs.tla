---------------------------- MODULE CondvarProofs ---------------------------
(***************************************************************************)
(* The inductive invariant of module Condvar and the safety properties     *)
(* that follow from it, for any sets of threads, mutexes and condition     *)
(* variables, any capacity of the arrays and any bound on the recursion    *)
(* count.                                                                  *)
(*                                                                         *)
(* NoLostWake alone is not inductive.  A waiter that was dequeued and not  *)
(* served yet must not leave its Wait (TodoPinned), which holds because    *)
(* the chain it needs is locked by the thread that serves it               *)
(* (ChainAgrees) and because a waiter takes the chain only at the points   *)
(* where it is in the queue (QueueAgrees).  NoLostCancel rests on the      *)
(* order ClearWake, ShouldCancel, Sleep; DebtCovered on following the      *)
(* deferred wake-ups of a thread through every point of a call             *)
(* (DebtTracked), and that on who may have will_sleep set                  *)
(* (WillSleepAgrees).  One lemma per action shows that the action          *)
(* preserves each conjunct; StepOK puts them together.                     *)
(***************************************************************************)
EXTENDS Condvar, SeqOpsProofs

USE DEF At, Goto, mutexVars, queueVars, waitVars, sendVars, cancelVars, WaitPCs, OnQueuePCs, DropPCs

(* Mutexes: the new owner has neither flag nor count to inherit.           *)
LEMMA LockOK == ASSUME IInv, NEW t \in Threads, NEW m \in Mutexes, Lock(t, m) PROVE IInv'
  <1> USE DEF Lock
  <1>p. pc' = pc
    OBVIOUS
  <1>n. NULL \notin Threads /\ NULL \notin Conds /\ NULL \notin Mutexes
    BY CondvarAssumption
  <1>v. \A k \in Mutexes : owner'[k] = IF k = m THEN t ELSE owner[k]
    BY DEF IInv, TypeOK, Types
  <1>0. Types'
    BY <1>p, <1>n, <1>v DEF IInv, TypeOK, Types, PCs
  <1>1. QueueAgrees'
    BY <1>p, <1>n, <1>v DEF IInv, TypeOK, QueueAgrees
  <1>2. FreeMutexIsClean'
    BY <1>p, <1>n, <1>v DEF IInv, TypeOK, FreeMutexIsClean
  <1>3. WaitAgrees'
    BY <1>p, <1>n, <1>v DEF IInv, TypeOK, WaitAgrees
  <1>4. CountAgrees'
    BY <1>p, <1>n, <1>v DEF IInv, TypeOK, CountAgrees
  <1>5. ChainAgrees'
    BY <1>p, <1>n, <1>v DEF IInv, TypeOK, ChainAgrees
  <1>6. TodoPinned'
    BY <1>p, <1>n, <1>v DEF IInv, TypeOK, TodoPinned
  <1>7. ArraysInBounds'
    BY <1>p, <1>n, <1>v DEF IInv, TypeOK, ArraysInBounds
  <1>8. DebtTracked'
    BY <1>p, <1>n, <1>v DEF IInv, TypeOK, DebtTracked, Covered, SkippedSleep
  <1>9. WillSleepAgrees'
    BY <1>p, <1>n, <1>v DEF IInv, TypeOK, WillSleepAgrees
  <1>10. SignalAgrees'
    BY <1>p, <1>n, <1>v DEF IInv, TypeOK, SignalAgrees
  <1>11. SignalNotAbsorbed'
    BY <1>p, <1>n, <1>v DEF IInv, TypeOK, SignalNotAbsorbed
  <1>12. NoLostWake'
    BY <1>p, <1>n, <1>v DEF IInv, TypeOK, NoLostWake, Owes
  <1>13. NoLostCancel'
    BY <1>p, <1>n, <1>v DEF IInv, TypeOK, NoLostCancel, ShouldCancel
  <1> QED
    BY <1>0, <1>1, <1>2, <1>3, <1>4, <1>5, <1>6, <1>7, <1>8, <1>9, <1>10, <1>11, <1>12, <1>13
       DEF IInv, TypeOK

(* The owner locks again: a Recursive mutex counts it. *)
LEMMA SelfLockOK == ASSUME IInv, NEW t \in Threads, NEW m \in Mutexes, SelfLock(t, m) PROVE IInv'
  <1> USE DEF SelfLock
  <1>p. pc' = pc
    OBVIOUS
  <1>n. NULL \notin Threads /\ NULL \notin Conds /\ NULL \notin Mutexes
    BY CondvarAssumption
  <1>v. \A k \in Mutexes : count'[k] = IF k = m THEN count[m] + 1 ELSE count[k]
    BY DEF IInv, TypeOK, Types
  <1>0. Types'
    <2>1. MaxCount \in Nat /\ count[m] \in 0 .. MaxCount
      BY CondvarAssumption DEF IInv, TypeOK, Types
    <2>2. count' \in [Mutexes -> 0 .. MaxCount]
      BY <2>1 DEF IInv, TypeOK, Types
    <2> QED
      BY <2>2 DEF IInv, TypeOK, Types
  <1>1. QueueAgrees'
    BY <1>p, <1>n, <1>v DEF IInv, TypeOK, QueueAgrees
  <1>2. FreeMutexIsClean'
    BY <1>p, <1>n, <1>v DEF IInv, TypeOK, FreeMutexIsClean
  <1>3. WaitAgrees'
    BY <1>p, <1>n, <1>v DEF IInv, TypeOK, WaitAgrees
  <1>4. CountAgrees'
    BY <1>p, <1>n, <1>v DEF IInv, TypeOK, CountAgrees
  <1>5. ChainAgrees'
    BY <1>p, <1>n, <1>v DEF IInv, TypeOK, ChainAgrees
  <1>6. TodoPinned'
    BY <1>p, <1>n, <1>v DEF IInv, TypeOK, TodoPinned
  <1>7. ArraysInBounds'
    BY <1>p, <1>n, <1>v DEF IInv, TypeOK, ArraysInBounds
  <1>8. DebtTracked'
    BY <1>p, <1>n, <1>v DEF IInv, TypeOK, DebtTracked, Covered, SkippedSleep
  <1>9. WillSleepAgrees'
    BY <1>p, <1>n, <1>v DEF IInv, TypeOK, WillSleepAgrees
  <1>10. SignalAgrees'
    BY <1>p, <1>n, <1>v DEF IInv, TypeOK, SignalAgrees
  <1>11. SignalNotAbsorbed'
    BY <1>p, <1>n, <1>v DEF IInv, TypeOK, SignalNotAbsorbed
  <1>12. NoLostWake'
    BY <1>p, <1>n, <1>v DEF IInv, TypeOK, NoLostWake, Owes
  <1>13. NoLostCancel'
    BY <1>p, <1>n, <1>v DEF IInv, TypeOK, NoLostCancel, ShouldCancel
  <1> QED
    BY <1>0, <1>1, <1>2, <1>3, <1>4, <1>5, <1>6, <1>7, <1>8, <1>9, <1>10, <1>11, <1>12, <1>13
       DEF IInv, TypeOK

(* A change of the cancellation state touches no list.                     *)
LEMMA SetCancelStateOK == ASSUME IInv, NEW t \in Threads, SetCancelState(t) PROVE IInv'
  <1> USE DEF SetCancelState, BeginExit
  <1>p. pc' = pc
    OBVIOUS
  <1>v. \A u \in Threads \ {t} : cancel_enable'[u] = cancel_enable[u] /\ no_cancel'[u] = no_cancel[u]
    BY DEF IInv, TypeOK, Types
  <1>0. Types'
    <2>1. cancel_enable' \in [Threads -> BOOLEAN] /\ no_cancel' \in [Threads -> BOOLEAN]
      BY DEF IInv, TypeOK, Types
    <2> QED
      BY <2>1 DEF IInv, TypeOK, Types
  <1>1. QueueAgrees'
    BY <1>p, <1>v DEF IInv, TypeOK, QueueAgrees
  <1>2. FreeMutexIsClean'
    BY <1>p, <1>v DEF IInv, TypeOK, FreeMutexIsClean
  <1>3. WaitAgrees'
    BY <1>p, <1>v DEF IInv, TypeOK, WaitAgrees
  <1>4. CountAgrees'
    BY <1>p, <1>v DEF IInv, TypeOK, CountAgrees
  <1>5. ChainAgrees'
    BY <1>p, <1>v DEF IInv, TypeOK, ChainAgrees
  <1>6. TodoPinned'
    BY <1>p, <1>v DEF IInv, TypeOK, TodoPinned
  <1>7. ArraysInBounds'
    BY <1>p, <1>v DEF IInv, TypeOK, ArraysInBounds
  <1>8. DebtTracked'
    BY <1>p, <1>v DEF IInv, TypeOK, DebtTracked, Covered, SkippedSleep
  <1>9. WillSleepAgrees'
    BY <1>p, <1>v DEF IInv, TypeOK, WillSleepAgrees
  <1>10. SignalAgrees'
    BY <1>p, <1>v DEF IInv, TypeOK, SignalAgrees
  <1>11. SignalNotAbsorbed'
    BY <1>p, <1>v DEF IInv, TypeOK, SignalNotAbsorbed
  <1>12. NoLostWake'
    BY <1>p, <1>v DEF IInv, TypeOK, NoLostWake, Owes
  <1>13. NoLostCancel'
    BY <1>p, <1>v DEF IInv, TypeOK, NoLostCancel, ShouldCancel
  <1> QED
    BY <1>0, <1>1, <1>2, <1>3, <1>4, <1>5, <1>6, <1>7, <1>8, <1>9, <1>10, <1>11, <1>12, <1>13
       DEF IInv, TypeOK

(* What the types say of the lists.                                        *)
LEMMA ListFacts ==
    ASSUME IInv
    PROVE  /\ \A c \in Conds : chain[c] # NULL => chain[c] \in Threads
           /\ \A c \in Conds : /\ queue[c] \in Seq(Threads) /\ Elems(queue[c]) \subseteq Threads
                               /\ Distinct(queue[c])
           /\ \A s \in Threads : /\ todo[s] \in Seq(Threads) /\ Elems(todo[s]) \subseteq Threads
                                 /\ defer[s] \in Seq(Threads) /\ imm[s] \in Seq(Threads)
  <1>1. \A s : s \in Seq(Threads) => Elems(s) \subseteq Threads
    BY DEF Elems
  <1>2. /\ \A c \in Conds : queue[c] \in Seq(Threads) /\ (chain[c] # NULL => chain[c] \in Threads)
        /\ \A s \in Threads : /\ todo[s] \in Seq(Threads) /\ defer[s] \in Seq(Threads)
                              /\ imm[s] \in Seq(Threads)
    BY DEF IInv, TypeOK, Types
  <1>3. \A c \in Conds : Distinct(queue[c])
    BY DEF IInv, TypeOK, QueueAgrees, Distinct
  <1> QED
    BY <1>1, <1>2, <1>3

(* Queues, chain locks and the waiters to serve do not notice a step that  *)
(* leaves them alone and moves threads only among the other points.        *)
LEMMA FrameChain ==
    ASSUME IInv, UNCHANGED <<queue, wchan, chain, todo>>,
           \A u \in Threads : \/ pc'[u] = pc[u] /\ cond'[u] = cond[u]
                              \/ /\ pc[u] \notin OnQueuePCs \cup DropPCs
                                 /\ pc'[u] \notin OnQueuePCs \cup DropPCs
    PROVE  QueueAgrees' /\ ChainAgrees' /\ TodoPinned'
  <1>1. /\ \A c \in Conds : chain[c] # NULL => chain[c] \in Threads
        /\ \A c \in Conds : Elems(queue[c]) \subseteq Threads
        /\ \A s \in Threads : Elems(todo[s]) \subseteq Threads
    BY ListFacts
  <1>2. QueueAgrees'
    BY <1>1 DEF IInv, TypeOK, QueueAgrees
  <1>3. ChainAgrees'
    BY <1>1 DEF IInv, ChainAgrees
  <1>4. TodoPinned'
    BY <1>1 DEF IInv, TodoPinned
  <1> QED
    BY <1>2, <1>3, <1>4

(* A step that moves one thread and changes nothing else.                  *)
LEMMA MoveOK ==
    ASSUME IInv, NEW t \in Threads, NEW l, pc' = [pc EXCEPT ![t] = l],
           \/ pc[t] = "run" /\ l = "dead"
           \/ pc[t] = "presleep" /\ l = "sleep" /\ defer[t] = << >>
           \/ pc[t] \in {"drop", "flush", "immflush"} /\ l \in {"drop", "flush", "immflush"}
           \/ pc[t] = "unlocked" /\ l = "run" /\ defer[t] = << >>
           \/ pc[t] = "release" /\ l = "run" /\ imm[t] = << >>,
           UNCHANGED <<mutexVars, queueVars, chain, sema, defer, will_sleep, waitVars, sendVars,
                       cancelVars, signalled>>
    PROVE  IInv'
  <1>p. \A u \in Threads : pc'[u] = IF u = t THEN l ELSE pc[u]
    BY DEF IInv, TypeOK, Types
  <1>0. Types'
    BY <1>p DEF IInv, TypeOK, Types, PCs
  <1>1. QueueAgrees'
    BY <1>p DEF IInv, TypeOK, QueueAgrees
  <1>2. FreeMutexIsClean'
    BY <1>p DEF IInv, TypeOK, FreeMutexIsClean
  <1>3. WaitAgrees'
    BY <1>p DEF IInv, TypeOK, WaitAgrees
  <1>4. CountAgrees'
    BY <1>p DEF IInv, TypeOK, CountAgrees
  <1>5. ChainAgrees'
    BY <1>p DEF IInv, TypeOK, ChainAgrees
  <1>6. TodoPinned'
    BY <1>p DEF IInv, TypeOK, TodoPinned
  <1>7. ArraysInBounds'
    BY <1>p DEF IInv, TypeOK, ArraysInBounds
  <1>8. DebtTracked'
    BY <1>p DEF IInv, TypeOK, DebtTracked, Covered, SkippedSleep
  <1>9. WillSleepAgrees'
    BY <1>p DEF IInv, TypeOK, WillSleepAgrees
  <1>10. SignalAgrees'
    BY <1>p DEF IInv, TypeOK, SignalAgrees
  <1>11. SignalNotAbsorbed'
    BY <1>p DEF IInv, TypeOK, SignalNotAbsorbed
  <1>12. NoLostWake'
    BY <1>p DEF IInv, TypeOK, NoLostWake, Owes
  <1>13. NoLostCancel'
    BY <1>p DEF IInv, TypeOK, NoLostCancel, ShouldCancel
  <1> QED
    BY <1>0, <1>1, <1>2, <1>3, <1>4, <1>5, <1>6, <1>7, <1>8, <1>9, <1>10, <1>11, <1>12, <1>13
       DEF IInv, TypeOK

(* The drained permit was for nobody who sleeps: the thread is in the      *)
(* queue.                                                                  *)
LEMMA ClearWakeOK == ASSUME IInv, NEW t \in Threads, ClearWake(t) PROVE IInv'
  <1> USE DEF ClearWake
  <1>p. \A u \in Threads : pc'[u] = IF u = t THEN "check" ELSE pc[u]
    BY DEF IInv, TypeOK, Types
  <1>v. \A u \in Threads : sema'[u] = IF u = t THEN 0 ELSE sema[u]
    BY DEF IInv, TypeOK, Types
  <1>0. Types'
    BY <1>p, <1>v DEF IInv, TypeOK, Types, PCs
  <1>1. QueueAgrees'
    BY <1>p, <1>v DEF IInv, TypeOK, QueueAgrees
  <1>2. FreeMutexIsClean'
    BY <1>p, <1>v DEF IInv, TypeOK, FreeMutexIsClean
  <1>3. WaitAgrees'
    BY <1>p, <1>v DEF IInv, TypeOK, WaitAgrees
  <1>4. CountAgrees'
    BY <1>p, <1>v DEF IInv, TypeOK, CountAgrees
  <1>5. ChainAgrees'
    BY <1>p, <1>v DEF IInv, TypeOK, ChainAgrees
  <1>6. TodoPinned'
    BY <1>p, <1>v DEF IInv, TypeOK, TodoPinned
  <1>7. ArraysInBounds'
    BY <1>p, <1>v DEF IInv, TypeOK, ArraysInBounds
  <1>8. DebtTracked'
    BY <1>p, <1>v DEF IInv, TypeOK, DebtTracked, Covered, SkippedSleep
  <1>9. WillSleepAgrees'
    BY <1>p, <1>v DEF IInv, TypeOK, WillSleepAgrees
  <1>10. SignalAgrees'
    BY <1>p, <1>v DEF IInv, TypeOK, SignalAgrees
  <1>11. SignalNotAbsorbed'
    BY <1>p, <1>v DEF IInv, TypeOK, SignalNotAbsorbed
  <1>12. NoLostWake'
    BY <1>p, <1>v DEF IInv, TypeOK, NoLostWake, Owes
  <1>13. NoLostCancel'
    BY <1>p, <1>v DEF IInv, TypeOK, NoLostCancel, ShouldCancel
  <1> QED
    BY <1>0, <1>1, <1>2, <1>3, <1>4, <1>5, <1>6, <1>7, <1>8, <1>9, <1>10, <1>11, <1>12, <1>13
       DEF IInv, TypeOK

(* A permit is used up by the thread it woke.                              *)
LEMMA SleepOK == ASSUME IInv, NEW t \in Threads, Sleep(t) PROVE IInv'
  <1> USE DEF Sleep
  <1>p. \A u \in Threads : pc'[u] = IF u = t THEN "wake" ELSE pc[u]
    BY DEF IInv, TypeOK, Types
  <1>v. \A u \in Threads \ {t} : sema'[u] = sema[u]
    BY DEF IInv, TypeOK, Types
  <1>0. Types'
    <2>1. sema[t] \in Nat /\ (sema[t] > 0 => sema[t] - 1 \in Nat) /\ sema \in [Threads -> Nat]
      BY DEF IInv, TypeOK, Types
    <2>2. sema' \in [Threads -> Nat]
      BY <2>1
    <2>3. timedout' \in [Threads -> BOOLEAN]
      BY DEF IInv, TypeOK, Types
    <2> QED
      BY <2>2, <2>3 DEF IInv, TypeOK, Types, PCs
  <1>1. QueueAgrees'
    BY <1>p, <1>v DEF IInv, TypeOK, QueueAgrees
  <1>2. FreeMutexIsClean'
    BY <1>p, <1>v DEF IInv, TypeOK, FreeMutexIsClean
  <1>3. WaitAgrees'
    BY <1>p, <1>v DEF IInv, TypeOK, WaitAgrees
  <1>4. CountAgrees'
    BY <1>p, <1>v DEF IInv, TypeOK, CountAgrees
  <1>5. ChainAgrees'
    BY <1>p, <1>v DEF IInv, TypeOK, ChainAgrees
  <1>6. TodoPinned'
    BY <1>p, <1>v DEF IInv, TypeOK, TodoPinned
  <1>7. ArraysInBounds'
    BY <1>p, <1>v DEF IInv, TypeOK, ArraysInBounds
  <1>8. DebtTracked'
    BY <1>p, <1>v DEF IInv, TypeOK, DebtTracked, Covered, SkippedSleep
  <1>9. WillSleepAgrees'
    BY <1>p, <1>v DEF IInv, TypeOK, WillSleepAgrees
  <1>10. SignalAgrees'
    BY <1>p, <1>v DEF IInv, TypeOK, SignalAgrees
  <1>11. SignalNotAbsorbed'
    BY <1>p, <1>v DEF IInv, TypeOK, SignalNotAbsorbed
  <1>12. NoLostWake'
    BY <1>p, <1>v DEF IInv, TypeOK, NoLostWake, Owes
  <1>13. NoLostCancel'
    BY <1>p, <1>v DEF IInv, TypeOK, NoLostCancel, ShouldCancel
  <1> QED
    BY <1>0, <1>1, <1>2, <1>3, <1>4, <1>5, <1>6, <1>7, <1>8, <1>9, <1>10, <1>11, <1>12, <1>13
       DEF IInv, TypeOK

(* A wake-up is paid: somebody gets a permit and leaves the list it was    *)
(* owed on.                                                                *)
LEMMA PermitOK ==
    ASSUME IInv, NEW h \in Threads, sema' = [sema EXCEPT ![h] = @ + 1],
           defer' \in [Threads -> Seq(Threads)], imm' \in [Threads -> Seq(Threads)],
           \A s \in Threads : /\ Elems(defer[s]) \subseteq Elems(defer'[s]) \cup {h}
                              /\ Elems(imm[s]) \subseteq Elems(imm'[s]) \cup {h}
                              /\ Len(defer'[s]) <= MaxDefer /\ Len(imm'[s]) <= MaxDefer
                              /\ defer'[s] # << >> => defer[s] # << >>
                              /\ imm'[s] # << >> => imm[s] # << >>,
           UNCHANGED <<pc, mutexVars, queueVars, chain, will_sleep, waitVars, todo, cancelVars,
                       signalled>>
    PROVE  IInv'
  <1>v. sema' \in [Threads -> Nat] /\ sema'[h] # 0 /\ \A u \in Threads \ {h} : sema'[u] = sema[u]
    BY DEF IInv, TypeOK, Types
  <1>0. Types'
    BY <1>v DEF IInv, TypeOK, Types, PCs
  <1>1. QueueAgrees'
    BY <1>v DEF IInv, TypeOK, QueueAgrees
  <1>2. FreeMutexIsClean'
    BY <1>v DEF IInv, TypeOK, FreeMutexIsClean
  <1>3. WaitAgrees'
    BY <1>v DEF IInv, TypeOK, WaitAgrees
  <1>4. CountAgrees'
    BY <1>v DEF IInv, TypeOK, CountAgrees
  <1>5. ChainAgrees'
    BY <1>v DEF IInv, TypeOK, ChainAgrees
  <1>6. TodoPinned'
    BY <1>v DEF IInv, TypeOK, TodoPinned
  <1>7. ArraysInBounds'
    BY <1>v DEF IInv, TypeOK, ArraysInBounds
  <1>8. DebtTracked'
    BY <1>v DEF IInv, TypeOK, DebtTracked, Covered, SkippedSleep
  <1>9. WillSleepAgrees'
    BY <1>v DEF IInv, TypeOK, WillSleepAgrees
  <1>10. SignalAgrees'
    BY <1>v DEF IInv, TypeOK, SignalAgrees
  <1>11. SignalNotAbsorbed'
    BY <1>v DEF IInv, TypeOK, SignalNotAbsorbed
  <1>12. NoLostWake'
    BY <1>v DEF IInv, TypeOK, NoLostWake, Owes
  <1>13. NoLostCancel'
    BY <1>v DEF IInv, TypeOK, NoLostCancel, ShouldCancel
  <1> QED
    BY <1>0, <1>1, <1>2, <1>3, <1>4, <1>5, <1>6, <1>7, <1>8, <1>9, <1>10, <1>11, <1>12, <1>13
       DEF IInv, TypeOK

(* WakeAll pays the debts one by one and leaves when there are none.       *)
LEMMA WakeAllOK ==
    ASSUME IInv, NEW t \in Threads, NEW l1, NEW l2,
           (l1 = "presleep" /\ l2 = "sleep") \/ (l1 = "flush" /\ l2 = "drop")
               \/ (l1 = "unlocked" /\ l2 = "run"),
           WakeAll(t, l1, l2)
    PROVE  IInv'
  <1>1. CASE WakeOne(t) /\ UNCHANGED <<mutexVars, queueVars, chain, will_sleep, waitVars, sendVars,
                                       cancelVars, signalled>>
    <2> DEFINE d == defer[t]
    <2> USE <1>1 DEF WakeOne
    <2>1. d \in Seq(Threads) /\ d # << >> /\ defer \in [Threads -> Seq(Threads)]
          /\ imm \in [Threads -> Seq(Threads)]
      BY DEF IInv, TypeOK, Types
    <2> HIDE DEF d
    <2>2. /\ Head(d) \in Threads /\ Tail(d) \in Seq(Threads) /\ Len(Tail(d)) = Len(d) - 1
          /\ Elems(d) = {Head(d)} \cup Elems(Tail(d))
      BY <2>1, TailElems
    <2>3. defer' = [defer EXCEPT ![t] = Tail(d)] /\ sema' = [sema EXCEPT ![Head(d)] = @ + 1]
          /\ defer' \in [Threads -> Seq(Threads)]
      BY <2>1, <2>2 DEF d
    <2>4. \A s \in Threads : Len(defer[s]) <= MaxDefer /\ Len(imm[s]) <= MaxDefer
      BY DEF IInv, ArraysInBounds
    <2>5. Len(Tail(d)) <= MaxDefer
      <3>1. Len(d) <= MaxDefer /\ Len(d) \in Nat /\ MaxDefer \in Nat
        BY <2>1, <2>4, CondvarAssumption DEF d
      <3> QED
        BY <2>2, <3>1
    <2>6. ASSUME NEW s \in Threads
          PROVE  /\ Elems(defer[s]) \subseteq Elems(defer'[s]) \cup {Head(d)}
                 /\ Len(defer'[s]) <= MaxDefer
                 /\ defer'[s] # << >> => defer[s] # << >>
      <3>1. CASE s = t
        BY <2>1, <2>2, <2>3, <2>5, <3>1 DEF d
      <3>2. CASE s # t
        BY <2>1, <2>3, <2>4, <3>2
      <3> QED
        BY <3>1, <3>2
    <2> QED
      BY <2>1, <2>2, <2>3, <2>4, <2>6, PermitOK
  <1>2. CASE defer[t] = << >> /\ pc' = [pc EXCEPT ![t] = l2] /\ UNCHANGED <<sema, defer>>
    <2>1. UNCHANGED <<mutexVars, queueVars, chain, sema, defer, will_sleep, waitVars, sendVars,
                      cancelVars, signalled>>
      BY <1>2 DEF WakeAll
    <2>2. \/ pc[t] = "presleep" /\ l2 = "sleep" /\ defer[t] = << >>
          \/ pc[t] \in {"drop", "flush", "immflush"} /\ l2 \in {"drop", "flush", "immflush"}
          \/ pc[t] = "unlocked" /\ l2 = "run" /\ defer[t] = << >>
      BY <1>2 DEF WakeAll
    <2> QED
      BY <1>2, <2>1, <2>2, MoveOK
  <1> QED
    BY <1>1, <1>2 DEF WakeAll

(* The same for the immediate wakes.                                       *)
LEMMA ReleaseImmediateOK ==
    ASSUME IInv, NEW t \in Threads, NEW l1, NEW l2,
           (l1 = "immflush" /\ l2 = "drop") \/ (l1 = "release" /\ l2 = "run"),
           ReleaseImmediate(t, l1, l2)
    PROVE  IInv'
  <1> DEFINE d == imm[t]
  <1>1. CASE /\ imm[t] # << >> /\ sema' = [sema EXCEPT ![Head(imm[t])] = @ + 1]
             /\ imm' = [imm EXCEPT ![t] = Tail(imm[t])] /\ UNCHANGED pc
             /\ UNCHANGED <<mutexVars, queueVars, chain, defer, will_sleep, waitVars, todo,
                            cancelVars, signalled>>
    <2> USE <1>1
    <2>1. d \in Seq(Threads) /\ d # << >> /\ defer \in [Threads -> Seq(Threads)]
          /\ imm \in [Threads -> Seq(Threads)]
      BY DEF IInv, TypeOK, Types
    <2> HIDE DEF d
    <2>2. /\ Head(d) \in Threads /\ Tail(d) \in Seq(Threads) /\ Len(Tail(d)) = Len(d) - 1
          /\ Elems(d) = {Head(d)} \cup Elems(Tail(d))
      BY <2>1, TailElems
    <2>3. imm' = [imm EXCEPT ![t] = Tail(d)] /\ sema' = [sema EXCEPT ![Head(d)] = @ + 1]
          /\ imm' \in [Threads -> Seq(Threads)]
      BY <2>1, <2>2 DEF d
    <2>4. \A s \in Threads : Len(defer[s]) <= MaxDefer /\ Len(imm[s]) <= MaxDefer
      BY DEF IInv, ArraysInBounds
    <2>5. Len(Tail(d)) <= MaxDefer
      <3>1. Len(d) <= MaxDefer /\ Len(d) \in Nat /\ MaxDefer \in Nat
        BY <2>1, <2>4, CondvarAssumption DEF d
      <3> QED
        BY <2>2, <3>1
    <2>6. ASSUME NEW s \in Threads
          PROVE  /\ Elems(imm[s]) \subseteq Elems(imm'[s]) \cup {Head(d)}
                 /\ Len(imm'[s]) <= MaxDefer
                 /\ imm'[s] # << >> => imm[s] # << >>
      <3>1. CASE s = t
        BY <2>1, <2>2, <2>3, <2>5, <3>1 DEF d
      <3>2. CASE s # t
        BY <2>1, <2>3, <2>4, <3>2
      <3> QED
        BY <3>1, <3>2
    <2> QED
      BY <2>1, <2>2, <2>3, <2>4, <2>6, PermitOK
  <1>2. CASE imm[t] = << >> /\ pc' = [pc EXCEPT ![t] = l2] /\ UNCHANGED <<sema, imm>>
    <2>1. UNCHANGED <<mutexVars, queueVars, chain, sema, defer, will_sleep, waitVars, sendVars,
                      cancelVars, signalled>>
      BY <1>2 DEF ReleaseImmediate
    <2>2. \/ pc[t] \in {"drop", "flush", "immflush"} /\ l2 \in {"drop", "flush", "immflush"}
          \/ pc[t] = "release" /\ l2 = "run" /\ imm[t] = << >>
      BY <1>2 DEF ReleaseImmediate
    <2> QED
      BY <1>2, <2>1, <2>2, MoveOK
  <1> QED
    BY <1>1, <1>2 DEF ReleaseImmediate

(* The canceller owes a wake-up from the moment it sets the flag.          *)
LEMMA CancelOK == ASSUME IInv, NEW t \in Threads, NEW td \in Threads, Cancel(t, td) PROVE IInv'
  <1> USE DEF Cancel
  <1>p. \A u \in Threads : pc'[u] = IF u = t THEN "release" ELSE pc[u]
    BY DEF IInv, TypeOK, Types
  <1>v. /\ \A u \in Threads : cancel_pending'[u] <=> (u = td \/ cancel_pending[u])
        /\ \A u \in Threads : imm'[u] = IF u = t THEN <<td>> ELSE imm[u]
    BY DEF IInv, TypeOK, Types
  <1>e. imm[t] = << >> /\ Elems(imm[t]) = {} /\ Elems(imm'[t]) = {td}
    BY <1>v DEF IInv, ArraysInBounds, Elems
  <1>0. Types'
    BY <1>p, <1>v, <1>e DEF IInv, TypeOK, Types, PCs
  <1>1. QueueAgrees'
    BY <1>p, <1>v, <1>e DEF IInv, TypeOK, QueueAgrees
  <1>2. FreeMutexIsClean'
    BY <1>p, <1>v, <1>e DEF IInv, TypeOK, FreeMutexIsClean
  <1>3. WaitAgrees'
    BY <1>p, <1>v, <1>e DEF IInv, TypeOK, WaitAgrees
  <1>4. CountAgrees'
    BY <1>p, <1>v, <1>e DEF IInv, TypeOK, CountAgrees
  <1>5. ChainAgrees'
    BY <1>p, <1>v, <1>e DEF IInv, TypeOK, ChainAgrees
  <1>6. TodoPinned'
    BY <1>p, <1>v, <1>e DEF IInv, TypeOK, TodoPinned
  <1>7. ArraysInBounds'
    BY <1>p, <1>v, <1>e, CondvarAssumption DEF IInv, TypeOK, ArraysInBounds
  <1>8. DebtTracked'
    BY <1>p, <1>v, <1>e DEF IInv, TypeOK, DebtTracked, Covered, SkippedSleep
  <1>9. WillSleepAgrees'
    BY <1>p, <1>v, <1>e DEF IInv, TypeOK, WillSleepAgrees
  <1>10. SignalAgrees'
    BY <1>p, <1>v, <1>e DEF IInv, TypeOK, SignalAgrees
  <1>11. SignalNotAbsorbed'
    BY <1>p, <1>v, <1>e DEF IInv, TypeOK, SignalNotAbsorbed
  <1>12. NoLostWake'
    BY <1>p, <1>v, <1>e DEF IInv, TypeOK, NoLostWake, Owes
  <1>13. NoLostCancel'
    BY <1>p, <1>v, <1>e DEF IInv, TypeOK, NoLostCancel, ShouldCancel
  <1> QED
    BY <1>0, <1>1, <1>2, <1>3, <1>4, <1>5, <1>6, <1>7, <1>8, <1>9, <1>10, <1>11, <1>12, <1>13
       DEF IInv, TypeOK

(* The last unlock leads to WakeAll whenever the Deferred flag is set, and *)
(* the only thread with will_sleep set outside Wait is one whose Sleep was *)
(* skipped.                                                                *)
LEMMA UnlockOK == ASSUME IInv, NEW t \in Threads, NEW m \in Mutexes, Unlock(t, m) PROVE IInv'
  <1> USE DEF Unlock, Release
  <1>a. CASE m \in RecursiveM /\ count[m] > 0
    <2> USE <1>a
    <2>p. pc' = pc
      OBVIOUS
    <2>n. NULL \notin Threads /\ NULL \notin Conds /\ NULL \notin Mutexes
      BY CondvarAssumption
    <2>v. \A k \in Mutexes : count'[k] = IF k = m THEN count[m] - 1 ELSE count[k]
      BY DEF IInv, TypeOK, Types
    <2>0. Types'
      <3>1. MaxCount \in Nat /\ count[m] \in 0 .. MaxCount /\ count[m] - 1 \in 0 .. MaxCount
        BY CondvarAssumption DEF IInv, TypeOK, Types
      <3>2. count' \in [Mutexes -> 0 .. MaxCount]
        BY <3>1 DEF IInv, TypeOK, Types
      <3> QED
        BY <3>2 DEF IInv, TypeOK, Types
    <2>1. QueueAgrees'
      BY <2>p, <2>n, <2>v DEF IInv, TypeOK, QueueAgrees
    <2>2. FreeMutexIsClean'
      BY <2>p, <2>n, <2>v DEF IInv, TypeOK, FreeMutexIsClean
    <2>3. WaitAgrees'
      BY <2>p, <2>n, <2>v DEF IInv, TypeOK, WaitAgrees
    <2>4. CountAgrees'
      BY <2>p, <2>n, <2>v DEF IInv, TypeOK, CountAgrees
    <2>5. ChainAgrees'
      BY <2>p, <2>n, <2>v DEF IInv, TypeOK, ChainAgrees
    <2>6. TodoPinned'
      BY <2>p, <2>n, <2>v DEF IInv, TypeOK, TodoPinned
    <2>7. ArraysInBounds'
      BY <2>p, <2>n, <2>v DEF IInv, TypeOK, ArraysInBounds
    <2>8. DebtTracked'
      BY <2>p, <2>n, <2>v DEF IInv, TypeOK, DebtTracked, Covered, SkippedSleep
    <2>9. WillSleepAgrees'
      BY <2>p, <2>n, <2>v DEF IInv, TypeOK, WillSleepAgrees
    <2>10. SignalAgrees'
      BY <2>p, <2>n, <2>v DEF IInv, TypeOK, SignalAgrees
    <2>11. SignalNotAbsorbed'
      BY <2>p, <2>n, <2>v DEF IInv, TypeOK, SignalNotAbsorbed
    <2>12. NoLostWake'
      BY <2>p, <2>n, <2>v DEF IInv, TypeOK, NoLostWake, Owes
    <2>13. NoLostCancel'
      BY <2>p, <2>n, <2>v DEF IInv, TypeOK, NoLostCancel, ShouldCancel
    <2> QED
      BY <2>0, <2>1, <2>2, <2>3, <2>4, <2>5, <2>6, <2>7, <2>8, <2>9, <2>10, <2>11, <2>12, <2>13
         DEF IInv, TypeOK
  <1>b. CASE ~(m \in RecursiveM /\ count[m] > 0)
    <2>l. PICK l \in {"run", "unlocked"} :
              pc' = [pc EXCEPT ![t] = l] /\ (l = "run" => will_sleep[t] \/ ~deferred[m])
      BY <1>b DEF IInv, TypeOK, Types
    <2>z. count[m] = 0
      BY <1>b DEF IInv, TypeOK, Types, CountAgrees
    <2>c. /\ pc[t] = "run" /\ owner[m] = t
          /\ owner' = [owner EXCEPT ![m] = NULL] /\ deferred' = [deferred EXCEPT ![m] = FALSE]
          /\ UNCHANGED <<count, queueVars, chain, sema, defer, will_sleep, waitVars, sendVars,
                         cancelVars, signalled>>
      BY <1>b
    <2> USE <2>c
    <2> HIDE DEF Unlock
    <2>p. \A u \in Threads : pc'[u] = IF u = t THEN l ELSE pc[u]
      BY <2>l DEF IInv, TypeOK, Types
    <2>n. NULL \notin Threads /\ NULL \notin Conds /\ NULL \notin Mutexes
      BY CondvarAssumption
    <2>v. \A k \in Mutexes : /\ owner'[k] = IF k = m THEN NULL ELSE owner[k]
                            /\ deferred'[k] <=> (k # m /\ deferred[k])
      BY DEF IInv, TypeOK, Types
    <2>f. QueueAgrees' /\ ChainAgrees' /\ TodoPinned'
      BY <2>p, FrameChain
    <2>0. Types'
      BY <2>l DEF IInv, TypeOK, Types, PCs
    <2>1. QueueAgrees'
      BY <2>f
    <2>2. FreeMutexIsClean'
      BY <2>p, <2>n, <2>v, <2>f, <2>z DEF IInv, TypeOK, FreeMutexIsClean
    <2>3. WaitAgrees'
      BY <2>p, <2>n, <2>v, <2>f DEF IInv, TypeOK, WaitAgrees
    <2>4. CountAgrees'
      BY <2>p, <2>n, <2>v, <2>f DEF IInv, TypeOK, CountAgrees
    <2>5. ChainAgrees'
      BY <2>f
    <2>6. TodoPinned'
      BY <2>f
    <2>7. ArraysInBounds'
      BY <2>p, <2>n, <2>v, <2>f DEF IInv, TypeOK, ArraysInBounds
    <2>8. DebtTracked'
      BY <2>p, <2>n, <2>v, <2>f, <2>l DEF IInv, TypeOK, DebtTracked, Covered, SkippedSleep,
         WillSleepAgrees
    <2>9. WillSleepAgrees'
      BY <2>p, <2>n, <2>v, <2>f DEF IInv, TypeOK, WillSleepAgrees
    <2>10. SignalAgrees'
      BY <2>p, <2>n, <2>v, <2>f DEF IInv, TypeOK, SignalAgrees
    <2>11. SignalNotAbsorbed'
      BY <2>p, <2>n, <2>v, <2>f DEF IInv, TypeOK, SignalNotAbsorbed
    <2>12. NoLostWake'
      BY <2>p, <2>n, <2>v, <2>f DEF IInv, TypeOK, NoLostWake, Owes
    <2>13. NoLostCancel'
      BY <2>p, <2>n, <2>v, <2>f DEF IInv, TypeOK, NoLostCancel, ShouldCancel
    <2> QED
      BY <2>0, <2>1, <2>2, <2>3, <2>4, <2>5, <2>6, <2>7, <2>8, <2>9, <2>10, <2>11, <2>12, <2>13
         DEF IInv, TypeOK
  <1> QED
    BY <1>a, <1>b

(* Wait starts with the mutex owned, or exits at once.                     *)
LEMMA WaitOK ==
    ASSUME IInv, NEW t \in Threads, NEW c \in Conds, NEW m \in Mutexes, Wait(t, c, m)
    PROVE  IInv'
  <1> USE DEF Wait, BeginExit
  <1>a. CASE ShouldCancel(t)
    <2> USE <1>a
    <2>p. pc' = pc
      OBVIOUS
    <2>v. \A u \in Threads \ {t} : no_cancel'[u] = no_cancel[u]
      BY DEF IInv, TypeOK, Types
    <2>0. Types'
      BY <2>p, <2>v DEF IInv, TypeOK, Types, PCs
    <2>1. QueueAgrees'
      BY <2>p, <2>v DEF IInv, TypeOK, QueueAgrees
    <2>2. FreeMutexIsClean'
      BY <2>p, <2>v DEF IInv, TypeOK, FreeMutexIsClean
    <2>3. WaitAgrees'
      BY <2>p, <2>v DEF IInv, TypeOK, WaitAgrees
    <2>4. CountAgrees'
      BY <2>p, <2>v DEF IInv, TypeOK, CountAgrees
    <2>5. ChainAgrees'
      BY <2>p, <2>v DEF IInv, TypeOK, ChainAgrees
    <2>6. TodoPinned'
      BY <2>p, <2>v DEF IInv, TypeOK, TodoPinned
    <2>7. ArraysInBounds'
      BY <2>p, <2>v DEF IInv, TypeOK, ArraysInBounds
    <2>8. DebtTracked'
      BY <2>p, <2>v DEF IInv, TypeOK, DebtTracked, Covered, SkippedSleep
    <2>9. WillSleepAgrees'
      BY <2>p, <2>v DEF IInv, TypeOK, WillSleepAgrees
    <2>10. SignalAgrees'
      BY <2>p, <2>v DEF IInv, TypeOK, SignalAgrees
    <2>11. SignalNotAbsorbed'
      BY <2>p, <2>v DEF IInv, TypeOK, SignalNotAbsorbed
    <2>12. NoLostWake'
      BY <2>p, <2>v DEF IInv, TypeOK, NoLostWake, Owes
    <2>13. NoLostCancel'
      BY <2>p, <2>v DEF IInv, TypeOK, NoLostCancel, ShouldCancel
    <2> QED
      BY <2>0, <2>1, <2>2, <2>3, <2>4, <2>5, <2>6, <2>7, <2>8, <2>9, <2>10, <2>11, <2>12, <2>13
         DEF IInv, TypeOK
  <1>b. CASE ~ShouldCancel(t)
    <2> USE <1>b
    <2>p. \A u \in Threads : pc'[u] = IF u = t THEN "enter" ELSE pc[u]
      BY DEF IInv, TypeOK, Types
    <2>n. NULL \notin Threads /\ NULL \notin Conds /\ NULL \notin Mutexes
      BY CondvarAssumption
    <2>v. /\ \A u \in Threads : /\ cond'[u] = IF u = t THEN c ELSE cond[u]
                                /\ mutex_obj'[u] = IF u = t THEN m ELSE mutex_obj[u]
                                /\ result'[u] = IF u = t THEN "none" ELSE result[u]
          /\ \A u \in Threads : signalled'[u] <=> (u # t /\ signalled[u])
      BY DEF IInv, TypeOK, Types
    <2>d. \E d \in Deadlines : timed' = [timed EXCEPT ![t] = d] /\ d \in {"never", "at", "rel"}
      BY CondvarAssumption
    <2>e. /\ timed' \in [Threads -> {"never", "at", "rel", "again"}]
          /\ \A u \in Threads : timed'[u] = timed[u] \/ (u = t /\ timed'[u] # "again")
      BY <2>d DEF IInv, TypeOK, Types
    <2>f. QueueAgrees' /\ ChainAgrees' /\ TodoPinned'
      BY <2>p, <2>v, FrameChain
    <2>0. Types'
      <3>0. cond' = [cond EXCEPT ![t] = c] /\ mutex_obj' = [mutex_obj EXCEPT ![t] = m]
        OBVIOUS
      <3>1. cond' \in [Threads -> Conds \cup {NULL}]
        BY <3>0 DEF IInv, TypeOK, Types
      <3>3. mutex_obj' \in [Threads -> Mutexes \cup {NULL}]
        BY <3>0 DEF IInv, TypeOK, Types
      <3>2. /\ result' \in [Threads -> {"none", "ok", "timedout", "canceled"}]
            /\ signalled' \in [Threads -> BOOLEAN] /\ pc' \in [Threads -> PCs]
        BY DEF IInv, TypeOK, Types, PCs
      <3> QED
        BY <2>e, <3>1, <3>2, <3>3 DEF IInv, TypeOK, Types
    <2>1. QueueAgrees'
      BY <2>f
    <2>2. FreeMutexIsClean'
      BY <2>p, <2>n, <2>v, <2>d, <2>e, <2>f DEF IInv, TypeOK, FreeMutexIsClean
    <2>3. WaitAgrees'
      BY <2>p, <2>n, <2>v, <2>d, <2>e, <2>f DEF IInv, TypeOK, WaitAgrees
    <2>4. CountAgrees'
      BY <2>p, <2>n, <2>v, <2>d, <2>e, <2>f DEF IInv, TypeOK, CountAgrees
    <2>5. ChainAgrees'
      BY <2>f
    <2>6. TodoPinned'
      BY <2>f
    <2>7. ArraysInBounds'
      BY <2>p, <2>n, <2>v, <2>d, <2>e, <2>f DEF IInv, TypeOK, ArraysInBounds
    <2>8. DebtTracked'
      BY <2>p, <2>n, <2>v, <2>d, <2>e, <2>f DEF IInv, TypeOK, DebtTracked, Covered, SkippedSleep
    <2>9. WillSleepAgrees'
      BY <2>p, <2>n, <2>v, <2>d, <2>e, <2>f DEF IInv, TypeOK, WillSleepAgrees
    <2>10. SignalAgrees'
      BY <2>p, <2>n, <2>v, <2>d, <2>e, <2>f DEF IInv, TypeOK, SignalAgrees
    <2>11. SignalNotAbsorbed'
      BY <2>p, <2>n, <2>v, <2>d, <2>e, <2>f DEF IInv, TypeOK, SignalNotAbsorbed
    <2>12. NoLostWake'
      BY <2>p, <2>n, <2>v, <2>d, <2>e, <2>f DEF IInv, TypeOK, NoLostWake, Owes
    <2>13. NoLostCancel'
      BY <2>p, <2>n, <2>v, <2>d, <2>e, <2>f DEF IInv, TypeOK, NoLostCancel, ShouldCancel
    <2> QED
      BY <2>0, <2>1, <2>2, <2>3, <2>4, <2>5, <2>6, <2>7, <2>8, <2>9, <2>10, <2>11, <2>12, <2>13
         DEF IInv, TypeOK
  <1> QED
    BY <1>a, <1>b

(* The chain is unlocked when nobody is left to serve.                     *)
LEMMA EndDropOK == ASSUME IInv, NEW t \in Threads, EndDrop(t) PROVE IInv'
  <1> USE DEF EndDrop, ChainHeld
  <1>p. \A u \in Threads : pc'[u] = IF u = t THEN "release" ELSE pc[u]
    BY DEF IInv, TypeOK, Types
  <1>n. NULL \notin Threads /\ NULL \notin Conds /\ NULL \notin Mutexes
    BY CondvarAssumption
  <1>v. \A c \in Conds : chain'[c] = IF chain[c] = t THEN NULL ELSE chain[c]
    BY DEF IInv, TypeOK, Types
  <1>e. Elems(todo[t]) = {}
    BY DEF Elems
  <1>c. \A c \in Conds : chain[c] # NULL => chain[c] \in Threads
    BY DEF IInv, TypeOK, Types
  <1>g. \A s \in Threads : Elems(todo[s]) \subseteq Threads
    BY ListFacts
  <1>0. Types'
    BY <1>p, <1>n, <1>v, <1>e, <1>c, <1>g DEF IInv, TypeOK, Types, PCs
  <1>1. QueueAgrees'
    BY <1>p, <1>n, <1>v, <1>e, <1>c, <1>g DEF IInv, TypeOK, QueueAgrees
  <1>2. FreeMutexIsClean'
    BY <1>p, <1>n, <1>v, <1>e, <1>c, <1>g DEF IInv, TypeOK, FreeMutexIsClean
  <1>3. WaitAgrees'
    BY <1>p, <1>n, <1>v, <1>e, <1>c, <1>g DEF IInv, TypeOK, WaitAgrees
  <1>4. CountAgrees'
    BY <1>p, <1>n, <1>v, <1>e, <1>c, <1>g DEF IInv, TypeOK, CountAgrees
  <1>5. ChainAgrees'
    BY <1>p, <1>n, <1>v, <1>e, <1>c, <1>g DEF IInv, TypeOK, ChainAgrees, WaitAgrees
  <1>6. TodoPinned'
    BY <1>p, <1>n, <1>v, <1>e, <1>c, <1>g DEF IInv, TypeOK, TodoPinned, WaitAgrees
  <1>7. ArraysInBounds'
    BY <1>p, <1>n, <1>v, <1>e, <1>c, <1>g DEF IInv, TypeOK, ArraysInBounds
  <1>8. DebtTracked'
    BY <1>p, <1>n, <1>v, <1>e, <1>c, <1>g DEF IInv, TypeOK, DebtTracked, Covered, SkippedSleep
  <1>9. WillSleepAgrees'
    BY <1>p, <1>n, <1>v, <1>e, <1>c, <1>g DEF IInv, TypeOK, WillSleepAgrees
  <1>10. SignalAgrees'
    BY <1>p, <1>n, <1>v, <1>e, <1>c, <1>g DEF IInv, TypeOK, SignalAgrees
  <1>11. SignalNotAbsorbed'
    BY <1>p, <1>n, <1>v, <1>e, <1>c, <1>g DEF IInv, TypeOK, SignalNotAbsorbed
  <1>12. NoLostWake'
    BY <1>p, <1>n, <1>v, <1>e, <1>c, <1>g DEF IInv, TypeOK, NoLostWake, Owes
  <1>13. NoLostCancel'
    BY <1>p, <1>n, <1>v, <1>e, <1>c, <1>g DEF IInv, TypeOK, NoLostCancel, ShouldCancel
  <1> QED
    BY <1>0, <1>1, <1>2, <1>3, <1>4, <1>5, <1>6, <1>7, <1>8, <1>9, <1>10, <1>11, <1>12, <1>13
       DEF IInv, TypeOK

(* CvLock gives the kept count back.                                       *)
LEMMA WaitRelockOK == ASSUME IInv, NEW t \in Threads, WaitRelock(t) PROVE IInv'
  <1> USE DEF WaitRelock, BeginExit
  <1> DEFINE m == mutex_obj[t]
  <1>m. m \in Mutexes
    BY DEF IInv, WaitAgrees
  <1>p. \A u \in Threads : pc'[u] = IF u = t THEN "run" ELSE pc[u]
    BY DEF IInv, TypeOK, Types
  <1>n. NULL \notin Threads /\ NULL \notin Conds /\ NULL \notin Mutexes
    BY CondvarAssumption
  <1>v. /\ \A k \in Mutexes : owner'[k] = IF k = m THEN t ELSE owner[k]
        /\ \A k \in Mutexes : count'[k] = IF k = m THEN recurse[t] ELSE count[k]
    BY DEF IInv, TypeOK, Types
  <1>w. \A u \in Threads \ {t} : /\ cond'[u] = cond[u] /\ mutex_obj'[u] = mutex_obj[u]
                                   /\ recurse'[u] = recurse[u] /\ timed'[u] = timed[u]
                                   /\ no_cancel'[u] = no_cancel[u]
    BY DEF IInv, TypeOK, Types
  <1>x. recurse'[t] = 0 /\ timed'[t] = "never"
    BY DEF IInv, TypeOK, Types
  <1>f. QueueAgrees' /\ ChainAgrees' /\ TodoPinned'
    BY <1>p, <1>w, FrameChain
  <1>0. Types'
    <2>1. owner' \in [Mutexes -> Threads \cup {NULL}] /\ count' \in [Mutexes -> 0 .. MaxCount]
      BY DEF IInv, TypeOK, Types
    <2>2. cond' \in [Threads -> Conds \cup {NULL}] /\ mutex_obj' \in [Threads -> Mutexes \cup {NULL}]
      BY DEF IInv, TypeOK, Types
    <2>3. recurse' \in [Threads -> 0 .. MaxCount]
      BY CondvarAssumption DEF IInv, TypeOK, Types
    <2>4. /\ timed' \in [Threads -> {"never", "at", "rel", "again"}]
          /\ timedout' \in [Threads -> BOOLEAN] /\ no_cancel' \in [Threads -> BOOLEAN]
          /\ pc' \in [Threads -> PCs]
      BY DEF IInv, TypeOK, Types, PCs
    <2> QED
      BY <2>1, <2>2, <2>3, <2>4 DEF IInv, TypeOK, Types
  <1>1. QueueAgrees'
    BY <1>f
  <1>2. FreeMutexIsClean'
    BY <1>p, <1>n, <1>v, <1>w, <1>x, <1>f, <1>m DEF IInv, TypeOK, FreeMutexIsClean
  <1>3. WaitAgrees'
    BY <1>p, <1>n, <1>v, <1>w, <1>x, <1>f DEF IInv, TypeOK, WaitAgrees
  <1>4. CountAgrees'
    BY <1>p, <1>n, <1>v, <1>w, <1>x, <1>f, <1>m DEF IInv, TypeOK, CountAgrees
  <1>5. ChainAgrees'
    BY <1>f
  <1>6. TodoPinned'
    BY <1>f
  <1>7. ArraysInBounds'
    BY <1>p, <1>n, <1>v, <1>w, <1>x, <1>f DEF IInv, TypeOK, ArraysInBounds
  <1>8. DebtTracked'
    BY <1>p, <1>n, <1>v, <1>w, <1>x, <1>f DEF IInv, TypeOK, DebtTracked, Covered, SkippedSleep
  <1>9. WillSleepAgrees'
    BY <1>p, <1>n, <1>v, <1>w, <1>x, <1>f DEF IInv, TypeOK, WillSleepAgrees
  <1>10. SignalAgrees'
    BY <1>p, <1>n, <1>v, <1>w, <1>x, <1>f DEF IInv, TypeOK, SignalAgrees
  <1>11. SignalNotAbsorbed'
    BY <1>p, <1>n, <1>v, <1>w, <1>x, <1>f DEF IInv, TypeOK, SignalNotAbsorbed
  <1>12. NoLostWake'
    BY <1>p, <1>n, <1>v, <1>w, <1>x, <1>f DEF IInv, TypeOK, NoLostWake, Owes
  <1>13. NoLostCancel'
    BY <1>p, <1>n, <1>v, <1>w, <1>x, <1>f DEF IInv, TypeOK, NoLostCancel, ShouldCancel
  <1> QED
    BY <1>0, <1>1, <1>2, <1>3, <1>4, <1>5, <1>6, <1>7, <1>8, <1>9, <1>10, <1>11, <1>12, <1>13
       DEF IInv, TypeOK

(* The mutex is released with its count kept, and the thread joins the     *)
(* queue; its debts are to be paid by the Sleep it is about to enter.      *)
LEMMA WaitEnqueueOK == ASSUME IInv, NEW t \in Threads, WaitEnqueue(t) PROVE IInv'
  <1> DEFINE c == cond[t]
             m == mutex_obj[t]
  <1>a. /\ pc[t] = "enter" /\ chain[c] = NULL
        /\ chain' = [chain EXCEPT ![c] = t]
        /\ will_sleep' = [will_sleep EXCEPT ![t] = TRUE]
        /\ recurse' = [recurse EXCEPT ![t] = count[m]]
        /\ count' = [count EXCEPT ![m] = 0]
        /\ owner' = [owner EXCEPT ![m] = NULL] /\ deferred' = [deferred EXCEPT ![m] = FALSE]
        /\ queue' = [queue EXCEPT ![c] = Append(queue[c], t)]
        /\ wchan' = [wchan EXCEPT ![t] = c]
        /\ pc' = [pc EXCEPT ![t] = "clear"]
        /\ UNCHANGED <<sema, defer, cond, mutex_obj, timed, timedout, result, sendVars,
                       cancelVars, signalled>>
    BY DEF WaitEnqueue, Release
  <1>c. c \in Conds /\ m \in Mutexes /\ owner[m] = t
    BY <1>a DEF IInv, WaitAgrees
  <1> HIDE DEF c, m
  <1>d. cond[t] = c /\ mutex_obj[t] = m
    BY DEF c, m
  <1>b. /\ pc[t] = "enter" /\ chain[c] = NULL
        /\ UNCHANGED <<sema, defer, cond, mutex_obj, timed, timedout, result, sendVars,
                       cancelVars, signalled>>
    BY <1>a
  <1> USE <1>b, <1>c, <1>d
  <1>k. \A k \in Conds : t \notin Elems(queue[k])
    BY DEF IInv, TypeOK, QueueAgrees
  <1>q. /\ \A k \in Conds \ {c} : queue'[k] = queue[k]
        /\ queue'[c] \in Seq(Threads) /\ Elems(queue'[c]) = Elems(queue[c]) \cup {t}
        /\ Distinct(queue'[c]) /\ queue' \in [Conds -> Seq(Threads)]
    <2>1. queue[c] \in Seq(Threads) /\ Distinct(queue[c]) /\ t \notin Elems(queue[c])
      BY <1>k, ListFacts
    <2>2. /\ Append(queue[c], t) \in Seq(Threads)
          /\ Elems(Append(queue[c], t)) = Elems(queue[c]) \cup {t}
          /\ Distinct(Append(queue[c], t))
      BY ONLY <2>1, t \in Threads, AppendElems
    <2> QED
      BY <1>a, <2>2 DEF IInv, TypeOK, Types
  <1>p. \A u \in Threads : pc'[u] = IF u = t THEN "clear" ELSE pc[u]
    BY <1>a DEF IInv, TypeOK, Types
  <1>n. NULL \notin Threads /\ NULL \notin Conds /\ NULL \notin Mutexes
    BY CondvarAssumption
  <1>v. \A k \in Mutexes : /\ owner'[k] = IF k = m THEN NULL ELSE owner[k]
                           /\ (deferred'[k] <=> (k # m /\ deferred[k]))
                           /\ count'[k] = IF k = m THEN 0 ELSE count[k]
    BY <1>a DEF IInv, TypeOK, Types
  <1>w. \A u \in Threads : /\ wchan'[u] = IF u = t THEN c ELSE wchan[u]
                           /\ (will_sleep'[u] <=> (u = t \/ will_sleep[u]))
                           /\ recurse'[u] = IF u = t THEN count[m] ELSE recurse[u]
    BY <1>a DEF IInv, TypeOK, Types
  <1>x. \A k \in Conds : chain'[k] = IF k = c THEN t ELSE chain[k]
    BY <1>a DEF IInv, TypeOK, Types
  <1>g. /\ \A k \in Conds : chain[k] # NULL => chain[k] \in Threads
        /\ \A s \in Threads : Elems(todo[s]) \subseteq Threads
        /\ \A k \in Conds : Elems(queue[k]) \subseteq Threads
    BY ListFacts
  <1>0. Types'
    <2>1. MaxCount \in Nat
      BY CondvarAssumption
    <2>2. /\ owner' \in [Mutexes -> Threads \cup {NULL}] /\ deferred' \in [Mutexes -> BOOLEAN]
          /\ chain' \in [Conds -> Threads \cup {NULL}] /\ wchan' \in [Threads -> Conds \cup {NULL}]
      BY <1>a DEF IInv, TypeOK, Types
    <2>3. count' \in [Mutexes -> 0 .. MaxCount] /\ recurse' \in [Threads -> 0 .. MaxCount]
      BY <1>a, <2>1 DEF IInv, TypeOK, Types
    <2>4. will_sleep' \in [Threads -> BOOLEAN] /\ pc' \in [Threads -> PCs]
      BY <1>a DEF IInv, TypeOK, Types, PCs
    <2> QED
      BY <1>q, <2>2, <2>3, <2>4 DEF IInv, TypeOK, Types
  <1>1. QueueAgrees'
    <2> SUFFICES ASSUME NEW k \in Conds
                 PROVE  /\ Distinct(queue'[k])
                        /\ \A u \in Threads : (wchan'[u] = k) <=> (u \in Elems(queue'[k]))
                        /\ \A u \in Elems(queue'[k]) : pc'[u] \in OnQueuePCs /\ cond[u] = k
      BY DEF QueueAgrees, Distinct
    <2>1. /\ Distinct(queue[k]) /\ Elems(queue[k]) \subseteq Threads
          /\ \A u \in Threads : (wchan[u] = k) <=> (u \in Elems(queue[k]))
          /\ \A u \in Elems(queue[k]) : pc[u] \in OnQueuePCs /\ cond[u] = k
      BY ListFacts DEF IInv, TypeOK, QueueAgrees
    <2>2. CASE k = c
      BY <1>k, <1>p, <1>q, <1>w, <2>1, <2>2
    <2>3. CASE k # c
      BY <1>k, <1>p, <1>q, <1>w, <2>1, <2>3
    <2> QED
      BY <2>2, <2>3
  <1>2. FreeMutexIsClean'
    BY <1>p, <1>n, <1>v, <1>w, <1>x, <1>g DEF IInv, TypeOK, FreeMutexIsClean
  <1>3. WaitAgrees'
    BY <1>p, <1>n, <1>v, <1>w, <1>x, <1>g DEF IInv, TypeOK, WaitAgrees
  <1>4. CountAgrees'
    BY <1>p, <1>n, <1>v, <1>w, <1>x, <1>g DEF IInv, TypeOK, CountAgrees
  <1>5. ChainAgrees'
    BY <1>p, <1>n, <1>v, <1>w, <1>x, <1>g DEF IInv, TypeOK, ChainAgrees, WaitAgrees
  <1>6. TodoPinned'
    BY <1>p, <1>n, <1>v, <1>w, <1>x, <1>g DEF IInv, TypeOK, TodoPinned, WaitAgrees
  <1>7. ArraysInBounds'
    BY <1>p, <1>n, <1>v, <1>w, <1>x, <1>g DEF IInv, TypeOK, ArraysInBounds
  <1>8. DebtTracked'
    BY <1>p, <1>n, <1>v, <1>w, <1>x, <1>g DEF IInv, TypeOK, DebtTracked, Covered, SkippedSleep
  <1>9. WillSleepAgrees'
    BY <1>p, <1>n, <1>v, <1>w, <1>x, <1>g DEF IInv, TypeOK, WillSleepAgrees
  <1>10. SignalAgrees'
    BY <1>p, <1>n, <1>v, <1>w, <1>x, <1>g DEF IInv, TypeOK, SignalAgrees
  <1>11. SignalNotAbsorbed'
    BY <1>p, <1>n, <1>v, <1>w, <1>x, <1>g DEF IInv, TypeOK, SignalNotAbsorbed
  <1>12. NoLostWake'
    BY <1>p, <1>n, <1>v, <1>w, <1>x, <1>g DEF IInv, TypeOK, NoLostWake, Owes
  <1>13. NoLostCancel'
    BY <1>p, <1>n, <1>v, <1>w, <1>x, <1>g DEF IInv, TypeOK, NoLostCancel, ShouldCancel
  <1> QED
    BY <1>0, <1>1, <1>2, <1>3, <1>4, <1>5, <1>6, <1>7, <1>8, <1>9, <1>10, <1>11, <1>12, <1>13
       DEF IInv, TypeOK

(* The thread is in the queue when it lets go of the chain, so that it     *)
(* enters Sleep with nothing lost; a cancellation or a passed deadline     *)
(* skips Sleep.                                                            *)
LEMMA WaitUnlockQueueOK == ASSUME IInv, NEW t \in Threads, WaitUnlockQueue(t) PROVE IInv'
  <1> DEFINE c == cond[t]
  <1>c. /\ pc[t] = "check" /\ c \in Conds /\ chain[c] = t /\ wchan[t] = c
        /\ chain' = [chain EXCEPT ![c] = NULL]
    BY DEF WaitUnlockQueue, IInv, WaitAgrees, ChainAgrees
  <1> HIDE DEF c
  <1>d. cond[t] = c
    BY DEF c
  <1>l. PICK l \in {"wake", "presleep"} :
            /\ pc' = [pc EXCEPT ![t] = l]
            /\ timedout' \in [Threads -> BOOLEAN]
            /\ \/ l = "wake" /\ UNCHANGED <<will_sleep, timed>>
                  /\ (cancel_pending[t] \/ timed[t] = "again")
               \/ /\ l = "presleep" /\ ~ShouldCancel(t)
                  /\ will_sleep' = [will_sleep EXCEPT ![t] = FALSE]
                  /\ timed' = [timed EXCEPT ![t] = IF @ = "rel" THEN "again" ELSE @]
    BY DEF WaitUnlockQueue, ShouldCancel, IInv, TypeOK, Types
  <1>a. UNCHANGED <<mutexVars, queueVars, sema, defer, cond, mutex_obj, recurse, result,
                    sendVars, cancelVars, signalled>>
    BY DEF WaitUnlockQueue
  <1>e. pc[t] = "check" /\ c \in Conds /\ chain[c] = t /\ wchan[t] = c
    BY <1>c
  <1> USE <1>a, <1>d, <1>e
  <1>p. \A u \in Threads : pc'[u] = IF u = t THEN l ELSE pc[u]
    BY <1>l DEF IInv, TypeOK, Types
  <1>n. NULL \notin Threads /\ NULL \notin Conds /\ NULL \notin Mutexes
    BY CondvarAssumption
  <1>v. \A k \in Conds : chain'[k] = IF k = c THEN NULL ELSE chain[k]
    BY <1>c DEF IInv, TypeOK, Types
  <1>w. /\ will_sleep' \in [Threads -> BOOLEAN]
        /\ timed' \in [Threads -> {"never", "at", "rel", "again"}]
        /\ \A u \in Threads \ {t} : will_sleep'[u] = will_sleep[u] /\ timed'[u] = timed[u]
        /\ l = "presleep" => ~will_sleep'[t]
    BY <1>l DEF IInv, TypeOK, Types
  <1>g. /\ \A k \in Conds : chain[k] # NULL => chain[k] \in Threads
        /\ \A s \in Threads : Elems(todo[s]) \subseteq Threads
        /\ \A k \in Conds : Elems(queue[k]) \subseteq Threads
    BY ListFacts
  <1>0. Types'
    BY <1>c, <1>l, <1>w DEF IInv, TypeOK, Types, PCs
  <1>1. QueueAgrees'
    BY <1>p, <1>n, <1>v, <1>w, <1>g DEF IInv, TypeOK, QueueAgrees
  <1>2. FreeMutexIsClean'
    BY <1>p, <1>n, <1>v, <1>w, <1>g DEF IInv, TypeOK, FreeMutexIsClean
  <1>3. WaitAgrees'
    BY <1>p, <1>n, <1>v, <1>w, <1>g DEF IInv, TypeOK, WaitAgrees
  <1>4. CountAgrees'
    BY <1>p, <1>n, <1>v, <1>w, <1>g DEF IInv, TypeOK, CountAgrees
  <1>5. ChainAgrees'
    BY <1>p, <1>n, <1>v, <1>w, <1>g DEF IInv, TypeOK, ChainAgrees, WaitAgrees
  <1>6. TodoPinned'
    BY <1>p, <1>n, <1>v, <1>w, <1>g DEF IInv, TypeOK, TodoPinned, WaitAgrees
  <1>7. ArraysInBounds'
    BY <1>p, <1>n, <1>v, <1>w, <1>g DEF IInv, TypeOK, ArraysInBounds
  <1>8. DebtTracked'
    BY <1>p, <1>n, <1>v, <1>w, <1>g, <1>l DEF IInv, TypeOK, DebtTracked, Covered, SkippedSleep,
       WillSleepAgrees
  <1>9. WillSleepAgrees'
    BY <1>p, <1>n, <1>v, <1>w, <1>g, <1>l DEF IInv, TypeOK, WillSleepAgrees
  <1>10. SignalAgrees'
    BY <1>p, <1>n, <1>v, <1>w, <1>g DEF IInv, TypeOK, SignalAgrees
  <1>11. SignalNotAbsorbed'
    BY <1>p, <1>n, <1>v, <1>w, <1>g DEF IInv, TypeOK, SignalNotAbsorbed
  <1>12. NoLostWake'
    BY <1>p, <1>n, <1>v, <1>w, <1>g DEF IInv, TypeOK, NoLostWake, Owes
  <1>13. NoLostCancel'
    BY <1>p, <1>n, <1>v, <1>w, <1>g, <1>l DEF IInv, TypeOK, NoLostCancel, ShouldCancel
  <1> QED
    BY <1>0, <1>1, <1>2, <1>3, <1>4, <1>5, <1>6, <1>7, <1>8, <1>9, <1>10, <1>11, <1>12, <1>13
       DEF IInv, TypeOK

(* The thread leaves its Wait: it is off the queue, nobody has it still to *)
(* serve, since the chain is free, and a thread that was signalled answers *)
(* 0.                                                                      *)
LEMMA LeaveOK ==
    ASSUME IInv, NEW t \in Threads, NEW r \in {"ok", "timedout", "canceled"},
           pc[t] = "wake", chain[cond[t]] = NULL, r = "ok" \/ ~signalled[t],
           pc' = [pc EXCEPT ![t] = "relock"], result' = [result EXCEPT ![t] = r],
           queue' \in [Conds -> Seq(Threads)], wchan' = [wchan EXCEPT ![t] = NULL],
           \A k \in Conds : Distinct(queue'[k]) /\ Elems(queue'[k]) = Elems(queue[k]) \ {t},
           UNCHANGED <<mutexVars, chain, sema, defer, will_sleep, cond, mutex_obj, recurse, timed,
                       timedout, sendVars, cancelVars, signalled>>
    PROVE  IInv'
  <1>p. \A u \in Threads : pc'[u] = IF u = t THEN "relock" ELSE pc[u]
    BY DEF IInv, TypeOK, Types
  <1>n. NULL \notin Threads /\ NULL \notin Conds /\ NULL \notin Mutexes
    BY CondvarAssumption
  <1>v. /\ \A u \in Threads : wchan'[u] = IF u = t THEN NULL ELSE wchan[u]
        /\ \A u \in Threads : result'[u] = IF u = t THEN r ELSE result[u]
    BY DEF IInv, TypeOK, Types
  <1>g. /\ \A k \in Conds : chain[k] # NULL => chain[k] \in Threads
        /\ \A s \in Threads : Elems(todo[s]) \subseteq Threads
        /\ \A k \in Conds : Elems(queue[k]) \subseteq Threads
    BY ListFacts
  <1>h. \A s \in Threads : t \notin Elems(todo[s])
    BY <1>n DEF IInv, TodoPinned
  <1>0. Types'
    <2>1. wchan' \in [Threads -> Conds \cup {NULL}]
      BY DEF IInv, TypeOK, Types
    <2>2. result' \in [Threads -> {"none", "ok", "timedout", "canceled"}] /\ pc' \in [Threads -> PCs]
      BY DEF IInv, TypeOK, Types, PCs
    <2> QED
      BY <2>1, <2>2 DEF IInv, TypeOK, Types
  <1>1. QueueAgrees'
    <2> SUFFICES ASSUME NEW k \in Conds
                 PROVE  /\ Distinct(queue'[k])
                        /\ \A u \in Threads : (wchan'[u] = k) <=> (u \in Elems(queue'[k]))
                        /\ \A u \in Elems(queue'[k]) : pc'[u] \in OnQueuePCs /\ cond[u] = k
      BY DEF QueueAgrees, Distinct
    <2>1. /\ Distinct(queue[k]) /\ Elems(queue[k]) \subseteq Threads
          /\ \A u \in Threads : (wchan[u] = k) <=> (u \in Elems(queue[k]))
          /\ \A u \in Elems(queue[k]) : pc[u] \in OnQueuePCs /\ cond[u] = k
      BY ListFacts DEF IInv, TypeOK, QueueAgrees
    <2> QED
      BY <1>p, <1>n, <1>v, <2>1
  <1>2. FreeMutexIsClean'
    BY <1>p, <1>n, <1>v, <1>g, <1>h DEF IInv, TypeOK, FreeMutexIsClean
  <1>3. WaitAgrees'
    BY <1>p, <1>n, <1>v, <1>g, <1>h DEF IInv, TypeOK, WaitAgrees
  <1>4. CountAgrees'
    BY <1>p, <1>n, <1>v, <1>g, <1>h DEF IInv, TypeOK, CountAgrees
  <1>5. ChainAgrees'
    BY <1>p, <1>n, <1>v, <1>g, <1>h DEF IInv, TypeOK, ChainAgrees
  <1>6. TodoPinned'
    BY <1>p, <1>n, <1>v, <1>g, <1>h DEF IInv, TypeOK, TodoPinned
  <1>7. ArraysInBounds'
    BY <1>p, <1>n, <1>v, <1>g, <1>h DEF IInv, TypeOK, ArraysInBounds
  <1>8. DebtTracked'
    BY <1>p, <1>n, <1>v, <1>g, <1>h DEF IInv, TypeOK, DebtTracked, Covered, SkippedSleep
  <1>9. WillSleepAgrees'
    BY <1>p, <1>n, <1>v, <1>g, <1>h DEF IInv, TypeOK, WillSleepAgrees
  <1>10. SignalAgrees'
    BY <1>p, <1>n, <1>v, <1>g, <1>h DEF IInv, TypeOK, SignalAgrees
  <1>11. SignalNotAbsorbed'
    BY <1>p, <1>n, <1>v, <1>g, <1>h DEF IInv, TypeOK, SignalNotAbsorbed
  <1>12. NoLostWake'
    BY <1>p, <1>n, <1>v, <1>g, <1>h DEF IInv, TypeOK, NoLostWake, Owes
  <1>13. NoLostCancel'
    BY <1>p, <1>n, <1>v, <1>g, <1>h DEF IInv, TypeOK, NoLostCancel, ShouldCancel
  <1> QED
    BY <1>0, <1>1, <1>2, <1>3, <1>4, <1>5, <1>6, <1>7, <1>8, <1>9, <1>10, <1>11, <1>12, <1>13
       DEF IInv, TypeOK

(* The four ways out of the look at wchan under the chain lock.            *)
LEMMA WaitWokenOK == ASSUME IInv, NEW t \in Threads, WaitWoken(t) PROVE IInv'
  <1> DEFINE c == cond[t]
  <1>a. /\ pc[t] = "wake" /\ chain[c] = NULL
        /\ UNCHANGED <<mutexVars, sema, defer, will_sleep, cond, mutex_obj, recurse, timed,
                       timedout, sendVars, cancelVars, signalled>>
    BY DEF WaitWoken
  <1>b. c \in Conds /\ wchan[t] \in Conds \cup {NULL}
    BY <1>a DEF IInv, TypeOK, Types, WaitAgrees
  <1>c. wchan[t] # NULL => wchan[t] = c /\ ~signalled[t] /\ t \in Elems(queue[c])
    BY <1>b DEF IInv, TypeOK, QueueAgrees, SignalAgrees
  <1>q. /\ queue \in [Conds -> Seq(Threads)] /\ wchan \in [Threads -> Conds \cup {NULL}]
        /\ \A k \in Conds : queue[k] \in Seq(Threads) /\ Distinct(queue[k])
        /\ \A k \in Conds : (wchan[t] = k) <=> (t \in Elems(queue[k]))
    BY ListFacts DEF IInv, TypeOK, Types, QueueAgrees
  <1>1. CASE /\ wchan[t] = NULL
             /\ Leave(t, "ok")
             /\ UNCHANGED <<queueVars, chain>>
    <2>1. wchan' = [wchan EXCEPT ![t] = NULL] /\ queue' \in [Conds -> Seq(Threads)]
      BY <1>1, <1>q
    <2>2. \A k \in Conds : Distinct(queue'[k]) /\ Elems(queue'[k]) = Elems(queue[k]) \ {t}
      <3> SUFFICES ASSUME NEW k \in Conds PROVE t \notin Elems(queue[k])
        BY <1>1, <1>q
      <3> QED
        BY <1>1, <1>q, CondvarAssumption
    <2> QED
      BY <1>1, <1>a, <2>1, <2>2, LeaveOK DEF Leave
  <1>2. ASSUME NEW r \in {"timedout", "canceled"}, wchan[t] # NULL,
               SleepqRemove(t, c), Leave(t, r), UNCHANGED chain
        PROVE  IInv'
    <2> DEFINE s == queue[c]
               i == IndexOf(s, t)
    <2>1. s \in Seq(Threads) /\ Distinct(s) /\ \E j \in 1 .. Len(s) : s[j] = t
      BY <1>2, <1>b, <1>c, <1>q DEF Elems
    <2>2. i \in 1 .. Len(s) /\ s[i] = t
      BY <2>1, IndexOfPosition, Zenon
    <2>q. queue' = [queue EXCEPT ![c] = Without(s, i)] /\ wchan' = [wchan EXCEPT ![t] = NULL]
      BY <1>2 DEF SleepqRemove
    <2> HIDE DEF s, i
    <2>3. /\ Without(s, i) \in Seq(Threads) /\ Distinct(Without(s, i))
          /\ Elems(Without(s, i)) = Elems(s) \ {t}
      BY <2>1, <2>2, WithoutElems
    <2>4. queue' \in [Conds -> Seq(Threads)]
      BY <1>b, <1>q, <2>3, <2>q
    <2>5. ASSUME NEW k \in Conds
          PROVE  Distinct(queue'[k]) /\ Elems(queue'[k]) = Elems(queue[k]) \ {t}
      <3>1. CASE k = c
        BY <1>b, <1>q, <2>3, <2>q, <3>1 DEF s
      <3>2. CASE k # c
        <4>1. queue'[k] = queue[k] /\ t \notin Elems(queue[k])
          BY <1>2, <1>b, <1>c, <1>q, <2>q, <3>2
        <4> QED
          BY <1>q, <4>1
      <3> QED
        BY <3>1, <3>2
    <2> QED
      BY <1>2, <1>a, <1>c, <2>q, <2>4, <2>5, LeaveOK DEF Leave
  <1>3. CASE /\ wchan[t] # NULL
             /\ chain' = [chain EXCEPT ![c] = t]
             /\ pc' = [pc EXCEPT ![t] = "clear"]
             /\ UNCHANGED <<queueVars, result>>
    <2> HIDE DEF c
    <2>a. cond[t] = c
      BY DEF c
    <2> USE <1>3, <1>a, <1>b, <1>c, <2>a
    <2>p. \A u \in Threads : pc'[u] = IF u = t THEN "clear" ELSE pc[u]
      BY DEF IInv, TypeOK, Types
    <2>n. NULL \notin Threads /\ NULL \notin Conds /\ NULL \notin Mutexes
      BY CondvarAssumption
    <2>v. \A k \in Conds : chain'[k] = IF k = c THEN t ELSE chain[k]
      BY DEF IInv, TypeOK, Types
    <2>g. /\ \A k \in Conds : chain[k] # NULL => chain[k] \in Threads
          /\ \A s \in Threads : Elems(todo[s]) \subseteq Threads
          /\ \A k \in Conds : Elems(queue[k]) \subseteq Threads
      BY ListFacts
    <2>0. Types'
      BY DEF IInv, TypeOK, Types, PCs
    <2>1. QueueAgrees'
      BY <2>p, <2>n, <2>v, <2>g DEF IInv, TypeOK, QueueAgrees
    <2>2. FreeMutexIsClean'
      BY <2>p, <2>n, <2>v, <2>g DEF IInv, TypeOK, FreeMutexIsClean
    <2>3. WaitAgrees'
      BY <2>p, <2>n, <2>v, <2>g DEF IInv, TypeOK, WaitAgrees
    <2>4. CountAgrees'
      BY <2>p, <2>n, <2>v, <2>g DEF IInv, TypeOK, CountAgrees
    <2>5. ChainAgrees'
      BY <2>p, <2>n, <2>v, <2>g DEF IInv, TypeOK, ChainAgrees, WaitAgrees
    <2>6. TodoPinned'
      BY <2>p, <2>n, <2>v, <2>g DEF IInv, TypeOK, TodoPinned, WaitAgrees
    <2>7. ArraysInBounds'
      BY <2>p, <2>n, <2>v, <2>g DEF IInv, TypeOK, ArraysInBounds
    <2>8. DebtTracked'
      BY <2>p, <2>n, <2>v, <2>g DEF IInv, TypeOK, DebtTracked, Covered, SkippedSleep
    <2>9. WillSleepAgrees'
      BY <2>p, <2>n, <2>v, <2>g DEF IInv, TypeOK, WillSleepAgrees
    <2>10. SignalAgrees'
      BY <2>p, <2>n, <2>v, <2>g DEF IInv, TypeOK, SignalAgrees
    <2>11. SignalNotAbsorbed'
      BY <2>p, <2>n, <2>v, <2>g DEF IInv, TypeOK, SignalNotAbsorbed
    <2>12. NoLostWake'
      BY <2>p, <2>n, <2>v, <2>g DEF IInv, TypeOK, NoLostWake, Owes
    <2>13. NoLostCancel'
      BY <2>p, <2>n, <2>v, <2>g DEF IInv, TypeOK, NoLostCancel, ShouldCancel
    <2> QED
      BY <2>0, <2>1, <2>2, <2>3, <2>4, <2>5, <2>6, <2>7, <2>8, <2>9, <2>10, <2>11, <2>12, <2>13
         DEF IInv, TypeOK
  <1> QED
    BY <1>1, <1>2, <1>3 DEF WaitWoken

(* Waiters are taken off the queue, to be served by the caller.            *)
LEMMA StartDropOK ==
    ASSUME IInv, NEW t \in Threads, NEW c \in Conds, NEW tds \in Seq(Threads),
           NEW rest \in Seq(Threads), StartDrop(t, c, tds, rest), Distinct(rest),
           Elems(tds) \subseteq Elems(queue[c]), Elems(rest) = Elems(queue[c]) \ Elems(tds)
    PROVE  IInv'
  <1>a. /\ chain' = [chain EXCEPT ![c] = t]
        /\ queue' = [queue EXCEPT ![c] = rest]
        /\ wchan' = [u \in Threads |-> IF u \in Elems(tds) THEN NULL ELSE wchan[u]]
        /\ signalled' = [u \in Threads |-> signalled[u] \/ u \in Elems(tds)]
        /\ todo' = [todo EXCEPT ![t] = tds]
        /\ pc' = [pc EXCEPT ![t] = "drop"]
    BY DEF StartDrop
  <1>b. /\ pc[t] = "run" /\ chain[c] = NULL
        /\ UNCHANGED <<mutexVars, sema, defer, will_sleep, waitVars, imm, cancelVars>>
    BY DEF StartDrop
  <1> USE <1>b
  <1>p. \A u \in Threads : pc'[u] = IF u = t THEN "drop" ELSE pc[u]
    BY <1>a DEF IInv, TypeOK, Types
  <1>n. NULL \notin Threads /\ NULL \notin Conds /\ NULL \notin Mutexes
    BY CondvarAssumption
  <1>v. \A k \in Conds : /\ chain'[k] = IF k = c THEN t ELSE chain[k]
                         /\ queue'[k] = IF k = c THEN rest ELSE queue[k]
    BY <1>a DEF IInv, TypeOK, Types
  <1>w. \A u \in Threads : /\ wchan'[u] = IF u \in Elems(tds) THEN NULL ELSE wchan[u]
                           /\ (signalled'[u] <=> (signalled[u] \/ u \in Elems(tds)))
                           /\ todo'[u] = IF u = t THEN tds ELSE todo[u]
    BY <1>a DEF IInv, TypeOK, Types
  <1>g. /\ \A k \in Conds : chain[k] # NULL => chain[k] \in Threads
        /\ \A s \in Threads : Elems(todo[s]) \subseteq Threads
        /\ \A k \in Conds : Elems(queue[k]) \subseteq Threads
    BY ListFacts
  <1>h. \A u \in Elems(tds) : /\ u \in Threads /\ pc[u] \in {"presleep", "sleep", "wake"}
                               /\ cond[u] = c /\ wchan[u] = c
    BY <1>g, <1>n DEF IInv, TypeOK, QueueAgrees, ChainAgrees
  <1>i. Elems(todo[t]) = {}
    BY DEF IInv, TodoPinned
  <1>0. Types'
    <2>1. /\ chain' \in [Conds -> Threads \cup {NULL}] /\ queue' \in [Conds -> Seq(Threads)]
          /\ todo' \in [Threads -> Seq(Threads)] /\ pc' \in [Threads -> PCs]
      BY <1>a DEF IInv, TypeOK, Types, PCs
    <2>2. wchan' \in [Threads -> Conds \cup {NULL}]
      BY <1>a DEF IInv, TypeOK, Types
    <2>3. signalled' \in [Threads -> BOOLEAN]
      BY <1>a DEF IInv, TypeOK, Types
    <2> QED
      BY <2>1, <2>2, <2>3 DEF IInv, TypeOK, Types
  <1>1. QueueAgrees'
    <2> SUFFICES ASSUME NEW k \in Conds
                 PROVE  /\ Distinct(queue'[k])
                        /\ \A u \in Threads : (wchan'[u] = k) <=> (u \in Elems(queue'[k]))
                        /\ \A u \in Elems(queue'[k]) : pc'[u] \in OnQueuePCs /\ cond[u] = k
      BY DEF QueueAgrees, Distinct
    <2>1. /\ Distinct(queue[k]) /\ Elems(queue[k]) \subseteq Threads
          /\ \A u \in Threads : (wchan[u] = k) <=> (u \in Elems(queue[k]))
          /\ \A u \in Elems(queue[k]) : pc[u] \in OnQueuePCs /\ cond[u] = k
      BY ListFacts DEF IInv, TypeOK, QueueAgrees
    <2>2. CASE k = c
      BY <1>p, <1>n, <1>v, <1>w, <2>1, <2>2
    <2>3. CASE k # c
      BY <1>p, <1>n, <1>v, <1>w, <1>h, <2>1, <2>3
    <2> QED
      BY <2>2, <2>3
  <1>2. FreeMutexIsClean'
    BY <1>p, <1>n, <1>v, <1>w, <1>g, <1>h, <1>i DEF IInv, TypeOK, FreeMutexIsClean
  <1>3. WaitAgrees'
    BY <1>p, <1>n, <1>v, <1>w, <1>g, <1>h, <1>i DEF IInv, TypeOK, WaitAgrees
  <1>4. CountAgrees'
    BY <1>p, <1>n, <1>v, <1>w, <1>g, <1>h, <1>i DEF IInv, TypeOK, CountAgrees
  <1>5. ChainAgrees'
    BY <1>p, <1>n, <1>v, <1>w, <1>g, <1>h, <1>i DEF IInv, TypeOK, ChainAgrees, WaitAgrees
  <1>6. TodoPinned'
    BY <1>p, <1>n, <1>v, <1>w, <1>g, <1>h, <1>i DEF IInv, TypeOK, TodoPinned, WaitAgrees
  <1>7. ArraysInBounds'
    BY <1>p, <1>n, <1>v, <1>w, <1>g, <1>h, <1>i DEF IInv, TypeOK, ArraysInBounds
  <1>8. DebtTracked'
    BY <1>p, <1>n, <1>v, <1>w, <1>g, <1>h, <1>i DEF IInv, TypeOK, DebtTracked, Covered, SkippedSleep
  <1>9. WillSleepAgrees'
    BY <1>p, <1>n, <1>v, <1>w, <1>g, <1>h, <1>i DEF IInv, TypeOK, WillSleepAgrees
  <1>10. SignalAgrees'
    BY <1>p, <1>n, <1>v, <1>w, <1>g, <1>h, <1>i DEF IInv, TypeOK, SignalAgrees
  <1>11. SignalNotAbsorbed'
    BY <1>p, <1>n, <1>v, <1>w, <1>g, <1>h, <1>i DEF IInv, TypeOK, SignalNotAbsorbed, SignalAgrees
  <1>12. NoLostWake'
    BY <1>p, <1>n, <1>v, <1>w, <1>g, <1>h, <1>i DEF IInv, TypeOK, NoLostWake, Owes
  <1>13. NoLostCancel'
    BY <1>p, <1>n, <1>v, <1>w, <1>g, <1>h, <1>i DEF IInv, TypeOK, NoLostCancel, ShouldCancel
  <1> QED
    BY <1>0, <1>1, <1>2, <1>3, <1>4, <1>5, <1>6, <1>7, <1>8, <1>9, <1>10, <1>11, <1>12, <1>13
       DEF IInv, TypeOK

(* Signal dequeues the oldest waiter.                                      *)
LEMMA SignalOK == ASSUME IInv, NEW t \in Threads, NEW c \in Conds, Signal(t, c) PROVE IInv'
  <1> DEFINE s == queue[c]
  <1>1. s \in Seq(Threads) /\ Distinct(s) /\ s # << >> /\ StartDrop(t, c, <<Head(s)>>, Tail(s))
    BY ListFacts DEF Signal
  <1> HIDE DEF s
  <1>2. /\ Head(s) \in Threads /\ Tail(s) \in Seq(Threads) /\ Distinct(Tail(s))
        /\ Elems(s) = {Head(s)} \cup Elems(Tail(s)) /\ Head(s) \notin Elems(Tail(s))
    BY <1>1, TailElems
  <1>3. <<Head(s)>> \in Seq(Threads) /\ Elems(<<Head(s)>>) = {Head(s)}
    BY <1>2 DEF Elems
  <1>4. Elems(<<Head(s)>>) \subseteq Elems(s) /\ Elems(Tail(s)) = Elems(s) \ Elems(<<Head(s)>>)
    BY <1>2, <1>3
  <1> QED
    BY <1>1, <1>2, <1>3, <1>4, StartDropOK DEF s

(* SignalTo dequeues the given one.                                        *)
LEMMA SignalToOK ==
    ASSUME IInv, NEW t \in Threads, NEW c \in Conds, NEW td \in Threads, SignalTo(t, c, td)
    PROVE  IInv'
  <1> DEFINE s == queue[c]
             i == IndexOf(s, td)
  <1>1. s \in Seq(Threads) /\ Distinct(s) /\ StartDrop(t, c, <<td>>, Without(s, i))
    BY ListFacts DEF SignalTo
  <1>2. td \in Elems(s)
    BY DEF SignalTo, IInv, TypeOK, QueueAgrees
  <1>3. \E j \in 1 .. Len(s) : s[j] = td
    BY <1>2 DEF Elems
  <1>4. i \in 1 .. Len(s) /\ s[i] = td
    BY <1>3, IndexOfPosition, Zenon
  <1> HIDE DEF s, i
  <1>5. /\ Without(s, i) \in Seq(Threads) /\ Distinct(Without(s, i))
        /\ Elems(Without(s, i)) = Elems(s) \ {td}
    BY <1>1, <1>4, WithoutElems
  <1>6. <<td>> \in Seq(Threads) /\ Elems(<<td>>) = {td}
    BY DEF Elems
  <1>7. Elems(<<td>>) \subseteq Elems(s) /\ Elems(Without(s, i)) = Elems(s) \ Elems(<<td>>)
    BY <1>2, <1>5, <1>6
  <1> QED
    BY <1>1, <1>5, <1>6, <1>7, StartDropOK DEF s

(* Broadcast dequeues them all.                                            *)
LEMMA BroadcastOK == ASSUME IInv, NEW t \in Threads, NEW c \in Conds, Broadcast(t, c) PROVE IInv'
  <1>1. queue[c] \in Seq(Threads) /\ StartDrop(t, c, queue[c], << >>)
    BY ListFacts DEF Broadcast
  <1>2. << >> \in Seq(Threads) /\ Elems(<< >>) = {} /\ Distinct(<< >>)
    BY DEF Elems, Distinct
  <1> QED
    BY <1>1, <1>2, StartDropOK

(* A waiter moves from the ones to serve to one of the lists of wake-ups.  *)
LEMMA ServeOK ==
    ASSUME IInv, NEW t \in Threads, pc[t] = "drop",
           deferred' \in [Mutexes -> BOOLEAN], todo' \in [Threads -> Seq(Threads)],
           defer' \in [Threads -> Seq(Threads)], imm' \in [Threads -> Seq(Threads)],
           \A m \in Mutexes : deferred[m] => deferred'[m],
           \A m \in Mutexes : deferred'[m] => deferred[m] \/ owner[m] = t,
           \A s \in Threads : /\ Len(defer'[s]) <= MaxDefer /\ Len(imm'[s]) <= MaxDefer
                              /\ Elems(imm[s]) \subseteq Elems(imm'[s])
                              /\ Elems(todo'[s]) \subseteq Elems(todo[s])
                              /\ \A u : Owes(s, u) => u \in Elems(defer'[s]) \cup Elems(imm'[s])
                                                               \cup Elems(todo'[s])
                              /\ s # t => defer'[s] = defer[s] /\ imm'[s] = imm[s],
           defer'[t] # << >> => \/ defer[t] # << >>
                                \/ \E m \in Mutexes : owner[m] = t /\ deferred'[m],
           UNCHANGED <<pc, owner, count, queueVars, chain, sema, will_sleep, waitVars, cancelVars,
                       signalled>>
    PROVE  IInv'
  <1>n. NULL \notin Threads /\ NULL \notin Conds /\ NULL \notin Mutexes
    BY CondvarAssumption
  <1>0. Types'
    BY <1>n DEF IInv, TypeOK, Types, PCs
  <1>1. QueueAgrees'
    BY <1>n DEF IInv, TypeOK, QueueAgrees
  <1>2. FreeMutexIsClean'
    BY <1>n DEF IInv, TypeOK, FreeMutexIsClean
  <1>3. WaitAgrees'
    BY <1>n DEF IInv, TypeOK, WaitAgrees
  <1>4. CountAgrees'
    BY <1>n DEF IInv, TypeOK, CountAgrees
  <1>5. ChainAgrees'
    BY <1>n DEF IInv, TypeOK, ChainAgrees
  <1>6. TodoPinned'
    BY <1>n DEF IInv, TypeOK, TodoPinned
  <1>7. ArraysInBounds'
    BY <1>n DEF IInv, TypeOK, ArraysInBounds
  <1>8. DebtTracked'
    BY <1>n DEF IInv, TypeOK, DebtTracked, Covered, SkippedSleep
  <1>9. WillSleepAgrees'
    BY <1>n DEF IInv, TypeOK, WillSleepAgrees
  <1>10. SignalAgrees'
    BY <1>n DEF IInv, TypeOK, SignalAgrees
  <1>11. SignalNotAbsorbed'
    BY <1>n DEF IInv, TypeOK, SignalNotAbsorbed
  <1>12. NoLostWake'
    BY <1>n DEF IInv, TypeOK, NoLostWake, Owes
  <1>13. NoLostCancel'
    BY <1>n DEF IInv, TypeOK, NoLostCancel, ShouldCancel
  <1> QED
    BY <1>0, <1>1, <1>2, <1>3, <1>4, <1>5, <1>6, <1>7, <1>8, <1>9, <1>10, <1>11, <1>12, <1>13
       DEF IInv, TypeOK

(* Serving a waiter moves it to a list that has room.                      *)
LEMMA DropStepOK == ASSUME IInv, NEW t \in Threads, DropStep(t) PROVE IInv'
  <1> DEFINE m == mutex_obj[Head(todo[t])]
  <1>a. /\ pc[t] = "drop" /\ todo[t] # << >>
        /\ UNCHANGED <<owner, count, queueVars, chain, sema, will_sleep, waitVars, cancelVars,
                       signalled>>
    BY DEF DropStep
  <1>m. m \in Mutexes
    <2>1. Head(todo[t]) \in Elems(todo[t]) /\ Head(todo[t]) \in Threads
      BY <1>a, ListFacts, TailElems
    <2> QED
      BY <2>1 DEF IInv, TodoPinned, WaitAgrees
  <1>1. CASE /\ \/ pc' = [pc EXCEPT ![t] = "flush"]
                \/ pc' = [pc EXCEPT ![t] = "immflush"]
             /\ UNCHANGED <<defer, deferred, sendVars>>
    BY <1>1, <1>a, MoveOK
  <1>2. CASE /\ owner[m] = t /\ Len(defer[t]) < MaxDefer
             /\ defer' = [defer EXCEPT ![t] = Append(@, Head(todo[t]))]
             /\ deferred' = [deferred EXCEPT ![m] = TRUE]
             /\ todo' = [todo EXCEPT ![t] = Tail(@)]
             /\ UNCHANGED <<pc, imm>>
    <2> HIDE DEF m
    <2> USE <1>2
    <2> DEFINE d == todo[t]
               e == defer[t]
    <2>1. d \in Seq(Threads) /\ d # << >> /\ e \in Seq(Threads) /\ Len(e) < MaxDefer
      BY <1>a, ListFacts
    <2>2. defer' = [defer EXCEPT ![t] = Append(e, Head(d))] /\ todo' = [todo EXCEPT ![t] = Tail(d)]
      OBVIOUS
    <2> HIDE DEF d, e
    <2>3. /\ Head(d) \in Threads /\ Tail(d) \in Seq(Threads)
          /\ Elems(d) = {Head(d)} \cup Elems(Tail(d))
      BY <2>1, TailElems
    <2>4. /\ Append(e, Head(d)) \in Seq(Threads) /\ Len(Append(e, Head(d))) = Len(e) + 1
          /\ Elems(Append(e, Head(d))) = Elems(e) \cup {Head(d)}
      BY <2>1, <2>3, AppendElems
    <2>5. Len(Append(e, Head(d))) <= MaxDefer
      <3>1. Len(e) \in Nat /\ MaxDefer \in Nat
        BY <2>1, CondvarAssumption
      <3> QED
        BY <2>1, <2>4, <3>1
    <2>6. \A s \in Threads : Len(defer[s]) <= MaxDefer /\ Len(imm[s]) <= MaxDefer
      BY DEF IInv, ArraysInBounds
    <2>0. defer \in [Threads -> Seq(Threads)] /\ todo \in [Threads -> Seq(Threads)]
      BY DEF IInv, TypeOK, Types
    <2>7. defer' \in [Threads -> Seq(Threads)] /\ todo' \in [Threads -> Seq(Threads)]
      BY ONLY <2>0, <2>2, <2>3, <2>4, t \in Threads
    <2>8. ASSUME NEW s \in Threads
          PROVE  /\ Len(defer'[s]) <= MaxDefer
                 /\ Elems(defer[s]) \subseteq Elems(defer'[s])
                 /\ Elems(todo'[s]) \subseteq Elems(todo[s])
                 /\ Elems(todo[s]) \subseteq Elems(todo'[s]) \cup Elems(defer'[s])
                 /\ s # t => defer'[s] = defer[s]
      <3>1. CASE s = t
        <4>1. defer'[s] = Append(e, Head(d)) /\ todo'[s] = Tail(d) /\ defer[s] = e /\ todo[s] = d
          BY <2>0, <2>2, <3>1 DEF d, e
        <4> QED
          BY <2>3, <2>4, <2>5, <3>1, <4>1
      <3>2. CASE s # t
        BY <2>0, <2>2, <2>6, <3>2
      <3> QED
        BY <3>1, <3>2
    <2>9. deferred' \in [Mutexes -> BOOLEAN] /\ imm' \in [Threads -> Seq(Threads)]
      BY DEF IInv, TypeOK, Types
    <2>10. /\ \A k \in Mutexes : deferred[k] => deferred'[k]
           /\ \A k \in Mutexes : deferred'[k] => deferred[k] \/ owner[k] = t
           /\ defer'[t] # << >> => \/ defer[t] # << >>
                                   \/ \E k \in Mutexes : owner[k] = t /\ deferred'[k]
      BY <1>m DEF IInv, TypeOK, Types
    <2>11. \A s \in Threads : /\ Len(imm'[s]) <= MaxDefer
                              /\ Elems(imm[s]) \subseteq Elems(imm'[s])
                              /\ \A u : Owes(s, u) => u \in Elems(defer'[s]) \cup Elems(imm'[s])
                                                               \cup Elems(todo'[s])
      BY <2>6, <2>8 DEF Owes
    <2>12. /\ pc[t] = "drop" /\ \A s \in Threads : s # t => imm'[s] = imm[s]
           /\ UNCHANGED <<pc, owner, count, queueVars, chain, sema, will_sleep, waitVars,
                          cancelVars, signalled>>
      BY <1>a
    <2> QED
      BY ONLY IInv, t \in Threads, <2>7, <2>8, <2>9, <2>10, <2>11, <2>12, ServeOK
  <1>3. CASE /\ Len(imm[t]) < MaxDefer
             /\ imm' = [imm EXCEPT ![t] = Append(@, Head(todo[t]))]
             /\ todo' = [todo EXCEPT ![t] = Tail(@)]
             /\ UNCHANGED <<pc, defer, deferred>>
    <2> USE <1>3
    <2> DEFINE d == todo[t]
               e == imm[t]
    <2>1. d \in Seq(Threads) /\ d # << >> /\ e \in Seq(Threads) /\ Len(e) < MaxDefer
      BY <1>a, ListFacts
    <2>2. imm' = [imm EXCEPT ![t] = Append(e, Head(d))] /\ todo' = [todo EXCEPT ![t] = Tail(d)]
      OBVIOUS
    <2> HIDE DEF d, e
    <2>3. /\ Head(d) \in Threads /\ Tail(d) \in Seq(Threads)
          /\ Elems(d) = {Head(d)} \cup Elems(Tail(d))
      BY <2>1, TailElems
    <2>4. /\ Append(e, Head(d)) \in Seq(Threads) /\ Len(Append(e, Head(d))) = Len(e) + 1
          /\ Elems(Append(e, Head(d))) = Elems(e) \cup {Head(d)}
      BY <2>1, <2>3, AppendElems
    <2>5. Len(Append(e, Head(d))) <= MaxDefer
      <3>1. Len(e) \in Nat /\ MaxDefer \in Nat
        BY <2>1, CondvarAssumption
      <3> QED
        BY <2>1, <2>4, <3>1
    <2>6. \A s \in Threads : Len(defer[s]) <= MaxDefer /\ Len(imm[s]) <= MaxDefer
      BY DEF IInv, ArraysInBounds
    <2>0. imm \in [Threads -> Seq(Threads)] /\ todo \in [Threads -> Seq(Threads)]
      BY DEF IInv, TypeOK, Types
    <2>7. imm' \in [Threads -> Seq(Threads)] /\ todo' \in [Threads -> Seq(Threads)]
      BY ONLY <2>0, <2>2, <2>3, <2>4, t \in Threads
    <2>8. ASSUME NEW s \in Threads
          PROVE  /\ Len(imm'[s]) <= MaxDefer
                 /\ Elems(imm[s]) \subseteq Elems(imm'[s])
                 /\ Elems(todo'[s]) \subseteq Elems(todo[s])
                 /\ Elems(todo[s]) \subseteq Elems(todo'[s]) \cup Elems(imm'[s])
                 /\ s # t => imm'[s] = imm[s]
      <3>1. CASE s = t
        <4>1. imm'[s] = Append(e, Head(d)) /\ todo'[s] = Tail(d) /\ imm[s] = e /\ todo[s] = d
          BY <2>0, <2>2, <3>1 DEF d, e
        <4> QED
          BY <2>3, <2>4, <2>5, <3>1, <4>1
      <3>2. CASE s # t
        BY <2>0, <2>2, <2>6, <3>2
      <3> QED
        BY <3>1, <3>2
    <2>9. deferred' \in [Mutexes -> BOOLEAN] /\ defer' \in [Threads -> Seq(Threads)]
      BY DEF IInv, TypeOK, Types
    <2>10. /\ \A k \in Mutexes : deferred[k] => deferred'[k]
           /\ \A k \in Mutexes : deferred'[k] => deferred[k] \/ owner[k] = t
           /\ defer'[t] # << >> => defer[t] # << >>
      OBVIOUS
    <2>11. \A s \in Threads : /\ Len(defer'[s]) <= MaxDefer
                              /\ defer'[s] = defer[s]
                              /\ \A u : Owes(s, u) => u \in Elems(defer'[s]) \cup Elems(imm'[s])
                                                               \cup Elems(todo'[s])
      BY <2>6, <2>8 DEF Owes
    <2> QED
      BY <1>3, <1>a, <2>7, <2>8, <2>9, <2>10, <2>11, ServeOK
  <1> QED
    BY <1>1, <1>2, <1>3 DEF DropStep

(* A thread that exits is in no call.                                      *)
LEMMA ExitThreadOK == ASSUME IInv, NEW t \in Threads, ExitThread(t) PROVE IInv'
  BY MoveOK DEF ExitThread

(* Nothing is locked, queued, owed or pending at the start.                *)
LEMMA InitOK == ASSUME Init PROVE IInv
  <1>0. MaxCount \in Nat /\ MaxDefer \in Nat /\ 0 \in 0 .. MaxCount
    BY CondvarAssumption
  <1>1. Elems(<< >>) = {} /\ Len(<< >>) = 0 /\ << >> \in Seq(Threads)
    BY DEF Elems
  <1>2. Types
    BY <1>0, <1>1 DEF Init, Types, PCs
  <1>3. QueueAgrees /\ FreeMutexIsClean
    BY <1>1, CondvarAssumption DEF Init, QueueAgrees, FreeMutexIsClean
  <1>4. WaitAgrees /\ CountAgrees /\ ChainAgrees /\ TodoPinned
    BY <1>1, CondvarAssumption DEF Init, WaitAgrees, CountAgrees, ChainAgrees, TodoPinned
  <1>5. ArraysInBounds
    BY <1>0, <1>1 DEF Init, ArraysInBounds
  <1>6. DebtTracked /\ WillSleepAgrees /\ SignalAgrees
    BY DEF Init, DebtTracked, WillSleepAgrees, SignalAgrees
  <1>7. SignalNotAbsorbed /\ NoLostWake /\ NoLostCancel
    BY DEF Init, SignalNotAbsorbed, NoLostWake, NoLostCancel
  <1> QED
    BY <1>2, <1>3, <1>4, <1>5, <1>6, <1>7 DEF IInv, TypeOK

(* Every step of every thread preserves the invariant.                     *)
LEMMA StepOK == ASSUME IInv, [Next]_vars PROVE IInv'
  <1>1. ASSUME NEW t \in Threads, Call(t) PROVE IInv'
    BY <1>1, LockOK, SelfLockOK, UnlockOK, WaitOK, SignalOK, BroadcastOK, SignalToOK, CancelOK,
       SetCancelStateOK, ExitThreadOK DEF Call
  <1>2. ASSUME NEW t \in Threads, Step(t) PROVE IInv'
    BY <1>2, WaitEnqueueOK, ClearWakeOK, WaitUnlockQueueOK, WakeAllOK, SleepOK, WaitWokenOK,
       WaitRelockOK, DropStepOK, EndDropOK, ReleaseImmediateOK DEF Step
  <1>3. CASE UNCHANGED vars
    BY <1>3 DEF vars, IInv, TypeOK, Types, QueueAgrees, FreeMutexIsClean, WaitAgrees, CountAgrees,
                ChainAgrees, TodoPinned, ArraysInBounds, DebtTracked, Covered, SkippedSleep,
                WillSleepAgrees, SignalAgrees, SignalNotAbsorbed, NoLostWake, Owes, NoLostCancel,
                ShouldCancel
  <1> QED
    BY <1>1, <1>2, <1>3 DEF Next

(* The inductive invariant holds of every behaviour: with any number of    *)
(* threads, mutexes and condition variables, any size of the arrays and    *)
(* any interleaving of lock, wait, signal, cancellation and exit.          *)
THEOREM CondvarInvariant == Spec => []IInv
  <1>1. Init => IInv
    BY InitOK
  <1>2. IInv /\ [Next]_vars => IInv'
    BY StepOK
  <1> QED
    BY <1>1, <1>2, PTL DEF Spec

(* Mutexes, queues and wchan agree at every step (condvar.cpp, mutex.cpp). *)
THEOREM CondvarTypes == Spec => []TypeOK
  <1>1. IInv => TypeOK
    BY DEF IInv
  <1> QED
    BY <1>1, CondvarInvariant, PTL

(* A waiter taken off the queue that sleeps without a permit is on the     *)
(* list of a thread that will release it (condvar.cpp:98-330).             *)
THEOREM CondvarNoLostWake == Spec => []NoLostWake
  <1>1. IInv => NoLostWake
    BY DEF IInv
  <1> QED
    BY <1>1, CondvarInvariant, PTL

(* A thread that sleeps although it should cancel has a permit or is about *)
(* to get one (pthread.cpp posix_pthread_cancel against Wait's ClearWake). *)
THEOREM CondvarNoLostCancel == Spec => []NoLostCancel
  <1>1. IInv => NoLostCancel
    BY DEF IInv
  <1> QED
    BY <1>1, CondvarInvariant, PTL

(* A signalled waiter never answers ETIMEDOUT or exits as cancelled from   *)
(* that Wait (the order of the tests in condvar.cpp Wait).                 *)
THEOREM CondvarSignalNotAbsorbed == Spec => []SignalNotAbsorbed
  <1>1. IInv => SignalNotAbsorbed
    BY DEF IInv
  <1> QED
    BY <1>1, CondvarInvariant, PTL

(* A thread back in guest code owns a mutex whose Unlock pays the wake-ups *)
(* it owes, but for a cancelled Wait that skipped Sleep (mutex.cpp Unlock, *)
(* condvar.cpp drop_cb).                                                   *)
THEOREM CondvarDebtCovered == Spec => []DebtCovered
  <1>1. IInv => DebtCovered
    BY DEF IInv, DebtTracked, SkippedSleep, DebtCovered
  <1> QED
    BY <1>1, CondvarInvariant, PTL
=============================================================================
