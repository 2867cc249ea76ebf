--------------------------- MODULE EventFlagProofs --------------------------
(***************************************************************************)
(* Proofs about EventFlag, for any set of threads, bits and requests, and  *)
(* for every mode of the flag.                                             *)
(*                                                                         *)
(* Set serves the list in order and each waiter may clear bits for the     *)
(* ones after it.  That nobody is overlooked follows because the bits only *)
(* shrink along the list (FoundShrinks) and a condition that does not hold *)
(* of some bits does not hold of fewer (MetMonotone).                      *)
(***************************************************************************)
EXTENDS EventFlag, SeqOpsProofs

(* The list is sorted by this number; all are equal when Fifo.             *)
Rank == [t \in Threads |-> IF ByPrio THEN -Prio[t] ELSE 0]

(* The numbers order the threads as Precedes does. *)
LEMMA RankOK ==
    /\ Rank \in [Threads -> Int]
    /\ \A t \in Threads : {u \in Threads : ByPrio /\ Prio[u] < Prio[t]}
                              = {u \in Threads : Rank[u] > Rank[t]}
    /\ \A t, u \in Threads : Precedes(t, u) <=> Rank[t] <= Rank[u]
  <1>1. Prio \in [Threads -> Nat] /\ ByPrio \in BOOLEAN
    BY EventFlagAssumption
  <1>2. CASE ByPrio
    BY <1>1, <1>2 DEF Rank, Precedes
  <1>3. CASE ~ByPrio
    BY <1>1, <1>3 DEF Rank, Precedes
  <1> QED
    BY <1>1, <1>2, <1>3

(* The list is in order when the ranks along it do not fall. *)
LEMMA OrderIsSorted ==
    ASSUME m_waiters \in Seq(Threads)
    PROVE  ListInOrder <=> SortedBy(m_waiters, Rank)
  <1>1. \A i \in 1 .. Len(m_waiters) : m_waiters[i] \in Threads
    OBVIOUS
  <1> QED
    BY <1>1, RankOK DEF ListInOrder, SortedBy

(* A condition that holds of some bits holds of more.                      *)
LEMMA MetMonotone ==
    ASSUME NEW m, NEW n, m \subseteq n, NEW b, NEW mode, ConditionMet(m, b, mode)
    PROVE  ConditionMet(n, b, mode)
  BY DEF ConditionMet

(* A clear mode only takes bits away. *)
LEMMA ClearShrinks ==
    ASSUME NEW m, NEW b, NEW clear \in {"none", "all", "bits"}
    PROVE  ApplyClear(m, b, clear) \subseteq m
  <1>1. CASE clear = "none" BY <1>1 DEF ApplyClear
  <1>2. CASE clear = "all" BY <1>2 DEF ApplyClear
  <1>3. CASE clear = "bits" BY <1>3 DEF ApplyClear
  <1> QED
    BY <1>1, <1>2, <1>3

(* The list in a state of the invariant. *)
LEMMA ListFacts ==
    ASSUME IInv
    PROVE  /\ m_waiters \in Seq(Threads) /\ Distinct(m_waiters) /\ SortedBy(m_waiters, Rank)
           /\ Elems(m_waiters) \subseteq Threads
           /\ \A t \in Threads : t \in Elems(m_waiters) <=> pc[t] = "wait"
  <1>1. m_waiters \in Seq(Threads)
    BY DEF IInv, TypeOK
  <1>2. Elems(m_waiters) \subseteq Threads
    BY <1>1 DEF Elems
  <1> QED
    BY <1>1, <1>2, OrderIsSorted DEF IInv, TypeOK, ListedIsWaiting, Distinct

(* Nobody waits at first. *)
LEMMA InitOK == Init => IInv
  <1> SUFFICES ASSUME Init PROVE IInv
    OBVIOUS
  <1>1. m_waiters \in Seq(Threads) /\ Elems(m_waiters) = {} /\ 1 .. Len(m_waiters) = {}
    BY DEF Init, Elems
  <1>2. answer \in {None, "ok", "canceled", "deleted", "timedout"} \X SUBSET Bits
    BY DEF Init, NoAnswer
  <1>3. TypeOK
    BY <1>1, <1>2, EventFlagAssumption DEF Init, TypeOK, ListedIsWaiting, FreedHasNoWaiter
  <1>4. ListInOrder /\ NobodyOverlooked
    BY <1>1 DEF ListInOrder, NobodyOverlooked
  <1>5. RecordAgrees /\ DestructorTold
    BY <1>1 DEF Init, RecordAgrees, DestructorTold, Awake
  <1> QED
    BY <1>3, <1>4, <1>5 DEF IInv

(* A step that changes nothing but the bits and takes none that a waiter   *)
(* could use.                                                              *)
LEMMA KeepsRecords ==
    ASSUME IInv, m_bits' \subseteq m_bits, answer' = NoAnswer,
           UNCHANGED <<m_waiters, m_deleted, freed, destroy_wake, pc, waiterVars>>
    PROVE  IInv'
  <1> USE DEF waiterVars
  <1>1. answer' \in {None, "ok", "canceled", "deleted", "timedout"} \X SUBSET Bits
    BY DEF NoAnswer
  <1>2. TypeOK'
    BY <1>1 DEF IInv, TypeOK, ListedIsWaiting, FreedHasNoWaiter, Elems
  <1>3. NobodyOverlooked'
    <2> SUFFICES ASSUME NEW t \in Elems(m_waiters), ConditionMet(m_bits', bits[t], wait_mode[t])
                 PROVE  Awake(t)
      BY DEF NobodyOverlooked, Awake, Elems
    <2>1. ConditionMet(m_bits, bits[t], wait_mode[t])
      BY MetMonotone
    <2> QED
      BY <2>1 DEF IInv, NobodyOverlooked
  <1>4. ListInOrder' /\ RecordAgrees' /\ DestructorTold'
    BY DEF IInv, ListInOrder, RecordAgrees, DestructorTold, Awake, Elems
  <1> QED
    BY <1>2, <1>3, <1>4 DEF IInv

(* A Wait that is served at once only takes bits away. *)
LEMMA WaitMetOK ==
    ASSUME IInv, NEW t \in Threads, NEW q \in Requests, WaitMet(t, q[1], q[2], q[3]),
           answer' = NoAnswer
    PROVE  IInv'
  <1>1. q[3] \in {"none", "all", "bits"}
    BY EventFlagAssumption
  <1>2. m_bits' \subseteq m_bits
    BY <1>1, ClearShrinks DEF WaitMet
  <1> QED
    BY <1>2, KeepsRecords DEF WaitMet

(* So does Clear. *)
LEMMA ClearOK ==
    ASSUME IInv, NEW t \in Threads, NEW b \in SUBSET Bits, Clear(t, b), answer' = NoAnswer
    PROVE  IInv'
  <1>1. m_bits' \subseteq m_bits
    BY DEF Clear
  <1> QED
    BY <1>1, KeepsRecords DEF Clear

(* The new waiter is put in its place, with no reason to be awake yet and  *)
(* a condition that does not hold.                                         *)
LEMMA WaitBlocksOK ==
    ASSUME IInv, NEW t \in Threads, NEW q \in Requests, WaitBlocks(t, q[1], q[2], q[3]),
           answer' = NoAnswer
    PROVE  IInv'
  <1> DEFINE S == {u \in Threads : ByPrio /\ Prio[u] < Prio[t]}
             b == q[1]
             mode == q[2]
             clear == q[3]
  <1>q. b \in SUBSET Bits /\ mode \in {"and", "or"} /\ clear \in {"none", "all", "bits"}
    BY EventFlagAssumption
  <1>w. WaitBlocks(t, b, mode, clear)
    OBVIOUS
  <1> HIDE DEF b, mode, clear
  <1> USE <1>w DEF WaitBlocks, Usable, Rejected
  <1>0. /\ m_waiters \in Seq(Threads) /\ Distinct(m_waiters) /\ SortedBy(m_waiters, Rank)
        /\ t \notin Elems(m_waiters) /\ Elems(m_waiters) \subseteq Threads
    BY ListFacts
  <1>1. ~Awake(t) /\ ~woken[t]
    BY DEF IInv, RecordAgrees
  <1>3. m_waiters' = InsertBefore(m_waiters, t, S) /\ S = {u \in Threads : Rank[u] > Rank[t]}
    BY RankOK DEF AddWaiter
  <1> HIDE DEF S
  <1>4. /\ m_waiters' \in Seq(Threads) /\ Elems(m_waiters') = Elems(m_waiters) \cup {t}
        /\ Distinct(m_waiters')
    BY <1>0, <1>3, InsertBeforeElems
  <1>5. ListInOrder'
    <2>0. Rank \in [Threads -> Int]
      BY RankOK
    <2>1. SortedBy(m_waiters', Rank)
      <3>1. SortedBy(InsertBefore(m_waiters, t, S), Rank)
        BY ONLY <1>0, <1>3, <2>0, t \in Threads, InsertBeforeSorted
      <3> QED
        BY <1>3, <3>1
    <2>2. \A i \in 1 .. Len(m_waiters') : m_waiters'[i] \in Threads
      BY <1>4
    <2> QED
      BY <2>1, <2>2, RankOK DEF ListInOrder, SortedBy, Precedes
  <1>6. \A u \in Threads : /\ pc'[u] = IF u = t THEN "wait" ELSE pc[u]
                           /\ bits'[u] = IF u = t THEN b ELSE bits[u]
                           /\ wait_mode'[u] = IF u = t THEN mode ELSE wait_mode[u]
                           /\ Awake(u)' = Awake(u)
    BY DEF IInv, TypeOK, Awake
  <1>7. ListedIsWaiting'
    <2>1. \A u \in Threads : u \in Elems(m_waiters') <=> pc'[u] = "wait"
      BY <1>4, <1>6, ListFacts
    <2> QED
      BY <1>4, <2>1 DEF ListedIsWaiting, Distinct
  <1>8. TypeOK'
    <2>1. answer' \in {None, "ok", "canceled", "deleted", "timedout"} \X SUBSET Bits
      BY DEF NoAnswer
    <2>2. /\ bits' \in [Threads -> SUBSET Bits] /\ wait_mode' \in [Threads -> {"and", "or"}]
          /\ clear_mode' \in [Threads -> {"none", "all", "bits"}]
          /\ timed' \in [Threads -> BOOLEAN] /\ pc' \in [Threads -> {"run", "wait", "destroy"}]
      BY <1>q DEF IInv, TypeOK
    <2>3. FreedHasNoWaiter'
      BY DEF FreedHasNoWaiter
    <2> QED
      BY <1>4, <1>7, <2>1, <2>2, <2>3 DEF IInv, TypeOK
  <1>9. RecordAgrees'
    <2> SUFFICES ASSUME NEW u \in Threads
                 PROVE  /\ pc'[u] # "wait" => ~Awake(u)'
                        /\ woken'[u] <=> Awake(u)'
                        /\ ready'[u] /\ ~canceled'[u]
                               => ConditionMet(pattern'[u], bits'[u], wait_mode'[u])
      BY DEF RecordAgrees
    <2>1. CASE u = t
      BY <1>1, <1>6, <2>1 DEF Awake
    <2>2. CASE u # t
      BY <1>6, <2>2 DEF IInv, RecordAgrees
    <2> QED
      BY <2>1, <2>2
  <1>10. NobodyOverlooked'
    <2> SUFFICES ASSUME NEW u \in Elems(m_waiters')
                 PROVE  Awake(u)' \/ ~ConditionMet(m_bits, bits'[u], wait_mode'[u])
      BY DEF NobodyOverlooked
    <2>1. CASE u = t
      BY <1>6, <2>1
    <2>2. CASE u # t
      BY <1>0, <1>4, <1>6, <2>2 DEF IInv, NobodyOverlooked
    <2> QED
      BY <2>1, <2>2
  <1>11. DestructorTold'
    <2>1. m_deleted' = FALSE
      BY DEF IInv, TypeOK
    <2> QED
      BY <1>6, <2>1 DEF IInv, DestructorTold
  <1> QED
    BY <1>5, <1>8, <1>9, <1>10, <1>11 DEF IInv

(* A waiter leaves: by a reason or by its deadline.                        *)
LEMMA LeaveOK ==
    ASSUME IInv, NEW t \in Threads, pc[t] = "wait", RemoveWaiter(t),
           NEW code \in {"ok", "canceled", "deleted", "timedout"}, NEW m \in SUBSET Bits,
           Return(t, code, m), UNCHANGED <<m_bits, m_deleted, freed>>
    PROVE  IInv'
  <1> USE DEF Return, RemoveWaiter
  <1>0. /\ m_waiters \in Seq(Threads) /\ Distinct(m_waiters) /\ SortedBy(m_waiters, Rank)
        /\ Elems(m_waiters) \subseteq Threads
    BY ListFacts
  <1>1. /\ m_waiters' \in Seq(Threads) /\ Elems(m_waiters') = Elems(m_waiters) \ {t}
        /\ Distinct(m_waiters')
    BY <1>0, WithoutAllElems
  <1>2. ListInOrder'
    <2>1. SortedBy(m_waiters', Rank)
      BY <1>0, WithoutAllSorted
    <2>2. \A i \in 1 .. Len(m_waiters') : m_waiters'[i] \in Threads
      BY <1>1
    <2> QED
      BY <2>1, <2>2, RankOK DEF ListInOrder, SortedBy, Precedes
  <1>3. \A u \in Threads : /\ pc'[u] = IF u = t THEN "run" ELSE pc[u]
                           /\ u # t => /\ bits'[u] = bits[u] /\ wait_mode'[u] = wait_mode[u]
                                       /\ ready'[u] = ready[u] /\ canceled'[u] = canceled[u]
                                       /\ deleted'[u] = deleted[u] /\ woken'[u] = woken[u]
                                       /\ pattern'[u] = pattern[u]
    BY DEF IInv, TypeOK
  <1>4. ~ready'[t] /\ ~canceled'[t] /\ ~deleted'[t] /\ ~woken'[t]
    BY DEF IInv, TypeOK
  <1>5. ListedIsWaiting'
    <2>0. /\ \A u \in Threads : u \in Elems(m_waiters) <=> pc[u] = "wait"
          /\ \A u \in Threads : pc'[u] = IF u = t THEN "run" ELSE pc[u]
      BY <1>3, ListFacts
    <2>1. \A u \in Threads : u \in Elems(m_waiters') <=> pc'[u] = "wait"
      BY ONLY <1>1, <2>0
    <2> QED
      BY <1>1, <2>1 DEF ListedIsWaiting, Distinct
  <1>6. TypeOK'
    <2>1. answer' \in {None, "ok", "canceled", "deleted", "timedout"} \X SUBSET Bits
      OBVIOUS
    <2>2. /\ bits' \in [Threads -> SUBSET Bits] /\ wait_mode' \in [Threads -> {"and", "or"}]
          /\ clear_mode' \in [Threads -> {"none", "all", "bits"}]
          /\ pattern' \in [Threads -> SUBSET Bits]
      BY DEF IInv, TypeOK
    <2>3. /\ timed' \in [Threads -> BOOLEAN] /\ ready' \in [Threads -> BOOLEAN]
          /\ canceled' \in [Threads -> BOOLEAN] /\ deleted' \in [Threads -> BOOLEAN]
          /\ woken' \in [Threads -> BOOLEAN] /\ destroy_wake' \in BOOLEAN
      BY DEF IInv, TypeOK
    <2>4. pc' \in [Threads -> {"run", "wait", "destroy"}]
      BY DEF IInv, TypeOK
    <2>5. FreedHasNoWaiter'
      BY DEF IInv, TypeOK, FreedHasNoWaiter
    <2> QED
      BY <1>1, <1>5, <2>1, <2>2, <2>3, <2>4, <2>5 DEF IInv, TypeOK
  <1>7. RecordAgrees'
    <2> SUFFICES ASSUME NEW u \in Threads
                 PROVE  /\ pc'[u] # "wait" => ~Awake(u)'
                        /\ woken'[u] <=> Awake(u)'
                        /\ ready'[u] /\ ~canceled'[u]
                               => ConditionMet(pattern'[u], bits'[u], wait_mode'[u])
      BY DEF RecordAgrees
    <2>1. CASE u = t
      BY <1>4, <2>1 DEF Awake
    <2>2. CASE u # t
      BY <1>3, <2>2 DEF IInv, RecordAgrees, Awake
    <2> QED
      BY <2>1, <2>2
  <1>8. NobodyOverlooked'
    <2> SUFFICES ASSUME NEW u \in Elems(m_waiters) \ {t}
                 PROVE  Awake(u)' \/ ~ConditionMet(m_bits, bits'[u], wait_mode'[u])
      BY <1>1 DEF NobodyOverlooked
    <2> QED
      BY <1>0, <1>3 DEF IInv, NobodyOverlooked, Awake
  <1>9. DestructorTold'
    <2>1. m_deleted => \A u \in Elems(m_waiters') : deleted'[u]
      BY <1>0, <1>1, <1>3 DEF IInv, DestructorTold
    <2>2. ASSUME NEW u \in Threads, pc'[u] = "destroy"
          PROVE  m_deleted /\ (m_waiters' = << >> => destroy_wake')
      <3>1. pc[u] = "destroy"
        BY <1>3, <2>2
      <3>2. m_deleted
        BY <3>1 DEF IInv, DestructorTold
      <3> QED
        BY <3>2
    <2> QED
      BY <2>1, <2>2 DEF DestructorTold
  <1> QED
    BY <1>2, <1>6, <1>7, <1>8, <1>9 DEF IInv

(* A woken waiter leaves the list with the pattern Set reported. *)
LEMMA WaitWokenOK == ASSUME IInv, NEW t \in Threads, WaitWoken(t) PROVE IInv'
  <1> DEFINE code == IF canceled[t] THEN "canceled" ELSE IF deleted[t] THEN "deleted" ELSE "ok"
             m == pattern[t]
  <1>1. code \in {"ok", "canceled", "deleted", "timedout"} /\ m \in SUBSET Bits
    BY DEF IInv, TypeOK
  <1>2. /\ pc[t] = "wait" /\ RemoveWaiter(t) /\ Return(t, code, m)
        /\ UNCHANGED <<m_bits, m_deleted, freed>>
    BY DEF WaitWoken
  <1> HIDE DEF code, m
  <1> QED
    BY <1>1, <1>2, LeaveOK

(* The deadline, which reports the bits as they are. *)
LEMMA WaitExpiredOK == ASSUME IInv, NEW t \in Threads, WaitExpired(t) PROVE IInv'
  <1>1. m_bits \in SUBSET Bits
    BY DEF IInv, TypeOK
  <1> QED
    BY <1>1, LeaveOK DEF WaitExpired

(* Waiters are given a reason and are notified: Set, Cancel and the        *)
(* destructor.  They stay listed.                                          *)
LEMMA NotifyOK ==
    ASSUME IInv, NEW served \in SUBSET Elems(m_waiters), m_bits' \in SUBSET Bits,
           UNCHANGED <<m_waiters, destroy_wake, bits, wait_mode, clear_mode, timed>>,
           answer' = NoAnswer,
           m_deleted' \in BOOLEAN, freed' \in BOOLEAN,
           freed' => m_waiters = << >> /\ \A u \in Threads : pc'[u] # "wait",
           pc' \in [Threads -> {"run", "wait", "destroy"}],
           \A u \in Threads : pc'[u] = "wait" <=> pc[u] = "wait",
           woken' = [u \in Threads |-> woken[u] \/ u \in served],
           ready' \in [Threads -> BOOLEAN], canceled' \in [Threads -> BOOLEAN],
           deleted' \in [Threads -> BOOLEAN], pattern' \in [Threads -> SUBSET Bits],
           \A u \in served : ready'[u] \/ canceled'[u] \/ deleted'[u],
           \A u \in Threads : /\ ready[u] => ready'[u]
                              /\ canceled[u] => canceled'[u]
                              /\ deleted[u] => deleted'[u],
           \A u \in Threads \ served : /\ ready'[u] = ready[u] /\ canceled'[u] = canceled[u]
                                       /\ deleted'[u] = deleted[u] /\ pattern'[u] = pattern[u],
           \A u \in served : ready'[u] /\ ~canceled'[u]
                                 => ConditionMet(pattern'[u], bits[u], wait_mode[u]),
           \A u \in Elems(m_waiters) \ served :
               Awake(u) \/ ~ConditionMet(m_bits', bits[u], wait_mode[u]),
           DestructorTold'
    PROVE  IInv'
  <1>0. /\ Elems(m_waiters) \subseteq Threads
        /\ \A u \in Threads : u \in Elems(m_waiters) <=> pc[u] = "wait"
    BY ListFacts
  <1>1. \A u \in Threads : /\ woken'[u] <=> (woken[u] \/ u \in served)
                           /\ Awake(u)' <=> (Awake(u) \/ u \in served)
    BY <1>0 DEF Awake
  <1>2. ListedIsWaiting'
    BY DEF IInv, TypeOK, ListedIsWaiting, Elems
  <1>3. TypeOK'
    <2>1. answer' \in {None, "ok", "canceled", "deleted", "timedout"} \X SUBSET Bits
      BY DEF NoAnswer
    <2>2. woken' \in [Threads -> BOOLEAN]
      BY DEF IInv, TypeOK
    <2>3. FreedHasNoWaiter'
      BY DEF FreedHasNoWaiter
    <2> QED
      BY <1>2, <2>1, <2>2, <2>3 DEF IInv, TypeOK
  <1>4. RecordAgrees'
    <2> SUFFICES ASSUME NEW u \in Threads
                 PROVE  /\ pc'[u] # "wait" => ~Awake(u)'
                        /\ woken'[u] <=> Awake(u)'
                        /\ ready'[u] /\ ~canceled'[u]
                               => ConditionMet(pattern'[u], bits[u], wait_mode[u])
      BY DEF RecordAgrees
    <2>1. (pc[u] # "wait" => ~Awake(u)) /\ (woken[u] <=> Awake(u))
      BY DEF IInv, RecordAgrees
    <2>2. pc'[u] # "wait" => ~Awake(u)'
      BY <1>0, <1>1, <2>1
    <2>3. woken'[u] <=> Awake(u)'
      BY <1>1, <2>1
    <2>4. CASE u \in served
      BY <2>2, <2>3, <2>4
    <2>5. CASE u \notin served
      BY <2>2, <2>3, <2>5 DEF IInv, RecordAgrees
    <2> QED
      BY <2>4, <2>5
  <1>5. NobodyOverlooked'
    <2> SUFFICES ASSUME NEW u \in Elems(m_waiters)
                 PROVE  Awake(u)' \/ ~ConditionMet(m_bits', bits[u], wait_mode[u])
      BY DEF NobodyOverlooked, Elems
    <2> QED
      BY <1>0, <1>1
  <1>6. ListInOrder'
    BY DEF IInv, ListInOrder
  <1> QED
    BY <1>3, <1>4, <1>5, <1>6 DEF IInv

(* Cancel gives every listed waiter a reason to be awake. *)
LEMMA CancelOK ==
    ASSUME IInv, NEW t \in Threads, NEW b \in SUBSET Bits, Cancel(t, b), answer' = NoAnswer
    PROVE  IInv'
  <1> DEFINE served == Elems(m_waiters)
  <1> USE DEF Cancel, Usable
  <1>0. served \subseteq Threads /\ served \in SUBSET Elems(m_waiters)
    BY ListFacts
  <1>1. \A u \in Threads : /\ canceled'[u] <=> (canceled[u] \/ u \in served)
                           /\ pattern'[u] = IF u \in served THEN b ELSE pattern[u]
    OBVIOUS
  <1>2. canceled' \in [Threads -> BOOLEAN] /\ pattern' \in [Threads -> SUBSET Bits]
    BY DEF IInv, TypeOK
  <1>3. DestructorTold'
    BY DEF IInv, DestructorTold, Elems
  <1>4. /\ pc' \in [Threads -> {"run", "wait", "destroy"}]
        /\ m_deleted' \in BOOLEAN /\ freed' \in BOOLEAN
        /\ ready' \in [Threads -> BOOLEAN] /\ deleted' \in [Threads -> BOOLEAN]
        /\ freed' => m_waiters = << >> /\ \A u \in Threads : pc'[u] # "wait"
    BY DEF IInv, TypeOK, FreedHasNoWaiter
  <1>5. \A u \in Threads \ served : canceled'[u] = canceled[u]
    BY <1>1, <1>2 DEF IInv, TypeOK
  <1>6. woken' = [u \in Threads |-> woken[u] \/ u \in served]
    OBVIOUS
  <1> HIDE DEF served
  <1> QED
    BY <1>0, <1>1, <1>2, <1>3, <1>4, <1>5, <1>6, NotifyOK DEF served

(* So does the destructor, and from here on nobody joins the list. *)
LEMMA DestroyOK ==
    ASSUME IInv, NEW t \in Threads, Destroy(t), answer' = NoAnswer
    PROVE  IInv'
  <1> DEFINE served == Elems(m_waiters)
  <1> USE DEF Destroy, Usable
  <1>0. /\ served \subseteq Threads /\ served \in SUBSET Elems(m_waiters)
        /\ \A u \in Threads : u \in served <=> pc[u] = "wait"
    BY ListFacts
  <1>1. \A u \in Threads : deleted'[u] <=> (deleted[u] \/ u \in served)
    OBVIOUS
  <1>2. deleted' \in [Threads -> BOOLEAN]
    BY DEF IInv, TypeOK
  <1>3. /\ pc' \in [Threads -> {"run", "wait", "destroy"}]
        /\ m_deleted' \in BOOLEAN /\ freed' \in BOOLEAN
        /\ ready' \in [Threads -> BOOLEAN] /\ canceled' \in [Threads -> BOOLEAN]
        /\ pattern' \in [Threads -> SUBSET Bits]
        /\ \A u \in Threads : pc'[u] = "wait" <=> pc[u] = "wait"
    BY DEF IInv, TypeOK
  <1>4. m_waiters = << >> => served = {}
    BY DEF Elems
  <1>5. freed' => m_waiters = << >> /\ \A u \in Threads : pc'[u] # "wait"
    BY <1>0, <1>3, <1>4
  <1>6. \A u \in Threads \ served : deleted'[u] = deleted[u]
    BY <1>1, <1>2 DEF IInv, TypeOK
  <1>7. DestructorTold'
    <2>1. \A u \in Elems(m_waiters') : deleted'[u]
      BY <1>0, <1>1
    <2>2. ASSUME NEW u \in Threads, pc'[u] = "destroy", m_waiters = << >>
          PROVE  destroy_wake'
      <3>1. pc' = pc
        BY <2>2
      <3> QED
        BY <2>2, <3>1 DEF IInv, DestructorTold
    <2> QED
      BY <2>1, <2>2 DEF DestructorTold
  <1>8. woken' = [u \in Threads |-> woken[u] \/ u \in served]
    OBVIOUS
  <1>9. \A u \in served : ready[u] /\ ~canceled[u]
                              => ConditionMet(pattern[u], bits[u], wait_mode[u])
    BY <1>0 DEF IInv, RecordAgrees
  <1>10. m_bits' \in SUBSET Bits
    BY DEF IInv, TypeOK
  <1> HIDE DEF served
  <1> QED
    BY <1>0, <1>1, <1>2, <1>3, <1>5, <1>6, <1>7, <1>8, <1>9, <1>10, NotifyOK DEF served

(* The destructor goes on when the list is empty. *)
LEMMA DestroyedOK ==
    ASSUME IInv, NEW t \in Threads, Destroyed(t), answer' = NoAnswer
    PROVE  IInv'
  <1> USE DEF Destroyed, waiterVars
  <1>0. \A u \in Threads : pc[u] # "wait" /\ pc'[u] = IF u = t THEN "run" ELSE pc[u]
    <2>1. Elems(m_waiters) = {}
      BY DEF Elems
    <2> QED
      BY <2>1, ListFacts DEF IInv, TypeOK
  <1>1. answer' \in {None, "ok", "canceled", "deleted", "timedout"} \X SUBSET Bits
    BY DEF NoAnswer
  <1>2. TypeOK'
    BY <1>0, <1>1 DEF IInv, TypeOK, ListedIsWaiting, FreedHasNoWaiter, Elems
  <1>3. RecordAgrees'
    BY <1>0 DEF IInv, RecordAgrees, Awake
  <1>4. DestructorTold'
    BY <1>0 DEF IInv, DestructorTold, Elems
  <1>5. ListInOrder' /\ NobodyOverlooked'
    BY DEF IInv, ListInOrder, NobodyOverlooked, Awake, Elems
  <1> QED
    BY <1>2, <1>3, <1>4, <1>5 DEF IInv

(* What Found computes, and that the bits only shrink along the list.      *)
LEMMA FoundUnfolds ==
    ASSUME m_waiters \in Seq(Threads), bits \in [Threads -> SUBSET Bits],
           clear_mode \in [Threads -> {"none", "all", "bits"}], NEW m \in SUBSET Bits
    PROVE  /\ Found(m) \in [0 .. Len(m_waiters) -> SUBSET Bits]
           /\ Found(m)[0] = m
           /\ \A i \in 1 .. Len(m_waiters) :
                 LET u == m_waiters[i]
                 IN  Found(m)[i] = IF ConditionMet(Found(m)[i - 1], bits[u], wait_mode[u])
                                   THEN ApplyClear(Found(m)[i - 1], bits[u], clear_mode[u])
                                   ELSE Found(m)[i - 1]
  <1> DEFINE k == Len(m_waiters)
             V == SUBSET Bits
             after(i, q) == LET u == m_waiters[i]
                            IN  IF ConditionMet(q, bits[u], wait_mode[u])
                                THEN ApplyClear(q, bits[u], clear_mode[u]) ELSE q
             serve == [i \in 1 .. k |-> [q \in V |-> after(i, q)]]
             found == CHOOSE f : f = [i \in 0 .. k |-> IF i = 0 THEN m ELSE after(i, f[i - 1])]
  <1>0. k \in Nat /\ m \in V
    OBVIOUS
  <1>1. Found(m) = found
    BY DEF Found
  <1>2. \A i \in 1 .. k, q \in V : after(i, q) \in V
    <2> SUFFICES ASSUME NEW i \in 1 .. k, NEW q \in V PROVE after(i, q) \in V
      OBVIOUS
    <2>1. clear_mode[m_waiters[i]] \in {"none", "all", "bits"}
      OBVIOUS
    <2>2. ApplyClear(q, bits[m_waiters[i]], clear_mode[m_waiters[i]]) \subseteq q
      BY <2>1, ClearShrinks
    <2> QED
      BY <2>2
  <1> HIDE DEF k, V, after
  <1>3. serve \in Steps(k, V)
    BY <1>2 DEF Steps
  <1>4. \A i \in 1 .. k, q \in V : serve[i][q] = after(i, q)
    OBVIOUS
  <1> HIDE DEF serve
  <1>5. PICK f : f \in Unfolding(k, V, m, serve)
    BY <1>0, <1>3, Recursion, Zenon
  <1>6. /\ f \in [0 .. k -> V] /\ f[0] = m
        /\ \A i \in 1 .. k : f[i] = serve[i][f[i - 1]]
    BY <1>5 DEF Unfolding
  <1>7. \A i \in 1 .. k : f[i] = after(i, f[i - 1])
    <2> SUFFICES ASSUME NEW i \in 1 .. k PROVE f[i] = after(i, f[i - 1])
      OBVIOUS
    <2>1. i - 1 \in 0 .. k
      BY <1>0
    <2>2. f[i - 1] \in V
      BY <1>6, <2>1
    <2> QED
      BY <1>4, <1>6, <2>2, Zenon
  <1>8. f = [i \in 0 .. k |-> IF i = 0 THEN m ELSE after(i, f[i - 1])]
    <2>1. \A i \in 0 .. k : i = 0 \/ i \in 1 .. k
      BY <1>0
    <2> QED
      BY <1>6, <1>7, <2>1, Zenon
  <1>9. found = [i \in 0 .. k |-> IF i = 0 THEN m ELSE after(i, found[i - 1])]
    BY <1>8, Zenon
  <1> HIDE DEF found
  <1>10. found[0] = m /\ \A i \in 1 .. k : found[i] = after(i, found[i - 1])
    <2>1. 0 \in 0 .. k /\ \A i \in 1 .. k : i \in 0 .. k /\ i # 0
      BY <1>0
    <2> QED
      BY <1>9, <2>1, Zenon
  <1> DEFINE T == {i \in 0 .. k : found[i] \in V}
  <1>11. 0 .. k \subseteq T
    <2>1. 0 \in T
      BY <1>0, <1>10
    <2>2. ASSUME NEW i \in 0 .. k - 1, i \in T PROVE i + 1 \in T
      <3>1. i + 1 \in 1 .. k /\ (i + 1) - 1 = i /\ i + 1 \in 0 .. k
        BY <1>0
      <3>2. found[i + 1] = after(i + 1, found[i])
        BY <1>10, <3>1
      <3> QED
        BY <1>2, <2>2, <3>1, <3>2
    <2> HIDE DEF T
    <2> QED
      BY <1>0, <2>1, <2>2, InductionUpTo, Zenon
  <1>12. found \in [0 .. k -> V]
    BY <1>9, <1>11
  <1> QED
    BY <1>1, <1>10, <1>12 DEF k, V, after

(* Along the list bits only disappear. *)
LEMMA FoundShrinks ==
    ASSUME m_waiters \in Seq(Threads), bits \in [Threads -> SUBSET Bits],
           clear_mode \in [Threads -> {"none", "all", "bits"}], NEW m \in SUBSET Bits,
           NEW i \in 0 .. Len(m_waiters)
    PROVE  Found(m)[Len(m_waiters)] \subseteq Found(m)[i]
  <1> DEFINE k == Len(m_waiters)
             found == Found(m)
             T == {d \in 0 .. k : d >= i => found[d] \subseteq found[i]}
  <1>0. k \in Nat
    OBVIOUS
  <1>1. \A j \in 1 .. k : found[j] \subseteq found[j - 1]
    <2> SUFFICES ASSUME NEW j \in 1 .. k PROVE found[j] \subseteq found[j - 1]
      OBVIOUS
    <2> DEFINE u == m_waiters[j]
    <2>1. found[j] = IF ConditionMet(found[j - 1], bits[u], wait_mode[u])
                     THEN ApplyClear(found[j - 1], bits[u], clear_mode[u]) ELSE found[j - 1]
      BY FoundUnfolds
    <2>2. clear_mode[u] \in {"none", "all", "bits"}
      OBVIOUS
    <2> HIDE DEF found, u
    <2>3. ApplyClear(found[j - 1], bits[u], clear_mode[u]) \subseteq found[j - 1]
      BY <2>2, ClearShrinks
    <2> QED
      BY <2>1, <2>3
  <1>2. i \in 0 .. k
    OBVIOUS
  <1> HIDE DEF found, k
  <1>3. 0 \in T
    BY <1>0, <1>2
  <1>4. ASSUME NEW d \in 0 .. k - 1, d \in T PROVE d + 1 \in T
    <2>1. d + 1 \in 1 .. k /\ (d + 1) - 1 = d /\ d + 1 \in 0 .. k
      BY <1>0
    <2>2. found[d + 1] \subseteq found[d]
      BY <1>1, <2>1
    <2>3. CASE d + 1 = i
      BY <2>1, <2>3
    <2>4. CASE d + 1 # i /\ d + 1 >= i
      <3>1. found[d] \subseteq found[i]
        BY <1>2, <1>4, <2>4
      <3> QED
        BY <2>1, <2>2, <3>1
    <2> QED
      BY <1>2, <2>1, <2>3, <2>4
  <1>5. 0 .. k \subseteq T
    <2> HIDE DEF T
    <2> QED
      BY <1>0, <1>3, <1>4, InductionUpTo, Zenon
  <1>6. k \in T
    BY <1>0, <1>5
  <1> QED
    BY <1>0, <1>2, <1>6 DEF found, k

(* The served are those whose condition holds of what they find; the       *)
(* others find more than what is left at the end, so theirs does not hold. *)
LEMMA SetOK ==
    ASSUME IInv, NEW t \in Threads, NEW b \in SUBSET Bits, Set(t, b), answer' = NoAnswer
    PROVE  IInv'
  <1> DEFINE m == m_bits \cup b
             k == Len(m_waiters)
             found == Found(m)
             at(u) == found[IndexOf(m_waiters, u) - 1]
             served == {u \in Elems(m_waiters) : ConditionMet(at(u), bits[u], wait_mode[u])}
  <1>0. /\ m_waiters \in Seq(Threads) /\ Elems(m_waiters) \subseteq Threads /\ k \in Nat
        /\ m \in SUBSET Bits /\ bits \in [Threads -> SUBSET Bits]
        /\ clear_mode \in [Threads -> {"none", "all", "bits"}]
    BY ListFacts DEF IInv, TypeOK
  <1>1. /\ m_bits' = found[k]
        /\ ready' = [u \in Threads |-> ready[u] \/ u \in served]
        /\ woken' = [u \in Threads |-> woken[u] \/ u \in served]
        /\ pattern' = [u \in Threads |-> IF u \in served THEN at(u) ELSE pattern[u]]
        /\ UNCHANGED <<m_waiters, m_deleted, freed, destroy_wake, pc, bits, wait_mode,
                       clear_mode, timed, canceled, deleted>>
    BY DEF Set
  <1> HIDE DEF m, k
  <1>2. found \in [0 .. k -> SUBSET Bits]
    BY <1>0, FoundUnfolds DEF k
  <1>3. \A i \in 0 .. k : found[k] \subseteq found[i]
    BY <1>0, FoundShrinks DEF k
  <1> HIDE DEF found
  <1>4. ASSUME NEW u \in Elems(m_waiters)
        PROVE  IndexOf(m_waiters, u) - 1 \in 0 .. k
    <2>1. IndexOf(m_waiters, u) \in 1 .. k
      BY IndexOfPosition DEF Elems, k
    <2> QED
      BY <1>0, <2>1
  <1>5. \A u \in Elems(m_waiters) : at(u) \in SUBSET Bits /\ found[k] \subseteq at(u)
    BY <1>2, <1>3, <1>4
  <1> HIDE DEF at
  <1>6. \A u \in Elems(m_waiters) \ served :
            Awake(u) \/ ~ConditionMet(m_bits', bits[u], wait_mode[u])
    <2> SUFFICES ASSUME NEW u \in Elems(m_waiters),
                        ConditionMet(m_bits', bits[u], wait_mode[u])
                 PROVE  u \in served
      OBVIOUS
    <2>1. ConditionMet(at(u), bits[u], wait_mode[u])
      BY <1>1, <1>5, MetMonotone
    <2> QED
      BY <2>1
  <1>7. \A u \in served : u \in Elems(m_waiters) /\ u \in Threads
                          /\ ConditionMet(at(u), bits[u], wait_mode[u])
    BY <1>0
  <1> HIDE DEF served
  <1>8. served \in SUBSET Elems(m_waiters)
    BY <1>7
  <1>9. \A u \in Threads : /\ ready'[u] <=> (ready[u] \/ u \in served)
                           /\ pattern'[u] = IF u \in served THEN at(u) ELSE pattern[u]
    BY <1>1
  <1>10. ready' \in [Threads -> BOOLEAN] /\ pattern' \in [Threads -> SUBSET Bits]
    BY <1>1, <1>5, <1>7 DEF IInv, TypeOK
  <1>11. \A u \in Threads \ served : ready'[u] = ready[u]
    BY <1>9, <1>10 DEF IInv, TypeOK
  <1>12. DestructorTold'
    BY <1>1 DEF IInv, DestructorTold, Elems
  <1>13. /\ pc' \in [Threads -> {"run", "wait", "destroy"}]
         /\ m_deleted' \in BOOLEAN /\ freed' \in BOOLEAN
         /\ canceled' \in [Threads -> BOOLEAN] /\ deleted' \in [Threads -> BOOLEAN]
         /\ freed' => m_waiters = << >> /\ \A u \in Threads : pc'[u] # "wait"
    BY <1>1 DEF IInv, TypeOK, FreedHasNoWaiter
  <1>14. m_bits' \in SUBSET Bits
    BY <1>0, <1>1, <1>2
  <1> QED
    BY <1>1, <1>6, <1>7, <1>8, <1>9, <1>10, <1>11, <1>12, <1>13, <1>14, NotifyOK

(* Every step preserves the invariant: one case per action. *)
LEMMA StepOK == IInv /\ [Next]_vars => IInv'
  <1> SUFFICES ASSUME IInv, [Next]_vars PROVE IInv'
    OBVIOUS
  <1>1. CASE UNCHANGED vars
    BY <1>1 DEF vars, waiterVars, IInv, TypeOK, ListedIsWaiting, FreedHasNoWaiter, ListInOrder,
               RecordAgrees, NobodyOverlooked, DestructorTold, Elems, Precedes, Awake
  <1>2. ASSUME NEW t \in Threads, Step(t) PROVE IInv'
    BY <1>2, WaitWokenOK, WaitExpiredOK, DestroyedOK DEF Step
  <1>3. ASSUME NEW t \in Threads, Call(t), answer' = NoAnswer PROVE IInv'
    <2>1. ASSUME NEW q \in Requests,
                 WaitMet(t, q[1], q[2], q[3]) \/ WaitBlocks(t, q[1], q[2], q[3])
          PROVE  IInv'
      BY <1>3, <2>1, WaitMetOK, WaitBlocksOK
    <2>2. ASSUME NEW b \in SUBSET Bits, Set(t, b) \/ Clear(t, b) \/ Cancel(t, b) PROVE IInv'
      BY <1>3, <2>2, SetOK, ClearOK, CancelOK
    <2>3. CASE Destroy(t)
      BY <1>3, <2>3, DestroyOK
    <2> QED
      BY <1>3, <2>1, <2>2, <2>3 DEF Call
  <1> QED
    BY <1>1, <1>2, <1>3 DEF Next
-----------------------------------------------------------------------------
(* The inductive invariant of EventFlagInternal holds in every state       *)
(* (event_flag.cpp).                                                       *)
THEOREM EventFlagInvariant == Spec => []IInv
  BY InitOK, StepOK, PTL DEF Spec

(* The list points at exactly the records on the stacks of the threads     *)
(* inside Wait, and nobody is inside Wait once the destructor returned.    *)
THEOREM EventFlagTypes == Spec => []TypeOK
  <1>1. IInv => TypeOK
    BY DEF IInv
  <1> QED
    BY <1>1, EventFlagInvariant, PTL

(* Set overlooks nobody: the condition of a waiter that sleeps on does not *)
(* hold, whatever the waiters before it have cleared.                      *)
THEOREM EventFlagNobodyOverlooked == Spec => []NobodyOverlooked
  <1>1. IInv => NobodyOverlooked
    BY DEF IInv
  <1> QED
    BY <1>1, EventFlagInvariant, PTL

(* A blocked Wait that returns ORBIS_OK reports a pattern that meets its   *)
(* condition, even when Set served it again or a deletion came in between. *)
THEOREM EventFlagSuccessIsMet == Spec => SuccessIsMet
  <1> DEFINE A == \A t \in Threads : pc[t] = "wait" /\ pc'[t] = "run" /\ answer'[1] = "ok"
                      => ConditionMet(answer'[2], bits[t], wait_mode[t])
  <1>1. IInv /\ [Next]_vars => [A]_vars
    <2> SUFFICES ASSUME IInv, Next, NEW u \in Threads, pc[u] = "wait", pc'[u] = "run",
                        answer'[1] = "ok"
                 PROVE  ConditionMet(answer'[2], bits[u], wait_mode[u])
      OBVIOUS
    <2>0. pc \in [Threads -> {"run", "wait", "destroy"}] /\ None # "ok"
      BY EventFlagAssumption DEF IInv, TypeOK
    <2>1. PICK t \in Threads : WaitWoken(t) \/ WaitExpired(t) \/ answer' = NoAnswer
      BY DEF Next, Step
    <2>2. answer' # NoAnswer
      BY <2>0 DEF NoAnswer
    <2>3. CASE WaitExpired(t)
      BY <2>3 DEF WaitExpired, Return
    <2>4. CASE WaitWoken(t)
      <3>1. /\ pc' = [pc EXCEPT ![t] = "run"] /\ Awake(t)
            /\ answer' = <<IF canceled[t] THEN "canceled" ELSE IF deleted[t] THEN "deleted" ELSE "ok",
                           pattern[t]>>
        BY <2>4 DEF WaitWoken, Return
      <3>2. u = t
        BY <2>0, <3>1
      <3>3. ready[t] /\ ~canceled[t] /\ answer'[2] = pattern[t]
        BY <3>1 DEF Awake
      <3> QED
        BY <3>2, <3>3 DEF IInv, RecordAgrees
    <2> QED
      BY <2>1, <2>2, <2>3, <2>4
  <1> QED
    BY <1>1, EventFlagInvariant, PTL DEF Spec, SuccessIsMet

(* A newcomer lines up behind every waiter whose priority number is not    *)
(* smaller than its own (AddWaiter).                                       *)
THEOREM EventFlagNoOvertaking == Spec => NoOvertaking
  <1> DEFINE A == \A t \in Elems(m_waiters), u \in Threads \ Elems(m_waiters) :
                      /\ t \in Elems(m_waiters') /\ u \in Elems(m_waiters')
                      /\ Precedes(t, u)
                      => IndexOf(m_waiters', t) < IndexOf(m_waiters', u)
  <1>1. IInv /\ [Next]_vars => [A]_vars
    <2> SUFFICES ASSUME IInv, Next,
                        NEW t \in Elems(m_waiters), NEW u \in Threads \ Elems(m_waiters),
                        u \in Elems(m_waiters'), Precedes(t, u)
                 PROVE  IndexOf(m_waiters', t) < IndexOf(m_waiters', u)
      OBVIOUS
    <2>0. /\ m_waiters \in Seq(Threads) /\ Distinct(m_waiters) /\ SortedBy(m_waiters, Rank)
          /\ Elems(m_waiters) \subseteq Threads
      BY ListFacts
    <2>1. PICK v \in Threads : Step(v) \/ Call(v)
      BY DEF Next
    <2>2. CASE m_waiters' = m_waiters \/ m_waiters' = WithoutAll(m_waiters, {v})
      <3>1. Elems(m_waiters') \subseteq Elems(m_waiters)
        BY <2>0, <2>2, WithoutAllElems
      <3> QED
        BY <3>1
    <2>3. CASE m_waiters' = AddWaiter(v)
      <3> DEFINE S == {w \in Threads : ByPrio /\ Prio[w] < Prio[v]}
      <3>1. m_waiters' = InsertBefore(m_waiters, v, S) /\ S = {w \in Threads : Rank[w] > Rank[v]}
        BY <2>3, RankOK DEF AddWaiter
      <3> HIDE DEF S
      <3>2. u = v
        BY <2>0, <3>1, InsertBeforeElems
      <3>4. Rank[t] <= Rank[v] /\ Rank \in [Threads -> Int]
        BY <2>0, <3>2, RankOK
      <3> QED
        BY <2>0, <3>1, <3>2, <3>4, InsertBeforeBehind
    <2>4. \/ m_waiters' = m_waiters \/ m_waiters' = WithoutAll(m_waiters, {v})
          \/ m_waiters' = AddWaiter(v)
      <3>1. CASE Step(v)
        BY <3>1 DEF Step, WaitWoken, WaitExpired, Destroyed, RemoveWaiter
      <3>2. CASE Call(v)
        BY <3>2 DEF Call, WaitMet, WaitBlocks, Set, Clear, Cancel, Destroy
      <3> QED
        BY <2>1, <3>1, <3>2
    <2> QED
      BY <2>2, <2>3, <2>4
  <1> QED
    BY <1>1, EventFlagInvariant, PTL DEF Spec, NoOvertaking
=============================================================================
