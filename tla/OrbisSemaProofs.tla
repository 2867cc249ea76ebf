--------------------------- MODULE OrbisSemaProofs --------------------------
(***************************************************************************)
(* Proofs about OrbisSema, for any set of threads, any priorities and any  *)
(* counts.                                                                 *)
(*                                                                         *)
(* The heart of it is Signal: it serves the list in order and passes over  *)
(* a record that needs more than is left.  That nobody is overlooked then  *)
(* follows because what is left only shrinks along the list (LeftShrinks): *)
(* a record that was passed over needs more than the count in the end.     *)
(***************************************************************************)
EXTENDS OrbisSema, SeqOpsProofs

(* The list is sorted by this number; all are equal when is_fifo.          *)
Rank == [t \in Threads |-> IF IsFifo THEN 0 ELSE Prio[t]]

(* The numbers order the threads as Precedes does. *)
LEMMA RankOK ==
    /\ Rank \in [Threads -> Int]
    /\ \A t \in Threads : {u \in Threads : ~IsFifo /\ Prio[u] > Prio[t]}
                              = {u \in Threads : Rank[u] > Rank[t]}
    /\ \A t, u \in Threads : Precedes(t, u) <=> Rank[t] <= Rank[u]
  <1>1. Prio \in [Threads -> Nat] /\ IsFifo \in BOOLEAN
    BY OrbisSemaAssumption
  <1>2. CASE IsFifo
    BY <1>1, <1>2 DEF Rank, Precedes
  <1>3. CASE ~IsFifo
    BY <1>1, <1>3 DEF Rank, Precedes
  <1> QED
    BY <1>1, <1>2, <1>3

(* The list is in order when the ranks along it do not fall. *)
LEMMA OrderIsSorted ==
    ASSUME wait_list \in Seq(Threads)
    PROVE  ListInOrder <=> SortedBy(wait_list, Rank)
  <1>1. \A i \in 1 .. Len(wait_list) : wait_list[i] \in Threads
    OBVIOUS
  <1> QED
    BY <1>1, RankOK DEF ListInOrder, SortedBy

(* Nobody waits at first. *)
LEMMA InitOK == Init => IInv
  <1> SUFFICES ASSUME Init PROVE IInv
    OBVIOUS
  <1>1. wait_list \in Seq(Threads) /\ Elems(wait_list) = {} /\ 1 .. Len(wait_list) = {}
    BY DEF Init, Elems
  <1>2. TypeOK
    BY <1>1, OrbisSemaAssumption DEF Init, TypeOK, ListedIsWaiting, Counts
  <1>3. ListInOrder /\ NobodyOverlooked
    BY <1>1 DEF ListInOrder, NobodyOverlooked
  <1>4. RecordAgrees
    BY OrbisSemaAssumption DEF Init, RecordAgrees
  <1> QED
    BY <1>2, <1>3, <1>4 DEF IInv

(* A step that leaves the list and the records alone.                      *)
LEMMA KeepsRecords ==
    ASSUME IInv, UNCHANGED <<wait_list, waiterVars, deducted>>,
           token_count' \in 0 .. MaxTokens, token_count' <= token_count,
           allocated' \in BOOLEAN,
           pc' \in [Threads -> {"run", "sleep", "relock", "erase", "stuck"}],
           result' \in [Threads -> {None, "ok", "canceled", "deleted", "timedout"}],
           \A u \in Threads : \/ pc'[u] = pc[u]
                              \/ pc[u] \in {"run", "erase"} /\ pc'[u] \in {"run", "erase"}
                              \/ /\ pc[u] \in {"sleep", "relock", "stuck"}
                                 /\ pc'[u] \in {"relock", "stuck"}
    PROVE  IInv'
  <1> USE DEF waiterVars
  <1>0. \A u \in Threads : pc'[u] \in {"sleep", "relock", "stuck"}
                             <=> pc[u] \in {"sleep", "relock", "stuck"}
    OBVIOUS
  <1>1. ListedIsWaiting'
    BY <1>0 DEF IInv, TypeOK, ListedIsWaiting, Elems
  <1>2. TypeOK'
    BY <1>1 DEF IInv, TypeOK
  <1>3. ListInOrder'
    BY DEF IInv, ListInOrder
  <1>4. RecordAgrees'
    BY DEF IInv, RecordAgrees
  <1>5. NobodyOverlooked'
    <2>1. \A i \in 1 .. Len(wait_list) : need_count[wait_list[i]] \in Nat
      BY OrbisSemaAssumption DEF IInv, TypeOK, Counts
    <2>2. token_count \in Nat /\ token_count' \in Nat
      BY OrbisSemaAssumption DEF IInv, TypeOK
    <2> QED
      BY <2>1, <2>2 DEF IInv, NobodyOverlooked
  <1> QED
    BY <1>2, <1>3, <1>4, <1>5 DEF IInv

(* A Wait that is served at once only takes tokens away. *)
LEMMA WaitServedOK ==
    ASSUME IInv, NEW t \in Threads, NEW n \in Counts, WaitServed(t, n) PROVE IInv'
  <1> USE DEF WaitServed
  <1>1. token_count' \in 0 .. MaxTokens /\ token_count' <= token_count
    BY OrbisSemaAssumption DEF IInv, TypeOK, Counts
  <1>2. result' \in [Threads -> {None, "ok", "canceled", "deleted", "timedout"}]
    BY DEF IInv, TypeOK
  <1> QED
    BY <1>1, <1>2, KeepsRecords DEF IInv, TypeOK

(* The deadline passes: the record stays listed until the mutex is locked  *)
(* again.                                                                  *)
LEMMA ExpireOK == ASSUME IInv, NEW t \in Threads, Expire(t) PROVE IInv'
  <1> USE DEF Expire, Goto
  <1>1. token_count' \in 0 .. MaxTokens /\ token_count' <= token_count
    BY OrbisSemaAssumption DEF IInv, TypeOK
  <1> QED
    BY <1>1, KeepsRecords DEF IInv, TypeOK

(* sceKernelDeleteSema erases the object. *)
LEMMA EraseOK == ASSUME IInv, NEW t \in Threads, Erase(t) PROVE IInv'
  <1> USE DEF Erase, Goto
  <1>1. token_count' \in 0 .. MaxTokens /\ token_count' <= token_count
    BY OrbisSemaAssumption DEF IInv, TypeOK
  <1> QED
    BY <1>1, KeepsRecords DEF IInv, TypeOK

(* The permit is taken by the waiter it was released for. *)
LEMMA AcquireOK == ASSUME IInv, NEW t \in Threads, Acquire(t) PROVE IInv'
  <1> USE DEF Acquire, Goto
  <1>0. sem[t] \in {0, 1} /\ sem[t] > 0
    BY DEF IInv, TypeOK
  <1>1. sem' = [sem EXCEPT ![t] = 0] /\ why[t] # None
    <2>1. sem[t] = 1 /\ sem[t] - 1 = 0
      BY <1>0
    <2> QED
      BY <2>1 DEF IInv, RecordAgrees
  <1>2. ListedIsWaiting'
    BY DEF IInv, TypeOK, ListedIsWaiting, Elems
  <1>3. TypeOK'
    BY <1>1, <1>2 DEF IInv, TypeOK
  <1>4. ListInOrder' /\ NobodyOverlooked'
    BY DEF IInv, ListInOrder, NobodyOverlooked
  <1>5. \A u \in Threads : /\ pc'[u] = IF u = t THEN "relock" ELSE pc[u]
                           /\ sem'[u] = IF u = t THEN 0 ELSE sem[u]
    BY <1>1 DEF IInv, TypeOK
  <1>6. RecordAgrees'
    BY <1>1, <1>5 DEF IInv, RecordAgrees
  <1> QED
    BY <1>3, <1>4, <1>6 DEF IInv

(* The new record is put in its place; it needs more than there is.        *)
LEMMA WaitBlocksOK ==
    ASSUME IInv, NEW t \in Threads, NEW n \in Counts, WaitBlocks(t, n) PROVE IInv'
  <1> USE DEF WaitBlocks, Goto
  <1> DEFINE S == {u \in Threads : ~IsFifo /\ Prio[u] > Prio[t]}
  <1>0. wait_list \in Seq(Threads) /\ Distinct(wait_list) /\ SortedBy(wait_list, Rank)
    BY OrderIsSorted DEF IInv, TypeOK, ListedIsWaiting, Distinct
  <1>1. pc[t] = "run" /\ why[t] = None /\ sem[t] = 0 /\ deducted[t] = 0
    BY OrbisSemaAssumption DEF IInv, RecordAgrees
  <1>2. t \notin Elems(wait_list)
    BY <1>1 DEF IInv, TypeOK, ListedIsWaiting
  <1>3. wait_list' = InsertBefore(wait_list, t, S) /\ S = {u \in Threads : Rank[u] > Rank[t]}
    BY RankOK DEF AddWaiter
  <1> HIDE DEF S
  <1>4. /\ wait_list' \in Seq(Threads) /\ Elems(wait_list') = Elems(wait_list) \cup {t}
        /\ Distinct(wait_list')
    BY <1>0, <1>2, <1>3, InsertBeforeElems
  <1>5. ListInOrder'
    <2>1. SortedBy(wait_list', Rank)
      BY <1>0, <1>3, RankOK, InsertBeforeSorted
    <2>2. \A i \in 1 .. Len(wait_list') : wait_list'[i] \in Threads
      BY <1>4
    <2> QED
      BY <2>1, <2>2, RankOK DEF ListInOrder, SortedBy, Precedes
  <1>6. \A u \in Threads : /\ pc'[u] = IF u = t THEN "sleep" ELSE pc[u]
                           /\ need_count'[u] = IF u = t THEN n ELSE need_count[u]
    BY DEF IInv, TypeOK
  <1>7. ListedIsWaiting'
    <2>1. \A u \in Threads : u \in Elems(wait_list')
              <=> (pc'[u] \in {"sleep", "relock", "stuck"} /\ why'[u] = None)
      BY <1>1, <1>4, <1>6 DEF IInv, TypeOK, ListedIsWaiting
    <2> QED
      BY <1>4, <2>1 DEF ListedIsWaiting, Distinct
  <1>8. TypeOK'
    BY <1>4, <1>7 DEF IInv, TypeOK
  <1>9. RecordAgrees'
    BY <1>1, <1>6, OrbisSemaAssumption DEF IInv, RecordAgrees
  <1>10. NobodyOverlooked'
    <2> SUFFICES ASSUME NEW i \in 1 .. Len(wait_list')
                 PROVE  need_count'[wait_list'[i]] > token_count
      BY DEF NobodyOverlooked
    <2>0. wait_list'[i] \in Elems(wait_list')
      BY DEF Elems
    <2>1. wait_list'[i] \in Elems(wait_list) \cup {t} /\ wait_list'[i] \in Threads
      BY <1>4, <2>0
    <2>2. n > token_count
      BY OrbisSemaAssumption DEF IInv, TypeOK, Counts
    <2>3. \A u \in Elems(wait_list) : need_count[u] > token_count
      BY DEF IInv, NobodyOverlooked, Elems
    <2> QED
      BY <1>2, <1>6, <2>1, <2>2, <2>3
  <1> QED
    BY <1>5, <1>8, <1>9, <1>10 DEF IInv

(* Only a record that nobody answered is listed still, and goes.           *)
LEMMA FinishOK == ASSUME IInv, NEW t \in Threads, Finish(t) PROVE IInv'
  <1> USE DEF Finish, Goto, Return
  <1>1. CASE pc' = [pc EXCEPT ![t] = "stuck"] /\ UNCHANGED <<wait_list, waiterVars, result, deducted>>
    <2>1. token_count' \in 0 .. MaxTokens /\ token_count' <= token_count
      BY OrbisSemaAssumption DEF IInv, TypeOK
    <2> QED
      BY <1>1, <2>1, KeepsRecords DEF IInv, TypeOK
  <1>2. CASE /\ Return(t, GetResult(t))
             /\ wait_list' = IF GetResult(t) = "timedout"
                             THEN Without(wait_list, IndexOf(wait_list, t)) ELSE wait_list
    <2> USE <1>2
    <2>0. /\ wait_list \in Seq(Threads) /\ Distinct(wait_list) /\ SortedBy(wait_list, Rank)
          /\ t \in Elems(wait_list) <=> why[t] = None
      BY OrderIsSorted DEF IInv, TypeOK, ListedIsWaiting, Distinct
    <2>1. /\ wait_list' \in Seq(Threads) /\ Elems(wait_list') = Elems(wait_list) \ {t}
          /\ Distinct(wait_list') /\ SortedBy(wait_list', Rank)
      <3>1. CASE why[t] = None
        <4>1. wait_list' = Without(wait_list, IndexOf(wait_list, t))
          BY <3>1 DEF GetResult
        <4> DEFINE i == IndexOf(wait_list, t)
        <4>2. i \in 1 .. Len(wait_list) /\ wait_list[i] = t
          BY <2>0, <3>1, IndexOfPosition DEF Elems
        <4> HIDE DEF i
        <4> QED
          BY <2>0, <4>1, <4>2, WithoutElems, WithoutSorted DEF i
      <3>2. CASE why[t] # None
        <4>1. wait_list' = wait_list
          BY <3>2 DEF GetResult, IInv, TypeOK
        <4>2. Elems(wait_list) = Elems(wait_list) \ {t}
          BY <2>0, <3>2
        <4> QED
          BY <2>0, <4>1, <4>2
      <3> QED
        BY <3>1, <3>2
    <2>2. ListInOrder'
      <3>1. \A i \in 1 .. Len(wait_list') : wait_list'[i] \in Threads
        BY <2>1
      <3> QED
        BY <2>1, <3>1, RankOK DEF ListInOrder, SortedBy, Precedes
    <2>3. \A u \in Threads : /\ pc'[u] = IF u = t THEN "run" ELSE pc[u]
                             /\ why'[u] = IF u = t THEN None ELSE why[u]
                             /\ sem'[u] = IF u = t THEN 0 ELSE sem[u]
                             /\ deducted'[u] = IF u = t THEN 0 ELSE deducted[u]
                             /\ need_count'[u] = IF u = t THEN 1 ELSE need_count[u]
      BY DEF IInv, TypeOK
    <2>4. ListedIsWaiting'
      <3>1. \A u \in Threads : u \in Elems(wait_list')
                <=> (pc'[u] \in {"sleep", "relock", "stuck"} /\ why'[u] = None)
        BY <2>1, <2>3 DEF IInv, TypeOK, ListedIsWaiting
      <3> QED
        BY <2>1, <3>1 DEF ListedIsWaiting, Distinct
    <2>5. TypeOK'
      <3>1. result' \in [Threads -> {None, "ok", "canceled", "deleted", "timedout"}]
        BY DEF GetResult, IInv, TypeOK
      <3> QED
        BY <2>1, <2>4, <3>1, OrbisSemaAssumption DEF IInv, TypeOK, Counts
    <2>6. RecordAgrees'
      BY <2>3, OrbisSemaAssumption DEF IInv, RecordAgrees
    <2>7. NobodyOverlooked'
      <3> SUFFICES ASSUME NEW i \in 1 .. Len(wait_list')
                   PROVE  need_count'[wait_list'[i]] > token_count
        BY DEF NobodyOverlooked
      <3>0. wait_list'[i] \in Elems(wait_list')
        BY DEF Elems
      <3>1. wait_list'[i] \in Elems(wait_list) \ {t} /\ wait_list'[i] \in Threads
        BY <2>1, <3>0
      <3>2. \A u \in Elems(wait_list) : need_count[u] > token_count
        BY DEF IInv, NobodyOverlooked, Elems
      <3> QED
        BY <2>3, <3>1, <3>2
    <2> QED
      BY <2>2, <2>5, <2>6, <2>7 DEF IInv
  <1> QED
    BY <1>1, <1>2

(* Records are answered: Signal, Cancel and Delete.  The ones that stay    *)
(* must need more than what is left.                                       *)
LEMMA AnswerOK ==
    ASSUME IInv, NEW served \in SUBSET Elems(wait_list), NEW r \in {"ok", "canceled", "deleted"},
           Answer(served, r), UNCHANGED <<allocated, need_count, timed, result>>,
           token_count' \in 0 .. MaxTokens,
           \A u \in Elems(wait_list) \ served : need_count[u] > token_count',
           pc' \in [Threads -> {"run", "sleep", "relock", "erase", "stuck"}],
           \A u \in Threads : pc'[u] = pc[u] \/ {pc[u], pc'[u]} \subseteq {"run", "erase"},
           deducted' = [u \in Threads |-> IF u \in served /\ r = "ok" THEN need_count[u]
                                          ELSE deducted[u]]
    PROVE  IInv'
  <1> USE DEF Answer
  <1>0. wait_list \in Seq(Threads) /\ Distinct(wait_list) /\ SortedBy(wait_list, Rank)
    BY OrderIsSorted DEF IInv, TypeOK, ListedIsWaiting, Distinct
  <1>1. /\ wait_list' \in Seq(Threads) /\ Elems(wait_list') = Elems(wait_list) \ served
        /\ Distinct(wait_list')
    BY <1>0, WithoutAllElems
  <1>2. SortedBy(wait_list', Rank)
    BY <1>0, WithoutAllSorted
  <1>3. ListInOrder'
    <2>1. \A i \in 1 .. Len(wait_list') : wait_list'[i] \in Threads
      BY <1>1
    <2> QED
      BY <1>2, <2>1, RankOK DEF ListInOrder, SortedBy, Precedes
  <1>4. \A u \in served : /\ u \in Threads /\ u \in Elems(wait_list)
                          /\ pc[u] \in {"sleep", "relock", "stuck"} /\ pc'[u] = pc[u]
                          /\ why[u] = None /\ sem[u] = 0 /\ deducted[u] = 0
    <2>1. \A u \in served : u \in Threads /\ u \in Elems(wait_list)
      BY <1>0 DEF Elems
    <2>2. \A u \in served : why[u] = None /\ pc[u] \in {"sleep", "relock", "stuck"}
      BY <2>1 DEF IInv, TypeOK, ListedIsWaiting
    <2> QED
      BY <2>1, <2>2, OrbisSemaAssumption DEF IInv, RecordAgrees
  <1>5. /\ r # None
        /\ \A u \in Threads :
               /\ why'[u] = IF u \in served THEN r ELSE why[u]
               /\ sem'[u] = IF u \in served THEN 1 ELSE sem[u]
    BY <1>4, OrbisSemaAssumption DEF IInv, TypeOK
  <1>6. \A u \in Threads : deducted'[u] = IF why'[u] = "ok" THEN need_count[u] ELSE 0
    <2> SUFFICES ASSUME NEW u \in Threads
                 PROVE  deducted'[u] = IF why'[u] = "ok" THEN need_count[u] ELSE 0
      OBVIOUS
    <2>1. CASE u \in served
      BY <1>4, <1>5, <2>1
    <2>2. CASE u \notin served
      BY <1>5, <2>2 DEF IInv, RecordAgrees
    <2> QED
      BY <2>1, <2>2
  <1>7. \A u \in Threads : \/ pc'[u] = pc[u]
                           \/ pc[u] \in {"run", "erase"} /\ pc'[u] \in {"run", "erase"}
    OBVIOUS
  <1>8. RecordAgrees'
    <2> SUFFICES ASSUME NEW u \in Threads
                 PROVE  /\ pc'[u] \in {"run", "erase"} => why'[u] = None
                        /\ why'[u] = None => sem'[u] = 0
                        /\ pc'[u] = "sleep" /\ why'[u] # None => sem'[u] = 1
      BY <1>6 DEF RecordAgrees
    <2>1. CASE u \in served
      BY <1>4, <1>5, <2>1
    <2>2. CASE u \notin served
      BY <1>5, <1>7, <2>2 DEF IInv, RecordAgrees
    <2> QED
      BY <2>1, <2>2
  <1>9. ListedIsWaiting'
    <2>1. \A u \in Threads : u \in Elems(wait_list')
              <=> (pc'[u] \in {"sleep", "relock", "stuck"} /\ why'[u] = None)
      BY <1>1, <1>5, <1>7 DEF IInv, TypeOK, ListedIsWaiting
    <2> QED
      BY <1>1, <2>1 DEF ListedIsWaiting, Distinct
  <1>10. TypeOK'
    <2>1. sem' \in [Threads -> {0, 1}] /\ why' \in [Threads -> {None, "ok", "canceled", "deleted"}]
      BY <1>5 DEF IInv, TypeOK
    <2>2. deducted' \in [Threads -> 0 .. MaxTokens]
      BY OrbisSemaAssumption DEF IInv, TypeOK, Counts
    <2> QED
      BY <1>1, <1>9, <2>1, <2>2 DEF IInv, TypeOK
  <1>11. NobodyOverlooked'
    <2> SUFFICES ASSUME NEW i \in 1 .. Len(wait_list')
                 PROVE  need_count[wait_list'[i]] > token_count'
      BY DEF NobodyOverlooked
    <2>1. wait_list'[i] \in Elems(wait_list')
      BY DEF Elems
    <2> QED
      BY <1>1, <2>1
  <1> QED
    BY <1>3, <1>8, <1>10, <1>11 DEF IInv

(* What Left computes, and that it only shrinks along the list.            *)
LEMMA LeftUnfolds ==
    ASSUME wait_list \in Seq(Threads), need_count \in [Threads -> Counts], NEW n \in 0 .. MaxTokens
    PROVE  /\ Left(n) \in [0 .. Len(wait_list) -> 0 .. MaxTokens]
           /\ Left(n)[0] = n
           /\ \A i \in 1 .. Len(wait_list) :
                 Left(n)[i] = IF need_count[wait_list[i]] > Left(n)[i - 1] THEN Left(n)[i - 1]
                              ELSE Left(n)[i - 1] - need_count[wait_list[i]]
  <1> DEFINE k == Len(wait_list)
             V == 0 .. MaxTokens
             need(i) == need_count[wait_list[i]]
             take == [i \in 1 .. k |-> [q \in V |-> IF need(i) > q THEN q ELSE q - need(i)]]
             left == CHOOSE f : f = [i \in 0 .. k |-> IF i = 0 THEN n
                         ELSE IF need(i) > f[i - 1] THEN f[i - 1] ELSE f[i - 1] - need(i)]
  <1>0. k \in Nat /\ MaxTokens \in Nat /\ \A i \in 1 .. k : need(i) \in 1 .. MaxTokens
    BY OrbisSemaAssumption DEF Counts
  <1>1. Left(n) = left
    BY DEF Left
  <1>2. take \in Steps(k, V)
    <2>1. \A i \in 1 .. k : \A q \in V : (IF need(i) > q THEN q ELSE q - need(i)) \in V
      BY <1>0
    <2> HIDE DEF k, V, need
    <2> QED
      BY <2>1 DEF Steps
  <1> HIDE DEF need
  <1>3. \A i \in 1 .. k, q \in V : take[i][q] = IF need(i) > q THEN q ELSE q - need(i)
    OBVIOUS
  <1> HIDE DEF take, k, V
  <1>4. PICK f : f \in Unfolding(k, V, n, take)
    BY <1>0, <1>2, Recursion, Zenon DEF V
  <1>5. /\ f \in [0 .. k -> V] /\ f[0] = n
        /\ \A i \in 1 .. k : f[i] = take[i][f[i - 1]]
    BY <1>4 DEF Unfolding
  <1>6. \A i \in 1 .. k : f[i] = IF need(i) > f[i - 1] THEN f[i - 1] ELSE f[i - 1] - need(i)
    <2> SUFFICES ASSUME NEW i \in 1 .. k
                 PROVE  f[i] = IF need(i) > f[i - 1] THEN f[i - 1] ELSE f[i - 1] - need(i)
      OBVIOUS
    <2>1. i - 1 \in 0 .. k
      BY <1>0
    <2>2. f[i - 1] \in V
      BY <1>5, <2>1
    <2> QED
      BY <1>3, <1>5, <2>2, Zenon
  <1>7. f = [i \in 0 .. k |-> IF i = 0 THEN n
                 ELSE IF need(i) > f[i - 1] THEN f[i - 1] ELSE f[i - 1] - need(i)]
    <2>1. \A i \in 0 .. k : i = 0 \/ i \in 1 .. k
      BY <1>0
    <2> QED
      BY <1>5, <1>6, <2>1, Zenon
  <1>8. left = [i \in 0 .. k |-> IF i = 0 THEN n
                    ELSE IF need(i) > left[i - 1] THEN left[i - 1] ELSE left[i - 1] - need(i)]
    BY <1>7, Zenon
  <1> HIDE DEF left
  <1>9. /\ left[0] = n
        /\ \A i \in 1 .. k :
              left[i] = IF need(i) > left[i - 1] THEN left[i - 1] ELSE left[i - 1] - need(i)
    <2>1. 0 \in 0 .. k /\ \A i \in 1 .. k : i \in 0 .. k /\ i # 0
      BY <1>0
    <2> QED
      BY <1>8, <2>1, Zenon
  <1> DEFINE T == {i \in 0 .. k : left[i] \in V}
  <1>10. 0 .. k \subseteq T
    <2>1. 0 \in T
      BY <1>0, <1>9 DEF V
    <2>2. ASSUME NEW i \in 0 .. k - 1, i \in T PROVE i + 1 \in T
      <3>1. i + 1 \in 1 .. k /\ (i + 1) - 1 = i
        BY <1>0
      <3>2. left[i + 1] = IF need(i + 1) > left[i] THEN left[i] ELSE left[i] - need(i + 1)
        BY <1>9, <3>1
      <3> QED
        BY <1>0, <2>2, <3>1, <3>2 DEF V
    <2> HIDE DEF T
    <2> QED
      BY <1>0, <2>1, <2>2, InductionUpTo, Zenon
  <1>11. left \in [0 .. k -> V]
    BY <1>8, <1>10
  <1> QED
    BY <1>1, <1>9, <1>11 DEF k, V, need

(* Along the list the count only falls. *)
LEMMA LeftShrinks ==
    ASSUME wait_list \in Seq(Threads), need_count \in [Threads -> Counts],
           NEW n \in 0 .. MaxTokens, NEW i \in 0 .. Len(wait_list)
    PROVE  Left(n)[Len(wait_list)] <= Left(n)[i]
  <1> DEFINE k == Len(wait_list)
             left == Left(n)
             need(j) == need_count[wait_list[j]]
             T == {d \in 0 .. k : d >= i => left[d] <= left[i]}
  <1>0. k \in Nat /\ MaxTokens \in Nat /\ \A j \in 1 .. k : need(j) \in 1 .. MaxTokens
    BY OrbisSemaAssumption DEF Counts
  <1>1. /\ left \in [0 .. k -> 0 .. MaxTokens]
        /\ \A j \in 1 .. k :
              left[j] = IF need(j) > left[j - 1] THEN left[j - 1] ELSE left[j - 1] - need(j)
    BY LeftUnfolds
  <1> HIDE DEF left, k, need
  <1>2. i \in 0 .. k /\ \A j \in 0 .. k : left[j] \in Nat
    BY <1>0, <1>1 DEF k
  <1>3. 0 \in T
    BY <1>0, <1>2
  <1>4. ASSUME NEW d \in 0 .. k - 1, d \in T PROVE d + 1 \in T
    <2>1. d + 1 \in 1 .. k /\ (d + 1) - 1 = d /\ d \in 0 .. k
      BY <1>0
    <2>2. left[d + 1] <= left[d]
      <3>1. left[d + 1] = IF need(d + 1) > left[d] THEN left[d] ELSE left[d] - need(d + 1)
        BY <1>1, <2>1
      <3>2. left[d] \in Nat /\ need(d + 1) \in Nat
        BY <1>0, <1>2, <2>1
      <3> QED
        BY <3>1, <3>2
    <2>3. CASE d + 1 = i
      BY <1>2, <2>1, <2>3
    <2>4. CASE d + 1 # i /\ d + 1 >= i
      <3>1. left[d] <= left[i]
        BY <1>2, <1>4, <2>1, <2>4
      <3> QED
        BY <1>2, <2>1, <2>2, <3>1
    <2> QED
      BY <1>2, <2>1, <2>3, <2>4
  <1>5. 0 .. k \subseteq T
    <2> HIDE DEF T
    <2> QED
      BY <1>0, <1>3, <1>4, InductionUpTo, Zenon
  <1>6. k \in T
    BY <1>0, <1>5
  <1> QED
    BY <1>0, <1>2, <1>6 DEF left, k

(* The served records get what they need; each one passed over needs more  *)
(* than was left at its turn, and so more than what is left at the end.    *)
LEMMA SignalOK ==
    ASSUME IInv, NEW t \in Threads, NEW n \in Counts, Signal(t, n) PROVE IInv'
  <1> DEFINE k == Len(wait_list)
             left == Left(token_count + n)
             need(i) == need_count[wait_list[i]]
             served == {wait_list[i] : i \in {i \in 1 .. Len(wait_list) : left[i] < left[i - 1]}}
  <1>0. /\ wait_list \in Seq(Threads) /\ need_count \in [Threads -> Counts]
        /\ token_count + n \in 0 .. MaxTokens /\ k \in Nat
    BY OrbisSemaAssumption DEF IInv, TypeOK, Counts, Signal
  <1>1. /\ left \in [0 .. k -> 0 .. MaxTokens]
        /\ \A i \in 1 .. k :
              left[i] = IF need(i) > left[i - 1] THEN left[i - 1] ELSE left[i - 1] - need(i)
    BY <1>0, LeftUnfolds
  <1>2. \A i \in 0 .. k : left[k] <= left[i]
    BY <1>0, LeftShrinks
  <1>3. /\ Answer(served, "ok") /\ token_count' = left[k]
        /\ deducted' = [u \in Threads |-> IF u \in served THEN need_count[u] ELSE deducted[u]]
        /\ UNCHANGED <<allocated, pc, need_count, timed, result>>
    BY DEF Signal
  <1>4. \A i \in 1 .. k : need(i) \in Nat /\ need(i) > 0
    BY <1>0, OrbisSemaAssumption DEF Counts
  <1>5. served \in SUBSET Elems(wait_list)
    BY DEF Elems
  <1>s. \A i \in 1 .. k : left[i] < left[i - 1] => wait_list[i] \in served
    OBVIOUS
  <1>m. MaxTokens \in Nat
    BY OrbisSemaAssumption
  <1> HIDE DEF left, need, served
  <1>6. token_count' \in 0 .. MaxTokens
    BY <1>0, <1>1, <1>3
  <1>7. ASSUME NEW u \in Elems(wait_list) \ served PROVE need_count[u] > token_count'
    <2>1. PICK i \in 1 .. k : wait_list[i] = u
      BY DEF Elems
    <2>2. ~ (left[i] < left[i - 1])
      BY <1>7, <1>s, <2>1
    <2>3. left[i - 1] \in Nat /\ left[i] \in Nat /\ left[k] \in Nat /\ left[k] <= left[i - 1]
          /\ need(i) \in Nat /\ need(i) > 0
      <3>1. i - 1 \in 0 .. k /\ i \in 0 .. k /\ k \in 0 .. k
        BY <1>0
      <3> QED
        BY <1>1, <1>2, <1>4, <1>m, <3>1
    <2>4. need(i) > left[i - 1]
      <3>1. left[i] = IF need(i) > left[i - 1] THEN left[i - 1] ELSE left[i - 1] - need(i)
        BY <1>1
      <3> QED
        BY <2>2, <2>3, <3>1
    <2>5. need(i) > left[k]
      BY <2>3, <2>4
    <2> QED
      BY <1>3, <2>1, <2>5 DEF need
  <1>8. /\ pc' \in [Threads -> {"run", "sleep", "relock", "erase", "stuck"}]
        /\ \A u \in Threads : pc'[u] = pc[u]
    BY <1>3 DEF IInv, TypeOK
  <1>9. deducted' = [u \in Threads |-> IF u \in served /\ "ok" = "ok" THEN need_count[u]
                                       ELSE deducted[u]]
    BY <1>3
  <1> QED
    BY <1>3, <1>5, <1>6, <1>7, <1>8, <1>9, AnswerOK

(* Everybody is answered.                                                  *)
LEMMA CancelOK ==
    ASSUME IInv, NEW t \in Threads, NEW n \in -1 .. MaxTokens, Cancel(t, n) PROVE IInv'
  <1> DEFINE served == Elems(wait_list)
  <1>1. token_count' \in 0 .. MaxTokens
    BY OrbisSemaAssumption DEF Cancel
  <1>2. deducted' = [u \in Threads |-> IF u \in served /\ "canceled" = "ok" THEN need_count[u]
                                       ELSE deducted[u]]
    BY DEF Cancel, IInv, TypeOK
  <1>3. /\ pc' \in [Threads -> {"run", "sleep", "relock", "erase", "stuck"}]
        /\ \A u \in Threads : pc'[u] = pc[u]
    BY DEF Cancel, IInv, TypeOK
  <1>4. /\ Answer(served, "canceled") /\ UNCHANGED <<allocated, need_count, timed, result>>
        /\ served \in SUBSET served /\ Elems(wait_list) \ served = {}
    BY DEF Cancel
  <1> HIDE DEF served
  <1> QED
    BY <1>1, <1>2, <1>3, <1>4, AnswerOK DEF served

(* Delete answers every listed waiter. *)
LEMMA DeleteOK == ASSUME IInv, NEW t \in Threads, Delete(t) PROVE IInv'
  <1> DEFINE served == Elems(wait_list)
  <1>1. token_count' \in 0 .. MaxTokens
    BY DEF Delete, IInv, TypeOK
  <1>2. deducted' = [u \in Threads |-> IF u \in served /\ "deleted" = "ok" THEN need_count[u]
                                       ELSE deducted[u]]
    BY DEF Delete, IInv, TypeOK
  <1>3. /\ pc' \in [Threads -> {"run", "sleep", "relock", "erase", "stuck"}]
        /\ \A u \in Threads : pc'[u] = pc[u] \/ {pc[u], pc'[u]} \subseteq {"run", "erase"}
    BY DEF Delete, Goto, IInv, TypeOK
  <1>4. /\ Answer(served, "deleted") /\ UNCHANGED <<allocated, need_count, timed, result>>
        /\ served \in SUBSET served /\ Elems(wait_list) \ served = {}
    BY DEF Delete
  <1> HIDE DEF served
  <1> QED
    BY <1>1, <1>2, <1>3, <1>4, AnswerOK DEF served

(* Every step preserves the invariant: one case per action. *)
LEMMA StepOK == IInv /\ [Next]_vars => IInv'
  <1> SUFFICES ASSUME IInv, [Next]_vars PROVE IInv'
    OBVIOUS
  <1>1. CASE UNCHANGED vars
    BY <1>1 DEF vars, waiterVars, IInv, TypeOK, ListedIsWaiting, ListInOrder, RecordAgrees,
               NobodyOverlooked, Elems, Precedes
  <1>2. ASSUME NEW t \in Threads, Step(t) PROVE IInv'
    BY <1>2, AcquireOK, ExpireOK, FinishOK, EraseOK DEF Step
  <1>3. ASSUME NEW t \in Threads, NEW n \in Counts,
               WaitServed(t, n) \/ WaitBlocks(t, n) \/ Signal(t, n)
        PROVE  IInv'
    BY <1>3, WaitServedOK, WaitBlocksOK, SignalOK
  <1>4. ASSUME NEW t \in Threads, NEW n \in -1 .. MaxTokens, Cancel(t, n) PROVE IInv'
    BY <1>4, CancelOK
  <1>5. ASSUME NEW t \in Threads, Delete(t) PROVE IInv'
    BY <1>5, DeleteOK
  <1> QED
    BY <1>1, <1>2, <1>3, <1>4, <1>5 DEF Next
-----------------------------------------------------------------------------
(* The inductive invariant of OrbisSem holds in every state                *)
(* (semaphore.cpp, OrbisSem).                                              *)
THEOREM OrbisSemaInvariant == Spec => []IInv
  BY InitOK, StepOK, PTL DEF Spec

(* The count stays within 0 .. max_count, a record has at most one permit, *)
(* and the list holds exactly the records nobody answered.                 *)
THEOREM OrbisSemaTypes == Spec => []TypeOK
  <1>1. IInv => TypeOK
    BY DEF IInv
  <1> QED
    BY <1>1, OrbisSemaInvariant, PTL

(* Signal overlooks nobody: a listed record needs more tokens than the     *)
(* semaphore has (the loop of OrbisSem::Signal).                           *)
THEOREM OrbisSemaNobodyOverlooked == Spec => []NobodyOverlooked
  <1>1. IInv => NobodyOverlooked
    BY DEF IInv
  <1> QED
    BY <1>1, OrbisSemaInvariant, PTL

(* A Wait that leaves lk.lock() behind returns ORBIS_OK exactly when its   *)
(* tokens were taken, whatever raced with its deadline.                    *)
THEOREM OrbisSemaTokens == Spec => TokensMatchResult
  <1> DEFINE A == \A t \in Threads : pc[t] = "relock" /\ pc'[t] = "run" =>
                      deducted[t] = IF result'[t] = "ok" THEN need_count[t] ELSE 0
  <1>1. IInv /\ [Next]_vars => [A]_vars
    <2> SUFFICES ASSUME IInv, Next, NEW u \in Threads, pc[u] = "relock", pc'[u] = "run"
                 PROVE  deducted[u] = IF result'[u] = "ok" THEN need_count[u] ELSE 0
      OBVIOUS
    <2>0. pc \in [Threads -> {"run", "sleep", "relock", "erase", "stuck"}]
      BY DEF IInv, TypeOK
    <2>1. PICK t \in Threads : \/ Step(t) \/ Delete(t)
                               \/ \E n \in Counts : WaitServed(t, n) \/ WaitBlocks(t, n) \/ Signal(t, n)
                               \/ \E n \in -1 .. MaxTokens : Cancel(t, n)
      BY DEF Next
    <2>2. CASE ~Step(t)
      <3>1. pc' = pc \/ pc' = [pc EXCEPT ![t] = "sleep"] \/ pc' = [pc EXCEPT ![t] = "erase"]
        BY <2>1, <2>2 DEF Delete, WaitServed, WaitBlocks, Signal, Cancel, Goto
      <3> QED
        BY <2>0, <3>1
    <2>3. CASE Acquire(t) \/ Expire(t) \/ Erase(t)
      BY <2>0, <2>3 DEF Acquire, Expire, Erase, Goto
    <2>4. CASE Finish(t)
      <3>1. u = t /\ result' = [result EXCEPT ![t] = GetResult(t)]
        BY <2>0, <2>4 DEF Finish, Return, Goto
      <3>2. result'[u] = GetResult(u)
        BY <3>1 DEF IInv, TypeOK
      <3>3. GetResult(u) = "ok" <=> why[u] = "ok"
        BY OrbisSemaAssumption DEF GetResult
      <3> QED
        BY <3>2, <3>3 DEF IInv, RecordAgrees
    <2> QED
      BY <2>2, <2>3, <2>4 DEF Step
  <1> QED
    BY <1>1, OrbisSemaInvariant, PTL DEF Spec, TokensMatchResult

(* The list is served in order: a newcomer lines up behind every record    *)
(* that does not have a greater priority number (AddWaiter).               *)
THEOREM OrbisSemaNoOvertaking == Spec => NoOvertaking
  <1> DEFINE A == \A t \in Elems(wait_list), u \in Threads \ Elems(wait_list) :
                      t \in Elems(wait_list') /\ u \in Elems(wait_list') /\ Precedes(t, u)
                          => IndexOf(wait_list', t) < IndexOf(wait_list', u)
  <1>1. IInv /\ [Next]_vars => [A]_vars
    <2> SUFFICES ASSUME IInv, Next,
                        NEW t \in Elems(wait_list), NEW u \in Threads \ Elems(wait_list),
                        u \in Elems(wait_list'), Precedes(t, u)
                 PROVE  IndexOf(wait_list', t) < IndexOf(wait_list', u)
      OBVIOUS
    <2>0. wait_list \in Seq(Threads) /\ Distinct(wait_list) /\ SortedBy(wait_list, Rank)
      BY OrderIsSorted DEF IInv, TypeOK, ListedIsWaiting, Distinct
    <2>1. PICK v \in Threads : \/ Step(v) \/ Delete(v)
                               \/ \E n \in Counts : WaitServed(v, n) \/ WaitBlocks(v, n) \/ Signal(v, n)
                               \/ \E n \in -1 .. MaxTokens : Cancel(v, n)
      BY DEF Next
    <2>2. CASE \A n \in Counts : ~WaitBlocks(v, n)
      <3>1. CASE Finish(v)
        <4>1. CASE wait_list' = wait_list
          BY <4>1
        <4>2. CASE wait_list' # wait_list
          <5>1. wait_list' = Without(wait_list, IndexOf(wait_list, v)) /\ why[v] = None
                /\ pc[v] = "relock"
            BY <3>1, <4>2 DEF Finish, GetResult, IInv, TypeOK
          <5>2. v \in Elems(wait_list)
            BY <5>1 DEF IInv, TypeOK, ListedIsWaiting
          <5>3. IndexOf(wait_list, v) \in 1 .. Len(wait_list)
            BY <5>2, IndexOfPosition DEF Elems
          <5>4. Elems(wait_list') \subseteq Elems(wait_list)
            BY <2>0, <5>1, <5>3, WithoutElems
          <5> QED
            BY <5>4
        <4> QED
          BY <4>1, <4>2
      <3>2. CASE ~Finish(v)
        <4>1. wait_list' = wait_list \/ \E S : wait_list' = WithoutAll(wait_list, S)
          BY <2>1, <2>2, <3>2 DEF Step, Acquire, Expire, Erase, Delete, WaitServed, Signal,
                                  Cancel, Answer
        <4>2. Elems(wait_list') \subseteq Elems(wait_list)
          BY <2>0, <4>1, WithoutAllElems
        <4> QED
          BY <4>2
      <3> QED
        BY <3>1, <3>2
    <2>3. ASSUME NEW n \in Counts, WaitBlocks(v, n)
          PROVE  IndexOf(wait_list', t) < IndexOf(wait_list', u)
      <3> DEFINE S == {w \in Threads : ~IsFifo /\ Prio[w] > Prio[v]}
      <3>1. wait_list' = InsertBefore(wait_list, v, S) /\ S = {w \in Threads : Rank[w] > Rank[v]}
        BY <2>3, RankOK DEF WaitBlocks, AddWaiter
      <3> HIDE DEF S
      <3>2. u = v
        BY <2>0, <3>1, InsertBeforeElems
      <3>3. t \in Threads
        BY <2>0 DEF Elems
      <3>4. Rank[t] <= Rank[v] /\ Rank \in [Threads -> Int]
        BY <3>2, <3>3, RankOK
      <3> QED
        BY <2>0, <3>1, <3>2, <3>4, InsertBeforeBehind
    <2> QED
      BY <2>2, <2>3
  <1> QED
    BY <1>1, OrbisSemaInvariant, PTL DEF Spec, NoOvertaking
=============================================================================
