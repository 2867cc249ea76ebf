--------------------------- MODULE BlockingProofs ---------------------------
(***************************************************************************)
(* Proofs about what blocks guest threads: SleepQueue, for any sets of     *)
(* threads and of wait channels; Rwlock, for any finite set of threads,    *)
(* any set of object addresses and any nesting of read locks; PosixSem,    *)
(* for any set of threads, any SEM_VALUE_MAX and any deadlines.  They      *)
(* share Guest and GuestThreads; no theorem is about two of them.          *)
(*                                                                         *)
(* Exclusion is not inductive: it needs that writer_active tells the truth *)
(* about the thread that is still to set owner or to clear the flag, that  *)
(* readers counts the read locks being given back too, and that every      *)
(* thread inside a call looks at the object the handle names.              *)
(*                                                                         *)
(* NoStrandedToken is not inductive: a token may be posted after a waiter  *)
(* looked at the value for the last time and before it sleeps.  What makes *)
(* it hold is that the waiter has wait_mutex then (MutexAgrees), so that   *)
(* the post is still to come (CheckCovered), and that only a post takes a  *)
(* sleeper off the list (UnlistedHasPermit).                               *)
(***************************************************************************)
EXTENDS SleepQueue, Rwlock, PosixSem, SeqOpsProofs, FiniteSetTheorems, TLAPS
-----------------------------------------------------------------------------
(* Sleep queues.                                                           *)


(* SleepqLookup returns the linked object of the channel, if there is one. *)
LEMMA LookupLinked ==
    ASSUME SleepqTypeOK, NEW c \in Wchans
    PROVE  /\ SleepqLookup(c) # NULL => /\ SleepqLookup(c) \in linked
                                        /\ SleepqLookup(c) \in SQs
                                        /\ sq_wchan[SleepqLookup(c)] = c
           /\ SleepqLookup(c) = NULL => \A q \in linked : sq_wchan[q] # c
  BY NullAssumption DEF SleepqTypeOK, SleepqLookup, SQs

(* Every thread starts with an object of its own and nobody blocks. *)
LEMMA InitIInv == SleepqInit => SleepqIInv
  BY NullAssumption DEF SleepqInit, SleepqIInv, SleepqTypeOK, FreeListMatches, OneQueuePerChannel,
     WchanIsQueue, BlockedOnce, BlockedHasWchan, WchanHasQueue, NoSharedObject,
     ObjectUnlessBlocked, ObjectOfOneThread, LinkedIsLent, FreeIsLent, FreeOnce, SQs

(* Lending an object or adding one to the free list keeps the invariant.   *)
LEMMA AddIInv ==
    ASSUME SleepqIInv, NEW c \in Wchans, NEW t \in Threads, SleepqAdd(c, t)
    PROVE  SleepqIInv'
  <1> DEFINE sq == SleepqLookup(c)
             q  == IF sq # NULL THEN sq ELSE sleepqueue[t]
  <1>1. /\ SleepqTypeOK /\ FreeListMatches /\ OneQueuePerChannel
        /\ BlockedOnce /\ BlockedHasWchan /\ WchanHasQueue
        /\ ObjectUnlessBlocked /\ ObjectOfOneThread /\ LinkedIsLent /\ FreeIsLent /\ FreeOnce
    BY DEF SleepqIInv, WchanIsQueue, NoSharedObject
  <1>2. wchan[t] = NULL /\ sleepqueue[t] \in SQs /\ sleepqueue[t] \notin linked
    BY <1>1, NullAssumption DEF SleepqAdd, ObjectUnlessBlocked, LinkedIsLent, SleepqTypeOK
  <1>3. q \in SQs
    BY <1>1, <1>2, LookupLinked
  <1>4. /\ sq_blocked' = [sq_blocked EXCEPT ![q] = Append(@, t)]
        /\ wchan' = [wchan EXCEPT ![t] = c]
        /\ sleepqueue' = [sleepqueue EXCEPT ![t] = NULL]
    BY DEF SleepqAdd
  <1>5. sq_blocked[q] \in Seq(Threads)
    BY <1>1, <1>3 DEF SleepqTypeOK
  <1>6. \A r \in SQs : \A i \in 1 .. Len(sq_blocked[r]) : sq_blocked[r][i] # t
    BY <1>1, <1>2, NullAssumption DEF SleepqTypeOK, FreeListMatches, BlockedHasWchan
  <1> DEFINE n == Len(sq_blocked[q])
  <1>7. /\ Len(sq_blocked'[q]) = n + 1
        /\ sq_blocked'[q][n + 1] = t
        /\ \A i \in 1 .. n : sq_blocked'[q][i] = sq_blocked[q][i]
        /\ \A r \in SQs : r # q => sq_blocked'[r] = sq_blocked[r]
        /\ n \in Nat
    BY <1>1, <1>3, <1>4, <1>5 DEF SleepqTypeOK
  <1>8. /\ sq # NULL => q = sq /\ sq \in linked /\ sq \in SQs /\ sq_wchan[sq] = c
        /\ sq = NULL => q = sleepqueue[t] /\ \A r \in linked : sq_wchan[r] # c
    BY <1>1, LookupLinked
  <1>12. IF sq # NULL
         THEN /\ sq_freeq' = [sq_freeq EXCEPT ![sq] = <<sleepqueue[t]>> \o @]
              /\ linked' = linked /\ sq_wchan' = sq_wchan
         ELSE /\ linked' = linked \cup {q}
              /\ sq_wchan' = [sq_wchan EXCEPT ![q] = c]
              /\ sq_freeq' = sq_freeq
    BY DEF SleepqAdd
  <1> HIDE DEF sq, q, n
  <1>13. BlockedOnce'
    <2> SUFFICES ASSUME NEW r \in SQs,
                        NEW i \in 1 .. Len(sq_blocked'[r]), NEW j \in 1 .. Len(sq_blocked'[r]),
                        sq_blocked'[r][i] = sq_blocked'[r][j]
                 PROVE  i = j
      BY DEF BlockedOnce
    <2>1. CASE r # q
      BY <2>1, <1>1, <1>7 DEF BlockedOnce
    <2>2. CASE r = q
      <3>1. (i \in 1 .. n \/ i = n + 1) /\ (j \in 1 .. n \/ j = n + 1)
        BY <2>2, <1>7
      <3>2. \A l \in 1 .. n : sq_blocked'[q][l] # t
        BY <1>3, <1>6, <1>7 DEF n
      <3>3. CASE i \in 1 .. n /\ j \in 1 .. n
        BY <2>2, <3>3, <1>1, <1>3, <1>7 DEF BlockedOnce, n
      <3> QED
        BY <2>2, <3>1, <3>2, <3>3, <1>7
    <2> QED
      BY <2>1, <2>2
  <1>9. ObjectUnlessBlocked' /\ ObjectOfOneThread'
    BY <1>1, <1>4, NullAssumption DEF ObjectUnlessBlocked, ObjectOfOneThread, SleepqTypeOK
  <1>10. CASE sq # NULL
    <2>1. /\ sq_freeq' = [sq_freeq EXCEPT ![sq] = <<sleepqueue[t]>> \o @]
          /\ linked' = linked /\ sq_wchan' = sq_wchan
      BY <1>10, <1>12
    <2>2. sq \in linked /\ sq \in SQs /\ sq_wchan[sq] = c /\ q = sq
      BY <1>10, <1>8
    <2>3. sq_freeq[sq] \in Seq(SQs)
      BY <2>2, <1>1 DEF SleepqTypeOK
    <2> DEFINE k == Len(sq_freeq[sq])
    <2>4. /\ k \in Nat /\ Len(sq_freeq'[sq]) = k + 1
          /\ sq_freeq'[sq][1] = sleepqueue[t]
          /\ \A i \in 2 .. k + 1 : sq_freeq'[sq][i] = sq_freeq[sq][i - 1]
          /\ \A r \in SQs : r # sq => sq_freeq'[r] = sq_freeq[r]
      BY <1>1, <1>2, <2>1, <2>2, <2>3 DEF SleepqTypeOK
    <2>5. SleepqTypeOK'
      BY <1>1, <1>2, <1>3, <1>4, <1>5, <2>1, <2>2, <2>3 DEF SleepqTypeOK, SQs
    <2>6. FreeListMatches'
      <3> SUFFICES ASSUME NEW r \in SQs
                   PROVE  IF r \in linked'
                          THEN /\ sq_wchan'[r] \in Wchans
                               /\ Len(sq_blocked'[r]) > 0
                               /\ Len(sq_freeq'[r]) = Len(sq_blocked'[r]) - 1
                          ELSE sq_blocked'[r] = << >> /\ sq_freeq'[r] = << >>
        BY DEF FreeListMatches
      <3>1. CASE r # sq
        BY <3>1, <1>1, <1>7, <2>1, <2>2, <2>4 DEF FreeListMatches
      <3>2. CASE r = sq
        BY <3>2, <1>1, <1>7, <2>1, <2>2, <2>4 DEF FreeListMatches, n
      <3> QED
        BY <3>1, <3>2
    <2>7. OneQueuePerChannel'
      BY <1>1, <2>1 DEF OneQueuePerChannel
    <2>8. BlockedHasWchan'
      BY <1>1, <1>4, <1>6, <1>7, <2>1, <2>2 DEF BlockedHasWchan, SleepqTypeOK
    <2>9. WchanHasQueue'
      <3> SUFFICES ASSUME NEW u \in Threads, wchan'[u] # NULL
                   PROVE  \E r \in linked' :
                              /\ sq_wchan'[r] = wchan'[u]
                              /\ \E i \in 1 .. Len(sq_blocked'[r]) : sq_blocked'[r][i] = u
        BY DEF WchanHasQueue
      <3>1. CASE u = t
        BY <3>1, <1>1, <1>4, <1>7, <2>1, <2>2 DEF SleepqTypeOK
      <3>2. CASE u # t
        <4>1. wchan'[u] = wchan[u]
          BY <3>2, <1>1, <1>4 DEF SleepqTypeOK
        <4>2. PICK r \in linked : /\ sq_wchan[r] = wchan[u]
                                  /\ \E i \in 1 .. Len(sq_blocked[r]) : sq_blocked[r][i] = u
          BY <4>1, <1>1 DEF WchanHasQueue
        <4>3. r \in SQs
          BY <1>1 DEF SleepqTypeOK
        <4>4. CASE r = q
          BY <4>1, <4>2, <4>4, <1>7, <2>1 DEF n
        <4>5. CASE r # q
          BY <4>1, <4>2, <4>3, <4>5, <1>7, <2>1
        <4> QED
          BY <4>4, <4>5
      <3> QED
        BY <3>1, <3>2
    <2>10. LinkedIsLent'
      BY <1>1, <1>4, <2>1, NullAssumption DEF LinkedIsLent, SleepqTypeOK, SQs
    <2>11. FreeIsLent'
      <3> SUFFICES ASSUME NEW r \in SQs, NEW i \in 1 .. Len(sq_freeq'[r])
                   PROVE  /\ sq_freeq'[r][i] \notin linked'
                          /\ \A u \in Threads : sleepqueue'[u] # sq_freeq'[r][i]
        BY DEF FreeIsLent
      <3>1. CASE r = sq /\ i = 1
        BY <3>1, <1>1, <1>2, <1>4, <2>1, <2>4, NullAssumption
           DEF SleepqTypeOK, SQs, ObjectOfOneThread
      <3>2. CASE r # sq
        BY SMTT(60), <3>2, <1>1, <1>4, <2>1, <2>4, NullAssumption DEF SleepqTypeOK, SQs, FreeIsLent
      <3>3. CASE r = sq /\ i # 1
        <4>1. i - 1 \in 1 .. k /\ i \in 2 .. k + 1
          BY <3>3, <2>4
        <4>2. sq_freeq'[r][i] = sq_freeq[sq][i - 1] /\ sq_freeq[sq][i - 1] \in SQs
          BY <3>3, <4>1, <2>3, <2>4
        <4>3. /\ sq_freeq[sq][i - 1] \notin linked
              /\ \A u \in Threads : sleepqueue[u] # sq_freeq[sq][i - 1]
          BY <4>1, <1>1, <2>2 DEF FreeIsLent
        <4> QED
          BY SMTT(60), <4>2, <4>3, <1>1, <1>4, <2>1, NullAssumption DEF SleepqTypeOK, SQs
      <3> QED
        BY <3>1, <3>2, <3>3
    <2>12. FreeOnce'
      <3> SUFFICES ASSUME NEW r1 \in SQs, NEW r2 \in SQs,
                          NEW i \in 1 .. Len(sq_freeq'[r1]), NEW j \in 1 .. Len(sq_freeq'[r2]),
                          sq_freeq'[r1][i] = sq_freeq'[r2][j]
                   PROVE  r1 = r2 /\ i = j
        BY DEF FreeOnce
      <3>1. \A r \in SQs : \A l \in 1 .. Len(sq_freeq[r]) : sq_freeq[r][l] # sleepqueue[t]
        BY <1>1 DEF FreeIsLent
      <3>2. CASE r1 # sq /\ r2 # sq
        BY SMTT(60), <3>2, <1>1, <2>4 DEF FreeOnce
      <3>3. CASE r1 = sq /\ r2 # sq
        <4>1. i # 1 => i - 1 \in 1 .. k /\ sq_freeq'[sq][i] = sq_freeq[sq][i - 1]
          BY <3>3, <2>4
        <4> QED
          BY <4>1, <3>1, <3>3, <1>1, <2>2, <2>4 DEF FreeOnce
      <3>4. CASE r1 # sq /\ r2 = sq
        <4>1. j # 1 => j - 1 \in 1 .. k /\ sq_freeq'[sq][j] = sq_freeq[sq][j - 1]
          BY <3>4, <2>4
        <4> QED
          BY <4>1, <3>1, <3>4, <1>1, <2>2, <2>4 DEF FreeOnce
      <3>5. CASE r1 = sq /\ r2 = sq
        <4>1. i # 1 => i - 1 \in 1 .. k /\ sq_freeq'[sq][i] = sq_freeq[sq][i - 1]
          BY <3>5, <2>4
        <4>2. j # 1 => j - 1 \in 1 .. k /\ sq_freeq'[sq][j] = sq_freeq[sq][j - 1]
          BY <3>5, <2>4
        <4> QED
          BY SMTT(60), <4>1, <4>2, <3>1, <3>5, <1>1, <2>2, <2>4 DEF FreeOnce
      <3> QED
        BY <3>2, <3>3, <3>4, <3>5
    <2> QED
      BY <1>13, <1>9, <2>5, <2>6, <2>7, <2>8, <2>9, <2>10, <2>11, <2>12
         DEF SleepqIInv, WchanIsQueue, NoSharedObject
  <1>11. CASE sq = NULL
    <2>1. /\ linked' = linked \cup {q}
          /\ sq_wchan' = [sq_wchan EXCEPT ![q] = c]
          /\ sq_freeq' = sq_freeq
      BY <1>11, <1>12
    <2>2. q = sleepqueue[t] /\ \A r \in linked : sq_wchan[r] # c
      BY <1>11, <1>8
    <2>3. sq_blocked[q] = << >> /\ sq_freeq[q] = << >>
      BY <1>1, <1>2, <1>3, <2>2 DEF FreeListMatches
    <2>4. SleepqTypeOK'
      BY <1>1, <1>2, <1>3, <1>4, <1>5, <2>1 DEF SleepqTypeOK, SQs
    <2>5. FreeListMatches'
      <3> SUFFICES ASSUME NEW r \in SQs
                   PROVE  IF r \in linked'
                          THEN /\ sq_wchan'[r] \in Wchans
                               /\ Len(sq_blocked'[r]) > 0
                               /\ Len(sq_freeq'[r]) = Len(sq_blocked'[r]) - 1
                          ELSE sq_blocked'[r] = << >> /\ sq_freeq'[r] = << >>
        BY DEF FreeListMatches
      <3>1. CASE r # q
        BY <3>1, <1>1, <1>7, <2>1 DEF FreeListMatches, SleepqTypeOK
      <3>2. CASE r = q
        BY <3>2, <1>1, <1>3, <1>7, <2>1, <2>3 DEF SleepqTypeOK, n
      <3> QED
        BY <3>1, <3>2
    <2>6. OneQueuePerChannel'
      BY <1>1, <1>3, <2>1, <2>2 DEF OneQueuePerChannel, SleepqTypeOK
    <2>7. BlockedHasWchan'
      <3> SUFFICES ASSUME NEW r \in linked', NEW i \in 1 .. Len(sq_blocked'[r])
                   PROVE  wchan'[sq_blocked'[r][i]] = sq_wchan'[r]
        BY DEF BlockedHasWchan
      <3>1. CASE r = q
        BY <3>1, <1>1, <1>3, <1>4, <1>7, <2>1, <2>3 DEF SleepqTypeOK, n
      <3>2. CASE r # q
        <4>1. r \in linked /\ r \in SQs /\ sq_blocked'[r] = sq_blocked[r]
          BY <3>2, <1>1, <1>7, <2>1 DEF SleepqTypeOK
        <4>2. sq_blocked[r][i] \in Threads /\ sq_blocked[r][i] # t
          BY <4>1, <1>1, <1>6 DEF SleepqTypeOK
        <4> QED
          BY <4>1, <4>2, <3>2, <1>1, <1>4, <2>1 DEF BlockedHasWchan, SleepqTypeOK
      <3> QED
        BY <3>1, <3>2
    <2>8. WchanHasQueue'
      <3> SUFFICES ASSUME NEW u \in Threads, wchan'[u] # NULL
                   PROVE  \E r \in linked' :
                              /\ sq_wchan'[r] = wchan'[u]
                              /\ \E i \in 1 .. Len(sq_blocked'[r]) : sq_blocked'[r][i] = u
        BY DEF WchanHasQueue
      <3>1. CASE u = t
        BY <3>1, <1>1, <1>3, <1>4, <1>7, <2>1 DEF SleepqTypeOK
      <3>2. CASE u # t
        <4>1. wchan'[u] = wchan[u]
          BY <3>2, <1>1, <1>4 DEF SleepqTypeOK
        <4>2. PICK r \in linked : /\ sq_wchan[r] = wchan[u]
                                  /\ \E i \in 1 .. Len(sq_blocked[r]) : sq_blocked[r][i] = u
          BY <4>1, <1>1 DEF WchanHasQueue
        <4>3. r # q /\ r \in SQs
          BY <1>1, <1>2, <2>2 DEF SleepqTypeOK
        <4> QED
          BY <4>1, <4>2, <4>3, <1>1, <1>7, <2>1 DEF SleepqTypeOK
      <3> QED
        BY <3>1, <3>2
    <2>9. LinkedIsLent'
      BY <1>1, <1>2, <1>4, <2>1, <2>2, NullAssumption
         DEF LinkedIsLent, ObjectOfOneThread, SleepqTypeOK, SQs
    <2>10. FreeIsLent'
      BY SMTT(60), <1>1, <1>2, <1>4, <2>1, <2>2, NullAssumption DEF FreeIsLent, SleepqTypeOK, SQs
    <2>11. FreeOnce'
      BY <1>1, <2>1 DEF FreeOnce
    <2> QED
      BY <1>13, <1>9, <2>4, <2>5, <2>6, <2>7, <2>8, <2>9, <2>10, <2>11
         DEF SleepqIInv, WchanIsQueue, NoSharedObject
  <1> QED
    BY <1>10, <1>11

(* Taking an object back (from the free list, or the linked one when the   *)
(* queue empties) keeps the invariant.                                     *)
LEMMA RemoveIInv ==
    ASSUME SleepqIInv, NEW c \in Wchans, NEW t \in Threads, SleepqRemove(c, t)
    PROVE  SleepqIInv'
  <1> DEFINE sq == SleepqLookup(c)
             p  == IndexOf(sq_blocked[sq], t)
             rest == Without(sq_blocked[sq], p)
             n == Len(sq_blocked[sq])
  <1>1. /\ SleepqTypeOK /\ FreeListMatches /\ OneQueuePerChannel
        /\ BlockedOnce /\ BlockedHasWchan /\ WchanHasQueue
        /\ ObjectUnlessBlocked /\ ObjectOfOneThread /\ LinkedIsLent /\ FreeIsLent /\ FreeOnce
    BY DEF SleepqIInv, WchanIsQueue, NoSharedObject
  <1>2. wchan[t] = c /\ c # NULL
    BY NullAssumption DEF SleepqRemove
  <1>3. PICK r \in linked : /\ sq_wchan[r] = c
                            /\ \E i \in 1 .. Len(sq_blocked[r]) : sq_blocked[r][i] = t
    BY <1>1, <1>2 DEF WchanHasQueue
  <1>4. sq # NULL /\ sq \in linked /\ sq \in SQs /\ sq_wchan[sq] = c
    BY <1>1, <1>3, LookupLinked
  <1>5. sq = r
    BY <1>1, <1>3, <1>4 DEF OneQueuePerChannel
  <1>6. p \in 1 .. n /\ sq_blocked[sq][p] = t
    BY <1>3, <1>5, IndexOfPosition
  <1>7. sq_blocked[sq] \in Seq(Threads) /\ sq_freeq[sq] \in Seq(SQs) /\ n \in Nat
    BY <1>1, <1>4 DEF SleepqTypeOK
  <1>8. /\ rest \in Seq(Threads) /\ Len(rest) = n - 1
        /\ \A j \in 1 .. n - 1 : rest[j] = IF j < p THEN sq_blocked[sq][j]
                                                     ELSE sq_blocked[sq][j + 1]
    BY <1>6, <1>7, WithoutSeq
  <1>9. /\ sq_blocked' = [sq_blocked EXCEPT ![sq] = rest]
        /\ wchan' = [wchan EXCEPT ![t] = NULL]
        /\ sq_wchan' = sq_wchan
        /\ rest = << >> => /\ sleepqueue' = [sleepqueue EXCEPT ![t] = sq]
                           /\ linked' = linked \ {sq}
                           /\ sq_freeq' = sq_freeq
        /\ rest # << >> => /\ sleepqueue' = [sleepqueue EXCEPT ![t] = Head(sq_freeq[sq])]
                           /\ sq_freeq' = [sq_freeq EXCEPT ![sq] = Tail(@)]
                           /\ linked' = linked
    BY DEF SleepqRemove
  <1>10. Len(sq_freeq[sq]) = n - 1 /\ sleepqueue[t] = NULL
    BY <1>1, <1>2, <1>4 DEF FreeListMatches, ObjectUnlessBlocked
  <1> HIDE DEF sq, p, rest, n
  <1>11. rest = << >> <=> n = 1
    <2>1. rest = << >> <=> Len(rest) = 0
      BY <1>8, EmptyIffLen
    <2> QED
      BY <2>1, <1>6, <1>7, <1>8
  <1>12. /\ sq_blocked'[sq] = rest
         /\ \A x \in SQs : x # sq => sq_blocked'[x] = sq_blocked[x]
    BY <1>1, <1>4, <1>9 DEF SleepqTypeOK
  <1>13. BlockedOnce'
    <2> SUFFICES ASSUME NEW x \in SQs,
                        NEW i \in 1 .. Len(sq_blocked'[x]), NEW j \in 1 .. Len(sq_blocked'[x]),
                        sq_blocked'[x][i] = sq_blocked'[x][j]
                 PROVE  i = j
      BY DEF BlockedOnce
    <2>1. CASE x # sq
      BY <2>1, <1>1, <1>12 DEF BlockedOnce
    <2>2. CASE x = sq
      <3>1. i \in 1 .. n - 1 /\ j \in 1 .. n - 1
        BY <2>2, <1>8, <1>12
      <3> DEFINE up(l) == IF l < p THEN l ELSE l + 1
      <3>2. up(i) \in 1 .. n /\ up(j) \in 1 .. n
        BY <3>1, <1>6, <1>7
      <3>3. rest[i] = sq_blocked[sq][up(i)] /\ rest[j] = sq_blocked[sq][up(j)]
        BY <3>1, <1>8
      <3>4. up(i) = up(j)
        BY <2>2, <3>2, <3>3, <1>1, <1>4, <1>12 DEF BlockedOnce, n
      <3> QED
        BY <3>1, <3>4, <1>6, <1>7
    <2> QED
      BY <2>1, <2>2
  <1>14. \A j \in 1 .. n - 1 : rest[j] # t /\ rest[j] \in Threads
                              /\ \E l \in 1 .. n : rest[j] = sq_blocked[sq][l]
    <2> SUFFICES ASSUME NEW j \in 1 .. n - 1
                 PROVE  rest[j] # t /\ rest[j] \in Threads
                        /\ \E l \in 1 .. n : rest[j] = sq_blocked[sq][l]
      OBVIOUS
    <2> DEFINE up == IF j < p THEN j ELSE j + 1
    <2>1. up \in 1 .. n /\ up # p /\ rest[j] = sq_blocked[sq][up]
      BY <1>6, <1>7, <1>8
    <2> QED
      BY <2>1, <1>1, <1>4, <1>6, <1>7, <1>8 DEF BlockedOnce, n
  <1>15. \A l \in 1 .. n : l # p => \E j \in 1 .. n - 1 : rest[j] = sq_blocked[sq][l]
    <2> SUFFICES ASSUME NEW l \in 1 .. n, l # p
                 PROVE  \E j \in 1 .. n - 1 : rest[j] = sq_blocked[sq][l]
      OBVIOUS
    <2>1. CASE l < p
      BY <2>1, <1>6, <1>7, <1>8
    <2>2. CASE l > p
      <3>1. l - 1 \in 1 .. n - 1 /\ ~(l - 1 < p) /\ (l - 1) + 1 = l
        BY <2>2, <1>6, <1>7
      <3> QED
        BY <3>1, <1>8
    <2> QED
      BY <2>1, <2>2, <1>6, <1>7
  <1>16. BlockedHasWchan'
    <2> SUFFICES ASSUME NEW x \in linked', NEW i \in 1 .. Len(sq_blocked'[x])
                 PROVE  wchan'[sq_blocked'[x][i]] = sq_wchan'[x]
      BY DEF BlockedHasWchan
    <2>1. x \in linked /\ x \in SQs
      BY <1>1, <1>9 DEF SleepqTypeOK
    <2>2. CASE x = sq
      <3>1. i \in 1 .. n - 1 /\ sq_blocked'[x][i] = rest[i]
        BY <2>2, <1>8, <1>12
      <3>2. rest[i] # t /\ rest[i] \in Threads
        BY <3>1, <1>14
      <3>3. PICK l \in 1 .. n : rest[i] = sq_blocked[sq][l]
        BY <3>1, <1>14
      <3>4. wchan[sq_blocked[sq][l]] = sq_wchan[sq]
        BY <1>1, <1>4 DEF BlockedHasWchan, n
      <3> QED
        BY <2>2, <3>1, <3>2, <3>3, <3>4, <1>1, <1>9 DEF SleepqTypeOK
    <2>3. CASE x # sq
      <3>1. sq_blocked[x][i] \in Threads /\ wchan[sq_blocked[x][i]] = sq_wchan[x]
        BY <2>1, <2>3, <1>1, <1>12 DEF SleepqTypeOK, BlockedHasWchan
      <3>2. sq_wchan[x] # c
        BY <2>1, <2>3, <1>1, <1>4 DEF OneQueuePerChannel
      <3> QED
        BY <2>1, <2>3, <3>1, <3>2, <1>1, <1>2, <1>9, <1>12 DEF SleepqTypeOK
    <2> QED
      BY <2>2, <2>3
  <1>17. WchanHasQueue'
    <2> SUFFICES ASSUME NEW u \in Threads, wchan'[u] # NULL
                 PROVE  \E x \in linked' :
                            /\ sq_wchan'[x] = wchan'[u]
                            /\ \E i \in 1 .. Len(sq_blocked'[x]) : sq_blocked'[x][i] = u
      BY DEF WchanHasQueue
    <2>1. u # t /\ wchan'[u] = wchan[u]
      BY <1>1, <1>9 DEF SleepqTypeOK
    <2>2. PICK x \in linked : /\ sq_wchan[x] = wchan[u]
                              /\ \E i \in 1 .. Len(sq_blocked[x]) : sq_blocked[x][i] = u
      BY <2>1, <1>1 DEF WchanHasQueue
    <2>3. x \in SQs
      BY <1>1 DEF SleepqTypeOK
    <2>4. CASE x = sq
      <3>1. \E j \in 1 .. n - 1 : rest[j] = u
        BY <2>1, <2>2, <2>4, <1>6, <1>15 DEF n
      <3>2. rest # << >> /\ sq \in linked'
        BY <3>1, <1>4, <1>7, <1>9, <1>11
      <3> QED
        BY <2>1, <2>2, <2>4, <3>1, <3>2, <1>8, <1>9, <1>12
    <2>5. CASE x # sq
      BY <2>1, <2>2, <2>3, <2>5, <1>9, <1>12
    <2> QED
      BY <2>4, <2>5
  <1>18. OneQueuePerChannel'
    BY <1>1, <1>9 DEF OneQueuePerChannel
  <1>19. CASE rest = << >>
    <2>1. n = 1 /\ Len(sq_freeq[sq]) = 0 /\ sq_freeq[sq] = << >>
      BY <1>19, <1>7, <1>10, <1>11
    <2>2. SleepqTypeOK'
      BY <1>19, <1>1, <1>4, <1>8, <1>9 DEF SleepqTypeOK, SQs
    <2>3. FreeListMatches'
      <3> SUFFICES ASSUME NEW x \in SQs
                   PROVE  IF x \in linked'
                          THEN /\ sq_wchan'[x] \in Wchans
                               /\ Len(sq_blocked'[x]) > 0
                               /\ Len(sq_freeq'[x]) = Len(sq_blocked'[x]) - 1
                          ELSE sq_blocked'[x] = << >> /\ sq_freeq'[x] = << >>
        BY DEF FreeListMatches
      <3>1. CASE x = sq
        BY <3>1, <2>1, <1>19, <1>9, <1>12
      <3>2. CASE x # sq
        BY <3>2, <1>19, <1>1, <1>9, <1>12 DEF FreeListMatches
      <3> QED
        BY <3>1, <3>2
    <2>4. ObjectUnlessBlocked' /\ ObjectOfOneThread'
      <3>1. sleepqueue' = [sleepqueue EXCEPT ![t] = sq] /\ sq # NULL
        BY <1>19, <1>4, <1>9
      <3>2. \A u \in Threads : sleepqueue[u] # sq
        BY <1>1, <1>4 DEF LinkedIsLent
      <3>3. ObjectUnlessBlocked'
        BY <3>1, <1>1, <1>9 DEF ObjectUnlessBlocked, SleepqTypeOK
      <3>4. ObjectOfOneThread'
        BY <3>1, <3>2, <1>1 DEF ObjectOfOneThread, SleepqTypeOK
      <3> QED
        BY <3>3, <3>4
    <2>5. LinkedIsLent'
      BY <1>19, <1>1, <1>4, <1>9 DEF LinkedIsLent, SleepqTypeOK
    <2>6. FreeIsLent'
      BY <1>19, <1>1, <1>4, <1>9 DEF FreeIsLent, SleepqTypeOK
    <2>7. FreeOnce'
      BY <1>19, <1>1, <1>9 DEF FreeOnce
    <2> QED
      BY <1>13, <1>16, <1>17, <1>18, <2>2, <2>3, <2>4, <2>5, <2>6, <2>7
         DEF SleepqIInv, WchanIsQueue, NoSharedObject
  <1>20. CASE rest # << >>
    <2>1. n > 1 /\ sq_freeq[sq] # << >>
      BY <1>20, <1>6, <1>7, <1>10, <1>11
    <2> DEFINE k == Len(sq_freeq[sq])
               o == Head(sq_freeq[sq])
    <2>2. /\ k \in Nat /\ k > 0 /\ o = sq_freeq[sq][1] /\ o \in SQs
          /\ sq_freeq'[sq] \in Seq(SQs) /\ Len(sq_freeq'[sq]) = k - 1
          /\ \A i \in 1 .. k - 1 : sq_freeq'[sq][i] = sq_freeq[sq][i + 1]
          /\ \A x \in SQs : x # sq => sq_freeq'[x] = sq_freeq[x]
      <3>1. k \in Nat /\ k > 0 /\ o = sq_freeq[sq][1] /\ o \in SQs
        BY <2>1, <1>7, <1>10
      <3>2. /\ sq_freeq'[sq] = Tail(sq_freeq[sq])
            /\ \A x \in SQs : x # sq => sq_freeq'[x] = sq_freeq[x]
        BY <1>20, <1>1, <1>4, <1>9 DEF SleepqTypeOK
      <3>3. /\ Tail(sq_freeq[sq]) \in Seq(SQs) /\ Len(Tail(sq_freeq[sq])) = k - 1
            /\ \A i \in 1 .. k - 1 : Tail(sq_freeq[sq])[i] = sq_freeq[sq][i + 1]
        BY <2>1, <1>7
      <3> QED
        BY <3>1, <3>2, <3>3
    <2>3. o \notin linked /\ \A u \in Threads : sleepqueue[u] # o
      BY <2>2, <1>1, <1>4 DEF FreeIsLent
    <2> HIDE DEF o, k
    <2>4. /\ sleepqueue' = [sleepqueue EXCEPT ![t] = o]
          /\ linked' = linked
      BY <1>20, <1>9 DEF o
    <2>5. SleepqTypeOK'
      BY <1>20, <2>2, <2>4, <1>1, <1>4, <1>8, <1>9 DEF SleepqTypeOK, SQs
    <2>6. FreeListMatches'
      <3> SUFFICES ASSUME NEW x \in SQs
                   PROVE  IF x \in linked'
                          THEN /\ sq_wchan'[x] \in Wchans
                               /\ Len(sq_blocked'[x]) > 0
                               /\ Len(sq_freeq'[x]) = Len(sq_blocked'[x]) - 1
                          ELSE sq_blocked'[x] = << >> /\ sq_freeq'[x] = << >>
        BY DEF FreeListMatches
      <3>1. CASE x = sq
        BY <3>1, <2>1, <2>2, <2>4, <1>1, <1>4, <1>7, <1>8, <1>9, <1>10, <1>12
           DEF FreeListMatches, k
      <3>2. CASE x # sq
        BY <3>2, <2>2, <2>4, <1>1, <1>9, <1>12 DEF FreeListMatches
      <3> QED
        BY <3>1, <3>2
    <2>7. ObjectUnlessBlocked' /\ ObjectOfOneThread'
      <3>1. o # NULL
        BY <2>2, NullAssumption DEF SQs
      <3>2. /\ sleepqueue'[t] = o /\ wchan'[t] = NULL
            /\ \A u \in Threads : u # t => sleepqueue'[u] = sleepqueue[u] /\ wchan'[u] = wchan[u]
        BY <2>4, <1>1, <1>9 DEF SleepqTypeOK
      <3>3. ObjectUnlessBlocked'
        BY <3>1, <3>2, <1>1 DEF ObjectUnlessBlocked
      <3>4. ObjectOfOneThread'
        BY <3>2, <2>3, <1>1 DEF ObjectOfOneThread
      <3> QED
        BY <3>3, <3>4
    <2>8. LinkedIsLent'
      BY <2>3, <2>4, <1>1 DEF LinkedIsLent, SleepqTypeOK
    <2>9. FreeIsLent'
      <3> SUFFICES ASSUME NEW x \in SQs, NEW i \in 1 .. Len(sq_freeq'[x])
                   PROVE  /\ sq_freeq'[x][i] \notin linked'
                          /\ \A u \in Threads : sleepqueue'[u] # sq_freeq'[x][i]
        BY DEF FreeIsLent
      <3>1. PICK j \in 1 .. Len(sq_freeq[x]) : /\ sq_freeq'[x][i] = sq_freeq[x][j]
                                               /\ x = sq => j # 1
        BY SMTT(60), <2>2, <1>1 DEF k
      <3>2. sq_freeq[x][j] # o
        BY <3>1, <2>2, <1>1, <1>4 DEF FreeOnce, k
      <3> QED
        BY <3>1, <3>2, <2>4, <1>1 DEF FreeIsLent, SleepqTypeOK
    <2>10. FreeOnce'
      <3> SUFFICES ASSUME NEW x \in SQs, NEW y \in SQs,
                          NEW i \in 1 .. Len(sq_freeq'[x]), NEW j \in 1 .. Len(sq_freeq'[y]),
                          sq_freeq'[x][i] = sq_freeq'[y][j]
                   PROVE  x = y /\ i = j
        BY DEF FreeOnce
      <3> DEFINE i0 == IF x = sq THEN i + 1 ELSE i
                 j0 == IF y = sq THEN j + 1 ELSE j
      <3>1. i0 \in 1 .. Len(sq_freeq[x]) /\ sq_freeq'[x][i] = sq_freeq[x][i0]
        BY <2>2 DEF k
      <3>2. j0 \in 1 .. Len(sq_freeq[y]) /\ sq_freeq'[y][j] = sq_freeq[y][j0]
        BY <2>2 DEF k
      <3>4. sq_freeq[x][i0] = sq_freeq[y][j0]
        BY <3>1, <3>2
      <3> HIDE DEF i0, j0
      <3>3. x = y /\ i0 = j0
        BY <3>1, <3>2, <3>4, <1>1 DEF FreeOnce
      <3> QED
        BY <3>3 DEF i0, j0
    <2> QED
      BY <1>13, <1>16, <1>17, <1>18, <2>5, <2>6, <2>7, <2>8, <2>9, <2>10
         DEF SleepqIInv, WchanIsQueue, NoSharedObject
  <1> QED
    BY <1>19, <1>20

(* A broadcast hands the linked object to the first waiter and the free    *)
(* list, in order, to the others: nobody is left without, nobody shares.   *)
LEMMA DropIInv ==
    ASSUME SleepqIInv, NEW c \in Wchans, SleepqDrop(c)
    PROVE  SleepqIInv'
  <1> DEFINE sq == SleepqLookup(c)
             B == sq_blocked[sq]
             F == sq_freeq[sq]
             n == Len(B)
             released == Elems(B)
             share(u) == IF IndexOf(B, u) = 1 THEN sq ELSE F[IndexOf(B, u) - 1]
  <1>1. /\ SleepqTypeOK /\ FreeListMatches /\ OneQueuePerChannel
        /\ BlockedOnce /\ BlockedHasWchan /\ WchanHasQueue
        /\ ObjectUnlessBlocked /\ ObjectOfOneThread /\ LinkedIsLent /\ FreeIsLent /\ FreeOnce
    BY DEF SleepqIInv, WchanIsQueue, NoSharedObject
  <1>2. sq # NULL /\ sq \in linked /\ sq \in SQs /\ sq_wchan[sq] = c
    BY <1>1, LookupLinked DEF SleepqDrop
  <1>3. /\ B \in Seq(Threads) /\ F \in Seq(SQs) /\ n \in Nat /\ n > 0 /\ Len(F) = n - 1
    BY <1>1, <1>2 DEF SleepqTypeOK, FreeListMatches
  <1>4. /\ linked' = linked \ {sq}
        /\ sleepqueue' = [u \in Threads |-> IF u \in released THEN share(u)
                                            ELSE sleepqueue[u]]
        /\ wchan' = [u \in Threads |-> IF u \in released THEN NULL ELSE wchan[u]]
        /\ sq_blocked' = [sq_blocked EXCEPT ![sq] = << >>]
        /\ sq_freeq' = [sq_freeq EXCEPT ![sq] = << >>]
        /\ sq_wchan' = sq_wchan
    BY DEF SleepqDrop
  <1>5. \A u \in released : /\ u \in Threads /\ wchan[u] = c
                            /\ IndexOf(B, u) \in 1 .. n /\ B[IndexOf(B, u)] = u
    <2> SUFFICES ASSUME NEW u \in released
                 PROVE  /\ u \in Threads /\ wchan[u] = c
                        /\ IndexOf(B, u) \in 1 .. n /\ B[IndexOf(B, u)] = u
      OBVIOUS
    <2>1. PICK i \in 1 .. n : B[i] = u
      BY DEF Elems
    <2>2. u \in Threads /\ wchan[u] = c
      BY <2>1, <1>1, <1>2, <1>3 DEF BlockedHasWchan
    <2> QED
      BY <2>1, <2>2, IndexOfPosition
  <1>6. \A i \in 1 .. n : B[i] \in released
    BY DEF Elems
  <1> HIDE DEF sq, B, F, n, released, share
  <1>7. \A u \in released : share(u) \in SQs /\ share(u) # NULL
    BY <1>2, <1>3, <1>5, NullAssumption DEF share, SQs
  <1>8. \A u, v \in released : share(u) = share(v) => u = v
    <2> SUFFICES ASSUME NEW u \in released, NEW v \in released, share(u) = share(v)
                 PROVE  u = v
      OBVIOUS
    <2> DEFINE i == IndexOf(B, u)
               j == IndexOf(B, v)
    <2>1. i \in 1 .. n /\ j \in 1 .. n /\ B[i] = u /\ B[j] = v
      BY <1>5
    <2>2. \A l \in 1 .. n - 1 : F[l] # sq
      BY <1>1, <1>2, <1>3 DEF FreeIsLent, F
    <2>3. \A l, m \in 1 .. n - 1 : F[l] = F[m] => l = m
      BY <1>1, <1>2, <1>3 DEF FreeOnce, F
    <2>4. share(u) = (IF i = 1 THEN sq ELSE F[i - 1]) /\ share(v) = (IF j = 1 THEN sq ELSE F[j - 1])
      BY DEF share
    <2> HIDE DEF i, j
    <2>5. i # 1 => i - 1 \in 1 .. n - 1
      BY <2>1, <1>3
    <2>6. j # 1 => j - 1 \in 1 .. n - 1
      BY <2>1, <1>3
    <2>7. i = j
      <3>1. CASE i = 1 \/ j = 1
        BY <3>1, <2>2, <2>4, <2>5, <2>6
      <3>2. CASE i # 1 /\ j # 1
        <4>1. i - 1 = j - 1
          BY <3>2, <2>3, <2>4, <2>5, <2>6
        <4> QED
          BY <4>1, <2>1, <1>3
      <3> QED
        BY <3>1, <3>2
    <2> QED
      BY <2>1, <2>7
  <1>9. \A u \in released : \A v \in Threads : v \notin released => sleepqueue[v] # share(u)
    BY <1>1, <1>2, <1>3, <1>5 DEF share, LinkedIsLent, FreeIsLent, F
  <1>10. SleepqTypeOK'
    BY <1>1, <1>2, <1>4, <1>7 DEF SleepqTypeOK, SQs
  <1>11. /\ sq_blocked'[sq] = << >> /\ sq_freeq'[sq] = << >>
         /\ \A x \in SQs : x # sq => sq_blocked'[x] = sq_blocked[x] /\ sq_freeq'[x] = sq_freeq[x]
    BY <1>1, <1>2, <1>4 DEF SleepqTypeOK
  <1>12. FreeListMatches'
    <2> SUFFICES ASSUME NEW x \in SQs
                 PROVE  IF x \in linked'
                        THEN /\ sq_wchan'[x] \in Wchans
                             /\ Len(sq_blocked'[x]) > 0
                             /\ Len(sq_freeq'[x]) = Len(sq_blocked'[x]) - 1
                        ELSE sq_blocked'[x] = << >> /\ sq_freeq'[x] = << >>
      BY DEF FreeListMatches
    <2>1. CASE x = sq
      BY <2>1, <1>4, <1>11
    <2>2. CASE x # sq
      BY <2>2, <1>1, <1>4, <1>11 DEF FreeListMatches
    <2> QED
      BY <2>1, <2>2
  <1>13. OneQueuePerChannel'
    BY <1>1, <1>4 DEF OneQueuePerChannel
  <1>14. BlockedOnce'
    <2> SUFFICES ASSUME NEW x \in SQs,
                        NEW i \in 1 .. Len(sq_blocked'[x]), NEW j \in 1 .. Len(sq_blocked'[x]),
                        sq_blocked'[x][i] = sq_blocked'[x][j]
                 PROVE  i = j
      BY DEF BlockedOnce
    <2>1. x # sq
      BY <1>11
    <2> QED
      BY <2>1, <1>1, <1>11 DEF BlockedOnce
  <1>15. BlockedHasWchan'
    <2> SUFFICES ASSUME NEW x \in linked', NEW i \in 1 .. Len(sq_blocked'[x])
                 PROVE  wchan'[sq_blocked'[x][i]] = sq_wchan'[x]
      BY DEF BlockedHasWchan
    <2>1. x \in linked /\ x \in SQs /\ x # sq /\ sq_blocked'[x] = sq_blocked[x]
      BY <1>1, <1>4, <1>11 DEF SleepqTypeOK
    <2>2. sq_blocked[x][i] \in Threads /\ wchan[sq_blocked[x][i]] = sq_wchan[x]
      BY <2>1, <1>1 DEF SleepqTypeOK, BlockedHasWchan
    <2>3. sq_wchan[x] # c
      BY <2>1, <1>1, <1>2 DEF OneQueuePerChannel
    <2> QED
      BY <2>1, <2>2, <2>3, <1>4, <1>5
  <1>16. WchanHasQueue'
    <2> SUFFICES ASSUME NEW u \in Threads, wchan'[u] # NULL
                 PROVE  \E x \in linked' :
                            /\ sq_wchan'[x] = wchan'[u]
                            /\ \E i \in 1 .. Len(sq_blocked'[x]) : sq_blocked'[x][i] = u
      BY DEF WchanHasQueue
    <2>1. u \notin released /\ wchan'[u] = wchan[u]
      BY <1>4
    <2>2. PICK x \in linked : /\ sq_wchan[x] = wchan[u]
                              /\ \E i \in 1 .. Len(sq_blocked[x]) : sq_blocked[x][i] = u
      BY <2>1, <1>1 DEF WchanHasQueue
    <2>3. x # sq /\ x \in SQs
      BY <2>1, <2>2, <1>1, <1>6 DEF SleepqTypeOK, B, n
    <2> QED
      BY <2>1, <2>2, <2>3, <1>4, <1>11
  <1>17. ObjectUnlessBlocked'
    BY <1>1, <1>4, <1>7 DEF ObjectUnlessBlocked
  <1>18. ObjectOfOneThread'
    BY <1>1, <1>4, <1>8, <1>9 DEF ObjectOfOneThread
  <1>19. LinkedIsLent'
    <2>1. \A u \in released : share(u) \notin linked \ {sq}
      BY <1>1, <1>2, <1>3, <1>5 DEF share, FreeIsLent, F
    <2> QED
      BY <2>1, <1>1, <1>4 DEF LinkedIsLent
  <1>20. FreeIsLent'
    <2> SUFFICES ASSUME NEW x \in SQs, NEW i \in 1 .. Len(sq_freeq'[x])
                 PROVE  /\ sq_freeq'[x][i] \notin linked'
                        /\ \A u \in Threads : sleepqueue'[u] # sq_freeq'[x][i]
      BY DEF FreeIsLent
    <2>1. x # sq /\ sq_freeq'[x] = sq_freeq[x]
      BY <1>11
    <2>2. /\ sq_freeq[x][i] \notin linked
          /\ \A u \in Threads : sleepqueue[u] # sq_freeq[x][i]
      BY <2>1, <1>1 DEF FreeIsLent
    <2>3. \A u \in released : share(u) # sq_freeq[x][i]
      BY SMTT(60), <2>1, <2>2, <1>1, <1>2, <1>3, <1>5 DEF share, FreeOnce, F
    <2> QED
      BY <2>1, <2>2, <2>3, <1>4
  <1>21. FreeOnce'
    <2> SUFFICES ASSUME NEW x \in SQs, NEW y \in SQs,
                        NEW i \in 1 .. Len(sq_freeq'[x]), NEW j \in 1 .. Len(sq_freeq'[y]),
                        sq_freeq'[x][i] = sq_freeq'[y][j]
                 PROVE  x = y /\ i = j
      BY DEF FreeOnce
    <2>1. x # sq /\ y # sq
      BY <1>11
    <2> QED
      BY <2>1, <1>1, <1>11 DEF FreeOnce
  <1> QED
    BY <1>10, <1>12, <1>13, <1>14, <1>15, <1>16, <1>17, <1>18, <1>19, <1>20, <1>21
       DEF SleepqIInv, WchanIsQueue, NoSharedObject

(* Every step of sleepq.cpp preserves the invariant. *)
LEMMA StepIInv == SleepqIInv /\ [SleepqNext]_sleepqVars => SleepqIInv'
  <1> SUFFICES ASSUME SleepqIInv, [SleepqNext]_sleepqVars PROVE SleepqIInv'
    OBVIOUS
  <1>1. ASSUME NEW c \in Wchans, NEW t \in Threads, SleepqAdd(c, t) PROVE SleepqIInv'
    BY <1>1, AddIInv
  <1>2. ASSUME NEW c \in Wchans, NEW t \in Threads, SleepqRemove(c, t) PROVE SleepqIInv'
    BY <1>2, RemoveIInv
  <1>3. ASSUME NEW c \in Wchans, SleepqDrop(c) PROVE SleepqIInv'
    BY <1>3, DropIInv
  <1>4. CASE UNCHANGED sleepqVars
    BY <1>4 DEF sleepqVars, SleepqIInv, SleepqTypeOK, FreeListMatches, OneQueuePerChannel, WchanIsQueue,
       BlockedOnce, BlockedHasWchan, WchanHasQueue, NoSharedObject, ObjectUnlessBlocked,
       ObjectOfOneThread, LinkedIsLent, FreeIsLent, FreeOnce
  <1> QED
    BY <1>1, <1>2, <1>3, <1>4 DEF SleepqNext

(* The free lists match the queues, a channel has one queue, wchan is       *)
(* truthful and no object is shared, at every step of any number of        *)
(* threads blocking, being signalled, timing out and being broadcast to.   *)
THEOREM SleepQueueInvariant == SleepqSpec => []SleepqIInv
  BY InitIInv, StepIInv, PTL DEF SleepqSpec

(* No SleepQueue object ever has two owners, and a thread lacks one exactly *)
(* while it blocks: SleepqAdd never lends a null or a borrowed object.     *)
THEOREM SleepQueueExclusive == SleepqSpec => []NoSharedObject
  <1>1. SleepqIInv => NoSharedObject
    BY DEF SleepqIInv
  <1> QED
    BY <1>1, SleepQueueInvariant, PTL

(* The free list of a blocked channel is one shorter than its queue: what   *)
(* SleepqRemove asserts and SleepqDrop walks without checking.             *)
THEOREM SleepQueueFreeLists == SleepqSpec => []FreeListMatches
  <1>1. SleepqIInv => FreeListMatches
    BY DEF SleepqIInv
  <1> QED
    BY <1>1, SleepQueueInvariant, PTL

(* wchan is truthful: Wait may decide between "signalled" and "timed out"   *)
(* by looking at it.                                                       *)
THEOREM SleepQueueWchan == SleepqSpec => []WchanIsQueue
  <1>1. SleepqIInv => WchanIsQueue
    BY DEF SleepqIInv
  <1> QED
    BY <1>1, SleepQueueInvariant, PTL
-----------------------------------------------------------------------------
\* Where an object can be found.
InFree(o) == \E q \in SQs : \E i \in 1 .. Len(sq_freeq[q]) : sq_freeq[q][i] = o
WithThread(o) == \E t \in Threads : sleepqueue[t] = o

(* The parts of NoLostObject. *)
LEMMA LostParts == NoLostObject <=> \A o \in SQs : o \in linked \/ WithThread(o) \/ InFree(o)
  BY DEF NoLostObject, WithThread, InFree

(* The object a blocking thread brings is linked or put on a free list. *)
LEMMA AddKeepsObjects ==
    ASSUME SleepqIInv, NoLostObject, NEW c \in Wchans, NEW t \in Threads, SleepqAdd(c, t)
    PROVE  NoLostObject'
  <1> DEFINE sq == SleepqLookup(c)
  <1>1. SleepqTypeOK /\ sleepqueue[t] \in SQs
    BY NullAssumption DEF SleepqIInv, NoSharedObject, ObjectUnlessBlocked, SleepqAdd, SleepqTypeOK
  <1>2. sleepqueue' = [sleepqueue EXCEPT ![t] = NULL] BY DEF SleepqAdd
  <1>3. \A o \in SQs : WithThread(o) => WithThread(o)' \/ o = sleepqueue[t]
    BY <1>1, <1>2 DEF WithThread, SleepqTypeOK
  <1>4. CASE sq # NULL
    <2>1. /\ sq_freeq' = [sq_freeq EXCEPT ![sq] = <<sleepqueue[t]>> \o @]
          /\ linked' = linked
      BY <1>4 DEF SleepqAdd
    <2>2. sq \in SQs /\ sq_freeq[sq] \in Seq(SQs) BY <1>1, <1>4, LookupLinked DEF SleepqTypeOK
    <2> DEFINE k == Len(sq_freeq[sq])
    <2>3. /\ k \in Nat /\ Len(sq_freeq'[sq]) = k + 1
          /\ sq_freeq'[sq][1] = sleepqueue[t]
          /\ \A i \in 1 .. k : sq_freeq'[sq][i + 1] = sq_freeq[sq][i]
          /\ \A r \in SQs : r # sq => sq_freeq'[r] = sq_freeq[r]
      BY <1>1, <2>1, <2>2 DEF SleepqTypeOK
    <2> HIDE DEF sq, k
    <2>4. 1 \in 1 .. Len(sq_freeq'[sq]) BY <2>3
    <2>5. ASSUME NEW o \in SQs, InFree(o) PROVE InFree(o)'
      <3>1. PICK q \in SQs : \E i \in 1 .. Len(sq_freeq[q]) : sq_freeq[q][i] = o
        BY <2>5 DEF InFree
      <3>2. PICK i \in 1 .. Len(sq_freeq[q]) : sq_freeq[q][i] = o BY <3>1
      <3>3. CASE q # sq BY <3>2, <3>3, <2>3 DEF InFree
      <3>4. CASE q = sq
        <4>1. i \in 1 .. k /\ i + 1 \in 1 .. Len(sq_freeq'[sq]) BY <3>4, <2>3 DEF k
        <4>2. sq_freeq'[sq][i + 1] = o BY <4>1, <3>2, <3>4, <2>3
        <4> QED BY <4>1, <4>2, <2>2 DEF InFree
      <3> QED BY <3>3, <3>4
    <2>6. \A o \in SQs : o \in linked' \/ WithThread(o)' \/ InFree(o)'
      <3> SUFFICES ASSUME NEW o \in SQs PROVE o \in linked' \/ WithThread(o)' \/ InFree(o)'
        OBVIOUS
      <3>1. CASE o = sleepqueue[t] BY <3>1, <2>2, <2>3, <2>4 DEF InFree
      <3>2. CASE o # sleepqueue[t] BY <3>2, <2>1, <2>5, <1>3, LostParts
      <3> QED BY <3>1, <3>2
    <2> QED BY <2>6 DEF NoLostObject, WithThread, InFree
  <1>5. CASE sq = NULL
    <2>1. linked' = linked \cup {sleepqueue[t]} /\ sq_freeq' = sq_freeq
      BY <1>5 DEF SleepqAdd
    <2>2. \A o \in SQs : InFree(o) => InFree(o)' BY <2>1 DEF InFree
    <2>3. \A o \in SQs : o \in linked' \/ WithThread(o)' \/ InFree(o)'
      BY <2>1, <2>2, <1>3, LostParts
    <2> QED BY <2>3 DEF NoLostObject, WithThread, InFree
  <1> QED BY <1>4, <1>5

(* A leaving thread takes the head of the free list, or the linked object. *)
LEMMA RemoveKeepsObjects ==
    ASSUME SleepqIInv, NoLostObject, NEW c \in Wchans, NEW t \in Threads, SleepqRemove(c, t)
    PROVE  NoLostObject'
  <1> DEFINE sq == SleepqLookup(c)
             rest == Without(sq_blocked[sq], IndexOf(sq_blocked[sq], t))
  <1>1. SleepqTypeOK /\ FreeListMatches /\ WchanHasQueue /\ wchan[t] # NULL /\ sleepqueue[t] = NULL
    BY NullAssumption
       DEF SleepqIInv, WchanIsQueue, NoSharedObject, ObjectUnlessBlocked, SleepqRemove
  <1>2. PICK r \in linked : /\ sq_wchan[r] = c
                            /\ \E i \in 1 .. Len(sq_blocked[r]) : sq_blocked[r][i] = t
    BY <1>1 DEF WchanHasQueue, SleepqRemove
  <1>3. sq = r /\ sq \in linked /\ sq \in SQs
    BY <1>1, <1>2, LookupLinked DEF SleepqIInv, OneQueuePerChannel
  <1>4. \A o \in SQs : WithThread(o) => WithThread(o)'
    <2>1. \A u \in Threads : u # t => sleepqueue'[u] = sleepqueue[u]
      BY <1>1 DEF SleepqRemove, SleepqTypeOK
    <2> QED BY <1>1, <2>1, NullAssumption DEF WithThread, SQs
  <1>5. CASE rest = << >>
    <2>1. /\ linked' = linked \ {sq} /\ sq_freeq' = sq_freeq
          /\ sleepqueue'[t] = sq
      BY <1>1, <1>5 DEF SleepqRemove, SleepqTypeOK
    <2>3. \A o \in SQs : InFree(o) => InFree(o)' BY <2>1 DEF InFree
    <2> HIDE DEF sq
    <2>4. \A o \in SQs : o \in linked' \/ WithThread(o)' \/ InFree(o)'
      <3> SUFFICES ASSUME NEW o \in SQs PROVE o \in linked' \/ WithThread(o)' \/ InFree(o)'
        OBVIOUS
      <3>1. CASE o = sq BY <2>1, <3>1 DEF WithThread
      <3>2. CASE o # sq BY <3>2, <2>1, <2>3, <1>4, LostParts
      <3> QED BY <3>1, <3>2
    <2> QED BY <2>4 DEF NoLostObject, WithThread, InFree
  <1>6. CASE rest # << >>
    <2> DEFINE k == Len(sq_freeq[sq])
    <2>1. sq_freeq[sq] \in Seq(SQs) /\ sq_blocked[sq] \in Seq(Threads) BY <1>1, <1>3 DEF SleepqTypeOK
    <2>2. k \in Nat /\ k > 0
      <3>1. IndexOf(sq_blocked[sq], t) \in 1 .. Len(sq_blocked[sq])
        BY <1>2, <1>3, IndexOfPosition
      <3>2. rest \in Seq(Threads) /\ Len(rest) = Len(sq_blocked[sq]) - 1
        BY <2>1, <3>1, WithoutSeq
      <3>3. Len(rest) # 0 BY <1>6, <3>2, EmptyIffLen
      <3>4. k = Len(sq_blocked[sq]) - 1 BY <1>1, <1>3 DEF FreeListMatches
      <3>5. k \in Nat BY <2>1
      <3>6. k # 0 BY <3>2, <3>3, <3>4
      <3> HIDE DEF k
      <3> QED BY <3>5, <3>6
    <2>3. /\ linked' = linked
          /\ sq_freeq' = [sq_freeq EXCEPT ![sq] = Tail(@)]
          /\ sleepqueue'[t] = sq_freeq[sq][1]
      BY <1>1, <1>6, <2>1, <2>2 DEF SleepqRemove, SleepqTypeOK
    <2>4. /\ Len(sq_freeq'[sq]) = k - 1
          /\ \A i \in 1 .. k - 1 : sq_freeq'[sq][i] = sq_freeq[sq][i + 1]
          /\ \A q \in SQs : q # sq => sq_freeq'[q] = sq_freeq[q]
      BY <1>1, <1>3, <2>1, <2>2, <2>3 DEF SleepqTypeOK
    <2> HIDE DEF sq, k
    <2>5. ASSUME NEW o \in SQs, InFree(o) PROVE InFree(o)' \/ WithThread(o)'
      <3>1. PICK q \in SQs : \E i \in 1 .. Len(sq_freeq[q]) : sq_freeq[q][i] = o
        BY <2>5 DEF InFree
      <3>2. PICK i \in 1 .. Len(sq_freeq[q]) : sq_freeq[q][i] = o BY <3>1
      <3>3. CASE q # sq BY <3>2, <3>3, <2>4 DEF InFree
      <3>4. CASE q = sq /\ i = 1 BY <3>2, <3>4, <2>3 DEF WithThread
      <3>5. CASE q = sq /\ i # 1
        <4>1. i - 1 \in 1 .. k - 1 /\ (i - 1) + 1 = i BY <3>5, <2>2 DEF k
        <4>2. sq_freeq'[sq][i - 1] = o /\ i - 1 \in 1 .. Len(sq_freeq'[sq])
          BY <4>1, <3>2, <3>5, <2>4
        <4> QED BY <4>2, <1>3 DEF InFree
      <3> QED BY <3>3, <3>4, <3>5
    <2>6. \A o \in SQs : o \in linked' \/ WithThread(o)' \/ InFree(o)'
      BY <2>3, <2>5, <1>4, LostParts
    <2> QED BY <2>6 DEF NoLostObject, WithThread, InFree
  <1> QED BY <1>5, <1>6

(* A broadcast hands the linked object and the whole free list out. *)
LEMMA DropKeepsObjects ==
    ASSUME SleepqIInv, NoLostObject, NEW c \in Wchans, SleepqDrop(c)
    PROVE  NoLostObject'
  <1> DEFINE sq == SleepqLookup(c)
             b  == sq_blocked[sq]
             Share(u) == IF IndexOf(b, u) = 1 THEN sq ELSE sq_freeq[sq][IndexOf(b, u) - 1]
  <1>1. SleepqTypeOK /\ FreeListMatches /\ BlockedOnce /\ BlockedHasWchan /\ ObjectUnlessBlocked
    BY DEF SleepqIInv, WchanIsQueue, NoSharedObject
  <1>2. sq # NULL /\ sq \in linked /\ sq \in SQs /\ sq_wchan[sq] \in Wchans
    BY <1>1, LookupLinked DEF SleepqDrop
  <1>3. /\ b \in Seq(Threads) /\ Len(b) > 0 /\ sq_freeq[sq] \in Seq(SQs)
        /\ Len(sq_freeq[sq]) = Len(b) - 1
    BY <1>1, <1>2 DEF SleepqTypeOK, FreeListMatches
  <1>4. /\ linked' = linked \ {sq}
        /\ sleepqueue' = [u \in Threads |-> IF u \in Elems(b) THEN Share(u) ELSE sleepqueue[u]]
        /\ sq_freeq' = [sq_freeq EXCEPT ![sq] = << >>]
    BY DEF SleepqDrop
  <1>5. \A i \in 1 .. Len(b) : /\ b[i] \in Threads /\ b[i] \in Elems(b)
                               /\ IndexOf(b, b[i]) = i /\ sleepqueue[b[i]] = NULL
    <2> SUFFICES ASSUME NEW i \in 1 .. Len(b)
                 PROVE  /\ b[i] \in Threads /\ b[i] \in Elems(b)
                        /\ IndexOf(b, b[i]) = i /\ sleepqueue[b[i]] = NULL
      OBVIOUS
    <2>1. b[i] \in Threads BY <1>3
    <2>2. b[i] \in Elems(b) BY DEF Elems
    <2>3. IndexOf(b, b[i]) \in 1 .. Len(b) /\ b[IndexOf(b, b[i])] = b[i] BY IndexOfPosition
    <2>4. IndexOf(b, b[i]) = i BY <2>3, <1>1, <1>2 DEF BlockedOnce
    <2>5. wchan[b[i]] # NULL BY <1>1, <1>2, NullAssumption DEF BlockedHasWchan
    <2> QED BY <2>1, <2>2, <2>4, <2>5, <1>1 DEF ObjectUnlessBlocked
  <1>6. \A i \in 1 .. Len(b) : \E u \in Threads :
            sleepqueue'[u] = IF i = 1 THEN sq ELSE sq_freeq[sq][i - 1]
    BY <1>4, <1>5
  <1>7. \A q \in SQs : q # sq => sq_freeq'[q] = sq_freeq[q] BY <1>1, <1>4 DEF SleepqTypeOK
  <1>8. \A u \in Threads : sleepqueue[u] # NULL => sleepqueue'[u] = sleepqueue[u]
    <2> SUFFICES ASSUME NEW u \in Threads, sleepqueue[u] # NULL, u \in Elems(b) PROVE FALSE
      BY <1>4
    <2>1. PICK i \in 1 .. Len(b) : b[i] = u BY DEF Elems
    <2> QED BY <2>1, <1>5
  <1> HIDE DEF sq, b, Share
  <1>9. \A o \in SQs : o \in linked' \/ WithThread(o)' \/ InFree(o)'
    <2> SUFFICES ASSUME NEW o \in SQs PROVE o \in linked' \/ WithThread(o)' \/ InFree(o)'
      OBVIOUS
    <2>1. CASE o = sq
      <3>1. 1 \in 1 .. Len(b) BY <1>3
      <3> QED BY <2>1, <3>1, <1>6 DEF WithThread
    <2>2. CASE o \in linked /\ o # sq BY <2>2, <1>4
    <2>3. CASE WithThread(o) BY <2>3, <1>8, NullAssumption DEF WithThread, SQs
    <2>4. CASE InFree(o)
      <3>1. PICK q \in SQs : \E i \in 1 .. Len(sq_freeq[q]) : sq_freeq[q][i] = o
        BY <2>4 DEF InFree
      <3>2. PICK i \in 1 .. Len(sq_freeq[q]) : sq_freeq[q][i] = o BY <3>1
      <3>3. CASE q # sq BY <3>2, <3>3, <1>7 DEF InFree
      <3>4. CASE q = sq
        <4>1. i + 1 \in 1 .. Len(b) /\ i + 1 # 1 /\ (i + 1) - 1 = i BY <3>4, <1>3
        <4>2. \E u \in Threads : sleepqueue'[u] = sq_freeq[sq][(i + 1) - 1]
          BY <4>1, <1>6
        <4> QED BY <4>1, <4>2, <3>2, <3>4 DEF WithThread
      <3> QED BY <3>3, <3>4
    <2> QED BY <2>1, <2>2, <2>3, <2>4, LostParts
  <1> QED BY <1>9 DEF NoLostObject, WithThread, InFree

(* However the objects migrate, none is lost: a thread that leaves a       *)
(* channel always finds one to take.                                       *)
THEOREM SleepQueueNothingLost == SleepqSpec => []NoLostObject
  <1>1. SleepqInit => NoLostObject BY DEF SleepqInit, NoLostObject, SQs
  <1>2. SleepqIInv /\ NoLostObject /\ [SleepqNext]_sleepqVars => NoLostObject'
    <2> SUFFICES ASSUME SleepqIInv, NoLostObject, [SleepqNext]_sleepqVars PROVE NoLostObject' OBVIOUS
    <2>1. CASE UNCHANGED sleepqVars BY <2>1 DEF sleepqVars, NoLostObject
    <2>2. CASE SleepqNext
      BY <2>2, AddKeepsObjects, RemoveKeepsObjects, DropKeepsObjects DEF SleepqNext
    <2> QED BY <2>1, <2>2
  <1> QED BY <1>1, <1>2, SleepQueueInvariant, PTL DEF SleepqSpec

(* The fields of every thread and every SleepQueue object keep their types.*)
THEOREM SleepQueueTypes == SleepqSpec => []SleepqTypeOK
  <1>1. SleepqIInv => SleepqTypeOK
    BY DEF SleepqIInv
  <1> QED
    BY <1>1, SleepQueueInvariant, PTL
-----------------------------------------------------------------------------
(* The queue of a channel, in terms of the linked objects. *)
QueueIsLinked ==
    \A c \in Wchans :
        /\ \A x \in linked : sq_wchan[x] = c => QueueOf(c) = sq_blocked[x]
        /\ (\A x \in linked : sq_wchan[x] # c) => QueueOf(c) = << >>

(* The queue of a channel is that of its linked object, empty without one. *)
LEMMA QueueOfLinked == SleepqIInv => QueueIsLinked
  <1> SUFFICES ASSUME SleepqIInv, NEW c \in Wchans
               PROVE  /\ \A q \in linked : sq_wchan[q] = c => QueueOf(c) = sq_blocked[q]
                      /\ (\A q \in linked : sq_wchan[q] # c) => QueueOf(c) = << >>
    BY DEF QueueIsLinked
  <1>1. SleepqTypeOK /\ OneQueuePerChannel
    BY DEF SleepqIInv
  <1>2. /\ SleepqLookup(c) # NULL => /\ SleepqLookup(c) \in linked
                                     /\ sq_wchan[SleepqLookup(c)] = c
        /\ SleepqLookup(c) = NULL => \A q \in linked : sq_wchan[q] # c
    BY <1>1, LookupLinked
  <1> QED
    BY <1>1, <1>2 DEF QueueOf, OneQueuePerChannel

(* The same in the next state. *)
LEMMA QueueOfLinkedNext == SleepqIInv' => QueueIsLinked'
  BY QueueOfLinked, PTL

(* Blocking appends to the channel's queue and to no other. *)
LEMMA AddIsEnqueue ==
    ASSUME SleepqIInv, SleepqIInv', NEW c \in Wchans, NEW t \in Threads, SleepqAdd(c, t)
    PROVE  WQ!Enqueue(c, t)
  <1> DEFINE Q == [d \in Wchans |-> QueueOf(d)]
             sq == SleepqLookup(c)
             q  == IF sq # NULL THEN sq ELSE sleepqueue[t]
  <1>1. SleepqTypeOK /\ BlockedHasWchan /\ FreeListMatches /\ ObjectUnlessBlocked /\ LinkedIsLent
        /\ OneQueuePerChannel
    BY DEF SleepqIInv, WchanIsQueue, NoSharedObject
  <1>2. /\ \A d \in Wchans : \A x \in linked : sq_wchan[x] = d => QueueOf(d) = sq_blocked[x]
        /\ \A d \in Wchans : (\A x \in linked : sq_wchan[x] # d) => QueueOf(d) = << >>
    BY QueueOfLinked DEF QueueIsLinked
  <1>3. /\ \A d \in Wchans : \A x \in linked' : sq_wchan'[x] = d => QueueOf(d)' = sq_blocked'[x]
        /\ \A d \in Wchans : (\A x \in linked' : sq_wchan'[x] # d) => QueueOf(d)' = << >>
    BY QueueOfLinkedNext DEF QueueIsLinked
  <1>4. wchan[t] = NULL /\ sleepqueue[t] \in SQs /\ sleepqueue[t] \notin linked
    BY <1>1, NullAssumption DEF SleepqAdd, ObjectUnlessBlocked, LinkedIsLent, SleepqTypeOK
  <1>5. /\ sq # NULL => q = sq /\ sq \in linked /\ sq \in SQs /\ sq_wchan[sq] = c
        /\ sq = NULL => q = sleepqueue[t] /\ \A r \in linked : sq_wchan[r] # c
    BY <1>1, LookupLinked
  <1>6. /\ sq_blocked' = [sq_blocked EXCEPT ![q] = Append(@, t)]
        /\ sq # NULL => linked' = linked /\ sq_wchan' = sq_wchan
        /\ sq = NULL => linked' = linked \cup {q} /\ sq_wchan' = [sq_wchan EXCEPT ![q] = c]
    BY DEF SleepqAdd
  <1> HIDE DEF sq, q
  <1>7. QueueOf(c)' = Append(QueueOf(c), t)
    <2>1. CASE sq # NULL
      BY <2>1, <1>1, <1>2, <1>3, <1>5, <1>6 DEF SleepqTypeOK
    <2>2. CASE sq = NULL
      <3>1. sq_blocked[q] = << >> /\ q \in SQs
        BY <2>2, <1>1, <1>4, <1>5 DEF FreeListMatches
      <3>2. q \in linked' /\ sq_wchan'[q] = c /\ sq_blocked'[q] = Append(<< >>, t)
        BY <2>2, <3>1, <1>1, <1>6 DEF SleepqTypeOK
      <3>3. QueueOf(c) = << >>
        BY <2>2, <1>2, <1>5
      <3> QED
        BY <3>2, <3>3, <1>3
    <2> QED
      BY <2>1, <2>2
  <1>8. \A d \in Wchans : d # c => QueueOf(d)' = QueueOf(d)
    <2> SUFFICES ASSUME NEW d \in Wchans, d # c PROVE QueueOf(d)' = QueueOf(d)
      OBVIOUS
    <2>1. CASE \E x \in linked : sq_wchan[x] = d
      <3>1. PICK x \in linked : sq_wchan[x] = d
        BY <2>1
      <3>2. x \in SQs /\ x # q
        BY <3>1, <1>1, <1>4, <1>5 DEF SleepqTypeOK
      <3>3. x \in linked' /\ sq_wchan'[x] = d /\ sq_blocked'[x] = sq_blocked[x]
        BY <3>1, <3>2, <1>1, <1>6 DEF SleepqTypeOK
      <3> QED
        BY <3>1, <3>3, <1>2, <1>3
    <2>2. CASE \A x \in linked : sq_wchan[x] # d
      <3>1. \A x \in linked' : sq_wchan'[x] # d
        BY <2>2, <1>1, <1>4, <1>5, <1>6 DEF SleepqTypeOK
      <3> QED
        BY <2>2, <3>1, <1>2, <1>3
    <2> QED
      BY <2>1, <2>2
  <1>9. Q' = [Q EXCEPT ![c] = Append(@, t)]
    BY <1>7, <1>8
  <1>10. ~WQ!Queued(t)
    <2> SUFFICES ASSUME NEW d \in Wchans, NEW i \in 1 .. Len(QueueOf(d)), QueueOf(d)[i] = t
                 PROVE  FALSE
      BY DEF WQ!Queued
    <2>1. PICK x \in linked : sq_wchan[x] = d
      BY <1>2
    <2> QED
      BY <2>1, <1>1, <1>2, <1>4, NullAssumption DEF BlockedHasWchan
  <1> QED
    BY <1>9, <1>10 DEF WQ!Enqueue

(* A waiter that leaves takes one element out of the channel's queue, the  *)
(* others keep their order.                                                *)
LEMMA RemoveIsDequeue ==
    ASSUME SleepqIInv, SleepqIInv', NEW c \in Wchans, NEW t \in Threads, SleepqRemove(c, t)
    PROVE  WQ!Dequeue(c)
  <1> DEFINE Q == [d \in Wchans |-> QueueOf(d)]
             sq == SleepqLookup(c)
             p  == IndexOf(sq_blocked[sq], t)
             rest == Without(sq_blocked[sq], p)
  <1>1. SleepqTypeOK /\ WchanHasQueue /\ OneQueuePerChannel
    BY DEF SleepqIInv, WchanIsQueue
  <1>2. QueueIsLinked /\ QueueIsLinked'
    BY QueueOfLinked, QueueOfLinkedNext
  <1>3. wchan[t] = c /\ c # NULL
    BY NullAssumption DEF SleepqRemove
  <1>4. PICK r \in linked : /\ sq_wchan[r] = c
                            /\ \E i \in 1 .. Len(sq_blocked[r]) : sq_blocked[r][i] = t
    BY <1>1, <1>3 DEF WchanHasQueue
  <1>5. sq \in linked /\ sq \in SQs /\ sq_wchan[sq] = c /\ sq = r
    BY <1>1, <1>4, LookupLinked DEF OneQueuePerChannel
  <1>6. p \in 1 .. Len(sq_blocked[sq])
    BY <1>4, <1>5, IndexOfPosition
  <1>7. /\ sq_blocked' = [sq_blocked EXCEPT ![sq] = rest]
        /\ sq_wchan' = sq_wchan
        /\ rest = << >> => linked' = linked \ {sq}
        /\ rest # << >> => linked' = linked
    BY DEF SleepqRemove
  <1>8. QueueOf(c) = sq_blocked[sq]
    BY <1>2, <1>5 DEF QueueIsLinked
  <1> HIDE DEF sq, p, rest
  <1>9. QueueOf(c)' = rest
    <2>1. CASE rest = << >>
      <3>1. \A x \in linked' : sq_wchan'[x] # c
        BY <2>1, <1>1, <1>5, <1>7 DEF OneQueuePerChannel
      <3> QED
        BY <2>1, <3>1, <1>2 DEF QueueIsLinked
    <2>2. CASE rest # << >>
      BY <2>2, <1>1, <1>2, <1>5, <1>7 DEF QueueIsLinked, SleepqTypeOK
    <2> QED
      BY <2>1, <2>2
  <1>10. \A d \in Wchans : d # c => QueueOf(d)' = QueueOf(d)
    <2> SUFFICES ASSUME NEW d \in Wchans, d # c PROVE QueueOf(d)' = QueueOf(d)
      OBVIOUS
    <2>1. CASE \E x \in linked : sq_wchan[x] = d
      <3>1. PICK x \in linked : sq_wchan[x] = d
        BY <2>1
      <3>2. x \in linked' /\ sq_wchan'[x] = d /\ sq_blocked'[x] = sq_blocked[x]
        BY <3>1, <1>1, <1>5, <1>7 DEF SleepqTypeOK
      <3> QED
        BY <3>1, <3>2, <1>2 DEF QueueIsLinked
    <2>2. CASE \A x \in linked : sq_wchan[x] # d
      BY <2>2, <1>2, <1>7 DEF QueueIsLinked
    <2> QED
      BY <2>1, <2>2
  <1>11. Q' = [Q EXCEPT ![c] = Without(@, p)] /\ p \in 1 .. Len(Q[c])
    BY <1>6, <1>8, <1>9, <1>10 DEF rest
  <1>12. WQ!Without(Q[c], p) = Without(Q[c], p)
    BY DEF Without, WQ!Without
  <1> QED
    BY <1>11, <1>12 DEF WQ!Dequeue

(* A broadcast empties the channel's queue and no other. *)
LEMMA DropIsFlush ==
    ASSUME SleepqIInv, SleepqIInv', NEW c \in Wchans, SleepqDrop(c)
    PROVE  WQ!Flush(c)
  <1> DEFINE Q == [d \in Wchans |-> QueueOf(d)]
             sq == SleepqLookup(c)
  <1>1. SleepqTypeOK /\ FreeListMatches /\ OneQueuePerChannel
    BY DEF SleepqIInv
  <1>2. QueueIsLinked /\ QueueIsLinked'
    BY QueueOfLinked, QueueOfLinkedNext
  <1>3. sq # NULL /\ sq \in linked /\ sq \in SQs /\ sq_wchan[sq] = c
    BY <1>1, LookupLinked DEF SleepqDrop
  <1>4. /\ linked' = linked \ {sq}
        /\ sq_blocked' = [sq_blocked EXCEPT ![sq] = << >>]
        /\ sq_wchan' = sq_wchan
    BY DEF SleepqDrop
  <1> HIDE DEF sq
  <1>5. QueueOf(c) # << >>
    BY <1>1, <1>2, <1>3 DEF QueueIsLinked, FreeListMatches
  <1>6. QueueOf(c)' = << >>
    <2>1. \A x \in linked' : sq_wchan'[x] # c
      BY <1>1, <1>3, <1>4 DEF OneQueuePerChannel
    <2> QED
      BY <2>1, <1>2 DEF QueueIsLinked
  <1>7. \A d \in Wchans : d # c => QueueOf(d)' = QueueOf(d)
    <2> SUFFICES ASSUME NEW d \in Wchans, d # c PROVE QueueOf(d)' = QueueOf(d)
      OBVIOUS
    <2>1. CASE \E x \in linked : sq_wchan[x] = d
      <3>1. PICK x \in linked : sq_wchan[x] = d
        BY <2>1
      <3>2. x \in linked' /\ sq_wchan'[x] = d /\ sq_blocked'[x] = sq_blocked[x]
        BY <3>1, <1>1, <1>3, <1>4 DEF SleepqTypeOK
      <3> QED
        BY <3>1, <3>2, <1>2 DEF QueueIsLinked
    <2>2. CASE \A x \in linked : sq_wchan[x] # d
      BY <2>2, <1>2, <1>4 DEF QueueIsLinked
    <2> QED
      BY <2>1, <2>2
  <1>8. Q' = [Q EXCEPT ![c] = << >>]
    BY <1>6, <1>7
  <1> QED
    BY <1>5, <1>8 DEF WQ!Flush

(* sleepq.cpp implements WaitQueues: whatever objects migrate, every       *)
(* channel behaves as a FIFO queue of its own.                             *)
THEOREM SleepQueueRefinement == SleepqSpec => ImplementsWaitQueues
  <1>1. SleepqInit => WQ!Init
    BY DEF SleepqInit, WQ!Init, QueueOf, SleepqLookup
  <1>2. SleepqIInv /\ SleepqIInv' /\ [SleepqNext]_sleepqVars => [WQ!Next]_([c \in Wchans |-> QueueOf(c)])
    <2> SUFFICES ASSUME SleepqIInv, SleepqIInv', [SleepqNext]_sleepqVars
                 PROVE  [WQ!Next]_([c \in Wchans |-> QueueOf(c)])
      OBVIOUS
    <2>1. ASSUME NEW c \in Wchans, NEW t \in Threads, SleepqAdd(c, t) PROVE WQ!Next
      BY <2>1, AddIsEnqueue DEF WQ!Next
    <2>2. ASSUME NEW c \in Wchans, NEW t \in Threads, SleepqRemove(c, t) PROVE WQ!Next
      BY <2>2, RemoveIsDequeue DEF WQ!Next
    <2>3. ASSUME NEW c \in Wchans, SleepqDrop(c) PROVE WQ!Next
      BY <2>3, DropIsFlush DEF WQ!Next
    <2>4. CASE UNCHANGED sleepqVars
      BY <2>4 DEF sleepqVars, QueueOf, SleepqLookup
    <2> QED
      BY <2>1, <2>2, <2>3, <2>4 DEF SleepqNext
  <1> QED
    BY <1>1, <1>2, SleepQueueInvariant, PTL DEF SleepqSpec, ImplementsWaitQueues, WQ!Spec
-----------------------------------------------------------------------------
(* Read-write locks.                                                       *)

(* The tokens are finite, so that Cardinality counts them. *)
LEMMA TokensFinite == IsFiniteSet(Tokens)
  <1>1. IsFiniteSet(Threads \X (0 .. MaxHeld))
    <2>1. IsFiniteSet(0 .. MaxHeld) BY FS_Interval, RwlockAssumption
    <2> QED BY <2>1, FS_Product, RwlockAssumption
  <1> QED BY <1>1, FS_Subset DEF Tokens

(* A step that leaves the holds and the threads in runlock alone leaves    *)
(* the tokens alone.                                                       *)
LEMMA SameTokens ==
    ASSUME rheld' = rheld, \A t \in Threads : pc'[t] = "runlock" <=> pc[t] = "runlock"
    PROVE  Tokens' = Tokens
  BY DEF Tokens

(* No read lock is held when no thread holds one. *)
LEMMA NoTokens ==
    ASSUME rheld \in [Threads -> 0 .. MaxHeld],
           \A t \in Threads : rheld[t] = 0 /\ pc[t] # "runlock"
    PROVE  Tokens = {}
  BY RwlockAssumption DEF Tokens

(* The handle names no object at first. *)
LEMMA InitOK == Init => IInv
  <1> SUFFICES ASSUME Init PROVE IInv OBVIOUS
  <1>1. TypeOK BY RwlockAssumption DEF Init, TypeOK, PCs
  <1>2. PointersAgree BY RwlockAssumption DEF Init, PointersAgree
  <1>3. WriterAgrees BY RwlockAssumption DEF Init, WriterAgrees
  <1>4. CountsAgree BY RwlockAssumption DEF Init, CountsAgree
  <1>5. SleepersBlocked BY DEF Init, SleepersBlocked, At
  <1> QED BY <1>1, <1>2, <1>3, <1>4, <1>5 DEF IInv

(* RwlockInit and InitStatic: an object that nobody used before. *)
LEMMA RwlockInitOK ==
    ASSUME IInv, NEW o \in Objs, RwlockInit(o) PROVE IInv'
  <1> USE DEF RwlockInit, NewObject, Unused, At, local, holds
  <1>1. TypeOK' BY RwlockAssumption DEF IInv, TypeOK
  <1>2. PointersAgree' BY RwlockAssumption DEF IInv, TypeOK, PointersAgree
  <1>3. Tokens = {} /\ Tokens' = {}
    BY RwlockAssumption DEF IInv, TypeOK, Tokens
  <1>4. WriterAgrees' BY <1>3, RwlockAssumption DEF IInv, TypeOK, WriterAgrees, Writing
  <1>5. CountsAgree'
    BY <1>3, FS_EmptySet, RwlockAssumption DEF IInv, TypeOK, CountsAgree
  <1>6. SleepersBlocked' BY DEF IInv, TypeOK, SleepersBlocked
  <1> QED BY <1>1, <1>2, <1>4, <1>5, <1>6 DEF IInv

(* An initialisation that fails leaves a null handle, which names no object. *)
LEMMA RwlockInitFailsOK == ASSUME IInv, RwlockInitFails PROVE IInv'
  <1> USE DEF RwlockInitFails, Unused, At, local, holds, fields
  <1>1. TypeOK' BY RwlockAssumption DEF IInv, TypeOK
  <1>2. PointersAgree' BY RwlockAssumption DEF IInv, TypeOK, PointersAgree
  <1>3. WriterAgrees' BY RwlockAssumption DEF WriterAgrees
  <1>4. CountsAgree' BY RwlockAssumption DEF IInv, CountsAgree
  <1>5. SleepersBlocked' BY DEF IInv, TypeOK, SleepersBlocked
  <1> QED BY <1>1, <1>2, <1>3, <1>4, <1>5 DEF IInv

(* A lock that nobody uses is destroyed. *)
LEMMA DestroyOK == ASSUME IInv, Destroy PROVE IInv'
  <1> USE DEF Destroy, Unused, At, local, holds, fields
  <1>1. TypeOK' BY RwlockAssumption DEF IInv, TypeOK
  <1>2. PointersAgree' BY RwlockAssumption DEF IInv, TypeOK, PointersAgree
  <1>3. WriterAgrees' BY RwlockAssumption DEF WriterAgrees
  <1>4. CountsAgree' BY RwlockAssumption DEF IInv, CountsAgree
  <1>5. SleepersBlocked' BY DEF IInv, TypeOK, SleepersBlocked
  <1> QED BY <1>1, <1>2, <1>3, <1>4, <1>5 DEF IInv

(* Enter moves one thread from guest code into a call. *)
LEMMA EnterOK ==
    ASSUME IInv, NEW t \in Threads, NEW w \in {"rd", "wr"},
           NEW k \in {"block", "timed", "try"}, Enter(t, w, k)
    PROVE  IInv'
  <1> USE DEF Enter, Goto, At, holds, fields
  <1>1. TypeOK' BY RwlockAssumption DEF IInv, TypeOK, PCs
  <1>2. PointersAgree' BY RwlockAssumption DEF IInv, TypeOK, PointersAgree
  <1>3. Tokens' = Tokens BY SameTokens DEF IInv, TypeOK
  <1>4. WriterAgrees' BY <1>3 DEF IInv, TypeOK, WriterAgrees, Writing
  <1>5. CountsAgree' BY <1>3 DEF IInv, TypeOK, CountsAgree
  <1>6. SleepersBlocked' BY DEF IInv, TypeOK, SleepersBlocked, Admits
  <1> QED BY <1>1, <1>2, <1>4, <1>5, <1>6 DEF IInv

(* The first thread that finds the handle null creates the object, every   *)
(* other one takes that object.                                            *)
LEMMA InitStaticOK ==
    ASSUME IInv, NEW t \in Threads, InitStatic(t) PROVE IInv'
  <1> USE DEF Goto, At, holds, fields
  <1>0. /\ pc[t] = "init" /\ UNCHANGED <<want, kind, rdlock_count, rheld, wheld>>
        /\ pc' = [pc EXCEPT ![t] = "try"] \/ pc' = [pc EXCEPT ![t] = "idle"]
    BY DEF InitStatic
  <1>1. Tokens' = Tokens BY <1>0, SameTokens DEF IInv, TypeOK
  <1>2. ASSUME NEW o \in Objs, rwlock = NULL, NewObject(o),
               prwlock' = [prwlock EXCEPT ![t] = o], pc' = [pc EXCEPT ![t] = "try"]
        PROVE  IInv'
    <2> USE DEF NewObject
    <2>1. rwlock \notin Objs BY <1>2, RwlockAssumption
    <2>2. \A u \in Threads : pc[u] \in {"idle", "init"} /\ ~wheld[u] /\ rheld[u] = 0
      BY <2>1, RwlockAssumption DEF IInv, TypeOK, PointersAgree
    <2>3. Tokens = {} BY <2>2, NoTokens DEF IInv, TypeOK
    <2>4. TypeOK' BY <1>0, <1>2, RwlockAssumption DEF IInv, TypeOK, PCs
    <2>5. PointersAgree' BY <1>0, <1>2, <2>2, RwlockAssumption DEF IInv, TypeOK, PointersAgree
    <2>6. WriterAgrees'
      <3>1. \A u \in Threads : ~Writing(u)'
        BY <1>0, <1>2, <2>2 DEF IInv, TypeOK, Writing
      <3>2. rwlock' = o /\ writer_active'[o] = FALSE BY <1>2 DEF IInv, TypeOK
      <3> QED BY <3>1, <3>2 DEF WriterAgrees
    <2>7. CountsAgree'
      BY <1>0, <1>1, <1>2, <2>2, <2>3, FS_EmptySet, RwlockAssumption DEF IInv, TypeOK, CountsAgree
    <2>8. SleepersBlocked' BY <1>0, <1>2, <2>2 DEF IInv, TypeOK, SleepersBlocked
    <2> QED BY <2>4, <2>5, <2>6, <2>7, <2>8 DEF IInv
  <1>3. CASE /\ UNCHANGED <<rwlock, allocated, writer_active, readers, owner>>
             /\ \/ rwlock = NULL /\ Goto(t, "idle") /\ UNCHANGED prwlock
                \/ rwlock # NULL /\ prwlock' = [prwlock EXCEPT ![t] = rwlock] /\ Goto(t, "try")
    <2>1. TypeOK' BY <1>0, <1>3 DEF IInv, TypeOK, PCs
    <2>2. PointersAgree' BY <1>0, <1>3, RwlockAssumption DEF IInv, TypeOK, PointersAgree
    <2>3. WriterAgrees' BY <1>0, <1>1, <1>3 DEF IInv, TypeOK, WriterAgrees, Writing
    <2>4. CountsAgree' BY <1>0, <1>1, <1>3 DEF IInv, TypeOK, CountsAgree
    <2>5. SleepersBlocked' BY <1>0, <1>3 DEF IInv, TypeOK, SleepersBlocked, Admits
    <2> QED BY <2>1, <2>2, <2>3, <2>4, <2>5 DEF IInv
  <1> QED BY <1>2, <1>3 DEF InitStatic

(* A lock that is not taken: only a pc changes, and a thread that goes to  *)
(* sleep has just seen its predicate false.                                *)
LEMMA MissOK ==
    ASSUME IInv, NEW t \in Threads, NEW l \in {"idle", "wait", "sleep"},
           pc[t] \in {"try", "wait", "sleep"}, Miss(t, l)
    PROVE  IInv'
  <1> USE DEF Miss, Goto, At, local, holds, fields
  <1>1. TypeOK' BY DEF IInv, TypeOK, PCs
  <1>2. PointersAgree' BY DEF IInv, TypeOK, PointersAgree
  <1>3. Tokens' = Tokens BY SameTokens DEF IInv, TypeOK
  <1>4. WriterAgrees' BY <1>3 DEF IInv, TypeOK, WriterAgrees, Writing
  <1>5. CountsAgree' BY <1>3 DEF IInv, TypeOK, CountsAgree
  <1>6. SleepersBlocked' BY DEF IInv, TypeOK, SleepersBlocked, Admits
  <1> QED BY <1>1, <1>2, <1>4, <1>5, <1>6 DEF IInv

(* A reader takes the lock: one token more, and nobody writes. *)
LEMMA TakeReadOK ==
    ASSUME IInv, NEW t \in Threads, pc[t] \in {"try", "wait", "sleep"},
           want[t] = "rd", Take(t)
    PROVE  IInv'
  <1> DEFINE o == prwlock[t]
  <1> USE DEF Goto, At, local
  <1>0. /\ o = rwlock /\ o \in Objs /\ ~writer_active[o] /\ rheld[t] < MaxHeld
        /\ readers' = [readers EXCEPT ![o] = @ + 1]
        /\ rdlock_count' = [rdlock_count EXCEPT ![t] = @ + 1]
        /\ rheld' = [rheld EXCEPT ![t] = @ + 1]
        /\ pc' = [pc EXCEPT ![t] = "idle"]
        /\ UNCHANGED <<rwlock, allocated, writer_active, owner, prwlock, want, kind, wheld>>
    BY DEF IInv, PointersAgree, Take, Admits
  <1> HIDE DEF o
  <1>1. TypeOK' BY <1>0, RwlockAssumption DEF IInv, TypeOK, PCs
  <1>2. PointersAgree' BY <1>0 DEF IInv, TypeOK, PointersAgree
  <1>3. WriterAgrees' BY <1>0 DEF IInv, TypeOK, WriterAgrees, Writing
  <1>4. Cardinality(Tokens') = Cardinality(Tokens) + 1
    <2> DEFINE new == <<t, rheld[t] + 1>>
    <2>1. new \notin Tokens BY RwlockAssumption DEF IInv, TypeOK, Tokens
    <2>2. Tokens' = Tokens \cup {new}
      BY <1>0, RwlockAssumption DEF IInv, TypeOK, Tokens
    <2> QED BY <2>1, <2>2, TokensFinite, FS_AddElement
  <1>5. CountsAgree' BY <1>0, <1>4 DEF IInv, TypeOK, CountsAgree
  <1>6. SleepersBlocked'
    <2> SUFFICES ASSUME NEW u \in Threads, pc'[u] = "sleep"
                 PROVE  ~Admits(prwlock[u], want[u])'
      BY DEF SleepersBlocked
    <2>1. u # t /\ pc[u] = "sleep" BY <1>0 DEF IInv, TypeOK
    <2>2. prwlock[u] = o BY <1>0, <2>1 DEF IInv, PointersAgree
    <2>3. want[u] = "wr" BY <1>0, <2>1, <2>2 DEF IInv, TypeOK, SleepersBlocked, Admits
    <2>4. Cardinality(Tokens) \in Nat BY TokensFinite, FS_CardinalityType
    <2>5. readers[o] \in Nat BY <1>0, <2>4 DEF IInv, CountsAgree
    <2> QED BY <1>0, <2>2, <2>3, <2>5 DEF IInv, TypeOK, Admits
  <1> QED BY <1>1, <1>2, <1>3, <1>5, <1>6 DEF IInv

(* A writer takes the lock: there was no token and no writer. *)
LEMMA TakeWriteOK ==
    ASSUME IInv, NEW t \in Threads, pc[t] \in {"try", "wait", "sleep"},
           want[t] = "wr", Take(t)
    PROVE  IInv'
  <1> DEFINE o == prwlock[t]
  <1> USE DEF Goto, At, local
  <1>0. /\ o = rwlock /\ o \in Objs /\ ~writer_active[o] /\ readers[o] = 0
        /\ writer_active' = [writer_active EXCEPT ![o] = TRUE]
        /\ pc' = [pc EXCEPT ![t] = "own"]
        /\ UNCHANGED <<rwlock, allocated, readers, owner, prwlock, want, kind,
                       rdlock_count, rheld, wheld>>
    BY DEF IInv, PointersAgree, Take, Admits
  <1> HIDE DEF o
  <1>1. TypeOK' BY <1>0 DEF IInv, TypeOK, PCs
  <1>2. \A u \in Threads : ~Writing(u) BY <1>0 DEF IInv, WriterAgrees
  <1>3. Tokens' = Tokens BY <1>0, SameTokens DEF IInv, TypeOK
  <1>4. Tokens = {} BY <1>0, TokensFinite, FS_EmptySet DEF IInv, CountsAgree
  <1>5. PointersAgree' BY <1>0, <1>2 DEF IInv, TypeOK, PointersAgree, Writing
  <1>6. WriterAgrees' BY <1>0, <1>2, <1>3, <1>4 DEF IInv, TypeOK, WriterAgrees, Writing
  <1>7. CountsAgree' BY <1>0, <1>3 DEF IInv, TypeOK, CountsAgree
  <1>8. SleepersBlocked' BY <1>0 DEF IInv, TypeOK, SleepersBlocked, Admits, PointersAgree
  <1> QED BY <1>1, <1>5, <1>6, <1>7, <1>8 DEF IInv

(* The writer enters its name. *)
LEMMA SetOwnerOK ==
    ASSUME IInv, NEW t \in Threads, SetOwner(t) PROVE IInv'
  <1> USE DEF SetOwner, Goto, At, local
  <1>0. prwlock[t] = rwlock /\ rwlock \in Objs BY DEF IInv, PointersAgree
  <1>1. TypeOK' BY <1>0 DEF IInv, TypeOK, PCs
  <1>2. Tokens' = Tokens BY SameTokens DEF IInv, TypeOK
  <1>3. \A u \in Threads : Writing(u)' <=> Writing(u) BY DEF IInv, TypeOK, Writing
  <1>4. PointersAgree' BY <1>0 DEF IInv, TypeOK, PointersAgree
  <1>5. WriterAgrees' BY <1>0, <1>2, <1>3 DEF IInv, TypeOK, WriterAgrees
  <1>6. CountsAgree'
    <2>1. Writing(t) BY DEF Writing
    <2>2. \A u \in Threads : wheld[u] => u = t BY <1>0, <2>1 DEF IInv, WriterAgrees, Writing
    <2> QED BY <1>0, <1>2, <2>2 DEF IInv, TypeOK, CountsAgree
  <1>7. SleepersBlocked' BY DEF IInv, TypeOK, SleepersBlocked, Admits
  <1> QED BY <1>1, <1>4, <1>5, <1>6, <1>7 DEF IInv

(* The writer's unlock: owner says so, and the flag is still up. *)
LEMMA UnlockWriteOK ==
    ASSUME IInv, NEW t \in Threads, Unlock(t), wheld[t] PROVE IInv'
  <1> USE DEF Goto, At
  <1>0. /\ rwlock \in Objs /\ owner[rwlock] = t /\ pc[t] = "idle"
        /\ prwlock' = [prwlock EXCEPT ![t] = rwlock]
        /\ owner' = [owner EXCEPT ![rwlock] = NULL]
        /\ pc' = [pc EXCEPT ![t] = "wunlock"]
        /\ wheld' = [wheld EXCEPT ![t] = FALSE]
        /\ rheld' = rheld
        /\ UNCHANGED <<rwlock, allocated, writer_active, readers, want, kind, rdlock_count>>
    BY DEF Unlock, IInv, TypeOK, CountsAgree
  <1>1. TypeOK' BY <1>0 DEF IInv, TypeOK, PCs
  <1>2. Tokens' = Tokens BY <1>0, SameTokens DEF IInv, TypeOK
  <1>3. \A u \in Threads : Writing(u)' <=> Writing(u) BY <1>0 DEF IInv, TypeOK, Writing
  <1>4. \A u \in Threads : wheld[u] => u = t BY <1>0 DEF IInv, WriterAgrees, Writing
  <1>5. PointersAgree' BY <1>0 DEF IInv, TypeOK, PointersAgree
  <1>6. WriterAgrees' BY <1>0, <1>2, <1>3 DEF IInv, TypeOK, WriterAgrees
  <1>7. CountsAgree'
    BY <1>0, <1>2, <1>4, RwlockAssumption DEF IInv, TypeOK, CountsAgree
  <1>8. SleepersBlocked' BY <1>0 DEF IInv, TypeOK, SleepersBlocked, Admits
  <1> QED BY <1>1, <1>5, <1>6, <1>7, <1>8 DEF IInv

(* A reader's unlock: there is a token, so nobody writes, owner is null    *)
(* and the token moves into the call.                                      *)
LEMMA UnlockReadOK ==
    ASSUME IInv, NEW t \in Threads, Unlock(t), ~wheld[t] PROVE IInv'
  <1> USE DEF Goto, At
  <1>1. rwlock \in Objs /\ rheld[t] > 0 /\ rheld[t] \in 1 .. MaxHeld /\ pc[t] = "idle"
    BY RwlockAssumption DEF Unlock, IInv, TypeOK
  <1>2. <<t, rheld[t]>> \in Tokens /\ <<t, 0>> \notin Tokens
    BY <1>1, RwlockAssumption DEF IInv, TypeOK, Tokens
  <1>3. ~writer_active[rwlock] /\ \A u \in Threads : ~Writing(u)
    BY <1>1, <1>2 DEF IInv, WriterAgrees
  <1>4. owner[rwlock] = NULL
    BY <1>1, <1>3 DEF IInv, TypeOK, CountsAgree, Writing
  <1>5. /\ prwlock' = [prwlock EXCEPT ![t] = rwlock]
        /\ pc' = [pc EXCEPT ![t] = "runlock"]
        /\ wheld' = wheld
        /\ rheld' = [rheld EXCEPT ![t] = @ - 1]
        /\ rdlock_count' = [rdlock_count EXCEPT ![t] = @ - 1]
        /\ UNCHANGED <<rwlock, allocated, writer_active, readers, owner, want, kind>>
    BY <1>4, RwlockAssumption DEF Unlock, IInv, TypeOK
  <1>6. TypeOK' BY <1>1, <1>5, RwlockAssumption DEF IInv, TypeOK, PCs
  <1>7. Cardinality(Tokens') = Cardinality(Tokens)
    <2> DEFINE rest == Tokens \ {<<t, rheld[t]>>}
    <2>1. Tokens' = rest \cup {<<t, 0>>}
      BY <1>1, <1>5, RwlockAssumption DEF IInv, TypeOK, Tokens
    <2>2. IsFiniteSet(rest) /\ Cardinality(rest) = Cardinality(Tokens) - 1
      BY <1>2, TokensFinite, FS_RemoveElement
    <2>3. <<t, 0>> \notin rest BY <1>2
    <2> HIDE DEF rest
    <2>4. Cardinality(Tokens') = Cardinality(rest) + 1
      BY <2>1, <2>2, <2>3, FS_AddElement
    <2>5. Cardinality(Tokens) \in Nat BY TokensFinite, FS_CardinalityType
    <2> QED BY <2>2, <2>4, <2>5
  <1>8. PointersAgree' BY <1>1, <1>5 DEF IInv, TypeOK, PointersAgree
  <1>9. WriterAgrees' BY <1>1, <1>3, <1>5 DEF IInv, TypeOK, WriterAgrees, Writing
  <1>10. CountsAgree' BY <1>1, <1>5, <1>7 DEF IInv, TypeOK, CountsAgree
  <1>11. SleepersBlocked' BY <1>1, <1>5 DEF IInv, TypeOK, SleepersBlocked, Admits
  <1> QED BY <1>6, <1>8, <1>9, <1>10, <1>11 DEF IInv

(* The writer lowers the flag and wakes every sleeper. *)
LEMMA WriteUnlockOK ==
    ASSUME IInv, NEW t \in Threads, WriteUnlock(t) PROVE IInv'
  <1> USE DEF WriteUnlock, Notify, At, local, holds
  <1>0. prwlock[t] = rwlock /\ rwlock \in Objs /\ ~wheld[t]
    BY DEF IInv, PointersAgree
  <1>1. TypeOK' BY <1>0 DEF IInv, TypeOK, PCs
  <1>2. Tokens' = Tokens BY SameTokens DEF IInv, TypeOK
  <1>3. Writing(t) BY DEF Writing
  <1>4. \A u \in Threads : ~Writing(u)'
    BY <1>0, <1>3 DEF IInv, TypeOK, WriterAgrees, Writing
  <1>5. PointersAgree' BY <1>0 DEF IInv, TypeOK, PointersAgree
  <1>6. WriterAgrees' BY <1>0, <1>4 DEF IInv, TypeOK, WriterAgrees
  <1>7. CountsAgree' BY <1>2 DEF IInv, TypeOK, CountsAgree
  <1>8. SleepersBlocked'
    <2>1. \A u \in Threads : pc[u] = "sleep" => prwlock[u] = rwlock
      BY DEF IInv, PointersAgree
    <2> QED BY <1>0, <2>1 DEF IInv, TypeOK, SleepersBlocked
  <1> QED BY <1>1, <1>5, <1>6, <1>7, <1>8 DEF IInv

(* A reader gives its token back, and the last one wakes every sleeper. *)
LEMMA ReadUnlockOK ==
    ASSUME IInv, NEW t \in Threads, ReadUnlock(t) PROVE IInv'
  <1> DEFINE o == prwlock[t]
  <1> USE DEF Goto, Notify, At, local, holds
  <1>0. /\ o = rwlock /\ rwlock \in Objs /\ pc[t] = "runlock"
        /\ readers' = [readers EXCEPT ![rwlock] = @ - 1]
        /\ UNCHANGED <<rwlock, allocated, writer_active, owner, prwlock, want, kind,
                       rdlock_count, rheld, wheld>>
        /\ \A u \in Threads : pc'[u] = IF u = t THEN "idle"
                 ELSE IF pc[u] = "sleep" /\ prwlock[u] = o /\ readers[o] = 1 THEN "wait" ELSE pc[u]
        /\ DOMAIN pc' = Threads /\ pc' = [u \in Threads |-> pc'[u]]
    BY DEF ReadUnlock, IInv, TypeOK, PointersAgree
  <1> HIDE DEF o
  <1>1. <<t, 0>> \in Tokens BY <1>0, RwlockAssumption DEF Tokens
  <1>2. Tokens' = Tokens \ {<<t, 0>>}
    BY <1>0, RwlockAssumption DEF IInv, TypeOK, Tokens
  <1>3. Cardinality(Tokens') = Cardinality(Tokens) - 1
    BY <1>1, <1>2, TokensFinite, FS_RemoveElement
  <1>4. ~writer_active[rwlock] /\ \A u \in Threads : ~Writing(u)
    BY <1>0, <1>1 DEF IInv, WriterAgrees
  <1>5. TypeOK' BY <1>0 DEF IInv, TypeOK, PCs
  <1>6. PointersAgree' BY <1>0 DEF IInv, TypeOK, PointersAgree
  <1>7. WriterAgrees' BY <1>0, <1>4 DEF IInv, TypeOK, WriterAgrees, Writing
  <1>8. CountsAgree' BY <1>0, <1>3 DEF IInv, TypeOK, CountsAgree
  <1>9. SleepersBlocked'
    <2> SUFFICES ASSUME NEW u \in Threads, pc'[u] = "sleep"
                 PROVE  ~Admits(prwlock[u], want[u])'
      BY DEF SleepersBlocked
    <2>1. pc[u] = "sleep" /\ prwlock[u] = rwlock /\ readers[rwlock] # 1
      BY <1>0 DEF IInv, TypeOK, PointersAgree
    <2>2. want[u] = "wr" BY <1>0, <1>4, <2>1 DEF IInv, TypeOK, SleepersBlocked, Admits
    <2>3. readers'[rwlock] # 0 BY <1>0, <2>1 DEF IInv, TypeOK
    <2> QED BY <1>0, <2>1, <2>2, <2>3 DEF Admits
  <1> QED BY <1>5, <1>6, <1>7, <1>8, <1>9 DEF IInv

(* Every step preserves the invariant: one case per action. *)
LEMMA NextOK == IInv /\ [Next]_vars => IInv'
  <1> SUFFICES ASSUME IInv, [Next]_vars PROVE IInv' OBVIOUS
  <1>1. CASE UNCHANGED vars
    <2> USE <1>1 DEF vars, local, holds, fields
    <2>1. Tokens' = Tokens BY DEF Tokens
    <2>2. TypeOK' /\ PointersAgree' BY DEF IInv, TypeOK, PointersAgree
    <2>3. WriterAgrees' /\ CountsAgree'
      BY <2>1 DEF IInv, WriterAgrees, Writing, CountsAgree
    <2>4. SleepersBlocked' BY DEF IInv, SleepersBlocked, Admits, At
    <2> QED BY <2>2, <2>3, <2>4 DEF IInv
  <1>2. ASSUME NEW o \in Objs, RwlockInit(o) PROVE IInv' BY <1>2, RwlockInitOK
  <1>3. CASE RwlockInitFails \/ Destroy BY <1>3, RwlockInitFailsOK, DestroyOK
  <1>4. ASSUME NEW t \in Threads, NEW w \in {"rd", "wr"},
               NEW k \in {"block", "timed", "try"}, Enter(t, w, k)
        PROVE  IInv' BY <1>4, EnterOK
  <1>5. ASSUME NEW t \in Threads, InitStatic(t) PROVE IInv' BY <1>5, InitStaticOK
  <1>6. ASSUME NEW t \in Threads, pc[t] \in {"try", "wait", "sleep"}, Take(t) PROVE IInv'
    <2>1. want[t] = "rd" \/ want[t] = "wr" BY DEF IInv, TypeOK
    <2> QED BY <1>6, <2>1, TakeReadOK, TakeWriteOK
  <1>7. ASSUME NEW t \in Threads, Try(t) \/ WaitCheck(t) \/ Timeout(t) PROVE IInv'
    <2>1. pc[t] \in {"try", "wait", "sleep"}
      BY <1>7 DEF Try, WaitCheck, Timeout, At
    <2>2. Take(t) \/ \E l \in {"idle", "wait", "sleep"} : Miss(t, l)
      BY <1>7 DEF Try, WaitCheck, Timeout
    <2> QED BY <1>6, <2>1, <2>2, MissOK
  <1>8. ASSUME NEW t \in Threads, SetOwner(t) PROVE IInv' BY <1>8, SetOwnerOK
  <1>9. ASSUME NEW t \in Threads, Unlock(t) PROVE IInv'
    BY <1>9, UnlockWriteOK, UnlockReadOK
  <1>10. ASSUME NEW t \in Threads, WriteUnlock(t) PROVE IInv' BY <1>10, WriteUnlockOK
  <1>11. ASSUME NEW t \in Threads, ReadUnlock(t) PROVE IInv' BY <1>11, ReadUnlockOK
  <1> QED BY <1>1, <1>2, <1>3, <1>4, <1>5, <1>7, <1>8, <1>9, <1>10, <1>11 DEF Next

(* The inductive invariant of the read-write lock holds in every state of  *)
(* rwlock.cpp's lock, unlock, initialisation and destruction.              *)
THEOREM RwlockInvariant == Spec => []IInv
  BY InitOK, NextOK, PTL DEF Spec

(* A writer is alone, for any number of threads and of nested read locks,  *)
(* whichever thread initialised the handle.                                *)
THEOREM RwlockExclusion == Spec => []Exclusion
  <1>1. IInv => Exclusion
    <2> SUFFICES ASSUME IInv, NEW t \in Threads, NEW u \in Threads, wheld[t]
                 PROVE  rheld[u] = 0 /\ (u # t => ~wheld[u])
      BY DEF Exclusion
    <2>1. rwlock \in Objs BY DEF IInv, PointersAgree
    <2>2. Writing(t) /\ Tokens = {} BY <2>1 DEF IInv, WriterAgrees, Writing
    <2>3. rheld[u] = 0
      <3>1. rheld[u] \in 0 .. MaxHeld BY DEF IInv, TypeOK
      <3>2. CASE rheld[u] # 0
        <4>1. <<u, rheld[u]>> \in Tokens BY <3>1, <3>2, RwlockAssumption DEF Tokens
        <4> QED BY <2>2, <4>1
      <3> QED BY <3>2
    <2>4. u # t => ~wheld[u] BY <2>1, <2>2 DEF IInv, WriterAgrees, Writing
    <2> QED BY <2>3, <2>4
  <1> QED BY <1>1, RwlockInvariant, PTL

(* readers, rdlock_count and owner agree with what guest code holds, so    *)
(* that unlock takes the branch of the lock its caller holds.              *)
THEOREM RwlockCounts == Spec => []CountsAgree
  <1>1. IInv => CountsAgree BY DEF IInv
  <1> QED BY <1>1, RwlockInvariant, PTL

(* No thread sleeps in lock or lock_shared beside a lock it could take:    *)
(* the two notifications of SharedFirstMutex are enough.                   *)
THEOREM RwlockNoLostWake == Spec => []SleepersBlocked
  <1>1. IInv => SleepersBlocked BY DEF IInv
  <1> QED BY <1>1, RwlockInvariant, PTL
-----------------------------------------------------------------------------
(* POSIX semaphores.                                                       *)

(* Nobody is listed at first. *)
LEMMA SemInitOK == SemInit => SemIInv
  <1> SUFFICES ASSUME SemInit PROVE SemIInv OBVIOUS
  <1>1. SemTypeOK BY PosixSemAssumption DEF SemInit, SemTypeOK, ListedIsSleeping
  <1>2. MutexAgrees BY PosixSemAssumption DEF SemInit, MutexAgrees
  <1>3. UnlistedHasPermit /\ CheckCovered /\ VictimAgrees /\ NoStrandedToken /\ NoLostCancel
    BY DEF SemInit, UnlistedHasPermit, CheckCovered, VictimAgrees, NoStrandedToken, NoLostCancel
  <1> QED BY <1>1, <1>2, <1>3 DEF SemIInv

(* A step that moves one thread t, that is not in publish or kick before   *)
(* it and neither asleep nor in check after it, raises no value and takes  *)
(* no permit from another thread, keeps what the invariant says of them.   *)
LEMMA LeaveOK ==
    ASSUME SemIInv, NEW t \in Threads, SemTypeOK', MutexAgrees',
           NEW l \in {"run", "try", "lock", "remove", "retry", "dead"},
           pc' = [pc EXCEPT ![t] = l], pc[t] \notin {"publish", "kick"}, value' <= value,
           \A u \in Threads : u # t => sema'[u] = sema[u],
           \A u \in Threads : u # t => (u \in waiters' <=> u \in waiters),
           UNCHANGED <<cancel_pending, victim>>
    PROVE  SemIInv'
  <1>0. value \in Nat /\ value' \in Nat BY PosixSemAssumption DEF SemIInv, SemTypeOK
  <1>1. \A u \in Threads : pc'[u] = IF u = t THEN l ELSE pc[u] BY DEF SemIInv, SemTypeOK
  <1>2. \A u \in Threads : pc[u] = "publish" => pc'[u] = "publish" BY <1>1
  <1>3. UnlistedHasPermit' BY <1>1 DEF SemIInv, UnlistedHasPermit
  <1>4. CheckCovered' BY <1>0, <1>1, <1>2 DEF SemIInv, CheckCovered
  <1>5. NoStrandedToken' BY <1>0, <1>1, <1>2 DEF SemIInv, NoStrandedToken
  <1>6. NoLostCancel' BY <1>1 DEF SemIInv, NoLostCancel
  <1>7. VictimAgrees' BY <1>1 DEF SemIInv, VictimAgrees
  <1> QED BY <1>3, <1>4, <1>5, <1>6, <1>7 DEF SemIInv

(* A call begins: nothing that the invariant relates has changed. *)
LEMMA WaitOK == ASSUME SemIInv, NEW t \in Threads, Wait(t) PROVE SemIInv'
  <1> USE DEF Wait, Goto
  <1>1. SemTypeOK' BY PosixSemAssumption DEF SemIInv, SemTypeOK, ListedIsSleeping
  <1>2. MutexAgrees' BY DEF SemIInv, SemTypeOK, MutexAgrees
  <1>3. value' <= value BY PosixSemAssumption DEF SemIInv, SemTypeOK
  <1> QED BY <1>1, <1>2, <1>3, LeaveOK

(* The value is taken without the mutex. *)
LEMMA SemTryOK == ASSUME SemIInv, NEW t \in Threads, SemTry(t) PROVE SemIInv'
  <1> USE DEF SemTry, Goto, TryAcquire, Return, TestCancel
  <1>1. PICK l \in {"run", "lock", "dead"} : pc' = [pc EXCEPT ![t] = l] OBVIOUS
  <1>2. SemTypeOK'
    <2>1. value' \in 0 .. MaxValue BY PosixSemAssumption DEF SemIInv, SemTypeOK
    <2>2. timed' \in [Threads -> {"never", "at", "rel", "again"}] /\ woke' \in [Threads -> BOOLEAN]
      BY DEF SemIInv, SemTypeOK
    <2> QED BY <1>1, <2>1, <2>2 DEF SemIInv, SemTypeOK, ListedIsSleeping
  <1>3. MutexAgrees' BY <1>1 DEF SemIInv, SemTypeOK, MutexAgrees
  <1>4. value' <= value BY PosixSemAssumption DEF SemIInv, SemTypeOK
  <1> QED BY <1>1, <1>2, <1>3, <1>4, LeaveOK

(* The value once more under wait_mutex: it is taken, or it is 0 and the   *)
(* thread keeps the mutex.                                                 *)
LEMMA LockAndClearOK == ASSUME SemIInv, NEW t \in Threads, LockAndClear(t) PROVE SemIInv'
  <1> USE DEF LockAndClear, Goto
  <1>1. CASE TryAcquire /\ Return(t) /\ UNCHANGED <<wait_mutex, sema>>
    <2> USE <1>1 DEF TryAcquire, Return
    <2>1. SemTypeOK'
      <3>1. value' \in 0 .. MaxValue BY PosixSemAssumption DEF SemIInv, SemTypeOK
      <3> QED BY <3>1 DEF SemIInv, SemTypeOK, ListedIsSleeping
    <2>2. MutexAgrees' BY DEF SemIInv, SemTypeOK, MutexAgrees
    <2>3. value' <= value BY PosixSemAssumption DEF SemIInv, SemTypeOK
    <2> QED BY <2>1, <2>2, <2>3, LeaveOK
  <1>2. CASE ~(TryAcquire /\ Return(t) /\ UNCHANGED <<wait_mutex, sema>>)
    <2>0. /\ value = 0 /\ value' = value /\ wait_mutex' = t /\ wait_mutex = NULL
          /\ sema' = [sema EXCEPT ![t] = 0] /\ pc' = [pc EXCEPT ![t] = "check"]
          /\ UNCHANGED <<waiters, timed, woke, cancel_pending, victim>> /\ pc[t] = "lock"
      BY <1>2
    <2>1. SemTypeOK' BY <2>0 DEF SemIInv, SemTypeOK, ListedIsSleeping
    <2>2. MutexAgrees' BY <2>0, PosixSemAssumption DEF SemIInv, SemTypeOK, MutexAgrees
    <2>3. UnlistedHasPermit' BY <2>0 DEF SemIInv, SemTypeOK, UnlistedHasPermit
    <2>4. CheckCovered' /\ NoStrandedToken' BY <2>0 DEF CheckCovered, NoStrandedToken
    <2>5. NoLostCancel' BY <2>0 DEF SemIInv, SemTypeOK, NoLostCancel
    <2>6. VictimAgrees' BY <2>0 DEF SemIInv, SemTypeOK, VictimAgrees
    <2> QED BY <2>1, <2>2, <2>3, <2>4, <2>5, <2>6 DEF SemIInv
  <1> QED BY <1>1, <1>2

(* The waiter lists itself and sleeps, or leaves by its cancellation; a    *)
(* token that came in the meantime has its publisher waiting for the mutex.*)
LEMMA PublishOK == ASSUME SemIInv, NEW t \in Threads, Publish(t) PROVE SemIInv'
  <1> USE DEF Publish, Goto
  <1>0. wait_mutex = t BY DEF SemIInv, MutexAgrees
  <1>1. CASE cancel_pending[t]
    <2> USE <1>1
    <2>1. SemTypeOK' BY DEF SemIInv, SemTypeOK, ListedIsSleeping
    <2>2. MutexAgrees' BY <1>0, PosixSemAssumption DEF SemIInv, SemTypeOK, MutexAgrees
    <2>3. value' <= value BY PosixSemAssumption DEF SemIInv, SemTypeOK
    <2> QED BY <2>1, <2>2, <2>3, LeaveOK
  <1>2. CASE ~cancel_pending[t]
    <2> USE <1>2
    <2>1. SemTypeOK' BY DEF SemIInv, SemTypeOK, ListedIsSleeping
    <2>2. MutexAgrees' BY <1>0, PosixSemAssumption DEF SemIInv, SemTypeOK, MutexAgrees
    <2>3. UnlistedHasPermit' BY DEF SemIInv, SemTypeOK, UnlistedHasPermit
    <2>4. \A u \in Threads : pc'[u] = IF u = t THEN "sleep" ELSE pc[u] BY DEF SemIInv, SemTypeOK
    <2>5. CheckCovered' BY <2>4 DEF SemIInv, CheckCovered
    <2>6. NoStrandedToken' BY <2>4 DEF SemIInv, CheckCovered, NoStrandedToken
    <2>7. NoLostCancel' BY <2>4 DEF SemIInv, NoLostCancel
    <2>8. VictimAgrees' BY <2>4 DEF SemIInv, VictimAgrees
    <2> QED BY <2>1, <2>2, <2>3, <2>5, <2>6, <2>7, <2>8 DEF SemIInv
  <1> QED BY <1>1, <1>2

(* The sleeper takes its permit, or its deadline passes. *)
LEMMA SleepOK == ASSUME SemIInv, NEW t \in Threads, Sleep(t) PROVE SemIInv'
  <1> USE DEF Sleep, Goto
  <1>1. SemTypeOK'
    <2>1. woke' \in [Threads -> BOOLEAN] BY DEF SemIInv, SemTypeOK
    <2>3. sema' \in [Threads -> Nat]
      <3>1. sema[t] \in Nat BY DEF SemIInv, SemTypeOK
      <3> QED BY <3>1 DEF SemIInv, SemTypeOK
    <2>2. timed' \in [Threads -> {"never", "at", "rel", "again"}] BY DEF SemIInv, SemTypeOK
    <2> QED BY <2>1, <2>2, <2>3 DEF SemIInv, SemTypeOK, ListedIsSleeping
  <1>2. MutexAgrees' BY DEF SemIInv, SemTypeOK, MutexAgrees
  <1>3. value' <= value BY PosixSemAssumption DEF SemIInv, SemTypeOK
  <1>4. \A u \in Threads : u # t => sema'[u] = sema[u] BY DEF SemIInv, SemTypeOK
  <1> QED BY <1>1, <1>2, <1>3, <1>4, LeaveOK

(* The thread takes itself off the list. *)
LEMMA RemoveOK == ASSUME SemIInv, NEW t \in Threads, Remove(t) PROVE SemIInv'
  <1> USE DEF Remove, Goto
  <1>1. SemTypeOK' BY DEF SemIInv, SemTypeOK, ListedIsSleeping
  <1>2. MutexAgrees' BY DEF SemIInv, SemTypeOK, MutexAgrees
  <1>3. value' <= value BY PosixSemAssumption DEF SemIInv, SemTypeOK
  <1> QED BY <1>1, <1>2, <1>3, LeaveOK

(* A call that was woken looks again, or returns. *)
LEMMA RetryOK == ASSUME SemIInv, NEW t \in Threads, Retry(t) PROVE SemIInv'
  <1> USE DEF Retry, Goto, TryAcquire, Return
  <1>1. PICK l \in {"run", "try", "dead"} : pc' = [pc EXCEPT ![t] = l] OBVIOUS
  <1>2. SemTypeOK'
    <2>1. value' \in 0 .. MaxValue BY PosixSemAssumption DEF SemIInv, SemTypeOK
    <2>2. timed' \in [Threads -> {"never", "at", "rel", "again"}] /\ woke' \in [Threads -> BOOLEAN]
      BY DEF SemIInv, SemTypeOK
    <2> QED BY <1>1, <2>1, <2>2 DEF SemIInv, SemTypeOK, ListedIsSleeping
  <1>3. MutexAgrees' BY <1>1 DEF SemIInv, SemTypeOK, MutexAgrees
  <1>4. value' <= value BY PosixSemAssumption DEF SemIInv, SemTypeOK
  <1> QED BY <1>1, <1>2, <1>3, <1>4, LeaveOK

(* The value is raised and the poster is the publisher. *)
LEMMA PostOK == ASSUME SemIInv, NEW t \in Threads, Post(t) PROVE SemIInv'
  <1> USE DEF Post, Goto
  <1>1. SemTypeOK' BY PosixSemAssumption DEF SemIInv, SemTypeOK, ListedIsSleeping
  <1>2. MutexAgrees' BY DEF SemIInv, SemTypeOK, MutexAgrees
  <1>3. pc'[t] = "publish" BY DEF SemIInv, SemTypeOK
  <1>4. CheckCovered' /\ NoStrandedToken' BY <1>3 DEF CheckCovered, NoStrandedToken
  <1>5. UnlistedHasPermit' BY DEF SemIInv, SemTypeOK, UnlistedHasPermit
  <1>6. NoLostCancel' BY DEF SemIInv, SemTypeOK, NoLostCancel
  <1>7. VictimAgrees' BY DEF SemIInv, SemTypeOK, VictimAgrees
  <1> QED BY <1>1, <1>2, <1>4, <1>5, <1>6, <1>7 DEF SemIInv

(* With wait_mutex free nobody is in check, and after the step no sleeper  *)
(* is without a permit.                                                    *)
LEMMA WakeWaitersOK == ASSUME SemIInv, NEW t \in Threads, WakeWaiters(t) PROVE SemIInv'
  <1> USE DEF WakeWaiters, Goto
  <1>1. SemTypeOK' BY DEF SemIInv, SemTypeOK, ListedIsSleeping
  <1>2. \A u \in Threads : pc[u] # "check" BY PosixSemAssumption DEF SemIInv, MutexAgrees
  <1>3. MutexAgrees' BY <1>2 DEF SemIInv, SemTypeOK, MutexAgrees
  <1>4. \A u \in Threads : pc'[u] = IF u = t THEN "run" ELSE pc[u] BY DEF SemIInv, SemTypeOK
  <1>5. \A u \in Threads : pc'[u] = "sleep" => sema'[u] > 0
    BY <1>4 DEF SemIInv, SemTypeOK, UnlistedHasPermit
  <1>6. \A u \in Threads : sema'[u] \in Nat BY <1>1 DEF SemTypeOK
  <1>7. UnlistedHasPermit' /\ NoStrandedToken' /\ NoLostCancel'
    BY <1>5, <1>6 DEF UnlistedHasPermit, NoStrandedToken, NoLostCancel
  <1>8. CheckCovered' BY <1>2, <1>4 DEF CheckCovered
  <1>9. VictimAgrees' BY <1>4 DEF SemIInv, VictimAgrees
  <1> QED BY <1>1, <1>3, <1>7, <1>8, <1>9 DEF SemIInv

(* A cancelled sleeper is covered by the canceller that names it. *)
LEMMA CancelOK ==
    ASSUME SemIInv, NEW t \in Threads, NEW td \in Threads, Cancel(t, td) PROVE SemIInv'
  <1> USE DEF Cancel, Goto
  <1>1. SemTypeOK' BY DEF SemIInv, SemTypeOK, ListedIsSleeping
  <1>2. MutexAgrees' BY DEF SemIInv, SemTypeOK, MutexAgrees
  <1>3. \A u \in Threads : pc'[u] = IF u = t THEN "kick" ELSE pc[u] BY DEF SemIInv, SemTypeOK
  <1>4. UnlistedHasPermit' BY <1>3 DEF SemIInv, UnlistedHasPermit
  <1>5. CheckCovered' /\ NoStrandedToken' BY <1>3 DEF SemIInv, CheckCovered, NoStrandedToken
  <1>6. NoLostCancel'
    <2> SUFFICES ASSUME NEW u \in Threads, pc'[u] = "sleep", cancel_pending'[u], sema'[u] = 0
                 PROVE  \E s \in Threads : victim'[s] = u
      BY DEF NoLostCancel
    <2>1. CASE u = td BY <2>1 DEF SemIInv, SemTypeOK
    <2>2. CASE u # td
      <3>1. PICK s \in Threads : victim[s] = u
        BY <1>3, <2>2 DEF SemIInv, SemTypeOK, NoLostCancel
      <3>2. s # t BY <3>1, PosixSemAssumption DEF SemIInv, VictimAgrees
      <3> QED BY <3>1, <3>2 DEF SemIInv, SemTypeOK
    <2> QED BY <2>1, <2>2
  <1>7. VictimAgrees' BY <1>3, PosixSemAssumption DEF SemIInv, SemTypeOK, VictimAgrees
  <1> QED BY <1>1, <1>2, <1>4, <1>5, <1>6, <1>7 DEF SemIInv

(* The canceller's release: the victim has a permit now. *)
LEMMA KickOK == ASSUME SemIInv, NEW t \in Threads, Kick(t) PROVE SemIInv'
  <1> USE DEF Kick, Goto
  <1> DEFINE v == victim[t]
  <1>0. v \in Threads BY DEF SemIInv, SemTypeOK, VictimAgrees
  <1>1. SemTypeOK' BY <1>0 DEF SemIInv, SemTypeOK, ListedIsSleeping
  <1>2. MutexAgrees' BY DEF SemIInv, SemTypeOK, MutexAgrees
  <1>3. \A u \in Threads : pc'[u] = IF u = t THEN "run" ELSE pc[u] BY DEF SemIInv, SemTypeOK
  <1>4. \A u \in Threads : sema'[u] = IF u = v THEN sema[u] + 1 ELSE sema[u]
    BY DEF SemIInv, SemTypeOK
  <1>5. \A u \in Threads : sema[u] \in Nat BY DEF SemIInv, SemTypeOK
  <1> HIDE DEF v
  <1>6. UnlistedHasPermit' BY <1>3, <1>4, <1>5 DEF SemIInv, UnlistedHasPermit
  <1>7. CheckCovered' BY <1>3 DEF SemIInv, CheckCovered
  <1>8. NoStrandedToken' BY <1>3, <1>4, <1>5 DEF SemIInv, NoStrandedToken
  <1>9. NoLostCancel'
    <2> SUFFICES ASSUME NEW u \in Threads, pc'[u] = "sleep", cancel_pending'[u], sema'[u] = 0
                 PROVE  \E s \in Threads : victim'[s] = u
      BY DEF NoLostCancel
    <2>1. u # v /\ sema[u] = 0 BY <1>4, <1>5
    <2>2. PICK s \in Threads : victim[s] = u BY <1>3, <2>1 DEF SemIInv, NoLostCancel
    <2> QED BY <2>1, <2>2 DEF v, SemIInv, SemTypeOK
  <1>10. VictimAgrees' BY <1>3 DEF SemIInv, SemTypeOK, VictimAgrees
  <1> QED BY <1>1, <1>2, <1>6, <1>7, <1>8, <1>9, <1>10 DEF SemIInv

(* Every step preserves the invariant: one case per action. *)
LEMMA SemNextOK == SemIInv /\ [SemNext]_semVars => SemIInv'
  <1> SUFFICES ASSUME SemIInv, [SemNext]_semVars PROVE SemIInv' OBVIOUS
  <1>1. CASE UNCHANGED semVars
    BY <1>1 DEF semVars, SemIInv, SemTypeOK, ListedIsSleeping, MutexAgrees, UnlistedHasPermit,
       CheckCovered, VictimAgrees, NoStrandedToken, NoLostCancel
  <1>2. ASSUME NEW t \in Threads, Step(t) PROVE SemIInv'
    BY <1>2, SemTryOK, LockAndClearOK, PublishOK, SleepOK, RemoveOK, RetryOK, WakeWaitersOK,
       KickOK DEF Step
  <1>3. ASSUME NEW t \in Threads, Wait(t) \/ Post(t) PROVE SemIInv' BY <1>3, WaitOK, PostOK
  <1>4. ASSUME NEW t \in Threads, NEW td \in Threads, Cancel(t, td) PROVE SemIInv'
    BY <1>4, CancelOK
  <1> QED BY <1>1, <1>2, <1>3, <1>4 DEF SemNext

(* The inductive invariant of the POSIX semaphore holds in every state of  *)
(* PthreadSemWait, posix_sem_post and posix_pthread_cancel.                *)
THEOREM PosixSemInvariant == SemSpec => []SemIInv
  BY SemInitOK, SemNextOK, PTL DEF SemSpec

(* The value stays within 0 .. SEM_VALUE_MAX and the list names sleepers   *)
(* only, whatever races with the lock-free value.                          *)
THEOREM PosixSemTypes == SemSpec => []SemTypeOK
  <1>1. SemIInv => SemTypeOK BY DEF SemIInv
  <1> QED BY <1>1, PosixSemInvariant, PTL

(* No token is stranded: trying the value again under wait_mutex closes    *)
(* the window between the last look and the sleep, for any number of       *)
(* posters and waiters.                                                    *)
THEOREM PosixSemNoStrandedToken == SemSpec => []NoStrandedToken
  <1>1. SemIInv => NoStrandedToken BY DEF SemIInv
  <1> QED BY <1>1, PosixSemInvariant, PTL

(* No cancellation is lost between ShouldCancel and the sleep. *)
THEOREM PosixSemNoLostCancel == SemSpec => []NoLostCancel
  <1>1. SemIInv => NoLostCancel BY DEF SemIInv
  <1> QED BY <1>1, PosixSemInvariant, PTL
=============================================================================
