---------------------------- MODULE SeqOpsProofs ----------------------------
(* Facts about the sequence helpers, and induction on natural numbers in   *)
(* the form the provers can use: over a set instead of a predicate.        *)
EXTENDS SeqOps, WellFoundedInduction, TLAPS

(* A set of natural numbers that is not empty has a least element. *)
LEMMA LeastElement ==
    ASSUME NEW T \in SUBSET Nat, T # {}
    PROVE  \E m \in T : \A k \in T : m <= k
  <1>1. PICK m \in T : \A k \in T : ~ (<<k, m>> \in OpToRel(<, Nat))
    BY NatLessThanWellFounded, WFMin, Zenon
  <1>2. \A k \in T : ~ (k < m)
    BY <1>1 DEF OpToRel
  <1> QED
    BY <1>2

(* A set that has 0 and the successor of each of its numbers below n has   *)
(* every number up to n.                                                   *)
LEMMA InductionUpTo ==
    ASSUME NEW n \in Nat, NEW T, 0 \in T, \A i \in 0 .. n - 1 : i \in T => i + 1 \in T
    PROVE  0 .. n \subseteq T
  <1> DEFINE B == (0 .. n) \ T
  <1>1. CASE B # {}
    <2>0. B \in SUBSET Nat
      OBVIOUS
    <2> HIDE DEF B
    <2>1. PICK m \in B : \A k \in B : m <= k
      BY <1>1, <2>0, LeastElement
    <2> USE DEF B
    <2>2. m # 0 /\ m - 1 \in 0 .. n - 1
      OBVIOUS
    <2>3. m - 1 \notin B
      BY <2>1, <2>2
    <2> QED
      BY <2>2, <2>3
  <1> QED
    BY <1>1

(* Definition by recursion: f starts with c and goes on as step says; each *)
(* step function has the function it unfolds to.  The definitions stay     *)
(* folded where the lemma is cited, so that the provers match them.        *)
Steps(n, V) == [1 .. n -> [V -> V]]
Unfolding(n, V, c, step) ==
    {f \in [0 .. n -> V] : f[0] = c /\ \A i \in 1 .. n : f[i] = step[i][f[i - 1]]}

(* Every such recursion defines a function. *)
LEMMA Recursion ==
    ASSUME NEW n \in Nat, NEW V, NEW c \in V, NEW step \in Steps(n, V)
    PROVE  \E f : f \in Unfolding(n, V, c, step)
  <1> DEFINE T == {k \in 0 .. n : \E f : f \in Unfolding(k, V, c, step)}
  <1>1. 0 \in T
    <2> DEFINE g == [i \in 0 .. 0 |-> c]
    <2>1. g \in Unfolding(0, V, c, step)
      BY DEF Unfolding
    <2> HIDE DEF g
    <2> QED
      BY <2>1
  <1>2. ASSUME NEW k \in 0 .. n - 1, k \in T
        PROVE  k + 1 \in T
    <2>1. PICK f : f \in Unfolding(k, V, c, step)
      BY <1>2
    <2> DEFINE g == [i \in 0 .. k + 1 |-> IF i = k + 1 THEN step[k + 1][f[k]] ELSE f[i]]
    <2>2. f \in [0 .. k -> V] /\ f[0] = c /\ \A i \in 1 .. k : f[i] = step[i][f[i - 1]]
      BY <2>1 DEF Unfolding
    <2>3. step[k + 1] \in [V -> V]
      BY <1>2 DEF Steps
    <2>4. g \in [0 .. k + 1 -> V] /\ g[0] = c
      BY <2>2, <2>3
    <2>5. ASSUME NEW i \in 1 .. k + 1 PROVE g[i] = step[i][g[i - 1]]
      <3>1. CASE i = k + 1
        BY <3>1
      <3>2. CASE i \in 1 .. k
        BY <2>2, <3>2
      <3> QED
        BY <2>5, <3>1, <3>2
    <2> HIDE DEF g
    <2>6. g \in Unfolding(k + 1, V, c, step)
      BY <2>4, <2>5 DEF Unfolding
    <2> QED
      BY <1>2, <2>6
  <1> HIDE DEF T
  <1>3. 0 .. n \subseteq T
    BY <1>1, <1>2, InductionUpTo, Zenon
  <1>4. n \in T
    BY <1>3
  <1> QED
    BY <1>4 DEF T

(* A function on 1 .. n is a sequence of length n. *)
LEMMA FunctionIsSeq ==
    ASSUME NEW S, NEW n \in Nat, NEW f \in [1 .. n -> S]
    PROVE  f \in Seq(S) /\ Len(f) = n
  OBVIOUS

(* The empty sequence is the one of length 0. *)
LEMMA EmptyIffLen ==
    ASSUME NEW S, NEW s \in Seq(S)
    PROVE  s = << >> <=> Len(s) = 0
  OBVIOUS

(* No element twice. *)
Distinct(s) == \A i, j \in 1 .. Len(s) : s[i] = s[j] => i = j

(* The head and the tail of a sequence hold its elements.                  *)
LEMMA TailElems ==
    ASSUME NEW V, NEW s \in Seq(V), s # << >>
    PROVE  /\ Head(s) \in V /\ Tail(s) \in Seq(V) /\ Len(Tail(s)) = Len(s) - 1
           /\ Elems(s) = {Head(s)} \cup Elems(Tail(s))
           /\ Distinct(s) => Distinct(Tail(s)) /\ Head(s) \notin Elems(Tail(s))
  <1>1. Head(s) = s[1] /\ Head(s) \in V /\ Tail(s) \in Seq(V) /\ Len(Tail(s)) = Len(s) - 1
        /\ \A i \in 1 .. Len(s) - 1 : Tail(s)[i] = s[i + 1]
    OBVIOUS
  <1>2. Len(s) \in Nat \ {0}
    BY EmptyIffLen
  <1>3. ASSUME NEW i \in 1 .. Len(s) PROVE s[i] \in {Head(s)} \cup Elems(Tail(s))
    <2>1. CASE i = 1
      BY <1>1, <2>1
    <2>2. CASE i # 1
      <3>1. i - 1 \in 1 .. Len(s) - 1 /\ (i - 1) + 1 = i
        BY <1>2, <2>2
      <3>2. Tail(s)[i - 1] = s[i]
        BY <1>1, <3>1
      <3> QED
        BY <1>1, <3>1, <3>2 DEF Elems
    <2> QED
      BY <2>1, <2>2
  <1>4. ASSUME NEW i \in 1 .. Len(s) - 1 PROVE Tail(s)[i] \in Elems(s)
    <2>1. i + 1 \in 1 .. Len(s)
      BY <1>2
    <2> QED
      BY <1>1, <2>1 DEF Elems
  <1>5. Head(s) \in Elems(s)
    <2>1. 1 \in 1 .. Len(s)
      BY <1>2
    <2> QED
      BY <1>1, <2>1 DEF Elems
  <1>6. \A x \in Elems(s) : x \in {Head(s)} \cup Elems(Tail(s))
    BY <1>3 DEF Elems
  <1>7. \A x \in Elems(Tail(s)) : x \in Elems(s)
    BY <1>1, <1>4 DEF Elems
  <1>8. ASSUME Distinct(s) PROVE Distinct(Tail(s)) /\ Head(s) \notin Elems(Tail(s))
    <2>1. \A i \in 1 .. Len(s) - 1 : i + 1 \in 1 .. Len(s) /\ i + 1 # 1
      BY <1>2
    <2>2. 1 \in 1 .. Len(s)
      BY <1>2
    <2>3. \A i \in 1 .. Len(s) - 1 : Tail(s)[i] # Head(s)
      BY <1>1, <1>8, <2>1, <2>2 DEF Distinct
    <2>4. ASSUME NEW i \in 1 .. Len(s) - 1, NEW j \in 1 .. Len(s) - 1, Tail(s)[i] = Tail(s)[j]
          PROVE  i = j
      <3>1. i + 1 = j + 1
        BY <1>1, <1>8, <2>1, <2>4 DEF Distinct
      <3> QED
        BY <3>1
    <2> QED
      BY <1>1, <2>3, <2>4 DEF Distinct, Elems
  <1> QED
    BY <1>1, <1>5, <1>6, <1>7, <1>8

(* Appending. *)
LEMMA AppendElems ==
    ASSUME NEW V, NEW s \in Seq(V), NEW x \in V
    PROVE  /\ Append(s, x) \in Seq(V) /\ Len(Append(s, x)) = Len(s) + 1
           /\ Elems(Append(s, x)) = Elems(s) \cup {x}
           /\ Distinct(s) /\ x \notin Elems(s) => Distinct(Append(s, x))
  <1> DEFINE r == Append(s, x)
             n == Len(s)
  <1>1. r \in Seq(V) /\ Len(r) = n + 1 /\ n \in Nat /\ r[n + 1] = x
        /\ \A i \in 1 .. n : r[i] = s[i]
    OBVIOUS
  <1> HIDE DEF r
  <1>2. \A i \in 1 .. n + 1 : i \in 1 .. n \/ i = n + 1
    BY <1>1
  <1>3. n + 1 \in 1 .. n + 1 /\ \A i \in 1 .. n : i \in 1 .. n + 1
    BY <1>1
  <1>4. \A y \in Elems(r) : y \in Elems(s) \cup {x}
    BY <1>1, <1>2 DEF Elems
  <1>5. \A y \in Elems(s) \cup {x} : y \in Elems(r)
    BY <1>1, <1>3 DEF Elems
  <1>6. ASSUME Distinct(s), x \notin Elems(s) PROVE Distinct(r)
    <2>1. \A i \in 1 .. n : s[i] # x
      BY <1>6 DEF Elems
    <2> SUFFICES ASSUME NEW i \in 1 .. n + 1, NEW j \in 1 .. n + 1, r[i] = r[j] PROVE i = j
      BY <1>1 DEF Distinct
    <2>2. CASE i \in 1 .. n /\ j \in 1 .. n
      BY <1>1, <1>6, <2>2 DEF Distinct
    <2> QED
      BY <1>1, <1>2, <2>1, <2>2
  <1> QED
    BY <1>1, <1>4, <1>5, <1>6 DEF r

(* What Without returns: one element fewer, the others in their order.     *)
LEMMA WithoutSeq ==
    ASSUME NEW S, NEW s \in Seq(S), NEW i \in 1 .. Len(s)
    PROVE  /\ Without(s, i) \in Seq(S)
           /\ Len(Without(s, i)) = Len(s) - 1
           /\ \A j \in 1 .. Len(s) - 1 :
                  Without(s, i)[j] = IF j < i THEN s[j] ELSE s[j + 1]
  <1>1. Len(s) - 1 \in Nat
    OBVIOUS
  <1>2. Without(s, i) \in [1 .. Len(s) - 1 -> S]
    BY DEF Without
  <1> QED
    BY <1>1, <1>2, FunctionIsSeq DEF Without

(* IndexOf finds a position of x when there is one. *)
LEMMA IndexOfPosition ==
    ASSUME NEW s, NEW x, \E i \in 1 .. Len(s) : s[i] = x
    PROVE  IndexOf(s, x) \in 1 .. Len(s) /\ s[IndexOf(s, x)] = x
  BY DEF IndexOf

(* r is what remains of s without the elements in S, in its order: at[k]   *)
(* is the position in s of the k-th element that is kept.                  *)
Positions(r, s, S) ==
    {at \in [1 .. Len(r) -> 1 .. Len(s)] :
        /\ \A k \in 1 .. Len(r) : r[k] = s[at[k]] /\ r[k] \notin S
        /\ \A k, l \in 1 .. Len(r) : k < l => at[k] < at[l]
        /\ \A i \in 1 .. Len(s) : s[i] \notin S => \E k \in 1 .. Len(r) : at[k] = i}

(* WithoutAll keeps the other elements, in their order. *)
LEMMA WithoutAllSeq ==
    ASSUME NEW V, NEW s \in Seq(V), NEW S
    PROVE  /\ WithoutAll(s, S) \in Seq(V)
           /\ \E at : at \in Positions(WithoutAll(s, S), s, S)
  <1> DEFINE n == Len(s)
             e == << >>
             add == [i \in 1 .. n |-> [q \in Seq(V) |->
                         IF s[i] \in S THEN q ELSE Append(q, s[i])]]
             kept == CHOOSE f : f = [i \in 0 .. n |->
                         IF i = 0 THEN << >>
                         ELSE IF s[i] \in S THEN f[i - 1] ELSE Append(f[i - 1], s[i])]
  <1>0. n \in Nat /\ WithoutAll(s, S) = kept[n]
    BY DEF WithoutAll
  <1>1. add \in [1 .. n -> [Seq(V) -> Seq(V)]]
    OBVIOUS
  <1>2. e \in Seq(V)
    OBVIOUS
  <1>3. \A i \in 1 .. n, q \in Seq(V) :
            add[i][q] = IF s[i] \in S THEN q ELSE Append(q, s[i])
    OBVIOUS
  <1> HIDE DEF add, n, e
  <1>4. PICK f \in [0 .. n -> Seq(V)] :
            f[0] = e /\ \A i \in 1 .. n : f[i] = add[i][f[i - 1]]
    <2>1. add \in Steps(n, Seq(V))
      BY <1>1 DEF Steps
    <2>2. PICK f : f \in Unfolding(n, Seq(V), e, add)
      BY <1>0, <1>2, <2>1, Recursion, Zenon
    <2> QED
      BY <2>2 DEF Unfolding
  <1>5. \A i \in 1 .. n : f[i] = IF s[i] \in S THEN f[i - 1] ELSE Append(f[i - 1], s[i])
    <2> SUFFICES ASSUME NEW i \in 1 .. n
                 PROVE  f[i] = IF s[i] \in S THEN f[i - 1] ELSE Append(f[i - 1], s[i])
      OBVIOUS
    <2>1. i - 1 \in 0 .. n /\ f[i - 1] \in Seq(V)
      BY <1>0
    <2> QED
      BY <1>3, <1>4, <2>1, Zenon
  <1>6. f = [i \in 0 .. n |-> IF i = 0 THEN e
                              ELSE IF s[i] \in S THEN f[i - 1] ELSE Append(f[i - 1], s[i])]
    <2>1. \A i \in 0 .. n : i = 0 \/ i \in 1 .. n
      BY <1>0
    <2> QED
      BY <1>4, <1>5, <2>1, Zenon
  <1>7. /\ kept[0] = e
        /\ \A i \in 1 .. n : kept[i] = IF s[i] \in S THEN kept[i - 1]
                                        ELSE Append(kept[i - 1], s[i])
    <2>1. kept = [i \in 0 .. n |-> IF i = 0 THEN e
                                   ELSE IF s[i] \in S THEN kept[i - 1]
                                   ELSE Append(kept[i - 1], s[i])]
      BY <1>6, Zenon DEF e
    <2> HIDE DEF kept
    <2>2. 0 \in 0 .. n /\ \A i \in 1 .. n : i \in 0 .. n /\ i # 0
      BY <1>0
    <2> QED
      BY <2>1, <2>2, Zenon
  <1> HIDE DEF kept
  <1> DEFINE Good(r, i) ==
                /\ r \in Seq(V)
                /\ \E at \in [1 .. Len(r) -> 1 .. i] :
                      /\ \A k \in 1 .. Len(r) : r[k] = s[at[k]] /\ r[k] \notin S
                      /\ \A k, l \in 1 .. Len(r) : k < l => at[k] < at[l]
                      /\ \A j \in 1 .. i : s[j] \notin S => \E k \in 1 .. Len(r) : at[k] = j
             T == {i \in 0 .. n : Good(kept[i], i)}
  <1>8. 0 \in T
    <2> DEFINE at == [k \in 1 .. 0 |-> 1]
    <2>1. at \in [1 .. Len(e) -> 1 .. 0] /\ 1 .. Len(e) = {} /\ 1 .. 0 = {}
      BY DEF e
    <2> HIDE DEF at
    <2>2. Good(e, 0)
      BY <1>2, <2>1
    <2> HIDE DEF Good
    <2> QED
      BY <1>0, <1>7, <2>2
  <1>9. ASSUME NEW i \in 0 .. n - 1, i \in T
        PROVE  i + 1 \in T
    <2> DEFINE r == kept[i]
               q == kept[i + 1]
    <2>1. i + 1 \in 1 .. n /\ s[i + 1] \in V /\ (i + 1) - 1 = i
      BY <1>0, <1>9 DEF n
    <2>2. q = IF s[i + 1] \in S THEN r ELSE Append(r, s[i + 1])
      BY <1>7, <2>1, Zenon
    <2> HIDE DEF q
    <2>3. r \in Seq(V)
      BY <1>9
    <2>4. PICK at \in [1 .. Len(r) -> 1 .. i] :
                      /\ \A k \in 1 .. Len(r) : r[k] = s[at[k]] /\ r[k] \notin S
                      /\ \A k, l \in 1 .. Len(r) : k < l => at[k] < at[l]
                      /\ \A j \in 1 .. i : s[j] \notin S => \E k \in 1 .. Len(r) : at[k] = j
      BY <1>9
    <2> HIDE DEF r
    <2>5. CASE s[i + 1] \in S
      <3>1. at \in [1 .. Len(q) -> 1 .. i + 1]
        BY <2>2, <2>5
      <3>2. \A j \in 1 .. i + 1 : s[j] \notin S => j \in 1 .. i
        BY <2>1, <2>5
      <3>3. Good(q, i + 1)
        BY <2>2, <2>3, <2>4, <2>5, <3>1, <3>2
      <3> QED
        BY <2>1, <3>3 DEF q
    <2>6. CASE s[i + 1] \notin S
      <3> DEFINE m == Len(r)
                 to == [k \in 1 .. m + 1 |-> IF k = m + 1 THEN i + 1 ELSE at[k]]
      <3>1. /\ q \in Seq(V) /\ Len(q) = m + 1 /\ q[m + 1] = s[i + 1] /\ m \in Nat
            /\ \A k \in 1 .. m : q[k] = r[k]
        BY <2>1, <2>2, <2>3, <2>6
      <3> HIDE DEF m
      <3>2. to \in [1 .. Len(q) -> 1 .. i + 1]
        BY <3>1 DEF m
      <3>3. \A k \in 1 .. Len(q) : q[k] = s[to[k]] /\ q[k] \notin S
        BY <2>4, <2>6, <3>1 DEF m
      <3>4. \A k, l \in 1 .. Len(q) : k < l => to[k] < to[l]
        <4> SUFFICES ASSUME NEW k \in 1 .. m + 1, NEW l \in 1 .. m + 1, k < l
                     PROVE  to[k] < to[l]
          BY <3>1
        <4>1. k \in 1 .. m /\ k < m + 1
          BY <3>1
        <4>2. at[k] \in 1 .. i
          BY <4>1 DEF m
        <4>3. CASE l = m + 1
          <5>1. i \in Nat
            BY <1>0
          <5>2. to[k] = at[k] /\ to[l] = i + 1
            BY <3>1, <4>1, <4>3
          <5> HIDE DEF to
          <5>3. at[k] \in Nat /\ at[k] <= i
            BY <4>2, <5>1
          <5> QED
            BY <5>1, <5>2, <5>3
        <4>4. CASE l # m + 1
          <5>1. l \in 1 .. m
            BY <3>1, <4>4
          <5>2. to[k] = at[k] /\ to[l] = at[l]
            BY <3>1, <4>1, <4>4
          <5>3. at[k] < at[l]
            BY <2>4, <4>1, <5>1 DEF m
          <5> QED
            BY <5>2, <5>3
        <4> QED
          BY <4>3, <4>4
      <3>5. \A j \in 1 .. i + 1 : s[j] \notin S => \E k \in 1 .. Len(q) : to[k] = j
        <4> SUFFICES ASSUME NEW j \in 1 .. i + 1, s[j] \notin S
                     PROVE  \E k \in 1 .. Len(q) : to[k] = j
          OBVIOUS
        <4>1. CASE j = i + 1
          BY <3>1, <4>1
        <4>2. CASE j # i + 1
          <5>1. PICK k \in 1 .. m : at[k] = j
            BY <2>4, <4>2 DEF m
          <5> QED
            BY <3>1, <5>1
        <4> QED
          BY <4>1, <4>2
      <3> HIDE DEF to
      <3>6. Good(q, i + 1)
        BY <3>1, <3>2, <3>3, <3>4, <3>5
      <3> QED
        BY <2>1, <3>6 DEF q
    <2> QED
      BY <2>5, <2>6
  <1> HIDE DEF T
  <1>10. 0 .. n \subseteq T
    BY <1>0, <1>8, <1>9, InductionUpTo, Zenon
  <1>11. n \in T
    BY <1>0, <1>10
  <1> QED
    BY <1>0, <1>11 DEF T, n, Positions

(* What the invariants need of it: the elements, and no element twice.     *)
LEMMA WithoutAllElems ==
    ASSUME NEW V, NEW s \in Seq(V), NEW S
    PROVE  /\ WithoutAll(s, S) \in Seq(V)
           /\ Elems(WithoutAll(s, S)) = Elems(s) \ S
           /\ Distinct(s) => Distinct(WithoutAll(s, S))
  <1> DEFINE r == WithoutAll(s, S)
  <1>1. r \in Seq(V)
    BY WithoutAllSeq
  <1> HIDE DEF r
  <1>0. PICK at : at \in Positions(r, s, S)
    BY WithoutAllSeq DEF r
  <1>2. /\ at \in [1 .. Len(r) -> 1 .. Len(s)]
        /\ \A k \in 1 .. Len(r) : r[k] = s[at[k]] /\ r[k] \notin S
        /\ \A k, l \in 1 .. Len(r) : k < l => at[k] < at[l]
        /\ \A h \in 1 .. Len(s) : s[h] \notin S => \E k \in 1 .. Len(r) : at[k] = h
    BY <1>0 DEF Positions
  <1>3. Elems(r) = Elems(s) \ S
    <2>1. \A x \in Elems(r) : x \in Elems(s) \ S
      BY <1>2 DEF Elems
    <2>2. \A x \in Elems(s) \ S : x \in Elems(r)
      BY <1>2 DEF Elems
    <2> QED
      BY <2>1, <2>2
  <1>4. ASSUME Distinct(s) PROVE Distinct(r)
    <2> SUFFICES ASSUME NEW k \in 1 .. Len(r), NEW l \in 1 .. Len(r), r[k] = r[l]
                 PROVE  k = l
      BY DEF Distinct
    <2>1. at[k] = at[l]
      BY <1>2, <1>4 DEF Distinct
    <2>2. ~ (k < l) /\ ~ (l < k)
      BY <1>2, <2>1
    <2> QED
      BY <1>1, <2>2
  <1> QED
    BY <1>1, <1>3, <1>4 DEF r

(* The elements that are kept keep their order.                            *)
LEMMA WithoutAllOrder ==
    ASSUME NEW V, NEW s \in Seq(V), NEW S, Distinct(s),
           NEW i \in 1 .. Len(s), NEW j \in 1 .. Len(s), i < j, s[i] \notin S, s[j] \notin S
    PROVE  \E k, l \in 1 .. Len(WithoutAll(s, S)) :
               /\ k < l
               /\ WithoutAll(s, S)[k] = s[i] /\ WithoutAll(s, S)[l] = s[j]
  <1> DEFINE r == WithoutAll(s, S)
  <1>1. r \in Seq(V)
    BY WithoutAllSeq
  <1> HIDE DEF r
  <1>0. PICK at : at \in Positions(r, s, S)
    BY WithoutAllSeq DEF r
  <1>2. /\ at \in [1 .. Len(r) -> 1 .. Len(s)]
        /\ \A k \in 1 .. Len(r) : r[k] = s[at[k]] /\ r[k] \notin S
        /\ \A k, l \in 1 .. Len(r) : k < l => at[k] < at[l]
        /\ \A h \in 1 .. Len(s) : s[h] \notin S => \E k \in 1 .. Len(r) : at[k] = h
    BY <1>0 DEF Positions
  <1>3. PICK k \in 1 .. Len(r) : at[k] = i
    BY <1>2
  <1>4. PICK l \in 1 .. Len(r) : at[l] = j
    BY <1>2
  <1>5. k < l
    BY <1>1, <1>2, <1>3, <1>4
  <1> QED
    BY <1>2, <1>3, <1>4, <1>5 DEF r

(* FirstOf is the first position of an element of S, or one past the end.  *)
LEMMA FirstOfPosition ==
    ASSUME NEW V, NEW s \in Seq(V), NEW S
    PROVE  /\ FirstOf(s, S) \in 1 .. Len(s) + 1
           /\ FirstOf(s, S) <= Len(s) => s[FirstOf(s, S)] \in S
           /\ \A j \in 1 .. FirstOf(s, S) - 1 : s[j] \notin S
  <1> DEFINE T == {i \in 1 .. Len(s) + 1 : i <= Len(s) => s[i] \in S}
  <1>1. T \in SUBSET Nat /\ Len(s) + 1 \in T /\ Len(s) \in Nat
    OBVIOUS
  <1>2. PICK m \in T : \A k \in T : m <= k
    <2> HIDE DEF T
    <2> QED
      BY <1>1, LeastElement
  <1>3. \A j \in 1 .. m - 1 : j \notin T /\ j \in 1 .. Len(s)
    BY <1>1, <1>2
  <1>4. /\ m \in 1 .. Len(s) + 1
        /\ m <= Len(s) => s[m] \in S
        /\ \A j \in 1 .. m - 1 : s[j] \notin S
    BY <1>2, <1>3
  <1> QED
    BY <1>4 DEF FirstOf

(* InsertBefore adds x at that position and moves the rest by one.         *)
LEMMA InsertBeforeSeq ==
    ASSUME NEW V, NEW s \in Seq(V), NEW x \in V, NEW S
    PROVE  LET r == InsertBefore(s, x, S)
               at == FirstOf(s, S)
           IN  /\ r \in Seq(V) /\ Len(r) = Len(s) + 1
               /\ at \in 1 .. Len(s) + 1 /\ r[at] = x
               /\ \A j \in 1 .. at - 1 : r[j] = s[j]
               /\ \A j \in at .. Len(s) : r[j + 1] = s[j]
               /\ \A j \in at + 1 .. Len(s) + 1 : r[j] = s[j - 1]
  <1> DEFINE r == InsertBefore(s, x, S)
             at == FirstOf(s, S)
             n == Len(s)
  <1>1. n \in Nat /\ at \in 1 .. n + 1
    BY FirstOfPosition
  <1>2. r = [j \in 1 .. n + 1 |-> IF j < at THEN s[j] ELSE IF j = at THEN x ELSE s[j - 1]]
    BY DEF InsertBefore
  <1>3. s \in [1 .. n -> V]
    OBVIOUS
  <1> HIDE DEF r, at, n
  <1>4. r \in [1 .. n + 1 -> V]
    BY <1>1, <1>2, <1>3
  <1>5. r \in Seq(V) /\ Len(r) = n + 1
    BY <1>1, <1>4, FunctionIsSeq
  <1> QED
    BY <1>1, <1>2, <1>5 DEF r, at, n

(* What the invariants need of it.                                         *)
LEMMA InsertBeforeElems ==
    ASSUME NEW V, NEW s \in Seq(V), NEW x \in V, NEW S
    PROVE  /\ InsertBefore(s, x, S) \in Seq(V)
           /\ Elems(InsertBefore(s, x, S)) = Elems(s) \cup {x}
           /\ Distinct(s) /\ x \notin Elems(s) => Distinct(InsertBefore(s, x, S))
  <1> DEFINE r == InsertBefore(s, x, S)
             at == FirstOf(s, S)
             n == Len(s)
  <1>1. /\ r \in Seq(V) /\ Len(r) = n + 1 /\ n \in Nat
        /\ at \in 1 .. n + 1 /\ r[at] = x
        /\ \A j \in 1 .. at - 1 : r[j] = s[j]
        /\ \A j \in at .. n : r[j + 1] = s[j]
        /\ \A j \in at + 1 .. n + 1 : r[j] = s[j - 1]
    BY InsertBeforeSeq
  <1> HIDE DEF r, at, n
  <1>2. \A j \in 1 .. n + 1 : j \in 1 .. at - 1 \/ j = at \/ (j \in at + 1 .. n + 1 /\ j - 1 \in at .. n)
    BY <1>1
  <1>3. Elems(r) = Elems(s) \cup {x}
    <2>1. ASSUME NEW j \in 1 .. n + 1 PROVE r[j] \in Elems(s) \cup {x}
      <3>1. CASE j \in 1 .. at - 1
        BY <1>1, <3>1 DEF Elems, n
      <3>2. CASE j \in at + 1 .. n + 1
        <4>1. r[j] = s[j - 1] /\ j - 1 \in 1 .. n
          BY <1>1, <3>2
        <4> QED
          BY <4>1 DEF Elems, n
      <3> QED
        BY <1>1, <1>2, <3>1, <3>2
    <2>2. ASSUME NEW j \in 1 .. n PROVE s[j] \in Elems(r)
      <3>1. CASE j < at
        BY <1>1, <3>1 DEF Elems
      <3>2. CASE ~ (j < at)
        <4>1. r[j + 1] = s[j] /\ j + 1 \in 1 .. Len(r)
          BY <1>1, <3>2
        <4> QED
          BY <4>1 DEF Elems
      <3> QED
        BY <3>1, <3>2
    <2>3. x \in Elems(r)
      BY <1>1 DEF Elems
    <2> QED
      BY <1>1, <2>1, <2>2, <2>3 DEF Elems, n
  <1>4. ASSUME Distinct(s), x \notin Elems(s) PROVE Distinct(r)
    <2> SUFFICES ASSUME NEW i \in 1 .. n + 1, NEW j \in 1 .. n + 1, i < j, r[i] = r[j]
                 PROVE  FALSE
      BY <1>1 DEF Distinct
    <2>1. \A k \in 1 .. n : s[k] # x
      BY <1>4 DEF Elems, n
    <2>2. \A k, l \in 1 .. n : s[k] = s[l] => k = l
      BY <1>4 DEF Distinct, n
    <2> DEFINE P(k) == IF k < at THEN k ELSE k - 1
    <2>3. ASSUME NEW k \in 1 .. n + 1, k # at
          PROVE  P(k) \in 1 .. n /\ r[k] = s[P(k)]
      BY <1>1, <1>2, <2>3
    <2>4. r[at] = x /\ \A k \in 1 .. n + 1 : k # at => r[k] # x
      BY <1>1, <2>1, <2>3
    <2> HIDE DEF P
    <2>5. i # at /\ j # at
      BY <1>1, <2>4
    <2> USE DEF P
    <2>6. P(i) # P(j)
      BY <1>1, <2>5
    <2> QED
      BY <2>2, <2>3, <2>5, <2>6
  <1> QED
    BY <1>1, <1>3, <1>4 DEF r

(* What the invariants need of Without: x is gone, the others are there.   *)
LEMMA WithoutElems ==
    ASSUME NEW V, NEW s \in Seq(V), Distinct(s), NEW i \in 1 .. Len(s)
    PROVE  /\ Without(s, i) \in Seq(V)
           /\ Elems(Without(s, i)) = Elems(s) \ {s[i]}
           /\ Distinct(Without(s, i))
  <1> DEFINE r == Without(s, i)
             n == Len(s)
  <1>1. r \in Seq(V) /\ Len(r) = n - 1 /\ n \in Nat /\ i \in 1 .. n
    BY WithoutSeq
  <1>2. \A j \in 1 .. n - 1 : r[j] = IF j < i THEN s[j] ELSE s[j + 1]
    BY WithoutSeq
  <1>3. \A k, l \in 1 .. n : s[k] = s[l] => k = l
    BY DEF Distinct
  <1> HIDE DEF r, n
  <1>4. ASSUME NEW j \in 1 .. n - 1 PROVE r[j] \in Elems(s) \ {s[i]}
    <2>1. CASE j < i
      <3>1. j \in 1 .. n /\ j # i /\ r[j] = s[j]
        BY <1>1, <1>2, <2>1
      <3> QED
        BY <1>1, <1>3, <3>1 DEF Elems, n
    <2>2. CASE ~ (j < i)
      <3>1. j + 1 \in 1 .. n /\ j + 1 # i /\ r[j] = s[j + 1]
        BY <1>1, <1>2, <2>2
      <3> QED
        BY <1>1, <1>3, <3>1 DEF Elems, n
    <2> QED
      BY <2>1, <2>2
  <1>5. ASSUME NEW k \in 1 .. n, k # i PROVE s[k] \in Elems(r)
    <2>1. CASE k < i
      <3>1. k \in 1 .. n - 1 /\ r[k] = s[k]
        BY <1>1, <1>2, <1>5, <2>1
      <3> QED
        BY <1>1, <3>1 DEF Elems
    <2>2. CASE ~ (k < i)
      <3>1. k - 1 \in 1 .. n - 1 /\ ~ (k - 1 < i) /\ (k - 1) + 1 = k
        BY <1>1, <1>5, <2>2
      <3>2. r[k - 1] = s[k]
        BY <1>2, <3>1
      <3> QED
        BY <1>1, <3>1, <3>2 DEF Elems
    <2> QED
      BY <2>1, <2>2
  <1>6. Elems(r) = Elems(s) \ {s[i]}
    <2>1. \A x \in Elems(r) : x \in Elems(s) \ {s[i]}
      BY <1>1, <1>4 DEF Elems
    <2>2. \A x \in Elems(s) \ {s[i]} : x \in Elems(r)
      BY <1>5 DEF Elems, n
    <2> QED
      BY <2>1, <2>2
  <1>7. Distinct(r)
    <2> SUFFICES ASSUME NEW k \in 1 .. n - 1, NEW l \in 1 .. n - 1, k < l, r[k] = r[l]
                 PROVE  FALSE
      BY <1>1 DEF Distinct
    <2> DEFINE P(j) == IF j < i THEN j ELSE j + 1
    <2>1. P(k) \in 1 .. n /\ P(l) \in 1 .. n /\ P(k) < P(l)
      BY <1>1
    <2>2. r[k] = s[P(k)] /\ r[l] = s[P(l)]
      BY <1>2
    <2>3. P(k) # P(l)
      BY <1>1, <2>1
    <2> HIDE DEF P
    <2> QED
      BY <1>3, <2>1, <2>2, <2>3
  <1> QED
    BY <1>1, <1>6, <1>7 DEF r

(* The elements of s come with keys that do not decrease. *)
SortedBy(s, key) == \A i, j \in 1 .. Len(s) : i < j => key[s[i]] <= key[s[j]]

(* A sorted sequence stays sorted when elements are taken out.             *)
LEMMA WithoutAllSorted ==
    ASSUME NEW V, NEW s \in Seq(V), NEW S, NEW key, SortedBy(s, key)
    PROVE  SortedBy(WithoutAll(s, S), key)
  <1> DEFINE r == WithoutAll(s, S)
  <1> HIDE DEF r
  <1>0. PICK at : at \in Positions(r, s, S)
    BY WithoutAllSeq DEF r
  <1>1. /\ at \in [1 .. Len(r) -> 1 .. Len(s)]
        /\ \A k \in 1 .. Len(r) : r[k] = s[at[k]]
        /\ \A k, l \in 1 .. Len(r) : k < l => at[k] < at[l]
    BY <1>0 DEF Positions
  <1> SUFFICES ASSUME NEW k \in 1 .. Len(r), NEW l \in 1 .. Len(r), k < l
               PROVE  key[r[k]] <= key[r[l]]
    BY DEF SortedBy, r
  <1>2. at[k] \in 1 .. Len(s) /\ at[l] \in 1 .. Len(s) /\ at[k] < at[l]
    BY <1>1
  <1>3. key[s[at[k]]] <= key[s[at[l]]]
    BY <1>2 DEF SortedBy
  <1> QED
    BY <1>1, <1>3

(* The same for one element.                                               *)
LEMMA WithoutSorted ==
    ASSUME NEW V, NEW s \in Seq(V), NEW i \in 1 .. Len(s), NEW key, SortedBy(s, key)
    PROVE  SortedBy(Without(s, i), key)
  <1> DEFINE r == Without(s, i)
             P(k) == IF k < i THEN k ELSE k + 1
  <1>1. Len(r) = Len(s) - 1 /\ Len(s) \in Nat /\ i \in Nat
    BY WithoutSeq
  <1>2. ASSUME NEW k \in 1 .. Len(s) - 1 PROVE r[k] = s[P(k)] /\ P(k) \in 1 .. Len(s)
    <2>1. r[k] = IF k < i THEN s[k] ELSE s[k + 1]
      BY <1>2, WithoutSeq
    <2> HIDE DEF r
    <2>2. CASE k < i
      BY <1>1, <1>2, <2>1, <2>2
    <2>3. CASE ~ (k < i)
      BY <1>1, <1>2, <2>1, <2>3
    <2> QED
      BY <2>2, <2>3
  <1>3. ASSUME NEW k \in 1 .. Len(s) - 1, NEW l \in 1 .. Len(s) - 1, k < l PROVE P(k) < P(l)
    BY <1>3
  <1> HIDE DEF r, P
  <1> SUFFICES ASSUME NEW k \in 1 .. Len(s) - 1, NEW l \in 1 .. Len(s) - 1, k < l
               PROVE  key[r[k]] <= key[r[l]]
    BY <1>1 DEF SortedBy, r
  <1> QED
    BY <1>2, <1>3 DEF SortedBy

(* x inserted before the first greater key: the sequence stays sorted, and *)
(* x comes after every element whose key is not greater.                   *)
LEMMA InsertBeforeSorted ==
    ASSUME NEW V, NEW s \in Seq(V), NEW x \in V, NEW key \in [V -> Int], SortedBy(s, key),
           NEW S, S = {u \in V : key[u] > key[x]}
    PROVE  /\ SortedBy(InsertBefore(s, x, S), key)
           /\ \A j \in 1 .. Len(s) : key[s[j]] <= key[x] => j < FirstOf(s, S)
  <1> DEFINE r == InsertBefore(s, x, S)
             at == FirstOf(s, S)
             n == Len(s)
             P(k) == IF k < at THEN k ELSE k - 1
  <1>1. /\ r \in Seq(V) /\ Len(r) = n + 1 /\ n \in Nat
        /\ at \in 1 .. n + 1 /\ r[at] = x
        /\ \A j \in 1 .. at - 1 : r[j] = s[j]
        /\ \A j \in at + 1 .. n + 1 : r[j] = s[j - 1]
    BY InsertBeforeSeq
  <1>2. /\ at <= n => s[at] \in S
        /\ \A j \in 1 .. at - 1 : s[j] \notin S
    BY FirstOfPosition
  <1>s. \A j \in 1 .. n : s[j] \in V /\ key[s[j]] \in Int
    OBVIOUS
  <1>0. key[x] \in Int
    OBVIOUS
  <1>o. \A i, j \in 1 .. n : i < j => key[s[i]] <= key[s[j]]
    BY DEF SortedBy
  <1> HIDE DEF r, at, n
  <1>3. \A j \in 1 .. n : j < at => key[s[j]] <= key[x]
    BY <1>0, <1>1, <1>2, <1>s
  <1>4. ASSUME NEW j \in 1 .. n, ~ (j < at) PROVE key[s[j]] > key[x]
    <2>1. at \in 1 .. n /\ s[at] \in S
      BY <1>1, <1>2, <1>4
    <2>2. key[s[at]] > key[x]
      BY <2>1
    <2>3. key[s[at]] <= key[s[j]]
      BY <1>1, <1>4, <1>o, <2>1, <1>s
    <2> QED
      BY <1>0, <1>s, <2>1, <2>2, <2>3
  <1>5. ASSUME NEW k \in 1 .. n + 1, k # at PROVE P(k) \in 1 .. n /\ r[k] = s[P(k)]
    BY <1>1, <1>5
  <1>6. ASSUME NEW k \in 1 .. n + 1, NEW l \in 1 .. n + 1, k < l PROVE key[r[k]] <= key[r[l]]
    <2>1. CASE k = at
      <3>1. l - 1 \in 1 .. n /\ ~ (l - 1 < at) /\ r[l] = s[l - 1]
        <4>1. l \in at + 1 .. n + 1 /\ l - 1 \in 1 .. n /\ ~ (l - 1 < at)
          BY <1>1, <1>6, <2>1
        <4> QED
          BY <1>1, <4>1
      <3> QED
        BY <1>0, <1>1, <1>4, <1>s, <2>1, <3>1
    <2>2. CASE l = at
      <3>1. k \in 1 .. n /\ k < at /\ r[k] = s[k]
        <4>1. k \in 1 .. at - 1 /\ k \in 1 .. n /\ k < at
          BY <1>1, <1>6, <2>2
        <4> QED
          BY <1>1, <4>1
      <3> QED
        BY <1>1, <1>3, <2>2, <3>1
    <2>3. CASE k # at /\ l # at
      <3>1. P(k) < P(l)
        BY <1>1, <1>6, <2>3
      <3> HIDE DEF P
      <3> QED
        BY <1>5, <1>o, <2>3, <3>1
    <2> QED
      BY <2>1, <2>2, <2>3
  <1>7. SortedBy(r, key)
    BY <1>1, <1>6 DEF SortedBy
  <1>8. \A j \in 1 .. n : key[s[j]] <= key[x] => j < at
    BY <1>0, <1>4, <1>s
  <1> QED
    BY <1>7, <1>8 DEF r, at, n

(* The same by IndexOf: x lines up behind the elements whose key is not    *)
(* greater than its own.                                                   *)
LEMMA InsertBeforeBehind ==
    ASSUME NEW V, NEW s \in Seq(V), NEW x \in V, NEW key \in [V -> Int], SortedBy(s, key),
           NEW S, S = {u \in V : key[u] > key[x]}, Distinct(s), x \notin Elems(s),
           NEW y \in Elems(s), key[y] <= key[x]
    PROVE  IndexOf(InsertBefore(s, x, S), y) < IndexOf(InsertBefore(s, x, S), x)
  <1> DEFINE r == InsertBefore(s, x, S)
             at == FirstOf(s, S)
             n == Len(s)
  <1>1. /\ r \in Seq(V) /\ Len(r) = n + 1 /\ n \in Nat
        /\ at \in 1 .. n + 1 /\ r[at] = x
        /\ \A j \in 1 .. at - 1 : r[j] = s[j]
    BY InsertBeforeSeq
  <1>2. \A j \in 1 .. n : key[s[j]] <= key[x] => j < at
    BY InsertBeforeSorted
  <1>3. Distinct(r)
    BY InsertBeforeElems
  <1>4. PICK j \in 1 .. n : s[j] = y
    BY DEF Elems
  <1> HIDE DEF r, at, n
  <1>5. j < at /\ j \in 1 .. Len(r) /\ at \in 1 .. Len(r) /\ r[j] = y
    BY <1>1, <1>2, <1>4
  <1>6. IndexOf(r, y) = j
    BY <1>3, <1>5, IndexOfPosition DEF Distinct
  <1>7. IndexOf(r, x) = at
    <2>1. \E k \in 1 .. Len(r) : r[k] = x
      BY <1>1, <1>5
    <2>2. IndexOf(r, x) \in 1 .. Len(r) /\ r[IndexOf(r, x)] = r[at]
      BY <1>1, <2>1, IndexOfPosition
    <2> QED
      BY <1>3, <1>5, <2>2 DEF Distinct
  <1> QED
    BY <1>5, <1>6, <1>7 DEF r
=============================================================================
