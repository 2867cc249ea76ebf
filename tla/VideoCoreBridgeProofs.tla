----------------------- MODULE VideoCoreBridgeProofs ------------------------
(***************************************************************************)
(* Proofs about D3D12VideoCoreBridge, D3D12DeviceContext and               *)
(* D3D12ResourceAllocator.  The inductive invariant has two layers.        *)
(* The first, BaseInv, is inductive by itself: types, calls, recording,    *)
(* tickets, owners and charges agree.  The second says who keeps what the  *)
(* GPU may still use: UsesOwned, AllocatorNotRecycled, AbandonedAgrees.    *)
(* Both hold whatever fails, an event wait included.  The charge of a set  *)
(* of resources is a sum over all of them, so the first lemmas are about   *)
(* sums.                                                                   *)
(***************************************************************************)
EXTENDS VideoCoreBridge, SeqOpsProofs

(* The partial sums that Total is defined by. *)
Sums(words) ==
    {f \in [0 .. MaxObjects -> Nat] :
        /\ f[0] = 0 /\ f[MaxObjects] = Total(words)
        /\ \A o \in Objects : f[o] = f[o - 1] + words[o]}

(* The recursion of Total has a solution. *)
LEMMA TotalSums == ASSUME NEW words \in [Objects -> Nat] PROVE \E f : f \in Sums(words)
  <1> DEFINE m == MaxObjects
             z == 0
             V == Nat
             add == [i \in 1 .. m |-> [x \in Nat |-> x + words[i]]]
             sum == CHOOSE f : f = [o \in 0 .. MaxObjects |->
                                       IF o = 0 THEN 0 ELSE f[o - 1] + words[o]]
  <1>0. m \in Nat /\ z \in V /\ Total(words) = sum[m]
    BY ConstantsAssumption DEF Total
  <1>1. add \in [1 .. m -> [V -> V]] BY DEF Objects
  <1>2. \A i \in 1 .. m, x \in V : add[i][x] = x + words[i] OBVIOUS
  <1> HIDE DEF add, V, m, z
  <1>3. PICK f \in [0 .. m -> V] : f[0] = z /\ \A i \in 1 .. m : f[i] = add[i][f[i - 1]]
    <2>1. add \in Steps(m, V) BY <1>1 DEF Steps
    <2>2. PICK f : f \in Unfolding(m, V, z, add) BY <1>0, <2>1, Recursion, Zenon
    <2> QED BY <2>2 DEF Unfolding
  <1>4. \A i \in 1 .. m : f[i] = f[i - 1] + words[i]
    <2> SUFFICES ASSUME NEW i \in 1 .. m PROVE f[i] = f[i - 1] + words[i] OBVIOUS
    <2>1. i - 1 \in 0 .. m /\ f[i - 1] \in V BY <1>0
    <2> QED BY <1>2, <1>3, <2>1, Zenon
  <1>5. f = [o \in 0 .. m |-> IF o = 0 THEN 0 ELSE f[o - 1] + words[o]]
    <2>1. \A i \in 0 .. m : i = 0 \/ i \in 1 .. m BY <1>0
    <2> QED BY <1>3, <1>4, <2>1, Zenon DEF z
  <1>6. sum = [o \in 0 .. m |-> IF o = 0 THEN 0 ELSE sum[o - 1] + words[o]]
    BY <1>5, Zenon DEF m
  <1> HIDE DEF sum
  <1>7. sum[0] = 0 /\ \A i \in 1 .. m : sum[i] = sum[i - 1] + words[i]
    <2>1. 0 \in 0 .. m /\ \A i \in 1 .. m : i \in 0 .. m /\ i # 0 BY <1>0
    <2> QED BY <1>6, <2>1, Zenon
  <1> DEFINE T == {i \in 0 .. m : sum[i] = f[i]}
  <1>8. 0 .. m \subseteq T
    <2>1. 0 \in T BY <1>0, <1>3, <1>7 DEF z
    <2>2. ASSUME NEW i \in 0 .. m - 1, i \in T PROVE i + 1 \in T
      <3>1. i + 1 \in 1 .. m /\ (i + 1) - 1 = i BY <1>0
      <3> QED BY <1>4, <1>7, <2>2, <3>1
    <2> HIDE DEF T
    <2> QED BY <1>0, <2>1, <2>2, InductionUpTo, Zenon
  <1>9. Total(words) = f[m] BY <1>0, <1>8
  <1>10. f \in Sums(words)
    BY <1>3, <1>4, <1>9 DEF Sums, m, V, z, Objects
  <1> QED BY <1>10

(* A sum is a number of words. *)
LEMMA TotalNat == ASSUME NEW words \in [Objects -> Nat] PROVE Total(words) \in Nat
  <1>1. PICK f : f \in Sums(words) BY TotalSums
  <1> QED BY <1>1, ConstantsAssumption DEF Sums

(* Sums add up. *)
LEMMA TotalAdds ==
    ASSUME NEW w \in [Objects -> Nat], NEW u \in [Objects -> Nat], NEW v \in [Objects -> Nat],
           \A o \in Objects : w[o] = u[o] + v[o]
    PROVE  Total(w) = Total(u) + Total(v)
  <1>0. MaxObjects \in Nat BY ConstantsAssumption
  <1>1. PICK f : f \in Sums(w) BY TotalSums
  <1>2. PICK g : g \in Sums(u) BY TotalSums
  <1>3. PICK h : h \in Sums(v) BY TotalSums
  <1> DEFINE T == {i \in 0 .. MaxObjects : f[i] = g[i] + h[i]}
  <1>4. 0 \in T BY <1>0, <1>1, <1>2, <1>3 DEF Sums
  <1>5. ASSUME NEW i \in 0 .. MaxObjects - 1, i \in T PROVE i + 1 \in T
    <2>1. i + 1 \in Objects /\ (i + 1) - 1 = i /\ i \in 0 .. MaxObjects BY <1>0 DEF Objects
    <2>2. f[i + 1] = f[i] + w[i + 1] BY <1>1, <2>1 DEF Sums
    <2>3. g[i + 1] = g[i] + u[i + 1] BY <1>2, <2>1 DEF Sums
    <2>4. h[i + 1] = h[i] + v[i + 1] BY <1>3, <2>1 DEF Sums
    <2>5. f[i] \in Nat /\ g[i] \in Nat /\ h[i] \in Nat BY <1>1, <1>2, <1>3, <2>1 DEF Sums
    <2>6. u[i + 1] \in Nat /\ v[i + 1] \in Nat /\ w[i + 1] = u[i + 1] + v[i + 1] BY <2>1
    <2> QED BY <1>0, <1>5, <2>1, <2>2, <2>3, <2>4, <2>5, <2>6
  <1> HIDE DEF T
  <1>6. 0 .. MaxObjects \subseteq T BY <1>0, <1>4, <1>5, InductionUpTo, Zenon
  <1>7. MaxObjects \in T BY <1>0, <1>6
  <1> QED BY <1>1, <1>2, <1>3, <1>7 DEF T, Sums

(* Nothing weighs nothing. *)
LEMMA TotalZero ==
    ASSUME NEW w \in [Objects -> Nat], \A o \in Objects : w[o] = 0
    PROVE  Total(w) = 0
  <1>1. Total(w) = Total(w) + Total(w) BY TotalAdds
  <1>2. Total(w) \in Nat BY TotalNat
  <1>3. \A n \in Nat : n = n + n => n = 0 OBVIOUS
  <1> QED BY <1>1, <1>2, <1>3, Zenon

(* A single resource. *)
LEMMA TotalPoint ==
    ASSUME NEW w \in [Objects -> Nat], NEW p \in Objects, \A o \in Objects : o # p => w[o] = 0
    PROVE  Total(w) = w[p]
  <1>0. MaxObjects \in Nat /\ w[p] \in Nat /\ p \in 1 .. MaxObjects
    BY ConstantsAssumption DEF Objects
  <1>1. PICK f : f \in Sums(w) BY TotalSums
  <1> DEFINE T == {i \in 0 .. MaxObjects : f[i] = IF i < p THEN 0 ELSE w[p]}
  <1>4. 0 \in T BY <1>0, <1>1 DEF Sums
  <1>5. ASSUME NEW i \in 0 .. MaxObjects - 1, i \in T PROVE i + 1 \in T
    <2>1. i + 1 \in Objects /\ (i + 1) - 1 = i /\ i \in 0 .. MaxObjects BY <1>0 DEF Objects
    <2>2. f[i + 1] = f[i] + w[i + 1] BY <1>1, <2>1 DEF Sums
    <2>3. w[i + 1] = IF i + 1 = p THEN w[p] ELSE 0 BY <2>1
    <2>4. CASE i + 1 < p BY <1>0, <1>5, <2>1, <2>2, <2>3, <2>4
    <2>5. CASE i + 1 = p BY <1>0, <1>5, <2>1, <2>2, <2>3, <2>5
    <2>6. CASE i + 1 > p BY <1>0, <1>5, <2>1, <2>2, <2>3, <2>6
    <2> QED BY <1>0, <2>4, <2>5, <2>6
  <1> HIDE DEF T
  <1>6. 0 .. MaxObjects \subseteq T BY <1>0, <1>4, <1>5, InductionUpTo, Zenon
  <1>7. MaxObjects \in T BY <1>0, <1>6
  <1> QED BY <1>0, <1>1, <1>7 DEF T, Sums
-----------------------------------------------------------------------------
(* The charge of the resources in S, for sizes sz, and of an owner's one   *)
(* resource.                                                               *)
BytesIn(sz, S) == Total([o \in Objects |-> IF o \in S THEN sz[o] ELSE 0])
Owed(sz, o) == IF o = NoObject THEN 0 ELSE sz[o]

(* The footprints of sizes sz, which the budget is charged for.            *)
SizeMaps == [Objects -> 0 .. MaxTransfer]
Prints(sz) == [o \in Objects |-> Footprint[sz[o]]]

(* Sizes and footprints are numbers. *)
LEMMA PrintsOK ==
    ASSUME NEW sz \in SizeMaps
    PROVE  /\ sz \in [Objects -> Nat] /\ Prints(sz) \in [Objects -> Nat]
           /\ \A o \in Objects : Prints(sz)[o] = Footprint[sz[o]]
  <1>1. MaxTransfer \in Nat /\ Footprint \in [0 .. MaxTransfer -> Nat] BY ConstantsAssumption
  <1> QED BY <1>1 DEF SizeMaps, Prints

(* The charge of a set is the sum of its footprints. *)
LEMMA PrintsSum ==
    ASSUME NEW sz, NEW S
    PROVE  BytesIn(Prints(sz), S) = Total([o \in Objects |-> IF o \in S THEN Footprint[sz[o]] ELSE 0])
  <1>1. [o \in Objects |-> IF o \in S THEN Prints(sz)[o] ELSE 0]
            = [o \in Objects |-> IF o \in S THEN Footprint[sz[o]] ELSE 0]
    BY DEF Prints
  <1> QED BY <1>1 DEF BytesIn

(* The charge is a number of words. *)
LEMMA BytesNat == ASSUME NEW sz \in [Objects -> Nat], NEW S PROVE BytesIn(sz, S) \in Nat
  BY TotalNat DEF BytesIn

(* Only the sizes of what is in the set matter. *)
LEMMA BytesSame ==
    ASSUME NEW sz \in [Objects -> Nat], NEW sy \in [Objects -> Nat], NEW S,
           \A o \in Objects : o \in S => sz[o] = sy[o]
    PROVE  BytesIn(sz, S) = BytesIn(sy, S)
  <1>1. [o \in Objects |-> IF o \in S THEN sz[o] ELSE 0]
            = [o \in Objects |-> IF o \in S THEN sy[o] ELSE 0]
    OBVIOUS
  <1> QED BY <1>1 DEF BytesIn

(* Two owners with nothing in common. *)
LEMMA BytesUnion ==
    ASSUME NEW sz \in [Objects -> Nat], NEW S, NEW T, S \cap T = {}
    PROVE  BytesIn(sz, S \cup T) = BytesIn(sz, S) + BytesIn(sz, T)
  <1> DEFINE w == [o \in Objects |-> IF o \in S \cup T THEN sz[o] ELSE 0]
             u == [o \in Objects |-> IF o \in S THEN sz[o] ELSE 0]
             v == [o \in Objects |-> IF o \in T THEN sz[o] ELSE 0]
  <1>1. w \in [Objects -> Nat] /\ u \in [Objects -> Nat] /\ v \in [Objects -> Nat] OBVIOUS
  <1>2. \A o \in Objects : w[o] = u[o] + v[o] OBVIOUS
  <1>3. BytesIn(sz, S \cup T) = Total(w) /\ BytesIn(sz, S) = Total(u) /\ BytesIn(sz, T) = Total(v)
    BY DEF BytesIn
  <1> HIDE DEF w, u, v
  <1> QED BY <1>1, <1>2, <1>3, TotalAdds

(* An owner of nothing. *)
LEMMA BytesNone ==
    ASSUME NEW sz \in [Objects -> Nat], NEW S, S \cap Objects = {} PROVE BytesIn(sz, S) = 0
  <1> DEFINE w == [o \in Objects |-> IF o \in S THEN sz[o] ELSE 0]
  <1>1. w \in [Objects -> Nat] /\ \A o \in Objects : w[o] = 0 OBVIOUS
  <1>2. BytesIn(sz, S) = Total(w) BY DEF BytesIn
  <1> HIDE DEF w
  <1> QED BY <1>1, <1>2, TotalZero

(* An owner of one resource. *)
LEMMA BytesOne ==
    ASSUME NEW sz \in [Objects -> Nat], NEW p \in Objects \cup {NoObject}
    PROVE  BytesIn(sz, {p}) = Owed(sz, p)
  <1>0. NoObject \notin Objects BY ConstantsAssumption DEF NoObject, Objects
  <1>1. CASE p = NoObject BY <1>0, <1>1, BytesNone DEF Owed
  <1>2. CASE p \in Objects
    <2> DEFINE w == [o \in Objects |-> IF o \in {p} THEN sz[o] ELSE 0]
    <2>1. w \in [Objects -> Nat] /\ w[p] = sz[p] /\ \A o \in Objects : o # p => w[o] = 0
      BY <1>2
    <2>2. BytesIn(sz, {p}) = Total(w) BY DEF BytesIn
    <2> HIDE DEF w
    <2>3. Total(w) = w[p] BY <1>2, <2>1, TotalPoint
    <2> QED BY <1>0, <1>2, <2>1, <2>2, <2>3 DEF Owed
  <1> QED BY <1>1, <1>2

(* The charge of a batch, a call and a client. *)
LEMMA BytesOwners ==
    ASSUME NEW sz \in [Objects -> Nat], NEW S \in SUBSET Objects,
           NEW p \in Objects \cup {NoObject}, NEW q \in Objects \cup {NoObject},
           p \notin S, q \notin S, p = q => q = NoObject
    PROVE  BytesIn(sz, S \cup {p, q}) = BytesIn(sz, S) + Owed(sz, p) + Owed(sz, q)
  <1>0. NoObject \notin Objects BY ConstantsAssumption DEF NoObject, Objects
  <1>1. BytesIn(sz, {p}) = Owed(sz, p) /\ BytesIn(sz, {q}) = Owed(sz, q) BY BytesOne
  <1>2. BytesIn(sz, S) \in Nat /\ BytesIn(sz, {p}) \in Nat /\ BytesIn(sz, {q}) \in Nat
    BY BytesNat
  <1>3. CASE p = q
    <2>1. BytesIn(sz, S \cup {p}) = BytesIn(sz, S) + BytesIn(sz, {p}) BY BytesUnion
    <2>2. S \cup {p, q} = S \cup {p} BY <1>3
    <2>3. Owed(sz, q) = 0 /\ Owed(sz, p) = 0 BY <1>3 DEF Owed
    <2>4. BytesIn(sz, S \cup {p, q}) = BytesIn(sz, S) + BytesIn(sz, {p}) BY <2>1, <2>2, Zenon
    <2> QED BY <1>1, <1>2, <2>3, <2>4
  <1>4. CASE p # q
    <2>1. BytesIn(sz, S \cup {p}) = BytesIn(sz, S) + BytesIn(sz, {p}) BY BytesUnion
    <2>2. BytesIn(sz, (S \cup {p}) \cup {q}) = BytesIn(sz, S \cup {p}) + BytesIn(sz, {q})
      <3>1. (S \cup {p}) \cap {q} = {} BY <1>4
      <3> QED BY <3>1, BytesUnion
    <2>3. S \cup {p, q} = (S \cup {p}) \cup {q} OBVIOUS
    <2> QED BY <1>1, <1>2, <2>1, <2>2, <2>3
  <1> QED BY <1>3, <1>4

(* A resource is added to the staging. *)
LEMMA BytesAdded ==
    ASSUME NEW sz \in [Objects -> Nat], NEW sy \in [Objects -> Nat], NEW S \in SUBSET Objects,
           NEW p \in Objects, p \notin S, \A o \in Objects : o # p => sy[o] = sz[o]
    PROVE  BytesIn(sy, S \cup {p}) = BytesIn(sz, S) + sy[p]
  <1>0. NoObject \notin Objects BY ConstantsAssumption DEF NoObject, Objects
  <1>1. BytesIn(sy, S) = BytesIn(sz, S) BY BytesSame
  <1>2. BytesIn(sy, S \cup {p}) = BytesIn(sy, S) + BytesIn(sy, {p}) BY BytesUnion
  <1>3. BytesIn(sy, {p}) = sy[p] BY <1>0, BytesOne DEF Owed
  <1> QED BY <1>1, <1>2, <1>3
-----------------------------------------------------------------------------
(* A command that stays inside its buffers touches words of the memory. *)
LEMMA InBoundsWords ==
    ASSUME NEW x \in Resources \cup Objects, NEW off \in Nat, NEW n \in Nat, InBounds(x, off, n),
           NEW k \in Nat, off <= k, k < off + n
    PROVE  k \in Words
  <1>1. CASE x \in Resources
    <2>1. Width[x] \in Nat /\ k < Width[x] BY <1>1, ConstantsAssumption DEF InBounds
    <2>2. k \in 0 .. Width[x] - 1 BY <2>1
    <2> QED BY <1>1, <2>2 DEF Words
  <1>2. CASE x \notin Resources
    <2>1. MaxTransfer \in Nat /\ k < MaxTransfer BY <1>2, ConstantsAssumption DEF InBounds
    <2>2. k \in 0 .. MaxTransfer - 1 BY <2>1
    <2> QED BY <2>2 DEF Words
  <1> QED BY <1>1, <1>2

(* CopyBufferRegion yields a memory. *)
LEMMA ExecuteOK ==
    ASSUME NEW mem \in Memories, NEW c \in Commands PROVE Execute(mem, c) \in Memories
  <1>1. /\ c.dst \in Resources \cup Objects /\ c.src \in Resources \cup Objects
        /\ c.doff \in Nat /\ c.soff \in Nat /\ c.n \in Nat /\ InBounds(c.src, c.soff, c.n)
    BY DEF Commands
  <1>2. \A w \in Words : w \in Nat BY ConstantsAssumption DEF Words
  <1> DEFINE new == [w \in Words |-> IF w \in c.doff .. c.doff + c.n - 1
                                     THEN mem[c.src][w - c.doff + c.soff] ELSE mem[c.dst][w]]
  <1>3. ASSUME NEW w \in Words PROVE new[w] \in Values \cup {0}
    <2>1. mem[c.src] \in [Words -> Values \cup {0}] /\ mem[c.dst] \in [Words -> Values \cup {0}]
      BY <1>1 DEF Memories
    <2>2. CASE w \in c.doff .. c.doff + c.n - 1
      <3>1. w - c.doff + c.soff \in Words BY <1>1, <1>2, <2>2, InBoundsWords
      <3> QED BY <2>1, <2>2, <3>1
    <2>3. CASE w \notin c.doff .. c.doff + c.n - 1 BY <2>1, <2>3
    <2> QED BY <2>2, <2>3
  <1>4. new \in [Words -> Values \cup {0}] BY <1>3
  <1>5. Execute(mem, c) = [mem EXCEPT ![c.dst] = new] BY DEF Execute
  <1> HIDE DEF new
  <1> QED BY <1>1, <1>4, <1>5 DEF Memories

(* So does a command list. *)
LEMMA ExecuteAllOK ==
    ASSUME NEW mem \in Memories, NEW cmds \in Seq(Commands)
    PROVE  ExecuteAll(mem, cmds) \in Memories
  <1> DEFINE m == Len(cmds)
             V == Memories
             run == [i \in 1 .. m |-> [x \in V |-> Execute(x, cmds[i])]]
             after == CHOOSE f : f = [i \in 0 .. Len(cmds) |->
                                        IF i = 0 THEN mem ELSE Execute(f[i - 1], cmds[i])]
  <1>0. m \in Nat /\ mem \in V /\ ExecuteAll(mem, cmds) = after[m]
    BY DEF ExecuteAll
  <1>1. \A i \in 1 .. m : cmds[i] \in Commands OBVIOUS
  <1>2. run \in [1 .. m -> [V -> V]] BY <1>1, ExecuteOK
  <1>3. \A i \in 1 .. m, x \in V : run[i][x] = Execute(x, cmds[i]) OBVIOUS
  <1> HIDE DEF run, V, m
  <1>4. PICK f \in [0 .. m -> V] : f[0] = mem /\ \A i \in 1 .. m : f[i] = run[i][f[i - 1]]
    <2>1. run \in Steps(m, V) BY <1>2 DEF Steps
    <2>2. PICK f : f \in Unfolding(m, V, mem, run) BY <1>0, <2>1, Recursion, Zenon
    <2> QED BY <2>2 DEF Unfolding
  <1>5. \A i \in 1 .. m : f[i] = Execute(f[i - 1], cmds[i])
    <2> SUFFICES ASSUME NEW i \in 1 .. m PROVE f[i] = Execute(f[i - 1], cmds[i]) OBVIOUS
    <2>1. i - 1 \in 0 .. m /\ f[i - 1] \in V BY <1>0
    <2> QED BY <1>3, <1>4, <2>1, Zenon
  <1>6. f = [i \in 0 .. m |-> IF i = 0 THEN mem ELSE Execute(f[i - 1], cmds[i])]
    <2>1. \A i \in 0 .. m : i = 0 \/ i \in 1 .. m BY <1>0
    <2> QED BY <1>4, <1>5, <2>1, Zenon
  <1>7. after = [i \in 0 .. m |-> IF i = 0 THEN mem ELSE Execute(after[i - 1], cmds[i])]
    BY <1>6, Zenon DEF m
  <1> HIDE DEF after
  <1>8. after[0] = mem /\ \A i \in 1 .. m : after[i] = Execute(after[i - 1], cmds[i])
    <2>1. 0 \in 0 .. m /\ \A i \in 1 .. m : i \in 0 .. m /\ i # 0 BY <1>0
    <2> QED BY <1>7, <2>1, Zenon
  <1> DEFINE T == {i \in 0 .. m : after[i] \in V}
  <1>9. 0 .. m \subseteq T
    <2>1. 0 \in T BY <1>0, <1>8
    <2>2. ASSUME NEW i \in 0 .. m - 1, i \in T PROVE i + 1 \in T
      <3>1. i + 1 \in 1 .. m /\ (i + 1) - 1 = i /\ i + 1 \in 0 .. m BY <1>0
      <3>2. after[i + 1] = Execute(after[i], cmds[i + 1]) BY <1>8, <3>1
      <3>3. after[i] \in Memories /\ cmds[i + 1] \in Commands BY <1>1, <2>2, <3>1 DEF V
      <3> QED BY <3>1, <3>2, <3>3, ExecuteOK DEF V
    <2> HIDE DEF T
    <2> QED BY <1>0, <2>1, <2>2, InductionUpTo, Zenon
  <1>10. after[m] \in V BY <1>0, <1>9
  <1> QED BY <1>0, <1>10 DEF V

(* The allocator finds memory that no owner refers to. *)
LEMMA NewObjectOK ==
    ASSUME NEW b, Unheld(b) # {}
    PROVE  /\ NewObject(b) \in Objects
           /\ NewObject(b) \notin b.staging \cup b.pending \cup b.tracked
           /\ NewObject(b) # call.obj /\ NewObject(b) # frame
  <1>1. Unheld(b) \in SUBSET Nat BY DEF Unheld, Objects
  <1>2. \E o \in Unheld(b) : \A k \in Unheld(b) : o <= k BY <1>1, LeastElement
  <1>3. NewObject(b) \in Unheld(b) BY <1>2 DEF NewObject, Min
  <1> QED BY <1>3 DEF Unheld, HeldBy

(* Find yields a buffer and an offset with room for the transfer. *)
LEMMA FoundOK ==
    ASSUME bindings \in [Resources -> {0} \cup Addresses], NEW a \in Addresses, NEW n, Found(a, n)
    PROVE  /\ n \in Nat \ {0} /\ n <= MaxTransfer
           /\ Buffer(a, n) \in Resources /\ Offset(a, n) \in Nat
           /\ InBounds(Buffer(a, n), Offset(a, n), n)
  <1>1. Buffer(a, n) \in Resources /\ Covers(Buffer(a, n), a, n) BY DEF Found, Buffer
  <1>2. n \in Nat \ {0} /\ n <= MaxTransfer BY ConstantsAssumption DEF Found
  <1>3. a \in Nat /\ bindings[Buffer(a, n)] \in Nat /\ Width[Buffer(a, n)] \in Nat
    BY <1>1, ConstantsAssumption DEF Addresses
  <1> QED BY <1>1, <1>2, <1>3 DEF Covers, Offset, InBounds
-----------------------------------------------------------------------------
(* The invariant by what it is about: the resources and their charge, the  *)
(* submissions and their tickets, the calls and the recording.             *)
HeapTypes ==
    /\ batch \in Batches
    /\ call.obj \in Objects \cup {NoObject} /\ frame \in Objects \cup {NoObject}
    /\ live_bytes \in Nat /\ size \in SizeMaps /\ vram \in Memories
HeapInv == HeapTypes /\ OneOwner /\ AccountingExact

QueueTypes ==
    /\ submission_error \in BOOLEAN /\ removed \in BOOLEAN
    /\ fence_value \in 0 .. FenceMax - 1
    /\ completed \in 0 .. FenceMax - 1 /\ last_ticket \in 0 .. FenceMax - 1
    /\ queue \in Seq(Submissions)
QueueInv == QueueTypes /\ TicketsAgree

CallTypes ==
    /\ bindings \in [Resources -> {0} \cup Addresses]
    /\ encoder \in BOOLEAN /\ marker_depth \in 0 .. MaxDepth
CallInv == CallTypes /\ CallAgrees /\ EncoderAgrees

(* The three parts make up the invariant. *)
LEMMA BaseParts ==
    /\ BaseInv <=> HeapInv /\ QueueInv /\ CallInv
    /\ HeapInv' /\ QueueInv' /\ CallInv' => BaseInv'
  BY DEF BaseInv, HeapInv, QueueInv, CallInv, TypeOK, HeapTypes, QueueTypes, CallTypes, SizeMaps

(* The sums of the model. *)
LEMMA BytesDef ==
    \A S : Bytes(S) = BytesIn(size, S) /\ Charge(S) = BytesIn(Prints(size), S)
  <1> TAKE S
  <1>1. Bytes(S) = BytesIn(size, S) BY Zenon DEF Bytes, BytesIn
  <1>2. Charge(S) = BytesIn(Prints(size), S) BY PrintsSum DEF Charge
  <1> QED BY <1>1, <1>2

(* The budget is charged for the staging, the call's and the client's      *)
(* resource.                                                               *)
LEMMA Charged ==
    ASSUME HeapInv
    PROVE  /\ batch.staged \in Nat /\ batch.staged = BytesIn(size, batch.staging)
           /\ BytesIn(Prints(size), batch.staging) \in Nat
           /\ Owed(Prints(size), call.obj) \in Nat /\ Owed(Prints(size), frame) \in Nat
           /\ live_bytes = BytesIn(Prints(size), batch.staging)
                              + Owed(Prints(size), call.obj) + Owed(Prints(size), frame)
           /\ live_bytes <= Budget /\ batch.staged <= MaxTransfer
  <1>1. /\ size \in SizeMaps /\ batch.staging \in SUBSET Objects /\ batch.staged \in Nat
        /\ call.obj \in Objects \cup {NoObject} /\ frame \in Objects \cup {NoObject}
    BY DEF HeapInv, HeapTypes, Batches
  <1>2. Prints(size) \in [Objects -> Nat] BY <1>1, PrintsOK
  <1>3. \A S : Bytes(S) = BytesIn(size, S) /\ Charge(S) = BytesIn(Prints(size), S)
    BY BytesDef
  <1>4. /\ live_bytes = Charge(batch.staging \cup {call.obj, frame}) /\ live_bytes <= Budget
        /\ batch.staged = Bytes(batch.staging) /\ batch.staged <= MaxTransfer
    BY DEF HeapInv, AccountingExact
  <1>5. /\ call.obj \notin batch.staging /\ frame \notin batch.staging
        /\ call.obj = frame => frame = NoObject
    BY DEF HeapInv, OneOwner
  <1>6. BytesIn(Prints(size), batch.staging \cup {call.obj, frame})
            = BytesIn(Prints(size), batch.staging)
                 + Owed(Prints(size), call.obj) + Owed(Prints(size), frame)
    BY <1>1, <1>2, <1>5, BytesOwners
  <1>7. BytesIn(Prints(size), batch.staging) \in Nat BY <1>2, BytesNat
  <1>8. Owed(Prints(size), call.obj) \in Nat /\ Owed(Prints(size), frame) \in Nat
    BY <1>1, <1>2 DEF Owed
  <1> QED BY <1>1, <1>3, <1>4, <1>6, <1>7, <1>8

(* The recording a step goes on with: it keeps the staging or drops it.    *)
Continues(b) ==
    /\ b \in Batches
    /\ \/ b.staging = batch.staging /\ b.staged = batch.staged
       \/ b.staging = {} /\ b.staged = 0

(* What is charged once the old staging has been released. *)
LEMMA ChargeAfterOK ==
    ASSUME HeapInv, NEW b, Continues(b)
    PROVE  /\ b.staging \in SUBSET batch.staging /\ b.staging \in SUBSET Objects
           /\ b.staged \in Nat /\ b.staged <= batch.staged /\ b.staged = BytesIn(size, b.staging)
           /\ BytesIn(Prints(size), b.staging) \in Nat
           /\ BytesIn(Prints(size), b.staging) <= BytesIn(Prints(size), batch.staging)
           /\ ChargeAfter(b) = BytesIn(Prints(size), b.staging)
                                  + Owed(Prints(size), call.obj) + Owed(Prints(size), frame)
  <1> DEFINE cost(S) == BytesIn(Prints(size), S)
  <1>1. size \in SizeMaps /\ batch.staging \in SUBSET Objects
        /\ b.staging \in SUBSET Objects /\ b.staged \in Nat
    BY DEF HeapInv, HeapTypes, Batches, Continues
  <1>2. size \in [Objects -> Nat] /\ Prints(size) \in [Objects -> Nat] BY <1>1, PrintsOK
  <1>3. BytesIn(size, {}) = 0 /\ cost({}) = 0 BY <1>2, BytesNone
  <1>4. ChargeAfter(b) = live_bytes - cost(batch.staging \ b.staging)
    BY BytesDef DEF ChargeAfter
  <1>5. CASE b.staging = batch.staging /\ b.staged = batch.staged
    <2>1. batch.staging \ b.staging = {} BY <1>5
    <2>2. cost(batch.staging \ b.staging) = 0 BY <1>3, <2>1
    <2>3. b.staged = BytesIn(size, b.staging) BY <1>5, Charged
    <2>4. cost(b.staging) = cost(batch.staging) BY <1>5
    <2> HIDE DEF cost
    <2>5. ChargeAfter(b) = cost(b.staging) + Owed(Prints(size), call.obj) + Owed(Prints(size), frame)
          /\ cost(b.staging) \in Nat
      BY <1>4, <2>2, <2>4, Charged DEF cost
    <2> QED BY <1>1, <1>5, <2>3, <2>4, <2>5, Charged DEF cost
  <1>6. CASE b.staging = {} /\ b.staged = 0
    <2>1. batch.staging \ b.staging = batch.staging BY <1>6
    <2>2. cost(batch.staging \ b.staging) = cost(batch.staging) BY <2>1
    <2>3. b.staged = BytesIn(size, b.staging) /\ cost(b.staging) = 0 BY <1>3, <1>6
    <2> HIDE DEF cost
    <2>4. ChargeAfter(b) = cost(b.staging) + Owed(Prints(size), call.obj) + Owed(Prints(size), frame)
      BY <1>4, <2>2, <2>3, Charged DEF cost
    <2> QED BY <1>1, <1>6, <2>3, <2>4, Charged DEF cost
  <1> QED BY <1>5, <1>6 DEF Continues

(* What holds of the resources once their new owners are settled. *)
LEMMA Settled ==
    ASSUME DOMAIN vram = Resources \cup Objects,
           NEW sz \in SizeMaps, NEW mem \in Memories,
           Settle(sz, mem) \/ (size' = sz /\ vram' = mem),
           batch' \in Batches, call'.obj \in Objects \cup {NoObject},
           frame' \in Objects \cup {NoObject}, OneOwner',
           batch'.staged = BytesIn(sz, batch'.staging), batch'.staged <= MaxTransfer,
           live_bytes' = BytesIn(Prints(sz), batch'.staging)
                             + Owed(Prints(sz), call'.obj) + Owed(Prints(sz), frame'),
           live_bytes' <= Budget
    PROVE  HeapInv'
  <1> DEFINE pz == Prints(sz)
             pn == Prints(size')
  <1>0. NoObject \notin Objects /\ MaxTransfer \in Nat
    BY ConstantsAssumption DEF NoObject, Objects
  <1>1. /\ batch'.staging \in SUBSET Objects /\ batch'.staged \in Nat
        /\ batch'.pending \in SUBSET Objects /\ batch'.tracked \in SUBSET Objects
    BY DEF Batches
  <1>2. batch'.staging \cup {call'.obj, frame'} \subseteq Held' BY DEF Held, HeldBy
  <1>3. size' \in SizeMaps /\ \A o \in Objects : o \in Held' => size'[o] = sz[o]
    BY <1>0 DEF Settle, SizeMaps
  <1>4. vram' \in Memories
    <2>1. Blank \in [Words -> Values \cup {0}] BY DEF Blank
    <2> QED BY <2>1 DEF Settle, Memories
  <1>5. /\ sz \in [Objects -> Nat] /\ size' \in [Objects -> Nat]
        /\ pz \in [Objects -> Nat] /\ pn \in [Objects -> Nat]
        /\ \A o \in Objects : o \in Held' => pn[o] = pz[o]
    <2>1. sz \in [Objects -> Nat] /\ pz \in [Objects -> Nat]
          /\ \A o \in Objects : pz[o] = Footprint[sz[o]]
      BY PrintsOK
    <2>2. size' \in [Objects -> Nat] /\ pn \in [Objects -> Nat]
          /\ \A o \in Objects : pn[o] = Footprint[size'[o]]
      BY <1>3, PrintsOK
    <2> HIDE DEF pz, pn
    <2> QED BY <1>3, <2>1, <2>2
  <1>6. /\ Charge(batch.staging \cup {call.obj, frame})'
              = BytesIn(pn, batch'.staging \cup {call'.obj, frame'})
        /\ Bytes(batch.staging)' = BytesIn(size', batch'.staging)
    <2>1. Charge(batch.staging \cup {call.obj, frame})'
              = BytesIn(pn, batch'.staging \cup {call'.obj, frame'})
      BY PrintsSum DEF Charge
    <2>2. Bytes(batch.staging)' = BytesIn(size', batch'.staging) BY Zenon DEF Bytes, BytesIn
    <2> QED BY <2>1, <2>2
  <1>7. live_bytes' = BytesIn(pz, batch'.staging) + Owed(pz, call'.obj) + Owed(pz, frame') OBVIOUS
  <1> HIDE DEF pz, pn
  <1>8. Owed(pn, call'.obj) = Owed(pz, call'.obj) /\ Owed(pn, frame') = Owed(pz, frame')
        /\ Owed(pz, call'.obj) \in Nat /\ Owed(pz, frame') \in Nat
    BY <1>2, <1>5 DEF Owed
  <1>9. BytesIn(size', batch'.staging) = BytesIn(sz, batch'.staging)
    <2>1. \A o \in Objects : o \in batch'.staging => size'[o] = sz[o] BY <1>2, <1>3
    <2> QED BY <1>5, <2>1, BytesSame
  <1>10. BytesIn(pn, batch'.staging) = BytesIn(pz, batch'.staging)
         /\ BytesIn(pz, batch'.staging) \in Nat
    <2>1. \A o \in Objects : o \in batch'.staging => pn[o] = pz[o] BY <1>2, <1>5
    <2> QED BY <1>5, <2>1, BytesSame, BytesNat
  <1>11. BytesIn(pn, batch'.staging \cup {call'.obj, frame'})
            = BytesIn(pn, batch'.staging) + Owed(pn, call'.obj) + Owed(pn, frame')
    <2>1. /\ call'.obj \notin batch'.staging /\ frame' \notin batch'.staging
          /\ call'.obj = frame' => frame' = NoObject
      BY DEF OneOwner
    <2> QED BY <1>1, <1>5, <2>1, BytesOwners
  <1>12. AccountingExact'
    <2>1. live_bytes' = Charge(batch.staging \cup {call.obj, frame})'
      BY <1>6, <1>7, <1>8, <1>10, <1>11
    <2>2. batch'.staged = Bytes(batch.staging)' BY <1>6, <1>9
    <2> QED BY <2>1, <2>2 DEF AccountingExact
  <1>13. live_bytes' \in Nat BY <1>7, <1>8, <1>10
  <1> QED BY <1>3, <1>4, <1>12, <1>13 DEF HeapInv, HeapTypes

(* A step that goes on with recording b and creates nothing. *)
LEMMA HeapStep ==
    ASSUME HeapInv, NEW b, Continues(b), Settle(size, vram),
           batch' \in Batches, batch'.staging = b.staging, batch'.staged = b.staged,
           call'.obj \in {call.obj, frame, NoObject}, frame' \in {call.obj, frame, NoObject},
           call'.obj = frame' => frame' = NoObject,
           live_bytes' = BytesIn(Prints(size), b.staging)
                             + Owed(Prints(size), call'.obj) + Owed(Prints(size), frame')
    PROVE  HeapInv'
  <1> DEFINE pz == Prints(size)
  <1>0. NoObject \notin Objects /\ Budget \in Nat /\ MaxTransfer \in Nat
    BY ConstantsAssumption DEF NoObject, Objects
  <1>1. /\ DOMAIN vram = Resources \cup Objects /\ size \in SizeMaps /\ vram \in Memories
        /\ call.obj \in Objects \cup {NoObject} /\ frame \in Objects \cup {NoObject}
    BY DEF HeapInv, HeapTypes, Memories
  <1>2. call'.obj \in Objects \cup {NoObject} /\ frame' \in Objects \cup {NoObject} BY <1>1
  <1>3. /\ b.staging \in SUBSET batch.staging /\ b.staging \in SUBSET Objects /\ b.staged \in Nat
        /\ b.staged <= batch.staged /\ b.staged = BytesIn(size, b.staging)
        /\ BytesIn(pz, b.staging) \in Nat /\ BytesIn(pz, b.staging) <= BytesIn(pz, batch.staging)
    BY ChargeAfterOK
  <1>4. OneOwner'
    <2>1. call.obj \notin b.staging /\ frame \notin b.staging /\ NoObject \notin b.staging
      BY <1>0, <1>3 DEF HeapInv, OneOwner
    <2> QED BY <2>1 DEF OneOwner
  <1>5. Owed(pz, NoObject) = 0 BY DEF Owed
  <1>6. batch'.staged <= MaxTransfer BY <1>0, <1>3, Charged
  <1>7. live_bytes' <= Budget
    <2>1. /\ BytesIn(pz, batch.staging) \in Nat /\ live_bytes <= Budget
          /\ Owed(pz, call.obj) \in Nat /\ Owed(pz, frame) \in Nat
          /\ live_bytes = BytesIn(pz, batch.staging) + Owed(pz, call.obj) + Owed(pz, frame)
          /\ live_bytes' = BytesIn(pz, b.staging) + Owed(pz, call'.obj) + Owed(pz, frame')
      BY Charged
    <2> HIDE DEF pz
    <2> QED BY <1>0, <1>3, <1>5, <2>1
  <1>8. batch'.staged = BytesIn(size, batch'.staging) BY <1>3
  <1> QED BY <1>1, <1>2, <1>4, <1>6, <1>7, <1>8, Settled
-----------------------------------------------------------------------------
(* What a step must not forget of a list without a ticket. *)
Remembers ==
    /\ call.op = "gone" => call'.op = "gone"
    /\ encoder /\ batch.list = "closed" =>
           (encoder' /\ batch'.list = "closed") \/ call'.op = "gone"

(* A step that leaves the context alone. *)
LEMMA QueueKept ==
    ASSUME QueueInv, Remembers,
           UNCHANGED <<last_ticket, fence_value, submission_error, queue, completed, removed>>
    PROVE  QueueInv'
  <1>1. QueueTypes' BY DEF QueueInv, QueueTypes
  <1>2. TicketsAgree' BY DEF QueueInv, QueueTypes, TicketsAgree, Remembers, Submissions
  <1> QED BY <1>1, <1>2 DEF QueueInv

(* A submission goes to the end of the queue. *)
LEMMA Enqueued ==
    ASSUME queue \in Seq(Submissions), NEW cmds \in Seq(Commands), NEW t \in 0 .. FenceMax - 1,
           Enqueue(cmds, t)
    PROVE  /\ queue' \in Seq(Submissions) /\ Len(queue') = Len(queue) + 1 /\ Len(queue) \in Nat
           /\ \A i \in 1 .. Len(queue) : queue'[i] = queue[i] /\ i \in 1 .. Len(queue')
           /\ queue'[Len(queue) + 1].cmds = cmds /\ queue'[Len(queue) + 1].ticket = t
           /\ \A i \in 1 .. Len(queue') : i \in 1 .. Len(queue) \/ i = Len(queue) + 1
  <1> DEFINE e == [cmds |-> cmds, ticket |-> t]
  <1>1. e \in Submissions /\ e.cmds = cmds /\ e.ticket = t BY DEF Submissions
  <1>2. queue' = Append(queue, e) BY DEF Enqueue
  <1> HIDE DEF e
  <1> QED BY <1>1, <1>2

(* Submit hands out the next ticket. *)
LEMMA SubmitOK ==
    ASSUME QueueInv, Remembers, NEW cmds \in Seq(Commands), Submit(cmds),
           last_ticket' \in {last_ticket, fence_value + 1},
           cmds # <<>> => last_ticket' = fence_value + 1
    PROVE  QueueInv'
  <1> DEFINE n == Len(queue)
             t == fence_value + 1
  <1>1. /\ fence_value \in Nat /\ FenceMax \in Nat /\ fence_value < FenceMax - 1
        /\ completed \in 0 .. FenceMax - 1 /\ last_ticket \in 0 .. FenceMax - 1
        /\ queue \in Seq(Submissions) /\ removed \in BOOLEAN
        /\ t \in 0 .. FenceMax - 1
    BY ConstantsAssumption DEF QueueInv, QueueTypes, Submit
  <1>2. /\ fence_value' = t /\ submission_error' = submission_error /\ ~submission_error
        /\ completed' = completed /\ removed' = removed /\ Enqueue(cmds, t)
    BY DEF Submit
  <1>3. /\ queue' \in Seq(Submissions) /\ Len(queue') = n + 1 /\ n \in Nat
        /\ \A i \in 1 .. n : queue'[i] = queue[i] /\ i \in 1 .. Len(queue')
        /\ queue'[n + 1].cmds = cmds /\ queue'[n + 1].ticket = t
        /\ \A i \in 1 .. Len(queue') : i \in 1 .. n \/ i = n + 1
    BY <1>1, <1>2, Enqueued
  <1>4. \A i \in 1 .. n : queue[i].ticket \in 0 .. FenceMax - 1
    <2>1. \A i \in 1 .. n : queue[i] \in Submissions BY <1>1
    <2>2. \A e \in Submissions : e.ticket \in 0 .. FenceMax - 1 BY DEF Submissions
    <2> QED BY <2>1, <2>2
  <1>5. QueueTypes' BY <1>1, <1>2, <1>3 DEF QueueInv, QueueTypes
  <1>6. /\ completed <= fence_value /\ last_ticket <= fence_value
        /\ \A i \in 1 .. n : queue[i].ticket # 0 =>
              /\ completed < queue[i].ticket /\ queue[i].ticket <= fence_value
              /\ \A j \in 1 .. i - 1 : queue[j].ticket < queue[i].ticket
        /\ \A i \in 1 .. n : queue[i].cmds # <<>> =>
              /\ queue[i].ticket <= last_ticket
              /\ queue[i].ticket = 0 => \/ submission_error \/ call.op = "gone"
                                        \/ encoder /\ batch.list = "closed"
    BY DEF QueueInv, TicketsAgree
  <1>7. completed' <= fence_value' /\ last_ticket' <= fence_value' /\ last_ticket <= last_ticket'
    BY <1>1, <1>2, <1>6
  <1>8. ASSUME NEW i \in 1 .. Len(queue'), queue'[i].ticket # 0
        PROVE  /\ completed' < queue'[i].ticket /\ queue'[i].ticket <= fence_value'
               /\ \A j \in 1 .. i - 1 : queue'[j].ticket < queue'[i].ticket
    <2>1. CASE i \in 1 .. n
      <3>1. \A j \in 1 .. i - 1 : j \in 1 .. n BY <1>3, <2>1
      <3>2. queue[i].ticket \in Nat /\ queue[i].ticket # 0 BY <1>1, <1>3, <1>4, <1>8, <2>1
      <3>3. completed < queue[i].ticket /\ queue[i].ticket <= fence_value BY <1>6, <2>1, <3>2
      <3>4. \A j \in 1 .. i - 1 : queue[j].ticket < queue[i].ticket BY <1>6, <2>1, <3>2
      <3>5. \A j \in 1 .. i - 1 : queue'[j].ticket < queue'[i].ticket BY <1>3, <2>1, <3>1, <3>4
      <3>6. queue[i].ticket <= t
        <4>1. \A k \in Nat : k <= fence_value => k <= t BY <1>1
        <4> QED BY <3>2, <3>3, <4>1, Zenon
      <3> QED BY <1>2, <1>3, <2>1, <3>3, <3>5, <3>6
    <2>2. CASE i = n + 1
      <3>1. \A j \in 1 .. i - 1 : j \in 1 .. n /\ queue[j].ticket <= fence_value
        BY <1>1, <1>3, <1>4, <1>6, <2>2
      <3>2. \A j \in 1 .. i - 1 : queue'[j].ticket < queue'[i].ticket
        BY <1>1, <1>3, <1>4, <2>2, <3>1
      <3> QED BY <1>1, <1>2, <1>3, <1>6, <2>2, <3>2
    <2> QED BY <1>3, <2>1, <2>2
  <1>9. ASSUME NEW i \in 1 .. Len(queue'), queue'[i].cmds # <<>>
        PROVE  /\ queue'[i].ticket <= last_ticket'
               /\ queue'[i].ticket = 0 => \/ submission_error' \/ call'.op = "gone"
                                          \/ encoder' /\ batch'.list = "closed"
    <2>1. CASE i \in 1 .. n
      <3>1. queue'[i] = queue[i] /\ queue[i].ticket \in Nat /\ last_ticket \in Nat
            /\ last_ticket' \in Nat
        BY <1>1, <1>3, <1>4, <2>1
      <3> QED BY <1>2, <1>6, <1>7, <1>9, <2>1, <3>1 DEF Remembers
    <2>2. CASE i = n + 1 BY <1>1, <1>3, <1>9, <2>2
    <2> QED BY <1>3, <2>1, <2>2
  <1> QED BY <1>5, <1>7, <1>8, <1>9 DEF QueueInv, TicketsAgree

(* Submit throws: the list is in the queue without a ticket, or not at all. *)
LEMMA SubmitThrowsOK ==
    ASSUME QueueInv, Remembers, NEW cmds \in Seq(Commands), SubmitThrows(cmds),
           last_ticket' = last_ticket,
           cmds # <<>> => encoder' /\ batch'.list = "closed"
    PROVE  QueueInv'
  <1> DEFINE n == Len(queue)
  <1>1. /\ fence_value \in Nat /\ FenceMax \in Nat /\ fence_value \in 0 .. FenceMax - 1
        /\ completed \in 0 .. FenceMax - 1 /\ last_ticket \in 0 .. FenceMax - 1
        /\ queue \in Seq(Submissions) /\ removed \in BOOLEAN /\ submission_error \in BOOLEAN
    BY ConstantsAssumption DEF QueueInv, QueueTypes
  <1>2. /\ fence_value' = fence_value /\ completed' = completed /\ removed' = removed
        /\ submission_error => submission_error'
        /\ submission_error' \in BOOLEAN
    BY <1>1 DEF SubmitThrows
  <1>3. CASE submission_error
    <2>1. UNCHANGED <<last_ticket, fence_value, submission_error, queue, completed, removed>>
      BY <1>2, <1>3 DEF SubmitThrows
    <2> QED BY <2>1, QueueKept
  <1>4. CASE ~submission_error
    <2>1. Enqueue(cmds, 0) BY <1>4 DEF SubmitThrows
    <2>2. 0 \in 0 .. FenceMax - 1 BY <1>1
    <2>3. /\ queue' \in Seq(Submissions) /\ Len(queue') = n + 1 /\ n \in Nat
          /\ \A i \in 1 .. n : queue'[i] = queue[i] /\ i \in 1 .. Len(queue')
          /\ queue'[n + 1].cmds = cmds /\ queue'[n + 1].ticket = 0
          /\ \A i \in 1 .. Len(queue') : i \in 1 .. n \/ i = n + 1
      BY <1>1, <2>1, <2>2, Enqueued
    <2>4. QueueTypes' BY <1>1, <1>2, <2>3 DEF QueueInv, QueueTypes
    <2>5. /\ completed <= fence_value /\ last_ticket <= fence_value
          /\ \A i \in 1 .. n : queue[i].ticket # 0 =>
                /\ completed < queue[i].ticket /\ queue[i].ticket <= fence_value
                /\ \A j \in 1 .. i - 1 : queue[j].ticket < queue[i].ticket
          /\ \A i \in 1 .. n : queue[i].cmds # <<>> =>
                /\ queue[i].ticket <= last_ticket
                /\ queue[i].ticket = 0 => \/ submission_error \/ call.op = "gone"
                                          \/ encoder /\ batch.list = "closed"
      BY DEF QueueInv, TicketsAgree
    <2>6. completed' <= fence_value' /\ last_ticket' <= fence_value'
      BY <1>2, <2>5
    <2>7. ASSUME NEW i \in 1 .. Len(queue'), queue'[i].ticket # 0
          PROVE  /\ completed' < queue'[i].ticket /\ queue'[i].ticket <= fence_value'
                 /\ \A j \in 1 .. i - 1 : queue'[j].ticket < queue'[i].ticket
      <3>1. i \in 1 .. n BY <2>3, <2>7
      <3>2. \A j \in 1 .. i - 1 : j \in 1 .. n BY <2>3, <3>1
      <3> QED BY <1>2, <2>3, <2>5, <2>7, <3>1, <3>2
    <2>8. ASSUME NEW i \in 1 .. Len(queue'), queue'[i].cmds # <<>>
          PROVE  /\ queue'[i].ticket <= last_ticket'
                 /\ queue'[i].ticket = 0 => \/ submission_error' \/ call'.op = "gone"
                                            \/ encoder' /\ batch'.list = "closed"
      <3>1. CASE i \in 1 .. n BY <1>2, <2>3, <2>5, <2>8, <3>1 DEF Remembers
      <3>2. CASE i = n + 1 BY <1>1, <2>3, <2>8, <3>2
      <3> QED BY <2>3, <3>1, <3>2
    <2> QED BY <2>4, <2>6, <2>7, <2>8 DEF QueueInv, TicketsAgree
  <1> QED BY <1>1, <1>3, <1>4

(* The GPU finishes the oldest submission. *)
LEMMA GpuQueue ==
    ASSUME QueueInv, GpuStep PROVE QueueInv'
  <1> DEFINE n == Len(queue)
             t == Head(queue).ticket
  <1>1. /\ FenceMax \in Nat /\ fence_value \in 0 .. FenceMax - 1
        /\ completed \in 0 .. FenceMax - 1 /\ last_ticket \in 0 .. FenceMax - 1
        /\ queue \in Seq(Submissions) /\ removed \in BOOLEAN /\ submission_error \in BOOLEAN
    BY ConstantsAssumption DEF QueueInv, QueueTypes
  <1>2. /\ queue # <<>> /\ queue' = Tail(queue) /\ completed' = IF t = 0 THEN completed ELSE t
        /\ fence_value' = fence_value /\ submission_error' = submission_error
        /\ removed' = removed /\ last_ticket' = last_ticket /\ call' = call
        /\ encoder' = encoder /\ batch' = batch
    BY DEF GpuStep, bridge, heap
  <1>3. /\ n \in Nat \ {0} /\ Head(queue) = queue[1] /\ queue' \in Seq(Submissions)
        /\ Len(queue') = n - 1 /\ 1 \in 1 .. n
    BY <1>1, <1>2
  <1>4. \A i \in 1 .. Len(queue') : queue'[i] = queue[i + 1] /\ i + 1 \in 1 .. n
    BY <1>1, <1>2, <1>3
  <1>5. \A i \in 1 .. n : queue[i].ticket \in 0 .. FenceMax - 1
    <2>1. \A i \in 1 .. n : queue[i] \in Submissions BY <1>1
    <2>2. \A e \in Submissions : e.ticket \in 0 .. FenceMax - 1 BY DEF Submissions
    <2> QED BY <2>1, <2>2
  <1>6. /\ completed <= fence_value /\ last_ticket <= fence_value
        /\ \A i \in 1 .. n : queue[i].ticket # 0 =>
              /\ completed < queue[i].ticket /\ queue[i].ticket <= fence_value
              /\ \A j \in 1 .. i - 1 : queue[j].ticket < queue[i].ticket
        /\ \A i \in 1 .. n : queue[i].cmds # <<>> =>
              /\ queue[i].ticket <= last_ticket
              /\ queue[i].ticket = 0 => \/ submission_error \/ call.op = "gone"
                                        \/ encoder /\ batch.list = "closed"
    BY DEF QueueInv, TicketsAgree
  <1>7. t = queue[1].ticket /\ t \in 0 .. FenceMax - 1 BY <1>3, <1>5
  <1>8. completed' \in 0 .. FenceMax - 1 /\ completed' <= fence_value'
    BY <1>1, <1>2, <1>3, <1>6, <1>7
  <1>9. QueueTypes' BY <1>1, <1>2, <1>3, <1>8 DEF QueueTypes
  <1>10. ASSUME NEW i \in 1 .. Len(queue'), queue'[i].ticket # 0
        PROVE  /\ completed' < queue'[i].ticket /\ queue'[i].ticket <= fence_value'
               /\ \A j \in 1 .. i - 1 : queue'[j].ticket < queue'[i].ticket
    <2>1. queue'[i] = queue[i + 1] /\ i + 1 \in 1 .. n /\ queue[i + 1].ticket # 0
      BY <1>4, <1>10
    <2>2. /\ completed < queue[i + 1].ticket /\ queue[i + 1].ticket <= fence_value
          /\ \A j \in 1 .. (i + 1) - 1 : queue[j].ticket < queue[i + 1].ticket
      BY <1>6, <2>1
    <2>3. 1 \in 1 .. (i + 1) - 1
          /\ \A j \in 1 .. i - 1 : j + 1 \in 1 .. (i + 1) - 1 /\ j \in 1 .. Len(queue')
      BY <1>3
    <2>4. queue[1].ticket < queue[i + 1].ticket BY <2>2, <2>3
    <2>5. completed' < queue'[i].ticket BY <1>2, <1>7, <2>1, <2>2, <2>4
    <2>6. ASSUME NEW j \in 1 .. i - 1 PROVE queue'[j].ticket < queue'[i].ticket
      <3>1. queue'[j] = queue[j + 1] BY <1>4, <2>3
      <3>2. queue[j + 1].ticket < queue[i + 1].ticket BY <2>2, <2>3
      <3> QED BY <2>1, <3>1, <3>2
    <2> QED BY <1>2, <2>1, <2>2, <2>5, <2>6
  <1>11. ASSUME NEW i \in 1 .. Len(queue'), queue'[i].cmds # <<>>
        PROVE  /\ queue'[i].ticket <= last_ticket'
               /\ queue'[i].ticket = 0 => \/ submission_error' \/ call'.op = "gone"
                                          \/ encoder' /\ batch'.list = "closed"
    <2>1. queue'[i] = queue[i + 1] /\ i + 1 \in 1 .. n /\ queue[i + 1].cmds # <<>>
      BY <1>4, <1>11
    <2>2. /\ queue[i + 1].ticket <= last_ticket
          /\ queue[i + 1].ticket = 0 => \/ submission_error \/ call.op = "gone"
                                        \/ encoder /\ batch.list = "closed"
      BY <1>6, <2>1
    <2> QED BY <1>2, <2>1, <2>2
  <1> QED BY <1>2, <1>6, <1>8, <1>9, <1>10, <1>11 DEF QueueInv, TicketsAgree
-----------------------------------------------------------------------------
(* The recordings the steps go on with. *)
LEMMA BatchOK ==
    ASSUME batch \in Batches
    PROVE  /\ Continues(batch) /\ Continues(Batch) /\ Continues(Cleared)
           /\ \A l \in {"none", "open", "closed"} : Continues([EmptyBatch EXCEPT !.list = l])
           /\ Continues(EmptyBatch)
           /\ Batch = IF encoder THEN batch ELSE NewBatch
           /\ NewBatch.staging = {} /\ NewBatch.pending = {} /\ NewBatch.tracked = {}
           /\ NewBatch.cmds = <<>> /\ NewBatch.list = "open" /\ NewBatch.staged = 0
  <1>1. <<>> \in Seq(Commands) OBVIOUS
  <1>2. Continues(batch) /\ Continues(Cleared) BY DEF Continues, Cleared, Batches
  <1>3. Continues(EmptyBatch) BY <1>1 DEF Continues, EmptyBatch, Batches
  <1>4. ASSUME NEW l \in {"none", "open", "closed"} PROVE Continues([EmptyBatch EXCEPT !.list = l])
    BY <1>1 DEF Continues, EmptyBatch, Batches
  <1>5. Continues(NewBatch) BY <1>4 DEF NewBatch
  <1>6. Continues(Batch) BY <1>2, <1>5 DEF Batch
  <1> QED BY <1>2, <1>3, <1>4, <1>6 DEF Batch, NewBatch, EmptyBatch

(* A recorded command list is a command list. *)
LEMMA RecordOK ==
    ASSUME NEW b \in Batches, NEW c \in Commands
    PROVE  /\ Record(b, c) \in Seq(Commands)
           /\ b.list = "open" => Record(b, c) = Append(b.cmds, c)
  BY DEF Record, Batches

(* A copy inside its buffers is a command. *)
LEMMA CommandOK ==
    ASSUME NEW dst \in Resources \cup Objects, NEW doff \in Nat,
           NEW src \in Resources \cup Objects, NEW soff \in Nat, NEW n \in Nat \ {0},
           InBounds(dst, doff, n), InBounds(src, soff, n)
    PROVE  /\ Command(dst, doff, src, soff, n) \in Commands
           /\ Command(dst, doff, src, soff, n).dst = dst
           /\ Command(dst, doff, src, soff, n).src = src
  BY DEF Command, Commands

(* A resource of the allocator has room for a transfer. *)
LEMMA ObjectInBounds ==
    ASSUME NEW o \in Objects, NEW n \in Nat, n <= MaxTransfer
    PROVE  InBounds(o, 0, n) /\ o \notin Resources
  <1>1. o \notin Resources BY ConstantsAssumption DEF Objects
  <1> QED BY <1>1 DEF InBounds

(* Flush submits the recording and keeps its staging. *)
LEMMA FlushedOK ==
    ASSUME QueueInv, NEW b \in Batches, NEW next, Flushed(b, next), call.op # "gone",
           encoder /\ batch.list = "closed" => b.list = "closed"
    PROVE  /\ QueueInv' /\ batch' \in Batches /\ encoder' = FALSE /\ call' = next
           /\ batch'.staging = b.staging /\ batch'.staged = b.staged
           /\ batch'.pending = b.pending /\ batch'.tracked = {}
           /\ batch'.list = "closed" /\ batch'.cmds = <<>>
           /\ marker_depth = 0 /\ ~submission_error /\ submission_error' = submission_error
           /\ b.list = "open"
  <1>1. /\ encoder' = FALSE /\ call' = next /\ marker_depth = 0 /\ b.list = "open"
        /\ Submit(b.cmds) /\ last_ticket' = fence_value + 1
        /\ batch' = [b EXCEPT !.list = "closed", !.cmds = <<>>, !.tracked = {}]
    BY DEF Flushed
  <1>2. b.cmds \in Seq(Commands) BY DEF Batches
  <1>3. Remembers BY <1>1 DEF Remembers
  <1>4. QueueInv' BY <1>1, <1>2, <1>3, SubmitOK
  <1>5. batch' \in Batches
    <2>1. <<>> \in Seq(Commands) OBVIOUS
    <2> QED BY <1>1, <2>1 DEF Batches
  <1>6. ~submission_error /\ submission_error' = submission_error BY <1>1 DEF Submit
  <1> QED BY <1>1, <1>4, <1>5, <1>6 DEF Batches

(* Flush throws and leaves the recording where it is. *)
LEMMA FlushThrowsOK ==
    ASSUME QueueInv, NEW b \in Batches, FlushThrows(b), call.op # "gone",
           encoder /\ batch.list = "closed" => b.list = "closed"
    PROVE  /\ QueueInv' /\ batch' \in Batches /\ encoder' = TRUE
           /\ batch'.staging = b.staging /\ batch'.staged = b.staged
           /\ batch'.pending = b.pending /\ batch'.tracked = b.tracked
           /\ batch'.list = "closed" \/ (batch'.list = b.list /\ marker_depth # 0)
  <1>1. encoder' = TRUE /\ last_ticket' = last_ticket BY DEF FlushThrows
  <1>2. b.cmds \in Seq(Commands) /\ <<>> \in Seq(Commands) BY DEF Batches
  <1>3. batch' \in Batches /\ batch'.staging = b.staging /\ batch'.staged = b.staged
        /\ batch'.pending = b.pending /\ batch'.tracked = b.tracked
        /\ (batch'.list = "closed" \/ (batch'.list = b.list /\ marker_depth # 0))
    <2>1. CASE marker_depth # 0 /\ batch' = b BY <2>1 DEF Batches
    <2>2. CASE batch' = [b EXCEPT !.list = "closed"] BY <2>2 DEF Batches
    <2>3. CASE batch' = [b EXCEPT !.list = "closed", !.cmds = IF submission_error THEN @ ELSE <<>>]
      <3>1. CASE submission_error BY <1>2, <2>3, <3>1 DEF Batches
      <3>2. CASE ~submission_error BY <1>2, <2>3, <3>2 DEF Batches
      <3> QED BY <3>1, <3>2
    <2> QED BY <2>1, <2>2, <2>3 DEF FlushThrows
  <1>4. Remembers BY <1>1, <1>3 DEF Remembers
  <1>7. QueueInv'
    <2>1. CASE UNCHANGED <<queue, completed, removed, fence_value, submission_error>>
      BY <1>1, <1>4, <2>1, QueueKept
    <2>2. CASE SubmitThrows(b.cmds) /\ marker_depth = 0
      <3>1. batch'.list = "closed" BY <1>3, <2>2
      <3> QED BY <1>1, <1>2, <1>4, <2>2, <3>1, SubmitThrowsOK
    <2> QED BY <2>1, <2>2 DEF FlushThrows
  <1> QED BY <1>1, <1>3, <1>7
-----------------------------------------------------------------------------
(* A new resource outside the staging leaves its sums alone. *)
LEMMA StagingSame ==
    ASSUME NEW sz \in SizeMaps, NEW sy \in SizeMaps, NEW S \in SUBSET Objects,
           NEW o \in Objects, o \notin S, \A x \in Objects : x # o => sy[x] = sz[x]
    PROVE  /\ BytesIn(sy, S) = BytesIn(sz, S)
           /\ BytesIn(Prints(sy), S) = BytesIn(Prints(sz), S)
  <1>1. /\ sz \in [Objects -> Nat] /\ Prints(sz) \in [Objects -> Nat]
        /\ \A x \in Objects : Prints(sz)[x] = Footprint[sz[x]]
    BY PrintsOK
  <1>2. /\ sy \in [Objects -> Nat] /\ Prints(sy) \in [Objects -> Nat]
        /\ \A x \in Objects : Prints(sy)[x] = Footprint[sy[x]]
    BY PrintsOK
  <1>3. \A x \in Objects : x \in S => sy[x] = sz[x] /\ Prints(sy)[x] = Prints(sz)[x]
    BY <1>1, <1>2
  <1> QED BY <1>1, <1>2, <1>3, BytesSame

(* A new resource in the staging adds its size, and its footprint. *)
LEMMA StagingAdded ==
    ASSUME NEW sz \in SizeMaps, NEW sy \in SizeMaps, NEW S \in SUBSET Objects,
           NEW o \in Objects, o \notin S, \A x \in Objects : x # o => sy[x] = sz[x]
    PROVE  /\ BytesIn(sy, S \cup {o}) = BytesIn(sz, S) + sy[o]
           /\ BytesIn(Prints(sy), S \cup {o}) = BytesIn(Prints(sz), S) + Footprint[sy[o]]
  <1>1. /\ sz \in [Objects -> Nat] /\ Prints(sz) \in [Objects -> Nat]
        /\ \A x \in Objects : Prints(sz)[x] = Footprint[sz[x]]
    BY PrintsOK
  <1>2. /\ sy \in [Objects -> Nat] /\ Prints(sy) \in [Objects -> Nat]
        /\ \A x \in Objects : Prints(sy)[x] = Footprint[sy[x]]
    BY PrintsOK
  <1>3. \A x \in Objects : x # o => Prints(sy)[x] = Prints(sz)[x] BY <1>1, <1>2
  <1>4. BytesIn(sy, S \cup {o}) = BytesIn(sz, S) + sy[o] BY <1>1, <1>2, BytesAdded
  <1>5. BytesIn(Prints(sy), S \cup {o}) = BytesIn(Prints(sz), S) + Prints(sy)[o]
    BY <1>1, <1>2, <1>3, BytesAdded
  <1> QED BY <1>2, <1>4, <1>5

(* A step that leaves the resources and their owners alone. *)
LEMMA HeapSame ==
    ASSUME HeapInv, UNCHANGED <<batch, frame, live_bytes, size, vram>>, call'.obj = call.obj
    PROVE  HeapInv'
  <1>1. HeapTypes' BY DEF HeapInv, HeapTypes
  <1>2. OneOwner' BY DEF HeapInv, OneOwner
  <1>3. /\ Charge(batch.staging \cup {call.obj, frame})' = Charge(batch.staging \cup {call.obj, frame})
        /\ Bytes(batch.staging)' = Bytes(batch.staging)
    BY DEF Bytes, Charge
  <1>4. AccountingExact' BY <1>3 DEF HeapInv, AccountingExact
  <1> QED BY <1>1, <1>2, <1>4 DEF HeapInv

(* A call that only waits, or none. *)
LEMMA CallPlain ==
    ASSUME CallTypes', call'.op \in {"idle", "finish", "destroy", "gone"}, call'.obj = NoObject,
           call'.op = "finish" => ~encoder', EncoderAgrees'
    PROVE  CallInv'
  BY DEF CallInv, CallAgrees

(* A step of the GPU or of the client's other objects. *)
LEMMA CallSame ==
    ASSUME CallInv, UNCHANGED <<bindings, encoder, batch, marker_depth, call, frame>>,
           submission_error' = submission_error
    PROVE  CallInv'
  <1>1. CallTypes' BY DEF CallInv, CallTypes
  <1>2. EncoderAgrees' BY DEF CallInv, EncoderAgrees
  <1>3. /\ \A a, n : Found(a, n)' <=> Found(a, n)
        /\ Unheld(Batch)' = Unheld(Batch)
    BY DEF Found, Covers, Unheld, HeldBy, Batch
  <1>4. call.op = "record" => RequestAgrees(call.req)' BY <1>3 DEF CallInv, CallAgrees, RequestAgrees
  <1>5. CallAgrees' BY <1>3, <1>4 DEF CallInv, CallAgrees
  <1> QED BY <1>1, <1>2, <1>5 DEF CallInv

(* Initially nothing exists. *)
LEMMA InitOK == Init => BaseInv
  <1> SUFFICES ASSUME Init PROVE BaseInv OBVIOUS
  <1>0. NoObject \notin Objects BY ConstantsAssumption DEF NoObject, Objects
  <1>1. /\ size \in SizeMaps /\ call.obj = NoObject /\ frame = NoObject
        /\ batch.staging = {} /\ batch.staged = 0 /\ live_bytes = 0
    BY ConstantsAssumption DEF Init, Idle, EmptyBatch, SizeMaps
  <1>2. HeapInv
    <2>1. batch \in Batches
      <3>1. <<>> \in Seq(Commands) OBVIOUS
      <3> QED BY <3>1 DEF Init, EmptyBatch, Batches
    <2>2. vram \in Memories BY DEF Init, Memories, Blank
    <2>3. size \in [Objects -> Nat] /\ Prints(size) \in [Objects -> Nat] BY <1>1, PrintsOK
    <2>4. BytesIn(Prints(size), batch.staging \cup {call.obj, frame}) = 0
      <3>1. (batch.staging \cup {call.obj, frame}) \cap Objects = {} BY <1>0, <1>1
      <3> QED BY <2>3, <3>1, BytesNone
    <2>5. BytesIn(size, batch.staging) = 0
      <3>1. batch.staging \cap Objects = {} BY <1>1
      <3> QED BY <2>3, <3>1, BytesNone
    <2>6. AccountingExact
      BY <1>1, <2>4, <2>5, BytesDef, ConstantsAssumption DEF AccountingExact
    <2> QED BY <1>1, <2>1, <2>2, <2>6 DEF HeapInv, HeapTypes, OneOwner
  <1>3. QueueInv
    <2>1. queue = <<>> /\ queue \in Seq(Submissions) /\ Len(queue) = 0 BY DEF Init
    <2>2. FenceMax \in Nat /\ FenceMax > 0 BY ConstantsAssumption
    <2>3. QueueTypes
      <3>1. submission_error \in BOOLEAN /\ removed \in BOOLEAN BY Zenon DEF Init
      <3>2. fence_value = 0 /\ completed = 0 /\ last_ticket = 0 BY DEF Init
      <3>3. 0 \in 0 .. FenceMax - 1 BY <2>2
      <3> QED BY <2>1, <3>1, <3>2, <3>3 DEF QueueTypes
    <2>4. 1 .. Len(queue) = {} BY <2>1
    <2>5. TicketsAgree BY <2>4 DEF Init, TicketsAgree
    <2> QED BY <2>3, <2>5 DEF QueueInv
  <1>4. CallInv
    <2>1. CallTypes
      <3>1. encoder \in BOOLEAN BY Zenon DEF Init
      <3>2. bindings \in [Resources -> {0} \cup Addresses] BY DEF Init
      <3>3. marker_depth \in 0 .. MaxDepth BY ConstantsAssumption DEF Init
      <3> QED BY <3>1, <3>2, <3>3 DEF CallTypes
    <2>2. CallAgrees BY <1>1 DEF Init, CallAgrees, Idle
    <2>3. EncoderAgrees BY DEF Init, EncoderAgrees, EmptyBatch
    <2> QED BY <2>1, <2>2, <2>3 DEF CallInv
  <1> QED BY <1>2, <1>3, <1>4, BaseParts

(* RegisterBuffer binds an address. *)
LEMMA RegisterBufferOK ==
    ASSUME BaseInv, NEW r \in Resources, NEW base \in Addresses, RegisterBuffer(r, base)
    PROVE  BaseInv'
  <1>1. /\ call = Idle /\ call' = call /\ bindings' = [bindings EXCEPT ![r] = base]
        /\ UNCHANGED <<encoder, batch, last_ticket, marker_depth, live_bytes, size, frame,
                       fence_value, submission_error, queue, completed, removed, vram>>
    BY DEF RegisterBuffer, heap, gpu
  <1>2. HeapInv /\ QueueInv /\ CallInv BY BaseParts
  <1>3. HeapInv' BY <1>1, <1>2, HeapSame
  <1>4. QueueInv' BY <1>1, <1>2, QueueKept DEF Remembers
  <1>5. CallTypes' BY <1>1, <1>2 DEF CallInv, CallTypes
  <1>6. EncoderAgrees' BY <1>1, <1>2 DEF CallInv, EncoderAgrees
  <1>7. CallInv' BY <1>1, <1>5, <1>6, CallPlain DEF Idle
  <1> QED BY <1>3, <1>4, <1>7, BaseParts

(* A call that records has checked its request. *)
LEMMA RequestOK ==
    ASSUME BaseInv, NEW req, Request(req), RequestAgrees(req)', req.kind # "frame"
    PROVE  BaseInv'
  <1>1. /\ call = Idle /\ call' = [op |-> "record", obj |-> NoObject, req |-> req]
        /\ UNCHANGED <<bindings, encoder, batch, last_ticket, marker_depth, live_bytes, size, frame,
                       fence_value, submission_error, queue, completed, removed, vram>>
    BY DEF Request, heap, gpu
  <1>2. HeapInv /\ QueueInv /\ CallInv BY BaseParts
  <1>3. call'.obj = call.obj /\ call'.obj = NoObject /\ call'.op = "record" /\ call'.req = req
        /\ call.op = "idle"
    BY <1>1 DEF Idle
  <1>4. HeapInv' BY <1>1, <1>2, <1>3, HeapSame
  <1>5. QueueInv' BY <1>1, <1>2, <1>3, QueueKept DEF Remembers
  <1>6. CallTypes' BY <1>1, <1>2 DEF CallInv, CallTypes
  <1>7. EncoderAgrees' BY <1>1, <1>2, <1>3 DEF CallInv, EncoderAgrees
  <1>8. CallAgrees' BY <1>3 DEF CallAgrees
  <1> QED BY <1>4, <1>5, <1>6, <1>7, <1>8, BaseParts DEF CallInv

(* FillBuffer starts. *)
LEMMA FillBufferOK ==
    ASSUME BaseInv, NEW a \in Addresses, NEW n, NEW v \in Values, FillBuffer(a, n, v)
    PROVE  BaseInv'
  <1> DEFINE req == [kind |-> "fill", a |-> a, n |-> n, v |-> v]
  <1>1. Request(req) /\ Found(a, n) /\ Unheld(Batch) # {} BY DEF FillBuffer
  <1>2. req.kind = "fill" /\ req.a = a /\ req.n = n /\ req.v = v OBVIOUS
  <1> HIDE DEF req
  <1>3. Found(a, n)' BY <1>1 DEF Found, Covers, Request
  <1>4. Unheld(Batch)' = Unheld(Batch)
    BY <1>1 DEF Unheld, HeldBy, Batch, Request, Idle, heap
  <1>5. RequestAgrees(req)' BY <1>1, <1>2, <1>3, <1>4 DEF RequestAgrees
  <1> QED BY <1>1, <1>2, <1>5, RequestOK

(* CopyBuffer starts. *)
LEMMA CopyBufferOK ==
    ASSUME BaseInv, NEW d \in Addresses, NEW s \in Addresses, NEW n, CopyBuffer(d, s, n)
    PROVE  BaseInv'
  <1> DEFINE req == [kind |-> "copy", d |-> d, s |-> s, n |-> n]
  <1>1. Request(req) /\ Found(d, n) /\ Found(s, n) BY DEF CopyBuffer
  <1>2. req.kind = "copy" /\ req.d = d /\ req.n = n /\ req.s = s OBVIOUS
  <1> HIDE DEF req
  <1>3. Found(d, n)' /\ Found(s, n)' BY <1>1 DEF Found, Covers, Request
  <1>5. RequestAgrees(req)' BY <1>2, <1>3 DEF RequestAgrees
  <1> QED BY <1>1, <1>2, <1>5, RequestOK

(* A marker starts. *)
LEMMA MarkerOK ==
    ASSUME BaseInv, ScopeMarkerBegin \/ ScopedMarkerInsertColor PROVE BaseInv'
  <1> DEFINE req(k) == [kind |-> k]
  <1>1. PICK k \in {"begin", "insert"} : Request(req(k)) /\ (k = "begin" => marker_depth < MaxDepth)
    BY DEF ScopeMarkerBegin, ScopedMarkerInsertColor
  <1>2. req(k).kind = k OBVIOUS
  <1>3. marker_depth' = marker_depth BY <1>1 DEF Request
  <1> HIDE DEF req
  <1>4. RequestAgrees(req(k))' BY <1>1, <1>2, <1>3 DEF RequestAgrees
  <1> QED BY <1>1, <1>2, <1>4, RequestOK

(* CreateLinearFrame has its image before it records. *)
LEMMA CreateLinearFrameOK ==
    ASSUME BaseInv, NEW a \in FrameAddresses, CreateLinearFrame(a) PROVE BaseInv'
  <1> DEFINE o == NewObject(batch)
             sz == [size EXCEPT ![o] = 1]
             req == [kind |-> "frame", a |-> a]
  <1>0. NoObject \notin Objects /\ Budget \in Nat /\ a \in Addresses
    BY ConstantsAssumption DEF NoObject, Objects, Addresses
  <1>1. /\ call = Idle /\ frame = NoObject /\ Unheld(batch) # {} /\ Found(a, 1)
        /\ Footprint[1] <= Budget - live_bytes
        /\ call' = [op |-> "record", obj |-> o, req |-> req]
        /\ live_bytes' = live_bytes + Footprint[1] /\ size' = sz
        /\ UNCHANGED <<bindings, encoder, batch, last_ticket, marker_depth, frame,
                       fence_value, submission_error, queue, completed, removed, vram>>
    BY DEF CreateLinearFrame, Affordable, gpu
  <1>2. HeapInv /\ QueueInv /\ CallInv BY BaseParts
  <1>3. call.obj = NoObject /\ call.op = "idle" BY <1>1 DEF Idle
  <1>4. call'.obj = o /\ call'.op = "record" /\ call'.req = req BY <1>1
  <1>5. req.kind = "frame" /\ req.a = a OBVIOUS
  <1>6. o \in Objects /\ o \notin batch.staging BY <1>1, NewObjectOK
  <1> HIDE DEF o, req
  <1>7. /\ size \in SizeMaps /\ batch \in Batches /\ batch.staging \in SUBSET Objects
        /\ vram \in Memories /\ DOMAIN vram = Resources \cup Objects /\ live_bytes \in Nat
    BY <1>2 DEF HeapInv, HeapTypes, Batches, Memories
  <1>8. /\ sz \in SizeMaps /\ Footprint[1] \in Nat
        /\ \A x \in Objects : sz[x] = IF x = o THEN 1 ELSE size[x]
    <2>1. 1 \in 0 .. MaxTransfer BY <1>1, ConstantsAssumption DEF Found
    <2>2. Footprint[1] \in Nat BY <2>1, ConstantsAssumption
    <2> QED BY <1>6, <1>7, <2>1, <2>2 DEF SizeMaps
  <1>9. HeapInv'
    <2> HIDE DEF sz
    <2>1. OneOwner' BY <1>0, <1>1, <1>2, <1>4, <1>6 DEF OneOwner, HeapInv
    <2>2. /\ BytesIn(sz, batch.staging) = BytesIn(size, batch.staging)
          /\ BytesIn(Prints(sz), batch.staging) = BytesIn(Prints(size), batch.staging)
      BY <1>6, <1>7, <1>8, StagingSame
    <2>3. batch'.staged = BytesIn(sz, batch'.staging) /\ batch'.staged <= MaxTransfer
      BY <1>1, <1>2, <2>2, Charged
    <2>4. Owed(Prints(size), call.obj) = 0 /\ Owed(Prints(size), frame) = 0
      BY <1>1, <1>3 DEF Owed
    <2>5. Owed(Prints(sz), call'.obj) = Footprint[1] /\ Owed(Prints(sz), frame') = 0
      <3>1. Prints(sz)[o] = Footprint[1] BY <1>6, <1>8, PrintsOK
      <3> QED BY <1>0, <1>1, <1>4, <1>6, <3>1 DEF Owed
    <2>6. live_bytes' = BytesIn(Prints(sz), batch'.staging)
                            + Owed(Prints(sz), call'.obj) + Owed(Prints(sz), frame')
      <3>1. live_bytes = BytesIn(Prints(size), batch.staging) + 0 + 0 BY <1>2, <2>4, Charged
      <3>2. BytesIn(Prints(size), batch.staging) \in Nat BY <1>2, Charged
      <3> QED BY <1>1, <1>8, <2>2, <2>5, <3>1, <3>2
    <2>7. live_bytes' <= Budget BY <1>0, <1>1, <1>7, <1>8
    <2>8. size' = sz /\ vram' = vram /\ batch' \in Batches BY <1>1, <1>7
    <2>9. call'.obj \in Objects \cup {NoObject} /\ frame' \in Objects \cup {NoObject}
      BY <1>1, <1>4, <1>6
    <2> QED BY <1>7, <1>8, <2>1, <2>3, <2>6, <2>7, <2>8, <2>9, Settled
  <1>10. QueueInv' BY <1>1, <1>2, <1>3, QueueKept DEF Remembers
  <1>11. CallTypes' BY <1>1, <1>2 DEF CallInv, CallTypes
  <1>12. EncoderAgrees' BY <1>1, <1>2, <1>3 DEF CallInv, EncoderAgrees
  <1>13. Found(a, 1)' BY <1>1 DEF Found, Covers
  <1>14. RequestAgrees(req)'
    BY <1>0, <1>1, <1>4, <1>5, <1>6, <1>13 DEF RequestAgrees
  <1>15. CallAgrees' BY <1>4, <1>5, <1>14 DEF CallAgrees
  <1> QED BY <1>9, <1>10, <1>11, <1>12, <1>15, BaseParts DEF CallInv

(* Leaving a call returns the charge of its resource. *)
LEMMA LeaveOK ==
    ASSUME HeapInv, NEW b, Continues(b), NEW live, live = ChargeAfter(b), Leave(live), frame' = frame
    PROVE  /\ call' = Idle /\ call'.op = "idle" /\ call'.obj = NoObject
           /\ live_bytes' = BytesIn(Prints(size), b.staging)
                                 + Owed(Prints(size), call'.obj) + Owed(Prints(size), frame')
  <1> DEFINE pz == Prints(size)
  <1>1. call' = Idle /\ call'.op = "idle" /\ call'.obj = NoObject BY DEF Leave, Idle
  <1>2. live_bytes' = live - Owed(pz, call.obj)
    <2>1. size \in SizeMaps /\ call.obj \in Objects \cup {NoObject} BY DEF HeapInv, HeapTypes
    <2>2. \A o \in Objects : pz[o] = Footprint[size[o]] BY <2>1, PrintsOK
    <2> HIDE DEF pz
    <2> QED BY <2>1, <2>2 DEF Leave, Owed
  <1>3. Owed(pz, call'.obj) = 0 BY <1>1 DEF Owed
  <1>4. Owed(pz, call.obj) \in Nat /\ Owed(pz, frame) \in Nat BY Charged
  <1>5. live = BytesIn(pz, b.staging) + Owed(pz, call.obj) + Owed(pz, frame)
        /\ BytesIn(pz, b.staging) \in Nat
    BY ChargeAfterOK
  <1> HIDE DEF pz
  <1>6. live_bytes' = BytesIn(pz, b.staging) + Owed(pz, call'.obj) + Owed(pz, frame')
    BY <1>2, <1>3, <1>4, <1>5
  <1> QED BY <1>1, <1>6 DEF pz

(* The charge of the batch as it is. *)
LEMMA ChargeNow == ASSUME HeapInv PROVE Continues(batch) /\ live_bytes = ChargeAfter(batch)
  <1>1. Continues(batch) BY BatchOK DEF HeapInv, HeapTypes
  <1> QED BY <1>1, Charged, ChargeAfterOK

(* A call leaves with recording b, or with what is left of it. *)
LEMMA LeavesHeap ==
    ASSUME HeapInv, NEW b, Continues(b), NEW live, live = ChargeAfter(b), Leave(live),
           frame' = frame, Settle(size, vram),
           batch' \in Batches, batch'.staging = b.staging, batch'.staged = b.staged
    PROVE  HeapInv' /\ call' = Idle /\ call'.op = "idle" /\ call'.obj = NoObject
  <1>1. /\ call' = Idle /\ call'.op = "idle" /\ call'.obj = NoObject
        /\ live_bytes' = BytesIn(Prints(size), b.staging)
                              + Owed(Prints(size), call'.obj) + Owed(Prints(size), frame')
    BY LeaveOK
  <1>2. call'.obj = frame' => frame' = NoObject BY <1>1
  <1> QED BY <1>1, <1>2, HeapStep

(* A step that keeps the call's resource and goes on with recording b. *)
LEMMA StaysHeap ==
    ASSUME HeapInv, NEW b, Continues(b), live_bytes' = ChargeAfter(b),
           call'.obj = call.obj, frame' = frame, Settle(size, vram),
           batch' \in Batches, batch'.staging = b.staging, batch'.staged = b.staged
    PROVE  HeapInv'
  <1>1. live_bytes' = BytesIn(Prints(size), b.staging)
                          + Owed(Prints(size), call'.obj) + Owed(Prints(size), frame')
    BY ChargeAfterOK
  <1>2. call'.obj = frame' => frame' = NoObject BY DEF HeapInv, OneOwner
  <1> QED BY <1>1, <1>2, HeapStep

(* A marker ends. *)
LEMMA ScopeMarkerEndOK == ASSUME BaseInv, ScopeMarkerEnd PROVE BaseInv'
  <1>1. /\ call = Idle /\ encoder /\ marker_depth # 0 /\ marker_depth' = marker_depth - 1
        /\ UNCHANGED <<bindings, encoder, batch, last_ticket, call, live_bytes, size, frame,
                       fence_value, submission_error, queue, completed, removed, vram>>
    BY DEF ScopeMarkerEnd, heap, gpu
  <1>2. HeapInv /\ QueueInv /\ CallInv BY BaseParts
  <1>3. HeapInv' BY <1>1, <1>2, HeapSame
  <1>4. QueueInv' BY <1>1, <1>2, QueueKept DEF Remembers
  <1>5. CallTypes'
    <2>1. marker_depth \in 0 .. MaxDepth /\ MaxDepth \in Nat
      BY <1>2, ConstantsAssumption DEF CallInv, CallTypes
    <2>2. marker_depth' \in 0 .. MaxDepth BY <1>1, <2>1
    <2> QED BY <1>1, <1>2, <2>2 DEF CallInv, CallTypes
  <1>6. EncoderAgrees' BY <1>1 DEF EncoderAgrees
  <1>7. CallInv' BY <1>1, <1>5, <1>6, CallPlain DEF Idle
  <1> QED BY <1>3, <1>4, <1>7, BaseParts

(* Flush, and the Flush at the start of Finish and DownloadBuffer. *)
LEMMA FlushCallOK ==
    ASSUME BaseInv, call = Idle, NEW next, next.obj = NoObject,
           \/ /\ ~encoder /\ call' = next
              /\ UNCHANGED <<encoder, batch, last_ticket, fence_value, submission_error, gpu>>
           \/ encoder /\ Flushed(batch, next)
           \/ encoder /\ FlushThrows(batch) /\ UNCHANGED call,
           UNCHANGED <<bindings, marker_depth, live_bytes, frame>>, Settle(size, vram),
           next.op \in {"idle", "finish"}
             \/ /\ next.op = "download" /\ next.a \in Addresses /\ Found(next.a, next.n)
                /\ Objects \ {frame} # {}
    PROVE  BaseInv'
  <1>1. HeapInv /\ QueueInv /\ CallInv BY BaseParts
  <1>2. call.op = "idle" /\ call.obj = NoObject BY DEF Idle
  <1>3. batch \in Batches BY <1>1 DEF HeapInv, HeapTypes
  <1>4. /\ QueueInv' /\ batch' \in Batches
        /\ batch'.staging = batch.staging /\ batch'.staged = batch.staged
        /\ (call' = next /\ ~encoder') \/ call' = call
        /\ encoder' \in BOOLEAN /\ EncoderAgrees'
    <2>1. CASE /\ ~encoder /\ call' = next
               /\ UNCHANGED <<encoder, batch, last_ticket, fence_value, submission_error, gpu>>
      <3>1. QueueInv' BY <1>1, <1>2, <2>1, QueueKept DEF Remembers, gpu
      <3>2. EncoderAgrees' /\ encoder' \in BOOLEAN
        BY <1>1, <1>2, <2>1 DEF CallInv, EncoderAgrees, CallTypes
      <3> QED BY <1>3, <2>1, <3>1, <3>2
    <2>2. CASE encoder /\ Flushed(batch, next)
      <3>1. /\ QueueInv' /\ batch' \in Batches /\ encoder' = FALSE /\ call' = next
            /\ batch'.staging = batch.staging /\ batch'.staged = batch.staged
            /\ batch'.tracked = {} /\ batch'.list = "closed" /\ marker_depth = 0
        BY <1>1, <1>2, <1>3, <2>2, FlushedOK
      <3>2. EncoderAgrees' BY <3>1 DEF EncoderAgrees
      <3> QED BY <3>1, <3>2
    <2>3. CASE encoder /\ FlushThrows(batch) /\ UNCHANGED call
      <3>1. /\ QueueInv' /\ batch' \in Batches /\ encoder' = TRUE
            /\ batch'.staging = batch.staging /\ batch'.staged = batch.staged
        BY <1>1, <1>2, <1>3, <2>3, FlushThrowsOK
      <3>2. EncoderAgrees' BY <3>1 DEF EncoderAgrees
      <3> QED BY <2>3, <3>1, <3>2
    <2> QED BY <2>1, <2>2, <2>3
  <1>5. call'.obj = NoObject /\ call'.obj = call.obj BY <1>2, <1>4
  <1>6. HeapInv'
    <2>1. Continues(batch) /\ live_bytes' = ChargeAfter(batch) BY <1>1, ChargeNow
    <2> QED BY <1>1, <1>4, <1>5, <2>1, StaysHeap
  <1>7. CallTypes' BY <1>1, <1>4 DEF CallInv, CallTypes
  <1>8. \A a, n : Found(a, n)' <=> Found(a, n) BY DEF Found, Covers
  <1>9. CallAgrees'
    <2>1. CASE call' = call BY <1>2, <1>5, <2>1 DEF CallAgrees
    <2>2. CASE call' = next /\ ~encoder' BY <1>5, <1>8, <2>2 DEF CallAgrees
    <2> QED BY <1>4, <2>1, <2>2
  <1> QED BY <1>4, <1>6, <1>7, <1>9, BaseParts DEF CallInv

(* Flush outside Finish. *)
LEMMA FlushOK == ASSUME BaseInv, Flush PROVE BaseInv'
  <1>1. /\ call = Idle /\ encoder
        /\ Flushed(batch, Idle) \/ (FlushThrows(batch) /\ UNCHANGED call)
        /\ UNCHANGED <<bindings, marker_depth, live_bytes, frame>> /\ Settle(size, vram)
    BY DEF Flush
  <1>2. Idle.obj = NoObject /\ Idle.op = "idle" BY DEF Idle
  <1> QED BY <1>1, <1>2, FlushCallOK

(* Finish and DownloadBuffer flush what is recorded. *)
LEMMA StartFinishOK ==
    ASSUME BaseInv, NEW next, StartFinish(next), next.obj = NoObject,
           next.op \in {"idle", "finish"}
             \/ /\ next.op = "download" /\ next.a \in Addresses /\ Found(next.a, next.n)
                /\ Objects \ {frame} # {}
    PROVE  BaseInv'
  <1>1. /\ call = Idle
        /\ \/ /\ ~encoder /\ call' = next
              /\ UNCHANGED <<encoder, batch, last_ticket, fence_value, submission_error, gpu>>
           \/ encoder /\ Flushed(batch, next)
           \/ encoder /\ FlushThrows(batch) /\ UNCHANGED call
        /\ UNCHANGED <<bindings, marker_depth, live_bytes, frame>> /\ Settle(size, vram)
    BY DEF StartFinish
  <1> QED BY <1>1, FlushCallOK

(* Finish starts. *)
LEMMA FinishOK == ASSUME BaseInv, Finish PROVE BaseInv'
  <1> DEFINE next == [op |-> "finish", obj |-> NoObject]
  <1>1. StartFinish(next) /\ next.op = "finish" /\ next.obj = NoObject BY DEF Finish
  <1> HIDE DEF next
  <1> QED BY <1>1, StartFinishOK

(* DownloadBuffer starts. *)
LEMMA DownloadBufferOK ==
    ASSUME BaseInv, NEW a \in Addresses, NEW n, DownloadBuffer(a, n) PROVE BaseInv'
  <1> DEFINE next == [op |-> "download", obj |-> NoObject, a |-> a, n |-> n]
  <1>1. StartFinish(next) /\ Objects \ {frame} # {} /\ Found(a, n) BY DEF DownloadBuffer
  <1>2. next.op = "download" /\ next.obj = NoObject /\ next.a = a /\ next.n = n OBVIOUS
  <1> HIDE DEF next
  <1> QED BY <1>1, <1>2, StartFinishOK

(* What is left of a batch whose submission is complete. *)
LEMMA ClearedOK ==
    ASSUME batch \in Batches
    PROVE  /\ Cleared \in Batches /\ Cleared.staging = {} /\ Cleared.pending = {}
           /\ Cleared.staged = 0 /\ Cleared.tracked = batch.tracked
           /\ Cleared.list = batch.list /\ Cleared.cmds = batch.cmds
  BY DEF Cleared, Batches

(* A call returns or throws after its wait, with recording b. *)
LEMMA LeavesOK ==
    ASSUME BaseInv, NEW b, Continues(b), NEW live, live = ChargeAfter(b), Leave(live),
           batch' = b, b.tracked = batch.tracked, b.list = batch.list, call.op # "gone",
           UNCHANGED <<bindings, encoder, last_ticket, marker_depth, frame,
                       fence_value, submission_error, gpu>>, Settle(size, vram)
    PROVE  BaseInv'
  <1>1. HeapInv /\ QueueInv /\ CallInv BY BaseParts
  <1>2. HeapInv' /\ call' = Idle /\ call'.op = "idle" /\ call'.obj = NoObject
    BY <1>1, LeavesHeap DEF Continues
  <1>3. QueueInv' BY <1>1, QueueKept DEF Remembers, gpu
  <1>4. CallTypes' BY <1>1 DEF CallInv, CallTypes
  <1>5. EncoderAgrees' BY <1>1 DEF CallInv, EncoderAgrees
  <1>6. CallInv' BY <1>2, <1>4, <1>5, CallPlain
  <1> QED BY <1>2, <1>3, <1>6, BaseParts

(* The wait of Finish, or the second one of DownloadBuffer, returns. *)
LEMMA FinishReturnsOK ==
    ASSUME BaseInv, FinishReturns \/ DownloadReturns PROVE BaseInv'
  <1>1. batch \in Batches BY BaseParts DEF HeapInv, HeapTypes
  <1>2. Continues(Cleared) /\ Cleared.tracked = batch.tracked /\ Cleared.list = batch.list
    BY <1>1, BatchOK, ClearedOK
  <1>3. /\ call.op # "gone" /\ batch' = Cleared /\ Leave(ChargeAfter(Cleared))
        /\ UNCHANGED <<bindings, encoder, last_ticket, marker_depth, frame,
                       fence_value, submission_error, gpu>>
        /\ Settle(size, vram)
    BY DEF FinishReturns, DownloadReturns
  <1> QED BY <1>2, <1>3, LeavesOK

(* The wait throws. *)
LEMMA FinishThrowsOK == ASSUME BaseInv, FinishThrows PROVE BaseInv'
  <1>1. Continues(batch) /\ live_bytes = ChargeAfter(batch) BY BaseParts, ChargeNow
  <1>2. /\ call.op # "gone" /\ batch' = batch /\ Leave(live_bytes)
        /\ UNCHANGED <<bindings, encoder, last_ticket, marker_depth, frame,
                       fence_value, submission_error, gpu>>
        /\ Settle(size, vram)
    BY DEF FinishThrows
  <1> QED BY <1>1, <1>2, LeavesOK

(* OnSubmit releases what a complete submission used. *)
LEMMA OnSubmitOK == ASSUME BaseInv, OnSubmit PROVE BaseInv'
  <1>1. HeapInv /\ QueueInv /\ CallInv BY BaseParts
  <1>2. batch \in Batches BY <1>1 DEF HeapInv, HeapTypes
  <1>3. /\ Continues(Cleared) /\ Cleared.tracked = batch.tracked /\ Cleared.list = batch.list
        /\ Cleared \in Batches
    BY <1>2, BatchOK, ClearedOK
  <1>4. /\ call = Idle /\ call' = call /\ batch' = Cleared /\ live_bytes' = ChargeAfter(Cleared)
        /\ UNCHANGED <<bindings, encoder, last_ticket, marker_depth, frame, fence_value,
                       submission_error, queue, completed, removed>>
        /\ Settle(size, vram)
    BY DEF OnSubmit, gpu
  <1>5. HeapInv' BY <1>1, <1>3, <1>4, StaysHeap
  <1>6. QueueInv' BY <1>1, <1>3, <1>4, QueueKept DEF Remembers
  <1>7. CallTypes' BY <1>1, <1>4 DEF CallInv, CallTypes
  <1>8. EncoderAgrees' BY <1>1, <1>3, <1>4 DEF CallInv, EncoderAgrees
  <1>9. CallInv' BY <1>4, <1>7, <1>8, CallPlain DEF Idle
  <1> QED BY <1>5, <1>6, <1>9, BaseParts

(* The destructor is called. *)
LEMMA DestroyOK == ASSUME BaseInv, Destroy PROVE BaseInv'
  <1>1. HeapInv /\ QueueInv /\ CallInv BY BaseParts
  <1>2. /\ call = Idle /\ call' = [op |-> "destroy", obj |-> NoObject]
        /\ UNCHANGED <<bindings, encoder, batch, last_ticket, marker_depth, live_bytes, size, frame,
                       fence_value, submission_error, queue, completed, removed, vram>>
    BY DEF Destroy, heap, gpu
  <1>3. call.op = "idle" /\ call.obj = NoObject /\ call'.op = "destroy" /\ call'.obj = NoObject
    BY <1>2 DEF Idle
  <1>4. HeapInv' BY <1>1, <1>2, <1>3, HeapSame
  <1>5. QueueInv' BY <1>1, <1>2, <1>3, QueueKept DEF Remembers
  <1>6. CallTypes' BY <1>1, <1>2 DEF CallInv, CallTypes
  <1>7. EncoderAgrees' BY <1>1, <1>2, <1>3 DEF CallInv, EncoderAgrees
  <1>8. CallInv' BY <1>3, <1>6, <1>7, CallPlain
  <1> QED BY <1>4, <1>5, <1>8, BaseParts

(* The destructor releases everything. *)
LEMMA DestroyedOK == ASSUME BaseInv, Destroyed PROVE BaseInv'
  <1>1. HeapInv /\ QueueInv /\ CallInv BY BaseParts
  <1>2. /\ call.op = "destroy" /\ call' = [op |-> "gone", obj |-> NoObject]
        /\ batch' = EmptyBatch /\ encoder' = FALSE /\ live_bytes' = ChargeAfter(EmptyBatch)
        /\ UNCHANGED <<bindings, last_ticket, marker_depth, frame, fence_value,
                       submission_error, queue, completed, removed>>
        /\ Settle(size, vram)
    BY DEF Destroyed, gpu
  <1>3. call'.op = "gone" /\ call'.obj = NoObject BY <1>2
  <1>4. call.obj = NoObject BY <1>1, <1>2 DEF CallInv, CallAgrees
  <1>5. Continues(EmptyBatch) BY <1>1, BatchOK DEF HeapInv, HeapTypes
  <1>6. HeapInv'
    <2>1. batch' \in Batches BY <1>2, <1>5 DEF Continues
    <2> QED BY <1>1, <1>2, <1>3, <1>4, <1>5, <2>1, StaysHeap
  <1>7. QueueInv' BY <1>1, <1>2, <1>3, QueueKept DEF Remembers
  <1>8. CallTypes' BY <1>1, <1>2 DEF CallInv, CallTypes
  <1>9. EncoderAgrees' BY <1>2, <1>3 DEF EncoderAgrees, EmptyBatch
  <1>10. CallInv' BY <1>3, <1>8, <1>9, CallPlain
  <1> QED BY <1>6, <1>7, <1>10, BaseParts

(* The client releases its image. *)
LEMMA ReleaseFrameOK == ASSUME BaseInv, ReleaseFrame PROVE BaseInv'
  <1>1. HeapInv /\ QueueInv /\ CallInv BY BaseParts
  <1>2. /\ call.op \in {"idle", "gone"} /\ frame # NoObject /\ frame' = NoObject
        /\ live_bytes' = live_bytes - Footprint[size[frame]]
        /\ UNCHANGED <<bindings, encoder, batch, last_ticket, marker_depth, call, fence_value,
                       submission_error, queue, completed, removed>>
        /\ Settle(size, vram)
    BY DEF ReleaseFrame, bridge, gpu
  <1>3. call.obj = NoObject BY <1>1, <1>2 DEF CallInv, CallAgrees
  <1>4. HeapInv'
    <2>1. Continues(batch) /\ batch' \in Batches BY <1>1, <1>2, ChargeNow DEF Continues
    <2> DEFINE pz == Prints(size)
    <2>2. Owed(pz, frame) = Footprint[size[frame]] /\ Owed(pz, frame') = 0
          /\ Owed(pz, call'.obj) = 0 /\ Owed(pz, call.obj) = 0
      <3>1. size \in SizeMaps /\ frame \in Objects BY <1>1, <1>2 DEF HeapInv, HeapTypes
      <3>2. pz[frame] = Footprint[size[frame]] BY <3>1, PrintsOK
      <3> HIDE DEF pz
      <3> QED BY <1>2, <1>3, <3>2 DEF Owed
    <2>3. live_bytes' = BytesIn(pz, batch.staging) + Owed(pz, call'.obj) + Owed(pz, frame')
      <3>1. live_bytes = BytesIn(pz, batch.staging) + Owed(pz, call.obj) + Owed(pz, frame)
            /\ BytesIn(pz, batch.staging) \in Nat /\ Owed(pz, frame) \in Nat
        BY <1>1, Charged
      <3> HIDE DEF pz
      <3> QED BY <1>2, <2>2, <3>1
    <2> QED BY <1>1, <1>2, <1>3, <2>1, <2>3, HeapStep
  <1>5. QueueInv' BY <1>1, <1>2, QueueKept DEF Remembers
  <1>6. CallTypes' BY <1>1, <1>2 DEF CallInv, CallTypes
  <1>7. EncoderAgrees' BY <1>1, <1>2 DEF CallInv, EncoderAgrees
  <1>8. CallInv' BY <1>2, <1>3, <1>6, <1>7, CallPlain
  <1> QED BY <1>4, <1>5, <1>8, BaseParts

(* The shell submits. *)
LEMMA HostSubmitOK == ASSUME BaseInv, HostSubmit PROVE BaseInv'
  <1>1. HeapInv /\ QueueInv /\ CallInv BY BaseParts
  <1>2. /\ call = Idle /\ (Submit(<<>>) \/ SubmitThrows(<<>>))
        /\ UNCHANGED <<bindings, encoder, batch, last_ticket, marker_depth, call,
                       live_bytes, size, frame, vram>>
    BY DEF HostSubmit, bridge, heap
  <1>3. HeapInv' BY <1>1, <1>2, HeapSame
  <1>4. QueueInv'
    <2>1. Remembers /\ <<>> \in Seq(Commands) BY <1>2 DEF Remembers
    <2>2. CASE Submit(<<>>) BY <1>1, <1>2, <2>1, <2>2, SubmitOK
    <2>3. CASE SubmitThrows(<<>>) BY <1>1, <1>2, <2>1, <2>3, SubmitThrowsOK
    <2> QED BY <1>2, <2>2, <2>3
  <1>5. CallTypes' BY <1>1, <1>2 DEF CallInv, CallTypes
  <1>6. EncoderAgrees' BY <1>1, <1>2 DEF CallInv, EncoderAgrees
  <1>7. CallInv' BY <1>2, <1>5, <1>6, CallPlain DEF Idle
  <1> QED BY <1>3, <1>4, <1>7, BaseParts

(* The GPU executes a submission. *)
LEMMA GpuStepOK == ASSUME BaseInv, GpuStep PROVE BaseInv'
  <1>1. HeapInv /\ QueueInv /\ CallInv BY BaseParts
  <1>2. /\ queue # <<>> /\ vram' = ExecuteAll(vram, Head(queue).cmds)
        /\ UNCHANGED <<bindings, encoder, batch, last_ticket, marker_depth, call,
                       live_bytes, size, frame, submission_error>>
    BY DEF GpuStep, bridge, heap
  <1>3. queue \in Seq(Submissions) /\ vram \in Memories
    BY <1>1 DEF QueueInv, QueueTypes, HeapInv, HeapTypes
  <1>4. Head(queue).cmds \in Seq(Commands)
    <2>1. Head(queue) \in Submissions BY <1>2, <1>3
    <2> QED BY <2>1 DEF Submissions
  <1>5. vram' \in Memories BY <1>2, <1>3, <1>4, ExecuteAllOK
  <1>6. HeapInv'
    <2>1. HeapTypes' BY <1>1, <1>2, <1>5 DEF HeapInv, HeapTypes
    <2>2. OneOwner' BY <1>1, <1>2 DEF HeapInv, OneOwner
    <2>3. /\ Charge(batch.staging \cup {call.obj, frame})'
                 = Charge(batch.staging \cup {call.obj, frame})
          /\ Bytes(batch.staging)' = Bytes(batch.staging)
      BY <1>2 DEF Bytes, Charge
    <2>4. AccountingExact' BY <1>1, <1>2, <2>3 DEF HeapInv, AccountingExact
    <2> QED BY <2>1, <2>2, <2>4 DEF HeapInv
  <1>7. QueueInv' BY <1>1, GpuQueue
  <1>8. CallInv' BY <1>1, <1>2, CallSame
  <1> QED BY <1>6, <1>7, <1>8, BaseParts

(* Nothing happens, or the device is removed. *)
LEMMA QuietOK ==
    ASSUME BaseInv, DeviceRemoved \/ Gone \/ UNCHANGED vars PROVE BaseInv'
  <1>1. HeapInv /\ QueueInv /\ CallInv BY BaseParts
  <1>2. /\ UNCHANGED <<bindings, encoder, batch, last_ticket, marker_depth, call, live_bytes, size,
                       frame, fence_value, submission_error, queue, completed, vram>>
        /\ removed' = TRUE \/ removed' = removed
    BY DEF DeviceRemoved, Gone, vars, bridge, heap, gpu
  <1>3. HeapInv' BY <1>1, <1>2, HeapSame
  <1>4. QueueInv'
    <2>1. QueueTypes' BY <1>1, <1>2 DEF QueueInv, QueueTypes
    <2>2. TicketsAgree' BY <1>1, <1>2 DEF QueueInv, TicketsAgree
    <2> QED BY <2>1, <2>2 DEF QueueInv
  <1>5. CallInv' BY <1>1, <1>2, CallSame
  <1> QED BY <1>3, <1>4, <1>5, BaseParts

(* BeginRecording throws inside a call. *)
LEMMA BeginThrowsOK ==
    ASSUME BaseInv, BeginThrows, call.op \in {"record", "readback"} PROVE BaseInv'
  <1>1. HeapInv /\ QueueInv /\ CallInv BY BaseParts
  <1>2. /\ ~encoder /\ Settle(size, vram)
        /\ UNCHANGED <<bindings, encoder, last_ticket, marker_depth, frame,
                       fence_value, submission_error, gpu>>
    BY DEF BeginThrows
  <1>3. batch \in Batches BY <1>1 DEF HeapInv, HeapTypes
  <1>4. CASE UNCHANGED batch /\ Leave(live_bytes)
    <2>1. Continues(batch) /\ live_bytes = ChargeAfter(batch) BY <1>1, ChargeNow
    <2> QED BY <1>2, <1>4, <2>1, LeavesOK
  <1>5. CASE /\ Leave(ChargeAfter(EmptyBatch))
             /\ batch' = [EmptyBatch EXCEPT !.list = IF batch.list = "none" THEN "none" ELSE "closed"]
    <2>1. PICK l \in {"none", "closed"} : batch' = [EmptyBatch EXCEPT !.list = l]
      BY <1>5
    <2>2. /\ Continues(EmptyBatch) /\ Continues(batch')
          /\ batch'.staging = {} /\ batch'.staged = 0 /\ batch'.tracked = {} /\ batch'.list = l
          /\ EmptyBatch.staging = {} /\ EmptyBatch.staged = 0
      BY <1>3, <2>1, BatchOK DEF EmptyBatch
    <2>3. HeapInv' /\ call'.op = "idle" /\ call'.obj = NoObject
      BY <1>1, <1>2, <1>5, <2>2, LeavesHeap DEF Continues
    <2>4. QueueInv' BY <1>1, <1>2, <2>3, QueueKept DEF Remembers, gpu
    <2>5. CallTypes' BY <1>1, <1>2 DEF CallInv, CallTypes
    <2>6. EncoderAgrees' BY <1>1, <1>2, <2>2 DEF CallInv, EncoderAgrees
    <2>7. CallInv' BY <2>3, <2>5, <2>6, CallPlain
    <2> QED BY <2>3, <2>4, <2>7, BaseParts
  <1> QED BY <1>4, <1>5 DEF BeginThrows

(* DownloadBuffer has its readback buffer, or fails without one. *)
LEMMA DownloadFinishedOK == ASSUME BaseInv, DownloadFinished PROVE BaseInv'
  <1> DEFINE o == NewObject(Cleared)
             sz == [size EXCEPT ![o] = call.n]
  <1>0. NoObject \notin Objects /\ Budget \in Nat /\ MaxTransfer \in Nat
    BY ConstantsAssumption DEF NoObject, Objects
  <1>1. HeapInv /\ QueueInv /\ CallInv BY BaseParts
  <1>2. /\ call.op = "download" /\ batch' = Cleared /\ WaitReturns(last_ticket)
        /\ UNCHANGED <<bindings, encoder, last_ticket, marker_depth, frame,
                       fence_value, submission_error, gpu>>
    BY DEF DownloadFinished
  <1>3. /\ batch \in Batches /\ size \in SizeMaps /\ vram \in Memories
        /\ DOMAIN vram = Resources \cup Objects /\ frame \in Objects \cup {NoObject}
    BY <1>1 DEF HeapInv, HeapTypes, Memories
  <1>4. /\ Continues(Cleared) /\ Cleared.tracked = batch.tracked /\ Cleared.list = batch.list
        /\ Cleared \in Batches /\ Cleared.staging = {} /\ Cleared.staged = 0 /\ Cleared.pending = {}
    BY <1>3, BatchOK, ClearedOK
  <1>5. CASE Leave(ChargeAfter(Cleared)) /\ Settle(size, vram)
    BY <1>2, <1>4, <1>5, LeavesOK
  <1>6. CASE /\ Affordable(call.n, ChargeAfter(Cleared))
             /\ call' = [op |-> "readback", obj |-> o, a |-> call.a, n |-> call.n]
             /\ live_bytes' = ChargeAfter(Cleared) + Footprint[call.n]
             /\ Settle(sz, vram)
    <2>1. /\ call.a \in Addresses /\ Found(call.a, call.n) /\ Objects \ {frame} # {} /\ ~encoder
          /\ call.obj = NoObject /\ batch.tracked = {} /\ batch.list # "open"
          /\ marker_depth = 0
      BY <1>1, <1>2 DEF CallInv, CallAgrees, EncoderAgrees
    <2>2. call.n \in 0 .. MaxTransfer /\ Footprint[call.n] \in Nat
      <3>1. call.n \in Nat \ {0} /\ call.n <= MaxTransfer
        BY <1>1, <2>1, FoundOK DEF CallInv, CallTypes
      <3>2. call.n \in 0 .. MaxTransfer BY <1>0, <3>1
      <3> QED BY <3>2, ConstantsAssumption
    <2>3. o \in Objects /\ o # frame
      <3>1. Unheld(Cleared) # {} BY <1>0, <1>4, <2>1 DEF Unheld, HeldBy
      <3> QED BY <3>1, NewObjectOK
    <2>4. /\ call'.op = "readback" /\ call'.obj = o /\ call'.a = call.a /\ call'.n = call.n
      BY <1>6
    <2> HIDE DEF o
    <2>5. sz \in SizeMaps /\ sz[o] = call.n /\ \A x \in Objects : x # o => sz[x] = size[x]
      BY <1>3, <2>2, <2>3 DEF SizeMaps
    <2>6. HeapInv'
      <3> HIDE DEF sz
      <3>1. OneOwner' BY <1>0, <1>2, <1>4, <1>3, <2>3, <2>4 DEF OneOwner
      <3>2. /\ sz \in [Objects -> Nat] /\ Prints(sz) \in [Objects -> Nat]
            /\ \A x \in Objects : Prints(sz)[x] = Footprint[sz[x]]
        BY <2>5, PrintsOK
      <3>3. BytesIn(sz, {}) = 0 /\ BytesIn(Prints(sz), {}) = 0 BY <3>2, BytesNone
      <3>4. /\ batch'.staged = BytesIn(sz, batch'.staging) /\ batch'.staged <= MaxTransfer
            /\ BytesIn(Prints(sz), batch'.staging) = 0
        BY <1>0, <1>2, <1>4, <3>3
      <3>5. ChargeAfter(Cleared) = Owed(Prints(size), frame) /\ Owed(Prints(size), frame) \in Nat
        <4>1. Owed(Prints(size), call.obj) = 0 BY <2>1 DEF Owed
        <4>2. BytesIn(Prints(size), Cleared.staging) = 0
          <5>1. Prints(size) \in [Objects -> Nat] BY <1>3, PrintsOK
          <5> QED BY <1>4, <5>1, BytesNone
        <4>3. ChargeAfter(Cleared) = BytesIn(Prints(size), Cleared.staging)
                                         + Owed(Prints(size), call.obj) + Owed(Prints(size), frame)
          BY <1>1, <1>4, ChargeAfterOK
        <4>4. Owed(Prints(size), frame) \in Nat BY <1>1, Charged
        <4> QED BY <4>1, <4>2, <4>3, <4>4
      <3>6. Owed(Prints(sz), call'.obj) = Footprint[call.n]
        BY <1>0, <2>3, <2>4, <2>5, <3>2 DEF Owed
      <3>7. Owed(Prints(sz), frame') = Owed(Prints(size), frame)
        <4>1. \A x \in Objects : Prints(size)[x] = Footprint[size[x]] BY <1>3, PrintsOK
        <4> QED BY <1>2, <1>3, <2>3, <2>5, <3>2, <4>1 DEF Owed
      <3>8. /\ live_bytes' = BytesIn(Prints(sz), batch'.staging)
                                  + Owed(Prints(sz), call'.obj) + Owed(Prints(sz), frame')
            /\ live_bytes' <= Budget
        BY <1>0, <1>6, <2>2, <3>4, <3>5, <3>6, <3>7 DEF Affordable
      <3>9. batch' \in Batches /\ call'.obj \in Objects \cup {NoObject}
            /\ frame' \in Objects \cup {NoObject} /\ Settle(sz, vram)
        BY <1>2, <1>3, <1>4, <1>6, <2>3, <2>4 DEF sz
      <3> QED BY <1>3, <2>5, <3>1, <3>4, <3>8, <3>9, Settled
    <2>7. QueueInv' BY <1>1, <1>2, <1>4, <2>1, QueueKept DEF Remembers, gpu
    <2>8. CallTypes' BY <1>1, <1>2 DEF CallInv, CallTypes
    <2>9. EncoderAgrees' BY <1>2, <1>4, <2>1 DEF EncoderAgrees
    <2>10. Found(call.a, call.n)' BY <1>2, <2>1, <2>4 DEF Found, Covers
    <2>11. ~submission_error' /\ ~encoder' BY <1>2, <2>1 DEF WaitReturns
    <2>12. CallAgrees' BY <1>0, <2>1, <2>3, <2>4, <2>10, <2>11 DEF CallAgrees
    <2> QED BY <2>6, <2>7, <2>8, <2>9, <2>12, BaseParts DEF CallInv
  <1> QED BY <1>5, <1>6 DEF DownloadFinished

(* The download records its copy and flushes it. *)
LEMMA ReadbackOK == ASSUME BaseInv, Readback PROVE BaseInv'
  <1> DEFINE c == Command(call.obj, 0, Buffer(call.a, call.n), Offset(call.a, call.n), call.n)
             b == [Batch EXCEPT !.tracked = @ \cup {call.obj}, !.cmds = Record(Batch, c)]
             next == [op |-> "read", obj |-> call.obj, a |-> call.a, n |-> call.n]
  <1>1. HeapInv /\ QueueInv /\ CallInv BY BaseParts
  <1>2. /\ call.op = "readback" /\ Settle(size, vram)
        /\ UNCHANGED <<bindings, marker_depth, frame>>
        /\ \/ Flushed(b, next) /\ live_bytes' = ChargeAfter(b)
           \/ FlushThrows(b) /\ Leave(ChargeAfter(b))
    BY DEF Readback
  <1>3. /\ next.op = "read" /\ next.obj = call.obj /\ next.a = call.a /\ next.n = call.n OBVIOUS
  <1>4. /\ call.a \in Addresses /\ Found(call.a, call.n) /\ ~encoder /\ ~submission_error
        /\ marker_depth = 0
    BY <1>1, <1>2 DEF CallInv, CallAgrees, EncoderAgrees
  <1>5. batch \in Batches /\ call.obj \in Objects
    BY <1>1, <1>2 DEF HeapInv, HeapTypes, CallInv, CallAgrees
  <1>6. /\ b \in Batches /\ Continues(b) /\ b.staging = {} /\ b.staged = 0 /\ b.pending = {}
        /\ b.tracked = {call.obj}
    <2>1. c \in Commands
      <3>1. /\ call.n \in Nat \ {0} /\ call.n <= MaxTransfer
            /\ Buffer(call.a, call.n) \in Resources /\ Offset(call.a, call.n) \in Nat
            /\ InBounds(Buffer(call.a, call.n), Offset(call.a, call.n), call.n)
        BY <1>1, <1>4, FoundOK DEF CallInv, CallTypes
      <3>2. InBounds(call.obj, 0, call.n) BY <1>5, <3>1, ObjectInBounds
      <3> QED BY <1>5, <3>1, <3>2, CommandOK
    <2> HIDE DEF c
    <2>2. /\ Continues(Batch) /\ Batch = NewBatch /\ NewBatch.tracked = {} /\ NewBatch.staging = {}
          /\ NewBatch.staged = 0 /\ NewBatch.pending = {}
      BY <1>4, <1>5, BatchOK
    <2>3. Record(Batch, c) \in Seq(Commands) BY <2>1, <2>2, RecordOK DEF Continues
    <2> QED BY <1>5, <2>2, <2>3 DEF Continues, Batches
  <1> HIDE DEF b, next
  <1>7. CallTypes' <=> encoder' \in BOOLEAN BY <1>1, <1>2 DEF CallInv, CallTypes
  <1>8. CASE Flushed(b, next) /\ live_bytes' = ChargeAfter(b)
    <2>1. /\ QueueInv' /\ batch' \in Batches /\ encoder' = FALSE /\ call' = next
          /\ batch'.staging = b.staging /\ batch'.staged = b.staged
          /\ batch'.tracked = {} /\ batch'.list = "closed" /\ submission_error' = submission_error
      BY <1>1, <1>2, <1>4, <1>6, <1>8, FlushedOK
    <2>2. HeapInv' BY <1>1, <1>2, <1>3, <1>6, <1>8, <2>1, StaysHeap
    <2>3. EncoderAgrees' BY <1>2, <1>4, <2>1 DEF EncoderAgrees
    <2>4. Found(call.a, call.n)' BY <1>2, <1>3, <1>4, <2>1 DEF Found, Covers
    <2>5. CallAgrees'
      <3>1. call.obj # NoObject BY <1>1, <1>2 DEF CallInv, CallAgrees
      <3> QED BY <1>3, <1>4, <2>1, <2>4, <3>1 DEF CallAgrees
    <2> QED BY <1>7, <2>1, <2>2, <2>3, <2>5, BaseParts DEF CallInv
  <1>9. CASE FlushThrows(b) /\ Leave(ChargeAfter(b))
    <2>1. /\ QueueInv' /\ batch' \in Batches /\ encoder' = TRUE
          /\ batch'.staging = b.staging /\ batch'.staged = b.staged
      BY <1>1, <1>2, <1>4, <1>6, <1>9, FlushThrowsOK
    <2>2. HeapInv' /\ call'.op = "idle" /\ call'.obj = NoObject
      BY <1>1, <1>2, <1>6, <1>9, <2>1, LeavesHeap
    <2>3. EncoderAgrees' BY <2>1 DEF EncoderAgrees
    <2>4. CallInv' BY <1>7, <2>1, <2>2, <2>3, CallPlain
    <2> QED BY <2>1, <2>2, <2>4, BaseParts
  <1> QED BY <1>2, <1>8, <1>9

(* The recordings: what every one of them leaves as it was. *)
LEMMA RecordedRest ==
    ASSUME BaseInv, Recorded, call'.op = "idle", call'.obj = NoObject,
           encoder /\ batch.list = "closed" => batch'.list = "closed"
    PROVE  QueueInv' /\ (marker_depth' \in 0 .. MaxDepth => CallInv')
  <1>1. QueueInv /\ CallInv BY BaseParts
  <1>2. /\ call.op = "record" /\ encoder' = TRUE
        /\ UNCHANGED <<bindings, last_ticket, fence_value, submission_error, gpu>>
    BY DEF Recorded
  <1>3. QueueInv' BY <1>1, <1>2, QueueKept DEF Remembers, gpu
  <1>4. EncoderAgrees' BY <1>2 DEF EncoderAgrees
  <1>5. marker_depth' \in 0 .. MaxDepth => CallTypes' BY <1>1, <1>2 DEF CallInv, CallTypes
  <1> QED BY <1>3, <1>4, <1>5, CallPlain

(* FillBuffer fails, or stages its upload. *)
LEMMA RecordFillOK ==
    ASSUME BaseInv, Recorded, call.req.kind = "fill", RecordFill(call.req, Batch),
           UNCHANGED <<frame, marker_depth>>
    PROVE  BaseInv'
  <1> DEFINE req == call.req
             b == Batch
             o == NewObject(b)
             sz == [size EXCEPT ![o] = req.n]
             mem == [vram EXCEPT ![o] = [w \in Words |-> IF w < req.n THEN req.v ELSE 0]]
             c == Command(Buffer(req.a, req.n), Offset(req.a, req.n), o, 0, req.n)
  <1>0. NoObject \notin Objects /\ Budget \in Nat /\ MaxTransfer \in Nat
    BY ConstantsAssumption DEF NoObject, Objects
  <1>1. HeapInv /\ QueueInv /\ CallInv BY BaseParts
  <1>2. call.op = "record" BY DEF Recorded
  <1>3. /\ req.a \in Addresses /\ Found(req.a, req.n) /\ req.v \in Values /\ Unheld(b) # {}
        /\ call.obj = NoObject
    BY <1>1, <1>2 DEF CallInv, CallAgrees, RequestAgrees
  <1>4. /\ batch \in Batches /\ size \in SizeMaps /\ vram \in Memories
        /\ DOMAIN vram = Resources \cup Objects /\ frame \in Objects \cup {NoObject}
    BY <1>1 DEF HeapInv, HeapTypes, Memories
  <1>5. Continues(b) /\ b \in Batches /\ (encoder => b = batch)
    BY <1>4, BatchOK DEF Continues
  <1>6. marker_depth' \in 0 .. MaxDepth BY <1>1 DEF CallInv, CallTypes
  <1>7. /\ req.n \in Nat \ {0} /\ req.n <= MaxTransfer
        /\ Buffer(req.a, req.n) \in Resources /\ Offset(req.a, req.n) \in Nat
        /\ InBounds(Buffer(req.a, req.n), Offset(req.a, req.n), req.n)
    BY <1>1, <1>3, FoundOK DEF CallInv, CallTypes
  <1>8. o \in Objects /\ o \notin b.staging \cup b.pending \cup b.tracked /\ o # frame
    BY <1>3, NewObjectOK
  <1>9. /\ b.staged \in Nat /\ b.staged = BytesIn(size, b.staging) /\ b.staging \in SUBSET Objects
        /\ b.staging \in SUBSET batch.staging /\ b.staged <= MaxTransfer
        /\ BytesIn(Prints(size), b.staging) \in Nat /\ Owed(Prints(size), frame) \in Nat
        /\ ChargeAfter(b) = BytesIn(Prints(size), b.staging) + Owed(Prints(size), frame)
    <2>1. Owed(Prints(size), call.obj) = 0 BY <1>3 DEF Owed
    <2> QED BY <1>0, <1>1, <1>5, <2>1, Charged, ChargeAfterOK
  <1>10. CASE /\ batch' = b /\ live_bytes' = ChargeAfter(b) /\ call' = Idle /\ Settle(size, vram)
    <2>1. call'.op = "idle" /\ call'.obj = NoObject BY <1>10 DEF Idle
    <2>2. HeapInv' BY <1>1, <1>3, <1>5, <1>10, <2>1, StaysHeap
    <2>3. QueueInv' /\ CallInv' BY <1>5, <1>6, <1>10, <2>1, RecordedRest
    <2> QED BY <2>2, <2>3, BaseParts
  <1>11. CASE /\ req.n <= MaxTransfer - b.staged /\ Affordable(req.n, ChargeAfter(b))
              /\ batch' = [b EXCEPT !.staging = @ \cup {o}, !.tracked = @ \cup {o},
                                    !.staged = @ + req.n, !.cmds = Record(b, c)]
              /\ live_bytes' = ChargeAfter(b) + Footprint[req.n]
              /\ call' = Idle
              /\ Settle(sz, mem)
    <2>1. call'.op = "idle" /\ call'.obj = NoObject BY <1>11 DEF Idle
    <2>2. c \in Commands
      <3>1. InBounds(o, 0, req.n) BY <1>7, <1>8, ObjectInBounds
      <3> QED BY <1>7, <1>8, <3>1, CommandOK
    <2>3. Record(b, c) \in Seq(Commands) BY <1>5, <2>2, RecordOK
    <2> HIDE DEF c, o, b
    <2>4. /\ batch' \in Batches /\ batch'.staging = b.staging \cup {o} /\ batch'.list = b.list
          /\ batch'.staged = b.staged + req.n
      <3> DEFINE cs == Record(b, c)
                 n == req.n
      <3>1. cs \in Seq(Commands) /\ n \in Nat BY <1>7, <2>3
      <3>2. batch' = [b EXCEPT !.staging = @ \cup {o}, !.tracked = @ \cup {o},
                               !.staged = @ + n, !.cmds = cs]
        BY <1>11
      <3> HIDE DEF cs, n
      <3>3. /\ b.staging \cup {o} \in SUBSET Objects /\ b.tracked \cup {o} \in SUBSET Objects
            /\ b.pending \in SUBSET Objects /\ b.list \in {"none", "open", "closed"}
            /\ b.staged + n \in Nat
        BY <1>5, <1>8, <3>1 DEF Batches
      <3>4. batch' = [staging |-> b.staging \cup {o}, pending |-> b.pending, staged |-> b.staged + n,
                      tracked |-> b.tracked \cup {o}, cmds |-> cs, list |-> b.list]
        BY <1>5, <3>2 DEF Batches
      <3> QED BY <3>1, <3>3, <3>4 DEF Batches, n
    <2>5. mem \in Memories
      <3> DEFINE words == [w \in Words |-> IF w < req.n THEN req.v ELSE 0]
      <3>1. words \in [Words -> Values \cup {0}] BY <1>3
      <3> HIDE DEF words
      <3>2. mem = [vram EXCEPT ![o] = words] BY DEF words
      <3> QED BY <1>4, <1>8, <3>1, <3>2 DEF Memories
    <2>6. /\ sz \in SizeMaps /\ sz[o] = req.n /\ \A x \in Objects : x # o => sz[x] = size[x]
          /\ Footprint[req.n] \in Nat
      <3>1. req.n \in 0 .. MaxTransfer BY <1>0, <1>7
      <3>2. Footprint[req.n] \in Nat BY <3>1, ConstantsAssumption
      <3> QED BY <1>4, <1>8, <3>1, <3>2 DEF SizeMaps
    <2>7. /\ BytesIn(sz, b.staging \cup {o}) = BytesIn(size, b.staging) + req.n
          /\ BytesIn(Prints(sz), b.staging \cup {o})
                 = BytesIn(Prints(size), b.staging) + Footprint[req.n]
      <3> HIDE DEF sz
      <3>1. o \notin b.staging BY <1>8
      <3> QED BY <1>4, <1>8, <1>9, <2>6, <3>1, StagingAdded
    <2> HIDE DEF sz, mem
    <2>8. OneOwner' BY <1>0, <1>1, <1>8, <1>9, <2>1, <2>4 DEF HeapInv, OneOwner
    <2>9. batch'.staged = BytesIn(sz, batch'.staging) /\ batch'.staged <= MaxTransfer
      BY <1>0, <1>7, <1>9, <1>11, <2>4, <2>7
    <2>10. Owed(Prints(sz), call'.obj) = 0 BY <2>1 DEF Owed
    <2>11. Owed(Prints(sz), frame') = Owed(Prints(size), frame)
      <3>1. \A x \in Objects : Prints(size)[x] = Footprint[size[x]] BY <1>4, PrintsOK
      <3>2. \A x \in Objects : Prints(sz)[x] = Footprint[sz[x]] BY <2>6, PrintsOK
      <3> QED BY <1>4, <1>8, <2>6, <3>1, <3>2 DEF Owed
    <2>12. live_bytes' = BytesIn(Prints(sz), batch'.staging)
                             + Owed(Prints(sz), call'.obj) + Owed(Prints(sz), frame')
      BY <1>9, <1>11, <2>4, <2>6, <2>7, <2>10, <2>11
    <2>13. live_bytes' <= Budget BY <1>0, <1>9, <1>11, <2>6 DEF Affordable
    <2>14. call'.obj \in Objects \cup {NoObject} /\ frame' \in Objects \cup {NoObject}
           /\ Settle(sz, mem)
      BY <1>4, <1>11, <2>1 DEF sz, mem
    <2>15. HeapInv'
      BY <1>4, <2>4, <2>5, <2>6, <2>8, <2>9, <2>12, <2>13, <2>14, Settled
    <2>16. QueueInv' /\ CallInv' BY <1>5, <1>6, <2>1, <2>4, RecordedRest
    <2> QED BY <2>15, <2>16, BaseParts
  <1> QED BY <1>10, <1>11 DEF RecordFill

(* CopyBuffer and the markers add nothing to the batch but commands. *)
LEMMA RecordPlainOK ==
    ASSUME BaseInv, Recorded, NEW cs \in Seq(Commands), batch' = [Batch EXCEPT !.cmds = cs],
           live_bytes' = ChargeAfter(Batch), call' = Idle, Settle(size, vram), frame' = frame,
           call.obj = NoObject, marker_depth' \in 0 .. MaxDepth
    PROVE  BaseInv'
  <1>1. HeapInv BY BaseParts
  <1>2. batch \in Batches BY <1>1 DEF HeapInv, HeapTypes
  <1>3. Continues(Batch) /\ Batch \in Batches /\ (encoder => Batch = batch)
    BY <1>2, BatchOK DEF Continues
  <1>4. /\ batch' \in Batches /\ batch'.staging = Batch.staging /\ batch'.staged = Batch.staged
        /\ batch'.list = Batch.list
    BY <1>3 DEF Batches
  <1>5. call'.op = "idle" /\ call'.obj = NoObject BY DEF Idle
  <1>6. HeapInv' BY <1>1, <1>3, <1>4, <1>5, StaysHeap
  <1>7. QueueInv' /\ CallInv' BY <1>3, <1>4, <1>5, RecordedRest
  <1> QED BY <1>6, <1>7, BaseParts

(* CopyBuffer records its copy. *)
LEMMA RecordCopyOK ==
    ASSUME BaseInv, Recorded, call.req.kind = "copy", RecordCopy(call.req, Batch),
           UNCHANGED <<frame, marker_depth>>
    PROVE  BaseInv'
  <1> DEFINE req == call.req
             c == Command(Buffer(req.d, req.n), Offset(req.d, req.n),
                          Buffer(req.s, req.n), Offset(req.s, req.n), req.n)
             cs == Record(Batch, c)
  <1>1. HeapInv /\ CallInv BY BaseParts
  <1>2. call.op = "record" BY DEF Recorded
  <1>3. /\ req.d \in Addresses /\ Found(req.d, req.n) /\ req.s \in Addresses /\ Found(req.s, req.n)
        /\ call.obj = NoObject
    BY <1>1, <1>2 DEF CallInv, CallAgrees, RequestAgrees
  <1>4. /\ req.n \in Nat \ {0}
        /\ Buffer(req.d, req.n) \in Resources /\ Offset(req.d, req.n) \in Nat
        /\ InBounds(Buffer(req.d, req.n), Offset(req.d, req.n), req.n)
        /\ Buffer(req.s, req.n) \in Resources /\ Offset(req.s, req.n) \in Nat
        /\ InBounds(Buffer(req.s, req.n), Offset(req.s, req.n), req.n)
    BY <1>1, <1>3, FoundOK DEF CallInv, CallTypes
  <1>5. c \in Commands BY <1>4, CommandOK
  <1> HIDE DEF c
  <1>6. batch \in Batches BY <1>1 DEF HeapInv, HeapTypes
  <1>7. Batch \in Batches BY <1>6, BatchOK DEF Continues
  <1>8. cs \in Seq(Commands) BY <1>5, <1>7, RecordOK
  <1>9. /\ batch' = [Batch EXCEPT !.cmds = cs] /\ live_bytes' = ChargeAfter(Batch) /\ call' = Idle
        /\ Settle(size, vram)
    BY DEF RecordCopy, c
  <1>10. marker_depth' \in 0 .. MaxDepth BY <1>1 DEF CallInv, CallTypes
  <1> HIDE DEF cs
  <1> QED BY <1>3, <1>8, <1>9, <1>10, RecordPlainOK

(* A marker is recorded. *)
LEMMA RecordMarkerOK ==
    ASSUME BaseInv, Recorded, call.req.kind \in {"begin", "insert"}, RecordMarker(call.req, Batch),
           frame' = frame,
           marker_depth' = IF call.req.kind = "begin" THEN marker_depth + 1 ELSE marker_depth
    PROVE  BaseInv'
  <1> DEFINE cs == Batch.cmds
  <1>1. HeapInv /\ CallInv BY BaseParts
  <1>2. call.op = "record" BY DEF Recorded
  <1>3. call.obj = NoObject /\ (call.req.kind = "begin" => marker_depth < MaxDepth)
    BY <1>1, <1>2 DEF CallInv, CallAgrees, RequestAgrees
  <1>4. marker_depth' \in 0 .. MaxDepth
    <2>1. marker_depth \in 0 .. MaxDepth /\ MaxDepth \in Nat
      BY <1>1, ConstantsAssumption DEF CallInv, CallTypes
    <2> QED BY <1>3, <2>1
  <1>5. batch \in Batches BY <1>1 DEF HeapInv, HeapTypes
  <1>6. Batch \in Batches BY <1>5, BatchOK DEF Continues
  <1>7. cs \in Seq(Commands) /\ [Batch EXCEPT !.cmds = cs] = Batch BY <1>6 DEF Batches
  <1>8. /\ batch' = [Batch EXCEPT !.cmds = cs] /\ live_bytes' = ChargeAfter(Batch) /\ call' = Idle
        /\ Settle(size, vram)
    BY <1>7 DEF RecordMarker
  <1> HIDE DEF cs
  <1> QED BY <1>3, <1>4, <1>7, <1>8, RecordPlainOK

(* CreateLinearFrame hands its image to the client and the batch. *)
LEMMA RecordFrameOK ==
    ASSUME BaseInv, Recorded, call.req.kind = "frame", RecordFrame(call.req, Batch),
           UNCHANGED marker_depth
    PROVE  BaseInv'
  <1> DEFINE req == call.req
             o == call.obj
             c == Command(o, 0, Buffer(req.a, 1), Offset(req.a, 1), 1)
             cs == Record(Batch, c)
  <1>1. HeapInv /\ CallInv BY BaseParts
  <1>2. call.op = "record" BY DEF Recorded
  <1>3. /\ req.a \in Addresses /\ Found(req.a, 1) /\ frame = NoObject /\ o # NoObject
    BY <1>1, <1>2 DEF CallInv, CallAgrees, RequestAgrees
  <1>4. batch \in Batches /\ o \in Objects BY <1>1, <1>3 DEF HeapInv, HeapTypes
  <1>5. c \in Commands
    <2>1. /\ 1 \in Nat \ {0} /\ 1 <= MaxTransfer
          /\ Buffer(req.a, 1) \in Resources /\ Offset(req.a, 1) \in Nat
          /\ InBounds(Buffer(req.a, 1), Offset(req.a, 1), 1)
      BY <1>1, <1>3, FoundOK DEF CallInv, CallTypes
    <2>2. InBounds(o, 0, 1) BY <1>4, <2>1, ObjectInBounds
    <2> QED BY <1>4, <2>1, <2>2, CommandOK
  <1> HIDE DEF c
  <1>6. Continues(Batch) /\ Batch \in Batches /\ (encoder => Batch = batch)
    BY <1>4, BatchOK DEF Continues
  <1>7. cs \in Seq(Commands) BY <1>5, <1>6, RecordOK
  <1>8. /\ batch' = [Batch EXCEPT !.pending = @ \cup {o}, !.tracked = @ \cup {o}, !.cmds = cs]
        /\ live_bytes' = ChargeAfter(Batch) /\ call' = Idle /\ frame' = o
        /\ Settle(size, vram)
    BY DEF RecordFrame, c
  <1> HIDE DEF cs
  <1>9. /\ batch' \in Batches /\ batch'.staging = Batch.staging /\ batch'.staged = Batch.staged
        /\ batch'.list = Batch.list
    BY <1>4, <1>6, <1>7, <1>8 DEF Batches
  <1>10. call'.op = "idle" /\ call'.obj = NoObject BY <1>8 DEF Idle
  <1>11. HeapInv'
    <2> DEFINE pz == Prints(size)
    <2>1. Owed(pz, frame) = 0 /\ Owed(pz, call'.obj) = 0 BY <1>3, <1>10 DEF Owed
    <2>2. /\ ChargeAfter(Batch) = BytesIn(pz, Batch.staging) + Owed(pz, o) + Owed(pz, frame)
          /\ BytesIn(pz, Batch.staging) \in Nat /\ Owed(pz, o) \in Nat
      BY <1>1, <1>6, ChargeAfterOK, Charged
    <2>3. live_bytes' = BytesIn(pz, Batch.staging) + Owed(pz, call'.obj) + Owed(pz, frame')
      <3> HIDE DEF pz
      <3> QED BY <1>8, <2>1, <2>2
    <2> QED BY <1>1, <1>6, <1>8, <1>9, <1>10, <2>3, HeapStep
  <1>12. marker_depth' \in 0 .. MaxDepth BY <1>1 DEF CallInv, CallTypes
  <1>13. QueueInv' /\ CallInv' BY <1>6, <1>9, <1>10, <1>12, RecordedRest
  <1> QED BY <1>11, <1>13, BaseParts

(* A recording call returns. *)
LEMMA RecordedOK == ASSUME BaseInv, Recorded PROVE BaseInv'
  <1>1. CASE /\ call.req.kind = "fill" /\ UNCHANGED <<frame, marker_depth>>
             /\ RecordFill(call.req, Batch)
    BY <1>1, RecordFillOK
  <1>2. CASE /\ call.req.kind = "copy" /\ UNCHANGED <<frame, marker_depth>>
             /\ RecordCopy(call.req, Batch)
    BY <1>2, RecordCopyOK
  <1>3. CASE call.req.kind = "frame" /\ RecordFrame(call.req, Batch) /\ UNCHANGED marker_depth
    BY <1>3, RecordFrameOK
  <1>4. CASE /\ call.req.kind \in {"begin", "insert"} /\ UNCHANGED frame
             /\ RecordMarker(call.req, Batch)
             /\ marker_depth' = IF call.req.kind = "begin" THEN marker_depth + 1 ELSE marker_depth
    BY <1>4, RecordMarkerOK
  <1> QED BY <1>1, <1>2, <1>3, <1>4 DEF Recorded

(* Every step keeps the invariant. *)
LEMMA BaseNext == ASSUME BaseInv, [Next]_vars PROVE BaseInv'
  <1>1. CASE Calls
    <2>1. CASE \E r \in Resources, base \in Addresses : RegisterBuffer(r, base)
      BY <2>1, RegisterBufferOK
    <2>2. CASE \E a \in Addresses, n \in Sizes, v \in Values : FillBuffer(a, n, v)
      BY <2>2, FillBufferOK
    <2>3. CASE \E a \in Addresses, n \in Sizes, s \in Addresses : CopyBuffer(a, s, n)
      BY <2>3, CopyBufferOK
    <2>4. CASE \E a \in Addresses, n \in Sizes : DownloadBuffer(a, n)
      BY <2>4, DownloadBufferOK
    <2>5. CASE \E a \in FrameAddresses : CreateLinearFrame(a) BY <2>5, CreateLinearFrameOK
    <2>6. CASE ScopeMarkerBegin \/ ScopedMarkerInsertColor BY <2>6, MarkerOK
    <2>7. CASE ScopeMarkerEnd BY <2>7, ScopeMarkerEndOK
    <2>8. CASE Flush BY <2>8, FlushOK
    <2>9. CASE Finish BY <2>9, FinishOK
    <2>10. CASE OnSubmit BY <2>10, OnSubmitOK
    <2>11. CASE Destroy BY <2>11, DestroyOK
    <2> QED BY <1>1, <2>1, <2>2, <2>3, <2>4, <2>5, <2>6, <2>7, <2>8, <2>9, <2>10, <2>11 DEF Calls
  <1>2. CASE Returns
    <2>1. CASE Recorded BY <2>1, RecordedOK
    <2>2. CASE RecordThrows BY <2>2, BeginThrowsOK DEF RecordThrows
    <2>3. CASE FinishReturns \/ DownloadReturns BY <2>3, FinishReturnsOK
    <2>4. CASE FinishThrows BY <2>4, FinishThrowsOK
    <2>5. CASE DownloadFinished BY <2>5, DownloadFinishedOK
    <2>6. CASE Readback BY <2>6, ReadbackOK
    <2>7. CASE ReadbackThrows BY <2>7, BeginThrowsOK DEF ReadbackThrows
    <2>8. CASE Destroyed BY <2>8, DestroyedOK
    <2> QED BY <1>2, <2>1, <2>2, <2>3, <2>4, <2>5, <2>6, <2>7, <2>8 DEF Returns
  <1>3. CASE ReleaseFrame BY <1>3, ReleaseFrameOK
  <1>4. CASE HostSubmit BY <1>4, HostSubmitOK
  <1>5. CASE GpuStep BY <1>5, GpuStepOK
  <1>6. CASE DeviceRemoved \/ Gone \/ UNCHANGED vars BY <1>6, QuietOK
  <1> QED BY <1>1, <1>2, <1>3, <1>4, <1>5, <1>6 DEF Next

(* Whatever fails - an allocation, a reset, a close, a signal, a wait, the  *)
(* device - calls, recording, tickets, owners and charges of               *)
(* D3D12VideoCoreBridge agree in every reachable state.                    *)
THEOREM BridgeConsistent == Spec => []BaseInv
  BY InitOK, BaseNext, PTL DEF Spec

(* The type invariant: every command stays inside its buffers, and the      *)
(* fence never gets the value of a removed device                          *)
(* (d3d12_device_context.cpp:54).                                          *)
THEOREM BridgeTypeCorrect == Spec => []TypeOK
  <1>1. BaseInv => TypeOK BY DEF BaseInv
  <1> QED BY <1>1, BridgeConsistent, PTL

(* D3D12ResourceAllocator's budget is charged for the owned resources and   *)
(* for nothing else, across every failure and early return.                *)
THEOREM AllocatorAccounting == Spec => []AccountingExact
  <1>1. BaseInv => AccountingExact BY DEF BaseInv
  <1> QED BY <1>1, BridgeConsistent, PTL
-----------------------------------------------------------------------------
(* What the GPU may still use.  An event wait that fails makes Wait throw   *)
(* while the GPU runs on: the lists a download or the destructor then      *)
(* leaves behind are the ones abandoned names.                             *)
LifeInv == UsesOwned /\ AllocatorNotRecycled

(* A list in flight is one of the queue. *)
LEMMA FlightQueued ==
    ASSUME NEW e \in InFlight PROVE ~removed /\ \E i \in 1 .. Len(queue) : e = queue[i]
  BY DEF InFlight

(* Nothing joins the lists in flight but what is submitted. *)
LEMMA FlightSame ==
    ASSUME queue' = queue, removed' = removed \/ removed' = TRUE PROVE InFlight' \subseteq InFlight
  BY DEF InFlight

(* A submission adds its own list. *)
LEMMA FlightAppended ==
    ASSUME queue \in Seq(Submissions), NEW cmds \in Seq(Commands), NEW t \in 0 .. FenceMax - 1,
           Enqueue(cmds, t), removed' = removed
    PROVE  \A e \in InFlight' : e \in InFlight \/ (e.cmds = cmds /\ e.ticket = t)
  <1> SUFFICES ASSUME NEW e \in InFlight' PROVE e \in InFlight \/ (e.cmds = cmds /\ e.ticket = t)
    OBVIOUS
  <1>1. ~removed /\ \E i \in 1 .. Len(queue') : e = queue'[i] BY DEF InFlight
  <1>2. PICK i \in 1 .. Len(queue') : e = queue'[i] BY <1>1
  <1>3. CASE i \in 1 .. Len(queue)
    <2>1. e = queue[i] BY <1>2, <1>3, Enqueued
    <2> QED BY <1>1, <1>3, <2>1 DEF InFlight
  <1>4. CASE i = Len(queue) + 1 BY <1>2, <1>4, Enqueued
  <1> QED BY <1>3, <1>4, Enqueued

(* The GPU only takes lists away. *)
LEMMA FlightExecuted ==
    ASSUME queue \in Seq(Submissions), GpuStep PROVE InFlight' \subseteq InFlight
  <1>1. ~removed /\ removed' = removed /\ queue # <<>> /\ queue' = Tail(queue) BY DEF GpuStep
  <1>2. Len(queue) \in Nat /\ Len(queue') = Len(queue) - 1 BY <1>1
  <1>3. \A i \in 1 .. Len(queue') : queue'[i] = queue[i + 1] /\ i + 1 \in 1 .. Len(queue)
    BY <1>1, <1>2
  <1> QED BY <1>1, <1>3 DEF InFlight

(* A completed wait for the last ticket leaves only lists without commands  *)
(* in flight, or lists the fence knows nothing of.                         *)
LEMMA Drained ==
    ASSUME BaseInv, ~submission_error, completed >= last_ticket
    PROVE  /\ \A e \in InFlight : e.cmds = <<>> \/ e.ticket = 0
           /\ ~encoder /\ call.op # "gone" => \A e \in InFlight : e.cmds = <<>>
  <1>1. /\ completed \in Nat /\ last_ticket \in Nat /\ queue \in Seq(Submissions) /\ TicketsAgree
    BY BaseParts DEF QueueInv, QueueTypes
  <1>2. ASSUME NEW e \in InFlight, e.cmds # <<>>
        PROVE  e.ticket = 0 /\ (encoder \/ call.op = "gone")
    <2>1. PICK i \in 1 .. Len(queue) : e = queue[i] BY FlightQueued
    <2>2. /\ queue[i].ticket <= last_ticket
          /\ queue[i].ticket = 0 => \/ submission_error \/ call.op = "gone"
                                    \/ encoder /\ batch.list = "closed"
          /\ queue[i].ticket # 0 => completed < queue[i].ticket
      BY <1>1, <1>2, <2>1 DEF TicketsAgree
    <2>3. queue[i].ticket \in Nat
      <3>1. queue[i] \in Submissions BY <1>1
      <3> QED BY <3>1 DEF Submissions
    <2> QED BY <1>1, <2>1, <2>2, <2>3
  <1> QED BY <1>2

(* Commands use what they name. *)
LEMMA UsesEmpty == Uses(<<>>) = {}
  BY DEF Uses

(* A list and one command more. *)
LEMMA UsesAppended ==
    ASSUME NEW cmds \in Seq(Commands), NEW c \in Commands
    PROVE  Uses(Append(cmds, c)) \subseteq Uses(cmds) \cup ({c.dst, c.src} \cap Objects)
  <1> DEFINE r == Append(cmds, c)
  <1>1. /\ Len(cmds) \in Nat /\ Len(r) = Len(cmds) + 1 /\ r[Len(cmds) + 1] = c
        /\ \A i \in 1 .. Len(cmds) : r[i] = cmds[i]
    OBVIOUS
  <1> HIDE DEF r
  <1> SUFFICES ASSUME NEW o \in Uses(r) PROVE o \in Uses(cmds) \cup ({c.dst, c.src} \cap Objects)
    BY DEF r
  <1>2. o \in Objects /\ \E i \in 1 .. Len(r) : o \in {r[i].dst, r[i].src} BY DEF Uses
  <1>3. PICK i \in 1 .. Len(r) : o \in {r[i].dst, r[i].src} BY <1>2
  <1>4. i \in 1 .. Len(cmds) \/ i = Len(cmds) + 1 BY <1>1
  <1> QED BY <1>1, <1>2, <1>3, <1>4 DEF Uses

(* The obligations of a step after which the bridge still exists. *)
LEMMA LifeStep ==
    ASSUME call'.op # "gone",
           \A e \in InFlight' : e.ticket \in abandoned' \/ Uses(e.cmds) \subseteq Keepers',
           batch'.list = "open" => /\ Uses(batch'.cmds) \subseteq batch'.staging \cup batch'.pending
                                   /\ \A e \in InFlight' : e.cmds = <<>>
    PROVE  LifeInv'
  BY DEF LifeInv, UsesOwned, AllocatorNotRecycled

(* A step that leaves the batch alone. *)
LEMMA LifeKept ==
    ASSUME LifeInv, batch' = batch, call'.op = "gone" <=> call.op = "gone",
           call.op = "read" => call' = call, abandoned' = abandoned,
           \A e \in InFlight' : e \in InFlight \/ e.cmds = <<>>
    PROVE  LifeInv'
  <1>1. \A e \in InFlight : call.op # "gone" =>
            e.ticket \in abandoned \/ Uses(e.cmds) \subseteq Keepers
    BY DEF LifeInv, UsesOwned
  <1>2. Keepers \subseteq Keepers' BY DEF Keepers
  <1>3. CASE call.op = "gone"
    <2>1. \A e \in InFlight' : e.ticket \in abandoned' \/ e.cmds = <<>>
      BY <1>3 DEF LifeInv, UsesOwned
    <2> QED BY <1>3, <2>1 DEF LifeInv, UsesOwned, AllocatorNotRecycled
  <1>4. CASE call.op # "gone"
    <2>1. \A e \in InFlight' : e.ticket \in abandoned' \/ Uses(e.cmds) \subseteq Keepers'
      BY <1>1, <1>2, <1>4, UsesEmpty
    <2>2. batch'.list = "open" => /\ Uses(batch'.cmds) \subseteq batch'.staging \cup batch'.pending
                                  /\ \A e \in InFlight' : e.cmds = <<>>
      BY DEF LifeInv, UsesOwned, AllocatorNotRecycled
    <2> QED BY <1>4, <2>1, <2>2, LifeStep
  <1> QED BY <1>3, <1>4

(* A step with nothing of the bridge in flight. *)
LEMMA LifeDrained ==
    ASSUME \A e \in InFlight : e.cmds = <<>>, InFlight' \subseteq InFlight, call'.op # "gone",
           batch'.list = "open" => Uses(batch'.cmds) \subseteq batch'.staging \cup batch'.pending
    PROVE  LifeInv'
  <1>1. \A e \in InFlight' : e.cmds = <<>> OBVIOUS
  <1>2. \A e \in InFlight' : Uses(e.cmds) \subseteq Keepers' BY <1>1, UsesEmpty
  <1> QED BY <1>1, <1>2, LifeStep

(* The calls that begin, the shell and the GPU. *)
LEMMA LifeBegins ==
    ASSUME BaseInv, LifeInv,
           \/ \E r \in Resources, base \in Addresses : RegisterBuffer(r, base)
           \/ \E req : Request(req)
           \/ \E a \in FrameAddresses : CreateLinearFrame(a)
           \/ ScopeMarkerEnd \/ Destroy
    PROVE  LifeInv'
  <1>1. /\ call = Idle /\ UNCHANGED <<batch, queue, removed, abandoned>>
        /\ call'.op \in {"idle", "record", "destroy"}
    <2>0. Idle.op = "idle" BY DEF Idle
    <2>1. CASE \E r \in Resources, base \in Addresses : RegisterBuffer(r, base)
      BY <2>0, <2>1 DEF RegisterBuffer, gpu, outcome
    <2>2. CASE \E req : Request(req) BY <2>2 DEF Request, gpu, outcome
    <2>3. CASE \E a \in FrameAddresses : CreateLinearFrame(a)
      BY <2>3 DEF CreateLinearFrame, gpu, outcome
    <2>4. CASE ScopeMarkerEnd BY <2>0, <2>4 DEF ScopeMarkerEnd, gpu, outcome
    <2>5. CASE Destroy BY <2>5 DEF Destroy, gpu, outcome
    <2> QED BY <2>1, <2>2, <2>3, <2>4, <2>5
  <1>2. InFlight' \subseteq InFlight BY <1>1, FlightSame
  <1>3. call.op = "idle" BY <1>1 DEF Idle
  <1> QED BY <1>1, <1>2, <1>3, LifeKept

(* The client, the GPU and the end. *)
LEMMA LifeOutside ==
    ASSUME BaseInv, LifeInv,
           ReleaseFrame \/ GpuStep \/ DeviceRemoved \/ Gone \/ UNCHANGED vars
    PROVE  LifeInv'
  <1>1. UNCHANGED <<batch, call, abandoned>>
    BY DEF ReleaseFrame, GpuStep, DeviceRemoved, Gone, vars, bridge, outcome
  <1>2. queue \in Seq(Submissions) BY BaseParts DEF QueueInv, QueueTypes
  <1>3. InFlight' \subseteq InFlight
    <2>1. CASE GpuStep BY <1>2, <2>1, FlightExecuted
    <2>2. CASE queue' = queue /\ (removed' = removed \/ removed' = TRUE) BY <2>2, FlightSame
    <2> QED BY <2>1, <2>2 DEF ReleaseFrame, DeviceRemoved, Gone, vars, gpu
  <1> QED BY <1>1, <1>3, LifeKept

(* The shell submits lists of its own. *)
LEMMA LifeHostSubmit == ASSUME BaseInv, LifeInv, HostSubmit PROVE LifeInv'
  <1>1. /\ call = Idle /\ (Submit(<<>>) \/ SubmitThrows(<<>>))
        /\ UNCHANGED <<batch, call, abandoned>>
    BY DEF HostSubmit, bridge, outcome
  <1>2. call.op = "idle" BY <1>1 DEF Idle
  <1>3. /\ queue \in Seq(Submissions) /\ fence_value \in Nat /\ FenceMax \in Nat /\ FenceMax > 0
        /\ <<>> \in Seq(Commands)
    BY BaseParts, ConstantsAssumption DEF QueueInv, QueueTypes
  <1>4. removed' = removed BY <1>1 DEF Submit, SubmitThrows
  <1>5. \A e \in InFlight' : e \in InFlight \/ e.cmds = <<>>
    <2>1. CASE \E t \in 0 .. FenceMax - 1 : Enqueue(<<>>, t) BY <1>3, <1>4, <2>1, FlightAppended
    <2>2. CASE queue' = queue BY <1>4, <2>2, FlightSame
    <2>3. CASE Submit(<<>>)
      <3>1. fence_value + 1 \in 0 .. FenceMax - 1 BY <1>3, <2>3 DEF Submit
      <3> QED BY <2>1, <2>3, <3>1 DEF Submit
    <2>4. CASE SubmitThrows(<<>>)
      <3>1. 0 \in 0 .. FenceMax - 1 BY <1>3
      <3> QED BY <2>1, <2>2, <2>4, <3>1 DEF SubmitThrows
    <2> QED BY <1>1, <2>3, <2>4
  <1> QED BY <1>1, <1>2, <1>4, <1>5, LifeKept

(* The batch is retired after its ticket. *)
LEMMA LifeRetires ==
    ASSUME BaseInv, LifeInv, FinishReturns \/ DownloadReturns \/ DownloadFinished \/ OnSubmit
    PROVE  LifeInv'
  <1>1. /\ batch' = Cleared /\ UNCHANGED <<queue, removed>> /\ call.op # "gone"
        /\ ~submission_error /\ completed >= last_ticket /\ call'.op # "gone"
    BY DEF FinishReturns, DownloadReturns, DownloadFinished, OnSubmit, WaitReturns, BatchRetired,
           gpu, Leave, Idle
  <1>2. ~encoder
    BY BaseParts
    DEF FinishReturns, DownloadReturns, DownloadFinished, OnSubmit, CallInv, CallAgrees
  <1>3. \A e \in InFlight : e.cmds = <<>> BY <1>1, <1>2, Drained
  <1>4. batch'.list # "open"
    <2>1. batch \in Batches /\ batch.list # "open"
      BY <1>2, BaseParts DEF HeapInv, HeapTypes, CallInv, EncoderAgrees
    <2> QED BY <1>1, <2>1, ClearedOK
  <1>5. InFlight' \subseteq InFlight BY <1>1, FlightSame
  <1> QED BY <1>1, <1>3, <1>4, <1>5, LifeDrained

(* A list with commands and a ticket is one the fence has not reached yet,  *)
(* and none of them is younger than last_ticket_.                          *)
LEMMA Unfinished ==
    ASSUME BaseInv, NEW e \in InFlight, e.cmds # <<>>
    PROVE  /\ e.ticket # 0 => e.ticket \in completed + 1 .. last_ticket
           /\ e.ticket = 0 => submission_error \/ encoder \/ call.op = "gone"
  <1>1. /\ completed \in Nat /\ last_ticket \in Nat /\ queue \in Seq(Submissions) /\ TicketsAgree
    BY BaseParts DEF QueueInv, QueueTypes
  <1>2. PICK i \in 1 .. Len(queue) : e = queue[i] BY FlightQueued
  <1>3. /\ e.ticket <= last_ticket
        /\ e.ticket = 0 => submission_error \/ encoder \/ call.op = "gone"
        /\ e.ticket # 0 => completed < e.ticket
    BY <1>1, <1>2 DEF TicketsAgree
  <1>4. e.ticket \in Nat
    <2>1. queue[i] \in Submissions BY <1>1
    <2> QED BY <1>2, <2>1 DEF Submissions
  <1> QED BY <1>1, <1>3, <1>4

(* A wait throws in the middle of a call: what a call had recorded before   *)
(* keeps its owners; a download gives up the list that fills its readback  *)
(* buffer.                                                                 *)
LEMMA LifeThrows ==
    ASSUME BaseInv, LifeInv, FinishThrows \/ RecordThrows \/ ReadbackThrows
    PROVE  LifeInv'
  <1>1. /\ UNCHANGED <<queue, removed>> /\ call'.op = "idle" /\ call.op # "gone"
    BY DEF FinishThrows, RecordThrows, ReadbackThrows, BeginThrows, gpu, Leave, Idle
  <1>2. InFlight' \subseteq InFlight BY <1>1, FlightSame
  <1>3. CASE batch' = batch /\ call.op # "read"
    <2>1. abandoned' = abandoned
      BY <1>3 DEF FinishThrows, RecordThrows, ReadbackThrows, BeginThrows, outcome
    <2> QED BY <1>1, <1>2, <1>3, <2>1, LifeKept
  <1>4. CASE batch' = batch /\ call.op = "read"
    <2>1. WaitThrows(last_ticket) /\ abandoned' = abandoned \cup GivenUp
      BY <1>4 DEF FinishThrows, RecordThrows, ReadbackThrows
    <2>2. completed + 1 .. last_ticket \subseteq abandoned' BY <2>1 DEF GivenUp
    <2>3. ~submission_error /\ ~encoder BY <1>4, BaseParts DEF CallInv, CallAgrees
    <2>4. \A e \in InFlight : e.cmds = <<>> \/ e.ticket \in abandoned'
      BY <1>1, <2>2, <2>3, Unfinished
    <2>5. \A e \in InFlight' : e.ticket \in abandoned' \/ Uses(e.cmds) \subseteq Keepers'
      BY <1>2, <2>4, UsesEmpty
    <2>6. batch'.list # "open" BY <1>4, <2>3, BaseParts DEF CallInv, EncoderAgrees
    <2> QED BY <1>1, <2>5, <2>6, LifeStep
  <1>5. CASE /\ ~encoder /\ WaitReturns(last_ticket)
             /\ batch' = [EmptyBatch EXCEPT !.list = IF batch.list = "none" THEN "none" ELSE "closed"]
    <2>1. \A e \in InFlight : e.cmds = <<>> BY <1>1, <1>5, Drained DEF WaitReturns
    <2>2. batch'.list # "open" BY <1>5 DEF EmptyBatch
    <2> QED BY <1>1, <1>2, <2>1, <2>2, LifeDrained
  <1> QED BY <1>3, <1>4, <1>5 DEF FinishThrows, RecordThrows, ReadbackThrows, BeginThrows

(* The destructor has waited, or gives up what it could not wait for. *)
LEMMA LifeDestroyed == ASSUME BaseInv, LifeInv, Destroyed PROVE LifeInv'
  <1>1. /\ batch' = EmptyBatch /\ call'.op = "gone" /\ UNCHANGED <<queue, removed>>
        /\ WaitReturns(last_ticket) \/ WaitThrows(last_ticket)
        /\ abandoned' = abandoned \cup GivenUp \cup {0}
    BY DEF Destroyed, gpu
  <1>2. InFlight' \subseteq InFlight BY <1>1, FlightSame
  <1>3. \A e \in InFlight : e.cmds = <<>> \/ e.ticket \in abandoned'
    <2>1. CASE WaitReturns(last_ticket) BY <1>1, <2>1, Drained DEF WaitReturns
    <2>2. CASE WaitThrows(last_ticket)
      <3>1. completed + 1 .. last_ticket \subseteq abandoned' /\ 0 \in abandoned'
        BY <1>1, <2>2 DEF GivenUp
      <3> QED BY <3>1, Unfinished
    <2> QED BY <1>1, <2>1, <2>2
  <1>4. batch'.list # "open" BY <1>1 DEF EmptyBatch
  <1> QED BY <1>1, <1>2, <1>3, <1>4 DEF LifeInv, UsesOwned, AllocatorNotRecycled

(* What is in flight after a Flush, successful or not. *)
LEMMA FlushFlight ==
    ASSUME QueueInv, NEW b \in Batches, FlushThrows(b) \/ \E next : Flushed(b, next)
    PROVE  \A e \in InFlight' : e \in InFlight \/ (e.cmds = b.cmds /\ b.list = "open")
  <1>1. /\ queue \in Seq(Submissions) /\ fence_value \in Nat /\ FenceMax \in Nat /\ FenceMax > 0
        /\ b.cmds \in Seq(Commands)
    BY ConstantsAssumption DEF QueueInv, QueueTypes, Batches
  <1>2. removed' = removed BY DEF FlushThrows, Flushed, Submit, SubmitThrows
  <1>3. CASE queue' = queue BY <1>2, <1>3, FlightSame
  <1>4. CASE b.list = "open" /\ \E t \in 0 .. FenceMax - 1 : Enqueue(b.cmds, t)
    BY <1>1, <1>2, <1>4, FlightAppended
  <1>5. CASE \E next : Flushed(b, next)
    <2>1. b.list = "open" /\ Submit(b.cmds) BY <1>5 DEF Flushed
    <2>2. fence_value + 1 \in 0 .. FenceMax - 1 BY <1>1, <2>1 DEF Submit
    <2> QED BY <1>4, <2>1, <2>2 DEF Submit
  <1>6. CASE FlushThrows(b)
    <2>1. 0 \in 0 .. FenceMax - 1 BY <1>1
    <2> QED BY <1>3, <1>4, <1>6, <2>1 DEF FlushThrows, SubmitThrows
  <1> QED BY <1>5, <1>6

(* Flush, Finish and the beginning of DownloadBuffer. *)
LEMMA LifeFlush ==
    ASSUME BaseInv, LifeInv, Flush \/ Finish \/ \E a, n : DownloadBuffer(a, n) PROVE LifeInv'
  <1>1. QueueInv /\ batch \in Batches BY BaseParts DEF HeapInv, HeapTypes
  <1>2. PICK next : /\ call = Idle /\ next.op \in {"idle", "finish", "download"}
                    /\ abandoned' = abandoned
                    /\ \/ /\ ~encoder /\ call' = next
                          /\ UNCHANGED <<encoder, batch, last_ticket, fence_value,
                                         submission_error, gpu>>
                       \/ encoder /\ Flushed(batch, next)
                       \/ encoder /\ FlushThrows(batch) /\ UNCHANGED call
    <2>1. CASE Flush
      <3>1. Idle.op = "idle" BY DEF Idle
      <3> QED BY <2>1, <3>1 DEF Flush, outcome
    <2>2. CASE Finish
      <3> DEFINE next == [op |-> "finish", obj |-> NoObject]
      <3>1. StartFinish(next) /\ next.op = "finish" BY <2>2 DEF Finish
      <3> QED BY <3>1 DEF StartFinish, outcome
    <2>3. CASE \E a, n : DownloadBuffer(a, n)
      <3>1. PICK a, n : DownloadBuffer(a, n) BY <2>3
      <3> DEFINE next == [op |-> "download", obj |-> NoObject, a |-> a, n |-> n]
      <3>2. StartFinish(next) /\ next.op = "download" BY <3>1 DEF DownloadBuffer
      <3> QED BY <3>2 DEF StartFinish, outcome
    <2> QED BY <2>1, <2>2, <2>3
  <1>3. call.op = "idle" BY <1>2 DEF Idle
  <1>4. CASE /\ ~encoder /\ call' = next
             /\ UNCHANGED <<encoder, batch, last_ticket, fence_value, submission_error, gpu>>
    <2>1. InFlight' \subseteq InFlight BY <1>4, FlightSame DEF gpu
    <2> QED BY <1>2, <1>3, <1>4, <2>1, LifeKept
  <1>5. CASE Flushed(batch, next) \/ (FlushThrows(batch) /\ UNCHANGED call)
    <2>1. /\ batch'.staging = batch.staging /\ batch'.pending = batch.pending
          /\ batch'.list = "closed" \/ (batch'.list = batch.list /\ marker_depth # 0)
          /\ call'.op # "gone"
      BY <1>1, <1>2, <1>3, <1>5, FlushedOK, FlushThrowsOK
    <2>2. \A e \in InFlight' : e \in InFlight \/ (e.cmds = batch.cmds /\ batch.list = "open")
      BY <1>1, <1>5, FlushFlight
    <2>3. CASE batch'.list = "closed"
      <3>1. \A e \in InFlight : e.ticket \in abandoned' \/ Uses(e.cmds) \subseteq Keepers'
        <4>1. CASE batch.list = "open"
          <5>1. \A e \in InFlight : e.cmds = <<>> BY <4>1 DEF LifeInv, AllocatorNotRecycled
          <5> QED BY <5>1, UsesEmpty
        <4>2. CASE batch.list # "open"
          <5>1. FlushThrows(batch) BY <1>5, <4>2 DEF Flushed
          <5>2. batch'.tracked = batch.tracked BY <1>1, <1>3, <5>1, FlushThrowsOK
          <5>3. \A e \in InFlight : e.ticket \in abandoned \/ Uses(e.cmds) \subseteq Keepers
            BY <1>3 DEF LifeInv, UsesOwned
          <5>4. Keepers \subseteq Keepers' BY <1>3, <2>1, <5>2 DEF Keepers
          <5> QED BY <1>2, <5>3, <5>4
        <4> QED BY <4>1, <4>2
      <3>2. batch.list = "open" => Uses(batch.cmds) \subseteq Keepers'
        BY <2>1 DEF LifeInv, UsesOwned, Keepers
      <3>3. \A e \in InFlight' : e.ticket \in abandoned' \/ Uses(e.cmds) \subseteq Keepers'
        BY <2>2, <3>1, <3>2
      <3> QED BY <2>1, <2>3, <3>3, LifeStep
    <2>4. CASE marker_depth # 0
      <3>1. batch' = batch /\ UNCHANGED <<queue, removed, call>>
        BY <1>5, <2>4 DEF Flushed, FlushThrows
      <3>2. InFlight' \subseteq InFlight BY <3>1, FlightSame
      <3> QED BY <1>2, <3>1, <3>2, LifeKept
    <2> QED BY <2>1, <2>3, <2>4
  <1> QED BY <1>2, <1>4, <1>5

(* The copy of a download: the encoder keeps the readback buffer if Flush   *)
(* fails, the call keeps it if Flush succeeds.                             *)
LEMMA LifeReadback == ASSUME BaseInv, LifeInv, Readback PROVE LifeInv'
  <1> DEFINE c == Command(call.obj, 0, Buffer(call.a, call.n), Offset(call.a, call.n), call.n)
             b == [Batch EXCEPT !.tracked = @ \cup {call.obj}, !.cmds = Record(Batch, c)]
             next == [op |-> "read", obj |-> call.obj, a |-> call.a, n |-> call.n]
  <1>1. QueueInv /\ CallInv /\ HeapInv BY BaseParts
  <1>2. /\ call.op = "readback" /\ BeginRecording
        /\ Flushed(b, next) \/ (FlushThrows(b) /\ Leave(ChargeAfter(b)))
    BY DEF Readback
  <1>3. /\ call.a \in Addresses /\ Found(call.a, call.n) /\ ~encoder /\ marker_depth = 0
        /\ call.obj # NoObject
    BY <1>1, <1>2 DEF CallInv, CallAgrees, EncoderAgrees
  <1>4. batch \in Batches /\ call.obj \in Objects BY <1>1, <1>3 DEF HeapInv, HeapTypes
  <1>5. \A e \in InFlight : e.cmds = <<>>
    BY <1>2, <1>3, Drained DEF BeginRecording, WaitReturns
  <1>6. c \in Commands /\ c.dst = call.obj /\ c.src \in Resources
    <2>1. /\ call.n \in Nat \ {0} /\ call.n <= MaxTransfer
          /\ Buffer(call.a, call.n) \in Resources /\ Offset(call.a, call.n) \in Nat
          /\ InBounds(Buffer(call.a, call.n), Offset(call.a, call.n), call.n)
      BY <1>1, <1>3, FoundOK DEF CallInv, CallTypes
    <2>2. InBounds(call.obj, 0, call.n) BY <1>4, <2>1, ObjectInBounds
    <2> QED BY <1>4, <2>1, <2>2, CommandOK
  <1> HIDE DEF c
  <1>7. /\ Continues(Batch) /\ Batch = NewBatch /\ NewBatch.tracked = {} /\ NewBatch.cmds = <<>>
        /\ NewBatch.list = "open"
    BY <1>3, <1>4, BatchOK
  <1>8. Record(Batch, c) = Append(<<>>, c) /\ Record(Batch, c) \in Seq(Commands)
    BY <1>6, <1>7, RecordOK DEF Continues
  <1>9. /\ b \in Batches /\ b.tracked = {call.obj} /\ b.cmds = Append(<<>>, c)
    BY <1>4, <1>7, <1>8 DEF Continues, Batches
  <1>10. Uses(b.cmds) \subseteq {call.obj}
    <2>1. <<>> \in Seq(Commands) OBVIOUS
    <2>2. Uses(Append(<<>>, c)) \subseteq Uses(<<>>) \cup ({c.dst, c.src} \cap Objects)
      BY <1>6, <2>1, UsesAppended
    <2>3. c.src \notin Objects BY <1>6, ConstantsAssumption DEF Objects
    <2> QED BY <1>6, <1>9, <2>2, <2>3, UsesEmpty
  <1>11. next.op = "read" /\ next.obj = call.obj OBVIOUS
  <1> HIDE DEF b, next
  <1>12. \A e \in InFlight' : e \in InFlight \/ e.cmds = b.cmds
    BY <1>1, <1>2, <1>9, FlushFlight
  <1>13. batch'.list = "closed" /\ call'.op # "gone" /\ call.obj \in Keepers'
    <2>1. CASE Flushed(b, next)
      <3>1. batch'.list = "closed" /\ call' = next
        BY <1>1, <1>2, <1>3, <1>9, <2>1, FlushedOK
      <3> QED BY <1>11, <3>1 DEF Keepers
    <2>2. CASE FlushThrows(b) /\ Leave(ChargeAfter(b))
      <3>1. batch'.list = "closed" /\ batch'.tracked = b.tracked
        BY <1>1, <1>2, <1>3, <1>9, <2>2, FlushThrowsOK
      <3>2. call'.op = "idle" BY <2>2 DEF Leave, Idle
      <3> QED BY <1>9, <3>1, <3>2 DEF Keepers
    <2> QED BY <1>2, <2>1, <2>2
  <1>14. \A e \in InFlight' : Uses(e.cmds) \subseteq Keepers'
    BY <1>5, <1>10, <1>12, <1>13, UsesEmpty
  <1> QED BY <1>13, <1>14, LifeStep

(* A recording grows by commands whose resources it keeps. *)
LEMMA LifeGrows ==
    ASSUME BaseInv, LifeInv, Recorded, call'.op = "idle", batch'.list = Batch.list,
           Batch.staging \subseteq batch'.staging, Batch.pending \subseteq batch'.pending,
           Batch.tracked \subseteq batch'.tracked,
           batch'.list = "open" =>
               Uses(batch'.cmds) \subseteq Uses(Batch.cmds) \cup batch'.staging \cup batch'.pending
    PROVE  LifeInv'
  <1>1. batch \in Batches BY BaseParts DEF HeapInv, HeapTypes
  <1>2. /\ call.op = "record" /\ BeginRecording
        /\ UNCHANGED <<queue, removed, abandoned>>
    BY DEF Recorded, gpu, outcome
  <1>3. InFlight' \subseteq InFlight BY <1>2, FlightSame
  <1>4. CASE encoder
    <2>1. Batch = batch BY <1>1, <1>4, BatchOK
    <2>2. \A e \in InFlight : e.ticket \in abandoned \/ Uses(e.cmds) \subseteq Keepers
      BY <1>2 DEF LifeInv, UsesOwned
    <2>3. Keepers \subseteq Keepers' BY <1>2, <2>1 DEF Keepers
    <2>4. \A e \in InFlight' : e.ticket \in abandoned' \/ Uses(e.cmds) \subseteq Keepers'
      BY <1>2, <1>3, <2>2, <2>3
    <2>5. batch'.list = "open" => /\ Uses(batch'.cmds) \subseteq batch'.staging \cup batch'.pending
                                  /\ \A e \in InFlight' : e.cmds = <<>>
      BY <1>3, <2>1 DEF LifeInv, UsesOwned, AllocatorNotRecycled
    <2> QED BY <2>4, <2>5, LifeStep
  <1>5. CASE ~encoder
    <2>1. \A e \in InFlight : e.cmds = <<>>
      BY <1>2, <1>5, Drained DEF BeginRecording, WaitReturns
    <2>2. Batch.cmds = <<>> BY <1>1, <1>5, BatchOK
    <2>3. Uses(Batch.cmds) = {} BY <2>2, UsesEmpty
    <2>4. batch'.list = "open" => Uses(batch'.cmds) \subseteq batch'.staging \cup batch'.pending
      BY <2>3
    <2> QED BY <1>3, <2>1, <2>4, LifeDrained
  <1> QED BY <1>4, <1>5

(* One command more. *)
LEMMA RecordUses ==
    ASSUME NEW b \in Batches, NEW c \in Commands, NEW S,
           c.dst \in Resources \cup S, c.src \in Resources \cup S, b.list = "open"
    PROVE  Uses(Record(b, c)) \subseteq Uses(b.cmds) \cup S
  <1>1. Record(b, c) = Append(b.cmds, c) /\ b.cmds \in Seq(Commands) BY RecordOK DEF Batches
  <1>2. Uses(Append(b.cmds, c)) \subseteq Uses(b.cmds) \cup ({c.dst, c.src} \cap Objects)
    BY <1>1, UsesAppended
  <1>3. Resources \cap Objects = {} BY ConstantsAssumption DEF Objects
  <1> QED BY <1>1, <1>2, <1>3

(* A recording call keeps what its commands use. *)
LEMMA LifeRecorded == ASSUME BaseInv, LifeInv, Recorded PROVE LifeInv'
  <1> DEFINE req == call.req
             b == Batch
  <1>1. HeapInv /\ CallInv BY BaseParts
  <1>2. call.op = "record" BY DEF Recorded
  <1>3. batch \in Batches BY <1>1 DEF HeapInv, HeapTypes
  <1>4. b \in Batches BY <1>3, BatchOK DEF Continues
  <1>5. RequestAgrees(req) BY <1>1, <1>2 DEF CallInv, CallAgrees
  <1>6. bindings \in [Resources -> {0} \cup Addresses] BY <1>1 DEF CallInv, CallTypes
  <1>7. Idle.op = "idle" BY DEF Idle
  <1> HIDE DEF b
  <1>8. CASE batch' = b /\ call' = Idle BY <1>7, <1>8, LifeGrows DEF b
  <1>9. CASE req.kind = "fill" /\ RecordFill(req, Batch)
    <2> DEFINE o == NewObject(b)
               c == Command(Buffer(req.a, req.n), Offset(req.a, req.n), o, 0, req.n)
    <2>1. CASE /\ call' = Idle
               /\ batch' = [b EXCEPT !.staging = @ \cup {o}, !.tracked = @ \cup {o},
                                     !.staged = @ + req.n, !.cmds = Record(b, c)]
      <3>1. req.a \in Addresses /\ Found(req.a, req.n) /\ Unheld(b) # {}
        BY <1>5, <1>9 DEF RequestAgrees, b
      <3>2. /\ req.n \in Nat \ {0} /\ req.n <= MaxTransfer
            /\ Buffer(req.a, req.n) \in Resources /\ Offset(req.a, req.n) \in Nat
            /\ InBounds(Buffer(req.a, req.n), Offset(req.a, req.n), req.n)
        BY <1>6, <3>1, FoundOK
      <3>3. o \in Objects BY <3>1, NewObjectOK
      <3>4. InBounds(o, 0, req.n) BY <3>2, <3>3, ObjectInBounds
      <3>5. c \in Commands /\ c.dst \in Resources /\ c.src = o
        BY <3>2, <3>3, <3>4, CommandOK
      <3> HIDE DEF o, c
      <3>6. b.list = "open" => Uses(Record(b, c)) \subseteq Uses(b.cmds) \cup {o}
        BY <1>4, <3>5, RecordUses
      <3>7. /\ batch'.staging = b.staging \cup {o} /\ batch'.pending = b.pending
            /\ b.tracked \subseteq batch'.tracked /\ batch'.list = b.list
            /\ batch'.cmds = Record(b, c)
        BY <1>4, <2>1 DEF Batches
      <3>8. call'.op = "idle" BY <1>7, <2>1
      <3> QED BY <3>6, <3>7, <3>8, LifeGrows DEF b
    <2> QED BY <1>8, <1>9, <2>1 DEF RecordFill, b
  <1>10. CASE req.kind = "copy" /\ RecordCopy(req, Batch)
    <2> DEFINE c == Command(Buffer(req.d, req.n), Offset(req.d, req.n),
                            Buffer(req.s, req.n), Offset(req.s, req.n), req.n)
    <2>1. call' = Idle /\ batch' = [b EXCEPT !.cmds = Record(b, c)]
      BY <1>10 DEF RecordCopy, b
    <2>2. /\ req.d \in Addresses /\ Found(req.d, req.n) /\ req.s \in Addresses /\ Found(req.s, req.n)
      BY <1>5, <1>10 DEF RequestAgrees
    <2>3. /\ req.n \in Nat \ {0}
          /\ Buffer(req.d, req.n) \in Resources /\ Offset(req.d, req.n) \in Nat
          /\ InBounds(Buffer(req.d, req.n), Offset(req.d, req.n), req.n)
          /\ Buffer(req.s, req.n) \in Resources /\ Offset(req.s, req.n) \in Nat
          /\ InBounds(Buffer(req.s, req.n), Offset(req.s, req.n), req.n)
      BY <1>6, <2>2, FoundOK
    <2>4. c \in Commands /\ c.dst \in Resources /\ c.src \in Resources BY <2>3, CommandOK
    <2> HIDE DEF c
    <2>5. b.list = "open" => Uses(Record(b, c)) \subseteq Uses(b.cmds) \cup {}
      BY <1>4, <2>4, RecordUses
    <2>6. /\ batch'.staging = b.staging /\ batch'.pending = b.pending
          /\ batch'.tracked = b.tracked /\ batch'.list = b.list /\ batch'.cmds = Record(b, c)
      BY <1>4, <2>1 DEF Batches
    <2>7. call'.op = "idle" BY <1>7, <2>1
    <2> QED BY <2>5, <2>6, <2>7, LifeGrows DEF b
  <1>11. CASE req.kind = "frame" /\ RecordFrame(req, Batch)
    <2> DEFINE o == call.obj
               c == Command(o, 0, Buffer(req.a, 1), Offset(req.a, 1), 1)
    <2>1. /\ call' = Idle
          /\ batch' = [b EXCEPT !.pending = @ \cup {o}, !.tracked = @ \cup {o}, !.cmds = Record(b, c)]
      BY <1>11 DEF RecordFrame, b
    <2>2. req.a \in Addresses /\ Found(req.a, 1) /\ o # NoObject BY <1>5, <1>11 DEF RequestAgrees
    <2>3. /\ 1 \in Nat \ {0} /\ 1 <= MaxTransfer
          /\ Buffer(req.a, 1) \in Resources /\ Offset(req.a, 1) \in Nat
          /\ InBounds(Buffer(req.a, 1), Offset(req.a, 1), 1)
      BY <1>6, <2>2, FoundOK
    <2>4. o \in Objects BY <1>1, <2>2 DEF HeapInv, HeapTypes
    <2>5. InBounds(o, 0, 1) BY <2>3, <2>4, ObjectInBounds
    <2>6. c \in Commands /\ c.dst = o /\ c.src \in Resources BY <2>3, <2>4, <2>5, CommandOK
    <2> HIDE DEF o, c
    <2>7. b.list = "open" => Uses(Record(b, c)) \subseteq Uses(b.cmds) \cup {o}
      BY <1>4, <2>6, RecordUses
    <2>8. /\ batch'.pending = b.pending \cup {o} /\ batch'.staging = b.staging
          /\ b.tracked \subseteq batch'.tracked /\ batch'.list = b.list
          /\ batch'.cmds = Record(b, c)
      BY <1>4, <2>1 DEF Batches
    <2>9. call'.op = "idle" BY <1>7, <2>1
    <2> QED BY <2>7, <2>8, <2>9, LifeGrows DEF b
  <1>12. CASE RecordMarker(req, Batch) BY <1>8, <1>12 DEF RecordMarker, b
  <1> QED BY <1>9, <1>10, <1>11, <1>12 DEF Recorded

(* Every step keeps what the GPU may still use. *)
LEMMA LifeNext ==
    ASSUME BaseInv, LifeInv, [Next]_vars PROVE LifeInv'
  <1>1. CASE Calls
    <2>1. CASE \/ \E r \in Resources, base \in Addresses : RegisterBuffer(r, base)
               \/ \E req : Request(req)
               \/ \E a \in FrameAddresses : CreateLinearFrame(a)
               \/ ScopeMarkerEnd \/ Destroy
      BY <2>1, LifeBegins
    <2>2. CASE Flush \/ Finish \/ \E a, n : DownloadBuffer(a, n) BY <2>2, LifeFlush
    <2>3. CASE OnSubmit BY <2>3, LifeRetires
    <2> QED
      BY <1>1, <2>1, <2>2, <2>3
      DEF Calls, FillBuffer, CopyBuffer, ScopeMarkerBegin, ScopedMarkerInsertColor
  <1>2. CASE Returns
    <2>1. CASE Recorded BY <2>1, LifeRecorded
    <2>2. CASE FinishThrows \/ RecordThrows \/ ReadbackThrows BY <2>2, LifeThrows
    <2>3. CASE FinishReturns \/ DownloadReturns \/ DownloadFinished BY <2>3, LifeRetires
    <2>4. CASE Readback BY <2>4, LifeReadback
    <2>5. CASE Destroyed BY <2>5, LifeDestroyed
    <2> QED BY <1>2, <2>1, <2>2, <2>3, <2>4, <2>5 DEF Returns
  <1>3. CASE HostSubmit BY <1>3, LifeHostSubmit
  <1>4. CASE ReleaseFrame \/ GpuStep \/ DeviceRemoved \/ Gone \/ UNCHANGED vars
    BY <1>4, LifeOutside
  <1> QED BY <1>1, <1>2, <1>3, <1>4 DEF Next

(* No list is given up before it is submitted. *)
LEMMA AbandonedNext ==
    ASSUME BaseInv, AbandonedAgrees, [Next]_vars PROVE AbandonedAgrees'
  <1>0. /\ last_ticket \in Nat /\ completed \in Nat /\ fence_value \in Nat
        /\ last_ticket <= fence_value
    BY BaseParts DEF QueueInv, QueueTypes, TicketsAgree
  <1>1. CASE abandoned' = abandoned /\ last_ticket' = last_ticket /\ call' = call
    BY <1>1 DEF AbandonedAgrees
  <1>2. CASE /\ abandoned' = abandoned \/ abandoned' = abandoned \cup GivenUp
             /\ last_ticket' \in {last_ticket, fence_value + 1} /\ call.op # "gone"
    <2>1. abandoned' \subseteq 1 .. last_ticket
      <3>1. abandoned \subseteq 1 .. last_ticket BY <1>0, <1>2 DEF AbandonedAgrees
      <3>2. GivenUp \subseteq 1 .. last_ticket BY <1>0 DEF GivenUp
      <3> QED BY <1>2, <3>1, <3>2
    <2>2. 1 .. last_ticket \subseteq 0 .. last_ticket' BY <1>0, <1>2
    <2>3. 0 \notin abandoned' BY <1>0, <2>1
    <2> QED BY <2>1, <2>2, <2>3 DEF AbandonedAgrees
  <1>3. CASE Destroyed
    <2>1. /\ abandoned' = abandoned \cup GivenUp \cup {0} /\ last_ticket' = last_ticket
          /\ call'.op = "gone"
      BY <1>3 DEF Destroyed
    <2>2. GivenUp \subseteq 0 .. last_ticket /\ 0 \in 0 .. last_ticket BY <1>0 DEF GivenUp
    <2> QED BY <2>1, <2>2 DEF AbandonedAgrees
  <1>4. CASE \E next : StartFinish(next)
    BY <1>2, <1>4 DEF StartFinish, Flushed, FlushThrows, Idle, outcome
  <1>5. CASE Calls
    <2>1. CASE \E r \in Resources, base \in Addresses : RegisterBuffer(r, base)
      BY <1>1, <2>1 DEF RegisterBuffer, outcome
    <2>2. CASE \E req : Request(req) BY <1>2, <2>2 DEF Request, Idle, outcome
    <2>3. CASE \E a \in FrameAddresses : CreateLinearFrame(a)
      BY <1>2, <2>3 DEF CreateLinearFrame, Idle, outcome
    <2>4. CASE ScopeMarkerEnd BY <1>1, <2>4 DEF ScopeMarkerEnd, outcome
    <2>5. CASE Flush BY <1>2, <2>5 DEF Flush, Flushed, FlushThrows, Idle, outcome
    <2>6. CASE Finish \/ \E a, n : DownloadBuffer(a, n)
      BY <1>4, <2>6, Zenon DEF Finish, DownloadBuffer
    <2>7. CASE OnSubmit BY <1>1, <2>7 DEF OnSubmit, outcome
    <2>8. CASE Destroy BY <1>2, <2>8 DEF Destroy, Idle, outcome
    <2> QED
      BY <1>5, <2>1, <2>2, <2>3, <2>4, <2>5, <2>6, <2>7, <2>8
      DEF Calls, FillBuffer, CopyBuffer, ScopeMarkerBegin, ScopedMarkerInsertColor
  <1>6. CASE Returns
    <2>1. CASE Recorded BY <1>2, <2>1 DEF Recorded, outcome
    <2>2. CASE RecordThrows \/ ReadbackThrows
      BY <1>2, <2>2 DEF RecordThrows, ReadbackThrows, BeginThrows, outcome
    <2>3. CASE FinishReturns \/ DownloadFinished \/ DownloadReturns
      BY <1>2, <2>3 DEF FinishReturns, DownloadFinished, DownloadReturns, outcome
    <2>4. CASE FinishThrows BY <1>2, <2>4 DEF FinishThrows
    <2>5. CASE Readback
      BY <1>2, <2>5 DEF Readback, Flushed, FlushThrows, outcome
    <2> QED BY <1>3, <1>6, <2>1, <2>2, <2>3, <2>4, <2>5 DEF Returns
  <1>7. CASE ReleaseFrame \/ HostSubmit \/ GpuStep \/ DeviceRemoved \/ Gone \/ UNCHANGED vars
    BY <1>1, <1>7
    DEF ReleaseFrame, HostSubmit, GpuStep, DeviceRemoved, Gone, vars, bridge, outcome
  <1> QED BY <1>5, <1>6, <1>7 DEF Next

(* D3D12VideoCoreBridge's whole inductive invariant, whatever fails: the    *)
(* allocator, a reset, Close, Signal, an event wait or the device.         *)
THEOREM BridgeInvariant == Spec => []IInv
  <1>1. Init => IInv
    <2>1. ASSUME Init PROVE UsesOwned /\ AllocatorNotRecycled /\ AbandonedAgrees
      <3>1. batch.list = "none" /\ InFlight = {} /\ abandoned = {}
        BY <2>1 DEF Init, EmptyBatch, InFlight
      <3> QED BY <3>1 DEF UsesOwned, AllocatorNotRecycled, AbandonedAgrees
    <2> QED BY <2>1, InitOK DEF IInv
  <1>2. IInv /\ [Next]_vars => IInv'
    BY BaseNext, LifeNext, AbandonedNext DEF IInv, LifeInv
  <1> QED BY <1>1, <1>2, PTL DEF Spec

(* Whatever fails, no upload, image or readback buffer is released, and no  *)
(* command allocator reset, under a list the GPU may still execute - except*)
(* the readback buffer of a download whose second wait throws              *)
(* (d3d12_videocore_bridge.cpp:199) and, from the destructor on, what a    *)
(* list without a ticket or one whose wait threw uses                      *)
(* (d3d12_videocore_bridge.cpp:20-28): the lists abandoned names.          *)
THEOREM BridgeNoUseAfterRelease == Spec => []NoUseAfterRelease
  <1>1. IInv => NoUseAfterRelease
    <2> SUFFICES ASSUME IInv PROVE NoUseAfterRelease OBVIOUS
    <2>1. ASSUME NEW e \in InFlight
          PROVE  e.ticket \in abandoned \/ Uses(e.cmds) \subseteq Held
      <3>1. Keepers \subseteq Held BY DEF Keepers, Held, HeldBy
      <3>2. CASE call.op = "gone" BY <3>2, UsesEmpty DEF IInv, UsesOwned
      <3>3. CASE call.op # "gone" BY <3>1, <3>3 DEF IInv, UsesOwned
      <3> QED BY <3>2, <3>3
    <2> QED BY <2>1 DEF NoUseAfterRelease, IInv
  <1> QED BY <1>1, BridgeInvariant, PTL
=============================================================================
