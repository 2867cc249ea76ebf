----------------------- MODULE ThreadLifecycleProofs ------------------------
(***************************************************************************)
(* Proofs about ThreadLifecycle, for any set of Pthread objects, any       *)
(* GcThreshold and MaxCachedThreads and any number of calls.               *)
(*                                                                         *)
(* FoundStaysValid is not inductive: that TryCollect leaves a referenced   *)
(* object alone needs the count to be exact (RefsExact: the thread's own   *)
(* reference until it is dead, and one per thread in RefAdd's and          *)
(* TryCollect's sections); that it leaves a joined one alone needs joiner  *)
(* and join_target to name each other and a joined thread not to be        *)
(* detached (JoinsAgree); that a canceller's target stays needs the lock   *)
(* to be with the thread at that point (LocksAgree).  UseIsListed then     *)
(* says that whatever is in use is listed, and OnePlace that what is       *)
(* listed is not collected, cached, on the heap or under construction.     *)
(*                                                                         *)
(* There is one lemma per action.  It first says what the action does to   *)
(* every field (FrameTo, LocksKept, ...), then goes through the parts of   *)
(* IInv.  The steps are those of Next, which stops once an object was      *)
(* reused under a thread; the step that sets reused is covered.            *)
(***************************************************************************)
EXTENDS ThreadLifecycle, SeqOpsProofs, FiniteSetTheorems, TLAPS

(* An object that is not listed has only users in the tail of their call,  *)
(* and a join_target is listed and names its joiner.                       *)
LEMMA FoundOK == ASSUME IInv PROVE FoundStaysValid
  <1> USE DEF IInv, TypeOK, Frames, Pthreads, UseIsListed, FrameAgrees
  <1>1. ASSUME NEW o \in Objects, o \notin threads, NEW t \in Users(o) PROVE LastUse(t, o)
    BY <1>1, LifecycleAssumption
       DEF Users, LastUse, At, Alive, InUse, Joining, Collecting, Exiting, PCs
  <1>2. ASSUME NEW t \in Objects, thr[t].join_target # NULL
        PROVE  thr[t].join_target \in threads /\ thr[thr[t].join_target].joiner = t
    <2> DEFINE o == thr[t].join_target
    <2>1. o \in Objects BY <1>2
    <2>2. frame[t].pc \in Waiting /\ frame[t].obj = o BY <2>1 DEF JoinsAgree
    <2> QED BY <2>1, <2>2 DEF JoinsAgree, InUse, Joining, Waiting
  <1> QED BY <1>1, <1>2 DEF FoundStaysValid

(* Who is waited for is at "self", at "find" or at "tc_lock": a holder of  *)
(* the list lock waits for a thread lock, and the only holders of a thread *)
(* lock that wait are in JoinThread, for their own lock.  So every cycle   *)
(* runs through a thread at "self" whose holder is at "self" too.          *)
LEMMA CyclesOK == ASSUME IInv PROVE OnlyJoinCycles
  <1> SUFFICES ASSUME NEW S \in SUBSET Objects, S # {}, \A t \in S : Holder(t) \in S
               PROVE  JoinCycle(S)
    BY DEF OnlyJoinCycles
  <1> USE DEF IInv, LocksAgree
  <1>0. \A t \in S : Holder(t) \in Objects /\ Holder(t) # NULL BY LifecycleAssumption
  <1>1. \A t \in S : Holder(t) = list_lock => frame[Holder(t)].pc \in {"find", "tc_lock"}
    BY <1>0
  <1>2. ASSUME NEW t \in S, NEW o \in Objects, Holder(t) = thr[o].lock
        PROVE  At(Holder(t), "self") /\ frame[Holder(t)].obj = o
    <2>1. /\ frame[Holder(t)].pc \in {"self", "mark", "wake", "tc_unlock"}
          /\ frame[Holder(t)].obj = o
      BY <1>0, <1>2
    <2>2. Holder(Holder(t)) # NULL BY <1>0
    <2> QED BY <2>1, <2>2 DEF Holder, At
  <1>3. ASSUME NEW t \in S PROVE \E u \in S : At(u, "self")
    <2>1. CASE frame[t].pc \in {"find", "reap", "backout", "ref", "tc_lock"}
      <3>1. frame[t].obj \in Objects BY <2>1 DEF TypeOK, Frames, FrameAgrees, InUse, Joining
      <3>2. Holder(t) = thr[frame[t].obj].lock BY <2>1 DEF Holder
      <3> QED BY <1>2, <3>1, <3>2
    <2>2. CASE frame[t].pc \in {"self", "out", "exit"}
      BY <1>2, <2>2 DEF Holder
    <2>3. CASE frame[t].pc \in {"link", "tc_list"}
      <3>1. Holder(t) = list_lock BY <2>3 DEF Holder
      <3> DEFINE u == Holder(t)
      <3>2. u \in S /\ frame[u].pc \in {"find", "tc_lock"} BY <1>1, <3>1
      <3>3. frame[u].obj \in Objects BY <3>2 DEF TypeOK, Frames, FrameAgrees, InUse, Joining
      <3>4. Holder(u) = thr[frame[u].obj].lock BY <3>2 DEF Holder
      <3> QED BY <1>2, <3>2, <3>3, <3>4
    <2> QED BY <1>0, <2>1, <2>2, <2>3 DEF Holder
  <1>4. PICK u \in S : At(u, "self") BY <1>3
  <1> DEFINE T == {t \in S : At(t, "self")}
  <1>5. ASSUME NEW t \in T PROVE \E s \in T : frame[s].obj = t
    <2>1. Holder(t) = thr[t].lock BY DEF Holder, At
    <2>2. Holder(t) \in T /\ frame[Holder(t)].obj = t BY <1>2, <2>1
    <2> QED BY <2>2
  <1>6. T \in SUBSET S /\ T # {} BY <1>4
  <1>7. \A t \in T : At(t, "self") /\ \E s \in T : frame[s].obj = t BY <1>5
  <1> HIDE DEF T
  <1> QED BY <1>6, <1>7 DEF JoinCycle

-----------------------------------------------------------------------------
(* What a step does, field by field.                                       *)

USE DEF At, Exiting, ShouldCancel, NewOf, InUse, Joining, Waiting, Collecting, Alive
USE LifecycleAssumption

(* Thread t gets a new activation and no other thread does. *)
FrameTo(t, pc, call, obj, work) ==
    /\ frame'[t].pc = pc /\ frame'[t].call = call /\ frame'[t].obj = obj /\ frame'[t].work = work
    /\ \A u \in Objects : u # t => frame'[u] = frame[u]

(* The fields of all objects that a step leaves alone. *)
LocksKept == \A p \in Objects : thr'[p].lock = thr[p].lock
RefsKept == \A p \in Objects : thr'[p].refcount = thr[p].refcount /\ thr'[p].dead = thr[p].dead
JoinsKept ==
    \A p \in Objects : /\ thr'[p].joiner = thr[p].joiner
                       /\ thr'[p].join_target = thr[p].join_target
                       /\ thr'[p].detached = thr[p].detached
MarksKept ==
    \A p \in Objects : /\ thr'[p].terminated = thr[p].terminated
                       /\ thr'[p].cancel_pending = thr[p].cancel_pending

(* The points at which a thread holds a counted reference. *)
Counted == {"ref", "tc_list", "tc_lock"}

(* No object moves when nothing is stored, freed or constructed. *)
LEMMA PlacesSame ==
    ASSUME OnePlace, UNCHANGED places,
           \A u \in Objects : frame'[u].work = frame[u].work,
           \A u, p \in Objects : NewOf(u, p)' <=> NewOf(u, p)
    PROVE  OnePlace'
  <1>1. threads' = threads /\ gc_list' = gc_list /\ heap' = heap /\ free_threads' = free_threads
    BY DEF places
  <1>2. Elems(free_threads)' = Elems(free_threads) BY <1>1
  <1> HIDE DEF NewOf, At, Elems
  <1> QED BY <1>1, <1>2 DEF OnePlace

(* The counts stay exact when nobody gets or gives up a reference. *)
LEMMA RefsSame ==
    ASSUME RefsExact, RefsKept,
           \A u \in Objects : frame'[u].pc \in Counted <=> frame[u].pc \in Counted,
           \A u \in Objects : frame[u].pc \in Counted => frame'[u].obj = frame[u].obj
    PROVE  RefsExact'
  <1> SUFFICES ASSUME NEW p \in Objects
               PROVE  /\ IsFiniteSet(Refs(p)') 
                      /\ thr'[p].refcount = Cardinality(Refs(p)') + IF thr'[p].dead THEN 0 ELSE 1
    BY DEF RefsExact
  <1>1. Refs(p)' = Refs(p) BY DEF Refs, Counted
  <1> QED BY <1>1 DEF RefsExact, RefsKept

(* A thread that holds a reference makes the count positive; when a dead   *)
(* object has one reference, nobody else holds one.                        *)
LEMMA RefsPositive ==
    ASSUME IInv, NEW t \in Objects, NEW o \in Objects, frame[t].pc \in Counted, frame[t].obj = o
    PROVE  /\ thr[o].refcount \in Nat \ {0} /\ thr[o].refcount - 1 \in Nat
           /\ thr[o].dead /\ thr[o].refcount = 1 =>
                \A u \in Objects : frame[u].pc \in Counted /\ frame[u].obj = o => u = t
  <1> DEFINE n == Cardinality(Refs(o))
  <1>1. IsFiniteSet(Refs(o)) /\ thr[o].refcount = n + (IF thr[o].dead THEN 0 ELSE 1)
    BY DEF IInv, RefsExact
  <1>2. t \in Refs(o) BY DEF Refs, Counted
  <1>3. n \in Nat /\ n # 0 BY <1>1, <1>2, FS_CardinalityType, FS_EmptySet
  <1>4. thr[o].dead \in BOOLEAN BY DEF IInv, TypeOK, Pthreads
  <1>5. ASSUME thr[o].dead, thr[o].refcount = 1,
               NEW u \in Objects, frame[u].pc \in Counted, frame[u].obj = o
        PROVE  u = t
    <2>1. n = 1 BY <1>1, <1>3, <1>5
    <2>2. PICK x : Refs(o) = {x} BY <1>1, <2>1, FS_Singleton
    <2>3. u \in Refs(o) BY <1>5 DEF Refs, Counted
    <2> QED BY <1>2, <2>2, <2>3
  <1> HIDE DEF n
  <1> QED BY <1>1, <1>3, <1>4, <1>5

(* A step that touches the count and the references of one object only. *)
LEMMA RefsOf ==
    ASSUME RefsExact, NEW o \in Objects,
           IsFiniteSet(Refs(o)'),
           thr'[o].refcount = Cardinality(Refs(o)') + (IF thr'[o].dead THEN 0 ELSE 1),
           \A p \in Objects \ {o} : Refs(p)' = Refs(p),
           \A p \in Objects \ {o} :
               thr'[p].refcount = thr[p].refcount /\ thr'[p].dead = thr[p].dead
    PROVE  RefsExact'
  <1> SUFFICES ASSUME NEW p \in Objects
               PROVE  /\ IsFiniteSet(Refs(p)') 
                      /\ thr'[p].refcount = Cardinality(Refs(p)') + IF thr'[p].dead THEN 0 ELSE 1
    BY DEF RefsExact
  <1>1. CASE p = o BY <1>1
  <1>2. CASE p # o BY <1>2 DEF RefsExact
  <1> QED BY <1>1, <1>2

(* A reference is added, or a dying thread turns its own into one. *)
LEMMA RefsAdd ==
    ASSUME RefsExact, NEW t \in Objects, NEW o \in Objects, thr[o].dead \in BOOLEAN, 
           frame[t].pc \notin Counted, frame'[t].pc \in Counted, frame'[t].obj = o,
           \A u \in Objects : u # t => frame'[u] = frame[u],
           \A p \in Objects \ {o} :
               thr'[p].refcount = thr[p].refcount /\ thr'[p].dead = thr[p].dead,
           \/ thr'[o].refcount = thr[o].refcount + 1 /\ thr'[o].dead = thr[o].dead
           \/ thr'[o].refcount = thr[o].refcount /\ ~thr[o].dead /\ thr'[o].dead
    PROVE  RefsExact'
  <1>1. Refs(o)' = Refs(o) \cup {t} BY DEF Refs, Counted
  <1>2. \A p \in Objects \ {o} : Refs(p)' = Refs(p) BY DEF Refs, Counted
  <1>3. t \notin Refs(o) BY DEF Refs, Counted
  <1>4. /\ IsFiniteSet(Refs(o))
        /\ thr[o].refcount = Cardinality(Refs(o)) + (IF thr[o].dead THEN 0 ELSE 1)
    BY DEF RefsExact
  <1>5. IsFiniteSet(Refs(o)') /\ Cardinality(Refs(o)') = Cardinality(Refs(o)) + 1
    BY <1>1, <1>3, <1>4, FS_AddElement
  <1>6. Cardinality(Refs(o)) \in Nat BY <1>4, FS_CardinalityType
  <1>7. thr'[o].refcount = Cardinality(Refs(o)') + (IF thr'[o].dead THEN 0 ELSE 1)
    BY <1>4, <1>5, <1>6
  <1> QED BY <1>2, <1>5, <1>7, RefsOf

(* A reference is given up. *)
LEMMA RefsDrop ==
    ASSUME RefsExact, NEW t \in Objects, NEW o \in Objects, thr[o].dead \in BOOLEAN,
           frame[t].pc \in Counted, frame[t].obj = o, frame'[t].pc \notin Counted,
           \A u \in Objects : u # t => frame'[u] = frame[u],
           \A p \in Objects \ {o} :
               thr'[p].refcount = thr[p].refcount /\ thr'[p].dead = thr[p].dead,
           thr'[o].refcount = thr[o].refcount - 1 /\ thr'[o].dead = thr[o].dead
    PROVE  RefsExact'
  <1>1. Refs(o)' = Refs(o) \ {t} BY DEF Refs, Counted
  <1>2. \A p \in Objects \ {o} : Refs(p)' = Refs(p) BY DEF Refs, Counted
  <1>3. t \in Refs(o) BY DEF Refs, Counted
  <1>4. /\ IsFiniteSet(Refs(o))
        /\ thr[o].refcount = Cardinality(Refs(o)) + (IF thr[o].dead THEN 0 ELSE 1)
    BY DEF RefsExact
  <1>5. IsFiniteSet(Refs(o)') /\ Cardinality(Refs(o)') = Cardinality(Refs(o)) - 1
    BY <1>1, <1>3, <1>4, FS_RemoveElement
  <1>6. Cardinality(Refs(o)) \in Nat BY <1>4, FS_CardinalityType
  <1>7. thr'[o].refcount = Cardinality(Refs(o)') + (IF thr'[o].dead THEN 0 ELSE 1)
    BY <1>4, <1>5, <1>6
  <1> QED BY <1>2, <1>5, <1>7, RefsOf

(* A thread dies and gives up its own reference. *)
LEMMA RefsDie ==
    ASSUME RefsExact, NEW t \in Objects, thr[t].dead = FALSE,
           frame[t].pc \notin Counted, frame'[t].pc \notin Counted,
           \A u \in Objects : u # t => frame'[u] = frame[u],
           \A p \in Objects \ {t} :
               thr'[p].refcount = thr[p].refcount /\ thr'[p].dead = thr[p].dead,
           thr'[t].refcount = thr[t].refcount - 1 /\ thr'[t].dead = TRUE
    PROVE  RefsExact'
  <1>1. \A p \in Objects : Refs(p)' = Refs(p) BY DEF Refs, Counted
  <1>4. IsFiniteSet(Refs(t)) /\ thr[t].refcount = Cardinality(Refs(t)) + 1 BY DEF RefsExact
  <1>6. Cardinality(Refs(t)) \in Nat BY <1>4, FS_CardinalityType
  <1>7. thr'[t].refcount = Cardinality(Refs(t)') + (IF thr'[t].dead THEN 0 ELSE 1)
    BY <1>1, <1>4, <1>6
  <1> QED BY <1>1, <1>4, <1>7, RefsOf

(* The reference a thread that is not dead has on itself. *)
LEMMA OwnReference ==
    ASSUME IInv, NEW t \in Objects, ~thr[t].dead
    PROVE  thr[t].refcount \in Nat \ {0} /\ thr[t].refcount - 1 \in Nat
  <1>1. IsFiniteSet(Refs(t)) /\ thr[t].refcount = Cardinality(Refs(t)) + 1
    BY DEF IInv, RefsExact
  <1>2. Cardinality(Refs(t)) \in Nat BY <1>1, FS_CardinalityType
  <1> QED BY <1>1, <1>2

(* The place of an object does not change. *)
Stays(p) ==
    /\ p \in threads' <=> p \in threads
    /\ p \in gc_list' <=> p \in gc_list
    /\ p \in heap' <=> p \in heap
    /\ p \in Elems(free_threads)' <=> p \in Elems(free_threads)
    /\ \A u \in Objects : /\ p \in frame'[u].work <=> p \in frame[u].work
                          /\ NewOf(u, p)' <=> NewOf(u, p)

(* A creator holds an object of its work list, or the new one. *)
Holds(t, p) == p \in frame[t].work \/ NewOf(t, p)

(* An object is in one place. *)
Placed(p) ==
    /\ ~(p \in threads /\ p \in gc_list)
    /\ ~(p \in threads /\ p \in heap) /\ ~(p \in gc_list /\ p \in heap)
    /\ p \in Elems(free_threads) => p \notin threads /\ p \notin gc_list /\ p \notin heap
    /\ \A t \in Objects : Holds(t, p) =>
           /\ p \notin threads /\ p \notin gc_list /\ p \notin heap /\ p \notin Elems(free_threads)
           /\ ~(p \in frame[t].work /\ NewOf(t, p))
           /\ \A u \in Objects : Holds(u, p) => u = t
    /\ \/ p \in threads \/ p \in gc_list \/ p \in heap \/ p \in Elems(free_threads)
       \/ \E t \in Objects : Holds(t, p)

(* OnePlace, object by object. *)
LEMMA OnePlaceIs ==
    OnePlace <=> /\ threads \subseteq Objects /\ gc_list \subseteq Objects /\ heap \subseteq Objects
                 /\ Distinct(free_threads)
                 /\ \A p \in Objects : Placed(p)
  <1> HIDE DEF NewOf, At
  <1>1. ASSUME OnePlace PROVE \A p \in Objects : Placed(p) BY <1>1 DEF OnePlace, Placed, Holds
  <1>2. ASSUME threads \subseteq Objects, gc_list \subseteq Objects, heap \subseteq Objects,
               Distinct(free_threads), \A p \in Objects : Placed(p)
        PROVE  OnePlace
    BY <1>2 DEF OnePlace, Placed, Distinct, Holds
  <1> QED BY <1>1, <1>2 DEF OnePlace, Distinct

(* It is enough to look at the objects that a step moves. *)
LEMMA PlacesMove ==
    ASSUME OnePlace,
           threads' \subseteq Objects, gc_list' \subseteq Objects, heap' \subseteq Objects,
           Distinct(free_threads)', \A p \in Objects : Stays(p) \/ Placed(p)'
    PROVE  OnePlace'
  <1> HIDE DEF NewOf, At
  <1>1. \A p \in Objects : Placed(p) BY OnePlaceIs
  <1>2. ASSUME NEW p \in Objects, Stays(p) PROVE Placed(p)'
    BY <1>1, <1>2 DEF Placed, Stays, Holds
  <1>3. \A p \in Objects : Placed(p)' BY <1>2
  <1> QED BY <1>3 DEF OnePlace, Placed, Distinct, Holds

(* The parts of Create, Collect and Alloc: Collect takes the work list,    *)
(* frees one object of it, and Alloc constructs the object it took.        *)
Takes(t, gone) ==
    /\ frame' = [frame EXCEPT ![t].pc = "free", ![t].work = gone]
    /\ gc_list' = gc_list \ gone
    /\ UNCHANGED <<thr, threads, free_threads, heap, list_lock, once, reused>>
FreesOne(t, o) ==
    /\ frame' = [frame EXCEPT ![t].work = @ \ {o}] /\ Free(o)
    /\ UNCHANGED <<thr, threads, gc_list, list_lock, once, calls>>
Builds(t, o, d) ==
    /\ frame' = [frame EXCEPT ![t].pc = "link", ![t].obj = o]
    /\ thr' = [thr EXCEPT ![o] = New(d)]
    /\ reused' = (Users(o) # {})
    /\ UNCHANGED <<threads, gc_list, list_lock, once, calls>>

USE DEF places, Goto, Return, Frame, InCall, ExitFrame, New
-----------------------------------------------------------------------------
(* SetAffinity: the creator looks at the new object for the last time and  *)
(* returns.                                                                *)
LEMMA SetAffinityOK ==
    ASSUME IInv, ~reused, NEW t \in Objects, SetAffinity(t)
    PROVE  IInv'
  <1>1. frame[t].pc = "affinity"
    BY DEF SetAffinity, IInv, TypeOK, Frames, Pthreads, FrameAgrees, LocksAgree, UseIsListed
  <1>2. /\ frame' = [frame EXCEPT ![t] = Frame("run")] /\ thr' = thr /\ list_lock' = list_lock
        /\ UNCHANGED <<places, once, calls, reused>>
    BY <1>1 DEF SetAffinity
  <1>3. frame' \in [Objects -> Frames]
    <2>1. t \in Objects BY <1>1 DEF IInv, TypeOK
    <2>2. Frame("run") \in Frames BY ONLY <2>1, LifecycleAssumption DEF Frames, PCs, Calls
    <2> QED BY <1>1, <2>1, <2>2, <1>2 DEF IInv, TypeOK
  <1>4. thr' \in [Objects -> Pthreads] BY <1>2 DEF IInv, TypeOK
  <1>5. FrameTo(t, "run", "none", NULL, {})
    BY <1>1, <1>2 DEF FrameTo, IInv, TypeOK, Frames, FrameAgrees
  <1>6. LocksKept /\ RefsKept /\ JoinsKept /\ MarksKept
    BY <1>1, <1>2 DEF LocksKept, RefsKept, JoinsKept, MarksKept, IInv, TypeOK, Pthreads
  <1>7. list_lock' = list_lock /\ UNCHANGED <<places, once, calls, reused>> BY <1>2
  <1>8. TypeOK' BY <1>3, <1>4, <1>7 DEF IInv, TypeOK
  <1>9. OnePlace' BY <1>1, <1>5, <1>6, <1>7, PlacesSame DEF IInv, FrameTo, FrameAgrees
  <1>10. OneInit' BY <1>1, <1>5, <1>6, <1>7 DEF IInv, FrameTo, OneInit
  <1>11. FrameAgrees' BY <1>1, <1>5, <1>6, <1>7 DEF IInv, FrameTo, FrameAgrees
  <1>12. LocksAgree'
    BY <1>1, <1>5, <1>6, <1>7 DEF IInv, FrameTo, LocksKept, LocksAgree, FrameAgrees
  <1>13. JoinsAgree'
    BY <1>1, <1>5, <1>6, <1>7 DEF IInv, FrameTo, JoinsKept, JoinsAgree, FrameAgrees
  <1>14. RefsExact' BY <1>1, <1>5, <1>6, <1>7, RefsSame DEF IInv, FrameTo, Counted
  <1>15. UseIsListed'
    BY <1>1, <1>5, <1>6, <1>7 DEF IInv, FrameTo, RefsKept, UseIsListed, Users, FrameAgrees
  <1>16. NoLostWake'
    BY <1>1, <1>5, <1>6, <1>7 DEF IInv, FrameTo, MarksKept, NoLostWake, FrameAgrees
  <1> QED BY <1>8, <1>9, <1>10, <1>11, <1>12, <1>13, <1>14, <1>15, <1>16 DEF IInv

(* posix_pthread_exit: the thread, which is alive, starts to exit. *)
LEMMA ExitOK ==
    ASSUME IInv, ~reused, NEW t \in Objects, Exit(t)
    PROVE  IInv'
  <1>1. frame[t].pc = "run" /\ t # Main
    BY DEF Exit, IInv, TypeOK, Frames, Pthreads, FrameAgrees, LocksAgree, UseIsListed
  <1>2. /\ frame' = [frame EXCEPT ![t] = ExitFrame(t)] /\ thr' = thr /\ list_lock' = list_lock
        /\ UNCHANGED <<places, once, calls, reused>>
    BY <1>1 DEF Exit
  <1>3. frame' \in [Objects -> Frames]
    <2>1. t \in Objects BY <1>1 DEF IInv, TypeOK
    <2>2. ExitFrame(t) \in Frames BY ONLY <2>1, LifecycleAssumption DEF Frames, PCs, Calls
    <2> QED BY <1>1, <2>1, <2>2, <1>2 DEF IInv, TypeOK
  <1>4. thr' \in [Objects -> Pthreads] BY <1>2 DEF IInv, TypeOK
  <1>5. FrameTo(t, "exit", "exit", t, {})
    BY <1>1, <1>2 DEF FrameTo, IInv, TypeOK, Frames, FrameAgrees
  <1>6. LocksKept /\ RefsKept /\ JoinsKept /\ MarksKept
    BY <1>1, <1>2 DEF LocksKept, RefsKept, JoinsKept, MarksKept, IInv, TypeOK, Pthreads
  <1>7. list_lock' = list_lock /\ UNCHANGED <<places, once, calls, reused>> BY <1>2
  <1>8. TypeOK' BY <1>3, <1>4, <1>7 DEF IInv, TypeOK
  <1>9. OnePlace' BY <1>1, <1>5, <1>6, <1>7, PlacesSame DEF IInv, FrameTo, FrameAgrees
  <1>10. OneInit' BY <1>1, <1>5, <1>6, <1>7 DEF IInv, FrameTo, OneInit
  <1>11. FrameAgrees' BY <1>1, <1>5, <1>6, <1>7 DEF IInv, FrameTo, FrameAgrees
  <1>12. LocksAgree'
    BY <1>1, <1>5, <1>6, <1>7 DEF IInv, FrameTo, LocksKept, LocksAgree, FrameAgrees
  <1>13. JoinsAgree'
    BY <1>1, <1>5, <1>6, <1>7 DEF IInv, FrameTo, JoinsKept, JoinsAgree, FrameAgrees
  <1>14. RefsExact' BY <1>1, <1>5, <1>6, <1>7, RefsSame DEF IInv, FrameTo, Counted
  <1>15. UseIsListed'
    BY <1>1, <1>5, <1>6, <1>7 DEF IInv, FrameTo, RefsKept, UseIsListed, Users, FrameAgrees
  <1>16. NoLostWake'
    BY <1>1, <1>5, <1>6, <1>7 DEF IInv, FrameTo, MarksKept, NoLostWake, FrameAgrees
  <1> QED BY <1>8, <1>9, <1>10, <1>11, <1>12, <1>13, <1>14, <1>15, <1>16 DEF IInv

(* The tid is stored: sleeping joiners are now owed the notification that  *)
(* the thread, at "notify", is about to send.                              *)
LEMMA TerminateOK ==
    ASSUME IInv, ~reused, NEW t \in Objects, Terminate(t)
    PROVE  IInv'
  <1>1. frame[t].pc = "term" /\ frame[t].obj = t
    BY DEF Terminate, IInv, TypeOK, Frames, Pthreads, FrameAgrees, LocksAgree, UseIsListed
  <1>2. /\ frame' = [frame EXCEPT ![t].pc = "notify"]
        /\ thr' = [thr EXCEPT ![t].terminated = TRUE] /\ list_lock' = list_lock
        /\ UNCHANGED <<places, once, calls, reused>>
    BY <1>1 DEF Terminate
  <1>3. frame' \in [Objects -> Frames]
    <2>1. t \in Objects /\ frame[t] \in Frames BY <1>1 DEF IInv, TypeOK
    <2>2. [frame[t] EXCEPT !.pc = "notify"] \in Frames
      BY ONLY <2>1, LifecycleAssumption DEF Frames, PCs, Calls
    <2> QED BY <1>1, <2>1, <2>2, <1>2 DEF IInv, TypeOK
  <1>4. thr' \in [Objects -> Pthreads]
    <2>1. t \in Objects /\ thr[t] \in Pthreads BY <1>1 DEF IInv, TypeOK
    <2>2. [thr[t] EXCEPT !.terminated = TRUE] \in Pthreads
      BY ONLY <2>1, LifecycleAssumption DEF Pthreads
    <2> QED BY <1>1, <2>1, <2>2, <1>2 DEF IInv, TypeOK
  <1>5. FrameTo(t, "notify", frame[t].call, frame[t].obj, {})
    BY <1>1, <1>2 DEF FrameTo, IInv, TypeOK, Frames, FrameAgrees
  <1>6. LocksKept /\ RefsKept /\ JoinsKept
        /\ thr'[t].terminated
        /\ (\A p \in Objects : (p # t => thr'[p].terminated = thr[p].terminated)
             /\ thr'[p].cancel_pending = thr[p].cancel_pending)
    BY <1>1, <1>2 DEF LocksKept, RefsKept, JoinsKept, MarksKept, IInv, TypeOK, Pthreads
  <1>7. list_lock' = list_lock /\ UNCHANGED <<places, once, calls, reused>> BY <1>2
  <1>8. TypeOK' BY <1>3, <1>4, <1>7 DEF IInv, TypeOK
  <1>9. OnePlace' BY <1>1, <1>5, <1>6, <1>7, PlacesSame DEF IInv, FrameTo, FrameAgrees
  <1>10. OneInit' BY <1>1, <1>5, <1>6, <1>7 DEF IInv, FrameTo, OneInit
  <1>11. FrameAgrees' BY <1>1, <1>5, <1>6, <1>7 DEF IInv, FrameTo, FrameAgrees
  <1>12. LocksAgree'
    BY <1>1, <1>5, <1>6, <1>7 DEF IInv, FrameTo, LocksKept, LocksAgree, FrameAgrees
  <1>13. JoinsAgree'
    BY <1>1, <1>5, <1>6, <1>7 DEF IInv, FrameTo, JoinsKept, JoinsAgree, FrameAgrees
  <1>14. RefsExact' BY <1>1, <1>5, <1>6, <1>7, RefsSame DEF IInv, FrameTo, Counted
  <1>15. UseIsListed'
    BY <1>1, <1>5, <1>6, <1>7 DEF IInv, FrameTo, RefsKept, UseIsListed, Users, FrameAgrees
  <1>16. NoLostWake'
    BY <1>1, <1>5, <1>6, <1>7 DEF IInv, FrameTo, MarksKept, NoLostWake, FrameAgrees
  <1> QED BY <1>8, <1>9, <1>10, <1>11, <1>12, <1>13, <1>14, <1>15, <1>16 DEF IInv

(* JoinThread with the target locked: it becomes the joiner of a thread    *)
(* that had none and is not detached.                                      *)
LEMMA JoinThreadOK ==
    ASSUME IInv, ~reused, NEW t \in Objects, JoinThread(t)
    PROVE  IInv'
  <1>0. PICK o : o = frame[t].obj OBVIOUS
  <1>1. /\ o \in Objects /\ o = frame[t].obj /\ frame[t].pc = "find" /\ thr[o].lock = NULL
        /\ frame[t].call \in {"join", "timedjoin"} /\ ~thr[o].detached /\ thr[o].joiner = NULL
        /\ list_lock = t /\ o \in threads
    BY <1>0
       DEF JoinThread, FoundBy, Refused, IInv, TypeOK, Frames, Pthreads, FrameAgrees,
           LocksAgree, UseIsListed
  <1>2. /\ frame' = [frame EXCEPT ![t].pc = "self"]
        /\ thr' = [thr EXCEPT ![o].joiner = t, ![o].lock = t] /\ list_lock' = NULL
        /\ UNCHANGED <<places, once, calls, reused>>
    BY <1>1 DEF JoinThread, FoundBy, Refused
  <1>3. frame' \in [Objects -> Frames]
    <2>1. t \in Objects /\ frame[t] \in Frames BY <1>1 DEF IInv, TypeOK
    <2>2. [frame[t] EXCEPT !.pc = "self"] \in Frames
      BY ONLY <2>1, LifecycleAssumption DEF Frames, PCs, Calls
    <2> QED BY <1>1, <2>1, <2>2, <1>2 DEF IInv, TypeOK
  <1>4. thr' \in [Objects -> Pthreads]
    <2>1. t \in Objects /\ thr[o] \in Pthreads /\ o \in Objects BY <1>1 DEF IInv, TypeOK
    <2>2. [thr[o] EXCEPT !.joiner = t, !.lock = t] \in Pthreads
      BY ONLY <2>1, LifecycleAssumption DEF Pthreads
    <2>3. thr' = [thr EXCEPT ![o] = [thr[o] EXCEPT !.joiner = t, !.lock = t]]
      BY <1>1, <1>2 DEF IInv, TypeOK
    <2> QED BY <1>1, <2>1, <2>2, <2>3 DEF IInv, TypeOK
  <1>5. FrameTo(t, "self", frame[t].call, o, {})
    BY <1>1, <1>2 DEF FrameTo, IInv, TypeOK, Frames, FrameAgrees
  <1>6. (\A p \in Objects : thr'[p].lock = IF p = o THEN t ELSE thr[p].lock)
        /\ RefsKept /\ MarksKept
        /\ \A p \in Objects : /\ thr'[p].joiner = (IF p = o THEN t ELSE thr[p].joiner)
                               /\ thr'[p].join_target = thr[p].join_target
                                    /\ thr'[p].detached = thr[p].detached
    BY <1>1, <1>2 DEF LocksKept, RefsKept, JoinsKept, MarksKept, IInv, TypeOK, Pthreads
  <1>7. list_lock' = NULL /\ UNCHANGED <<places, once, calls, reused>> BY <1>2
  <1>8. TypeOK' BY <1>3, <1>4, <1>7 DEF IInv, TypeOK
  <1>9. OnePlace' BY <1>1, <1>5, <1>6, <1>7, PlacesSame DEF IInv, FrameTo, FrameAgrees
  <1>10. OneInit' BY <1>1, <1>5, <1>6, <1>7 DEF IInv, FrameTo, OneInit
  <1>11. FrameAgrees' BY <1>1, <1>5, <1>6, <1>7 DEF IInv, FrameTo, FrameAgrees
  <1>12. LocksAgree'
    BY <1>1, <1>5, <1>6, <1>7 DEF IInv, FrameTo, LocksKept, LocksAgree, FrameAgrees
  <1>13. JoinsAgree'
    BY <1>1, <1>5, <1>6, <1>7 DEF IInv, FrameTo, JoinsKept, JoinsAgree, FrameAgrees
  <1>14. RefsExact' BY <1>1, <1>5, <1>6, <1>7, RefsSame DEF IInv, FrameTo, Counted
  <1>15. UseIsListed'
    BY <1>1, <1>5, <1>6, <1>7 DEF IInv, FrameTo, RefsKept, UseIsListed, Users, FrameAgrees
  <1>16. NoLostWake'
    BY <1>1, <1>5, <1>6, <1>7 DEF IInv, FrameTo, MarksKept, NoLostWake, FrameAgrees
  <1> QED BY <1>8, <1>9, <1>10, <1>11, <1>12, <1>13, <1>14, <1>15, <1>16 DEF IInv

(* JoinThread with both locks: join_target is set and the target unlocked. *)
LEMMA JoinSelfOK ==
    ASSUME IInv, ~reused, NEW t \in Objects, JoinSelf(t)
    PROVE  IInv'
  <1>0. PICK o : o = frame[t].obj OBVIOUS
  <1>1. /\ o \in Objects /\ o = frame[t].obj /\ frame[t].pc = "self" /\ thr[t].lock = NULL
        /\ thr[o].lock = t /\ o # t
    BY <1>0 DEF JoinSelf, IInv, TypeOK, Frames, Pthreads, FrameAgrees, LocksAgree, UseIsListed
  <1>2. /\ frame' = [frame EXCEPT ![t].pc = "test"]
        /\ thr' = [thr EXCEPT ![t].join_target = o, ![o].lock = NULL] /\ list_lock' = list_lock
        /\ UNCHANGED <<places, once, calls, reused>>
    BY <1>1 DEF JoinSelf
  <1>3. frame' \in [Objects -> Frames]
    <2>1. t \in Objects /\ frame[t] \in Frames BY <1>1 DEF IInv, TypeOK
    <2>2. [frame[t] EXCEPT !.pc = "test"] \in Frames
      BY ONLY <2>1, LifecycleAssumption DEF Frames, PCs, Calls
    <2> QED BY <1>1, <2>1, <2>2, <1>2 DEF IInv, TypeOK
  <1>4. thr' \in [Objects -> Pthreads]
    <2>1. t \in Objects /\ thr[t] \in Pthreads /\ o \in Objects BY <1>1 DEF IInv, TypeOK
    <2>2. [thr[t] EXCEPT !.join_target = o] \in Pthreads
      BY ONLY <2>1, LifecycleAssumption DEF Pthreads
    <2>3. t \in Objects /\ thr[o] \in Pthreads /\ o \in Objects BY <1>1 DEF IInv, TypeOK
    <2>4. [thr[o] EXCEPT !.lock = NULL] \in Pthreads
      BY ONLY <2>3, LifecycleAssumption DEF Pthreads
    <2>5. thr' = [thr EXCEPT ![t] = [thr[t] EXCEPT !.join_target = o], ![o] = [thr[o]
              EXCEPT !.lock = NULL]]
      BY <1>1, <1>2 DEF IInv, TypeOK
    <2> QED BY <1>1, <2>1, <2>2, <2>3, <2>4, <2>5 DEF IInv, TypeOK
  <1>5. FrameTo(t, "test", frame[t].call, o, {})
    BY <1>1, <1>2 DEF FrameTo, IInv, TypeOK, Frames, FrameAgrees
  <1>6. (\A p \in Objects : thr'[p].lock = IF p = o THEN NULL ELSE thr[p].lock)
        /\ RefsKept /\ MarksKept
        /\ \A p \in Objects : /\ thr'[p].join_target = (IF p = t THEN o ELSE thr[p].join_target)
                               /\ thr'[p].joiner = thr[p].joiner
                                    /\ thr'[p].detached = thr[p].detached
    <2>1. /\ thr'[o] = [thr[o] EXCEPT !.lock = NULL]
          /\ thr'[t] = [thr[t] EXCEPT !.join_target = o]
          /\ \A p \in Objects : p # o /\ p # t => thr'[p] = thr[p]
      BY <1>1, <1>2 DEF IInv, TypeOK
    <2>2. thr[o] \in Pthreads /\ thr[t] \in Pthreads BY <1>1 DEF IInv, TypeOK
    <2>3. /\ thr'[o].lock = NULL /\ thr'[o].refcount = thr[o].refcount
          /\ thr'[o].dead = thr[o].dead /\ thr'[o].joiner = thr[o].joiner
          /\ thr'[o].join_target = thr[o].join_target /\ thr'[o].detached = thr[o].detached
          /\ thr'[o].terminated = thr[o].terminated
          /\ thr'[o].cancel_pending = thr[o].cancel_pending
      BY ONLY <2>1, <2>2 DEF Pthreads
    <2>4. /\ thr'[t].lock = thr[t].lock /\ thr'[t].refcount = thr[t].refcount
          /\ thr'[t].dead = thr[t].dead /\ thr'[t].joiner = thr[t].joiner
          /\ thr'[t].join_target = o /\ thr'[t].detached = thr[t].detached
          /\ thr'[t].terminated = thr[t].terminated
          /\ thr'[t].cancel_pending = thr[t].cancel_pending
      BY ONLY <2>1, <2>2 DEF Pthreads
    <2> QED BY <1>1, <2>1, <2>3, <2>4 DEF LocksKept, RefsKept, JoinsKept, MarksKept
  <1>7. list_lock' = list_lock /\ UNCHANGED <<places, once, calls, reused>> BY <1>2
  <1>8. TypeOK' BY <1>3, <1>4, <1>7 DEF IInv, TypeOK
  <1>9. OnePlace' BY <1>1, <1>5, <1>6, <1>7, PlacesSame DEF IInv, FrameTo, FrameAgrees
  <1>10. OneInit' BY <1>1, <1>5, <1>6, <1>7 DEF IInv, FrameTo, OneInit
  <1>11. FrameAgrees' BY <1>1, <1>5, <1>6, <1>7 DEF IInv, FrameTo, FrameAgrees
  <1>12. LocksAgree'
    BY <1>1, <1>5, <1>6, <1>7 DEF IInv, FrameTo, LocksKept, LocksAgree, FrameAgrees
  <1>13. JoinsAgree'
    BY <1>1, <1>5, <1>6, <1>7 DEF IInv, FrameTo, JoinsKept, JoinsAgree, FrameAgrees
  <1>14. RefsExact' BY <1>1, <1>5, <1>6, <1>7, RefsSame DEF IInv, FrameTo, Counted
  <1>15. UseIsListed'
    BY <1>1, <1>5, <1>6, <1>7 DEF IInv, FrameTo, RefsKept, UseIsListed, Users, FrameAgrees
  <1>16. NoLostWake'
    BY <1>1, <1>5, <1>6, <1>7 DEF IInv, FrameTo, MarksKept, NoLostWake, FrameAgrees
  <1> QED BY <1>8, <1>9, <1>10, <1>11, <1>12, <1>13, <1>14, <1>15, <1>16 DEF IInv

(* PthreadTestCancel at the entry of the join. *)
LEMMA JoinTestOK ==
    ASSUME IInv, ~reused, NEW t \in Objects, JoinTest(t)
    PROVE  IInv'
  <1>1. frame[t].pc = "test"
    BY DEF JoinTest, JoinCancelled, IInv, TypeOK, Frames, Pthreads, FrameAgrees, LocksAgree,
       UseIsListed
  <1>2. CASE ShouldCancel(t)
    <2>1. /\ frame' = [frame EXCEPT ![t].pc = "out", ![t].call = "exit"] /\ thr' = thr
          /\ list_lock' = list_lock /\ UNCHANGED <<places, once, calls, reused>>
      BY <1>1, <1>2 DEF JoinTest, JoinCancelled
    <2>2. frame' \in [Objects -> Frames]
      <3>1. t \in Objects /\ frame[t] \in Frames BY <1>1, <1>2 DEF IInv, TypeOK
      <3>2. [frame[t] EXCEPT !.pc = "out", !.call = "exit"] \in Frames
        BY ONLY <3>1, LifecycleAssumption DEF Frames, PCs, Calls
      <3>3. frame' = [frame EXCEPT ![t] = [frame[t] EXCEPT !.pc = "out", !.call = "exit"]]
        BY <1>1, <1>2, <2>1 DEF IInv, TypeOK
      <3> QED BY <1>1, <1>2, <3>1, <3>2, <3>3 DEF IInv, TypeOK
    <2>3. thr' \in [Objects -> Pthreads] BY <2>1 DEF IInv, TypeOK
    <2>4. FrameTo(t, "out", "exit", frame[t].obj, {})
      BY <1>1, <1>2, <2>1 DEF FrameTo, IInv, TypeOK, Frames, FrameAgrees
    <2>5. LocksKept /\ RefsKept /\ JoinsKept /\ MarksKept
      BY <1>1, <1>2, <2>1 DEF LocksKept, RefsKept, JoinsKept, MarksKept, IInv, TypeOK, Pthreads
    <2>6. list_lock' = list_lock /\ UNCHANGED <<places, once, calls, reused>> BY <2>1
    <2>7. TypeOK' BY <2>2, <2>3, <2>6 DEF IInv, TypeOK
    <2>8. OnePlace' BY <1>1, <1>2, <2>4, <2>5, <2>6, PlacesSame DEF IInv, FrameTo, FrameAgrees
    <2>9. OneInit' BY <1>1, <1>2, <2>4, <2>5, <2>6 DEF IInv, FrameTo, OneInit
    <2>10. FrameAgrees' BY <1>1, <1>2, <2>4, <2>5, <2>6 DEF IInv, FrameTo, FrameAgrees
    <2>11. LocksAgree'
      BY <1>1, <1>2, <2>4, <2>5, <2>6 DEF IInv, FrameTo, LocksKept, LocksAgree, FrameAgrees
    <2>12. JoinsAgree'
      BY <1>1, <1>2, <2>4, <2>5, <2>6 DEF IInv, FrameTo, JoinsKept, JoinsAgree, FrameAgrees
    <2>13. RefsExact' BY <1>1, <1>2, <2>4, <2>5, <2>6, RefsSame DEF IInv, FrameTo, Counted
    <2>14. UseIsListed'
      BY <1>1, <1>2, <2>4, <2>5, <2>6
         DEF IInv, FrameTo, RefsKept, UseIsListed, Users, FrameAgrees
    <2>15. NoLostWake'
      BY <1>1, <1>2, <2>4, <2>5, <2>6 DEF IInv, FrameTo, MarksKept, NoLostWake, FrameAgrees
    <2> QED BY <2>7, <2>8, <2>9, <2>10, <2>11, <2>12, <2>13, <2>14, <2>15 DEF IInv
  <1>3. CASE ~ShouldCancel(t)
    <2>1. /\ frame' = [frame EXCEPT ![t].pc = "check"] /\ thr' = thr /\ list_lock' = list_lock
          /\ UNCHANGED <<places, once, calls, reused>>
      BY <1>1, <1>3 DEF JoinTest, JoinCancelled
    <2>2. frame' \in [Objects -> Frames]
      <3>1. t \in Objects /\ frame[t] \in Frames BY <1>1, <1>3 DEF IInv, TypeOK
      <3>2. [frame[t] EXCEPT !.pc = "check"] \in Frames
        BY ONLY <3>1, LifecycleAssumption DEF Frames, PCs, Calls
      <3> QED BY <1>1, <1>3, <3>1, <3>2, <2>1 DEF IInv, TypeOK
    <2>3. thr' \in [Objects -> Pthreads] BY <2>1 DEF IInv, TypeOK
    <2>4. FrameTo(t, "check", frame[t].call, frame[t].obj, {})
      BY <1>1, <1>3, <2>1 DEF FrameTo, IInv, TypeOK, Frames, FrameAgrees
    <2>5. LocksKept /\ RefsKept /\ JoinsKept /\ MarksKept
      BY <1>1, <1>3, <2>1 DEF LocksKept, RefsKept, JoinsKept, MarksKept, IInv, TypeOK, Pthreads
    <2>6. list_lock' = list_lock /\ UNCHANGED <<places, once, calls, reused>> BY <2>1
    <2>7. TypeOK' BY <2>2, <2>3, <2>6 DEF IInv, TypeOK
    <2>8. OnePlace' BY <1>1, <1>3, <2>4, <2>5, <2>6, PlacesSame DEF IInv, FrameTo, FrameAgrees
    <2>9. OneInit' BY <1>1, <1>3, <2>4, <2>5, <2>6 DEF IInv, FrameTo, OneInit
    <2>10. FrameAgrees' BY <1>1, <1>3, <2>4, <2>5, <2>6 DEF IInv, FrameTo, FrameAgrees
    <2>11. LocksAgree'
      BY <1>1, <1>3, <2>4, <2>5, <2>6 DEF IInv, FrameTo, LocksKept, LocksAgree, FrameAgrees
    <2>12. JoinsAgree'
      BY <1>1, <1>3, <2>4, <2>5, <2>6 DEF IInv, FrameTo, JoinsKept, JoinsAgree, FrameAgrees
    <2>13. RefsExact' BY <1>1, <1>3, <2>4, <2>5, <2>6, RefsSame DEF IInv, FrameTo, Counted
    <2>14. UseIsListed'
      BY <1>1, <1>3, <2>4, <2>5, <2>6
         DEF IInv, FrameTo, RefsKept, UseIsListed, Users, FrameAgrees
    <2>15. NoLostWake'
      BY <1>1, <1>3, <2>4, <2>5, <2>6 DEF IInv, FrameTo, MarksKept, NoLostWake, FrameAgrees
    <2> QED BY <2>7, <2>8, <2>9, <2>10, <2>11, <2>12, <2>13, <2>14, <2>15 DEF IInv
  <1> QED BY <1>1, <1>2, <1>3

(* The head of the wait loop: a joiner goes to sleep only after it saw that *)
(* neither termination nor cancellation is pending.                        *)
LEMMA JoinCheckOK ==
    ASSUME IInv, ~reused, NEW t \in Objects, JoinCheck(t)
    PROVE  IInv'
  <1>0. PICK o : o = frame[t].obj OBVIOUS
  <1>1. o \in Objects /\ o = frame[t].obj /\ frame[t].pc = "check"
    BY <1>0
       DEF JoinCheck, JoinCancelled, IInv, TypeOK, Frames, Pthreads, FrameAgrees, LocksAgree,
           UseIsListed
  <1>2. CASE thr[o].terminated
    <2>1. /\ frame' = [frame EXCEPT ![t].pc = "out"] /\ thr' = thr /\ list_lock' = list_lock
          /\ UNCHANGED <<places, once, calls, reused>>
      BY <1>1, <1>2 DEF JoinCheck, JoinCancelled
    <2>2. frame' \in [Objects -> Frames]
      <3>1. t \in Objects /\ frame[t] \in Frames BY <1>1, <1>2 DEF IInv, TypeOK
      <3>2. [frame[t] EXCEPT !.pc = "out"] \in Frames
        BY ONLY <3>1, LifecycleAssumption DEF Frames, PCs, Calls
      <3> QED BY <1>1, <1>2, <3>1, <3>2, <2>1 DEF IInv, TypeOK
    <2>3. thr' \in [Objects -> Pthreads] BY <2>1 DEF IInv, TypeOK
    <2>4. FrameTo(t, "out", frame[t].call, frame[t].obj, {})
      BY <1>1, <1>2, <2>1 DEF FrameTo, IInv, TypeOK, Frames, FrameAgrees
    <2>5. LocksKept /\ RefsKept /\ JoinsKept /\ MarksKept
      BY <1>1, <1>2, <2>1 DEF LocksKept, RefsKept, JoinsKept, MarksKept, IInv, TypeOK, Pthreads
    <2>6. list_lock' = list_lock /\ UNCHANGED <<places, once, calls, reused>> BY <2>1
    <2>7. TypeOK' BY <2>2, <2>3, <2>6 DEF IInv, TypeOK
    <2>8. OnePlace' BY <1>1, <1>2, <2>4, <2>5, <2>6, PlacesSame DEF IInv, FrameTo, FrameAgrees
    <2>9. OneInit' BY <1>1, <1>2, <2>4, <2>5, <2>6 DEF IInv, FrameTo, OneInit
    <2>10. FrameAgrees' BY <1>1, <1>2, <2>4, <2>5, <2>6 DEF IInv, FrameTo, FrameAgrees
    <2>11. LocksAgree'
      BY <1>1, <1>2, <2>4, <2>5, <2>6 DEF IInv, FrameTo, LocksKept, LocksAgree, FrameAgrees
    <2>12. JoinsAgree'
      BY <1>1, <1>2, <2>4, <2>5, <2>6 DEF IInv, FrameTo, JoinsKept, JoinsAgree, FrameAgrees
    <2>13. RefsExact' BY <1>1, <1>2, <2>4, <2>5, <2>6, RefsSame DEF IInv, FrameTo, Counted
    <2>14. UseIsListed'
      BY <1>1, <1>2, <2>4, <2>5, <2>6
         DEF IInv, FrameTo, RefsKept, UseIsListed, Users, FrameAgrees
    <2>15. NoLostWake'
      BY <1>1, <1>2, <2>4, <2>5, <2>6 DEF IInv, FrameTo, MarksKept, NoLostWake, FrameAgrees
    <2> QED BY <2>7, <2>8, <2>9, <2>10, <2>11, <2>12, <2>13, <2>14, <2>15 DEF IInv
  <1>3. CASE ~thr[o].terminated /\ ShouldCancel(t)
    <2>1. /\ frame' = [frame EXCEPT ![t].pc = "out", ![t].call = "exit"] /\ thr' = thr
          /\ list_lock' = list_lock /\ UNCHANGED <<places, once, calls, reused>>
      BY <1>1, <1>3 DEF JoinCheck, JoinCancelled
    <2>2. frame' \in [Objects -> Frames]
      <3>1. t \in Objects /\ frame[t] \in Frames BY <1>1, <1>3 DEF IInv, TypeOK
      <3>2. [frame[t] EXCEPT !.pc = "out", !.call = "exit"] \in Frames
        BY ONLY <3>1, LifecycleAssumption DEF Frames, PCs, Calls
      <3>3. frame' = [frame EXCEPT ![t] = [frame[t] EXCEPT !.pc = "out", !.call = "exit"]]
        BY <1>1, <1>3, <2>1 DEF IInv, TypeOK
      <3> QED BY <1>1, <1>3, <3>1, <3>2, <3>3 DEF IInv, TypeOK
    <2>3. thr' \in [Objects -> Pthreads] BY <2>1 DEF IInv, TypeOK
    <2>4. FrameTo(t, "out", "exit", frame[t].obj, {})
      BY <1>1, <1>3, <2>1 DEF FrameTo, IInv, TypeOK, Frames, FrameAgrees
    <2>5. LocksKept /\ RefsKept /\ JoinsKept /\ MarksKept
      BY <1>1, <1>3, <2>1 DEF LocksKept, RefsKept, JoinsKept, MarksKept, IInv, TypeOK, Pthreads
    <2>6. list_lock' = list_lock /\ UNCHANGED <<places, once, calls, reused>> BY <2>1
    <2>7. TypeOK' BY <2>2, <2>3, <2>6 DEF IInv, TypeOK
    <2>8. OnePlace' BY <1>1, <1>3, <2>4, <2>5, <2>6, PlacesSame DEF IInv, FrameTo, FrameAgrees
    <2>9. OneInit' BY <1>1, <1>3, <2>4, <2>5, <2>6 DEF IInv, FrameTo, OneInit
    <2>10. FrameAgrees' BY <1>1, <1>3, <2>4, <2>5, <2>6 DEF IInv, FrameTo, FrameAgrees
    <2>11. LocksAgree'
      BY <1>1, <1>3, <2>4, <2>5, <2>6 DEF IInv, FrameTo, LocksKept, LocksAgree, FrameAgrees
    <2>12. JoinsAgree'
      BY <1>1, <1>3, <2>4, <2>5, <2>6 DEF IInv, FrameTo, JoinsKept, JoinsAgree, FrameAgrees
    <2>13. RefsExact' BY <1>1, <1>3, <2>4, <2>5, <2>6, RefsSame DEF IInv, FrameTo, Counted
    <2>14. UseIsListed'
      BY <1>1, <1>3, <2>4, <2>5, <2>6
         DEF IInv, FrameTo, RefsKept, UseIsListed, Users, FrameAgrees
    <2>15. NoLostWake'
      BY <1>1, <1>3, <2>4, <2>5, <2>6 DEF IInv, FrameTo, MarksKept, NoLostWake, FrameAgrees
    <2> QED BY <2>7, <2>8, <2>9, <2>10, <2>11, <2>12, <2>13, <2>14, <2>15 DEF IInv
  <1>4. CASE ~thr[o].terminated /\ ~ShouldCancel(t)
    <2>1. /\ frame' = [frame EXCEPT ![t].pc = "sleep"] /\ thr' = thr /\ list_lock' = list_lock
          /\ UNCHANGED <<places, once, calls, reused>>
      BY <1>1, <1>4 DEF JoinCheck, JoinCancelled
    <2>2. frame' \in [Objects -> Frames]
      <3>1. t \in Objects /\ frame[t] \in Frames BY <1>1, <1>4 DEF IInv, TypeOK
      <3>2. [frame[t] EXCEPT !.pc = "sleep"] \in Frames
        BY ONLY <3>1, LifecycleAssumption DEF Frames, PCs, Calls
      <3> QED BY <1>1, <1>4, <3>1, <3>2, <2>1 DEF IInv, TypeOK
    <2>3. thr' \in [Objects -> Pthreads] BY <2>1 DEF IInv, TypeOK
    <2>4. FrameTo(t, "sleep", frame[t].call, frame[t].obj, {})
      BY <1>1, <1>4, <2>1 DEF FrameTo, IInv, TypeOK, Frames, FrameAgrees
    <2>5. LocksKept /\ RefsKept /\ JoinsKept /\ MarksKept
      BY <1>1, <1>4, <2>1 DEF LocksKept, RefsKept, JoinsKept, MarksKept, IInv, TypeOK, Pthreads
    <2>6. list_lock' = list_lock /\ UNCHANGED <<places, once, calls, reused>> BY <2>1
    <2>7. TypeOK' BY <2>2, <2>3, <2>6 DEF IInv, TypeOK
    <2>8. OnePlace' BY <1>1, <1>4, <2>4, <2>5, <2>6, PlacesSame DEF IInv, FrameTo, FrameAgrees
    <2>9. OneInit' BY <1>1, <1>4, <2>4, <2>5, <2>6 DEF IInv, FrameTo, OneInit
    <2>10. FrameAgrees' BY <1>1, <1>4, <2>4, <2>5, <2>6 DEF IInv, FrameTo, FrameAgrees
    <2>11. LocksAgree'
      BY <1>1, <1>4, <2>4, <2>5, <2>6 DEF IInv, FrameTo, LocksKept, LocksAgree, FrameAgrees
    <2>12. JoinsAgree'
      BY <1>1, <1>4, <2>4, <2>5, <2>6 DEF IInv, FrameTo, JoinsKept, JoinsAgree, FrameAgrees
    <2>13. RefsExact' BY <1>1, <1>4, <2>4, <2>5, <2>6, RefsSame DEF IInv, FrameTo, Counted
    <2>14. UseIsListed'
      BY <1>1, <1>4, <2>4, <2>5, <2>6
         DEF IInv, FrameTo, RefsKept, UseIsListed, Users, FrameAgrees
    <2>15. NoLostWake'
      BY <1>1, <1>4, <2>4, <2>5, <2>6 DEF IInv, FrameTo, MarksKept, NoLostWake, FrameAgrees
    <2> QED BY <2>7, <2>8, <2>9, <2>10, <2>11, <2>12, <2>13, <2>14, <2>15 DEF IInv
  <1> QED BY <1>1, <1>2, <1>3, <1>4

(* A deadline passes: the predicate is looked at once more. *)
LEMMA JoinTimeoutOK ==
    ASSUME IInv, ~reused, NEW t \in Objects, JoinTimeout(t)
    PROVE  IInv'
  <1>1. frame[t].pc = "sleep" /\ frame[t].call = "timedjoin"
    BY DEF JoinTimeout, IInv, TypeOK, Frames, Pthreads, FrameAgrees, LocksAgree, UseIsListed
  <1>2. CASE (thr[frame[t].obj].terminated \/ ShouldCancel(t))
    <2>1. /\ frame' = [frame EXCEPT ![t].pc = "check"] /\ thr' = thr /\ list_lock' = list_lock
          /\ UNCHANGED <<places, once, calls, reused>>
      BY <1>1, <1>2 DEF JoinTimeout
    <2>2. frame' \in [Objects -> Frames]
      <3>1. t \in Objects /\ frame[t] \in Frames BY <1>1, <1>2 DEF IInv, TypeOK
      <3>2. [frame[t] EXCEPT !.pc = "check"] \in Frames
        BY ONLY <3>1, LifecycleAssumption DEF Frames, PCs, Calls
      <3> QED BY <1>1, <1>2, <3>1, <3>2, <2>1 DEF IInv, TypeOK
    <2>3. thr' \in [Objects -> Pthreads] BY <2>1 DEF IInv, TypeOK
    <2>4. FrameTo(t, "check", frame[t].call, frame[t].obj, {})
      BY <1>1, <1>2, <2>1 DEF FrameTo, IInv, TypeOK, Frames, FrameAgrees
    <2>5. LocksKept /\ RefsKept /\ JoinsKept /\ MarksKept
      BY <1>1, <1>2, <2>1 DEF LocksKept, RefsKept, JoinsKept, MarksKept, IInv, TypeOK, Pthreads
    <2>6. list_lock' = list_lock /\ UNCHANGED <<places, once, calls, reused>> BY <2>1
    <2>7. TypeOK' BY <2>2, <2>3, <2>6 DEF IInv, TypeOK
    <2>8. OnePlace' BY <1>1, <1>2, <2>4, <2>5, <2>6, PlacesSame DEF IInv, FrameTo, FrameAgrees
    <2>9. OneInit' BY <1>1, <1>2, <2>4, <2>5, <2>6 DEF IInv, FrameTo, OneInit
    <2>10. FrameAgrees' BY <1>1, <1>2, <2>4, <2>5, <2>6 DEF IInv, FrameTo, FrameAgrees
    <2>11. LocksAgree'
      BY <1>1, <1>2, <2>4, <2>5, <2>6 DEF IInv, FrameTo, LocksKept, LocksAgree, FrameAgrees
    <2>12. JoinsAgree'
      BY <1>1, <1>2, <2>4, <2>5, <2>6 DEF IInv, FrameTo, JoinsKept, JoinsAgree, FrameAgrees
    <2>13. RefsExact' BY <1>1, <1>2, <2>4, <2>5, <2>6, RefsSame DEF IInv, FrameTo, Counted
    <2>14. UseIsListed'
      BY <1>1, <1>2, <2>4, <2>5, <2>6
         DEF IInv, FrameTo, RefsKept, UseIsListed, Users, FrameAgrees
    <2>15. NoLostWake'
      BY <1>1, <1>2, <2>4, <2>5, <2>6 DEF IInv, FrameTo, MarksKept, NoLostWake, FrameAgrees
    <2> QED BY <2>7, <2>8, <2>9, <2>10, <2>11, <2>12, <2>13, <2>14, <2>15 DEF IInv
  <1>3. CASE ~(thr[frame[t].obj].terminated \/ ShouldCancel(t))
    <2>1. /\ frame' = [frame EXCEPT ![t].pc = "out", ![t].call = "timeout"] /\ thr' = thr
          /\ list_lock' = list_lock /\ UNCHANGED <<places, once, calls, reused>>
      BY <1>1, <1>3 DEF JoinTimeout
    <2>2. frame' \in [Objects -> Frames]
      <3>1. t \in Objects /\ frame[t] \in Frames BY <1>1, <1>3 DEF IInv, TypeOK
      <3>2. [frame[t] EXCEPT !.pc = "out", !.call = "timeout"] \in Frames
        BY ONLY <3>1, LifecycleAssumption DEF Frames, PCs, Calls
      <3>3. frame' = [frame EXCEPT ![t] = [frame[t] EXCEPT !.pc = "out", !.call = "timeout"]]
        BY <1>1, <1>3, <2>1 DEF IInv, TypeOK
      <3> QED BY <1>1, <1>3, <3>1, <3>2, <3>3 DEF IInv, TypeOK
    <2>3. thr' \in [Objects -> Pthreads] BY <2>1 DEF IInv, TypeOK
    <2>4. FrameTo(t, "out", "timeout", frame[t].obj, {})
      BY <1>1, <1>3, <2>1 DEF FrameTo, IInv, TypeOK, Frames, FrameAgrees
    <2>5. LocksKept /\ RefsKept /\ JoinsKept /\ MarksKept
      BY <1>1, <1>3, <2>1 DEF LocksKept, RefsKept, JoinsKept, MarksKept, IInv, TypeOK, Pthreads
    <2>6. list_lock' = list_lock /\ UNCHANGED <<places, once, calls, reused>> BY <2>1
    <2>7. TypeOK' BY <2>2, <2>3, <2>6 DEF IInv, TypeOK
    <2>8. OnePlace' BY <1>1, <1>3, <2>4, <2>5, <2>6, PlacesSame DEF IInv, FrameTo, FrameAgrees
    <2>9. OneInit' BY <1>1, <1>3, <2>4, <2>5, <2>6 DEF IInv, FrameTo, OneInit
    <2>10. FrameAgrees' BY <1>1, <1>3, <2>4, <2>5, <2>6 DEF IInv, FrameTo, FrameAgrees
    <2>11. LocksAgree'
      BY <1>1, <1>3, <2>4, <2>5, <2>6 DEF IInv, FrameTo, LocksKept, LocksAgree, FrameAgrees
    <2>12. JoinsAgree'
      BY <1>1, <1>3, <2>4, <2>5, <2>6 DEF IInv, FrameTo, JoinsKept, JoinsAgree, FrameAgrees
    <2>13. RefsExact' BY <1>1, <1>3, <2>4, <2>5, <2>6, RefsSame DEF IInv, FrameTo, Counted
    <2>14. UseIsListed'
      BY <1>1, <1>3, <2>4, <2>5, <2>6
         DEF IInv, FrameTo, RefsKept, UseIsListed, Users, FrameAgrees
    <2>15. NoLostWake'
      BY <1>1, <1>3, <2>4, <2>5, <2>6 DEF IInv, FrameTo, MarksKept, NoLostWake, FrameAgrees
    <2> QED BY <2>7, <2>8, <2>9, <2>10, <2>11, <2>12, <2>13, <2>14, <2>15 DEF IInv
  <1> QED BY <1>1, <1>2, <1>3

(* join_target is cleared, by a thread that is still the joiner. *)
LEMMA JoinOutOK ==
    ASSUME IInv, ~reused, NEW t \in Objects, JoinOut(t)
    PROVE  IInv'
  <1>0. PICK o : o = frame[t].obj OBVIOUS
  <1>1. o \in Objects /\ o = frame[t].obj /\ frame[t].pc = "out" /\ thr[t].lock = NULL
    BY <1>0 DEF JoinOut, IInv, TypeOK, Frames, Pthreads, FrameAgrees, LocksAgree, UseIsListed
  <1>2. CASE frame[t].call \in {"exit", "timeout"}
    <2>1. /\ frame' = [frame EXCEPT ![t].pc = "backout"]
          /\ thr' = [thr EXCEPT ![t].join_target = NULL] /\ list_lock' = list_lock
          /\ UNCHANGED <<places, once, calls, reused>>
      BY <1>1, <1>2 DEF JoinOut
    <2>2. frame' \in [Objects -> Frames]
      <3>1. t \in Objects /\ frame[t] \in Frames BY <1>1, <1>2 DEF IInv, TypeOK
      <3>2. [frame[t] EXCEPT !.pc = "backout"] \in Frames
        BY ONLY <3>1, LifecycleAssumption DEF Frames, PCs, Calls
      <3> QED BY <1>1, <1>2, <3>1, <3>2, <2>1 DEF IInv, TypeOK
    <2>3. thr' \in [Objects -> Pthreads]
      <3>1. t \in Objects /\ thr[t] \in Pthreads BY <1>1, <1>2 DEF IInv, TypeOK
      <3>2. [thr[t] EXCEPT !.join_target = NULL] \in Pthreads
        BY ONLY <3>1, LifecycleAssumption DEF Pthreads
      <3> QED BY <1>1, <1>2, <3>1, <3>2, <2>1 DEF IInv, TypeOK
    <2>4. FrameTo(t, "backout", frame[t].call, o, {})
      BY <1>1, <1>2, <2>1 DEF FrameTo, IInv, TypeOK, Frames, FrameAgrees
    <2>5. LocksKept /\ RefsKept /\ MarksKept
          /\ \A p \in Objects : /\ thr'[p].join_target = (IF p = t THEN NULL
                                       ELSE thr[p].join_target)
                               /\ thr'[p].joiner = thr[p].joiner
                                    /\ thr'[p].detached = thr[p].detached
      BY <1>1, <1>2, <2>1 DEF LocksKept, RefsKept, JoinsKept, MarksKept, IInv, TypeOK, Pthreads
    <2>6. list_lock' = list_lock /\ UNCHANGED <<places, once, calls, reused>> BY <2>1
    <2>7. TypeOK' BY <2>2, <2>3, <2>6 DEF IInv, TypeOK
    <2>8. OnePlace' BY <1>1, <1>2, <2>4, <2>5, <2>6, PlacesSame DEF IInv, FrameTo, FrameAgrees
    <2>9. OneInit' BY <1>1, <1>2, <2>4, <2>5, <2>6 DEF IInv, FrameTo, OneInit
    <2>10. FrameAgrees' BY <1>1, <1>2, <2>4, <2>5, <2>6 DEF IInv, FrameTo, FrameAgrees
    <2>11. LocksAgree'
      BY <1>1, <1>2, <2>4, <2>5, <2>6 DEF IInv, FrameTo, LocksKept, LocksAgree, FrameAgrees
    <2>12. JoinsAgree'
      BY <1>1, <1>2, <2>4, <2>5, <2>6 DEF IInv, FrameTo, JoinsKept, JoinsAgree, FrameAgrees
    <2>13. RefsExact' BY <1>1, <1>2, <2>4, <2>5, <2>6, RefsSame DEF IInv, FrameTo, Counted
    <2>14. UseIsListed'
      BY <1>1, <1>2, <2>4, <2>5, <2>6
         DEF IInv, FrameTo, RefsKept, UseIsListed, Users, FrameAgrees
    <2>15. NoLostWake'
      BY <1>1, <1>2, <2>4, <2>5, <2>6 DEF IInv, FrameTo, MarksKept, NoLostWake, FrameAgrees
    <2> QED BY <2>7, <2>8, <2>9, <2>10, <2>11, <2>12, <2>13, <2>14, <2>15 DEF IInv
  <1>3. CASE ~(frame[t].call \in {"exit", "timeout"})
    <2>1. /\ frame' = [frame EXCEPT ![t].pc = "reap"]
          /\ thr' = [thr EXCEPT ![t].join_target = NULL] /\ list_lock' = list_lock
          /\ UNCHANGED <<places, once, calls, reused>>
      BY <1>1, <1>3 DEF JoinOut
    <2>2. frame' \in [Objects -> Frames]
      <3>1. t \in Objects /\ frame[t] \in Frames BY <1>1, <1>3 DEF IInv, TypeOK
      <3>2. [frame[t] EXCEPT !.pc = "reap"] \in Frames
        BY ONLY <3>1, LifecycleAssumption DEF Frames, PCs, Calls
      <3> QED BY <1>1, <1>3, <3>1, <3>2, <2>1 DEF IInv, TypeOK
    <2>3. thr' \in [Objects -> Pthreads]
      <3>1. t \in Objects /\ thr[t] \in Pthreads BY <1>1, <1>3 DEF IInv, TypeOK
      <3>2. [thr[t] EXCEPT !.join_target = NULL] \in Pthreads
        BY ONLY <3>1, LifecycleAssumption DEF Pthreads
      <3> QED BY <1>1, <1>3, <3>1, <3>2, <2>1 DEF IInv, TypeOK
    <2>4. FrameTo(t, "reap", frame[t].call, o, {})
      BY <1>1, <1>3, <2>1 DEF FrameTo, IInv, TypeOK, Frames, FrameAgrees
    <2>5. LocksKept /\ RefsKept /\ MarksKept
          /\ \A p \in Objects : /\ thr'[p].join_target = (IF p = t THEN NULL
                                       ELSE thr[p].join_target)
                               /\ thr'[p].joiner = thr[p].joiner
                                    /\ thr'[p].detached = thr[p].detached
      BY <1>1, <1>3, <2>1 DEF LocksKept, RefsKept, JoinsKept, MarksKept, IInv, TypeOK, Pthreads
    <2>6. list_lock' = list_lock /\ UNCHANGED <<places, once, calls, reused>> BY <2>1
    <2>7. TypeOK' BY <2>2, <2>3, <2>6 DEF IInv, TypeOK
    <2>8. OnePlace' BY <1>1, <1>3, <2>4, <2>5, <2>6, PlacesSame DEF IInv, FrameTo, FrameAgrees
    <2>9. OneInit' BY <1>1, <1>3, <2>4, <2>5, <2>6 DEF IInv, FrameTo, OneInit
    <2>10. FrameAgrees' BY <1>1, <1>3, <2>4, <2>5, <2>6 DEF IInv, FrameTo, FrameAgrees
    <2>11. LocksAgree'
      BY <1>1, <1>3, <2>4, <2>5, <2>6 DEF IInv, FrameTo, LocksKept, LocksAgree, FrameAgrees
    <2>12. JoinsAgree'
      BY <1>1, <1>3, <2>4, <2>5, <2>6 DEF IInv, FrameTo, JoinsKept, JoinsAgree, FrameAgrees
    <2>13. RefsExact' BY <1>1, <1>3, <2>4, <2>5, <2>6, RefsSame DEF IInv, FrameTo, Counted
    <2>14. UseIsListed'
      BY <1>1, <1>3, <2>4, <2>5, <2>6
         DEF IInv, FrameTo, RefsKept, UseIsListed, Users, FrameAgrees
    <2>15. NoLostWake'
      BY <1>1, <1>3, <2>4, <2>5, <2>6 DEF IInv, FrameTo, MarksKept, NoLostWake, FrameAgrees
    <2> QED BY <2>7, <2>8, <2>9, <2>10, <2>11, <2>12, <2>13, <2>14, <2>15 DEF IInv
  <1> QED BY <1>1, <1>2, <1>3

(* backout_join: joiner is cleared, and the object is not used any more. *)
LEMMA JoinBackoutOK ==
    ASSUME IInv, ~reused, NEW t \in Objects, JoinBackout(t)
    PROVE  IInv'
  <1>0. PICK o : o = frame[t].obj OBVIOUS
  <1>1. /\ o \in Objects /\ o = frame[t].obj /\ frame[t].pc = "backout" /\ thr[o].lock = NULL
        /\ o \in threads
    BY <1>0
       DEF JoinBackout, IInv, TypeOK, Frames, Pthreads, FrameAgrees, LocksAgree, UseIsListed
  <1>2. CASE frame[t].call = "exit"
    <2>1. /\ frame' = [frame EXCEPT ![t] = ExitFrame(t)]
          /\ thr' = [thr EXCEPT ![o].joiner = NULL] /\ list_lock' = list_lock
          /\ UNCHANGED <<places, once, calls, reused>>
      BY <1>1, <1>2 DEF JoinBackout
    <2>2. frame' \in [Objects -> Frames]
      <3>1. t \in Objects BY <1>1, <1>2 DEF IInv, TypeOK
      <3>2. ExitFrame(t) \in Frames BY ONLY <3>1, LifecycleAssumption DEF Frames, PCs, Calls
      <3> QED BY <1>1, <1>2, <3>1, <3>2, <2>1 DEF IInv, TypeOK
    <2>3. thr' \in [Objects -> Pthreads]
      <3>1. t \in Objects /\ thr[o] \in Pthreads /\ o \in Objects BY <1>1, <1>2 DEF IInv, TypeOK
      <3>2. [thr[o] EXCEPT !.joiner = NULL] \in Pthreads
        BY ONLY <3>1, LifecycleAssumption DEF Pthreads
      <3> QED BY <1>1, <1>2, <3>1, <3>2, <2>1 DEF IInv, TypeOK
    <2>4. FrameTo(t, "exit", "exit", t, {})
      BY <1>1, <1>2, <2>1 DEF FrameTo, IInv, TypeOK, Frames, FrameAgrees
    <2>5. LocksKept /\ RefsKept /\ MarksKept
          /\ \A p \in Objects : /\ thr'[p].joiner = (IF p = o THEN NULL ELSE thr[p].joiner)
                               /\ thr'[p].join_target = thr[p].join_target
                                    /\ thr'[p].detached = thr[p].detached
      BY <1>1, <1>2, <2>1 DEF LocksKept, RefsKept, JoinsKept, MarksKept, IInv, TypeOK, Pthreads
    <2>6. list_lock' = list_lock /\ UNCHANGED <<places, once, calls, reused>> BY <2>1
    <2>7. TypeOK' BY <2>2, <2>3, <2>6 DEF IInv, TypeOK
    <2>8. OnePlace' BY <1>1, <1>2, <2>4, <2>5, <2>6, PlacesSame DEF IInv, FrameTo, FrameAgrees
    <2>9. OneInit' BY <1>1, <1>2, <2>4, <2>5, <2>6 DEF IInv, FrameTo, OneInit
    <2>10. FrameAgrees' BY <1>1, <1>2, <2>4, <2>5, <2>6 DEF IInv, FrameTo, FrameAgrees
    <2>11. LocksAgree'
      BY <1>1, <1>2, <2>4, <2>5, <2>6 DEF IInv, FrameTo, LocksKept, LocksAgree, FrameAgrees
    <2>12. JoinsAgree'
      BY <1>1, <1>2, <2>4, <2>5, <2>6 DEF IInv, FrameTo, JoinsKept, JoinsAgree, FrameAgrees
    <2>13. RefsExact' BY <1>1, <1>2, <2>4, <2>5, <2>6, RefsSame DEF IInv, FrameTo, Counted
    <2>14. UseIsListed'
      BY <1>1, <1>2, <2>4, <2>5, <2>6
         DEF IInv, FrameTo, RefsKept, UseIsListed, Users, FrameAgrees
    <2>15. NoLostWake'
      BY <1>1, <1>2, <2>4, <2>5, <2>6 DEF IInv, FrameTo, MarksKept, NoLostWake, FrameAgrees
    <2> QED BY <2>7, <2>8, <2>9, <2>10, <2>11, <2>12, <2>13, <2>14, <2>15 DEF IInv
  <1>3. CASE frame[t].call # "exit"
    <2>1. /\ frame' = [frame EXCEPT ![t] = Frame("run")]
          /\ thr' = [thr EXCEPT ![o].joiner = NULL] /\ list_lock' = list_lock
          /\ UNCHANGED <<places, once, calls, reused>>
      BY <1>1, <1>3 DEF JoinBackout
    <2>2. frame' \in [Objects -> Frames]
      <3>1. t \in Objects BY <1>1, <1>3 DEF IInv, TypeOK
      <3>2. Frame("run") \in Frames BY ONLY <3>1, LifecycleAssumption DEF Frames, PCs, Calls
      <3> QED BY <1>1, <1>3, <3>1, <3>2, <2>1 DEF IInv, TypeOK
    <2>3. thr' \in [Objects -> Pthreads]
      <3>1. t \in Objects /\ thr[o] \in Pthreads /\ o \in Objects BY <1>1, <1>3 DEF IInv, TypeOK
      <3>2. [thr[o] EXCEPT !.joiner = NULL] \in Pthreads
        BY ONLY <3>1, LifecycleAssumption DEF Pthreads
      <3> QED BY <1>1, <1>3, <3>1, <3>2, <2>1 DEF IInv, TypeOK
    <2>4. FrameTo(t, "run", "none", NULL, {})
      BY <1>1, <1>3, <2>1 DEF FrameTo, IInv, TypeOK, Frames, FrameAgrees
    <2>5. LocksKept /\ RefsKept /\ MarksKept
          /\ \A p \in Objects : /\ thr'[p].joiner = (IF p = o THEN NULL ELSE thr[p].joiner)
                               /\ thr'[p].join_target = thr[p].join_target
                                    /\ thr'[p].detached = thr[p].detached
      BY <1>1, <1>3, <2>1 DEF LocksKept, RefsKept, JoinsKept, MarksKept, IInv, TypeOK, Pthreads
    <2>6. list_lock' = list_lock /\ UNCHANGED <<places, once, calls, reused>> BY <2>1
    <2>7. TypeOK' BY <2>2, <2>3, <2>6 DEF IInv, TypeOK
    <2>8. OnePlace' BY <1>1, <1>3, <2>4, <2>5, <2>6, PlacesSame DEF IInv, FrameTo, FrameAgrees
    <2>9. OneInit' BY <1>1, <1>3, <2>4, <2>5, <2>6 DEF IInv, FrameTo, OneInit
    <2>10. FrameAgrees' BY <1>1, <1>3, <2>4, <2>5, <2>6 DEF IInv, FrameTo, FrameAgrees
    <2>11. LocksAgree'
      BY <1>1, <1>3, <2>4, <2>5, <2>6 DEF IInv, FrameTo, LocksKept, LocksAgree, FrameAgrees
    <2>12. JoinsAgree'
      BY <1>1, <1>3, <2>4, <2>5, <2>6 DEF IInv, FrameTo, JoinsKept, JoinsAgree, FrameAgrees
    <2>13. RefsExact' BY <1>1, <1>3, <2>4, <2>5, <2>6, RefsSame DEF IInv, FrameTo, Counted
    <2>14. UseIsListed'
      BY <1>1, <1>3, <2>4, <2>5, <2>6
         DEF IInv, FrameTo, RefsKept, UseIsListed, Users, FrameAgrees
    <2>15. NoLostWake'
      BY <1>1, <1>3, <2>4, <2>5, <2>6 DEF IInv, FrameTo, MarksKept, NoLostWake, FrameAgrees
    <2> QED BY <2>7, <2>8, <2>9, <2>10, <2>11, <2>12, <2>13, <2>14, <2>15 DEF IInv
  <1> QED BY <1>1, <1>2, <1>3

(* posix_pthread_cancel finds its target and keeps it locked. *)
LEMMA CancelOK ==
    ASSUME IInv, ~reused, NEW t \in Objects, Cancel(t)
    PROVE  IInv'
  <1>0. PICK o : o = frame[t].obj OBVIOUS
  <1>1. /\ o \in Objects /\ o = frame[t].obj /\ frame[t].pc = "find" /\ thr[o].lock = NULL
        /\ frame[t].call = "cancel" /\ list_lock = t /\ o \in threads
    BY <1>0
       DEF Cancel, FoundBy, IInv, TypeOK, Frames, Pthreads, FrameAgrees, LocksAgree,
           UseIsListed
  <1>2. /\ frame' = [frame EXCEPT ![t].pc = "mark"] /\ thr' = [thr EXCEPT ![o].lock = t]
        /\ list_lock' = NULL /\ UNCHANGED <<places, once, calls, reused>>
    BY <1>1 DEF Cancel, FoundBy
  <1>3. frame' \in [Objects -> Frames]
    <2>1. t \in Objects /\ frame[t] \in Frames BY <1>1 DEF IInv, TypeOK
    <2>2. [frame[t] EXCEPT !.pc = "mark"] \in Frames
      BY ONLY <2>1, LifecycleAssumption DEF Frames, PCs, Calls
    <2> QED BY <1>1, <2>1, <2>2, <1>2 DEF IInv, TypeOK
  <1>4. thr' \in [Objects -> Pthreads]
    <2>1. t \in Objects /\ thr[o] \in Pthreads /\ o \in Objects BY <1>1 DEF IInv, TypeOK
    <2>2. [thr[o] EXCEPT !.lock = t] \in Pthreads BY ONLY <2>1, LifecycleAssumption DEF Pthreads
    <2> QED BY <1>1, <2>1, <2>2, <1>2 DEF IInv, TypeOK
  <1>5. FrameTo(t, "mark", frame[t].call, o, {})
    BY <1>1, <1>2 DEF FrameTo, IInv, TypeOK, Frames, FrameAgrees
  <1>6. /\ (\A p \in Objects : thr'[p].lock = IF p = o THEN t ELSE thr[p].lock) /\ RefsKept
        /\ JoinsKept /\ MarksKept
    BY <1>1, <1>2 DEF LocksKept, RefsKept, JoinsKept, MarksKept, IInv, TypeOK, Pthreads
  <1>7. list_lock' = NULL /\ UNCHANGED <<places, once, calls, reused>> BY <1>2
  <1>8. TypeOK' BY <1>3, <1>4, <1>7 DEF IInv, TypeOK
  <1>9. OnePlace' BY <1>1, <1>5, <1>6, <1>7, PlacesSame DEF IInv, FrameTo, FrameAgrees
  <1>10. OneInit' BY <1>1, <1>5, <1>6, <1>7 DEF IInv, FrameTo, OneInit
  <1>11. FrameAgrees' BY <1>1, <1>5, <1>6, <1>7 DEF IInv, FrameTo, FrameAgrees
  <1>12. LocksAgree'
    BY <1>1, <1>5, <1>6, <1>7 DEF IInv, FrameTo, LocksKept, LocksAgree, FrameAgrees
  <1>13. JoinsAgree'
    BY <1>1, <1>5, <1>6, <1>7 DEF IInv, FrameTo, JoinsKept, JoinsAgree, FrameAgrees
  <1>14. RefsExact' BY <1>1, <1>5, <1>6, <1>7, RefsSame DEF IInv, FrameTo, Counted
  <1>15. UseIsListed'
    BY <1>1, <1>5, <1>6, <1>7 DEF IInv, FrameTo, RefsKept, UseIsListed, Users, FrameAgrees
  <1>16. NoLostWake'
    BY <1>1, <1>5, <1>6, <1>7 DEF IInv, FrameTo, MarksKept, NoLostWake, FrameAgrees
  <1> QED BY <1>8, <1>9, <1>10, <1>11, <1>12, <1>13, <1>14, <1>15, <1>16 DEF IInv

(* cancel_pending is set: a sleeping joiner is owed the notification. *)
LEMMA CancelMarkOK ==
    ASSUME IInv, ~reused, NEW t \in Objects, CancelMark(t)
    PROVE  IInv'
  <1>0. PICK o : o = frame[t].obj OBVIOUS
  <1>1. /\ o \in Objects /\ o = frame[t].obj /\ frame[t].pc = "mark" /\ thr[o].lock = t
        /\ o \in threads /\ frame[t].call # "exit"
    BY <1>0 DEF CancelMark, IInv, TypeOK, Frames, Pthreads, FrameAgrees, LocksAgree, UseIsListed
  <1>2. CASE thr[o].cancel_pending
    <2>1. /\ frame' = [frame EXCEPT ![t] = Frame("run")] /\ thr' = [thr EXCEPT ![o].lock = NULL]
          /\ list_lock' = list_lock /\ UNCHANGED <<places, once, calls, reused>>
      BY <1>1, <1>2 DEF CancelMark
    <2>2. frame' \in [Objects -> Frames]
      <3>1. t \in Objects BY <1>1, <1>2 DEF IInv, TypeOK
      <3>2. Frame("run") \in Frames BY ONLY <3>1, LifecycleAssumption DEF Frames, PCs, Calls
      <3> QED BY <1>1, <1>2, <3>1, <3>2, <2>1 DEF IInv, TypeOK
    <2>3. thr' \in [Objects -> Pthreads]
      <3>1. t \in Objects /\ thr[o] \in Pthreads /\ o \in Objects BY <1>1, <1>2 DEF IInv, TypeOK
      <3>2. [thr[o] EXCEPT !.lock = NULL] \in Pthreads
        BY ONLY <3>1, LifecycleAssumption DEF Pthreads
      <3> QED BY <1>1, <1>2, <3>1, <3>2, <2>1 DEF IInv, TypeOK
    <2>4. FrameTo(t, "run", "none", NULL, {})
      BY <1>1, <1>2, <2>1 DEF FrameTo, IInv, TypeOK, Frames, FrameAgrees
    <2>5. /\ (\A p \in Objects : thr'[p].lock = IF p = o THEN NULL ELSE thr[p].lock) /\ RefsKept
          /\ JoinsKept /\ MarksKept
      BY <1>1, <1>2, <2>1 DEF LocksKept, RefsKept, JoinsKept, MarksKept, IInv, TypeOK, Pthreads
    <2>6. list_lock' = list_lock /\ UNCHANGED <<places, once, calls, reused>> BY <2>1
    <2>7. TypeOK' BY <2>2, <2>3, <2>6 DEF IInv, TypeOK
    <2>8. OnePlace' BY <1>1, <1>2, <2>4, <2>5, <2>6, PlacesSame DEF IInv, FrameTo, FrameAgrees
    <2>9. OneInit' BY <1>1, <1>2, <2>4, <2>5, <2>6 DEF IInv, FrameTo, OneInit
    <2>10. FrameAgrees' BY <1>1, <1>2, <2>4, <2>5, <2>6 DEF IInv, FrameTo, FrameAgrees
    <2>11. LocksAgree'
      BY <1>1, <1>2, <2>4, <2>5, <2>6 DEF IInv, FrameTo, LocksKept, LocksAgree, FrameAgrees
    <2>12. JoinsAgree'
      BY <1>1, <1>2, <2>4, <2>5, <2>6 DEF IInv, FrameTo, JoinsKept, JoinsAgree, FrameAgrees
    <2>13. RefsExact' BY <1>1, <1>2, <2>4, <2>5, <2>6, RefsSame DEF IInv, FrameTo, Counted
    <2>14. UseIsListed'
      BY <1>1, <1>2, <2>4, <2>5, <2>6
         DEF IInv, FrameTo, RefsKept, UseIsListed, Users, FrameAgrees
    <2>15. NoLostWake'
      BY <1>1, <1>2, <2>4, <2>5, <2>6 DEF IInv, FrameTo, MarksKept, NoLostWake, FrameAgrees
    <2> QED BY <2>7, <2>8, <2>9, <2>10, <2>11, <2>12, <2>13, <2>14, <2>15 DEF IInv
  <1>3. CASE ~thr[o].cancel_pending
    <2>1. /\ frame' = [frame EXCEPT ![t].pc = "wake"]
          /\ thr' = [thr EXCEPT ![o].cancel_pending = TRUE] /\ list_lock' = list_lock
          /\ UNCHANGED <<places, once, calls, reused>>
      BY <1>1, <1>3 DEF CancelMark
    <2>2. frame' \in [Objects -> Frames]
      <3>1. t \in Objects /\ frame[t] \in Frames BY <1>1, <1>3 DEF IInv, TypeOK
      <3>2. [frame[t] EXCEPT !.pc = "wake"] \in Frames
        BY ONLY <3>1, LifecycleAssumption DEF Frames, PCs, Calls
      <3> QED BY <1>1, <1>3, <3>1, <3>2, <2>1 DEF IInv, TypeOK
    <2>3. thr' \in [Objects -> Pthreads]
      <3>1. t \in Objects /\ thr[o] \in Pthreads /\ o \in Objects BY <1>1, <1>3 DEF IInv, TypeOK
      <3>2. [thr[o] EXCEPT !.cancel_pending = TRUE] \in Pthreads
        BY ONLY <3>1, LifecycleAssumption DEF Pthreads
      <3> QED BY <1>1, <1>3, <3>1, <3>2, <2>1 DEF IInv, TypeOK
    <2>4. FrameTo(t, "wake", frame[t].call, o, {})
      BY <1>1, <1>3, <2>1 DEF FrameTo, IInv, TypeOK, Frames, FrameAgrees
    <2>5. /\ LocksKept /\ RefsKept /\ JoinsKept /\ thr'[o].cancel_pending
          /\ \A p \in Objects : (p # o => thr'[p].cancel_pending = thr[p].cancel_pending)
               /\ thr'[p].terminated = thr[p].terminated
      <3>1. /\ thr'[o] = [thr[o] EXCEPT !.cancel_pending = TRUE]
            /\ \A p \in Objects : p # o => thr'[p] = thr[p]
        BY <1>1, <1>3, <2>1 DEF IInv, TypeOK
      <3>2. thr[o] \in Pthreads BY <1>1, <1>3 DEF IInv, TypeOK
      <3>3. /\ thr'[o].lock = thr[o].lock /\ thr'[o].refcount = thr[o].refcount
            /\ thr'[o].dead = thr[o].dead /\ thr'[o].joiner = thr[o].joiner
            /\ thr'[o].join_target = thr[o].join_target /\ thr'[o].detached = thr[o].detached
            /\ thr'[o].terminated = thr[o].terminated /\ thr'[o].cancel_pending
        BY ONLY <3>1, <3>2 DEF Pthreads
      <3> QED BY <1>1, <1>3, <3>1, <3>3 DEF LocksKept, RefsKept, JoinsKept, MarksKept
    <2>6. list_lock' = list_lock /\ UNCHANGED <<places, once, calls, reused>> BY <2>1
    <2>7. TypeOK' BY <2>2, <2>3, <2>6 DEF IInv, TypeOK
    <2>8. OnePlace' BY <1>1, <1>3, <2>4, <2>5, <2>6, PlacesSame DEF IInv, FrameTo, FrameAgrees
    <2>9. OneInit' BY <1>1, <1>3, <2>4, <2>5, <2>6 DEF IInv, FrameTo, OneInit
    <2>10. FrameAgrees' BY <1>1, <1>3, <2>4, <2>5, <2>6 DEF IInv, FrameTo, FrameAgrees
    <2>11. LocksAgree'
      BY <1>1, <1>3, <2>4, <2>5, <2>6 DEF IInv, FrameTo, LocksKept, LocksAgree, FrameAgrees
    <2>12. JoinsAgree'
      BY <1>1, <1>3, <2>4, <2>5, <2>6 DEF IInv, FrameTo, JoinsKept, JoinsAgree, FrameAgrees
    <2>13. RefsExact' BY <1>1, <1>3, <2>4, <2>5, <2>6, RefsSame DEF IInv, FrameTo, Counted
    <2>14. UseIsListed'
      BY <1>1, <1>3, <2>4, <2>5, <2>6
         DEF IInv, FrameTo, RefsKept, UseIsListed, Users, FrameAgrees
    <2>15. NoLostWake'
      BY <1>1, <1>3, <2>4, <2>5, <2>6 DEF IInv, FrameTo, MarksKept, NoLostWake, FrameAgrees
    <2> QED BY <2>7, <2>8, <2>9, <2>10, <2>11, <2>12, <2>13, <2>14, <2>15 DEF IInv
  <1> QED BY <1>1, <1>2, <1>3

(* TryCollect takes the list lock, with a reference and no thread lock. *)
LEMMA CollectListOK ==
    ASSUME IInv, ~reused, NEW t \in Objects, CollectList(t)
    PROVE  IInv'
  <1>0. PICK o : o = frame[t].obj OBVIOUS
  <1>1. o \in Objects /\ o = frame[t].obj /\ frame[t].pc = "tc_list" /\ list_lock = NULL
    BY <1>0
       DEF CollectList, IInv, TypeOK, Frames, Pthreads, FrameAgrees, LocksAgree, UseIsListed
  <1>2. /\ frame' = [frame EXCEPT ![t].pc = "tc_lock"] /\ thr' = thr /\ list_lock' = t
        /\ UNCHANGED <<places, once, calls, reused>>
    BY <1>1 DEF CollectList
  <1>3. frame' \in [Objects -> Frames]
    <2>1. t \in Objects /\ frame[t] \in Frames BY <1>1 DEF IInv, TypeOK
    <2>2. [frame[t] EXCEPT !.pc = "tc_lock"] \in Frames
      BY ONLY <2>1, LifecycleAssumption DEF Frames, PCs, Calls
    <2> QED BY <1>1, <2>1, <2>2, <1>2 DEF IInv, TypeOK
  <1>4. thr' \in [Objects -> Pthreads] BY <1>2 DEF IInv, TypeOK
  <1>5. FrameTo(t, "tc_lock", frame[t].call, o, {})
    BY <1>1, <1>2 DEF FrameTo, IInv, TypeOK, Frames, FrameAgrees
  <1>6. LocksKept /\ RefsKept /\ JoinsKept /\ MarksKept
    BY <1>1, <1>2 DEF LocksKept, RefsKept, JoinsKept, MarksKept, IInv, TypeOK, Pthreads
  <1>7. list_lock' = t /\ UNCHANGED <<places, once, calls, reused>> BY <1>2
  <1>8. TypeOK' BY <1>3, <1>4, <1>7 DEF IInv, TypeOK
  <1>9. OnePlace' BY <1>1, <1>5, <1>6, <1>7, PlacesSame DEF IInv, FrameTo, FrameAgrees
  <1>10. OneInit' BY <1>1, <1>5, <1>6, <1>7 DEF IInv, FrameTo, OneInit
  <1>11. FrameAgrees' BY <1>1, <1>5, <1>6, <1>7 DEF IInv, FrameTo, FrameAgrees
  <1>12. LocksAgree'
    BY <1>1, <1>5, <1>6, <1>7 DEF IInv, FrameTo, LocksKept, LocksAgree, FrameAgrees
  <1>13. JoinsAgree'
    BY <1>1, <1>5, <1>6, <1>7 DEF IInv, FrameTo, JoinsKept, JoinsAgree, FrameAgrees
  <1>14. RefsExact' BY <1>1, <1>5, <1>6, <1>7, RefsSame DEF IInv, FrameTo, Counted
  <1>15. UseIsListed'
    BY <1>1, <1>5, <1>6, <1>7 DEF IInv, FrameTo, RefsKept, UseIsListed, Users, FrameAgrees
  <1>16. NoLostWake'
    BY <1>1, <1>5, <1>6, <1>7 DEF IInv, FrameTo, MarksKept, NoLostWake, FrameAgrees
  <1> QED BY <1>8, <1>9, <1>10, <1>11, <1>12, <1>13, <1>14, <1>15, <1>16 DEF IInv

(* TryCollect gives the thread lock up. *)
LEMMA CollectUnlockOK ==
    ASSUME IInv, ~reused, NEW t \in Objects, CollectUnlock(t)
    PROVE  IInv'
  <1>0. PICK o : o = frame[t].obj OBVIOUS
  <1>1. o \in Objects /\ o = frame[t].obj /\ frame[t].pc = "tc_unlock" /\ thr[o].lock = t
    BY <1>0
       DEF CollectUnlock, Resume, IInv, TypeOK, Frames, Pthreads, FrameAgrees, LocksAgree,
           UseIsListed
  <1>2. CASE frame[t].call = "exit"
    <2>1. /\ frame' = [frame EXCEPT ![t].pc = "term"] /\ thr' = [thr EXCEPT ![o].lock = NULL]
          /\ list_lock' = list_lock /\ UNCHANGED <<places, once, calls, reused>>
      BY <1>1, <1>2 DEF CollectUnlock, Resume
    <2>2. frame' \in [Objects -> Frames]
      <3>1. t \in Objects /\ frame[t] \in Frames BY <1>1, <1>2 DEF IInv, TypeOK
      <3>2. [frame[t] EXCEPT !.pc = "term"] \in Frames
        BY ONLY <3>1, LifecycleAssumption DEF Frames, PCs, Calls
      <3> QED BY <1>1, <1>2, <3>1, <3>2, <2>1 DEF IInv, TypeOK
    <2>3. thr' \in [Objects -> Pthreads]
      <3>1. t \in Objects /\ thr[o] \in Pthreads /\ o \in Objects BY <1>1, <1>2 DEF IInv, TypeOK
      <3>2. [thr[o] EXCEPT !.lock = NULL] \in Pthreads
        BY ONLY <3>1, LifecycleAssumption DEF Pthreads
      <3> QED BY <1>1, <1>2, <3>1, <3>2, <2>1 DEF IInv, TypeOK
    <2>4. FrameTo(t, "term", frame[t].call, o, {})
      BY <1>1, <1>2, <2>1 DEF FrameTo, IInv, TypeOK, Frames, FrameAgrees
    <2>5. /\ (\A p \in Objects : thr'[p].lock = IF p = o THEN NULL ELSE thr[p].lock) /\ RefsKept
          /\ JoinsKept /\ MarksKept
      BY <1>1, <1>2, <2>1 DEF LocksKept, RefsKept, JoinsKept, MarksKept, IInv, TypeOK, Pthreads
    <2>6. list_lock' = list_lock /\ UNCHANGED <<places, once, calls, reused>> BY <2>1
    <2>7. TypeOK' BY <2>2, <2>3, <2>6 DEF IInv, TypeOK
    <2>8. OnePlace' BY <1>1, <1>2, <2>4, <2>5, <2>6, PlacesSame DEF IInv, FrameTo, FrameAgrees
    <2>9. OneInit' BY <1>1, <1>2, <2>4, <2>5, <2>6 DEF IInv, FrameTo, OneInit
    <2>10. FrameAgrees' BY <1>1, <1>2, <2>4, <2>5, <2>6 DEF IInv, FrameTo, FrameAgrees
    <2>11. LocksAgree'
      BY <1>1, <1>2, <2>4, <2>5, <2>6 DEF IInv, FrameTo, LocksKept, LocksAgree, FrameAgrees
    <2>12. JoinsAgree'
      BY <1>1, <1>2, <2>4, <2>5, <2>6 DEF IInv, FrameTo, JoinsKept, JoinsAgree, FrameAgrees
    <2>13. RefsExact' BY <1>1, <1>2, <2>4, <2>5, <2>6, RefsSame DEF IInv, FrameTo, Counted
    <2>14. UseIsListed'
      BY <1>1, <1>2, <2>4, <2>5, <2>6
         DEF IInv, FrameTo, RefsKept, UseIsListed, Users, FrameAgrees
    <2>15. NoLostWake'
      BY <1>1, <1>2, <2>4, <2>5, <2>6 DEF IInv, FrameTo, MarksKept, NoLostWake, FrameAgrees
    <2> QED BY <2>7, <2>8, <2>9, <2>10, <2>11, <2>12, <2>13, <2>14, <2>15 DEF IInv
  <1>3. CASE frame[t].call # "exit"
    <2>1. /\ frame' = [frame EXCEPT ![t] = Frame("run")] /\ thr' = [thr EXCEPT ![o].lock = NULL]
          /\ list_lock' = list_lock /\ UNCHANGED <<places, once, calls, reused>>
      BY <1>1, <1>3 DEF CollectUnlock, Resume
    <2>2. frame' \in [Objects -> Frames]
      <3>1. t \in Objects BY <1>1, <1>3 DEF IInv, TypeOK
      <3>2. Frame("run") \in Frames BY ONLY <3>1, LifecycleAssumption DEF Frames, PCs, Calls
      <3> QED BY <1>1, <1>3, <3>1, <3>2, <2>1 DEF IInv, TypeOK
    <2>3. thr' \in [Objects -> Pthreads]
      <3>1. t \in Objects /\ thr[o] \in Pthreads /\ o \in Objects BY <1>1, <1>3 DEF IInv, TypeOK
      <3>2. [thr[o] EXCEPT !.lock = NULL] \in Pthreads
        BY ONLY <3>1, LifecycleAssumption DEF Pthreads
      <3> QED BY <1>1, <1>3, <3>1, <3>2, <2>1 DEF IInv, TypeOK
    <2>4. FrameTo(t, "run", "none", NULL, {})
      BY <1>1, <1>3, <2>1 DEF FrameTo, IInv, TypeOK, Frames, FrameAgrees
    <2>5. /\ (\A p \in Objects : thr'[p].lock = IF p = o THEN NULL ELSE thr[p].lock) /\ RefsKept
          /\ JoinsKept /\ MarksKept
      BY <1>1, <1>3, <2>1 DEF LocksKept, RefsKept, JoinsKept, MarksKept, IInv, TypeOK, Pthreads
    <2>6. list_lock' = list_lock /\ UNCHANGED <<places, once, calls, reused>> BY <2>1
    <2>7. TypeOK' BY <2>2, <2>3, <2>6 DEF IInv, TypeOK
    <2>8. OnePlace' BY <1>1, <1>3, <2>4, <2>5, <2>6, PlacesSame DEF IInv, FrameTo, FrameAgrees
    <2>9. OneInit' BY <1>1, <1>3, <2>4, <2>5, <2>6 DEF IInv, FrameTo, OneInit
    <2>10. FrameAgrees' BY <1>1, <1>3, <2>4, <2>5, <2>6 DEF IInv, FrameTo, FrameAgrees
    <2>11. LocksAgree'
      BY <1>1, <1>3, <2>4, <2>5, <2>6 DEF IInv, FrameTo, LocksKept, LocksAgree, FrameAgrees
    <2>12. JoinsAgree'
      BY <1>1, <1>3, <2>4, <2>5, <2>6 DEF IInv, FrameTo, JoinsKept, JoinsAgree, FrameAgrees
    <2>13. RefsExact' BY <1>1, <1>3, <2>4, <2>5, <2>6, RefsSame DEF IInv, FrameTo, Counted
    <2>14. UseIsListed'
      BY <1>1, <1>3, <2>4, <2>5, <2>6
         DEF IInv, FrameTo, RefsKept, UseIsListed, Users, FrameAgrees
    <2>15. NoLostWake'
      BY <1>1, <1>3, <2>4, <2>5, <2>6 DEF IInv, FrameTo, MarksKept, NoLostWake, FrameAgrees
    <2> QED BY <2>7, <2>8, <2>9, <2>10, <2>11, <2>12, <2>13, <2>14, <2>15 DEF IInv
  <1> QED BY <1>1, <1>2, <1>3

(* A call that finds its thread in the wrong state returns. *)
LEMMA FindRefusedOK ==
    ASSUME IInv, ~reused, NEW t \in Objects, FindRefused(t)
    PROVE  IInv'
  <1>0. PICK o : o = frame[t].obj OBVIOUS
  <1>1. o \in Objects /\ o = frame[t].obj /\ frame[t].pc = "find" /\ list_lock = t
    BY <1>0
       DEF FindRefused, FoundBy, IInv, TypeOK, Frames, Pthreads, FrameAgrees, LocksAgree,
           UseIsListed
  <1>2. /\ frame' = [frame EXCEPT ![t] = Frame("run")] /\ thr' = thr /\ list_lock' = NULL
        /\ UNCHANGED <<places, once, calls, reused>>
    BY <1>1 DEF FindRefused, FoundBy
  <1>3. frame' \in [Objects -> Frames]
    <2>1. t \in Objects BY <1>1 DEF IInv, TypeOK
    <2>2. Frame("run") \in Frames BY ONLY <2>1, LifecycleAssumption DEF Frames, PCs, Calls
    <2> QED BY <1>1, <2>1, <2>2, <1>2 DEF IInv, TypeOK
  <1>4. thr' \in [Objects -> Pthreads] BY <1>2 DEF IInv, TypeOK
  <1>5. FrameTo(t, "run", "none", NULL, {})
    BY <1>1, <1>2 DEF FrameTo, IInv, TypeOK, Frames, FrameAgrees
  <1>6. LocksKept /\ RefsKept /\ JoinsKept /\ MarksKept
    BY <1>1, <1>2 DEF LocksKept, RefsKept, JoinsKept, MarksKept, IInv, TypeOK, Pthreads
  <1>7. list_lock' = NULL /\ UNCHANGED <<places, once, calls, reused>> BY <1>2
  <1>8. TypeOK' BY <1>3, <1>4, <1>7 DEF IInv, TypeOK
  <1>9. OnePlace' BY <1>1, <1>5, <1>6, <1>7, PlacesSame DEF IInv, FrameTo, FrameAgrees
  <1>10. OneInit' BY <1>1, <1>5, <1>6, <1>7 DEF IInv, FrameTo, OneInit
  <1>11. FrameAgrees' BY <1>1, <1>5, <1>6, <1>7 DEF IInv, FrameTo, FrameAgrees
  <1>12. LocksAgree'
    BY <1>1, <1>5, <1>6, <1>7 DEF IInv, FrameTo, LocksKept, LocksAgree, FrameAgrees
  <1>13. JoinsAgree'
    BY <1>1, <1>5, <1>6, <1>7 DEF IInv, FrameTo, JoinsKept, JoinsAgree, FrameAgrees
  <1>14. RefsExact' BY <1>1, <1>5, <1>6, <1>7, RefsSame DEF IInv, FrameTo, Counted
  <1>15. UseIsListed'
    BY <1>1, <1>5, <1>6, <1>7 DEF IInv, FrameTo, RefsKept, UseIsListed, Users, FrameAgrees
  <1>16. NoLostWake'
    BY <1>1, <1>5, <1>6, <1>7 DEF IInv, FrameTo, MarksKept, NoLostWake, FrameAgrees
  <1> QED BY <1>8, <1>9, <1>10, <1>11, <1>12, <1>13, <1>14, <1>15, <1>16 DEF IInv

(* FindThread: the object is listed when the list lock is taken. *)
LEMMA FindOK ==
    ASSUME IInv, ~reused, NEW t \in Objects, NEW o \in Objects,
           NEW c \in {"join", "timedjoin", "detach", "cancel", "ref"}, Find(t, o, c)
    PROVE  IInv'
  <1>1. frame[t].pc = "run" /\ o \in threads /\ list_lock = NULL /\ calls' \in 0 .. MaxCalls
    BY DEF Find, Call, IInv, TypeOK, Frames, Pthreads, FrameAgrees, LocksAgree, UseIsListed
  <1>2. /\ frame' = [frame EXCEPT ![t] = InCall("find", c, o)] /\ thr' = thr /\ list_lock' = t
        /\ UNCHANGED <<places, once, reused>>
    BY <1>1 DEF Find, Call
  <1>3. frame' \in [Objects -> Frames]
    <2>1. t \in Objects /\ o \in Objects BY <1>1 DEF IInv, TypeOK
    <2>2. InCall("find", c, o) \in Frames
      BY ONLY <2>1, LifecycleAssumption DEF Frames, PCs, Calls
    <2> QED BY <1>1, <2>1, <2>2, <1>2 DEF IInv, TypeOK
  <1>4. thr' \in [Objects -> Pthreads] BY <1>2 DEF IInv, TypeOK
  <1>5. FrameTo(t, "find", c, o, {})
    BY <1>1, <1>2 DEF FrameTo, IInv, TypeOK, Frames, FrameAgrees
  <1>6. LocksKept /\ RefsKept /\ JoinsKept /\ MarksKept
    BY <1>1, <1>2 DEF LocksKept, RefsKept, JoinsKept, MarksKept, IInv, TypeOK, Pthreads
  <1>7. list_lock' = t /\ UNCHANGED <<places, once, reused>> BY <1>2
  <1>8. TypeOK' BY <1>1, <1>3, <1>4, <1>7 DEF IInv, TypeOK
  <1>9. OnePlace' BY <1>1, <1>5, <1>6, <1>7, PlacesSame DEF IInv, FrameTo, FrameAgrees
  <1>10. OneInit' BY <1>1, <1>5, <1>6, <1>7 DEF IInv, FrameTo, OneInit
  <1>11. FrameAgrees' BY <1>1, <1>5, <1>6, <1>7 DEF IInv, FrameTo, FrameAgrees
  <1>12. LocksAgree'
    BY <1>1, <1>5, <1>6, <1>7 DEF IInv, FrameTo, LocksKept, LocksAgree, FrameAgrees
  <1>13. JoinsAgree'
    BY <1>1, <1>5, <1>6, <1>7 DEF IInv, FrameTo, JoinsKept, JoinsAgree, FrameAgrees
  <1>14. RefsExact' BY <1>1, <1>5, <1>6, <1>7, RefsSame DEF IInv, FrameTo, Counted
  <1>15. UseIsListed'
    BY <1>1, <1>5, <1>6, <1>7
       DEF IInv, FrameTo, RefsKept, UseIsListed, Users, FrameAgrees, OnePlace
  <1>16. NoLostWake'
    BY <1>1, <1>5, <1>6, <1>7 DEF IInv, FrameTo, MarksKept, NoLostWake, FrameAgrees
  <1> QED BY <1>8, <1>9, <1>10, <1>11, <1>12, <1>13, <1>14, <1>15, <1>16 DEF IInv

(* RefAdd: one more reference, and the count goes up with it. *)
LEMMA RefAddOK ==
    ASSUME IInv, ~reused, NEW t \in Objects, RefAdd(t)
    PROVE  IInv'
  <1>0. PICK o : o = frame[t].obj OBVIOUS
  <1>1. /\ o \in Objects /\ o = frame[t].obj /\ frame[t].pc = "find" /\ thr[o].lock = NULL
        /\ list_lock = t /\ o \in threads /\ thr[o].refcount \in Nat /\ thr[o].dead \in BOOLEAN
        /\ ~thr[o].dead /\ frame[t].call = "ref"
    BY <1>0
       DEF RefAdd, FoundBy, IInv, TypeOK, Frames, Pthreads, FrameAgrees, LocksAgree,
           UseIsListed
  <1>2. /\ frame' = [frame EXCEPT ![t].pc = "ref"] /\ thr' = [thr EXCEPT ![o].refcount = @ + 1]
        /\ list_lock' = NULL /\ UNCHANGED <<places, once, calls, reused>>
    BY <1>1 DEF RefAdd, FoundBy
  <1>3. frame' \in [Objects -> Frames]
    <2>1. t \in Objects /\ frame[t] \in Frames BY <1>1 DEF IInv, TypeOK
    <2>2. [frame[t] EXCEPT !.pc = "ref"] \in Frames
      BY ONLY <2>1, LifecycleAssumption DEF Frames, PCs, Calls
    <2> QED BY <1>1, <2>1, <2>2, <1>2 DEF IInv, TypeOK
  <1>4. thr' \in [Objects -> Pthreads]
    <2>1. t \in Objects /\ thr[o] \in Pthreads /\ thr[o].refcount + 1 \in Nat /\ o \in Objects
      BY <1>1 DEF IInv, TypeOK
    <2>2. [thr[o] EXCEPT !.refcount = @ + 1] \in Pthreads
      BY ONLY <2>1, LifecycleAssumption DEF Pthreads
    <2> QED BY <1>1, <2>1, <2>2, <1>2 DEF IInv, TypeOK
  <1>5. FrameTo(t, "ref", frame[t].call, o, {})
    BY <1>1, <1>2 DEF FrameTo, IInv, TypeOK, Frames, FrameAgrees
  <1>6. /\ LocksKept /\ JoinsKept /\ MarksKept
        /\ (\A p \in Objects : thr'[p].refcount = (IF p = o THEN thr[o].refcount + 1
               ELSE thr[p].refcount) /\ thr'[p].dead = thr[p].dead)
    <2>1. /\ thr'[o] = [thr[o] EXCEPT !.refcount = @ + 1]
          /\ \A p \in Objects : p # o => thr'[p] = thr[p]
      BY <1>1, <1>2 DEF IInv, TypeOK
    <2>2. thr[o] \in Pthreads BY <1>1 DEF IInv, TypeOK
    <2>3. /\ thr'[o].lock = thr[o].lock /\ thr'[o].refcount = thr[o].refcount + 1
          /\ thr'[o].dead = thr[o].dead /\ thr'[o].detached = thr[o].detached
          /\ thr'[o].joiner = thr[o].joiner /\ thr'[o].join_target = thr[o].join_target
          /\ thr'[o].terminated = thr[o].terminated
          /\ thr'[o].cancel_pending = thr[o].cancel_pending
      BY ONLY <2>1, <2>2 DEF Pthreads
    <2> QED BY <1>1, <2>1, <2>3 DEF LocksKept, RefsKept, JoinsKept, MarksKept
  <1>7. list_lock' = NULL /\ UNCHANGED <<places, once, calls, reused>> BY <1>2
  <1>8. TypeOK' BY <1>3, <1>4, <1>7 DEF IInv, TypeOK
  <1>9. OnePlace' BY <1>1, <1>5, <1>6, <1>7, PlacesSame DEF IInv, FrameTo, FrameAgrees
  <1>10. OneInit' BY <1>1, <1>5, <1>6, <1>7 DEF IInv, FrameTo, OneInit
  <1>11. FrameAgrees' BY <1>1, <1>5, <1>6, <1>7 DEF IInv, FrameTo, FrameAgrees
  <1>12. LocksAgree'
    BY <1>1, <1>5, <1>6, <1>7 DEF IInv, FrameTo, LocksKept, LocksAgree, FrameAgrees
  <1>13. JoinsAgree'
    BY <1>1, <1>5, <1>6, <1>7 DEF IInv, FrameTo, JoinsKept, JoinsAgree, FrameAgrees
  <1>14. RefsExact' BY <1>1, <1>5, <1>6, <1>7, RefsAdd DEF IInv, FrameTo, RefsKept, Counted
  <1>15. UseIsListed'
    BY <1>1, <1>5, <1>6, <1>7 DEF IInv, FrameTo, RefsKept, UseIsListed, Users, FrameAgrees
  <1>16. NoLostWake'
    BY <1>1, <1>5, <1>6, <1>7 DEF IInv, FrameTo, MarksKept, NoLostWake, FrameAgrees
  <1> QED BY <1>8, <1>9, <1>10, <1>11, <1>12, <1>13, <1>14, <1>15, <1>16 DEF IInv

(* RefDelete: the reference is given up, or becomes TryCollect's. *)
LEMMA RefDeleteOK ==
    ASSUME IInv, ~reused, NEW t \in Objects, RefDelete(t)
    PROVE  IInv'
  <1>0. PICK o : o = frame[t].obj OBVIOUS
  <1>1. /\ o \in Objects /\ o = frame[t].obj /\ frame[t].pc = "ref" /\ thr[o].lock = NULL
        /\ o \in threads /\ thr[o].dead \in BOOLEAN /\ frame[t].call # "exit"
        /\ thr[o].refcount \in Nat \ {0} /\ thr[o].refcount - 1 \in Nat
    <2>1. o \in Objects /\ o = frame[t].obj /\ frame[t].pc = "ref"
      BY <1>0 DEF RefDelete, IInv, FrameAgrees
    <2>2. thr[o].refcount \in Nat \ {0} /\ thr[o].refcount - 1 \in Nat
      BY <2>1, RefsPositive DEF Counted
    <2> QED
      BY <2>1, <2>2 DEF RefDelete, IInv, TypeOK, Frames, Pthreads, FrameAgrees, UseIsListed
  <1>2. CASE thr[o].refcount - 1 = 0 /\ thr[o].dead /\ thr[o].detached
    <2>1. /\ frame' = [frame EXCEPT ![t].pc = "tc_list", ![t].obj = o]
          /\ thr' = [thr EXCEPT ![o] = [[thr[o] EXCEPT !.refcount = @ - 1] EXCEPT !.refcount = 1]]
          /\ list_lock' = list_lock /\ UNCHANGED <<places, once, calls, reused>>
      BY <1>1, <1>2
         DEF RefDelete, TryCollect, ShouldCollect, Resume, IInv, TypeOK, Pthreads, Frames
    <2>2. frame' \in [Objects -> Frames]
      <3>1. t \in Objects /\ frame[t] \in Frames /\ o \in Objects BY <1>1, <1>2 DEF IInv, TypeOK
      <3>2. [frame[t] EXCEPT !.pc = "tc_list", !.obj = o] \in Frames
        BY ONLY <3>1, LifecycleAssumption DEF Frames, PCs, Calls
      <3>3. frame' = [frame EXCEPT ![t] = [frame[t] EXCEPT !.pc = "tc_list", !.obj = o]]
        BY <1>1, <1>2, <2>1 DEF IInv, TypeOK
      <3> QED BY <1>1, <1>2, <3>1, <3>2, <3>3 DEF IInv, TypeOK
    <2>3. thr' \in [Objects -> Pthreads]
      <3>1. t \in Objects /\ thr[o] \in Pthreads /\ thr[o].refcount - 1 \in Nat /\ o \in Objects
        BY <1>1, <1>2 DEF IInv, TypeOK
      <3>2. [[thr[o] EXCEPT !.refcount = @ - 1] EXCEPT !.refcount = 1] \in Pthreads
        BY ONLY <3>1, LifecycleAssumption DEF Pthreads
      <3> QED BY <1>1, <1>2, <3>1, <3>2, <2>1 DEF IInv, TypeOK
    <2>4. FrameTo(t, "tc_list", frame[t].call, o, {})
      BY <1>1, <1>2, <2>1 DEF FrameTo, IInv, TypeOK, Frames, FrameAgrees
    <2>5. LocksKept /\ RefsKept /\ JoinsKept /\ MarksKept
      <3>1. /\ thr'[o] = [[thr[o] EXCEPT !.refcount = @ - 1] EXCEPT !.refcount = 1]
            /\ \A p \in Objects : p # o => thr'[p] = thr[p]
        BY <1>1, <1>2, <2>1 DEF IInv, TypeOK
      <3>9. thr[o].refcount = 1 BY <1>1, <1>2
      <3>2. thr[o] \in Pthreads BY <1>1, <1>2 DEF IInv, TypeOK
      <3>3. /\ thr'[o].lock = thr[o].lock /\ thr'[o].refcount = 1 /\ thr'[o].dead = thr[o].dead
            /\ thr'[o].detached = thr[o].detached /\ thr'[o].joiner = thr[o].joiner
            /\ thr'[o].join_target = thr[o].join_target
            /\ thr'[o].terminated = thr[o].terminated
            /\ thr'[o].cancel_pending = thr[o].cancel_pending
        BY ONLY <3>1, <3>2 DEF Pthreads
      <3> QED BY <3>9, <3>1, <3>3 DEF LocksKept, RefsKept, JoinsKept, MarksKept
    <2>6. list_lock' = list_lock /\ UNCHANGED <<places, once, calls, reused>> BY <2>1
    <2>7. TypeOK' BY <2>2, <2>3, <2>6 DEF IInv, TypeOK
    <2>8. OnePlace' BY <1>1, <1>2, <2>4, <2>5, <2>6, PlacesSame DEF IInv, FrameTo, FrameAgrees
    <2>9. OneInit' BY <1>1, <1>2, <2>4, <2>5, <2>6 DEF IInv, FrameTo, OneInit
    <2>10. FrameAgrees' BY <1>1, <1>2, <2>4, <2>5, <2>6 DEF IInv, FrameTo, FrameAgrees
    <2>11. LocksAgree'
      BY <1>1, <1>2, <2>4, <2>5, <2>6 DEF IInv, FrameTo, LocksKept, LocksAgree, FrameAgrees
    <2>12. JoinsAgree'
      BY <1>1, <1>2, <2>4, <2>5, <2>6 DEF IInv, FrameTo, JoinsKept, JoinsAgree, FrameAgrees
    <2>13. RefsExact' BY <1>1, <1>2, <2>4, <2>5, <2>6, RefsSame DEF IInv, FrameTo, Counted
    <2>14. UseIsListed'
      BY <1>1, <1>2, <2>4, <2>5, <2>6
         DEF IInv, FrameTo, RefsKept, UseIsListed, Users, FrameAgrees
    <2>15. NoLostWake'
      BY <1>1, <1>2, <2>4, <2>5, <2>6 DEF IInv, FrameTo, MarksKept, NoLostWake, FrameAgrees
    <2> QED BY <2>7, <2>8, <2>9, <2>10, <2>11, <2>12, <2>13, <2>14, <2>15 DEF IInv
  <1>3. CASE ~(thr[o].refcount - 1 = 0 /\ thr[o].dead /\ thr[o].detached)
    <2>1. /\ frame' = [frame EXCEPT ![t] = Frame("run")]
          /\ thr' = [thr EXCEPT ![o] = [thr[o] EXCEPT !.refcount = @ - 1]]
          /\ list_lock' = list_lock /\ UNCHANGED <<places, once, calls, reused>>
      BY <1>1, <1>3
         DEF RefDelete, TryCollect, ShouldCollect, Resume, IInv, TypeOK, Pthreads, Frames
    <2>2. frame' \in [Objects -> Frames]
      <3>1. t \in Objects BY <1>1, <1>3 DEF IInv, TypeOK
      <3>2. Frame("run") \in Frames BY ONLY <3>1, LifecycleAssumption DEF Frames, PCs, Calls
      <3> QED BY <1>1, <1>3, <3>1, <3>2, <2>1 DEF IInv, TypeOK
    <2>3. thr' \in [Objects -> Pthreads]
      <3>1. t \in Objects /\ thr[o] \in Pthreads /\ thr[o].refcount - 1 \in Nat /\ o \in Objects
        BY <1>1, <1>3 DEF IInv, TypeOK
      <3>2. [thr[o] EXCEPT !.refcount = @ - 1] \in Pthreads
        BY ONLY <3>1, LifecycleAssumption DEF Pthreads
      <3> QED BY <1>1, <1>3, <3>1, <3>2, <2>1 DEF IInv, TypeOK
    <2>4. FrameTo(t, "run", "none", NULL, {})
      BY <1>1, <1>3, <2>1 DEF FrameTo, IInv, TypeOK, Frames, FrameAgrees
    <2>5. /\ LocksKept /\ JoinsKept /\ MarksKept
          /\ (\A p \in Objects : thr'[p].refcount = (IF p = o THEN thr[o].refcount - 1
                 ELSE thr[p].refcount) /\ thr'[p].dead = thr[p].dead)
      <3>1. /\ thr'[o] = [thr[o] EXCEPT !.refcount = @ - 1]
            /\ \A p \in Objects : p # o => thr'[p] = thr[p]
        BY <1>1, <1>3, <2>1 DEF IInv, TypeOK
      <3>2. thr[o] \in Pthreads BY <1>1, <1>3 DEF IInv, TypeOK
      <3>3. /\ thr'[o].lock = thr[o].lock /\ thr'[o].refcount = thr[o].refcount - 1
            /\ thr'[o].dead = thr[o].dead /\ thr'[o].detached = thr[o].detached
            /\ thr'[o].joiner = thr[o].joiner /\ thr'[o].join_target = thr[o].join_target
            /\ thr'[o].terminated = thr[o].terminated
            /\ thr'[o].cancel_pending = thr[o].cancel_pending
        BY ONLY <3>1, <3>2 DEF Pthreads
      <3> QED BY <1>1, <1>3, <3>1, <3>3 DEF LocksKept, RefsKept, JoinsKept, MarksKept
    <2>6. list_lock' = list_lock /\ UNCHANGED <<places, once, calls, reused>> BY <2>1
    <2>7. TypeOK' BY <2>2, <2>3, <2>6 DEF IInv, TypeOK
    <2>8. OnePlace' BY <1>1, <1>3, <2>4, <2>5, <2>6, PlacesSame DEF IInv, FrameTo, FrameAgrees
    <2>9. OneInit' BY <1>1, <1>3, <2>4, <2>5, <2>6 DEF IInv, FrameTo, OneInit
    <2>10. FrameAgrees' BY <1>1, <1>3, <2>4, <2>5, <2>6 DEF IInv, FrameTo, FrameAgrees
    <2>11. LocksAgree'
      BY <1>1, <1>3, <2>4, <2>5, <2>6 DEF IInv, FrameTo, LocksKept, LocksAgree, FrameAgrees
    <2>12. JoinsAgree'
      BY <1>1, <1>3, <2>4, <2>5, <2>6 DEF IInv, FrameTo, JoinsKept, JoinsAgree, FrameAgrees
    <2>13. RefsExact'
      BY <1>1, <1>3, <2>4, <2>5, <2>6, RefsDrop DEF IInv, FrameTo, RefsKept, Counted
    <2>14. UseIsListed'
      BY <1>1, <1>3, <2>4, <2>5, <2>6
         DEF IInv, FrameTo, RefsKept, UseIsListed, Users, FrameAgrees
    <2>15. NoLostWake'
      BY <1>1, <1>3, <2>4, <2>5, <2>6 DEF IInv, FrameTo, MarksKept, NoLostWake, FrameAgrees
    <2> QED BY <2>7, <2>8, <2>9, <2>10, <2>11, <2>12, <2>13, <2>14, <2>15 DEF IInv
  <1> QED BY <1>1, <1>2, <1>3

(* posix_pthread_detach of a thread nobody joins: it is collected, or will *)
(* be when it is dead and unreferenced.                                    *)
LEMMA DetachOK ==
    ASSUME IInv, ~reused, NEW t \in Objects, Detach(t)
    PROVE  IInv'
  <1>0. PICK o : o = frame[t].obj OBVIOUS
  <1>1. /\ o \in Objects /\ o = frame[t].obj /\ frame[t].pc = "find" /\ thr[o].lock = NULL
        /\ list_lock = t /\ o \in threads /\ thr[o].refcount \in Nat /\ thr[o].dead \in BOOLEAN
        /\ frame[t].call = "detach" /\ ~thr[o].detached /\ thr[o].joiner = NULL
    BY <1>0
       DEF Detach, TryCollect, ShouldCollect, Resume, FoundBy, Refused, IInv, TypeOK, Pthreads,
           Frames, IInv, TypeOK, Frames, Pthreads, FrameAgrees, LocksAgree, UseIsListed
  <1>2. CASE thr[o].refcount = 0 /\ thr[o].dead
    <2>1. /\ frame' = [frame EXCEPT ![t].pc = "tc_list", ![t].obj = o]
          /\ thr' = [thr EXCEPT ![o] = [[thr[o] EXCEPT !.detached = TRUE] EXCEPT !.refcount = 1]]
          /\ list_lock' = NULL /\ UNCHANGED <<places, once, calls, reused>>
      BY <1>1, <1>2
         DEF Detach, TryCollect, ShouldCollect, Resume, FoundBy, Refused, IInv, TypeOK,
             Pthreads, Frames
    <2>2. frame' \in [Objects -> Frames]
      <3>1. t \in Objects /\ frame[t] \in Frames /\ o \in Objects BY <1>1, <1>2 DEF IInv, TypeOK
      <3>2. [frame[t] EXCEPT !.pc = "tc_list", !.obj = o] \in Frames
        BY ONLY <3>1, LifecycleAssumption DEF Frames, PCs, Calls
      <3>3. frame' = [frame EXCEPT ![t] = [frame[t] EXCEPT !.pc = "tc_list", !.obj = o]]
        BY <1>1, <1>2, <2>1 DEF IInv, TypeOK
      <3> QED BY <1>1, <1>2, <3>1, <3>2, <3>3 DEF IInv, TypeOK
    <2>3. thr' \in [Objects -> Pthreads]
      <3>1. t \in Objects /\ thr[o] \in Pthreads /\ o \in Objects BY <1>1, <1>2 DEF IInv, TypeOK
      <3>2. [[thr[o] EXCEPT !.detached = TRUE] EXCEPT !.refcount = 1] \in Pthreads
        BY ONLY <3>1, LifecycleAssumption DEF Pthreads
      <3> QED BY <1>1, <1>2, <3>1, <3>2, <2>1 DEF IInv, TypeOK
    <2>4. FrameTo(t, "tc_list", frame[t].call, o, {})
      BY <1>1, <1>2, <2>1 DEF FrameTo, IInv, TypeOK, Frames, FrameAgrees
    <2>5. LocksKept /\ MarksKept /\ (\A p \in Objects : thr'[p].refcount = (IF p = o THEN 1
              ELSE thr[p].refcount) /\ thr'[p].dead = thr[p].dead)
        /\ (\A p \in Objects : (p # o => thr'[p].detached = thr[p].detached)
                                /\ thr'[p].joiner = thr[p].joiner
                                     /\ thr'[p].join_target = thr[p].join_target)
      <3>1. /\ thr'[o] = [[thr[o] EXCEPT !.detached = TRUE] EXCEPT !.refcount = 1]
            /\ \A p \in Objects : p # o => thr'[p] = thr[p]
        BY <1>1, <1>2, <2>1 DEF IInv, TypeOK
      <3>2. thr[o] \in Pthreads BY <1>1, <1>2 DEF IInv, TypeOK
      <3>3. /\ thr'[o].lock = thr[o].lock /\ thr'[o].refcount = 1 /\ thr'[o].dead = thr[o].dead
            /\ thr'[o].detached = TRUE /\ thr'[o].joiner = thr[o].joiner
            /\ thr'[o].join_target = thr[o].join_target
            /\ thr'[o].terminated = thr[o].terminated
            /\ thr'[o].cancel_pending = thr[o].cancel_pending
        BY ONLY <3>1, <3>2 DEF Pthreads
      <3> QED BY <1>1, <1>2, <3>1, <3>3 DEF LocksKept, RefsKept, JoinsKept, MarksKept
    <2>6. list_lock' = NULL /\ UNCHANGED <<places, once, calls, reused>> BY <2>1
    <2>7. TypeOK' BY <2>2, <2>3, <2>6 DEF IInv, TypeOK
    <2>8. OnePlace' BY <1>1, <1>2, <2>4, <2>5, <2>6, PlacesSame DEF IInv, FrameTo, FrameAgrees
    <2>9. OneInit' BY <1>1, <1>2, <2>4, <2>5, <2>6 DEF IInv, FrameTo, OneInit
    <2>10. FrameAgrees' BY <1>1, <1>2, <2>4, <2>5, <2>6 DEF IInv, FrameTo, FrameAgrees
    <2>11. LocksAgree'
      BY <1>1, <1>2, <2>4, <2>5, <2>6 DEF IInv, FrameTo, LocksKept, LocksAgree, FrameAgrees
    <2>12. JoinsAgree'
      <3>1. \A p \in Objects : (p # o => thr'[p].detached = thr[p].detached)
                 /\ thr'[p].joiner = thr[p].joiner /\ thr'[p].join_target = thr[p].join_target
        BY <2>5
      <3> QED BY <1>1, <1>2, <2>4, <3>1 DEF IInv, FrameTo, JoinsAgree, FrameAgrees
    <2>13. RefsExact'
      <3>1. thr'[o].refcount = thr[o].refcount + 1 /\ thr'[o].dead = thr[o].dead
        <4>1. thr[o].refcount + 1 = 1 BY <1>1, <1>2
        <4> QED BY <4>1, <1>1, <1>2, <2>5
      <3>2. \A p \in Objects : p # o => thr'[p].refcount = thr[p].refcount
                 /\ thr'[p].dead = thr[p].dead
        BY <2>5
      <3>3. RefsExact BY DEF IInv
      <3>4. thr[o].dead \in BOOLEAN /\ frame[t].pc \notin Counted BY <1>1, <1>2 DEF Counted
      <3>5. /\ frame'[t].pc \in Counted /\ frame'[t].obj = o
            /\ \A u \in Objects : u # t => frame'[u] = frame[u]
        BY <2>4 DEF FrameTo, Counted
      <3>6. t \in Objects /\ o \in Objects BY <1>1, <1>2
      <3> QED BY ONLY <3>1, <3>2, <3>3, <3>4, <3>5, <3>6, RefsAdd, LifecycleAssumption
    <2>14. UseIsListed'
      BY <1>1, <1>2, <2>4, <2>5, <2>6
         DEF IInv, FrameTo, RefsKept, UseIsListed, Users, FrameAgrees
    <2>15. NoLostWake'
      BY <1>1, <1>2, <2>4, <2>5, <2>6 DEF IInv, FrameTo, MarksKept, NoLostWake, FrameAgrees
    <2> QED BY <2>7, <2>8, <2>9, <2>10, <2>11, <2>12, <2>13, <2>14, <2>15 DEF IInv
  <1>3. CASE ~(thr[o].refcount = 0 /\ thr[o].dead)
    <2>1. /\ frame' = [frame EXCEPT ![t] = Frame("run")]
          /\ thr' = [thr EXCEPT ![o] = [thr[o] EXCEPT !.detached = TRUE]] /\ list_lock' = NULL
          /\ UNCHANGED <<places, once, calls, reused>>
      BY <1>1, <1>3
         DEF Detach, TryCollect, ShouldCollect, Resume, FoundBy, Refused, IInv, TypeOK,
             Pthreads, Frames
    <2>2. frame' \in [Objects -> Frames]
      <3>1. t \in Objects BY <1>1, <1>3 DEF IInv, TypeOK
      <3>2. Frame("run") \in Frames BY ONLY <3>1, LifecycleAssumption DEF Frames, PCs, Calls
      <3> QED BY <1>1, <1>3, <3>1, <3>2, <2>1 DEF IInv, TypeOK
    <2>3. thr' \in [Objects -> Pthreads]
      <3>1. t \in Objects /\ thr[o] \in Pthreads /\ o \in Objects BY <1>1, <1>3 DEF IInv, TypeOK
      <3>2. [thr[o] EXCEPT !.detached = TRUE] \in Pthreads
        BY ONLY <3>1, LifecycleAssumption DEF Pthreads
      <3> QED BY <1>1, <1>3, <3>1, <3>2, <2>1 DEF IInv, TypeOK
    <2>4. FrameTo(t, "run", "none", NULL, {})
      BY <1>1, <1>3, <2>1 DEF FrameTo, IInv, TypeOK, Frames, FrameAgrees
    <2>5. LocksKept /\ RefsKept /\ MarksKept
               /\ (\A p \in Objects : (p # o => thr'[p].detached = thr[p].detached)
                                /\ thr'[p].joiner = thr[p].joiner
                                     /\ thr'[p].join_target = thr[p].join_target)
      <3>1. /\ thr'[o] = [thr[o] EXCEPT !.detached = TRUE]
            /\ \A p \in Objects : p # o => thr'[p] = thr[p]
        BY <1>1, <1>3, <2>1 DEF IInv, TypeOK
      <3>2. thr[o] \in Pthreads BY <1>1, <1>3 DEF IInv, TypeOK
      <3>3. /\ thr'[o].lock = thr[o].lock /\ thr'[o].refcount = thr[o].refcount
            /\ thr'[o].dead = thr[o].dead /\ thr'[o].detached = TRUE
            /\ thr'[o].joiner = thr[o].joiner /\ thr'[o].join_target = thr[o].join_target
            /\ thr'[o].terminated = thr[o].terminated
            /\ thr'[o].cancel_pending = thr[o].cancel_pending
        BY ONLY <3>1, <3>2 DEF Pthreads
      <3> QED BY <1>1, <1>3, <3>1, <3>3 DEF LocksKept, RefsKept, JoinsKept, MarksKept
    <2>6. list_lock' = NULL /\ UNCHANGED <<places, once, calls, reused>> BY <2>1
    <2>7. TypeOK' BY <2>2, <2>3, <2>6 DEF IInv, TypeOK
    <2>8. OnePlace' BY <1>1, <1>3, <2>4, <2>5, <2>6, PlacesSame DEF IInv, FrameTo, FrameAgrees
    <2>9. OneInit' BY <1>1, <1>3, <2>4, <2>5, <2>6 DEF IInv, FrameTo, OneInit
    <2>10. FrameAgrees' BY <1>1, <1>3, <2>4, <2>5, <2>6 DEF IInv, FrameTo, FrameAgrees
    <2>11. LocksAgree'
      BY <1>1, <1>3, <2>4, <2>5, <2>6 DEF IInv, FrameTo, LocksKept, LocksAgree, FrameAgrees
    <2>12. JoinsAgree'
      BY <1>1, <1>3, <2>4, <2>5, <2>6 DEF IInv, FrameTo, JoinsKept, JoinsAgree, FrameAgrees
    <2>13. RefsExact' BY <1>1, <1>3, <2>4, <2>5, <2>6, RefsSame DEF IInv, FrameTo, Counted
    <2>14. UseIsListed'
      BY <1>1, <1>3, <2>4, <2>5, <2>6
         DEF IInv, FrameTo, RefsKept, UseIsListed, Users, FrameAgrees
    <2>15. NoLostWake'
      BY <1>1, <1>3, <2>4, <2>5, <2>6 DEF IInv, FrameTo, MarksKept, NoLostWake, FrameAgrees
    <2> QED BY <2>7, <2>8, <2>9, <2>10, <2>11, <2>12, <2>13, <2>14, <2>15 DEF IInv
  <1> QED BY <1>1, <1>2, <1>3

(* The joiner detaches the target, and is not its joiner any more. *)
LEMMA JoinReapOK ==
    ASSUME IInv, ~reused, NEW t \in Objects, JoinReap(t)
    PROVE  IInv'
  <1>0. PICK o : o = frame[t].obj OBVIOUS
  <1>1. /\ o \in Objects /\ o = frame[t].obj /\ frame[t].pc = "reap" /\ thr[o].lock = NULL
        /\ o \in threads /\ thr[o].refcount \in Nat /\ thr[o].dead \in BOOLEAN
        /\ frame[t].call # "exit"
    BY <1>0
       DEF JoinReap, TryCollect, ShouldCollect, Resume, IInv, TypeOK, Pthreads, Frames, IInv,
           TypeOK, Frames, Pthreads, FrameAgrees, LocksAgree, UseIsListed
  <1>2. CASE thr[o].refcount = 0 /\ thr[o].dead
    <2>1. /\ frame' = [frame EXCEPT ![t].pc = "tc_list", ![t].obj = o]
          /\ thr' = [thr EXCEPT ![o] = [[thr[o]
                 EXCEPT !.detached = TRUE, !.joiner = NULL] EXCEPT !.refcount = 1]]
          /\ list_lock' = list_lock /\ UNCHANGED <<places, once, calls, reused>>
      BY <1>1, <1>2
         DEF JoinReap, TryCollect, ShouldCollect, Resume, IInv, TypeOK, Pthreads, Frames
    <2>2. frame' \in [Objects -> Frames]
      <3>1. t \in Objects /\ frame[t] \in Frames /\ o \in Objects BY <1>1, <1>2 DEF IInv, TypeOK
      <3>2. [frame[t] EXCEPT !.pc = "tc_list", !.obj = o] \in Frames
        BY ONLY <3>1, LifecycleAssumption DEF Frames, PCs, Calls
      <3>3. frame' = [frame EXCEPT ![t] = [frame[t] EXCEPT !.pc = "tc_list", !.obj = o]]
        BY <1>1, <1>2, <2>1 DEF IInv, TypeOK
      <3> QED BY <1>1, <1>2, <3>1, <3>2, <3>3 DEF IInv, TypeOK
    <2>3. thr' \in [Objects -> Pthreads]
      <3>1. t \in Objects /\ thr[o] \in Pthreads /\ o \in Objects BY <1>1, <1>2 DEF IInv, TypeOK
      <3>2. [[thr[o] EXCEPT !.detached = TRUE, !.joiner = NULL] EXCEPT !.refcount = 1] \in Pthreads
        BY ONLY <3>1, LifecycleAssumption DEF Pthreads
      <3> QED BY <1>1, <1>2, <3>1, <3>2, <2>1 DEF IInv, TypeOK
    <2>4. FrameTo(t, "tc_list", frame[t].call, o, {})
      BY <1>1, <1>2, <2>1 DEF FrameTo, IInv, TypeOK, Frames, FrameAgrees
    <2>5. LocksKept /\ MarksKept /\ (\A p \in Objects : thr'[p].refcount = (IF p = o THEN 1
              ELSE thr[p].refcount) /\ thr'[p].dead = thr[p].dead)
        /\ thr'[o].joiner = NULL
        /\ (\A p \in Objects : (p # o => thr'[p].detached = thr[p].detached
                                       /\ thr'[p].joiner = thr[p].joiner)
                                /\ thr'[p].join_target = thr[p].join_target)
      <3>1. /\ thr'[o] = [[thr[o] EXCEPT !.detached = TRUE, !.joiner = NULL] EXCEPT !.refcount = 1]
            /\ \A p \in Objects : p # o => thr'[p] = thr[p]
        BY <1>1, <1>2, <2>1 DEF IInv, TypeOK
      <3>2. thr[o] \in Pthreads BY <1>1, <1>2 DEF IInv, TypeOK
      <3>3. /\ thr'[o].lock = thr[o].lock /\ thr'[o].refcount = 1 /\ thr'[o].dead = thr[o].dead
            /\ thr'[o].detached = TRUE /\ thr'[o].joiner = NULL
            /\ thr'[o].join_target = thr[o].join_target
            /\ thr'[o].terminated = thr[o].terminated
            /\ thr'[o].cancel_pending = thr[o].cancel_pending
        BY ONLY <3>1, <3>2 DEF Pthreads
      <3> QED BY <1>1, <1>2, <3>1, <3>3 DEF LocksKept, RefsKept, JoinsKept, MarksKept
    <2>6. list_lock' = list_lock /\ UNCHANGED <<places, once, calls, reused>> BY <2>1
    <2>7. TypeOK' BY <2>2, <2>3, <2>6 DEF IInv, TypeOK
    <2>8. OnePlace' BY <1>1, <1>2, <2>4, <2>5, <2>6, PlacesSame DEF IInv, FrameTo, FrameAgrees
    <2>9. OneInit' BY <1>1, <1>2, <2>4, <2>5, <2>6 DEF IInv, FrameTo, OneInit
    <2>10. FrameAgrees' BY <1>1, <1>2, <2>4, <2>5, <2>6 DEF IInv, FrameTo, FrameAgrees
    <2>11. LocksAgree'
      BY <1>1, <1>2, <2>4, <2>5, <2>6 DEF IInv, FrameTo, LocksKept, LocksAgree, FrameAgrees
    <2>12. JoinsAgree'
      BY <1>1, <1>2, <2>4, <2>5, <2>6 DEF IInv, FrameTo, JoinsKept, JoinsAgree, FrameAgrees
    <2>13. RefsExact'
      <3>1. thr'[o].refcount = thr[o].refcount + 1 /\ thr'[o].dead = thr[o].dead
        <4>1. thr[o].refcount + 1 = 1 BY <1>1, <1>2
        <4> QED BY <4>1, <1>1, <1>2, <2>5
      <3>2. \A p \in Objects : p # o => thr'[p].refcount = thr[p].refcount
                 /\ thr'[p].dead = thr[p].dead
        BY <2>5
      <3>3. RefsExact BY DEF IInv
      <3>4. thr[o].dead \in BOOLEAN /\ frame[t].pc \notin Counted BY <1>1, <1>2 DEF Counted
      <3>5. /\ frame'[t].pc \in Counted /\ frame'[t].obj = o
            /\ \A u \in Objects : u # t => frame'[u] = frame[u]
        BY <2>4 DEF FrameTo, Counted
      <3>6. t \in Objects /\ o \in Objects BY <1>1, <1>2
      <3> QED BY ONLY <3>1, <3>2, <3>3, <3>4, <3>5, <3>6, RefsAdd, LifecycleAssumption
    <2>14. UseIsListed'
      BY <1>1, <1>2, <2>4, <2>5, <2>6
         DEF IInv, FrameTo, RefsKept, UseIsListed, Users, FrameAgrees
    <2>15. NoLostWake'
      BY <1>1, <1>2, <2>4, <2>5, <2>6 DEF IInv, FrameTo, MarksKept, NoLostWake, FrameAgrees
    <2> QED BY <2>7, <2>8, <2>9, <2>10, <2>11, <2>12, <2>13, <2>14, <2>15 DEF IInv
  <1>3. CASE ~(thr[o].refcount = 0 /\ thr[o].dead)
    <2>1. /\ frame' = [frame EXCEPT ![t] = Frame("run")]
          /\ thr' = [thr EXCEPT ![o] = [thr[o] EXCEPT !.detached = TRUE, !.joiner = NULL]]
          /\ list_lock' = list_lock /\ UNCHANGED <<places, once, calls, reused>>
      BY <1>1, <1>3
         DEF JoinReap, TryCollect, ShouldCollect, Resume, IInv, TypeOK, Pthreads, Frames
    <2>2. frame' \in [Objects -> Frames]
      <3>1. t \in Objects BY <1>1, <1>3 DEF IInv, TypeOK
      <3>2. Frame("run") \in Frames BY ONLY <3>1, LifecycleAssumption DEF Frames, PCs, Calls
      <3> QED BY <1>1, <1>3, <3>1, <3>2, <2>1 DEF IInv, TypeOK
    <2>3. thr' \in [Objects -> Pthreads]
      <3>1. t \in Objects /\ thr[o] \in Pthreads /\ o \in Objects BY <1>1, <1>3 DEF IInv, TypeOK
      <3>2. [thr[o] EXCEPT !.detached = TRUE, !.joiner = NULL] \in Pthreads
        BY ONLY <3>1, LifecycleAssumption DEF Pthreads
      <3> QED BY <1>1, <1>3, <3>1, <3>2, <2>1 DEF IInv, TypeOK
    <2>4. FrameTo(t, "run", "none", NULL, {})
      BY <1>1, <1>3, <2>1 DEF FrameTo, IInv, TypeOK, Frames, FrameAgrees
    <2>5. LocksKept /\ RefsKept /\ MarksKept /\ thr'[o].joiner = NULL
               /\ (\A p \in Objects : (p # o => thr'[p].detached = thr[p].detached
                    /\ thr'[p].joiner = thr[p].joiner)
                                /\ thr'[p].join_target = thr[p].join_target)
      <3>1. /\ thr'[o] = [thr[o] EXCEPT !.detached = TRUE, !.joiner = NULL]
            /\ \A p \in Objects : p # o => thr'[p] = thr[p]
        BY <1>1, <1>3, <2>1 DEF IInv, TypeOK
      <3>2. thr[o] \in Pthreads BY <1>1, <1>3 DEF IInv, TypeOK
      <3>3. /\ thr'[o].lock = thr[o].lock /\ thr'[o].refcount = thr[o].refcount
            /\ thr'[o].dead = thr[o].dead /\ thr'[o].detached = TRUE /\ thr'[o].joiner = NULL
            /\ thr'[o].join_target = thr[o].join_target
            /\ thr'[o].terminated = thr[o].terminated
            /\ thr'[o].cancel_pending = thr[o].cancel_pending
        BY ONLY <3>1, <3>2 DEF Pthreads
      <3> QED BY <1>1, <1>3, <3>1, <3>3 DEF LocksKept, RefsKept, JoinsKept, MarksKept
    <2>6. list_lock' = list_lock /\ UNCHANGED <<places, once, calls, reused>> BY <2>1
    <2>7. TypeOK' BY <2>2, <2>3, <2>6 DEF IInv, TypeOK
    <2>8. OnePlace' BY <1>1, <1>3, <2>4, <2>5, <2>6, PlacesSame DEF IInv, FrameTo, FrameAgrees
    <2>9. OneInit' BY <1>1, <1>3, <2>4, <2>5, <2>6 DEF IInv, FrameTo, OneInit
    <2>10. FrameAgrees' BY <1>1, <1>3, <2>4, <2>5, <2>6 DEF IInv, FrameTo, FrameAgrees
    <2>11. LocksAgree'
      BY <1>1, <1>3, <2>4, <2>5, <2>6 DEF IInv, FrameTo, LocksKept, LocksAgree, FrameAgrees
    <2>12. JoinsAgree'
      BY <1>1, <1>3, <2>4, <2>5, <2>6 DEF IInv, FrameTo, JoinsKept, JoinsAgree, FrameAgrees
    <2>13. RefsExact' BY <1>1, <1>3, <2>4, <2>5, <2>6, RefsSame DEF IInv, FrameTo, Counted
    <2>14. UseIsListed'
      BY <1>1, <1>3, <2>4, <2>5, <2>6
         DEF IInv, FrameTo, RefsKept, UseIsListed, Users, FrameAgrees
    <2>15. NoLostWake'
      BY <1>1, <1>3, <2>4, <2>5, <2>6 DEF IInv, FrameTo, MarksKept, NoLostWake, FrameAgrees
    <2> QED BY <2>7, <2>8, <2>9, <2>10, <2>11, <2>12, <2>13, <2>14, <2>15 DEF IInv
  <1> QED BY <1>1, <1>2, <1>3

(* ExitThread: the thread's own reference goes as dead is set. *)
LEMMA ExitThreadOK ==
    ASSUME IInv, ~reused, NEW t \in Objects, ExitThread(t)
    PROVE  IInv'
  <1>1. /\ frame[t].pc = "exit" /\ frame[t].obj = t /\ frame[t].call = "exit" /\ t \in threads
        /\ thr[t].dead = FALSE /\ thr[t].lock = NULL /\ thr[t].refcount \in Nat \ {0}
        /\ thr[t].refcount - 1 \in Nat
    <2>1. frame[t].pc = "exit" /\ thr[t].dead = FALSE
      BY DEF ExitThread, IInv, UseIsListed, TypeOK, Pthreads
    <2>2. thr[t].refcount \in Nat \ {0} /\ thr[t].refcount - 1 \in Nat BY <2>1, OwnReference
    <2> QED
      BY <2>1, <2>2 DEF ExitThread, IInv, TypeOK, Frames, Pthreads, FrameAgrees, UseIsListed
  <1>2. CASE thr[t].refcount - 1 = 0 /\ thr[t].detached
    <2>1. /\ frame' = [frame EXCEPT ![t].pc = "tc_list", ![t].obj = t]
          /\ thr' = [thr EXCEPT ![t] = [[thr[t] EXCEPT !.dead = TRUE, !.refcount = @ - 1]
                 EXCEPT !.refcount = 1]]
          /\ list_lock' = list_lock /\ UNCHANGED <<places, once, calls, reused>>
      BY <1>1, <1>2
         DEF ExitThread, TryCollect, ShouldCollect, Resume, IInv, TypeOK, Pthreads, Frames
    <2>2. frame' \in [Objects -> Frames]
      <3>1. t \in Objects /\ frame[t] \in Frames BY <1>1, <1>2 DEF IInv, TypeOK
      <3>2. [frame[t] EXCEPT !.pc = "tc_list", !.obj = t] \in Frames
        BY ONLY <3>1, LifecycleAssumption DEF Frames, PCs, Calls
      <3>3. frame' = [frame EXCEPT ![t] = [frame[t] EXCEPT !.pc = "tc_list", !.obj = t]]
        BY <1>1, <1>2, <2>1 DEF IInv, TypeOK
      <3> QED BY <1>1, <1>2, <3>1, <3>2, <3>3 DEF IInv, TypeOK
    <2>3. thr' \in [Objects -> Pthreads]
      <3>1. t \in Objects /\ thr[t] \in Pthreads /\ thr[t].refcount - 1 \in Nat
        BY <1>1, <1>2 DEF IInv, TypeOK
      <3>2. [[thr[t] EXCEPT !.dead = TRUE, !.refcount = @ - 1] EXCEPT !.refcount = 1] \in Pthreads
        BY ONLY <3>1, LifecycleAssumption DEF Pthreads
      <3> QED BY <1>1, <1>2, <3>1, <3>2, <2>1 DEF IInv, TypeOK
    <2>4. FrameTo(t, "tc_list", "exit", t, {})
      BY <1>1, <1>2, <2>1 DEF FrameTo, IInv, TypeOK, Frames, FrameAgrees
    <2>5. LocksKept /\ JoinsKept /\ MarksKept
               /\ (\A p \in Objects : p # t => thr'[p].refcount = thr[p].refcount
                    /\ thr'[p].dead = thr[p].dead)
          /\ thr'[t].refcount = 1 /\ thr'[t].dead = TRUE
      <3>1. /\ thr'[t] = [[thr[t] EXCEPT !.dead = TRUE, !.refcount = @ - 1] EXCEPT !.refcount = 1]
            /\ \A p \in Objects : p # t => thr'[p] = thr[p]
        BY <1>1, <1>2, <2>1 DEF IInv, TypeOK
      <3>2. thr[t] \in Pthreads BY <1>1, <1>2 DEF IInv, TypeOK
      <3>3. /\ thr'[t].lock = thr[t].lock /\ thr'[t].refcount = 1 /\ thr'[t].dead = TRUE
            /\ thr'[t].detached = thr[t].detached /\ thr'[t].joiner = thr[t].joiner
            /\ thr'[t].join_target = thr[t].join_target
            /\ thr'[t].terminated = thr[t].terminated
            /\ thr'[t].cancel_pending = thr[t].cancel_pending
        BY ONLY <3>1, <3>2 DEF Pthreads
      <3> QED BY <1>1, <1>2, <3>1, <3>3 DEF LocksKept, RefsKept, JoinsKept, MarksKept
    <2>6. list_lock' = list_lock /\ UNCHANGED <<places, once, calls, reused>> BY <2>1
    <2>7. TypeOK' BY <2>2, <2>3, <2>6 DEF IInv, TypeOK
    <2>8. OnePlace' BY <1>1, <1>2, <2>4, <2>5, <2>6, PlacesSame DEF IInv, FrameTo, FrameAgrees
    <2>9. OneInit' BY <1>1, <1>2, <2>4, <2>5, <2>6 DEF IInv, FrameTo, OneInit
    <2>10. FrameAgrees' BY <1>1, <1>2, <2>4, <2>5, <2>6 DEF IInv, FrameTo, FrameAgrees
    <2>11. LocksAgree'
      BY <1>1, <1>2, <2>4, <2>5, <2>6 DEF IInv, FrameTo, LocksKept, LocksAgree, FrameAgrees
    <2>12. JoinsAgree'
      BY <1>1, <1>2, <2>4, <2>5, <2>6 DEF IInv, FrameTo, JoinsKept, JoinsAgree, FrameAgrees
    <2>13. RefsExact'
      <3>1. thr'[t].refcount = thr[t].refcount /\ ~thr[t].dead /\ thr'[t].dead
        <4>1. thr[t].refcount = 1 BY <1>1, <1>2
        <4> QED BY <4>1, <1>1, <1>2, <2>5
      <3>2. \A p \in Objects : p # t => thr'[p].refcount = thr[p].refcount
                 /\ thr'[p].dead = thr[p].dead
        BY <2>5
      <3>3. RefsExact BY DEF IInv
      <3>4. thr[t].dead \in BOOLEAN /\ frame[t].pc \notin Counted BY <1>1, <1>2 DEF Counted
      <3>5. /\ frame'[t].pc \in Counted /\ frame'[t].obj = t
            /\ \A u \in Objects : u # t => frame'[u] = frame[u]
        BY <2>4 DEF FrameTo, Counted
      <3>6. t \in Objects /\ t \in Objects BY <1>1, <1>2
      <3> QED BY ONLY <3>1, <3>2, <3>3, <3>4, <3>5, <3>6, RefsAdd, LifecycleAssumption
    <2>14. UseIsListed'
      BY <1>1, <1>2, <2>4, <2>5, <2>6
         DEF IInv, FrameTo, RefsKept, UseIsListed, Users, FrameAgrees
    <2>15. NoLostWake'
      BY <1>1, <1>2, <2>4, <2>5, <2>6 DEF IInv, FrameTo, MarksKept, NoLostWake, FrameAgrees
    <2> QED BY <2>7, <2>8, <2>9, <2>10, <2>11, <2>12, <2>13, <2>14, <2>15 DEF IInv
  <1>3. CASE ~(thr[t].refcount - 1 = 0 /\ thr[t].detached)
    <2>1. /\ frame' = [frame EXCEPT ![t].pc = "term"]
          /\ thr' = [thr EXCEPT ![t] = [thr[t] EXCEPT !.dead = TRUE, !.refcount = @ - 1]]
          /\ list_lock' = list_lock /\ UNCHANGED <<places, once, calls, reused>>
      BY <1>1, <1>3
         DEF ExitThread, TryCollect, ShouldCollect, Resume, IInv, TypeOK, Pthreads, Frames
    <2>2. frame' \in [Objects -> Frames]
      <3>1. t \in Objects /\ frame[t] \in Frames BY <1>1, <1>3 DEF IInv, TypeOK
      <3>2. [frame[t] EXCEPT !.pc = "term"] \in Frames
        BY ONLY <3>1, LifecycleAssumption DEF Frames, PCs, Calls
      <3> QED BY <1>1, <1>3, <3>1, <3>2, <2>1 DEF IInv, TypeOK
    <2>3. thr' \in [Objects -> Pthreads]
      <3>1. t \in Objects /\ thr[t] \in Pthreads /\ thr[t].refcount - 1 \in Nat
        BY <1>1, <1>3 DEF IInv, TypeOK
      <3>2. [thr[t] EXCEPT !.dead = TRUE, !.refcount = @ - 1] \in Pthreads
        BY ONLY <3>1, LifecycleAssumption DEF Pthreads
      <3> QED BY <1>1, <1>3, <3>1, <3>2, <2>1 DEF IInv, TypeOK
    <2>4. FrameTo(t, "term", "exit", t, {})
      BY <1>1, <1>3, <2>1 DEF FrameTo, IInv, TypeOK, Frames, FrameAgrees
    <2>5. LocksKept /\ JoinsKept /\ MarksKept
               /\ (\A p \in Objects : p # t => thr'[p].refcount = thr[p].refcount
                    /\ thr'[p].dead = thr[p].dead)
          /\ thr'[t].refcount = thr[t].refcount - 1 /\ thr'[t].dead = TRUE
      <3>1. /\ thr'[t] = [thr[t] EXCEPT !.dead = TRUE, !.refcount = @ - 1]
            /\ \A p \in Objects : p # t => thr'[p] = thr[p]
        BY <1>1, <1>3, <2>1 DEF IInv, TypeOK
      <3>2. thr[t] \in Pthreads BY <1>1, <1>3 DEF IInv, TypeOK
      <3>3. /\ thr'[t].lock = thr[t].lock /\ thr'[t].refcount = thr[t].refcount - 1
            /\ thr'[t].dead = TRUE /\ thr'[t].detached = thr[t].detached
            /\ thr'[t].joiner = thr[t].joiner /\ thr'[t].join_target = thr[t].join_target
            /\ thr'[t].terminated = thr[t].terminated
            /\ thr'[t].cancel_pending = thr[t].cancel_pending
        BY ONLY <3>1, <3>2 DEF Pthreads
      <3> QED BY <1>1, <1>3, <3>1, <3>3 DEF LocksKept, RefsKept, JoinsKept, MarksKept
    <2>6. list_lock' = list_lock /\ UNCHANGED <<places, once, calls, reused>> BY <2>1
    <2>7. TypeOK' BY <2>2, <2>3, <2>6 DEF IInv, TypeOK
    <2>8. OnePlace' BY <1>1, <1>3, <2>4, <2>5, <2>6, PlacesSame DEF IInv, FrameTo, FrameAgrees
    <2>9. OneInit' BY <1>1, <1>3, <2>4, <2>5, <2>6 DEF IInv, FrameTo, OneInit
    <2>10. FrameAgrees' BY <1>1, <1>3, <2>4, <2>5, <2>6 DEF IInv, FrameTo, FrameAgrees
    <2>11. LocksAgree'
      BY <1>1, <1>3, <2>4, <2>5, <2>6 DEF IInv, FrameTo, LocksKept, LocksAgree, FrameAgrees
    <2>12. JoinsAgree'
      BY <1>1, <1>3, <2>4, <2>5, <2>6 DEF IInv, FrameTo, JoinsKept, JoinsAgree, FrameAgrees
    <2>13. RefsExact'
      BY <1>1, <1>3, <2>4, <2>5, <2>6, RefsDie DEF IInv, FrameTo, RefsKept, Counted
    <2>14. UseIsListed'
      BY <1>1, <1>3, <2>4, <2>5, <2>6
         DEF IInv, FrameTo, RefsKept, UseIsListed, Users, FrameAgrees
    <2>15. NoLostWake'
      BY <1>1, <1>3, <2>4, <2>5, <2>6 DEF IInv, FrameTo, MarksKept, NoLostWake, FrameAgrees
    <2> QED BY <2>7, <2>8, <2>9, <2>10, <2>11, <2>12, <2>13, <2>14, <2>15 DEF IInv
  <1> QED BY <1>1, <1>2, <1>3

(* posix_pthread_once looks at the word: the first one runs init_routine. *)
LEMMA OnceEnterOK ==
    ASSUME IInv, ~reused, NEW t \in Objects, frame[t].pc \in {"run", "once"},
        calls' \in 0 .. MaxCalls,
           OnceEnter(t)
    PROVE  IInv'
  <1>1. frame[t].pc \in {"run", "once"} /\ calls' \in 0 .. MaxCalls
    BY DEF OnceEnter, IInv, TypeOK, Frames, Pthreads, FrameAgrees, LocksAgree, UseIsListed
  <1>2. CASE once = "Done"
    <2>1. /\ frame' = [frame EXCEPT ![t] = Frame("run")] /\ thr' = thr /\ list_lock' = list_lock
          /\ once' = once /\ UNCHANGED <<places, reused>>
      BY <1>1, <1>2 DEF OnceEnter
    <2>2. frame' \in [Objects -> Frames]
      <3>1. t \in Objects BY <1>1, <1>2 DEF IInv, TypeOK
      <3>2. Frame("run") \in Frames BY ONLY <3>1, LifecycleAssumption DEF Frames, PCs, Calls
      <3> QED BY <1>1, <1>2, <3>1, <3>2, <2>1 DEF IInv, TypeOK
    <2>3. thr' \in [Objects -> Pthreads] BY <2>1 DEF IInv, TypeOK
    <2>4. FrameTo(t, "run", "none", NULL, {})
      BY <1>1, <1>2, <2>1 DEF FrameTo, IInv, TypeOK, Frames, FrameAgrees
    <2>5. LocksKept /\ RefsKept /\ JoinsKept /\ MarksKept
      BY <1>1, <1>2, <2>1 DEF LocksKept, RefsKept, JoinsKept, MarksKept, IInv, TypeOK, Pthreads
    <2>6. list_lock' = list_lock /\ once' = once /\ UNCHANGED <<places, reused>> BY <2>1
    <2>7. TypeOK' BY <1>1, <1>2, <2>2, <2>3, <2>6 DEF IInv, TypeOK
    <2>8. OnePlace' BY <1>1, <1>2, <2>4, <2>5, <2>6, PlacesSame DEF IInv, FrameTo, FrameAgrees
    <2>9. OneInit' BY <1>1, <1>2, <2>4, <2>5, <2>6 DEF IInv, FrameTo, OneInit
    <2>10. FrameAgrees' BY <1>1, <1>2, <2>4, <2>5, <2>6 DEF IInv, FrameTo, FrameAgrees
    <2>11. LocksAgree'
      BY <1>1, <1>2, <2>4, <2>5, <2>6 DEF IInv, FrameTo, LocksKept, LocksAgree, FrameAgrees
    <2>12. JoinsAgree'
      BY <1>1, <1>2, <2>4, <2>5, <2>6 DEF IInv, FrameTo, JoinsKept, JoinsAgree, FrameAgrees
    <2>13. RefsExact' BY <1>1, <1>2, <2>4, <2>5, <2>6, RefsSame DEF IInv, FrameTo, Counted
    <2>14. UseIsListed'
      BY <1>1, <1>2, <2>4, <2>5, <2>6
         DEF IInv, FrameTo, RefsKept, UseIsListed, Users, FrameAgrees
    <2>15. NoLostWake'
      BY <1>1, <1>2, <2>4, <2>5, <2>6 DEF IInv, FrameTo, MarksKept, NoLostWake, FrameAgrees
    <2> QED BY <2>7, <2>8, <2>9, <2>10, <2>11, <2>12, <2>13, <2>14, <2>15 DEF IInv
  <1>3. CASE once = "NeverDone"
    <2>1. /\ frame' = [frame EXCEPT ![t].pc = "init"] /\ thr' = thr /\ list_lock' = list_lock
          /\ once' = "InProgress" /\ UNCHANGED <<places, reused>>
      BY <1>1, <1>3 DEF OnceEnter
    <2>2. frame' \in [Objects -> Frames]
      <3>1. t \in Objects /\ frame[t] \in Frames BY <1>1, <1>3 DEF IInv, TypeOK
      <3>2. [frame[t] EXCEPT !.pc = "init"] \in Frames
        BY ONLY <3>1, LifecycleAssumption DEF Frames, PCs, Calls
      <3> QED BY <1>1, <1>3, <3>1, <3>2, <2>1 DEF IInv, TypeOK
    <2>3. thr' \in [Objects -> Pthreads] BY <2>1 DEF IInv, TypeOK
    <2>4. FrameTo(t, "init", "none", NULL, {})
      BY <1>1, <1>3, <2>1 DEF FrameTo, IInv, TypeOK, Frames, FrameAgrees
    <2>5. LocksKept /\ RefsKept /\ JoinsKept /\ MarksKept
      BY <1>1, <1>3, <2>1 DEF LocksKept, RefsKept, JoinsKept, MarksKept, IInv, TypeOK, Pthreads
    <2>6. list_lock' = list_lock /\ once' = "InProgress" /\ UNCHANGED <<places, reused>> BY <2>1
    <2>7. TypeOK' BY <1>1, <1>3, <2>2, <2>3, <2>6 DEF IInv, TypeOK
    <2>8. OnePlace' BY <1>1, <1>3, <2>4, <2>5, <2>6, PlacesSame DEF IInv, FrameTo, FrameAgrees
    <2>9. OneInit' BY <1>1, <1>3, <2>4, <2>5, <2>6 DEF IInv, FrameTo, OneInit
    <2>10. FrameAgrees' BY <1>1, <1>3, <2>4, <2>5, <2>6 DEF IInv, FrameTo, FrameAgrees
    <2>11. LocksAgree'
      BY <1>1, <1>3, <2>4, <2>5, <2>6 DEF IInv, FrameTo, LocksKept, LocksAgree, FrameAgrees
    <2>12. JoinsAgree'
      BY <1>1, <1>3, <2>4, <2>5, <2>6 DEF IInv, FrameTo, JoinsKept, JoinsAgree, FrameAgrees
    <2>13. RefsExact' BY <1>1, <1>3, <2>4, <2>5, <2>6, RefsSame DEF IInv, FrameTo, Counted
    <2>14. UseIsListed'
      BY <1>1, <1>3, <2>4, <2>5, <2>6
         DEF IInv, FrameTo, RefsKept, UseIsListed, Users, FrameAgrees
    <2>15. NoLostWake'
      BY <1>1, <1>3, <2>4, <2>5, <2>6 DEF IInv, FrameTo, MarksKept, NoLostWake, FrameAgrees
    <2> QED BY <2>7, <2>8, <2>9, <2>10, <2>11, <2>12, <2>13, <2>14, <2>15 DEF IInv
  <1>4. CASE once \in {"InProgress", "Wait"}
    <2>1. /\ frame' = [frame EXCEPT ![t].pc = "owait"] /\ thr' = thr /\ list_lock' = list_lock
          /\ once' = "Wait" /\ UNCHANGED <<places, reused>>
      BY <1>1, <1>4 DEF OnceEnter
    <2>2. frame' \in [Objects -> Frames]
      <3>1. t \in Objects /\ frame[t] \in Frames BY <1>1, <1>4 DEF IInv, TypeOK
      <3>2. [frame[t] EXCEPT !.pc = "owait"] \in Frames
        BY ONLY <3>1, LifecycleAssumption DEF Frames, PCs, Calls
      <3> QED BY <1>1, <1>4, <3>1, <3>2, <2>1 DEF IInv, TypeOK
    <2>3. thr' \in [Objects -> Pthreads] BY <2>1 DEF IInv, TypeOK
    <2>4. FrameTo(t, "owait", "none", NULL, {})
      BY <1>1, <1>4, <2>1 DEF FrameTo, IInv, TypeOK, Frames, FrameAgrees
    <2>5. LocksKept /\ RefsKept /\ JoinsKept /\ MarksKept
      BY <1>1, <1>4, <2>1 DEF LocksKept, RefsKept, JoinsKept, MarksKept, IInv, TypeOK, Pthreads
    <2>6. list_lock' = list_lock /\ once' = "Wait" /\ UNCHANGED <<places, reused>> BY <2>1
    <2>7. TypeOK' BY <1>1, <1>4, <2>2, <2>3, <2>6 DEF IInv, TypeOK
    <2>8. OnePlace' BY <1>1, <1>4, <2>4, <2>5, <2>6, PlacesSame DEF IInv, FrameTo, FrameAgrees
    <2>9. OneInit' BY <1>1, <1>4, <2>4, <2>5, <2>6 DEF IInv, FrameTo, OneInit
    <2>10. FrameAgrees' BY <1>1, <1>4, <2>4, <2>5, <2>6 DEF IInv, FrameTo, FrameAgrees
    <2>11. LocksAgree'
      BY <1>1, <1>4, <2>4, <2>5, <2>6 DEF IInv, FrameTo, LocksKept, LocksAgree, FrameAgrees
    <2>12. JoinsAgree'
      BY <1>1, <1>4, <2>4, <2>5, <2>6 DEF IInv, FrameTo, JoinsKept, JoinsAgree, FrameAgrees
    <2>13. RefsExact' BY <1>1, <1>4, <2>4, <2>5, <2>6, RefsSame DEF IInv, FrameTo, Counted
    <2>14. UseIsListed'
      BY <1>1, <1>4, <2>4, <2>5, <2>6
         DEF IInv, FrameTo, RefsKept, UseIsListed, Users, FrameAgrees
    <2>15. NoLostWake'
      BY <1>1, <1>4, <2>4, <2>5, <2>6 DEF IInv, FrameTo, MarksKept, NoLostWake, FrameAgrees
    <2> QED BY <2>7, <2>8, <2>9, <2>10, <2>11, <2>12, <2>13, <2>14, <2>15 DEF IInv
  <1> QED BY <1>2, <1>3, <1>4 DEF IInv, TypeOK

(* The wait on the word: a thread blocks only while the word is Wait, and  *)
(* then the one in init_routine will notify it.                            *)
LEMMA OnceWaitOK ==
    ASSUME IInv, ~reused, NEW t \in Objects, OnceWait(t)
    PROVE  IInv'
  <1>1. frame[t].pc = "owait"
    BY DEF OnceWait, IInv, TypeOK, Frames, Pthreads, FrameAgrees, LocksAgree, UseIsListed
  <1>2. CASE once = "Wait"
    <2>1. /\ frame' = [frame EXCEPT ![t].pc = "oblocked"] /\ thr' = thr
          /\ list_lock' = list_lock /\ UNCHANGED <<places, once, calls, reused>>
      BY <1>1, <1>2 DEF OnceWait
    <2>2. frame' \in [Objects -> Frames]
      <3>1. t \in Objects /\ frame[t] \in Frames BY <1>1, <1>2 DEF IInv, TypeOK
      <3>2. [frame[t] EXCEPT !.pc = "oblocked"] \in Frames
        BY ONLY <3>1, LifecycleAssumption DEF Frames, PCs, Calls
      <3> QED BY <1>1, <1>2, <3>1, <3>2, <2>1 DEF IInv, TypeOK
    <2>3. thr' \in [Objects -> Pthreads] BY <2>1 DEF IInv, TypeOK
    <2>4. FrameTo(t, "oblocked", "none", NULL, {})
      BY <1>1, <1>2, <2>1 DEF FrameTo, IInv, TypeOK, Frames, FrameAgrees
    <2>5. LocksKept /\ RefsKept /\ JoinsKept /\ MarksKept
      BY <1>1, <1>2, <2>1 DEF LocksKept, RefsKept, JoinsKept, MarksKept, IInv, TypeOK, Pthreads
    <2>6. list_lock' = list_lock /\ UNCHANGED <<places, once, calls, reused>> BY <2>1
    <2>7. TypeOK' BY <2>2, <2>3, <2>6 DEF IInv, TypeOK
    <2>8. OnePlace' BY <1>1, <1>2, <2>4, <2>5, <2>6, PlacesSame DEF IInv, FrameTo, FrameAgrees
    <2>9. OneInit' BY <1>1, <1>2, <2>4, <2>5, <2>6 DEF IInv, FrameTo, OneInit
    <2>10. FrameAgrees' BY <1>1, <1>2, <2>4, <2>5, <2>6 DEF IInv, FrameTo, FrameAgrees
    <2>11. LocksAgree'
      BY <1>1, <1>2, <2>4, <2>5, <2>6 DEF IInv, FrameTo, LocksKept, LocksAgree, FrameAgrees
    <2>12. JoinsAgree'
      BY <1>1, <1>2, <2>4, <2>5, <2>6 DEF IInv, FrameTo, JoinsKept, JoinsAgree, FrameAgrees
    <2>13. RefsExact' BY <1>1, <1>2, <2>4, <2>5, <2>6, RefsSame DEF IInv, FrameTo, Counted
    <2>14. UseIsListed'
      BY <1>1, <1>2, <2>4, <2>5, <2>6
         DEF IInv, FrameTo, RefsKept, UseIsListed, Users, FrameAgrees
    <2>15. NoLostWake'
      BY <1>1, <1>2, <2>4, <2>5, <2>6
         DEF IInv, FrameTo, MarksKept, NoLostWake, FrameAgrees, OneInit
    <2> QED BY <2>7, <2>8, <2>9, <2>10, <2>11, <2>12, <2>13, <2>14, <2>15 DEF IInv
  <1>3. CASE once # "Wait"
    <2>1. /\ frame' = [frame EXCEPT ![t].pc = "once"] /\ thr' = thr /\ list_lock' = list_lock
          /\ UNCHANGED <<places, once, calls, reused>>
      BY <1>1, <1>3 DEF OnceWait
    <2>2. frame' \in [Objects -> Frames]
      <3>1. t \in Objects /\ frame[t] \in Frames BY <1>1, <1>3 DEF IInv, TypeOK
      <3>2. [frame[t] EXCEPT !.pc = "once"] \in Frames
        BY ONLY <3>1, LifecycleAssumption DEF Frames, PCs, Calls
      <3> QED BY <1>1, <1>3, <3>1, <3>2, <2>1 DEF IInv, TypeOK
    <2>3. thr' \in [Objects -> Pthreads] BY <2>1 DEF IInv, TypeOK
    <2>4. FrameTo(t, "once", "none", NULL, {})
      BY <1>1, <1>3, <2>1 DEF FrameTo, IInv, TypeOK, Frames, FrameAgrees
    <2>5. LocksKept /\ RefsKept /\ JoinsKept /\ MarksKept
      BY <1>1, <1>3, <2>1 DEF LocksKept, RefsKept, JoinsKept, MarksKept, IInv, TypeOK, Pthreads
    <2>6. list_lock' = list_lock /\ UNCHANGED <<places, once, calls, reused>> BY <2>1
    <2>7. TypeOK' BY <2>2, <2>3, <2>6 DEF IInv, TypeOK
    <2>8. OnePlace' BY <1>1, <1>3, <2>4, <2>5, <2>6, PlacesSame DEF IInv, FrameTo, FrameAgrees
    <2>9. OneInit' BY <1>1, <1>3, <2>4, <2>5, <2>6 DEF IInv, FrameTo, OneInit
    <2>10. FrameAgrees' BY <1>1, <1>3, <2>4, <2>5, <2>6 DEF IInv, FrameTo, FrameAgrees
    <2>11. LocksAgree'
      BY <1>1, <1>3, <2>4, <2>5, <2>6 DEF IInv, FrameTo, LocksKept, LocksAgree, FrameAgrees
    <2>12. JoinsAgree'
      BY <1>1, <1>3, <2>4, <2>5, <2>6 DEF IInv, FrameTo, JoinsKept, JoinsAgree, FrameAgrees
    <2>13. RefsExact' BY <1>1, <1>3, <2>4, <2>5, <2>6, RefsSame DEF IInv, FrameTo, Counted
    <2>14. UseIsListed'
      BY <1>1, <1>3, <2>4, <2>5, <2>6
         DEF IInv, FrameTo, RefsKept, UseIsListed, Users, FrameAgrees
    <2>15. NoLostWake'
      BY <1>1, <1>3, <2>4, <2>5, <2>6 DEF IInv, FrameTo, MarksKept, NoLostWake, FrameAgrees
    <2> QED BY <2>7, <2>8, <2>9, <2>10, <2>11, <2>12, <2>13, <2>14, <2>15 DEF IInv
  <1> QED BY <1>1, <1>2, <1>3

(* init_routine returns: the waiters are owed the notification. *)
LEMMA InitReturnsOK ==
    ASSUME IInv, ~reused, NEW t \in Objects, InitReturns(t)
    PROVE  IInv'
  <1>1. frame[t].pc = "init"
    BY DEF InitReturns, IInv, TypeOK, Frames, Pthreads, FrameAgrees, LocksAgree, UseIsListed
  <1>2. CASE once = "InProgress"
    <2>1. /\ frame' = [frame EXCEPT ![t] = Frame("run")] /\ thr' = thr /\ list_lock' = list_lock
          /\ once' = "Done" /\ UNCHANGED <<places, calls, reused>>
      BY <1>1, <1>2 DEF InitReturns
    <2>2. frame' \in [Objects -> Frames]
      <3>1. t \in Objects BY <1>1, <1>2 DEF IInv, TypeOK
      <3>2. Frame("run") \in Frames BY ONLY <3>1, LifecycleAssumption DEF Frames, PCs, Calls
      <3> QED BY <1>1, <1>2, <3>1, <3>2, <2>1 DEF IInv, TypeOK
    <2>3. thr' \in [Objects -> Pthreads] BY <2>1 DEF IInv, TypeOK
    <2>4. FrameTo(t, "run", "none", NULL, {})
      BY <1>1, <1>2, <2>1 DEF FrameTo, IInv, TypeOK, Frames, FrameAgrees
    <2>5. LocksKept /\ RefsKept /\ JoinsKept /\ MarksKept
      BY <1>1, <1>2, <2>1 DEF LocksKept, RefsKept, JoinsKept, MarksKept, IInv, TypeOK, Pthreads
    <2>6. list_lock' = list_lock /\ once' = "Done" /\ UNCHANGED <<places, calls, reused>>
      BY <2>1
    <2>7. TypeOK' BY <2>2, <2>3, <2>6 DEF IInv, TypeOK
    <2>8. OnePlace' BY <1>1, <1>2, <2>4, <2>5, <2>6, PlacesSame DEF IInv, FrameTo, FrameAgrees
    <2>9. OneInit' BY <1>1, <1>2, <2>4, <2>5, <2>6 DEF IInv, FrameTo, OneInit
    <2>10. FrameAgrees' BY <1>1, <1>2, <2>4, <2>5, <2>6 DEF IInv, FrameTo, FrameAgrees
    <2>11. LocksAgree'
      BY <1>1, <1>2, <2>4, <2>5, <2>6 DEF IInv, FrameTo, LocksKept, LocksAgree, FrameAgrees
    <2>12. JoinsAgree'
      BY <1>1, <1>2, <2>4, <2>5, <2>6 DEF IInv, FrameTo, JoinsKept, JoinsAgree, FrameAgrees
    <2>13. RefsExact' BY <1>1, <1>2, <2>4, <2>5, <2>6, RefsSame DEF IInv, FrameTo, Counted
    <2>14. UseIsListed'
      BY <1>1, <1>2, <2>4, <2>5, <2>6
         DEF IInv, FrameTo, RefsKept, UseIsListed, Users, FrameAgrees
    <2>15. NoLostWake'
      BY <1>1, <1>2, <2>4, <2>5, <2>6 DEF IInv, FrameTo, MarksKept, NoLostWake, FrameAgrees
    <2> QED BY <2>7, <2>8, <2>9, <2>10, <2>11, <2>12, <2>13, <2>14, <2>15 DEF IInv
  <1>3. CASE once # "InProgress"
    <2>1. /\ frame' = [frame EXCEPT ![t].pc = "onotify"] /\ thr' = thr /\ list_lock' = list_lock
          /\ once' = "Done" /\ UNCHANGED <<places, calls, reused>>
      BY <1>1, <1>3 DEF InitReturns
    <2>2. frame' \in [Objects -> Frames]
      <3>1. t \in Objects /\ frame[t] \in Frames BY <1>1, <1>3 DEF IInv, TypeOK
      <3>2. [frame[t] EXCEPT !.pc = "onotify"] \in Frames
        BY ONLY <3>1, LifecycleAssumption DEF Frames, PCs, Calls
      <3> QED BY <1>1, <1>3, <3>1, <3>2, <2>1 DEF IInv, TypeOK
    <2>3. thr' \in [Objects -> Pthreads] BY <2>1 DEF IInv, TypeOK
    <2>4. FrameTo(t, "onotify", "none", NULL, {})
      BY <1>1, <1>3, <2>1 DEF FrameTo, IInv, TypeOK, Frames, FrameAgrees
    <2>5. LocksKept /\ RefsKept /\ JoinsKept /\ MarksKept
      BY <1>1, <1>3, <2>1 DEF LocksKept, RefsKept, JoinsKept, MarksKept, IInv, TypeOK, Pthreads
    <2>6. list_lock' = list_lock /\ once' = "Done" /\ UNCHANGED <<places, calls, reused>>
      BY <2>1
    <2>7. TypeOK' BY <2>2, <2>3, <2>6 DEF IInv, TypeOK
    <2>8. OnePlace' BY <1>1, <1>3, <2>4, <2>5, <2>6, PlacesSame DEF IInv, FrameTo, FrameAgrees
    <2>9. OneInit' BY <1>1, <1>3, <2>4, <2>5, <2>6 DEF IInv, FrameTo, OneInit
    <2>10. FrameAgrees' BY <1>1, <1>3, <2>4, <2>5, <2>6 DEF IInv, FrameTo, FrameAgrees
    <2>11. LocksAgree'
      BY <1>1, <1>3, <2>4, <2>5, <2>6 DEF IInv, FrameTo, LocksKept, LocksAgree, FrameAgrees
    <2>12. JoinsAgree'
      BY <1>1, <1>3, <2>4, <2>5, <2>6 DEF IInv, FrameTo, JoinsKept, JoinsAgree, FrameAgrees
    <2>13. RefsExact' BY <1>1, <1>3, <2>4, <2>5, <2>6, RefsSame DEF IInv, FrameTo, Counted
    <2>14. UseIsListed'
      BY <1>1, <1>3, <2>4, <2>5, <2>6
         DEF IInv, FrameTo, RefsKept, UseIsListed, Users, FrameAgrees
    <2>15. NoLostWake'
      BY <1>1, <1>3, <2>4, <2>5, <2>6 DEF IInv, FrameTo, MarksKept, NoLostWake, FrameAgrees
    <2> QED BY <2>7, <2>8, <2>9, <2>10, <2>11, <2>12, <2>13, <2>14, <2>15 DEF IInv
  <1> QED BY <1>1, <1>2, <1>3

(* init_routine exits the thread: the same, by once_cancel_handler. *)
LEMMA InitExitsOK ==
    ASSUME IInv, ~reused, NEW t \in Objects, InitExits(t)
    PROVE  IInv'
  <1>1. frame[t].pc = "init"
    BY DEF InitExits, IInv, TypeOK, Frames, Pthreads, FrameAgrees, LocksAgree, UseIsListed
  <1>2. CASE once = "InProgress"
    <2>1. /\ frame' = [frame EXCEPT ![t] = ExitFrame(t)] /\ thr' = thr /\ list_lock' = list_lock
          /\ once' = "NeverDone" /\ UNCHANGED <<places, calls, reused>>
      BY <1>1, <1>2 DEF InitExits
    <2>2. frame' \in [Objects -> Frames]
      <3>1. t \in Objects BY <1>1, <1>2 DEF IInv, TypeOK
      <3>2. ExitFrame(t) \in Frames BY ONLY <3>1, LifecycleAssumption DEF Frames, PCs, Calls
      <3> QED BY <1>1, <1>2, <3>1, <3>2, <2>1 DEF IInv, TypeOK
    <2>3. thr' \in [Objects -> Pthreads] BY <2>1 DEF IInv, TypeOK
    <2>4. FrameTo(t, "exit", "exit", t, {})
      BY <1>1, <1>2, <2>1 DEF FrameTo, IInv, TypeOK, Frames, FrameAgrees
    <2>5. LocksKept /\ RefsKept /\ JoinsKept /\ MarksKept
      BY <1>1, <1>2, <2>1 DEF LocksKept, RefsKept, JoinsKept, MarksKept, IInv, TypeOK, Pthreads
    <2>6. list_lock' = list_lock /\ once' = "NeverDone" /\ UNCHANGED <<places, calls, reused>>
      BY <2>1
    <2>7. TypeOK' BY <2>2, <2>3, <2>6 DEF IInv, TypeOK
    <2>8. OnePlace' BY <1>1, <1>2, <2>4, <2>5, <2>6, PlacesSame DEF IInv, FrameTo, FrameAgrees
    <2>9. OneInit' BY <1>1, <1>2, <2>4, <2>5, <2>6 DEF IInv, FrameTo, OneInit
    <2>10. FrameAgrees' BY <1>1, <1>2, <2>4, <2>5, <2>6 DEF IInv, FrameTo, FrameAgrees
    <2>11. LocksAgree'
      BY <1>1, <1>2, <2>4, <2>5, <2>6 DEF IInv, FrameTo, LocksKept, LocksAgree, FrameAgrees
    <2>12. JoinsAgree'
      BY <1>1, <1>2, <2>4, <2>5, <2>6 DEF IInv, FrameTo, JoinsKept, JoinsAgree, FrameAgrees
    <2>13. RefsExact' BY <1>1, <1>2, <2>4, <2>5, <2>6, RefsSame DEF IInv, FrameTo, Counted
    <2>14. UseIsListed'
      BY <1>1, <1>2, <2>4, <2>5, <2>6
         DEF IInv, FrameTo, RefsKept, UseIsListed, Users, FrameAgrees
    <2>15. NoLostWake'
      BY <1>1, <1>2, <2>4, <2>5, <2>6 DEF IInv, FrameTo, MarksKept, NoLostWake, FrameAgrees
    <2> QED BY <2>7, <2>8, <2>9, <2>10, <2>11, <2>12, <2>13, <2>14, <2>15 DEF IInv
  <1>3. CASE once # "InProgress"
    <2>1. /\ frame' = [frame EXCEPT ![t] = InCall("onotify", "exit", t)] /\ thr' = thr
          /\ list_lock' = list_lock /\ once' = "NeverDone"
          /\ UNCHANGED <<places, calls, reused>>
      BY <1>1, <1>3 DEF InitExits
    <2>2. frame' \in [Objects -> Frames]
      <3>1. t \in Objects BY <1>1, <1>3 DEF IInv, TypeOK
      <3>2. InCall("onotify", "exit", t) \in Frames
        BY ONLY <3>1, LifecycleAssumption DEF Frames, PCs, Calls
      <3> QED BY <1>1, <1>3, <3>1, <3>2, <2>1 DEF IInv, TypeOK
    <2>3. thr' \in [Objects -> Pthreads] BY <2>1 DEF IInv, TypeOK
    <2>4. FrameTo(t, "onotify", "exit", t, {})
      BY <1>1, <1>3, <2>1 DEF FrameTo, IInv, TypeOK, Frames, FrameAgrees
    <2>5. LocksKept /\ RefsKept /\ JoinsKept /\ MarksKept
      BY <1>1, <1>3, <2>1 DEF LocksKept, RefsKept, JoinsKept, MarksKept, IInv, TypeOK, Pthreads
    <2>6. list_lock' = list_lock /\ once' = "NeverDone" /\ UNCHANGED <<places, calls, reused>>
      BY <2>1
    <2>7. TypeOK' BY <2>2, <2>3, <2>6 DEF IInv, TypeOK
    <2>8. OnePlace' BY <1>1, <1>3, <2>4, <2>5, <2>6, PlacesSame DEF IInv, FrameTo, FrameAgrees
    <2>9. OneInit' BY <1>1, <1>3, <2>4, <2>5, <2>6 DEF IInv, FrameTo, OneInit
    <2>10. FrameAgrees' BY <1>1, <1>3, <2>4, <2>5, <2>6 DEF IInv, FrameTo, FrameAgrees
    <2>11. LocksAgree'
      BY <1>1, <1>3, <2>4, <2>5, <2>6 DEF IInv, FrameTo, LocksKept, LocksAgree, FrameAgrees
    <2>12. JoinsAgree'
      BY <1>1, <1>3, <2>4, <2>5, <2>6 DEF IInv, FrameTo, JoinsKept, JoinsAgree, FrameAgrees
    <2>13. RefsExact' BY <1>1, <1>3, <2>4, <2>5, <2>6, RefsSame DEF IInv, FrameTo, Counted
    <2>14. UseIsListed'
      BY <1>1, <1>3, <2>4, <2>5, <2>6
         DEF IInv, FrameTo, RefsKept, UseIsListed, Users, FrameAgrees
    <2>15. NoLostWake'
      BY <1>1, <1>3, <2>4, <2>5, <2>6 DEF IInv, FrameTo, MarksKept, NoLostWake, FrameAgrees
    <2> QED BY <2>7, <2>8, <2>9, <2>10, <2>11, <2>12, <2>13, <2>14, <2>15 DEF IInv
  <1> QED BY <1>1, <1>2, <1>3

(* The waiters of pthread_once are notified. *)
LEMMA OnceNotifyOK ==
    ASSUME IInv, ~reused, NEW t \in Objects, OnceNotify(t)
    PROVE  IInv'
  <1>1. frame[t].pc = "onotify"
    BY DEF OnceNotify, IInv, TypeOK, Frames, Pthreads, FrameAgrees, LocksAgree, UseIsListed
  <1>2. CASE frame[t].call = "exit"
    <2>1. /\ frame' = [u \in Objects |-> IF u = t THEN ExitFrame(t)
                 ELSE IF frame[u].pc = "oblocked" THEN Frame("owait") ELSE frame[u]]
          /\ thr' = thr /\ list_lock' = list_lock /\ UNCHANGED <<places, once, calls, reused>>
      BY <1>1, <1>2 DEF OnceNotify
    <2>2. frame' \in [Objects -> Frames]
      <3>1. \A u \in Objects : frame[u] \in Frames /\ t \in Objects BY DEF IInv, TypeOK
      <3>2. ExitFrame(t) \in Frames
        BY ONLY <3>1, t \in Objects, LifecycleAssumption DEF Frames, PCs, Calls
      <3>3. \A u \in Objects : Frame("owait") \in Frames
        BY ONLY <3>1, LifecycleAssumption DEF Frames, PCs, Calls
      <3> QED BY <3>1, <3>2, <3>3, <2>1, Zenon
    <2>3. thr' \in [Objects -> Pthreads] BY <2>1 DEF IInv, TypeOK
    <2>4. /\ frame'[t].pc = "exit" /\ frame'[t].call = "exit" /\ frame'[t].obj = t
               /\ frame'[t].work = {}
          /\ (\A u \in Objects : u # t /\ frame[u].pc # "oblocked" => frame'[u] = frame[u])
          /\ (\A u \in Objects : u # t /\ frame[u].pc = "oblocked" =>
                 frame'[u].pc = "owait" /\ frame'[u].call = "none" /\ frame'[u].obj = NULL
                      /\ frame'[u].work = {})
      BY <1>1, <1>2, <2>1 DEF FrameTo, IInv, TypeOK, Frames, FrameAgrees
    <2>5. LocksKept /\ RefsKept /\ JoinsKept /\ MarksKept
      BY <1>1, <1>2, <2>1 DEF LocksKept, RefsKept, JoinsKept, MarksKept, IInv, TypeOK, Pthreads
    <2>6. list_lock' = list_lock /\ UNCHANGED <<places, once, calls, reused>> BY <2>1
    <2>7. TypeOK' BY <2>2, <2>3, <2>6 DEF IInv, TypeOK
    <2>8. OnePlace' BY <1>1, <1>2, <2>4, <2>5, <2>6, PlacesSame DEF IInv, FrameTo, FrameAgrees
    <2>9. OneInit' BY <1>1, <1>2, <2>4, <2>5, <2>6 DEF IInv, FrameTo, OneInit
    <2>10. FrameAgrees' BY <1>1, <1>2, <2>4, <2>5, <2>6 DEF IInv, FrameTo, FrameAgrees
    <2>11. LocksAgree'
      BY <1>1, <1>2, <2>4, <2>5, <2>6 DEF IInv, FrameTo, LocksKept, LocksAgree, FrameAgrees
    <2>12. JoinsAgree'
      BY <1>1, <1>2, <2>4, <2>5, <2>6 DEF IInv, FrameTo, JoinsKept, JoinsAgree, FrameAgrees
    <2>13. RefsExact' BY <1>1, <1>2, <2>4, <2>5, <2>6, RefsSame DEF IInv, FrameTo, Counted
    <2>14. UseIsListed'
      BY <1>1, <1>2, <2>4, <2>5, <2>6
         DEF IInv, FrameTo, RefsKept, UseIsListed, Users, FrameAgrees
    <2>15. NoLostWake'
      BY <1>1, <1>2, <2>4, <2>5, <2>6 DEF IInv, FrameTo, MarksKept, NoLostWake, FrameAgrees
    <2> QED BY <2>7, <2>8, <2>9, <2>10, <2>11, <2>12, <2>13, <2>14, <2>15 DEF IInv
  <1>3. CASE frame[t].call # "exit"
    <2>1. /\ frame' = [u \in Objects |-> IF u = t THEN Frame("run")
                 ELSE IF frame[u].pc = "oblocked" THEN Frame("owait") ELSE frame[u]]
          /\ thr' = thr /\ list_lock' = list_lock /\ UNCHANGED <<places, once, calls, reused>>
      BY <1>1, <1>3 DEF OnceNotify
    <2>2. frame' \in [Objects -> Frames]
      <3>1. \A u \in Objects : frame[u] \in Frames /\ t \in Objects BY DEF IInv, TypeOK
      <3>2. Frame("run") \in Frames
        BY ONLY <3>1, t \in Objects, LifecycleAssumption DEF Frames, PCs, Calls
      <3>3. \A u \in Objects : Frame("owait") \in Frames
        BY ONLY <3>1, LifecycleAssumption DEF Frames, PCs, Calls
      <3> QED BY <3>1, <3>2, <3>3, <2>1, Zenon
    <2>3. thr' \in [Objects -> Pthreads] BY <2>1 DEF IInv, TypeOK
    <2>4. /\ frame'[t].pc = "run" /\ frame'[t].call = "none" /\ frame'[t].obj = NULL
               /\ frame'[t].work = {}
          /\ (\A u \in Objects : u # t /\ frame[u].pc # "oblocked" => frame'[u] = frame[u])
          /\ (\A u \in Objects : u # t /\ frame[u].pc = "oblocked" =>
                 frame'[u].pc = "owait" /\ frame'[u].call = "none" /\ frame'[u].obj = NULL
                      /\ frame'[u].work = {})
      BY <1>1, <1>3, <2>1 DEF FrameTo, IInv, TypeOK, Frames, FrameAgrees
    <2>5. LocksKept /\ RefsKept /\ JoinsKept /\ MarksKept
      BY <1>1, <1>3, <2>1 DEF LocksKept, RefsKept, JoinsKept, MarksKept, IInv, TypeOK, Pthreads
    <2>6. list_lock' = list_lock /\ UNCHANGED <<places, once, calls, reused>> BY <2>1
    <2>7. TypeOK' BY <2>2, <2>3, <2>6 DEF IInv, TypeOK
    <2>8. OnePlace' BY <1>1, <1>3, <2>4, <2>5, <2>6, PlacesSame DEF IInv, FrameTo, FrameAgrees
    <2>9. OneInit' BY <1>1, <1>3, <2>4, <2>5, <2>6 DEF IInv, FrameTo, OneInit
    <2>10. FrameAgrees' BY <1>1, <1>3, <2>4, <2>5, <2>6 DEF IInv, FrameTo, FrameAgrees
    <2>11. LocksAgree'
      BY <1>1, <1>3, <2>4, <2>5, <2>6 DEF IInv, FrameTo, LocksKept, LocksAgree, FrameAgrees
    <2>12. JoinsAgree'
      BY <1>1, <1>3, <2>4, <2>5, <2>6 DEF IInv, FrameTo, JoinsKept, JoinsAgree, FrameAgrees
    <2>13. RefsExact' BY <1>1, <1>3, <2>4, <2>5, <2>6, RefsSame DEF IInv, FrameTo, Counted
    <2>14. UseIsListed'
      BY <1>1, <1>3, <2>4, <2>5, <2>6
         DEF IInv, FrameTo, RefsKept, UseIsListed, Users, FrameAgrees
    <2>15. NoLostWake'
      BY <1>1, <1>3, <2>4, <2>5, <2>6 DEF IInv, FrameTo, MarksKept, NoLostWake, FrameAgrees
    <2> QED BY <2>7, <2>8, <2>9, <2>10, <2>11, <2>12, <2>13, <2>14, <2>15 DEF IInv
  <1> QED BY <1>1, <1>2, <1>3

(* Joiners are notified, and the thread ends. *)
LEMMA ExitNotifyOK ==
    ASSUME IInv, ~reused, NEW t \in Objects, ExitNotify(t)
    PROVE  IInv'
  <1>1. frame[t].pc = "notify" /\ frame[t].obj = t
    BY DEF ExitNotify, NotifyJoiners, IInv, TypeOK, Frames, Pthreads, FrameAgrees, LocksAgree,
       UseIsListed
  <1>2. /\ frame' = [u \in Objects |-> IF u = t THEN Frame("none")
               ELSE IF frame[u].pc = "sleep" /\ frame[u].obj = t THEN [frame[u]
                   EXCEPT !.pc = "check"] ELSE frame[u]]
        /\ thr' = thr /\ list_lock' = list_lock /\ UNCHANGED <<places, once, calls, reused>>
    BY <1>1 DEF ExitNotify, NotifyJoiners
  <1>3. frame' \in [Objects -> Frames]
    <2>1. \A u \in Objects : frame[u] \in Frames /\ t \in Objects BY DEF IInv, TypeOK
    <2>2. Frame("none") \in Frames
      BY ONLY <2>1, t \in Objects, LifecycleAssumption DEF Frames, PCs, Calls
    <2>3. \A u \in Objects : [frame[u] EXCEPT !.pc = "check"] \in Frames
      BY ONLY <2>1, LifecycleAssumption DEF Frames, PCs, Calls
    <2> QED BY <2>1, <2>2, <2>3, <1>2, Zenon
  <1>4. thr' \in [Objects -> Pthreads] BY <1>2 DEF IInv, TypeOK
  <1>5. /\ frame'[t].pc = "none" /\ frame'[t].call = "none" /\ frame'[t].obj = NULL
             /\ frame'[t].work = {}
          /\ (\A u \in Objects : u # t /\ ~(frame[u].pc = "sleep"
               /\ frame[u].obj = t) => frame'[u] = frame[u])
          /\ (\A u \in Objects : u # t /\ frame[u].pc = "sleep" /\ frame[u].obj = t =>
                 frame'[u].pc = "check" /\ frame'[u].call = frame[u].call
                      /\ frame'[u].obj = frame[u].obj /\ frame'[u].work = frame[u].work)
    BY <1>1, <1>2 DEF FrameTo, IInv, TypeOK, Frames, FrameAgrees
  <1>6. LocksKept /\ RefsKept /\ JoinsKept /\ MarksKept
    BY <1>1, <1>2 DEF LocksKept, RefsKept, JoinsKept, MarksKept, IInv, TypeOK, Pthreads
  <1>7. list_lock' = list_lock /\ UNCHANGED <<places, once, calls, reused>> BY <1>2
  <1>8. TypeOK' BY <1>3, <1>4, <1>7 DEF IInv, TypeOK
  <1>9. OnePlace' BY <1>1, <1>5, <1>6, <1>7, PlacesSame DEF IInv, FrameTo, FrameAgrees
  <1>10. OneInit' BY <1>1, <1>5, <1>6, <1>7 DEF IInv, FrameTo, OneInit
  <1>11. FrameAgrees' BY <1>1, <1>5, <1>6, <1>7 DEF IInv, FrameTo, FrameAgrees
  <1>12. LocksAgree'
    BY <1>1, <1>5, <1>6, <1>7 DEF IInv, FrameTo, LocksKept, LocksAgree, FrameAgrees
  <1>13. JoinsAgree'
    BY <1>1, <1>5, <1>6, <1>7 DEF IInv, FrameTo, JoinsKept, JoinsAgree, FrameAgrees
  <1>14. RefsExact' BY <1>1, <1>5, <1>6, <1>7, RefsSame DEF IInv, FrameTo, Counted
  <1>15. UseIsListed'
    BY <1>1, <1>5, <1>6, <1>7 DEF IInv, FrameTo, RefsKept, UseIsListed, Users, FrameAgrees
  <1>16. NoLostWake'
    BY <1>1, <1>5, <1>6, <1>7 DEF IInv, FrameTo, MarksKept, NoLostWake, FrameAgrees
  <1> QED BY <1>8, <1>9, <1>10, <1>11, <1>12, <1>13, <1>14, <1>15, <1>16 DEF IInv

(* The cancelled joiner is notified through its join_target, which is the  *)
(* thread it sleeps on.                                                    *)
LEMMA CancelWakeOK ==
    ASSUME IInv, ~reused, NEW t \in Objects, CancelWake(t)
    PROVE  IInv'
  <1>0. PICK o : o = frame[t].obj OBVIOUS
  <1>1. /\ o \in Objects /\ o = frame[t].obj /\ frame[t].pc = "wake" /\ thr[o].lock = t
        /\ o \in threads
    BY <1>0
       DEF CancelWake, NotifyJoiners, IInv, TypeOK, Frames, Pthreads, FrameAgrees, LocksAgree,
           UseIsListed
  <1>2. CASE thr[o].join_target = NULL
    <2>1. /\ frame' = [frame EXCEPT ![t] = Frame("run")] /\ thr' = [thr EXCEPT ![o].lock = NULL]
          /\ list_lock' = list_lock /\ UNCHANGED <<places, once, calls, reused>>
      BY <1>1, <1>2 DEF CancelWake, NotifyJoiners
    <2>2. frame' \in [Objects -> Frames]
      <3>1. t \in Objects BY <1>1, <1>2 DEF IInv, TypeOK
      <3>2. Frame("run") \in Frames BY ONLY <3>1, LifecycleAssumption DEF Frames, PCs, Calls
      <3> QED BY <1>1, <1>2, <3>1, <3>2, <2>1 DEF IInv, TypeOK
    <2>3. thr' \in [Objects -> Pthreads]
      <3>1. t \in Objects /\ thr[o] \in Pthreads /\ o \in Objects BY <1>1, <1>2 DEF IInv, TypeOK
      <3>2. [thr[o] EXCEPT !.lock = NULL] \in Pthreads
        BY ONLY <3>1, LifecycleAssumption DEF Pthreads
      <3> QED BY <1>1, <1>2, <3>1, <3>2, <2>1 DEF IInv, TypeOK
    <2>4. FrameTo(t, "run", "none", NULL, {})
      BY <1>1, <1>2, <2>1 DEF FrameTo, IInv, TypeOK, Frames, FrameAgrees
    <2>5. /\ (\A p \in Objects : thr'[p].lock = IF p = o THEN NULL ELSE thr[p].lock) /\ RefsKept
          /\ JoinsKept /\ MarksKept
      BY <1>1, <1>2, <2>1 DEF LocksKept, RefsKept, JoinsKept, MarksKept, IInv, TypeOK, Pthreads
    <2>6. list_lock' = list_lock /\ UNCHANGED <<places, once, calls, reused>> BY <2>1
    <2>7. TypeOK' BY <2>2, <2>3, <2>6 DEF IInv, TypeOK
    <2>8. OnePlace' BY <1>1, <1>2, <2>4, <2>5, <2>6, PlacesSame DEF IInv, FrameTo, FrameAgrees
    <2>9. OneInit' BY <1>1, <1>2, <2>4, <2>5, <2>6 DEF IInv, FrameTo, OneInit
    <2>10. FrameAgrees' BY <1>1, <1>2, <2>4, <2>5, <2>6 DEF IInv, FrameTo, FrameAgrees
    <2>11. LocksAgree'
      BY <1>1, <1>2, <2>4, <2>5, <2>6 DEF IInv, FrameTo, LocksKept, LocksAgree, FrameAgrees
    <2>12. JoinsAgree'
      BY <1>1, <1>2, <2>4, <2>5, <2>6 DEF IInv, FrameTo, JoinsKept, JoinsAgree, FrameAgrees
    <2>13. RefsExact' BY <1>1, <1>2, <2>4, <2>5, <2>6, RefsSame DEF IInv, FrameTo, Counted
    <2>14. UseIsListed'
      BY <1>1, <1>2, <2>4, <2>5, <2>6
         DEF IInv, FrameTo, RefsKept, UseIsListed, Users, FrameAgrees
    <2>15. NoLostWake'
      BY <1>1, <1>2, <2>4, <2>5, <2>6
         DEF IInv, FrameTo, MarksKept, NoLostWake, FrameAgrees, JoinsAgree
    <2> QED BY <2>7, <2>8, <2>9, <2>10, <2>11, <2>12, <2>13, <2>14, <2>15 DEF IInv
  <1>3. CASE thr[o].join_target # NULL
    <2>1. /\ frame' = [u \in Objects |-> IF u = t THEN Frame("run")
                 ELSE IF frame[u].pc = "sleep" /\ frame[u].obj = thr[o].join_target
                 THEN [frame[u] EXCEPT !.pc = "check"] ELSE frame[u]]
          /\ thr' = [thr EXCEPT ![o].lock = NULL] /\ list_lock' = list_lock
          /\ UNCHANGED <<places, once, calls, reused>>
      BY <1>1, <1>3 DEF CancelWake, NotifyJoiners
    <2>2. frame' \in [Objects -> Frames]
      <3>1. \A u \in Objects : frame[u] \in Frames /\ t \in Objects BY DEF IInv, TypeOK
      <3>2. Frame("run") \in Frames
        BY ONLY <3>1, t \in Objects, LifecycleAssumption DEF Frames, PCs, Calls
      <3>3. \A u \in Objects : [frame[u] EXCEPT !.pc = "check"] \in Frames
        BY ONLY <3>1, LifecycleAssumption DEF Frames, PCs, Calls
      <3> QED BY <3>1, <3>2, <3>3, <2>1, Zenon
    <2>3. thr' \in [Objects -> Pthreads]
      <3>1. t \in Objects /\ thr[o] \in Pthreads /\ o \in Objects BY <1>1, <1>3 DEF IInv, TypeOK
      <3>2. [thr[o] EXCEPT !.lock = NULL] \in Pthreads
        BY ONLY <3>1, LifecycleAssumption DEF Pthreads
      <3> QED BY <1>1, <1>3, <3>1, <3>2, <2>1 DEF IInv, TypeOK
    <2>4. /\ frame'[t].pc = "run" /\ frame'[t].call = "none" /\ frame'[t].obj = NULL
               /\ frame'[t].work = {}
          /\ (\A u \in Objects : u # t /\ ~(frame[u].pc = "sleep"
               /\ frame[u].obj = thr[o].join_target) => frame'[u] = frame[u])
          /\ (\A u \in Objects : u # t /\ frame[u].pc = "sleep"
               /\ frame[u].obj = thr[o].join_target =>
                 frame'[u].pc = "check" /\ frame'[u].call = frame[u].call
                      /\ frame'[u].obj = frame[u].obj /\ frame'[u].work = frame[u].work)
      BY <1>1, <1>3, <2>1 DEF FrameTo, IInv, TypeOK, Frames, FrameAgrees
    <2>5. /\ (\A p \in Objects : thr'[p].lock = IF p = o THEN NULL ELSE thr[p].lock) /\ RefsKept
          /\ JoinsKept /\ MarksKept
      BY <1>1, <1>3, <2>1 DEF LocksKept, RefsKept, JoinsKept, MarksKept, IInv, TypeOK, Pthreads
    <2>6. list_lock' = list_lock /\ UNCHANGED <<places, once, calls, reused>> BY <2>1
    <2>7. TypeOK' BY <2>2, <2>3, <2>6 DEF IInv, TypeOK
    <2>8. OnePlace' BY <1>1, <1>3, <2>4, <2>5, <2>6, PlacesSame DEF IInv, FrameTo, FrameAgrees
    <2>9. OneInit' BY <1>1, <1>3, <2>4, <2>5, <2>6 DEF IInv, FrameTo, OneInit
    <2>10. FrameAgrees' BY <1>1, <1>3, <2>4, <2>5, <2>6 DEF IInv, FrameTo, FrameAgrees
    <2>11. LocksAgree'
      BY <1>1, <1>3, <2>4, <2>5, <2>6 DEF IInv, FrameTo, LocksKept, LocksAgree, FrameAgrees
    <2>12. JoinsAgree'
      BY <1>1, <1>3, <2>4, <2>5, <2>6 DEF IInv, FrameTo, JoinsKept, JoinsAgree, FrameAgrees
    <2>13. RefsExact' BY <1>1, <1>3, <2>4, <2>5, <2>6, RefsSame DEF IInv, FrameTo, Counted
    <2>14. UseIsListed'
      BY <1>1, <1>3, <2>4, <2>5, <2>6
         DEF IInv, FrameTo, RefsKept, UseIsListed, Users, FrameAgrees
    <2>15. NoLostWake'
      BY <1>1, <1>3, <2>4, <2>5, <2>6
         DEF IInv, FrameTo, MarksKept, NoLostWake, FrameAgrees, JoinsAgree
    <2> QED BY <2>7, <2>8, <2>9, <2>10, <2>11, <2>12, <2>13, <2>14, <2>15 DEF IInv
  <1> QED BY <1>1, <1>2, <1>3

(* TryCollect with both locks: an object that goes to gc_list is dead,     *)
(* detached and, the count being exact, in nobody's use.                   *)
LEMMA CollectLockOK ==
    ASSUME IInv, ~reused, NEW t \in Objects, CollectLock(t)
    PROVE  IInv'
  <1>0. PICK o : o = frame[t].obj OBVIOUS
  <1>1. /\ o \in Objects /\ o = frame[t].obj /\ frame[t].pc = "tc_lock" /\ list_lock = t
        /\ thr[o].lock = NULL /\ o \in threads /\ thr[o].dead \in BOOLEAN
        /\ thr[o].refcount \in Nat \ {0} /\ thr[o].refcount - 1 \in Nat
    <2>1. o \in Objects /\ o = frame[t].obj /\ frame[t].pc = "tc_lock"
      BY <1>0 DEF CollectLock, IInv, FrameAgrees
    <2>2. thr[o].refcount \in Nat \ {0} /\ thr[o].refcount - 1 \in Nat
      BY <2>1, RefsPositive DEF Counted
    <2> QED
      BY <2>1, <2>2
         DEF CollectLock, IInv, TypeOK, Frames, Pthreads, FrameAgrees, UseIsListed, LocksAgree
  <1>2. CASE ~(thr[o].refcount - 1 = 0 /\ thr[o].dead /\ thr[o].detached)
    <2>1. /\ frame' = [frame EXCEPT ![t].pc = "tc_unlock"]
          /\ thr' = [thr EXCEPT ![o] = [thr[o] EXCEPT !.lock = t, !.refcount = @ - 1]]
          /\ list_lock' = NULL /\ UNCHANGED <<places, once, calls, reused>>
      BY <1>1, <1>2 DEF CollectLock, ShouldCollect, IInv, TypeOK, Pthreads, Frames
    <2>2. frame' \in [Objects -> Frames]
      <3>1. t \in Objects /\ frame[t] \in Frames BY <1>1, <1>2 DEF IInv, TypeOK
      <3>2. [frame[t] EXCEPT !.pc = "tc_unlock"] \in Frames
        BY ONLY <3>1, LifecycleAssumption DEF Frames, PCs, Calls
      <3> QED BY <1>1, <1>2, <3>1, <3>2, <2>1 DEF IInv, TypeOK
    <2>3. thr' \in [Objects -> Pthreads]
      <3>1. t \in Objects /\ thr[o] \in Pthreads /\ thr[o].refcount - 1 \in Nat /\ o \in Objects
        BY <1>1, <1>2 DEF IInv, TypeOK
      <3>2. [thr[o] EXCEPT !.lock = t, !.refcount = @ - 1] \in Pthreads
        BY ONLY <3>1, LifecycleAssumption DEF Pthreads
      <3> QED BY <1>1, <1>2, <3>1, <3>2, <2>1 DEF IInv, TypeOK
    <2>4. FrameTo(t, "tc_unlock", frame[t].call, o, {})
      BY <1>1, <1>2, <2>1 DEF FrameTo, IInv, TypeOK, Frames, FrameAgrees
    <2>5. /\ JoinsKept /\ MarksKept
          /\ (\A p \in Objects : thr'[p].lock = IF p = o THEN t ELSE thr[p].lock)
          /\ (\A p \in Objects : thr'[p].refcount = (IF p = o THEN thr[o].refcount - 1
                 ELSE thr[p].refcount) /\ thr'[p].dead = thr[p].dead)
      <3>1. /\ thr'[o] = [thr[o] EXCEPT !.lock = t, !.refcount = @ - 1]
            /\ \A p \in Objects : p # o => thr'[p] = thr[p]
        BY <1>1, <1>2, <2>1 DEF IInv, TypeOK
      <3>2. thr[o] \in Pthreads BY <1>1, <1>2 DEF IInv, TypeOK
      <3>3. /\ thr'[o].lock = t /\ thr'[o].refcount = thr[o].refcount - 1
            /\ thr'[o].dead = thr[o].dead /\ thr'[o].detached = thr[o].detached
            /\ thr'[o].joiner = thr[o].joiner /\ thr'[o].join_target = thr[o].join_target
            /\ thr'[o].terminated = thr[o].terminated
            /\ thr'[o].cancel_pending = thr[o].cancel_pending
        BY ONLY <3>1, <3>2 DEF Pthreads
      <3> QED BY <1>1, <1>2, <3>1, <3>3 DEF LocksKept, RefsKept, JoinsKept, MarksKept
    <2>6. list_lock' = NULL /\ UNCHANGED <<places, once, calls, reused>> BY <2>1
    <2>7. TypeOK' BY <2>2, <2>3, <2>6 DEF IInv, TypeOK
    <2>8. OnePlace' BY <1>1, <1>2, <2>4, <2>5, <2>6, PlacesSame DEF IInv, FrameTo, FrameAgrees
    <2>9. OneInit' BY <1>1, <1>2, <2>4, <2>5, <2>6 DEF IInv, FrameTo, OneInit
    <2>10. FrameAgrees' BY <1>1, <1>2, <2>4, <2>5, <2>6 DEF IInv, FrameTo, FrameAgrees
    <2>11. LocksAgree'
      BY <1>1, <1>2, <2>4, <2>5, <2>6 DEF IInv, FrameTo, LocksKept, LocksAgree, FrameAgrees
    <2>12. JoinsAgree'
      BY <1>1, <1>2, <2>4, <2>5, <2>6 DEF IInv, FrameTo, JoinsKept, JoinsAgree, FrameAgrees
    <2>13. RefsExact'
      <3>1. RefsExact /\ thr[o].dead \in BOOLEAN /\ frame[t].pc \in Counted /\ frame[t].obj = o
        BY <1>1, <1>2 DEF IInv, Counted
      <3>2. \A p \in Objects \ {o} : thr'[p].refcount = thr[p].refcount
                 /\ thr'[p].dead = thr[p].dead
        BY <2>5
      <3>3. thr'[o].refcount = thr[o].refcount - 1 /\ thr'[o].dead = thr[o].dead
        BY <1>1, <1>2, <2>5
      <3>4. frame'[t].pc \notin Counted /\ \A u \in Objects : u # t => frame'[u] = frame[u]
        BY <2>4 DEF FrameTo, Counted
      <3>5. t \in Objects /\ o \in Objects BY <1>1, <1>2
      <3> QED BY ONLY <3>1, <3>2, <3>3, <3>4, <3>5, RefsDrop, LifecycleAssumption
    <2>14. UseIsListed'
      BY <1>1, <1>2, <2>4, <2>5, <2>6
         DEF IInv, FrameTo, RefsKept, UseIsListed, Users, FrameAgrees
    <2>15. NoLostWake'
      BY <1>1, <1>2, <2>4, <2>5, <2>6 DEF IInv, FrameTo, MarksKept, NoLostWake, FrameAgrees
    <2> QED BY <2>7, <2>8, <2>9, <2>10, <2>11, <2>12, <2>13, <2>14, <2>15 DEF IInv
  <1>3. CASE thr[o].refcount - 1 = 0 /\ thr[o].dead /\ thr[o].detached
    <2>1. /\ frame' = [frame EXCEPT ![t].pc = "tc_unlock"]
          /\ thr' = [thr EXCEPT ![o] = [thr[o] EXCEPT !.lock = t, !.refcount = @ - 1]]
          /\ list_lock' = NULL /\ threads' = threads \ {o} /\ gc_list' = gc_list \cup {o}
          /\ UNCHANGED <<free_threads, heap, once, calls, reused>>
      BY <1>1, <1>3 DEF CollectLock, ShouldCollect, IInv, TypeOK, Pthreads, Frames
    <2>2. frame' \in [Objects -> Frames]
      <3>1. t \in Objects /\ frame[t] \in Frames BY <1>1, <1>3 DEF IInv, TypeOK
      <3>2. [frame[t] EXCEPT !.pc = "tc_unlock"] \in Frames
        BY ONLY <3>1, LifecycleAssumption DEF Frames, PCs, Calls
      <3> QED BY <1>1, <1>3, <3>1, <3>2, <2>1 DEF IInv, TypeOK
    <2>3. thr' \in [Objects -> Pthreads]
      <3>1. t \in Objects /\ thr[o] \in Pthreads /\ thr[o].refcount - 1 \in Nat /\ o \in Objects
        BY <1>1, <1>3 DEF IInv, TypeOK
      <3>2. [thr[o] EXCEPT !.lock = t, !.refcount = @ - 1] \in Pthreads
        BY ONLY <3>1, LifecycleAssumption DEF Pthreads
      <3> QED BY <1>1, <1>3, <3>1, <3>2, <2>1 DEF IInv, TypeOK
    <2>4. FrameTo(t, "tc_unlock", frame[t].call, o, {})
      BY <1>1, <1>3, <2>1 DEF FrameTo, IInv, TypeOK, Frames, FrameAgrees
    <2>5. /\ JoinsKept /\ MarksKept
          /\ (\A p \in Objects : thr'[p].lock = IF p = o THEN t ELSE thr[p].lock)
          /\ (\A p \in Objects : thr'[p].refcount = (IF p = o THEN thr[o].refcount - 1
                 ELSE thr[p].refcount) /\ thr'[p].dead = thr[p].dead)
      <3>1. /\ thr'[o] = [thr[o] EXCEPT !.lock = t, !.refcount = @ - 1]
            /\ \A p \in Objects : p # o => thr'[p] = thr[p]
        BY <1>1, <1>3, <2>1 DEF IInv, TypeOK
      <3>2. thr[o] \in Pthreads BY <1>1, <1>3 DEF IInv, TypeOK
      <3>3. /\ thr'[o].lock = t /\ thr'[o].refcount = thr[o].refcount - 1
            /\ thr'[o].dead = thr[o].dead /\ thr'[o].detached = thr[o].detached
            /\ thr'[o].joiner = thr[o].joiner /\ thr'[o].join_target = thr[o].join_target
            /\ thr'[o].terminated = thr[o].terminated
            /\ thr'[o].cancel_pending = thr[o].cancel_pending
        BY ONLY <3>1, <3>2 DEF Pthreads
      <3> QED BY <1>1, <1>3, <3>1, <3>3 DEF LocksKept, RefsKept, JoinsKept, MarksKept
    <2>6. /\ list_lock' = NULL /\ threads' = threads \ {o} /\ gc_list' = gc_list \cup {o}
          /\ UNCHANGED <<free_threads, heap, once, calls, reused>>
      BY <2>1
    <2>7. TypeOK' BY <2>2, <2>3, <2>6 DEF IInv, TypeOK
    <2>8. OnePlace'
      <3>1. \A p \in Objects : p # o => Stays(p)
        BY <1>1, <1>3, <2>4, <2>5, <2>6 DEF FrameTo, FrameAgrees, IInv, Stays
      <3>2. Placed(o)'
        <4>1. \A u \in Objects : ~Holds(u, o) /\ o \notin heap /\ o \notin Elems(free_threads)
          BY <1>1 DEF IInv, OnePlace, Holds
        <4>2. \A u \in Objects : ~Holds(u, o)'
          BY <4>1, <1>1, <1>3, <2>4, <2>5, <2>6 DEF FrameTo, FrameAgrees, IInv, Holds
        <4> QED BY <4>1, <4>2, <2>6 DEF Placed
      <3>3. OnePlace /\ Distinct(free_threads)' BY <2>6 DEF IInv, OnePlace, Distinct
      <3>4. threads' \subseteq Objects /\ gc_list' \subseteq Objects /\ heap' \subseteq Objects
        BY <1>1, <2>6 DEF IInv, OnePlace
      <3> QED BY ONLY <3>1, <3>2, <3>3, <3>4, PlacesMove
    <2>9. OneInit' BY <1>1, <1>3, <2>4, <2>5, <2>6 DEF IInv, FrameTo, OneInit
    <2>10. FrameAgrees' BY <1>1, <1>3, <2>4, <2>5, <2>6 DEF IInv, FrameTo, FrameAgrees
    <2>11. LocksAgree'
      BY <1>1, <1>3, <2>4, <2>5, <2>6 DEF IInv, FrameTo, LocksKept, LocksAgree, FrameAgrees
    <2>12. JoinsAgree'
      BY <1>1, <1>3, <2>4, <2>5, <2>6 DEF IInv, FrameTo, JoinsKept, JoinsAgree, FrameAgrees
    <2>13. RefsExact'
      <3>1. RefsExact /\ thr[o].dead \in BOOLEAN /\ frame[t].pc \in Counted /\ frame[t].obj = o
        BY <1>1, <1>3 DEF IInv, Counted
      <3>2. \A p \in Objects \ {o} : thr'[p].refcount = thr[p].refcount
                 /\ thr'[p].dead = thr[p].dead
        BY <2>5
      <3>3. thr'[o].refcount = thr[o].refcount - 1 /\ thr'[o].dead = thr[o].dead
        BY <1>1, <1>3, <2>5
      <3>4. frame'[t].pc \notin Counted /\ \A u \in Objects : u # t => frame'[u] = frame[u]
        BY <2>4 DEF FrameTo, Counted
      <3>5. t \in Objects /\ o \in Objects BY <1>1, <1>3
      <3> QED BY ONLY <3>1, <3>2, <3>3, <3>4, <3>5, RefsDrop, LifecycleAssumption
    <2>14. UseIsListed'
      <3>1. ASSUME NEW u \in Objects, u # t, frame[u].pc \in InUse PROVE frame[u].obj # o
        <4>1. thr[o].joiner = NULL BY <1>1, <1>3 DEF IInv, JoinsAgree
        <4>2. frame[u].pc \in Counted => frame[u].obj # o
          BY <3>1, <1>1, <1>3, RefsPositive DEF Counted
        <4> QED BY <3>1, <1>1, <1>3, <4>1, <4>2 DEF IInv, JoinsAgree, LocksAgree, Counted
      <3>2. ASSUME NEW u \in Objects, Alive(u) PROVE u # o
        BY <3>2, <1>1, <1>3 DEF IInv, UseIsListed
      <3>3. \A p \in Objects : thr'[p].dead = thr[p].dead BY <2>5
      <3>4. \A u \in Objects : (Alive(u)' => Alive(u)) /\ (frame'[u].pc \in InUse => u # t
                 /\ frame[u].pc \in InUse /\ frame'[u].obj = frame[u].obj)
        BY <1>1, <1>3, <2>4 DEF FrameTo
      <3>5. ASSUME NEW u \in Objects, frame'[u].pc = "link"
          PROVE  /\ frame[u].pc = "link" /\ frame'[u].obj = frame[u].obj /\ frame[u].obj \in Objects
                 /\ Users(frame[u].obj)' = Users(frame[u].obj)
        BY <3>5, <1>1, <1>3, <2>4 DEF FrameTo, Users, IInv, FrameAgrees
      <3>6. \A u \in Objects : frame[u].pc \in InUse => frame[u].obj \in threads
        BY DEF IInv, UseIsListed
      <3>7. \A u \in Objects : Alive(u) => u \in threads /\ ~thr[u].dead
        BY DEF IInv, UseIsListed
      <3>8. \A u \in Objects : frame[u].pc = "link" => ~thr[frame[u].obj].dead
                 /\ Users(frame[u].obj) = {}
        BY DEF IInv, UseIsListed
      <3> HIDE DEF InUse, Alive, Users
      <3>9. threads' = threads \ {o} BY <2>6
      <3>10. ASSUME NEW u \in Objects PROVE (Alive(u) => u \in threads /\ ~thr[u].dead)'
        BY <3>2, <3>3, <3>4, <3>7, <3>9
      <3>11. ASSUME NEW u \in Objects PROVE (frame[u].pc \in InUse => frame[u].obj \in threads)'
        BY <3>1, <3>4, <3>6, <3>9
      <3>12. ASSUME NEW u \in Objects, frame'[u].pc = "link" PROVE ~thr'[frame'[u].obj].dead
                  /\ Users(frame[u].obj)' = {}
        BY <3>3, <3>5, <3>8, <3>12
      <3> QED BY <3>10, <3>11, <3>12 DEF UseIsListed
    <2>15. NoLostWake'
      BY <1>1, <1>3, <2>4, <2>5, <2>6 DEF IInv, FrameTo, MarksKept, NoLostWake, FrameAgrees
    <2> QED BY <2>7, <2>8, <2>9, <2>10, <2>11, <2>12, <2>13, <2>14, <2>15 DEF IInv
  <1> QED BY <1>1, <1>2, <1>3

(* Alloc with nothing to collect. *)
LEMMA CreateAllocOK ==
    ASSUME IInv, ~reused, NEW t \in Objects, Call(t), Goto(t, "alloc"),
        UNCHANGED <<thr, places, list_lock, once, reused>>
    PROVE  IInv'
  <1>1. frame[t].pc = "run" /\ calls' \in 0 .. MaxCalls
    BY DEF Call, IInv, TypeOK, Frames, Pthreads, FrameAgrees, LocksAgree, UseIsListed
  <1>2. /\ frame' = [frame EXCEPT ![t].pc = "alloc"] /\ thr' = thr /\ list_lock' = list_lock
        /\ UNCHANGED <<places, once, reused>>
    BY <1>1 DEF Call
  <1>3. frame' \in [Objects -> Frames]
    <2>1. t \in Objects /\ frame[t] \in Frames BY <1>1 DEF IInv, TypeOK
    <2>2. [frame[t] EXCEPT !.pc = "alloc"] \in Frames
      BY ONLY <2>1, LifecycleAssumption DEF Frames, PCs, Calls
    <2> QED BY <1>1, <2>1, <2>2, <1>2 DEF IInv, TypeOK
  <1>4. thr' \in [Objects -> Pthreads] BY <1>2 DEF IInv, TypeOK
  <1>5. FrameTo(t, "alloc", "none", NULL, {})
    BY <1>1, <1>2 DEF FrameTo, IInv, TypeOK, Frames, FrameAgrees
  <1>6. LocksKept /\ RefsKept /\ JoinsKept /\ MarksKept
    BY <1>1, <1>2 DEF LocksKept, RefsKept, JoinsKept, MarksKept, IInv, TypeOK, Pthreads
  <1>7. list_lock' = list_lock /\ UNCHANGED <<places, once, reused>> BY <1>2
  <1>8. TypeOK' BY <1>1, <1>3, <1>4, <1>7 DEF IInv, TypeOK
  <1>9. OnePlace' BY <1>1, <1>5, <1>6, <1>7, PlacesSame DEF IInv, FrameTo, FrameAgrees
  <1>10. OneInit' BY <1>1, <1>5, <1>6, <1>7 DEF IInv, FrameTo, OneInit
  <1>11. FrameAgrees' BY <1>1, <1>5, <1>6, <1>7 DEF IInv, FrameTo, FrameAgrees
  <1>12. LocksAgree'
    BY <1>1, <1>5, <1>6, <1>7 DEF IInv, FrameTo, LocksKept, LocksAgree, FrameAgrees
  <1>13. JoinsAgree'
    BY <1>1, <1>5, <1>6, <1>7 DEF IInv, FrameTo, JoinsKept, JoinsAgree, FrameAgrees
  <1>14. RefsExact' BY <1>1, <1>5, <1>6, <1>7, RefsSame DEF IInv, FrameTo, Counted
  <1>15. UseIsListed'
    BY <1>1, <1>5, <1>6, <1>7 DEF IInv, FrameTo, RefsKept, UseIsListed, Users, FrameAgrees
  <1>16. NoLostWake'
    BY <1>1, <1>5, <1>6, <1>7 DEF IInv, FrameTo, MarksKept, NoLostWake, FrameAgrees
  <1> QED BY <1>8, <1>9, <1>10, <1>11, <1>12, <1>13, <1>14, <1>15, <1>16 DEF IInv

(* Collect takes the terminated objects. *)
LEMMA CreateCollectOK ==
    ASSUME IInv, ~reused, NEW t \in Objects, Call(t), NEW gone \in SUBSET gc_list, Takes(t, gone)
    PROVE  IInv'
  <1>1. frame[t].pc = "run" /\ calls' \in 0 .. MaxCalls /\ gone \in SUBSET Objects
    BY DEF Call, Takes, OnePlace, IInv, TypeOK, Frames, Pthreads, FrameAgrees, LocksAgree,
       UseIsListed
  <1>2. /\ frame' = [frame EXCEPT ![t].pc = "free", ![t].work = gone] /\ thr' = thr
        /\ list_lock' = list_lock /\ gc_list' = gc_list \ gone
        /\ UNCHANGED <<threads, free_threads, heap, once, reused>>
    BY <1>1 DEF Call, Takes, OnePlace
  <1>3. frame' \in [Objects -> Frames]
    <2>1. t \in Objects /\ frame[t] \in Frames /\ gone \in SUBSET Objects
      BY <1>1 DEF IInv, TypeOK
    <2>2. [frame[t] EXCEPT !.pc = "free", !.work = gone] \in Frames
      BY ONLY <2>1, LifecycleAssumption DEF Frames, PCs, Calls
    <2>3. frame' = [frame EXCEPT ![t] = [frame[t] EXCEPT !.pc = "free", !.work = gone]]
      BY <1>1, <1>2 DEF IInv, TypeOK
    <2> QED BY <1>1, <2>1, <2>2, <2>3 DEF IInv, TypeOK
  <1>4. thr' \in [Objects -> Pthreads] BY <1>2 DEF IInv, TypeOK
  <1>5. FrameTo(t, "free", "none", NULL, gone)
    BY <1>1, <1>2 DEF FrameTo, IInv, TypeOK, Frames, FrameAgrees
  <1>6. LocksKept /\ RefsKept /\ JoinsKept /\ MarksKept
    BY <1>1, <1>2 DEF LocksKept, RefsKept, JoinsKept, MarksKept, IInv, TypeOK, Pthreads
  <1>7. /\ list_lock' = list_lock /\ gc_list' = gc_list \ gone
        /\ UNCHANGED <<threads, free_threads, heap, once, reused>>
    BY <1>2
  <1>8. TypeOK' BY <1>1, <1>3, <1>4, <1>7 DEF IInv, TypeOK
  <1>9. OnePlace'
    <2>1. ASSUME NEW p \in Objects, p \notin gone PROVE Stays(p)
      BY <2>1, <1>1, <1>5, <1>6, <1>7 DEF FrameTo, FrameAgrees, IInv, Stays
    <2>2. ASSUME NEW p \in Objects, p \in gone PROVE Placed(p)'
      <3>1. /\ p \in gc_list /\ p \notin threads /\ p \notin heap
            /\ p \notin Elems(free_threads)
            /\ \A u \in Objects : p \notin frame[u].work /\ ~NewOf(u, p)
        BY <2>2, <1>1 DEF IInv, OnePlace
      <3>2. /\ p \notin gc_list' /\ p \notin threads' /\ p \notin heap'
            /\ p \notin Elems(free_threads)'
        BY <2>2, <3>1, <1>7
      <3>3. /\ p \in frame'[t].work
            /\ \A u \in Objects : ~NewOf(u, p)' /\ (u # t => p \notin frame'[u].work)
        BY <2>2, <3>1, <1>5 DEF FrameTo
      <3> QED BY <3>2, <3>3 DEF Placed, Holds
    <2>3. OnePlace /\ Distinct(free_threads)' BY <1>1, <1>7 DEF IInv, OnePlace, Distinct
    <2>4. threads' \subseteq Objects /\ gc_list' \subseteq Objects /\ heap' \subseteq Objects
      BY <1>1, <1>7 DEF IInv, OnePlace
    <2> QED BY ONLY <2>1, <2>2, <2>3, <2>4, PlacesMove
  <1>10. OneInit' BY <1>1, <1>5, <1>6, <1>7 DEF IInv, FrameTo, OneInit
  <1>11. FrameAgrees' BY <1>1, <1>5, <1>6, <1>7 DEF IInv, FrameTo, FrameAgrees
  <1>12. LocksAgree'
    BY <1>1, <1>5, <1>6, <1>7 DEF IInv, FrameTo, LocksKept, LocksAgree, FrameAgrees
  <1>13. JoinsAgree'
    BY <1>1, <1>5, <1>6, <1>7 DEF IInv, FrameTo, JoinsKept, JoinsAgree, FrameAgrees
  <1>14. RefsExact' BY <1>1, <1>5, <1>6, <1>7, RefsSame DEF IInv, FrameTo, Counted
  <1>15. UseIsListed'
    BY <1>1, <1>5, <1>6, <1>7 DEF IInv, FrameTo, RefsKept, UseIsListed, Users, FrameAgrees
  <1>16. NoLostWake'
    BY <1>1, <1>5, <1>6, <1>7 DEF IInv, FrameTo, MarksKept, NoLostWake, FrameAgrees
  <1> QED BY <1>8, <1>9, <1>10, <1>11, <1>12, <1>13, <1>14, <1>15, <1>16 DEF IInv

(* Collect has freed everything. *)
LEMMA CollectEndOK ==
    ASSUME IInv, ~reused, NEW t \in Objects, At(t, "free"), frame[t].work = {}, Goto(t, "alloc"),
           UNCHANGED <<thr, places, list_lock, once, calls, reused>>
    PROVE  IInv'
  <1>1. frame[t].pc = "free" /\ frame[t].work = {}
    BY DEF IInv, TypeOK, Frames, Pthreads, FrameAgrees, LocksAgree, UseIsListed
  <1>2. /\ frame' = [frame EXCEPT ![t].pc = "alloc"] /\ thr' = thr /\ list_lock' = list_lock
        /\ UNCHANGED <<places, once, calls, reused>>
    BY <1>1
  <1>3. frame' \in [Objects -> Frames]
    <2>1. t \in Objects /\ frame[t] \in Frames BY <1>1 DEF IInv, TypeOK
    <2>2. [frame[t] EXCEPT !.pc = "alloc"] \in Frames
      BY ONLY <2>1, LifecycleAssumption DEF Frames, PCs, Calls
    <2> QED BY <1>1, <2>1, <2>2, <1>2 DEF IInv, TypeOK
  <1>4. thr' \in [Objects -> Pthreads] BY <1>2 DEF IInv, TypeOK
  <1>5. FrameTo(t, "alloc", "none", NULL, {})
    BY <1>1, <1>2 DEF FrameTo, IInv, TypeOK, Frames, FrameAgrees
  <1>6. LocksKept /\ RefsKept /\ JoinsKept /\ MarksKept
    BY <1>1, <1>2 DEF LocksKept, RefsKept, JoinsKept, MarksKept, IInv, TypeOK, Pthreads
  <1>7. list_lock' = list_lock /\ UNCHANGED <<places, once, calls, reused>> BY <1>2
  <1>8. TypeOK' BY <1>3, <1>4, <1>7 DEF IInv, TypeOK
  <1>9. OnePlace' BY <1>1, <1>5, <1>6, <1>7, PlacesSame DEF IInv, FrameTo, FrameAgrees
  <1>10. OneInit' BY <1>1, <1>5, <1>6, <1>7 DEF IInv, FrameTo, OneInit
  <1>11. FrameAgrees' BY <1>1, <1>5, <1>6, <1>7 DEF IInv, FrameTo, FrameAgrees
  <1>12. LocksAgree'
    BY <1>1, <1>5, <1>6, <1>7 DEF IInv, FrameTo, LocksKept, LocksAgree, FrameAgrees
  <1>13. JoinsAgree'
    BY <1>1, <1>5, <1>6, <1>7 DEF IInv, FrameTo, JoinsKept, JoinsAgree, FrameAgrees
  <1>14. RefsExact' BY <1>1, <1>5, <1>6, <1>7, RefsSame DEF IInv, FrameTo, Counted
  <1>15. UseIsListed'
    BY <1>1, <1>5, <1>6, <1>7 DEF IInv, FrameTo, RefsKept, UseIsListed, Users, FrameAgrees
  <1>16. NoLostWake'
    BY <1>1, <1>5, <1>6, <1>7 DEF IInv, FrameTo, MarksKept, NoLostWake, FrameAgrees
  <1> QED BY <1>8, <1>9, <1>10, <1>11, <1>12, <1>13, <1>14, <1>15, <1>16 DEF IInv

(* Collect frees one object. *)
LEMMA FreesOneOK ==
    ASSUME IInv, ~reused, NEW t \in Objects, At(t, "free"), NEW o \in frame[t].work, FreesOne(t, o)
    PROVE  IInv'
  <1>1. /\ frame[t].pc = "free" /\ o \in frame[t].work /\ o \in Objects
        /\ Append(free_threads, o) \in Seq(Objects) /\ Distinct(Append(free_threads, o))
        /\ Elems(Append(free_threads, o)) = Elems(free_threads) \cup {o}
    <2>1. frame[t].pc = "free" /\ o \in frame[t].work /\ o \in Objects
      BY DEF IInv, TypeOK, Frames
    <2>2. /\ free_threads \in Seq(Objects) /\ Distinct(free_threads)
          /\ o \notin Elems(free_threads)
      BY <2>1 DEF IInv, TypeOK, OnePlace, Distinct
    <2>3. /\ Append(free_threads, o) \in Seq(Objects) /\ Distinct(Append(free_threads, o))
          /\ Elems(Append(free_threads, o)) = Elems(free_threads) \cup {o}
      BY <2>1, <2>2, AppendElems
    <2> QED BY <2>1, <2>3
  <1>2. CASE Len(free_threads) >= MaxCached
    <2>1. /\ frame' = [frame EXCEPT ![t].work = @ \ {o}] /\ thr' = thr /\ heap' = heap \cup {o}
          /\ reused' \in BOOLEAN
          /\ UNCHANGED <<free_threads, threads, gc_list, list_lock, once, calls>>
      BY <1>1, <1>2 DEF FreesOne, Free, HeapFree
    <2>2. frame' \in [Objects -> Frames]
      <3>1. t \in Objects /\ frame[t] \in Frames /\ o \in Objects BY <1>1, <1>2 DEF IInv, TypeOK
      <3>2. [frame[t] EXCEPT !.work = @ \ {o}] \in Frames
        BY ONLY <3>1, LifecycleAssumption DEF Frames, PCs, Calls
      <3> QED BY <1>1, <1>2, <3>1, <3>2, <2>1 DEF IInv, TypeOK
    <2>3. thr' \in [Objects -> Pthreads] BY <2>1 DEF IInv, TypeOK
    <2>4. FrameTo(t, "free", "none", NULL, frame[t].work \ {o})
      BY <1>1, <1>2, <2>1 DEF FrameTo, IInv, TypeOK, Frames, FrameAgrees
    <2>5. LocksKept /\ RefsKept /\ JoinsKept /\ MarksKept
      BY <1>1, <1>2, <2>1 DEF LocksKept, RefsKept, JoinsKept, MarksKept, IInv, TypeOK, Pthreads
    <2>6. /\ heap' = heap \cup {o} /\ reused' \in BOOLEAN
          /\ UNCHANGED <<free_threads, threads, gc_list, list_lock, once, calls>>
      BY <2>1
    <2>7. TypeOK' BY <1>1, <1>2, <2>2, <2>3, <2>6 DEF IInv, TypeOK
    <2>8. OnePlace'
      <3>1. ASSUME NEW p \in Objects, p # o PROVE Stays(p)
        BY <3>1, <1>1, <1>2, <2>4, <2>5, <2>6 DEF FrameTo, FrameAgrees, IInv, Stays
      <3>2. Placed(o)'
        <4>1. /\ o \notin gc_list /\ o \notin threads /\ o \notin heap
              /\ o \notin Elems(free_threads)
              /\ \A u \in Objects : (u # t => o \notin frame[u].work) /\ ~NewOf(u, o)
          BY <1>1, <1>2 DEF IInv, OnePlace
        <4>3. \A u \in Objects : o \notin frame'[u].work /\ ~NewOf(u, o)'
          BY <4>1, <1>1, <1>2, <2>4 DEF FrameTo
        <4>2. /\ o \notin gc_list' /\ o \notin threads' /\ o \in heap'
              /\ o \notin Elems(free_threads)'
          BY <4>1, <2>6
        <4> QED BY <4>1, <4>2, <4>3 DEF Placed, Holds
      <3>3. OnePlace /\ Distinct(free_threads)' BY <1>1, <1>2, <2>6 DEF IInv, OnePlace, Distinct
      <3>4. threads' \subseteq Objects /\ gc_list' \subseteq Objects /\ heap' \subseteq Objects
        BY <1>1, <1>2, <2>6 DEF IInv, OnePlace
      <3> QED BY ONLY <3>1, <3>2, <3>3, <3>4, PlacesMove
    <2>9. OneInit' BY <1>1, <1>2, <2>4, <2>5, <2>6 DEF IInv, FrameTo, OneInit
    <2>10. FrameAgrees' BY <1>1, <1>2, <2>4, <2>5, <2>6 DEF IInv, FrameTo, FrameAgrees
    <2>11. LocksAgree'
      BY <1>1, <1>2, <2>4, <2>5, <2>6 DEF IInv, FrameTo, LocksKept, LocksAgree, FrameAgrees
    <2>12. JoinsAgree'
      BY <1>1, <1>2, <2>4, <2>5, <2>6 DEF IInv, FrameTo, JoinsKept, JoinsAgree, FrameAgrees
    <2>13. RefsExact' BY <1>1, <1>2, <2>4, <2>5, <2>6, RefsSame DEF IInv, FrameTo, Counted
    <2>14. UseIsListed'
      BY <1>1, <1>2, <2>4, <2>5, <2>6
         DEF IInv, FrameTo, RefsKept, UseIsListed, Users, FrameAgrees
    <2>15. NoLostWake'
      BY <1>1, <1>2, <2>4, <2>5, <2>6 DEF IInv, FrameTo, MarksKept, NoLostWake, FrameAgrees
    <2> QED BY <2>7, <2>8, <2>9, <2>10, <2>11, <2>12, <2>13, <2>14, <2>15 DEF IInv
  <1>3. CASE ~(Len(free_threads) >= MaxCached)
    <2>1. /\ frame' = [frame EXCEPT ![t].work = @ \ {o}] /\ thr' = thr
          /\ free_threads' = Append(free_threads, o)
          /\ UNCHANGED <<heap, reused, threads, gc_list, list_lock, once, calls>>
      BY <1>1, <1>3 DEF FreesOne, Free, HeapFree
    <2>2. frame' \in [Objects -> Frames]
      <3>1. t \in Objects /\ frame[t] \in Frames /\ o \in Objects BY <1>1, <1>3 DEF IInv, TypeOK
      <3>2. [frame[t] EXCEPT !.work = @ \ {o}] \in Frames
        BY ONLY <3>1, LifecycleAssumption DEF Frames, PCs, Calls
      <3> QED BY <1>1, <1>3, <3>1, <3>2, <2>1 DEF IInv, TypeOK
    <2>3. thr' \in [Objects -> Pthreads] BY <2>1 DEF IInv, TypeOK
    <2>4. FrameTo(t, "free", "none", NULL, frame[t].work \ {o})
      BY <1>1, <1>3, <2>1 DEF FrameTo, IInv, TypeOK, Frames, FrameAgrees
    <2>5. LocksKept /\ RefsKept /\ JoinsKept /\ MarksKept
      BY <1>1, <1>3, <2>1 DEF LocksKept, RefsKept, JoinsKept, MarksKept, IInv, TypeOK, Pthreads
    <2>6. /\ free_threads' = Append(free_threads, o)
          /\ UNCHANGED <<heap, reused, threads, gc_list, list_lock, once, calls>>
      BY <2>1
    <2>7. TypeOK' BY <1>1, <1>3, <2>2, <2>3, <2>6 DEF IInv, TypeOK
    <2>8. OnePlace'
      <3>1. ASSUME NEW p \in Objects, p # o PROVE Stays(p)
        BY <3>1, <1>1, <1>3, <2>4, <2>5, <2>6 DEF FrameTo, FrameAgrees, IInv, Stays
      <3>2. Placed(o)'
        <4>1. /\ o \notin gc_list /\ o \notin threads /\ o \notin heap
              /\ o \notin Elems(free_threads)
              /\ \A u \in Objects : (u # t => o \notin frame[u].work) /\ ~NewOf(u, o)
          BY <1>1, <1>3 DEF IInv, OnePlace
        <4>3. \A u \in Objects : o \notin frame'[u].work /\ ~NewOf(u, o)'
          BY <4>1, <1>1, <1>3, <2>4 DEF FrameTo
        <4>2. /\ o \notin gc_list' /\ o \notin threads' /\ o \notin heap'
              /\ o \in Elems(free_threads)'
          BY <4>1, <1>1, <1>3, <2>6
        <4> QED BY <4>1, <4>2, <4>3 DEF Placed, Holds
      <3>3. OnePlace /\ Distinct(free_threads)' BY <1>1, <1>3, <2>6 DEF IInv, OnePlace, Distinct
      <3>4. threads' \subseteq Objects /\ gc_list' \subseteq Objects /\ heap' \subseteq Objects
        BY <1>1, <1>3, <2>6 DEF IInv, OnePlace
      <3> QED BY ONLY <3>1, <3>2, <3>3, <3>4, PlacesMove
    <2>9. OneInit' BY <1>1, <1>3, <2>4, <2>5, <2>6 DEF IInv, FrameTo, OneInit
    <2>10. FrameAgrees' BY <1>1, <1>3, <2>4, <2>5, <2>6 DEF IInv, FrameTo, FrameAgrees
    <2>11. LocksAgree'
      BY <1>1, <1>3, <2>4, <2>5, <2>6 DEF IInv, FrameTo, LocksKept, LocksAgree, FrameAgrees
    <2>12. JoinsAgree'
      BY <1>1, <1>3, <2>4, <2>5, <2>6 DEF IInv, FrameTo, JoinsKept, JoinsAgree, FrameAgrees
    <2>13. RefsExact' BY <1>1, <1>3, <2>4, <2>5, <2>6, RefsSame DEF IInv, FrameTo, Counted
    <2>14. UseIsListed'
      BY <1>1, <1>3, <2>4, <2>5, <2>6
         DEF IInv, FrameTo, RefsKept, UseIsListed, Users, FrameAgrees
    <2>15. NoLostWake'
      BY <1>1, <1>3, <2>4, <2>5, <2>6 DEF IInv, FrameTo, MarksKept, NoLostWake, FrameAgrees
    <2> QED BY <2>7, <2>8, <2>9, <2>10, <2>11, <2>12, <2>13, <2>14, <2>15 DEF IInv
  <1> QED BY <1>1, <1>2, <1>3

(* The stack of the new thread cannot be had. *)
LEMMA CreateStackFailsOK ==
    ASSUME IInv, ~reused, NEW t \in Objects, CreateStackFails(t)
    PROVE  IInv'
  <1>0. PICK o : o = frame[t].obj OBVIOUS
  <1>1. /\ frame[t].pc = "link" /\ o = frame[t].obj /\ o \in Objects
        /\ Append(free_threads, o) \in Seq(Objects) /\ Distinct(Append(free_threads, o))
        /\ Elems(Append(free_threads, o)) = Elems(free_threads) \cup {o}
    <2>1. frame[t].pc = "link" /\ o = frame[t].obj /\ o \in Objects
      BY <1>0 DEF CreateStackFails, IInv, FrameAgrees
    <2>2. /\ free_threads \in Seq(Objects) /\ Distinct(free_threads)
          /\ o \notin Elems(free_threads)
      BY <2>1 DEF IInv, TypeOK, OnePlace, Distinct
    <2>3. /\ Append(free_threads, o) \in Seq(Objects) /\ Distinct(Append(free_threads, o))
          /\ Elems(Append(free_threads, o)) = Elems(free_threads) \cup {o}
      BY <2>1, <2>2, AppendElems
    <2> QED BY <2>1, <2>3
  <1>2. CASE Len(free_threads) >= MaxCached
    <2>1. /\ frame' = [frame EXCEPT ![t] = Frame("run")] /\ thr' = thr /\ heap' = heap \cup {o}
          /\ reused' \in BOOLEAN
          /\ UNCHANGED <<free_threads, threads, gc_list, list_lock, once, calls>>
      BY <1>1, <1>2 DEF CreateStackFails, Free, HeapFree
    <2>2. frame' \in [Objects -> Frames]
      <3>1. t \in Objects BY <1>1, <1>2 DEF IInv, TypeOK
      <3>2. Frame("run") \in Frames BY ONLY <3>1, LifecycleAssumption DEF Frames, PCs, Calls
      <3> QED BY <1>1, <1>2, <3>1, <3>2, <2>1 DEF IInv, TypeOK
    <2>3. thr' \in [Objects -> Pthreads] BY <2>1 DEF IInv, TypeOK
    <2>4. FrameTo(t, "run", "none", NULL, {})
      BY <1>1, <1>2, <2>1 DEF FrameTo, IInv, TypeOK, Frames, FrameAgrees
    <2>5. LocksKept /\ RefsKept /\ JoinsKept /\ MarksKept
      BY <1>1, <1>2, <2>1 DEF LocksKept, RefsKept, JoinsKept, MarksKept, IInv, TypeOK, Pthreads
    <2>6. /\ heap' = heap \cup {o} /\ reused' \in BOOLEAN
          /\ UNCHANGED <<free_threads, threads, gc_list, list_lock, once, calls>>
      BY <2>1
    <2>7. TypeOK' BY <1>1, <1>2, <2>2, <2>3, <2>6 DEF IInv, TypeOK
    <2>8. OnePlace'
      <3>1. ASSUME NEW p \in Objects, p # o PROVE Stays(p)
        BY <3>1, <1>1, <1>2, <2>4, <2>5, <2>6 DEF FrameTo, FrameAgrees, IInv, Stays
      <3>2. Placed(o)'
        <4>1. /\ o \notin gc_list /\ o \notin threads /\ o \notin heap
              /\ o \notin Elems(free_threads)
              /\ \A u \in Objects : (u # t => ~NewOf(u, o)) /\ o \notin frame[u].work
          BY <1>1, <1>2 DEF IInv, OnePlace
        <4>3. \A u \in Objects : o \notin frame'[u].work /\ ~NewOf(u, o)'
          BY <4>1, <1>1, <1>2, <2>4 DEF FrameTo
        <4>2. /\ o \notin gc_list' /\ o \notin threads' /\ o \in heap'
              /\ o \notin Elems(free_threads)'
          BY <4>1, <2>6
        <4> QED BY <4>1, <4>2, <4>3 DEF Placed, Holds
      <3>3. OnePlace /\ Distinct(free_threads)' BY <1>1, <1>2, <2>6 DEF IInv, OnePlace, Distinct
      <3>4. threads' \subseteq Objects /\ gc_list' \subseteq Objects /\ heap' \subseteq Objects
        BY <1>1, <1>2, <2>6 DEF IInv, OnePlace
      <3> QED BY ONLY <3>1, <3>2, <3>3, <3>4, PlacesMove
    <2>9. OneInit' BY <1>1, <1>2, <2>4, <2>5, <2>6 DEF IInv, FrameTo, OneInit
    <2>10. FrameAgrees' BY <1>1, <1>2, <2>4, <2>5, <2>6 DEF IInv, FrameTo, FrameAgrees
    <2>11. LocksAgree'
      BY <1>1, <1>2, <2>4, <2>5, <2>6 DEF IInv, FrameTo, LocksKept, LocksAgree, FrameAgrees
    <2>12. JoinsAgree'
      BY <1>1, <1>2, <2>4, <2>5, <2>6 DEF IInv, FrameTo, JoinsKept, JoinsAgree, FrameAgrees
    <2>13. RefsExact' BY <1>1, <1>2, <2>4, <2>5, <2>6, RefsSame DEF IInv, FrameTo, Counted
    <2>14. UseIsListed'
      BY <1>1, <1>2, <2>4, <2>5, <2>6
         DEF IInv, FrameTo, RefsKept, UseIsListed, Users, FrameAgrees
    <2>15. NoLostWake'
      BY <1>1, <1>2, <2>4, <2>5, <2>6 DEF IInv, FrameTo, MarksKept, NoLostWake, FrameAgrees
    <2> QED BY <2>7, <2>8, <2>9, <2>10, <2>11, <2>12, <2>13, <2>14, <2>15 DEF IInv
  <1>3. CASE ~(Len(free_threads) >= MaxCached)
    <2>1. /\ frame' = [frame EXCEPT ![t] = Frame("run")] /\ thr' = thr
          /\ free_threads' = Append(free_threads, o)
          /\ UNCHANGED <<heap, reused, threads, gc_list, list_lock, once, calls>>
      BY <1>1, <1>3 DEF CreateStackFails, Free, HeapFree
    <2>2. frame' \in [Objects -> Frames]
      <3>1. t \in Objects BY <1>1, <1>3 DEF IInv, TypeOK
      <3>2. Frame("run") \in Frames BY ONLY <3>1, LifecycleAssumption DEF Frames, PCs, Calls
      <3> QED BY <1>1, <1>3, <3>1, <3>2, <2>1 DEF IInv, TypeOK
    <2>3. thr' \in [Objects -> Pthreads] BY <2>1 DEF IInv, TypeOK
    <2>4. FrameTo(t, "run", "none", NULL, {})
      BY <1>1, <1>3, <2>1 DEF FrameTo, IInv, TypeOK, Frames, FrameAgrees
    <2>5. LocksKept /\ RefsKept /\ JoinsKept /\ MarksKept
      BY <1>1, <1>3, <2>1 DEF LocksKept, RefsKept, JoinsKept, MarksKept, IInv, TypeOK, Pthreads
    <2>6. /\ free_threads' = Append(free_threads, o)
          /\ UNCHANGED <<heap, reused, threads, gc_list, list_lock, once, calls>>
      BY <2>1
    <2>7. TypeOK' BY <1>1, <1>3, <2>2, <2>3, <2>6 DEF IInv, TypeOK
    <2>8. OnePlace'
      <3>1. ASSUME NEW p \in Objects, p # o PROVE Stays(p)
        BY <3>1, <1>1, <1>3, <2>4, <2>5, <2>6 DEF FrameTo, FrameAgrees, IInv, Stays
      <3>2. Placed(o)'
        <4>1. /\ o \notin gc_list /\ o \notin threads /\ o \notin heap
              /\ o \notin Elems(free_threads)
              /\ \A u \in Objects : (u # t => ~NewOf(u, o)) /\ o \notin frame[u].work
          BY <1>1, <1>3 DEF IInv, OnePlace
        <4>3. \A u \in Objects : o \notin frame'[u].work /\ ~NewOf(u, o)'
          BY <4>1, <1>1, <1>3, <2>4 DEF FrameTo
        <4>2. /\ o \notin gc_list' /\ o \notin threads' /\ o \notin heap'
              /\ o \in Elems(free_threads)'
          BY <4>1, <1>1, <1>3, <2>6
        <4> QED BY <4>1, <4>2, <4>3 DEF Placed, Holds
      <3>3. OnePlace /\ Distinct(free_threads)' BY <1>1, <1>3, <2>6 DEF IInv, OnePlace, Distinct
      <3>4. threads' \subseteq Objects /\ gc_list' \subseteq Objects /\ heap' \subseteq Objects
        BY <1>1, <1>3, <2>6 DEF IInv, OnePlace
      <3> QED BY ONLY <3>1, <3>2, <3>3, <3>4, PlacesMove
    <2>9. OneInit' BY <1>1, <1>3, <2>4, <2>5, <2>6 DEF IInv, FrameTo, OneInit
    <2>10. FrameAgrees' BY <1>1, <1>3, <2>4, <2>5, <2>6 DEF IInv, FrameTo, FrameAgrees
    <2>11. LocksAgree'
      BY <1>1, <1>3, <2>4, <2>5, <2>6 DEF IInv, FrameTo, LocksKept, LocksAgree, FrameAgrees
    <2>12. JoinsAgree'
      BY <1>1, <1>3, <2>4, <2>5, <2>6 DEF IInv, FrameTo, JoinsKept, JoinsAgree, FrameAgrees
    <2>13. RefsExact' BY <1>1, <1>3, <2>4, <2>5, <2>6, RefsSame DEF IInv, FrameTo, Counted
    <2>14. UseIsListed'
      <3>1. threads' = threads /\ reused' = reused BY <2>6
      <3>2. frame[t].pc = "link" BY <1>1, <1>3
      <3> QED
        BY ONLY IInv, ~reused, t \in Objects, LifecycleAssumption, <3>1, <3>2, <2>4, <2>5
           DEF IInv, FrameTo, LocksKept, RefsKept, JoinsKept, MarksKept, UseIsListed, Users,
               FrameAgrees
    <2>15. NoLostWake'
      BY <1>1, <1>3, <2>4, <2>5, <2>6 DEF IInv, FrameTo, MarksKept, NoLostWake, FrameAgrees
    <2> QED BY <2>7, <2>8, <2>9, <2>10, <2>11, <2>12, <2>13, <2>14, <2>15 DEF IInv
  <1> QED BY <1>1, <1>2, <1>3

(* Alloc constructs the object it took. *)
LEMMA BuildsOK ==
    ASSUME IInv, ~reused, NEW t \in Objects, At(t, "alloc"), NEW o \in Objects, NEW d \in BOOLEAN,
           o \in heap \/ o \in Elems(free_threads),
           heap' = heap \ {o}, Elems(free_threads)' = Elems(free_threads) \ {o},
           Distinct(free_threads)', free_threads' \in Seq(Objects),
           Builds(t, o, d)
    PROVE  IInv'
  <1>1. /\ frame[t].pc = "alloc" /\ o \in Objects /\ d \in BOOLEAN /\ o # t
             /\ o \notin threads /\ o \notin gc_list
        /\ frame[o].pc \notin Waiting \cup {"init", "oblocked"} /\ ~Alive(o)
        /\ \A u \in Objects : /\ ~(frame[u].pc \in InUse /\ frame[u].obj = o)
                            /\ o \notin frame[u].work /\ ~NewOf(u, o)
    <2>1. /\ o \notin threads /\ o \notin gc_list
          /\ \A u \in Objects : o \notin frame[u].work /\ ~NewOf(u, o)
      BY DEF IInv, OnePlace
    <2>2. ~Alive(o) BY <2>1 DEF IInv, UseIsListed
    <2> QED BY <2>1, <2>2 DEF IInv, UseIsListed, Builds
  <1>2. /\ frame' = [frame EXCEPT ![t].pc = "link", ![t].obj = o]
        /\ thr' = [thr EXCEPT ![o] = New(d)] /\ list_lock' = list_lock
        /\ reused' = (Users(o) # {}) /\ UNCHANGED <<threads, gc_list, once, calls>>
    BY <1>1 DEF Builds
  <1>3. frame' \in [Objects -> Frames]
    <2>1. t \in Objects /\ frame[t] \in Frames /\ o \in Objects BY <1>1 DEF IInv, TypeOK
    <2>2. [frame[t] EXCEPT !.pc = "link", !.obj = o] \in Frames
      BY ONLY <2>1, LifecycleAssumption DEF Frames, PCs, Calls
    <2>3. frame' = [frame EXCEPT ![t] = [frame[t] EXCEPT !.pc = "link", !.obj = o]]
      BY <1>1, <1>2 DEF IInv, TypeOK
    <2> QED BY <1>1, <2>1, <2>2, <2>3 DEF IInv, TypeOK
  <1>4. thr' \in [Objects -> Pthreads]
    <2>1. t \in Objects BY <1>1 DEF IInv, TypeOK
    <2>2. New(d) \in Pthreads BY ONLY <2>1, LifecycleAssumption DEF Pthreads
    <2> QED BY <1>1, <2>1, <2>2, <1>2 DEF IInv, TypeOK
  <1>5. FrameTo(t, "link", "none", o, {})
    BY <1>1, <1>2 DEF FrameTo, IInv, TypeOK, Frames, FrameAgrees
  <1>6. /\ thr'[o].lock = NULL /\ thr'[o].refcount = 1 /\ ~thr'[o].dead /\ thr'[o].joiner = NULL
        /\ thr'[o].join_target = NULL /\ ~thr'[o].terminated /\ ~thr'[o].cancel_pending
        /\ \A p \in Objects : p # o => thr'[p] = thr[p]
    <2>1. thr'[o] = New(d) /\ \A p \in Objects : p # o => thr'[p] = thr[p]
      BY <1>1, <1>2 DEF IInv, TypeOK
    <2> QED BY ONLY <2>1
  <1>7. /\ list_lock' = list_lock /\ reused' = (Users(o) # {})
        /\ UNCHANGED <<threads, gc_list, once, calls>>
    BY <1>2
  <1>8. TypeOK' BY <1>3, <1>4, <1>7 DEF IInv, TypeOK
  <1>9. OnePlace'
    <2>1. ASSUME NEW p \in Objects, p # o PROVE Stays(p)
      BY <2>1, <1>1, <1>5, <1>6, <1>7 DEF FrameTo, FrameAgrees, IInv, Stays
    <2>2. Placed(o)'
      <3>1. /\ o \notin gc_list' /\ o \notin threads' /\ o \notin heap'
            /\ o \notin Elems(free_threads)'
        BY <1>1, <1>7
      <3>2. /\ NewOf(t, o)'
            /\ \A u \in Objects : o \notin frame'[u].work /\ (NewOf(u, o)' => u = t)
        BY <1>1, <1>5 DEF FrameTo, IInv, FrameAgrees
      <3> QED BY <3>1, <3>2 DEF Placed, Holds
    <2>3. OnePlace BY DEF IInv
    <2>4. threads' \subseteq Objects /\ gc_list' \subseteq Objects /\ heap' \subseteq Objects
      BY <1>1, <1>7 DEF IInv, OnePlace
    <2> QED BY <2>1, <2>2, <2>3, <2>4, PlacesMove
  <1>10. OneInit' BY <1>1, <1>5, <1>6, <1>7 DEF IInv, FrameTo, OneInit
  <1>11. FrameAgrees' BY <1>1, <1>5, <1>6, <1>7 DEF IInv, FrameTo, FrameAgrees
  <1>12. LocksAgree'
    <2>1. ASSUME NEW u \in Objects, frame[u].obj = o, frame[u].pc = "tc_unlock" PROVE reused'
      BY <2>1, <1>7 DEF Users
    <2> QED BY <1>1, <2>1, <1>5, <1>6, <1>7 DEF IInv, FrameTo, LocksAgree, FrameAgrees
  <1>13. JoinsAgree' BY <1>1, <1>5, <1>6, <1>7 DEF IInv, FrameTo, JoinsAgree, FrameAgrees
  <1>14. RefsExact'
    <2>1. Refs(o)' = {} BY <1>1, <1>5, <1>7 DEF FrameTo, Refs
    <2>2. \A p \in Objects \ {o} : Refs(p)' = Refs(p) BY <1>1, <1>5 DEF FrameTo, Refs
    <2>3. IsFiniteSet(Refs(o)') /\ Cardinality(Refs(o)') = 0 BY <2>1, FS_EmptySet
    <2>4. RefsExact BY DEF IInv
    <2>5. thr'[o].refcount = Cardinality(Refs(o)') + (IF thr'[o].dead THEN 0 ELSE 1)
      BY ONLY <2>3, <1>6
    <2>6. /\ o \in Objects
          /\ \A p \in Objects \ {o} : thr'[p].refcount = thr[p].refcount
               /\ thr'[p].dead = thr[p].dead
      BY <1>1, <1>6
    <2> QED BY ONLY <2>2, <2>3, <2>4, <2>5, <2>6, RefsOf
  <1>15. UseIsListed'
    <2>1. ASSUME NEW u \in Objects, Alive(u)' PROVE u \in threads' /\ ~thr'[u].dead
      BY <2>1, <1>1, <1>5, <1>6, <1>7 DEF IInv, FrameTo, UseIsListed
    <2>2. ASSUME NEW u \in Objects, frame'[u].pc \in InUse PROVE frame'[u].obj \in threads'
      BY <2>2, <1>1, <1>5, <1>7 DEF IInv, FrameTo, UseIsListed
    <2>3. Users(o)' = Users(o) BY <1>1, <1>5 DEF Users, FrameTo, IInv, FrameAgrees
    <2>4. ASSUME NEW u \in Objects, u # t, At(u, "link")'
          PROVE  ~thr'[frame'[u].obj].dead /\ (~reused' => Users(frame[u].obj)' = {})
      <3>1. PICK p : p = frame[u].obj OBVIOUS
      <3>2. frame'[u] = frame[u] /\ frame[u].pc = "link" BY <2>4, <1>5 DEF FrameTo
      <3>3. p \in Objects /\ p # o /\ Users(p) = {} /\ ~thr[p].dead
        BY <3>1, <3>2, <1>1 DEF IInv, FrameAgrees, UseIsListed
      <3>4. Users(p)' = {} BY <3>3, <1>1, <1>5 DEF Users, FrameTo, IInv, FrameAgrees
      <3> QED BY <3>1, <3>2, <3>3, <3>4, <1>6
    <2>5. \A u \in Objects : u # t => frame'[u] = frame[u] BY <1>5 DEF FrameTo
    <2>6. frame'[t].obj = o BY <1>5 DEF FrameTo
    <2>7. reused' = (Users(o) # {}) BY <1>7
    <2> QED
      BY ONLY <2>1, <2>2, <2>3, <2>4, <2>5, <2>6, <2>7, <1>6, t \in Objects DEF UseIsListed, At
  <1>16. NoLostWake'
    BY <1>1, <1>5, <1>6, <1>7 DEF IInv, FrameTo, NoLostWake, FrameAgrees, UseIsListed
  <1> QED BY <1>8, <1>9, <1>10, <1>11, <1>12, <1>13, <1>14, <1>15, <1>16 DEF IInv

(* Alloc finds the heap empty. *)
LEMMA AllocNothingOK ==
    ASSUME IInv, ~reused, NEW t \in Objects, At(t, "alloc"), Return(t),
        UNCHANGED <<thr, places, list_lock, once, calls, reused>>
    PROVE  IInv'
  <1>1. frame[t].pc = "alloc"
    BY DEF IInv, TypeOK, Frames, Pthreads, FrameAgrees, LocksAgree, UseIsListed
  <1>2. /\ frame' = [frame EXCEPT ![t] = Frame("run")] /\ thr' = thr /\ list_lock' = list_lock
        /\ UNCHANGED <<places, once, calls, reused>>
    BY <1>1
  <1>3. frame' \in [Objects -> Frames]
    <2>1. t \in Objects BY <1>1 DEF IInv, TypeOK
    <2>2. Frame("run") \in Frames BY ONLY <2>1, LifecycleAssumption DEF Frames, PCs, Calls
    <2> QED BY <1>1, <2>1, <2>2, <1>2 DEF IInv, TypeOK
  <1>4. thr' \in [Objects -> Pthreads] BY <1>2 DEF IInv, TypeOK
  <1>5. FrameTo(t, "run", "none", NULL, {})
    BY <1>1, <1>2 DEF FrameTo, IInv, TypeOK, Frames, FrameAgrees
  <1>6. LocksKept /\ RefsKept /\ JoinsKept /\ MarksKept
    BY <1>1, <1>2 DEF LocksKept, RefsKept, JoinsKept, MarksKept, IInv, TypeOK, Pthreads
  <1>7. list_lock' = list_lock /\ UNCHANGED <<places, once, calls, reused>> BY <1>2
  <1>8. TypeOK' BY <1>3, <1>4, <1>7 DEF IInv, TypeOK
  <1>9. OnePlace' BY <1>1, <1>5, <1>6, <1>7, PlacesSame DEF IInv, FrameTo, FrameAgrees
  <1>10. OneInit' BY <1>1, <1>5, <1>6, <1>7 DEF IInv, FrameTo, OneInit
  <1>11. FrameAgrees' BY <1>1, <1>5, <1>6, <1>7 DEF IInv, FrameTo, FrameAgrees
  <1>12. LocksAgree'
    BY <1>1, <1>5, <1>6, <1>7 DEF IInv, FrameTo, LocksKept, LocksAgree, FrameAgrees
  <1>13. JoinsAgree'
    BY <1>1, <1>5, <1>6, <1>7 DEF IInv, FrameTo, JoinsKept, JoinsAgree, FrameAgrees
  <1>14. RefsExact' BY <1>1, <1>5, <1>6, <1>7, RefsSame DEF IInv, FrameTo, Counted
  <1>15. UseIsListed'
    BY <1>1, <1>5, <1>6, <1>7 DEF IInv, FrameTo, RefsKept, UseIsListed, Users, FrameAgrees
  <1>16. NoLostWake'
    BY <1>1, <1>5, <1>6, <1>7 DEF IInv, FrameTo, MarksKept, NoLostWake, FrameAgrees
  <1> QED BY <1>8, <1>9, <1>10, <1>11, <1>12, <1>13, <1>14, <1>15, <1>16 DEF IInv

(* TcbCtor fails: the object goes to the heap. *)
LEMMA AllocGivesBackOK ==
    ASSUME IInv, ~reused, NEW t \in Objects, At(t, "alloc"), NEW o \in Objects,
           o \in Elems(free_threads), HeapFree(o), Return(t),
               Elems(free_threads)' = Elems(free_threads) \ {o},
           Distinct(free_threads)', free_threads' \in Seq(Objects),
           UNCHANGED <<thr, threads, gc_list, list_lock, once, calls>>
    PROVE  IInv'
  <1>1. /\ frame[t].pc = "alloc" /\ o \in Objects /\ o \notin threads /\ o \notin gc_list
        /\ \A u \in Objects : o \notin frame[u].work /\ ~NewOf(u, o)
    <2>1. /\ o \notin threads /\ o \notin gc_list
          /\ \A u \in Objects : o \notin frame[u].work /\ ~NewOf(u, o)
      BY DEF IInv, OnePlace
    <2> QED BY <2>1
  <1>2. /\ frame' = [frame EXCEPT ![t] = Frame("run")] /\ thr' = thr /\ list_lock' = list_lock
        /\ heap' = heap \cup {o} /\ reused' \in BOOLEAN
        /\ UNCHANGED <<threads, gc_list, once, calls>>
    BY <1>1 DEF HeapFree
  <1>3. frame' \in [Objects -> Frames]
    <2>1. t \in Objects BY <1>1 DEF IInv, TypeOK
    <2>2. Frame("run") \in Frames BY ONLY <2>1, LifecycleAssumption DEF Frames, PCs, Calls
    <2> QED BY <1>1, <2>1, <2>2, <1>2 DEF IInv, TypeOK
  <1>4. thr' \in [Objects -> Pthreads] BY <1>2 DEF IInv, TypeOK
  <1>5. FrameTo(t, "run", "none", NULL, {})
    BY <1>1, <1>2 DEF FrameTo, IInv, TypeOK, Frames, FrameAgrees
  <1>6. LocksKept /\ RefsKept /\ JoinsKept /\ MarksKept
    BY <1>1, <1>2 DEF LocksKept, RefsKept, JoinsKept, MarksKept, IInv, TypeOK, Pthreads
  <1>7. /\ list_lock' = list_lock /\ heap' = heap \cup {o} /\ reused' \in BOOLEAN
        /\ UNCHANGED <<threads, gc_list, once, calls>>
    BY <1>2
  <1>8. TypeOK' BY <1>3, <1>4, <1>7 DEF IInv, TypeOK
  <1>9. OnePlace'
    <2>1. ASSUME NEW p \in Objects, p # o PROVE Stays(p)
      BY <2>1, <1>1, <1>5, <1>6, <1>7 DEF FrameTo, FrameAgrees, IInv, Stays
    <2>2. Placed(o)'
      <3>1. /\ o \notin gc_list' /\ o \notin threads' /\ o \in heap'
            /\ o \notin Elems(free_threads)'
        BY <1>1, <1>7
      <3>2. \A u \in Objects : o \notin frame'[u].work /\ ~NewOf(u, o)'
        BY <1>1, <1>5 DEF FrameTo, IInv, FrameAgrees
      <3> QED BY <3>1, <3>2 DEF Placed, Holds
    <2>3. OnePlace BY DEF IInv
    <2>4. threads' \subseteq Objects /\ gc_list' \subseteq Objects /\ heap' \subseteq Objects
      BY <1>1, <1>7 DEF IInv, OnePlace
    <2> QED BY <2>1, <2>2, <2>3, <2>4, PlacesMove
  <1>10. OneInit' BY <1>1, <1>5, <1>6, <1>7 DEF IInv, FrameTo, OneInit
  <1>11. FrameAgrees' BY <1>1, <1>5, <1>6, <1>7 DEF IInv, FrameTo, FrameAgrees
  <1>12. LocksAgree'
    BY <1>1, <1>5, <1>6, <1>7 DEF IInv, FrameTo, LocksKept, LocksAgree, FrameAgrees
  <1>13. JoinsAgree'
    BY <1>1, <1>5, <1>6, <1>7 DEF IInv, FrameTo, JoinsKept, JoinsAgree, FrameAgrees
  <1>14. RefsExact' BY <1>1, <1>5, <1>6, <1>7, RefsSame DEF IInv, FrameTo, Counted
  <1>15. UseIsListed'
    BY <1>1, <1>5, <1>6, <1>7 DEF IInv, FrameTo, RefsKept, UseIsListed, Users, FrameAgrees
  <1>16. NoLostWake'
    BY <1>1, <1>5, <1>6, <1>7 DEF IInv, FrameTo, MarksKept, NoLostWake, FrameAgrees
  <1> QED BY <1>8, <1>9, <1>10, <1>11, <1>12, <1>13, <1>14, <1>15, <1>16 DEF IInv

(* The new object is listed and its thread starts. *)
LEMMA LinkOK ==
    ASSUME IInv, ~reused, NEW t \in Objects, Link(t)
    PROVE  IInv'
  <1>0. PICK o : o = frame[t].obj OBVIOUS
  <1>1. /\ frame[t].pc = "link" /\ frame[t].obj = o /\ frame[t].call = "none"
        /\ frame[t].work = {} /\ o \in Objects /\ o # t /\ list_lock = NULL /\ ~thr[o].dead
        /\ Users(o) = {} /\ frame[o].pc = "none" /\ frame[o].call = "none"
        /\ frame[o].obj = NULL /\ frame[o].work = {}
        /\ \A u \in Objects : frame[u].obj = o => frame[u].pc = "link"
    <2>1. frame[t].pc = "link" /\ o \in Objects /\ list_lock = NULL
      BY <1>0 DEF Link, IInv, FrameAgrees
    <2>2. Users(o) = {} /\ ~thr[o].dead BY <1>0, <2>1 DEF IInv, UseIsListed
    <2>3. /\ o # t /\ frame[o].pc = "none"
          /\ \A u \in Objects : frame[u].obj = o => frame[u].pc = "link"
      BY <2>1, <2>2 DEF Users
    <2>4. frame[o].call = "none" /\ frame[o].obj = NULL /\ frame[o].work = {}
      BY <2>1, <2>3 DEF IInv, FrameAgrees
    <2>5. frame[t].call = "none" /\ frame[t].work = {} BY <2>1 DEF IInv, FrameAgrees
    <2> QED BY <1>0, <2>1, <2>2, <2>3, <2>4, <2>5
  <1>2. CASE frame' = [frame EXCEPT ![t] = Frame("run"), ![o] = Frame("run")]
    <2>1. /\ frame' = [frame EXCEPT ![t] = Frame("run"), ![o] = Frame("run")] /\ thr' = thr
          /\ list_lock' = list_lock /\ threads' = threads \cup {o}
          /\ UNCHANGED <<gc_list, free_threads, heap, once, calls, reused>>
      BY <1>1, <1>2 DEF Link
    <2>2. frame' \in [Objects -> Frames]
      <3>1. t \in Objects BY <1>1, <1>2 DEF IInv, TypeOK
      <3>2. Frame("run") \in Frames BY ONLY <3>1, LifecycleAssumption DEF Frames, PCs, Calls
      <3>3. t \in Objects BY <1>1, <1>2 DEF IInv, TypeOK
      <3>4. Frame("run") \in Frames BY ONLY <3>3, LifecycleAssumption DEF Frames, PCs, Calls
      <3>5. frame' = [frame EXCEPT ![t] = Frame("run"), ![o] = Frame("run")]
        BY <1>1, <1>2, <2>1 DEF IInv, TypeOK
      <3> QED BY <1>1, <1>2, <3>1, <3>2, <3>3, <3>4, <3>5 DEF IInv, TypeOK
    <2>3. thr' \in [Objects -> Pthreads] BY <2>1 DEF IInv, TypeOK
    <2>4. /\ frame'[t].pc = "run" /\ frame'[t].call = "none" /\ frame'[t].obj = NULL
          /\ frame'[t].work = {} /\ frame'[o].pc = "run" /\ frame'[o].call = "none"
          /\ frame'[o].obj = NULL /\ frame'[o].work = {}
          /\ \A u \in Objects : u # t /\ u # o => frame'[u] = frame[u]
      BY <1>1, <1>2, <2>1 DEF FrameTo, IInv, TypeOK, Frames, FrameAgrees
    <2>5. LocksKept /\ RefsKept /\ JoinsKept /\ MarksKept
      BY <1>1, <1>2, <2>1 DEF LocksKept, RefsKept, JoinsKept, MarksKept, IInv, TypeOK, Pthreads
    <2>6. /\ list_lock' = list_lock /\ threads' = threads \cup {o}
          /\ UNCHANGED <<gc_list, free_threads, heap, once, calls, reused>>
      BY <2>1
    <2>7. TypeOK' BY <2>2, <2>3, <2>6 DEF IInv, TypeOK
    <2>8. OnePlace'
      <3>1. ASSUME NEW p \in Objects, p # o PROVE Stays(p)
        BY <3>1, <1>1, <2>4, <2>5, <2>6 DEF FrameAgrees, IInv, Stays
      <3>2. Placed(o)'
        <4>0. /\ o \notin gc_list /\ o \notin heap /\ o \notin Elems(free_threads)
              /\ \A u \in Objects : o \notin frame[u].work /\ (u # t => ~NewOf(u, o))
          BY <1>1 DEF IInv, OnePlace
        <4>1. /\ o \notin gc_list' /\ o \in threads' /\ o \notin heap'
              /\ o \notin Elems(free_threads)'
          BY <4>0, <2>6
        <4>2. \A u \in Objects : o \notin frame'[u].work /\ ~NewOf(u, o)' BY <4>0, <1>1, <2>4
        <4> QED BY <4>1, <4>2 DEF Placed, Holds
      <3>3. OnePlace /\ Distinct(free_threads)' BY <2>6 DEF IInv, OnePlace, Distinct
      <3>4. threads' \subseteq Objects /\ gc_list' \subseteq Objects /\ heap' \subseteq Objects
        BY <1>1, <2>6 DEF IInv, OnePlace
      <3> QED BY ONLY <3>1, <3>2, <3>3, <3>4, PlacesMove
    <2>9. OneInit'
      BY <1>1, <2>4, <2>5, <2>6 DEF IInv, LocksKept, RefsKept, JoinsKept, MarksKept, OneInit
    <2>10. FrameAgrees'
      BY <1>1, <2>4, <2>5, <2>6 DEF IInv, LocksKept, RefsKept, JoinsKept, MarksKept, FrameAgrees
    <2>11. LocksAgree'
      BY <1>1, <2>4, <2>5, <2>6
         DEF IInv, LocksKept, RefsKept, JoinsKept, MarksKept, LocksAgree, FrameAgrees
    <2>12. JoinsAgree'
      BY <1>1, <2>4, <2>5, <2>6
         DEF IInv, LocksKept, RefsKept, JoinsKept, MarksKept, JoinsAgree, FrameAgrees
    <2>13. RefsExact'
      <3>1. RefsExact /\ RefsKept BY <2>5 DEF IInv
      <3>2. \A u \in Objects : frame'[u].pc \in Counted <=> frame[u].pc \in Counted
        BY <1>1, <2>4 DEF Counted
      <3>3. \A u \in Objects : frame[u].pc \in Counted => frame'[u].obj = frame[u].obj
        BY <1>1, <2>4 DEF Counted
      <3> QED BY ONLY <3>1, <3>2, <3>3, RefsSame
    <2>14. UseIsListed'
      <3>1. ASSUME NEW u \in Objects, Alive(u)' PROVE u \in threads' /\ ~thr'[u].dead
        BY <3>1, <1>1, <2>4, <2>5, <2>6 DEF IInv, UseIsListed, RefsKept
      <3>2. ASSUME NEW u \in Objects, frame'[u].pc \in InUse PROVE frame'[u].obj \in threads'
        BY <3>2, <1>1, <2>4, <2>6 DEF IInv, UseIsListed
      <3>3. ASSUME NEW u \in Objects, At(u, "link")'
            PROVE  ~thr'[frame'[u].obj].dead /\ Users(frame[u].obj)' = {}
        <4>1. PICK p : p = frame[u].obj OBVIOUS
        <4>2. frame'[u] = frame[u] /\ frame[u].pc = "link" /\ u # t BY <3>3, <2>4
        <4>3. p \in Objects /\ Users(p) = {} /\ ~thr[p].dead
          BY <4>1, <4>2, <1>1 DEF IInv, FrameAgrees, UseIsListed
        <4>4. p # o BY <4>1, <4>2, <1>1 DEF IInv, OnePlace
        <4>5. p # t BY <4>3, <1>1 DEF Users
        <4>6. Users(p)' = {} BY <4>3, <4>4, <4>5, <1>1, <2>4 DEF Users
        <4> QED BY <4>1, <4>2, <4>3, <4>6, <2>5 DEF RefsKept
      <3>4. \A u \in Objects : At(u, "link")' => frame'[u] = frame[u] BY <1>1, <2>4
      <3> QED BY ONLY <3>1, <3>2, <3>3, <3>4 DEF UseIsListed, At
    <2>15. NoLostWake'
      BY <1>1, <2>4, <2>5, <2>6
         DEF IInv, LocksKept, RefsKept, JoinsKept, MarksKept, NoLostWake, FrameAgrees
    <2> QED BY <2>7, <2>8, <2>9, <2>10, <2>11, <2>12, <2>13, <2>14, <2>15 DEF IInv
  <1>3. CASE frame' = [frame EXCEPT ![t] = [frame[t] EXCEPT !.pc = "affinity"], ![o] = Frame("run")]
    <2>1. /\ frame' = [frame EXCEPT ![t] = [frame[t] EXCEPT !.pc = "affinity"], ![o] = Frame("run")]
          /\ thr' = thr /\ list_lock' = list_lock /\ threads' = threads \cup {o}
          /\ UNCHANGED <<gc_list, free_threads, heap, once, calls, reused>>
      BY <1>1, <1>3 DEF Link
    <2>2. frame' \in [Objects -> Frames]
      <3>1. t \in Objects /\ frame[t] \in Frames BY <1>1, <1>3 DEF IInv, TypeOK
      <3>2. [frame[t] EXCEPT !.pc = "affinity"] \in Frames
        BY ONLY <3>1, LifecycleAssumption DEF Frames, PCs, Calls
      <3>3. t \in Objects BY <1>1, <1>3 DEF IInv, TypeOK
      <3>4. Frame("run") \in Frames BY ONLY <3>3, LifecycleAssumption DEF Frames, PCs, Calls
      <3>5. frame' = [frame EXCEPT ![t] = [frame[t] EXCEPT !.pc = "affinity"], ![o] = Frame("run")]
        BY <1>1, <1>3, <2>1 DEF IInv, TypeOK
      <3> QED BY <1>1, <1>3, <3>1, <3>2, <3>3, <3>4, <3>5 DEF IInv, TypeOK
    <2>3. thr' \in [Objects -> Pthreads] BY <2>1 DEF IInv, TypeOK
    <2>4. /\ frame'[t].pc = "affinity" /\ frame'[t].call = "none" /\ frame'[t].obj = o
          /\ frame'[t].work = {} /\ frame'[o].pc = "run" /\ frame'[o].call = "none"
          /\ frame'[o].obj = NULL /\ frame'[o].work = {}
          /\ \A u \in Objects : u # t /\ u # o => frame'[u] = frame[u]
      BY <1>1, <1>3, <2>1 DEF FrameTo, IInv, TypeOK, Frames, FrameAgrees
    <2>5. LocksKept /\ RefsKept /\ JoinsKept /\ MarksKept
      BY <1>1, <1>3, <2>1 DEF LocksKept, RefsKept, JoinsKept, MarksKept, IInv, TypeOK, Pthreads
    <2>6. /\ list_lock' = list_lock /\ threads' = threads \cup {o}
          /\ UNCHANGED <<gc_list, free_threads, heap, once, calls, reused>>
      BY <2>1
    <2>7. TypeOK' BY <2>2, <2>3, <2>6 DEF IInv, TypeOK
    <2>8. OnePlace'
      <3>1. ASSUME NEW p \in Objects, p # o PROVE Stays(p)
        BY <3>1, <1>1, <2>4, <2>5, <2>6 DEF FrameAgrees, IInv, Stays
      <3>2. Placed(o)'
        <4>0. /\ o \notin gc_list /\ o \notin heap /\ o \notin Elems(free_threads)
              /\ \A u \in Objects : o \notin frame[u].work /\ (u # t => ~NewOf(u, o))
          BY <1>1 DEF IInv, OnePlace
        <4>1. /\ o \notin gc_list' /\ o \in threads' /\ o \notin heap'
              /\ o \notin Elems(free_threads)'
          BY <4>0, <2>6
        <4>2. \A u \in Objects : o \notin frame'[u].work /\ ~NewOf(u, o)' BY <4>0, <1>1, <2>4
        <4> QED BY <4>1, <4>2 DEF Placed, Holds
      <3>3. OnePlace /\ Distinct(free_threads)' BY <2>6 DEF IInv, OnePlace, Distinct
      <3>4. threads' \subseteq Objects /\ gc_list' \subseteq Objects /\ heap' \subseteq Objects
        BY <1>1, <2>6 DEF IInv, OnePlace
      <3> QED BY ONLY <3>1, <3>2, <3>3, <3>4, PlacesMove
    <2>9. OneInit'
      BY <1>1, <2>4, <2>5, <2>6 DEF IInv, LocksKept, RefsKept, JoinsKept, MarksKept, OneInit
    <2>10. FrameAgrees'
      BY <1>1, <2>4, <2>5, <2>6 DEF IInv, LocksKept, RefsKept, JoinsKept, MarksKept, FrameAgrees
    <2>11. LocksAgree'
      BY <1>1, <2>4, <2>5, <2>6
         DEF IInv, LocksKept, RefsKept, JoinsKept, MarksKept, LocksAgree, FrameAgrees
    <2>12. JoinsAgree'
      BY <1>1, <2>4, <2>5, <2>6
         DEF IInv, LocksKept, RefsKept, JoinsKept, MarksKept, JoinsAgree, FrameAgrees
    <2>13. RefsExact'
      <3>1. RefsExact /\ RefsKept BY <2>5 DEF IInv
      <3>2. \A u \in Objects : frame'[u].pc \in Counted <=> frame[u].pc \in Counted
        BY <1>1, <2>4 DEF Counted
      <3>3. \A u \in Objects : frame[u].pc \in Counted => frame'[u].obj = frame[u].obj
        BY <1>1, <2>4 DEF Counted
      <3> QED BY ONLY <3>1, <3>2, <3>3, RefsSame
    <2>14. UseIsListed'
      <3>1. ASSUME NEW u \in Objects, Alive(u)' PROVE u \in threads' /\ ~thr'[u].dead
        BY <3>1, <1>1, <2>4, <2>5, <2>6 DEF IInv, UseIsListed, RefsKept
      <3>2. ASSUME NEW u \in Objects, frame'[u].pc \in InUse PROVE frame'[u].obj \in threads'
        BY <3>2, <1>1, <2>4, <2>6 DEF IInv, UseIsListed
      <3>3. ASSUME NEW u \in Objects, At(u, "link")'
            PROVE  ~thr'[frame'[u].obj].dead /\ Users(frame[u].obj)' = {}
        <4>1. PICK p : p = frame[u].obj OBVIOUS
        <4>2. frame'[u] = frame[u] /\ frame[u].pc = "link" /\ u # t BY <3>3, <2>4
        <4>3. p \in Objects /\ Users(p) = {} /\ ~thr[p].dead
          BY <4>1, <4>2, <1>1 DEF IInv, FrameAgrees, UseIsListed
        <4>4. p # o BY <4>1, <4>2, <1>1 DEF IInv, OnePlace
        <4>5. p # t BY <4>3, <1>1 DEF Users
        <4>6. Users(p)' = {} BY <4>3, <4>4, <4>5, <1>1, <2>4 DEF Users
        <4> QED BY <4>1, <4>2, <4>3, <4>6, <2>5 DEF RefsKept
      <3>4. \A u \in Objects : At(u, "link")' => frame'[u] = frame[u] BY <1>1, <2>4
      <3> QED BY ONLY <3>1, <3>2, <3>3, <3>4 DEF UseIsListed, At
    <2>15. NoLostWake'
      BY <1>1, <2>4, <2>5, <2>6
         DEF IInv, LocksKept, RefsKept, JoinsKept, MarksKept, NoLostWake, FrameAgrees
    <2> QED BY <2>7, <2>8, <2>9, <2>10, <2>11, <2>12, <2>13, <2>14, <2>15 DEF IInv
  <1> QED BY <1>0, <1>2, <1>3 DEF Link
-----------------------------------------------------------------------------
HIDE DEF Goto, Return, Frame, InCall, ExitFrame, New

(* Create: collect first, or not. *)
LEMMA CreateOK ==
    ASSUME IInv, ~reused, NEW t \in Objects, Create(t)
    PROVE  IInv'
  <1>1. CASE Cardinality(gc_list) >= GcThreshold
    <2> DEFINE gone == {o \in gc_list : thr[o].terminated}
    <2>1. Call(t) /\ gone \in SUBSET gc_list BY DEF Create
    <2>2. Takes(t, gone) BY <1>1 DEF Create, Takes
    <2> HIDE DEF gone
    <2> QED BY <2>1, <2>2, CreateCollectOK
  <1>2. CASE ~(Cardinality(gc_list) >= GcThreshold)
    <2>1. Call(t) /\ Goto(t, "alloc") /\ UNCHANGED <<thr, places, list_lock, once, reused>>
      BY <1>2 DEF Create, places
    <2> QED BY <2>1, CreateAllocOK
  <1> QED BY <1>1, <1>2

(* Collect: one object is freed, or the work list is empty. *)
LEMMA CollectOK ==
    ASSUME IInv, ~reused, NEW t \in Objects, Collect(t)
    PROVE  IInv'
  <1>1. At(t, "free") BY DEF Collect
  <1>2. CASE frame[t].work = {}
    <2>1. Goto(t, "alloc") /\ UNCHANGED <<thr, places, list_lock, once, calls, reused>>
      BY <1>2 DEF Collect, places
    <2> QED BY <1>1, <1>2, <2>1, CollectEndOK
  <1>3. CASE frame[t].work # {}
    <2>1. PICK o \in frame[t].work : FreesOne(t, o) BY <1>3 DEF Collect, FreesOne
    <2> QED BY <1>1, <2>1, FreesOneOK
  <1> QED BY <1>2, <1>3

(* Alloc: an object of the cache, else of the heap, else none. *)
LEMMA AllocOK ==
    ASSUME IInv, ~reused, NEW t \in Objects, Alloc(t)
    PROVE  IInv'
  <1>0. /\ At(t, "alloc") /\ UNCHANGED <<threads, gc_list, list_lock, once, calls>>
        /\ free_threads \in Seq(Objects) /\ Distinct(free_threads) /\ heap \subseteq Objects
    BY DEF Alloc, IInv, TypeOK, OnePlace, Distinct
  <1>1. CASE free_threads # << >>
    <2>1. PICK n : n = Len(free_threads) OBVIOUS
    <2>2. n \in 1 .. Len(free_threads) BY <1>0, <1>1, <2>1, EmptyIffLen
    <2>3. PICK o : o = free_threads[n] OBVIOUS
    <2>4. o \in Objects /\ o \in Elems(free_threads) BY <1>0, <2>2, <2>3 DEF Elems
    <2>5. o \notin heap BY <2>4 DEF IInv, OnePlace
    <2>6. free_threads' = Without(free_threads, n) BY <1>1, <2>1 DEF Alloc
    <2>7. /\ free_threads' \in Seq(Objects) /\ Distinct(free_threads')
          /\ Elems(free_threads') = Elems(free_threads) \ {o}
      BY ONLY <1>0, <2>2, <2>3, <2>6, WithoutElems
    <2>8. \/ Construct(t, o) /\ UNCHANGED heap
          \/ HeapFree(o) /\ Return(t) /\ UNCHANGED thr
      BY <1>1, <2>1, <2>3 DEF Alloc
    <2>9. CASE Construct(t, o) /\ UNCHANGED heap
      <3>1. PICK d \in BOOLEAN : Builds(t, o, d) BY <1>0, <2>9 DEF Construct, Builds
      <3>2. heap' = heap \ {o} BY <2>5, <2>9
      <3> QED BY <1>0, <2>4, <2>7, <3>1, <3>2, BuildsOK
    <2>10. CASE HeapFree(o) /\ Return(t) /\ UNCHANGED thr
      BY <1>0, <2>4, <2>7, <2>10, AllocGivesBackOK
    <2> QED BY <2>8, <2>9, <2>10
  <1>2. CASE free_threads = << >>
    <2>1. free_threads' = free_threads BY <1>2 DEF Alloc
    <2>2. \/ \E o \in heap : Construct(t, o) /\ heap' = heap \ {o}
          \/ Return(t) /\ UNCHANGED <<thr, heap, reused>>
      BY <1>2 DEF Alloc
    <2>3. ASSUME NEW o \in heap, Construct(t, o), heap' = heap \ {o}
          PROVE  IInv'
      <3>1. PICK d \in BOOLEAN : Builds(t, o, d) BY <1>0, <2>3 DEF Construct, Builds
      <3>2. o \in Objects /\ o \notin Elems(free_threads) BY <1>0 DEF IInv, OnePlace
      <3>3. /\ Elems(free_threads)' = Elems(free_threads) \ {o} /\ Distinct(free_threads)'
            /\ free_threads' \in Seq(Objects)
        BY <1>0, <2>1, <3>2
      <3> QED BY <1>0, <2>3, <3>1, <3>2, <3>3, BuildsOK
    <2>4. CASE Return(t) /\ UNCHANGED <<thr, heap, reused>>
      <3>1. UNCHANGED <<thr, places, list_lock, once, calls, reused>>
        BY <1>0, <2>1, <2>4 DEF places
      <3> QED BY <1>0, <2>4, <3>1, AllocNothingOK
    <2> QED BY <2>2, <2>3, <2>4
  <1> QED BY <1>1, <1>2

(* pthread_once: the first look at the word, and the later ones. *)
LEMMA OnceOK ==
    ASSUME IInv, ~reused, NEW t \in Objects, Once(t) \/ OnceAgain(t)
    PROVE  IInv'
  <1>1. frame[t].pc \in {"run", "once"} /\ OnceEnter(t) BY DEF Once, OnceAgain, Call, At
  <1>2. calls' \in 0 .. MaxCalls BY DEF Once, OnceAgain, Call, IInv, TypeOK
  <1> QED BY <1>1, <1>2, OnceEnterOK
-----------------------------------------------------------------------------
(* One thread, listed and in guest code, holds nothing. *)
LEMMA InitOK == Init => IInv
  <1> SUFFICES ASSUME Init PROVE IInv OBVIOUS
  <1> USE DEF Init, Frame, InCall, New
  <1>0. \A o \in Objects : /\ frame[o].pc = (IF o = Main THEN "run" ELSE "none")
                                /\ frame[o].call = "none"
                           /\ frame[o].obj = NULL /\ frame[o].work = {}
    OBVIOUS
  <1>1. \A o \in Objects : /\ thr[o].lock = NULL /\ thr[o].refcount = 1
                                /\ thr[o].dead = FALSE /\ thr[o].detached = FALSE
                           /\ thr[o].joiner = NULL /\ thr[o].join_target = NULL
                                /\ thr[o].terminated = FALSE
                           /\ thr[o].cancel_pending = FALSE
    OBVIOUS
  <1>2. /\ threads = {Main} /\ gc_list = {} /\ free_threads = << >> /\ heap = Objects \ {Main}
        /\ list_lock = NULL /\ once = "NeverDone" /\ reused = FALSE
    OBVIOUS
  <1>3. TypeOK
    <2>1. \A o \in Objects : Frame(IF o = Main THEN "run" ELSE "none") \in Frames
      BY DEF Frames, PCs, Calls
    <2>2. New(FALSE) \in Pthreads BY DEF Pthreads
    <2>3. frame \in [Objects -> Frames] BY <2>1
    <2>4. thr \in [Objects -> Pthreads] BY <2>2
    <2>5. calls \in 0 .. MaxCalls OBVIOUS
    <2>6. free_threads \in Seq(Objects) BY <1>2
    <2> QED BY ONLY <1>2, <2>3, <2>4, <2>5, <2>6 DEF TypeOK
  <1> HIDE DEF Init, Frame, InCall, New
  <1> USE DEF At, NewOf
  <1>4. OnePlace
    <2>1. Len(free_threads) = 0 /\ Elems(free_threads) = {} BY <1>2 DEF Elems
    <2>2. \A o \in Objects : frame[o].work = {} /\ frame[o].obj = NULL BY <1>0
    <2>3. \A t, o \in Objects : ~(o \in frame[t].work \/ NewOf(t, o)) BY <2>2
    <2>4. threads = {Main} /\ gc_list = {} /\ heap = Objects \ {Main} BY <1>2
    <2> HIDE DEF NewOf, Elems
    <2> QED BY <2>1, <2>3, <2>4 DEF OnePlace
  <1>5. OneInit BY <1>0, <1>2 DEF OneInit
  <1>6. FrameAgrees BY <1>0 DEF FrameAgrees, InUse, Joining
  <1>7. LocksAgree BY <1>0, <1>1, <1>2 DEF LocksAgree
  <1>8. JoinsAgree BY <1>0, <1>1 DEF JoinsAgree, Joining, Waiting
  <1>9. RefsExact
    <2>1. \A o \in Objects : Refs(o) = {} BY <1>0 DEF Refs
    <2>2. IsFiniteSet({}) /\ Cardinality({}) = 0 BY FS_EmptySet
    <2> QED BY <1>1, <2>1, <2>2 DEF RefsExact
  <1>10. UseIsListed
    BY <1>0, <1>1, <1>2 DEF UseIsListed, Alive, InUse, Joining, Collecting, Exiting
  <1>11. NoLostWake BY <1>0 DEF NoLostWake
  <1> QED BY <1>3, <1>4, <1>5, <1>6, <1>7, <1>8, <1>9, <1>10, <1>11 DEF IInv

(* Every step of a thread preserves the inductive invariant. *)
LEMMA NextOK == ASSUME IInv, [Next]_vars PROVE IInv'
  <1>1. CASE UNCHANGED vars
    <2>1. UNCHANGED <<frame, thr, threads, gc_list, free_threads, heap, list_lock, once,
              calls, reused>>
      BY <1>1 DEF vars, places
    <2>2. TypeOK' BY <2>1 DEF IInv, TypeOK
    <2>3. OnePlace' BY <2>1 DEF IInv, OnePlace, NewOf, At
    <2>4. OneInit' /\ FrameAgrees' BY <2>1 DEF IInv, OneInit, FrameAgrees, At
    <2>5. LocksAgree' /\ JoinsAgree' BY <2>1 DEF IInv, LocksAgree, JoinsAgree, At
    <2>6. RefsExact' BY <2>1 DEF IInv, RefsExact, Refs
    <2>7. UseIsListed' BY <2>1 DEF IInv, UseIsListed, Users, Alive, Exiting, At
    <2>8. NoLostWake' BY <2>1 DEF IInv, NoLostWake, ShouldCancel, Exiting, At
    <2> QED BY <2>2, <2>3, <2>4, <2>5, <2>6, <2>7, <2>8 DEF IInv
  <1>2. ASSUME ~reused, NEW t \in Objects, GuestCall(t) PROVE IInv'
    <2>1. CASE Create(t) BY <1>2, <2>1, CreateOK
    <2>2. CASE Exit(t) BY <1>2, <2>2, ExitOK
    <2>3. CASE Once(t) BY <1>2, <2>3, OnceOK
    <2>4. ASSUME NEW o \in Objects, NEW c \in {"join", "timedjoin", "detach", "cancel", "ref"},
                 Find(t, o, c)
          PROVE  IInv'
      BY <1>2, <2>4, FindOK
    <2> QED BY <1>2, <2>1, <2>2, <2>3, <2>4 DEF GuestCall
  <1>3. ASSUME ~reused, NEW t \in Objects, Step(t) PROVE IInv'
    <2>1. CASE Collect(t) BY <1>3, <2>1, CollectOK
    <2>2. CASE Alloc(t) BY <1>3, <2>2, AllocOK
    <2>3. CASE CreateStackFails(t) BY <1>3, <2>3, CreateStackFailsOK
    <2>4. CASE Link(t) BY <1>3, <2>4, LinkOK
    <2>5. CASE SetAffinity(t) BY <1>3, <2>5, SetAffinityOK
    <2>6. CASE CollectList(t) BY <1>3, <2>6, CollectListOK
    <2>7. CASE CollectLock(t) BY <1>3, <2>7, CollectLockOK
    <2>8. CASE CollectUnlock(t) BY <1>3, <2>8, CollectUnlockOK
    <2>9. CASE ExitThread(t) BY <1>3, <2>9, ExitThreadOK
    <2>10. CASE Terminate(t) BY <1>3, <2>10, TerminateOK
    <2>11. CASE ExitNotify(t) BY <1>3, <2>11, ExitNotifyOK
    <2>12. CASE FindRefused(t) BY <1>3, <2>12, FindRefusedOK
    <2>13. CASE JoinThread(t) BY <1>3, <2>13, JoinThreadOK
    <2>14. CASE JoinSelf(t) BY <1>3, <2>14, JoinSelfOK
    <2>15. CASE JoinTest(t) BY <1>3, <2>15, JoinTestOK
    <2>16. CASE JoinCheck(t) BY <1>3, <2>16, JoinCheckOK
    <2>17. CASE JoinOut(t) BY <1>3, <2>17, JoinOutOK
    <2>18. CASE JoinBackout(t) BY <1>3, <2>18, JoinBackoutOK
    <2>19. CASE JoinReap(t) BY <1>3, <2>19, JoinReapOK
    <2>20. CASE Detach(t) BY <1>3, <2>20, DetachOK
    <2>21. CASE RefAdd(t) BY <1>3, <2>21, RefAddOK
    <2>22. CASE RefDelete(t) BY <1>3, <2>22, RefDeleteOK
    <2>23. CASE Cancel(t) BY <1>3, <2>23, CancelOK
    <2>24. CASE CancelMark(t) BY <1>3, <2>24, CancelMarkOK
    <2>25. CASE CancelWake(t) BY <1>3, <2>25, CancelWakeOK
    <2>26. CASE OnceAgain(t) BY <1>3, <2>26, OnceOK
    <2>27. CASE OnceWait(t) BY <1>3, <2>27, OnceWaitOK
    <2>28. CASE InitReturns(t) BY <1>3, <2>28, InitReturnsOK
    <2>29. CASE OnceNotify(t) BY <1>3, <2>29, OnceNotifyOK
    <2> QED BY <1>3, <2>1, <2>2, <2>3, <2>4, <2>5, <2>6, <2>7, <2>8, <2>9, <2>10, <2>11, <2>12,
               <2>13, <2>14, <2>15, <2>16, <2>17, <2>18, <2>19, <2>20, <2>21, <2>22, <2>23,
               <2>24, <2>25, <2>26, <2>27, <2>28, <2>29 DEF Step
  <1>4. ASSUME ~reused, NEW t \in Objects, JoinTimeout(t) PROVE IInv' BY <1>4, JoinTimeoutOK
  <1>5. ASSUME ~reused, NEW t \in Objects, InitExits(t) PROVE IInv' BY <1>5, InitExitsOK
  <1> QED BY <1>1, <1>2, <1>3, <1>4, <1>5 DEF Next
-----------------------------------------------------------------------------
(* The inductive invariant of thread_state.cpp and pthread.cpp: every      *)
(* object in one place, locks, joins and counts as the threads' program    *)
(* points say, and everything in use listed.                               *)
THEOREM LifecycleInvariant == Spec => []IInv
  <1>1. IInv /\ [Next]_vars => IInv' BY NextOK
  <1> QED BY <1>1, InitOK, PTL DEF Spec

(* Activations, Pthread fields and the word of pthread_once keep their     *)
(* types; no reference count goes below zero.                              *)
THEOREM LifecycleTypeCorrect == Spec => []TypeOK
  <1>1. IInv => TypeOK BY DEF IInv
  <1> QED BY <1>1, LifecycleInvariant, PTL

(* A pointer from FindThread, JoinThread, cancel or RefAdd stays listed    *)
(* while it is used, and so does the join_target a canceller follows; only *)
(* the tails of calls that gave the object up touch one that may be freed. *)
THEOREM PointersStayValid == Spec => []FoundStaysValid
  <1>1. IInv => FoundStaysValid BY FoundOK
  <1> QED BY <1>1, LifecycleInvariant, PTL

(* A joiner or a pthread_once waiter that sleeps although what it waits    *)
(* for has happened has a notify_all coming.                               *)
THEOREM WakeUpsArrive == Spec => []NoLostWake
  <1>1. IInv => NoLostWake BY DEF IInv
  <1> QED BY <1>1, LifecycleInvariant, PTL

(* Threads that wait for each other's locks in a circle include some that  *)
(* join one another: the list lock, TryCollect, cancel and the references  *)
(* close no cycle of their own.                                            *)
THEOREM LockCyclesAreJoins == Spec => []OnlyJoinCycles
  <1>1. IInv => OnlyJoinCycles BY CyclesOK
  <1> QED BY <1>1, LifecycleInvariant, PTL
=============================================================================
