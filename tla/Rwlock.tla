------------------------------- MODULE Rwlock -------------------------------
(***************************************************************************)
(* threads/rwlock.cpp over common/shared_first_mutex.h: one guest          *)
(* pthread_rwlock_t, with its lazy initialisation, its destruction and     *)
(* re-initialisation.                                                      *)
(*                                                                         *)
(* SharedFirstMutex protects writer_active and readers by mtx, so each of  *)
(* its methods is one step and a wait is a test and a sleep.  owner is a   *)
(* plain field that is written after the lock is taken and before it is    *)
(* given up, in steps of their own.  pc[t] is the point thread t reached:  *)
(*   idle       in guest code;   init   it read a null handle              *)
(*   try        before try_lock or try_lock_shared                         *)
(*   wait       before the predicate of the wait;   sleep   inside cv.wait *)
(*   own        it has the write lock, before owner = curthread            *)
(*   wunlock, runlock   before lock.unlock(), before lock.unlock_shared()  *)
(*                                                                         *)
(* Guest code follows POSIX: a thread unlocks only what it holds, and the  *)
(* lock is destroyed or initialised only while nobody uses it.  NULL is    *)
(* also THR_RWLOCK_INITIALIZER.                                            *)
(***************************************************************************)
EXTENDS Integers, FiniteSets, GuestThreads

CONSTANTS Objs,        \* the addresses of PthreadRwlock objects
          DESTROYED,   \* THR_RWLOCK_DESTROYED
          MaxHeld      \* bound: how often a thread nests read locks

ASSUME RwlockAssumption ==
    /\ IsFiniteSet(Threads) /\ NULL \notin Threads
    /\ NULL \notin Objs /\ DESTROYED \notin Objs /\ NULL # DESTROYED
    /\ MaxHeld \in Nat

VARIABLES
    rwlock,                        \* the guest's handle
    allocated,                     \* PthreadRwlock objects that exist
    writer_active, readers, owner, \* their fields
    prwlock, want, kind,           \* a thread, its pointer, its call
    rdlock_count,                  \* Pthread::rdlock_count
    rheld, wheld                   \* what guest code holds

fields == <<writer_active, readers, owner>>
local  == <<prwlock, want, kind>>
holds  == <<rdlock_count, rheld, wheld>>
vars == <<rwlock, allocated, fields, pc, local, holds>>

PCs == {"idle", "init", "try", "wait", "sleep", "own", "wunlock", "runlock"}

Init ==
    /\ rwlock = NULL /\ allocated = {}
    /\ writer_active = [o \in Objs |-> FALSE]
    /\ readers = [o \in Objs |-> 0]
    /\ owner = [o \in Objs |-> NULL]
    /\ pc = [t \in Threads |-> "idle"]
    /\ prwlock = [t \in Threads |-> NULL]
    /\ want = [t \in Threads |-> "rd"]
    /\ kind = [t \in Threads |-> "block"]
    /\ rdlock_count = [t \in Threads |-> 0]
    /\ rheld = [t \in Threads |-> 0]
    /\ wheld = [t \in Threads |-> FALSE]
-----------------------------------------------------------------------------
(* The handle.                                                             *)

\* A new PthreadRwlock is stored in the handle.
NewObject(o) ==
    /\ o \in Objs \ allocated
    /\ allocated' = allocated \cup {o}
    /\ writer_active' = [writer_active EXCEPT ![o] = FALSE]
    /\ readers' = [readers EXCEPT ![o] = 0]
    /\ owner' = [owner EXCEPT ![o] = NULL]
    /\ rwlock' = o

Unused == \A t \in Threads : At(t, "idle") /\ rheld[t] = 0 /\ ~wheld[t]

RwlockInit(o) ==
    /\ Unused
    /\ NewObject(o)
    /\ UNCHANGED <<pc, local, holds>>

(* ENOMEM, or EINVAL for a type the firmware does not know: the handle was *)
(* set to null before, and the next lock call initialises it.              *)
RwlockInitFails ==
    /\ Unused
    /\ rwlock' = NULL
    /\ UNCHANGED <<allocated, fields, pc, local, holds>>

(* A handle that was never used stays as it is.                            *)
Destroy ==
    /\ Unused /\ rwlock \in Objs
    /\ rwlock' = DESTROYED
    /\ allocated' = allocated \ {rwlock}
    /\ UNCHANGED <<fields, pc, local, holds>>

(* A lock call with CHECK_AND_INIT_RWLOCK: the handle is read, without a   *)
(* lock; a destroyed one is EINVAL.                                        *)
Enter(t, w, k) ==
    /\ At(t, "idle") /\ rwlock # DESTROYED
    /\ w = "rd" => rheld[t] < MaxHeld
    /\ want' = [want EXCEPT ![t] = w]
    /\ kind' = [kind EXCEPT ![t] = k]
    /\ prwlock' = [prwlock EXCEPT ![t] = rwlock]
    /\ Goto(t, IF rwlock = NULL THEN "init" ELSE "try")
    /\ UNCHANGED <<rwlock, allocated, fields, holds>>

\* Mutant: the handle is not looked at again under RwlockStaticLock.
MutInitStatic(t) ==
    /\ At(t, "init")
    /\ \E o \in Objs : NewObject(o) /\ prwlock' = [prwlock EXCEPT ![t] = o]
    /\ Goto(t, "try")
    /\ UNCHANGED <<want, kind, holds>>

(* InitStatic, under RwlockStaticLock, and the second read of the handle.  *)
(* An allocation that fails is ENOMEM.                                     *)
InitStatic(t) ==
    /\ At(t, "init")
    /\ \/ /\ rwlock = NULL
          /\ \E o \in Objs : NewObject(o) /\ prwlock' = [prwlock EXCEPT ![t] = o]
          /\ Goto(t, "try")
       \/ /\ rwlock = NULL
          /\ Goto(t, "idle")
          /\ UNCHANGED <<rwlock, allocated, fields, prwlock>>
       \/ /\ rwlock # NULL
          /\ prwlock' = [prwlock EXCEPT ![t] = rwlock]
          /\ Goto(t, "try")
          /\ UNCHANGED <<rwlock, allocated, fields>>
    /\ UNCHANGED <<want, kind, holds>>
-----------------------------------------------------------------------------
(* Locking.                                                                *)

\* The predicates of lock and lock_shared: readers do not wait for writers.
Admits(o, w) == ~writer_active[o] /\ (w = "wr" => readers[o] = 0)

(* The lock is taken: a reader counts it, a writer has yet to set owner.   *)
Take(t) ==
    LET o == prwlock[t] IN
    /\ Admits(o, want[t])
    /\ IF want[t] = "rd"
       THEN /\ readers' = [readers EXCEPT ![o] = @ + 1]
            /\ rdlock_count' = [rdlock_count EXCEPT ![t] = @ + 1]
            /\ rheld' = [rheld EXCEPT ![t] = @ + 1]
            /\ Goto(t, "idle")
            /\ UNCHANGED writer_active
       ELSE /\ writer_active' = [writer_active EXCEPT ![o] = TRUE]
            /\ Goto(t, "own")
            /\ UNCHANGED <<readers, rdlock_count, rheld>>
    /\ UNCHANGED <<rwlock, allocated, owner, local, wheld>>

\* The lock is not taken, and t goes on at l.
Miss(t, l) ==
    /\ ~Admits(prwlock[t], want[t])
    /\ Goto(t, l)
    /\ UNCHANGED <<rwlock, allocated, fields, local, holds>>

(* try_lock fails: EBUSY, EINVAL for a malformed deadline, or the wait.    *)
Try(t) ==
    /\ At(t, "try")
    /\ \/ Take(t)
       \/ kind[t] # "block" /\ Miss(t, "idle")
       \/ kind[t] # "try" /\ Miss(t, "wait")

WaitCheck(t) ==
    /\ At(t, "wait")
    /\ Take(t) \/ Miss(t, "sleep")

(* The deadline passes; wait_until looks at its predicate once more.       *)
Timeout(t) ==
    /\ At(t, "sleep") /\ kind[t] = "timed"
    /\ Take(t) \/ Miss(t, "idle")

SetOwner(t) ==
    /\ At(t, "own")
    /\ owner' = [owner EXCEPT ![prwlock[t]] = t]
    /\ wheld' = [wheld EXCEPT ![t] = TRUE]
    /\ Goto(t, "idle")
    /\ UNCHANGED <<rwlock, allocated, writer_active, readers, local, rdlock_count, rheld>>
-----------------------------------------------------------------------------
(* Unlocking.                                                              *)

\* Mutant: owner still names the writer after its unlock.
MutUnlock(t) ==
    /\ At(t, "idle") /\ rwlock \in Objs /\ (wheld[t] \/ rheld[t] > 0)
    /\ prwlock' = [prwlock EXCEPT ![t] = rwlock]
    /\ IF owner[rwlock] = t
       THEN /\ Goto(t, "wunlock")
            /\ UNCHANGED <<owner, rdlock_count>>
       ELSE /\ Goto(t, "runlock")
            /\ rdlock_count' = [rdlock_count EXCEPT ![t] =
                                   IF owner[rwlock] = NULL THEN @ - 1 ELSE @]
            /\ UNCHANGED owner
    /\ wheld' = [wheld EXCEPT ![t] = FALSE]
    /\ rheld' = [rheld EXCEPT ![t] = IF wheld[t] THEN @ ELSE @ - 1]
    /\ UNCHANGED <<rwlock, allocated, writer_active, readers, want, kind>>

(* The owner field alone decides whether this is a write or a read unlock. *)
Unlock(t) ==
    /\ At(t, "idle") /\ rwlock \in Objs /\ (wheld[t] \/ rheld[t] > 0)
    /\ prwlock' = [prwlock EXCEPT ![t] = rwlock]
    /\ IF owner[rwlock] = t
       THEN /\ owner' = [owner EXCEPT ![rwlock] = NULL]
            /\ Goto(t, "wunlock")
            /\ UNCHANGED rdlock_count
       ELSE /\ Goto(t, "runlock")
            /\ rdlock_count' = [rdlock_count EXCEPT ![t] =
                                   IF owner[rwlock] = NULL THEN @ - 1 ELSE @]
            /\ UNCHANGED owner
    /\ wheld' = [wheld EXCEPT ![t] = FALSE]
    /\ rheld' = [rheld EXCEPT ![t] = IF wheld[t] THEN @ ELSE @ - 1]
    /\ UNCHANGED <<rwlock, allocated, writer_active, readers, want, kind>>

\* cv.notify_all() of object o, by t.
Notify(t, o) ==
    pc' = [u \in Threads |-> IF u = t THEN "idle"
                             ELSE IF At(u, "sleep") /\ prwlock[u] = o THEN "wait" ELSE pc[u]]

WriteUnlock(t) ==
    LET o == prwlock[t] IN
    /\ At(t, "wunlock")
    /\ writer_active' = [writer_active EXCEPT ![o] = FALSE]
    /\ Notify(t, o)
    /\ UNCHANGED <<rwlock, allocated, readers, owner, local, holds>>

\* Mutant: the count is tested before it is decremented.
MutReadUnlock(t) ==
    LET o == prwlock[t] IN
    /\ At(t, "runlock")
    /\ readers' = [readers EXCEPT ![o] = @ - 1]
    /\ IF readers[o] = 0 THEN Notify(t, o) ELSE Goto(t, "idle")
    /\ UNCHANGED <<rwlock, allocated, writer_active, owner, local, holds>>

(* The last reader wakes everybody.                                        *)
ReadUnlock(t) ==
    LET o == prwlock[t] IN
    /\ At(t, "runlock")
    /\ readers' = [readers EXCEPT ![o] = @ - 1]
    /\ IF readers[o] = 1 THEN Notify(t, o) ELSE Goto(t, "idle")
    /\ UNCHANGED <<rwlock, allocated, writer_active, owner, local, holds>>
-----------------------------------------------------------------------------
Next ==
    \/ \E o \in Objs : RwlockInit(o)
    \/ RwlockInitFails
    \/ Destroy
    \/ \E t \in Threads :
          \/ \E w \in {"rd", "wr"}, k \in {"block", "timed", "try"} : Enter(t, w, k)
          \/ InitStatic(t) \/ Try(t) \/ WaitCheck(t) \/ Timeout(t) \/ SetOwner(t)
          \/ Unlock(t) \/ WriteUnlock(t) \/ ReadUnlock(t)

Spec == Init /\ [][Next]_vars
-----------------------------------------------------------------------------
TypeOK ==
    /\ rwlock \in Objs \cup {NULL, DESTROYED} /\ allocated \subseteq Objs
    /\ writer_active \in [Objs -> BOOLEAN]
    /\ readers \in [Objs -> Int]
    /\ owner \in [Objs -> Threads \cup {NULL}]
    /\ pc \in [Threads -> PCs]
    /\ prwlock \in [Threads -> Objs \cup {NULL, DESTROYED}]
    /\ want \in [Threads -> {"rd", "wr"}]
    /\ kind \in [Threads -> {"block", "timed", "try"}]
    /\ rdlock_count \in [Threads -> Int]
    /\ rheld \in [Threads -> 0 .. MaxHeld]
    /\ wheld \in [Threads -> BOOLEAN]

(* A read lock somebody holds, or (0) is about to give back.               *)
Tokens == {p \in Threads \X (0 .. MaxHeld) :
              IF p[2] = 0 THEN pc[p[1]] = "runlock" ELSE p[2] <= rheld[p[1]]}

Writing(t) == wheld[t] \/ pc[t] \in {"own", "wunlock"}

(* Exclusion.  A thread that holds the write lock is alone: nobody else    *)
(* writes and nobody reads.  Guest code relies on this whichever thread    *)
(* initialised the handle and however unlock chose its branch.             *)
Exclusion ==
    \A t, u \in Threads : wheld[t] => rheld[u] = 0 /\ (u # t => ~wheld[u])

(* The counts agree with the guest: readers is the number of read locks    *)
(* that are held or being given back, rdlock_count of a thread is its      *)
(* share, and owner names exactly the thread that holds the write lock, so *)
(* that unlock always takes the branch of the lock the caller holds.       *)
CountsAgree ==
    /\ \A t \in Threads : rdlock_count[t] = rheld[t]
    /\ rwlock \in Objs =>
          /\ readers[rwlock] = Cardinality(Tokens)
          /\ \A t \in Threads : (owner[rwlock] = t) <=> wheld[t]

(* No lost wake-up: a thread sleeps inside lock or lock_shared only while  *)
(* its predicate is false, although only the last reader and the writer    *)
(* notify.                                                                 *)
SleepersBlocked ==
    \A t \in Threads : At(t, "sleep") => ~Admits(prwlock[t], want[t])

(* The rest of the inductive invariant: pointers in use are the handle's   *)
(* object, and writer_active is the one writer, with no read lock beside   *)
(* it.                                                                     *)
PointersAgree ==
    /\ rwlock \in Objs => rwlock \in allocated
    /\ \A t \in Threads :
          /\ pc[t] \notin {"idle", "init"} => prwlock[t] = rwlock /\ rwlock \in Objs
          /\ pc[t] = "init" => rwlock # DESTROYED
          /\ wheld[t] \/ rheld[t] > 0 => rwlock \in Objs
          /\ pc[t] \in {"init", "try", "wait", "sleep"} /\ want[t] = "rd" => rheld[t] < MaxHeld
          /\ wheld[t] => pc[t] \notin {"own", "wunlock"}

WriterAgrees ==
    rwlock \in Objs =>
        /\ \A t \in Threads : Writing(t) => writer_active[rwlock]
        /\ writer_active[rwlock] => (\E t \in Threads : Writing(t)) /\ Tokens = {}
        /\ \A t, u \in Threads : Writing(t) /\ Writing(u) => t = u

IInv == TypeOK /\ PointersAgree /\ WriterAgrees /\ CountsAgree /\ SleepersBlocked
=============================================================================
