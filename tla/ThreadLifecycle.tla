-------------------------- MODULE ThreadLifecycle ---------------------------
(***************************************************************************)
(* The life of a guest thread: creation, termination, join, detach,        *)
(* cancellation of a joiner, references, garbage collection and            *)
(* pthread_once (threads/thread_state.cpp and threads/pthread.cpp).        *)
(*                                                                         *)
(* A thread and its Pthread object are one identifier.  Objects are found  *)
(* through the set threads, collected into gc_list, freed by whoever       *)
(* creates the next thread and reused from free_threads.                   *)
(*                                                                         *)
(* frame[t] is what thread t is doing: its call, the object obj it holds a *)
(* pointer to, Collect's work_list and the point pc it has reached:        *)
(*   none      no thread runs on the object;   run   in guest code         *)
(*   free      in Collect, freeing work      alloc  in Alloc, past Collect *)
(*   link      in create, before Link;   affinity   before SetAffinity     *)
(*   find      in FindThread, list locked, before thread->lock             *)
(*   self      in JoinThread, target locked, before curthread->lock        *)
(*   test      in JoinThread, before PthreadTestCancel                     *)
(*   check     in JoinThread, at the head of the wait loop                 *)
(*   sleep     in JoinThread, waiting on join_wait_cv                      *)
(*   out, backout, reap   in JoinThread, before it clears join_target,     *)
(*             clears joiner (backout_join), detaches the target           *)
(*   mark, wake   in cancel, target locked, before cancel_pending and      *)
(*             before notify_all                                           *)
(*   ref       holding a reference (setschedparam, rename, setprio ...)    *)
(*   tc_list, tc_lock, tc_unlock   in TryCollect, before it takes the list *)
(*             lock, takes the thread lock again, and gives it up          *)
(*   exit, term, notify   in ExitThread                                    *)
(*   once, init, owait, oblocked, onotify    in pthread_once               *)
(* The critical sections of join_wait_mutex, free_thread_lock and tcb_lock *)
(* take no other lock and are single steps.  The main thread stays in the  *)
(* program, so that ExitThread's assertion on active_threads holds.        *)
(***************************************************************************)
EXTENDS Naturals, Sequences, FiniteSets, SeqOps

CONSTANTS Objects,      \* the Pthread objects of thread_heap
          Main,         \* the thread the program starts with
          NULL,         \* nullptr
          GcThreshold,  \* ThreadState::GcThreshold
          MaxCached,    \* ThreadState::MaxCachedThreads
          MaxCalls      \* bound: how many calls guest code makes

Calls == {"create", "join", "timedjoin", "detach", "cancel", "ref", "once"}

ASSUME LifecycleAssumption ==
    /\ Main \in Objects /\ NULL \notin Objects
    /\ GcThreshold \in Nat \ {0} /\ MaxCached \in Nat
    /\ MaxCalls \in Nat

VARIABLES
    frame,                                          \* the threads' activations
    thr,                                            \* the Pthread objects
    threads, gc_list, free_threads, heap,           \* where the objects are
    list_lock,                                      \* thread_list_lock
    once,                                           \* PthreadOnce::state
    calls,                                          \* calls made, up to MaxCalls
    reused             \* an object was constructed or freed while in use

places == <<threads, gc_list, free_threads, heap>>
vars == <<frame, thr, places, list_lock, once, calls, reused>>

PCs == {"none", "run", "free", "alloc", "link", "affinity", "find", "self", "test",
        "check", "sleep", "out", "backout", "reap", "mark", "wake", "ref", "tc_list",
        "tc_lock", "tc_unlock", "exit", "term", "notify", "once", "init", "owait",
        "oblocked", "onotify"}

InCall(pc, c, o) == [pc |-> pc, call |-> c, obj |-> o, work |-> {}]
Frame(pc) == InCall(pc, "none", NULL)

At(t, l) == frame[t].pc = l
Goto(t, l) == frame' = [frame EXCEPT ![t].pc = l]
Return(t) == frame' = [frame EXCEPT ![t] = Frame("run")]

\* pthread_exit sets no_cancel.
Exiting(t) == frame[t].call = "exit"
ShouldCancel(t) == thr[t].cancel_pending /\ ~Exiting(t)
ExitFrame(t) == InCall("exit", "exit", t)

\* The object a thread is created on is zeroed and constructed.
New(isDetached) ==
    [lock |-> NULL, refcount |-> 1, dead |-> FALSE, detached |-> isDetached, joiner |-> NULL,
     join_target |-> NULL, terminated |-> FALSE, cancel_pending |-> FALSE]

\* Threads that hold a pointer to o, or run on it.
Users(o) == {t \in Objects : frame[t].obj = o /\ ~At(t, "link")}
            \cup {t \in {o} : ~At(t, "none")}

Init ==
    /\ frame = [o \in Objects |-> Frame(IF o = Main THEN "run" ELSE "none")]
    /\ thr = [o \in Objects |-> New(FALSE)]
    /\ threads = {Main} /\ gc_list = {} /\ free_threads = <<>> /\ heap = Objects \ {Main}
    /\ list_lock = NULL
    /\ once = "NeverDone"
    /\ calls = 0
    /\ reused = FALSE

Call(t) ==
    /\ At(t, "run") /\ calls < MaxCalls
    /\ calls' = calls + 1
-----------------------------------------------------------------------------
(* Creation and garbage collection.                                        *)

\* Mutant: Collect leaves the objects it frees in gc_list.
MutCreate(t) ==
    /\ Call(t)
    /\ IF Cardinality(gc_list) >= GcThreshold
       THEN /\ list_lock = NULL
            /\ frame' = [frame EXCEPT ![t].pc = "free",
                                      ![t].work = {o \in gc_list : thr[o].terminated}]
       ELSE Goto(t, "alloc")
    /\ UNCHANGED <<thr, places, list_lock, once, reused>>

(* Alloc collects first when GcNeeded: the terminated objects of gc_list   *)
(* become the work list.                                                   *)
Create(t) ==
    /\ Call(t)
    /\ IF Cardinality(gc_list) >= GcThreshold
       THEN /\ list_lock = NULL
            /\ LET gone == {o \in gc_list : thr[o].terminated} IN
               /\ frame' = [frame EXCEPT ![t].pc = "free", ![t].work = gone]
               /\ gc_list' = gc_list \ gone
       ELSE Goto(t, "alloc") /\ UNCHANGED gc_list
    /\ UNCHANGED <<thr, threads, free_threads, heap, list_lock, once, reused>>

(* thread_heap.Free writes a list node over the object.                    *)
HeapFree(o) ==
    /\ heap' = heap \cup {o}
    /\ reused' = (Users(o) # {})

(* Free: the object is cached, or goes back to the heap.                   *)
Free(o) ==
    IF Len(free_threads) >= MaxCached
    THEN HeapFree(o) /\ UNCHANGED free_threads
    ELSE free_threads' = Append(free_threads, o) /\ UNCHANGED <<heap, reused>>

Collect(t) ==
    /\ At(t, "free")
    /\ IF frame[t].work = {}
       THEN Goto(t, "alloc") /\ UNCHANGED <<free_threads, heap, reused>>
       ELSE \E o \in frame[t].work :
                frame' = [frame EXCEPT ![t].work = @ \ {o}] /\ Free(o)
    /\ UNCHANGED <<thr, threads, gc_list, list_lock, once, calls>>

Construct(t, o) ==
    /\ frame' = [frame EXCEPT ![t].pc = "link", ![t].obj = o]
    /\ \E isDetached \in BOOLEAN : thr' = [thr EXCEPT ![o] = New(isDetached)]
    /\ reused' = (Users(o) # {})

(* Alloc takes a cached object before one of the heap.  An empty heap and  *)
(* a failing TcbCtor, which gives the object to the heap, end in EAGAIN.   *)
Alloc(t) ==
    /\ At(t, "alloc")
    /\ IF free_threads # <<>>
       THEN LET n == Len(free_threads)  o == free_threads[n] IN
            /\ free_threads' = Without(free_threads, n)
            /\ \/ Construct(t, o) /\ UNCHANGED heap
               \/ HeapFree(o) /\ Return(t) /\ UNCHANGED thr
       ELSE /\ \/ \E o \in heap : Construct(t, o) /\ heap' = heap \ {o}
               \/ Return(t) /\ UNCHANGED <<thr, heap, reused>>
            /\ UNCHANGED free_threads
    /\ UNCHANGED <<threads, gc_list, list_lock, once, calls>>

(* CreateStack fails: the new object is freed.                             *)
CreateStackFails(t) ==
    /\ At(t, "link")
    /\ Free(frame[t].obj)
    /\ Return(t)
    /\ UNCHANGED <<thr, threads, gc_list, list_lock, once, calls>>

(* Link, and the native thread starts; a cpuset makes the creator touch    *)
(* the new object once more.                                               *)
Link(t) ==
    LET o == frame[t].obj IN
    /\ At(t, "link") /\ list_lock = NULL
    /\ threads' = threads \cup {o}
    /\ \E mine \in {Frame("run"), [frame[t] EXCEPT !.pc = "affinity"]} :
          frame' = [frame EXCEPT ![t] = mine, ![o] = Frame("run")]
    /\ UNCHANGED <<thr, gc_list, free_threads, heap, list_lock, once, calls, reused>>

SetAffinity(t) ==
    /\ At(t, "affinity")
    /\ Return(t)
    /\ UNCHANGED <<thr, places, list_lock, once, calls, reused>>
-----------------------------------------------------------------------------
(* TryCollect.                                                             *)

ShouldCollect(r) == r.refcount = 0 /\ r.dead /\ r.detached

\* What follows TryCollect.
Resume(t) == IF Exiting(t) THEN Goto(t, "term") ELSE Return(t)

\* Mutant: the thread stays locked while the list lock is taken.
MutTryCollect(t, o, r) ==
    IF ShouldCollect(r)
    THEN /\ thr' = [thr EXCEPT ![o] = [r EXCEPT !.refcount = 1, !.lock = t]]
         /\ frame' = [frame EXCEPT ![t].pc = "tc_list", ![t].obj = o]
    ELSE thr' = [thr EXCEPT ![o] = r] /\ Resume(t)

(* The entry of TryCollect, with r the object o as its holder leaves it:   *)
(* an object nobody needs is referenced once more and unlocked, so that    *)
(* the locks can be taken in list order.                                   *)
TryCollect(t, o, r) ==
    IF ShouldCollect(r)
    THEN /\ thr' = [thr EXCEPT ![o] = [r EXCEPT !.refcount = 1]]
         /\ frame' = [frame EXCEPT ![t].pc = "tc_list", ![t].obj = o]
    ELSE thr' = [thr EXCEPT ![o] = r] /\ Resume(t)

CollectList(t) ==
    /\ At(t, "tc_list") /\ list_lock = NULL
    /\ list_lock' = t
    /\ Goto(t, "tc_lock")
    /\ UNCHANGED <<thr, places, once, calls, reused>>

(* Both locks held: the condition is tested again, and the list lock is    *)
(* released before the thread's.                                           *)
CollectLock(t) ==
    LET o == frame[t].obj  r == [thr[o] EXCEPT !.lock = t, !.refcount = @ - 1] IN
    /\ At(t, "tc_lock") /\ thr[o].lock = NULL
    /\ thr' = [thr EXCEPT ![o] = r]
    /\ list_lock' = NULL
    /\ IF ShouldCollect(r)
       THEN threads' = threads \ {o} /\ gc_list' = gc_list \cup {o}
       ELSE UNCHANGED <<threads, gc_list>>
    /\ Goto(t, "tc_unlock")
    /\ UNCHANGED <<free_threads, heap, once, calls, reused>>

CollectUnlock(t) ==
    /\ At(t, "tc_unlock")
    /\ thr' = [thr EXCEPT ![frame[t].obj].lock = NULL]
    /\ Resume(t)
    /\ UNCHANGED <<places, list_lock, once, calls, reused>>
-----------------------------------------------------------------------------
(* Termination.                                                            *)

(* posix_pthread_exit, by return from the start routine, by a call or at a *)
(* cancellation point.                                                     *)
Exit(t) ==
    /\ At(t, "run") /\ t # Main
    /\ frame' = [frame EXCEPT ![t] = ExitFrame(t)]
    /\ UNCHANGED <<thr, places, list_lock, once, calls, reused>>

ExitThread(t) ==
    /\ At(t, "exit") /\ thr[t].lock = NULL
    /\ TryCollect(t, t, [thr[t] EXCEPT !.dead = TRUE, !.refcount = @ - 1])
    /\ UNCHANGED <<places, list_lock, once, calls, reused>>

(* The tid is stored under join_wait_mutex, joiners are notified after it. *)
Terminate(t) ==
    /\ At(t, "term")
    /\ thr' = [thr EXCEPT ![t].terminated = TRUE]
    /\ Goto(t, "notify")
    /\ UNCHANGED <<places, list_lock, once, calls, reused>>

\* join_wait_cv.notify_all() of object o, by t who goes on with frame mine.
NotifyJoiners(t, o, mine) ==
    frame' = [u \in Objects |->
                 IF u = t THEN mine
                 ELSE IF At(u, "sleep") /\ frame[u].obj = o
                      THEN [frame[u] EXCEPT !.pc = "check"] ELSE frame[u]]

(* The last uses of the object: the notification, and native_thr->Exit().  *)
ExitNotify(t) ==
    /\ At(t, "notify")
    /\ NotifyJoiners(t, t, Frame("none"))
    /\ UNCHANGED <<thr, places, list_lock, once, calls, reused>>
-----------------------------------------------------------------------------
(* The calls that find another thread.                                     *)

\* Mutant: the list lock is given up before the thread is locked.
MutFind(t, o, c) ==
    /\ Call(t) /\ list_lock = NULL
    /\ o \in threads \ {Main} /\ (c \in {"join", "timedjoin"} => o # t)
    /\ frame' = [frame EXCEPT ![t] = InCall("find", c, o)]
    /\ UNCHANGED <<thr, places, list_lock, once, reused>>

(* FindThread: the object is looked up under the list lock, which is held  *)
(* until the thread is locked; a handle that is not listed is ESRCH.       *)
Find(t, o, c) ==
    /\ Call(t) /\ list_lock = NULL
    /\ o \in threads \ {Main} /\ (c \in {"join", "timedjoin"} => o # t)
    /\ list_lock' = t
    /\ frame' = [frame EXCEPT ![t] = InCall("find", c, o)]
    /\ UNCHANGED <<thr, places, once, reused>>

FoundBy(t, cs) == At(t, "find") /\ thr[frame[t].obj].lock = NULL /\ frame[t].call \in cs

Refused(o) == thr[o].detached \/ thr[o].joiner # NULL

(* Detached, joined already, or dead where the call wants it alive.        *)
FindRefused(t) ==
    /\ \/ FoundBy(t, {"join", "timedjoin", "detach"}) /\ Refused(frame[t].obj)
       \/ FoundBy(t, {"cancel", "ref"}) /\ thr[frame[t].obj].dead
    /\ list_lock' = NULL
    /\ Return(t)
    /\ UNCHANGED <<thr, places, once, calls, reused>>

(* JoinThread: the caller becomes the joiner and keeps the target locked.  *)
JoinThread(t) ==
    LET o == frame[t].obj IN
    /\ FoundBy(t, {"join", "timedjoin"}) /\ ~Refused(o)
    /\ thr' = [thr EXCEPT ![o].joiner = t, ![o].lock = t]
    /\ list_lock' = NULL
    /\ Goto(t, "self")
    /\ UNCHANGED <<places, once, calls, reused>>

JoinSelf(t) ==
    LET o == frame[t].obj IN
    /\ At(t, "self") /\ thr[t].lock = NULL
    /\ thr' = [thr EXCEPT ![t].join_target = o, ![o].lock = NULL]
    /\ Goto(t, "test")
    /\ UNCHANGED <<places, list_lock, once, calls, reused>>

\* pthread_exit begins inside JoinThread, and its cleanup is backout_join.
JoinCancelled(t) == frame' = [frame EXCEPT ![t].pc = "out", ![t].call = "exit"]

JoinTest(t) ==
    /\ At(t, "test")
    /\ IF ShouldCancel(t) THEN JoinCancelled(t) ELSE Goto(t, "check")
    /\ UNCHANGED <<thr, places, list_lock, once, calls, reused>>

(* The wait loop, under join_wait_mutex.                                   *)
JoinCheck(t) ==
    /\ At(t, "check")
    /\ IF thr[frame[t].obj].terminated THEN Goto(t, "out")
       ELSE IF ShouldCancel(t) THEN JoinCancelled(t) ELSE Goto(t, "sleep")
    /\ UNCHANGED <<thr, places, list_lock, once, calls, reused>>

(* The deadline passes; wait_until looks at its predicate once more.       *)
JoinTimeout(t) ==
    /\ At(t, "sleep") /\ frame[t].call = "timedjoin"
    /\ IF thr[frame[t].obj].terminated \/ ShouldCancel(t)
       THEN Goto(t, "check")
       ELSE frame' = [frame EXCEPT ![t].pc = "out", ![t].call = "timeout"]
    /\ UNCHANGED <<thr, places, list_lock, once, calls, reused>>

(* join_target is cleared first, by the call or by backout_join.           *)
JoinOut(t) ==
    /\ At(t, "out") /\ thr[t].lock = NULL
    /\ thr' = [thr EXCEPT ![t].join_target = NULL]
    /\ Goto(t, IF frame[t].call \in {"exit", "timeout"} THEN "backout" ELSE "reap")
    /\ UNCHANGED <<places, list_lock, once, calls, reused>>

JoinBackout(t) ==
    LET o == frame[t].obj IN
    /\ At(t, "backout") /\ thr[o].lock = NULL
    /\ thr' = [thr EXCEPT ![o].joiner = NULL]
    /\ IF Exiting(t) THEN frame' = [frame EXCEPT ![t] = ExitFrame(t)] ELSE Return(t)
    /\ UNCHANGED <<places, list_lock, once, calls, reused>>

(* The return value is read, and the target is detached and collected.     *)
JoinReap(t) ==
    LET o == frame[t].obj IN
    /\ At(t, "reap") /\ thr[o].lock = NULL
    /\ TryCollect(t, o, [thr[o] EXCEPT !.detached = TRUE, !.joiner = NULL])
    /\ UNCHANGED <<places, list_lock, once, calls, reused>>

Detach(t) ==
    LET o == frame[t].obj IN
    /\ FoundBy(t, {"detach"}) /\ ~Refused(o)
    /\ list_lock' = NULL
    /\ TryCollect(t, o, [thr[o] EXCEPT !.detached = TRUE])
    /\ UNCHANGED <<places, once, calls, reused>>

(* RefAdd and RefDelete, around a look at the thread.                      *)
RefAdd(t) ==
    LET o == frame[t].obj IN
    /\ FoundBy(t, {"ref"}) /\ ~thr[o].dead
    /\ thr' = [thr EXCEPT ![o].refcount = @ + 1]
    /\ list_lock' = NULL
    /\ Goto(t, "ref")
    /\ UNCHANGED <<places, once, calls, reused>>

RefDelete(t) ==
    LET o == frame[t].obj IN
    /\ At(t, "ref") /\ thr[o].lock = NULL
    /\ TryCollect(t, o, [thr[o] EXCEPT !.refcount = @ - 1])
    /\ UNCHANGED <<places, list_lock, once, calls, reused>>

(* posix_pthread_cancel: the target stays locked to the end, and a joiner  *)
(* is marked under the join_wait_mutex of the thread it waits for.         *)
Cancel(t) ==
    LET o == frame[t].obj IN
    /\ FoundBy(t, {"cancel"}) /\ ~thr[o].dead
    /\ thr' = [thr EXCEPT ![o].lock = t]
    /\ list_lock' = NULL
    /\ Goto(t, "mark")
    /\ UNCHANGED <<places, once, calls, reused>>

CancelMark(t) ==
    LET o == frame[t].obj IN
    /\ At(t, "mark")
    /\ IF thr[o].cancel_pending
       THEN thr' = [thr EXCEPT ![o].lock = NULL] /\ Return(t)
       ELSE thr' = [thr EXCEPT ![o].cancel_pending = TRUE] /\ Goto(t, "wake")
    /\ UNCHANGED <<places, list_lock, once, calls, reused>>

\* Mutant: the cancelled thread's own condition variable is notified.
MutCancelWake(t) ==
    LET o == frame[t].obj IN
    /\ At(t, "wake")
    /\ thr' = [thr EXCEPT ![o].lock = NULL]
    /\ NotifyJoiners(t, o, Frame("run"))
    /\ UNCHANGED <<places, list_lock, once, calls, reused>>

CancelWake(t) ==
    LET o == frame[t].obj IN
    /\ At(t, "wake")
    /\ thr' = [thr EXCEPT ![o].lock = NULL]
    /\ IF thr[o].join_target = NULL
       THEN Return(t) ELSE NotifyJoiners(t, thr[o].join_target, Frame("run"))
    /\ UNCHANGED <<places, list_lock, once, calls, reused>>
-----------------------------------------------------------------------------
(* posix_pthread_once.  A failed exchange reads the state again, so that   *)
(* the load and the exchange are one step.                                 *)

OnceEnter(t) ==
    /\ \/ once = "Done" /\ Return(t) /\ UNCHANGED once
       \/ once = "NeverDone" /\ Goto(t, "init") /\ once' = "InProgress"
       \/ once \in {"InProgress", "Wait"} /\ Goto(t, "owait") /\ once' = "Wait"
    /\ UNCHANGED <<thr, places, list_lock, reused>>

Once(t) == Call(t) /\ OnceEnter(t)
OnceAgain(t) == At(t, "once") /\ OnceEnter(t) /\ UNCHANGED calls

(* state.wait(Wait) returns when the value is another one; a thread that   *)
(* found Wait blocks until it is notified.                                 *)
OnceWait(t) ==
    /\ At(t, "owait")
    /\ Goto(t, IF once = "Wait" THEN "oblocked" ELSE "once")
    /\ UNCHANGED <<thr, places, list_lock, once, calls, reused>>

(* init_routine returns, or exits the thread, which runs                   *)
(* once_cancel_handler.                                                    *)
InitReturns(t) ==
    /\ At(t, "init")
    /\ once' = "Done"
    /\ IF once = "InProgress" THEN Return(t) ELSE Goto(t, "onotify")
    /\ UNCHANGED <<thr, places, list_lock, calls, reused>>

\* Mutant: the cancel handler notifies nobody.
MutInitExits(t) ==
    /\ At(t, "init") /\ t # Main
    /\ once' = "NeverDone"
    /\ frame' = [frame EXCEPT ![t] = ExitFrame(t)]
    /\ UNCHANGED <<thr, places, list_lock, calls, reused>>

InitExits(t) ==
    /\ At(t, "init") /\ t # Main
    /\ once' = "NeverDone"
    /\ frame' = [frame EXCEPT ![t] = IF once = "InProgress" THEN ExitFrame(t)
                                     ELSE InCall("onotify", "exit", t)]
    /\ UNCHANGED <<thr, places, list_lock, calls, reused>>

OnceNotify(t) ==
    /\ At(t, "onotify")
    /\ frame' = [u \in Objects |->
                    IF u = t THEN IF Exiting(t) THEN ExitFrame(t) ELSE Frame("run")
                    ELSE IF At(u, "oblocked") THEN Frame("owait") ELSE frame[u]]
    /\ UNCHANGED <<thr, places, list_lock, once, calls, reused>>
-----------------------------------------------------------------------------
(* The calls of guest code, and the steps of a call under way.  What       *)
(* happens once an object was reused under a thread is undefined.          *)
GuestCall(t) ==
    \/ Create(t) \/ Exit(t) \/ Once(t)
    \/ \E o \in Objects, c \in {"join", "timedjoin", "detach", "cancel", "ref"} : Find(t, o, c)

Step(t) ==
    \/ Collect(t) \/ Alloc(t) \/ CreateStackFails(t) \/ Link(t) \/ SetAffinity(t)
    \/ CollectList(t) \/ CollectLock(t) \/ CollectUnlock(t)
    \/ ExitThread(t) \/ Terminate(t) \/ ExitNotify(t)
    \/ FindRefused(t) \/ JoinThread(t) \/ JoinSelf(t) \/ JoinTest(t) \/ JoinCheck(t)
    \/ JoinOut(t) \/ JoinBackout(t) \/ JoinReap(t)
    \/ Detach(t) \/ RefAdd(t) \/ RefDelete(t)
    \/ Cancel(t) \/ CancelMark(t) \/ CancelWake(t)
    \/ OnceAgain(t) \/ OnceWait(t) \/ InitReturns(t) \/ OnceNotify(t)

Next == ~reused /\ \E t \in Objects : GuestCall(t) \/ Step(t) \/ JoinTimeout(t) \/ InitExits(t)

Spec == Init /\ [][Next]_vars

(* The host runs every thread that can take a step inside a call, and      *)
(* init_routine returns unless it exits the thread.                        *)
FairSpec == Spec /\ \A t \in Objects : WF_vars(~reused /\ Step(t))
-----------------------------------------------------------------------------
\* o is the object that t is about to link.
NewOf(t, o) == At(t, "link") /\ frame[t].obj = o

(* An object is listed, collected, on the heap, cached, being freed or     *)
(* new, and in one of these places only.                                   *)
OnePlace ==
    /\ threads \subseteq Objects /\ gc_list \subseteq Objects /\ heap \subseteq Objects
    /\ threads \cap gc_list = {} /\ threads \cap heap = {} /\ gc_list \cap heap = {}
    /\ \A i, j \in 1 .. Len(free_threads) : free_threads[i] = free_threads[j] => i = j
    /\ \A o \in Objects : LET stored == threads \cup gc_list \cup heap IN
        /\ o \in Elems(free_threads) => o \notin stored
        /\ \A t \in Objects : o \in frame[t].work \/ NewOf(t, o) =>
               /\ o \notin stored \cup Elems(free_threads)
               /\ ~(o \in frame[t].work /\ NewOf(t, o))
               /\ \A u \in Objects : o \in frame[u].work \/ NewOf(u, o) => u = t
        /\ \/ o \in stored \cup Elems(free_threads)
           \/ \E t \in Objects : o \in frame[t].work \/ NewOf(t, o)

(* The state word of pthread_once names the one thread in init_routine.    *)
OneInit ==
    /\ \A t, u \in Objects : At(t, "init") /\ At(u, "init") => t = u
    /\ once \in {"InProgress", "Wait"} <=> \E t \in Objects : At(t, "init")

Frames == [pc : PCs, call : Calls \cup {"none", "exit", "timeout"},
           obj : Objects \cup {NULL}, work : SUBSET Objects]
Pthreads == [lock : Objects \cup {NULL}, refcount : Nat, dead : BOOLEAN, detached : BOOLEAN,
             joiner : Objects \cup {NULL}, join_target : Objects \cup {NULL},
             terminated : BOOLEAN, cancel_pending : BOOLEAN]

\* Types; in particular no reference count goes below zero.
TypeOK ==
    /\ frame \in [Objects -> Frames] /\ thr \in [Objects -> Pthreads]
    /\ free_threads \in Seq(Objects)
    /\ list_lock \in Objects \cup {NULL}
    /\ once \in {"NeverDone", "InProgress", "Wait", "Done"}
    /\ calls \in 0 .. MaxCalls /\ reused \in BOOLEAN

\* The tail of a call: what a thread still does with an object it gave up.
LastUse(t, o) ==
    \/ At(t, "tc_unlock") \/ At(t, "affinity")
    \/ t = o /\ frame[t].pc \in {"term", "notify"}

(* A pointer that FindThread, JoinThread, cancel or RefAdd obtained stays  *)
(* listed for as long as it is used, although the list lock is given up at *)
(* once: the thread lock, the joiner field and the reference keep it so.   *)
(* Only the tails of the calls that gave an object up (the unlock at the   *)
(* end of TryCollect, SetAffinity after the new thread started, and the    *)
(* exiting thread's own last steps) touch one that is not.  The same for   *)
(* the join_target that a canceller follows without a reference of its     *)
(* own: it is listed and its joiner is the cancelled thread.               *)
FoundStaysValid ==
    /\ \A o \in Objects : o \notin threads => \A t \in Users(o) : LastUse(t, o)
    /\ \A t \in Objects : LET o == thr[t].join_target IN
           o # NULL => o \in threads /\ thr[o].joiner = t

(* No wake-up is lost between a test and the sleep that follows it: a      *)
(* joiner that sleeps although its target terminated or its cancellation   *)
(* is pending, and a pthread_once waiter that sleeps although the word     *)
(* left Wait, have a thread between the store and notify_all.              *)
NoLostWake ==
    \A t \in Objects :
        /\ At(t, "sleep") /\ thr[frame[t].obj].terminated => At(frame[t].obj, "notify")
        /\ At(t, "sleep") /\ ShouldCancel(t) =>
               \E s \in Objects : At(s, "wake") /\ frame[s].obj = t
        /\ At(t, "oblocked") =>
               \E s \in Objects : At(s, "onotify") \/ (once = "Wait" /\ At(s, "init"))

\* The thread that holds the lock t waits for.
Holder(t) ==
    CASE frame[t].pc \in {"find", "reap", "backout", "ref", "tc_lock"} -> thr[frame[t].obj].lock
      [] frame[t].pc \in {"self", "out", "exit"} -> thr[t].lock
      [] frame[t].pc \in {"link", "tc_list"} -> list_lock
      [] OTHER -> NULL

\* Threads of S that join one another: each holds its target's lock, wants its
\* own, and has a joiner among them that holds it.
JoinCycle(S) ==
    \E T \in SUBSET S :
        T # {} /\ \A t \in T : At(t, "self") /\ \E s \in T : frame[s].obj = t

(* The list lock and the thread locks are taken in an order that can close *)
(* one kind of cycle only: threads that join one another, each with the    *)
(* next one's lock held while it takes its own (JoinThread reports EDEADLK *)
(* only for a thread that joins itself).                                   *)
OnlyJoinCycles ==
    \A S \in SUBSET Objects :
        S # {} /\ (\A t \in S : Holder(t) \in S) => JoinCycle(S)
-----------------------------------------------------------------------------
(* Why an object stays listed, part by part.                               *)

\* The points at which a thread is the joiner of obj, has it as its join_target, is in
\* TryCollect, and uses obj under a lock, a reference or the joiner field.
Joining == {"self", "test", "check", "sleep", "out", "backout", "reap"}
Waiting == {"test", "check", "sleep", "out"}
Collecting == {"tc_list", "tc_lock", "tc_unlock"}
InUse == Joining \cup {"find", "mark", "wake", "ref", "tc_list", "tc_lock"}

\* The thread has not passed ExitThread.
Alive(t) == ~(\/ frame[t].pc \in {"none", "term", "notify"}
              \/ frame[t].pc \in Collecting /\ Exiting(t))

\* What an activation holds at each point.
FrameAgrees ==
    \A t \in Objects : LET f == frame[t] IN
        /\ f.pc # "free" => f.work = {}
        /\ f.pc \in {"none", "run", "free", "alloc", "once", "init", "owait", "oblocked"}
               => f.call = "none" /\ f.obj = NULL
        /\ f.pc \in {"link", "affinity"} => f.call = "none" /\ f.obj \in Objects
        /\ f.pc \in InUse \cup {"tc_unlock"} => f.call # "none" /\ f.obj \in Objects
        /\ f.pc \in {"exit", "term", "notify"} => f.call = "exit"
        /\ f.pc = "onotify" => f.call \in {"none", "exit"}
        /\ f.call = "exit" =>
               f.pc \notin {"self", "test", "check", "sleep", "find", "mark", "wake", "ref", "reap"}
        /\ f.call = "exit" /\ f.pc \notin {"out", "backout"} => f.obj = t
        /\ f.call = "none" /\ f.pc = "onotify" => f.obj = NULL

\* Who holds a lock is at a point where it does, and the other way round.
LocksAgree ==
    /\ \A t \in Objects : list_lock = t <=> frame[t].pc \in {"find", "tc_lock"}
    /\ \A t, o \in Objects : thr[o].lock = t =>
           frame[t].pc \in {"self", "mark", "wake", "tc_unlock"} /\ frame[t].obj = o
    /\ \A t \in Objects :
           frame[t].pc \in {"self", "mark", "wake"} \/ (At(t, "tc_unlock") /\ ~reused)
               => thr[frame[t].obj].lock = t

\* joiner and join_target name each other, and a joined thread is not detached.
JoinsAgree ==
    /\ \A t, o \in Objects : thr[o].joiner = t <=> frame[t].pc \in Joining /\ frame[t].obj = o
    /\ \A t, o \in Objects : thr[t].join_target = o <=> frame[t].pc \in Waiting /\ frame[t].obj = o
    /\ \A o \in Objects : thr[o].joiner # NULL => ~thr[o].detached

\* The references of an object: its own thread's until it is dead, and these.
Refs(o) ==
    {t \in Objects : frame[t].pc \in {"ref", "tc_list", "tc_lock"} /\ frame[t].obj = o}
RefsExact ==
    \A o \in Objects :
        /\ IsFiniteSet(Refs(o))
        /\ thr[o].refcount = Cardinality(Refs(o)) + IF thr[o].dead THEN 0 ELSE 1

\* Objects in use are listed; a new object is nobody's yet.
UseIsListed ==
    \A t \in Objects :
        /\ Alive(t) => t \in threads /\ ~thr[t].dead
        /\ frame[t].pc \in InUse => frame[t].obj \in threads
        /\ At(t, "link") => ~thr[frame[t].obj].dead /\ (~reused => Users(frame[t].obj) = {})

(* Every object is in one place, every lock, joiner and reference is       *)
(* accounted for by the point its thread has reached, and whatever is in   *)
(* use is listed, whichever threads create, join, detach, cancel, exit and *)
(* collect (thread_state.cpp, pthread.cpp).  The inductive invariant.      *)
IInv ==
    /\ TypeOK /\ OnePlace /\ OneInit /\ FrameAgrees /\ LocksAgree /\ JoinsAgree /\ RefsExact
    /\ UseIsListed /\ NoLostWake

(* Every call ends.  A thread is in guest code or gone again and again,    *)
(* unless it joins a thread that has not terminated, or threads that join  *)
(* one another hold the locks, or an object was reused under a thread.     *)
CallReturns ==
    \A t \in Objects :
        []<>(\/ frame[t].pc \in {"run", "none"}
             \/ At(t, "sleep") /\ ~thr[frame[t].obj].terminated /\ ~ShouldCancel(t)
             \/ JoinCycle(Objects) \/ reused)

=============================================================================
