------------------------ MODULE MemoryTrackerProofs -------------------------
(***************************************************************************)
(* Proofs about MemoryTracker, for any number of guest threads and pages,  *)
(* any download window and any page ranges.                                *)
(*                                                                         *)
(* The inductive invariant IInv says who holds the two locks (LocksAgree), *)
(* which threads wait for which command (CommandsAgree), what the GPU      *)
(* thread may still rely on of the bits it read earlier (CopiesAgree),     *)
(* that no page is modified on both sides (OneSideModified), where a GPU   *)
(* write is that guest memory lacks (WritesPlaced), and that an image that *)
(* is not tracked is Dirty (ImageAgrees).  The page manager is treated     *)
(* once and for all in UpdatePageWatchersOK and CarryOver: a change of the *)
(* region's bits by one kind of watcher carries over to the counts and to  *)
(* the host's protection.  One lemma per change of the bits, one per       *)
(* action, and the theorems at the end.                                    *)
(***************************************************************************)
EXTENDS MemoryTracker, SeqOpsProofs

(* The counters of a page. *)
Counts == [readers : 0 .. 1, writers : 0 .. 127]

(* A watcher more or less. *)
Moved(x, y, track, isRead) ==
    LET d == IF track THEN 1 ELSE -1
    IN  /\ y.readers = x.readers + (IF isRead THEN d ELSE 0)
        /\ y.writers = x.writers + (IF isRead THEN 0 ELSE d)

(* The new counts, the host's protection with them, and the bits as before.*)
Updated(t, v, c) ==
    /\ v \in TrackerStates
    /\ v.cpu = t.cpu /\ v.gpu = t.gpu /\ v.writeable = t.writeable /\ v.readable = t.readable
    /\ ~v.failed /\ v.cached = c /\ \A p \in Pages : v.host[p] = Perms(c[p])

(* The page manager after an update: the counts of the pages in mask moved *)
(* by one, and the host's protection follows the counts everywhere, also   *)
(* on the pages that Protect was not called for: there the count neither   *)
(* left nor reached zero.                                                  *)
LEMMA UpdatePageWatchersOK ==
    ASSUME NEW t \in TrackerStates, NEW mask \in SUBSET Pages,
           NEW track \in BOOLEAN, NEW isRead \in BOOLEAN, NEW c \in [Pages -> Counts],
           ~t.failed, \A p \in Pages : t.host[p] = Perms(t.cached[p]),
           \A p \in Pages \ mask : c[p] = t.cached[p],
           \A p \in mask : Moved(t.cached[p], c[p], track, isRead),
           \A p \in Pages : c[p].readers = 0 \/ c[p].writers # 0
    PROVE  Updated(t, UpdatePageWatchers(t, mask, track, isRead), c)
  <1> DEFINE new == [p \in Pages |->
                IF p \in mask THEN AddDelta(t.cached[p], IF track THEN 1 ELSE -1, isRead)
                              ELSE t.cached[p]]
             edges == {p \in mask : Watchers(c[p], isRead) = (IF track THEN 1 ELSE 0)}
             protected == {p \in Pages : InProtectedRange(p, edges, c)}
             host == [p \in Pages |-> IF p \in protected THEN Perms(c[p]) ELSE t.host[p]]
  <1>1. \A p \in Pages : t.cached[p] \in Counts /\ c[p] \in Counts
    BY DEF TrackerStates, Counts
  <1>2. new = c
    <2> SUFFICES ASSUME NEW p \in mask
                 PROVE  AddDelta(t.cached[p], IF track THEN 1 ELSE -1, isRead) = c[p]
      BY DEF TrackerStates
    <2>1. /\ t.cached[p].readers \in 0 .. 1 /\ t.cached[p].writers \in 0 .. 127
          /\ c[p].readers \in 0 .. 1 /\ c[p].writers \in 0 .. 127
          /\ t.cached[p] = [readers |-> t.cached[p].readers, writers |-> t.cached[p].writers]
          /\ c[p] = [readers |-> c[p].readers, writers |-> c[p].writers]
      BY <1>1 DEF Counts
    <2>2. \A x \in 0 .. 1 : x % 2 = x
      OBVIOUS
    <2>3. \A x \in 0 .. 127 : x % 128 = x
      OBVIOUS
    <2> QED
      BY <2>1, <2>2, <2>3 DEF AddDelta, Moved
  <1>3. \A p \in Pages : host[p] = Perms(c[p])
    <2> SUFFICES ASSUME NEW p \in Pages, p \notin protected PROVE Perms(t.cached[p]) = Perms(c[p])
      OBVIOUS
    <2>1. p \notin edges
      BY DEF InProtectedRange, Pages
    <2>2. CASE p \notin mask
      BY <2>2
    <2>3. CASE p \in mask
      <3>1. /\ t.cached[p].readers \in 0 .. 1 /\ t.cached[p].writers \in 0 .. 127
            /\ c[p].readers \in 0 .. 1 /\ c[p].writers \in 0 .. 127
        BY <1>1 DEF Counts
      <3>2. Watchers(c[p], isRead) # (IF track THEN 1 ELSE 0)
        BY <2>1, <2>3
      <3> QED
        BY <2>3, <3>1, <3>2 DEF Watchers, Perms, Moved
    <2> QED
      BY <2>2, <2>3
  <1>4. \A p \in protected : Perms(c[p]) # {W}
    <2> SUFFICES ASSUME NEW p \in Pages, Perms(c[p]) = {W} PROVE FALSE
      OBVIOUS
    <2>1. c[p].writers = 0 /\ c[p].readers # 0
      BY DEF Perms, R, W
    <2> QED
      BY <2>1
  <1>5. ~track => \A p \in mask : Watchers(t.cached[p], isRead) # 0
    <2> SUFFICES ASSUME ~track, NEW p \in mask PROVE Watchers(t.cached[p], isRead) # 0
      OBVIOUS
    <2>1. c[p].readers \in 0 .. 1 /\ c[p].writers \in 0 .. 127
      BY <1>1 DEF Counts
    <2> QED
      BY <2>1 DEF Watchers, Moved
  <1>6. UpdatePageWatchers(t, mask, track, isRead) =
            [t EXCEPT !.cached = c, !.host = host,
                      !.failed = \/ t.failed
                                 \/ ~track /\ \E p \in mask : Watchers(t.cached[p], isRead) = 0
                                 \/ \E p \in protected : Perms(c[p]) = {W}]
    BY <1>2 DEF UpdatePageWatchers
  <1> HIDE DEF new, edges, protected
  <1>7. host \in [Pages -> SUBSET {R, W}]
    BY <1>3 DEF Perms, host
  <1> DEFINE v == [t EXCEPT !.cached = c, !.host = host]
  <1>8. UpdatePageWatchers(t, mask, track, isRead) = v
    BY <1>4, <1>5, <1>6 DEF TrackerStates
  <1> HIDE DEF host
  <1>9. Updated(t, v, c)
    BY <1>3, <1>7 DEF Updated, TrackerStates, Counts
  <1> HIDE DEF v
  <1> QED
    BY <1>8, <1>9

(* One watcher, or none. *)
n(P) == IF P THEN 1 ELSE 0

(* The counts and the host's protection follow the bits of t, with the     *)
(* image tracked or not.                                                   *)
Agrees(t, tracked) ==
    /\ ~t.failed
    /\ t.writeable = t.cpu
    /\ t.readable = IF mode = "Precise" THEN Pages \ t.gpu ELSE Pages
    /\ \A p \in Pages : /\ t.host[p] = Perms(t.cached[p])
                        /\ t.cached[p].readers = n(p \notin t.readable)
                        /\ t.cached[p].writers = n(p \notin t.writeable)
                                                 + n(tracked /\ p \in ImagePages)

(* A page is not modified on both sides, unless nothing is read back.      *)
Apart(t) == mode # "Disabled" => t.cpu \cap t.gpu = {}

(* The agreement of the current state is the invariant. *)
LEMMA AgreesIsWatchersAgree == Agrees(trk, image.tracked) <=> WatchersAgree
  BY DEF Agrees, WatchersAgree, n

(* The image lies in the region. *)
LEMMA ImageInPages == ImagePages \subseteq Pages /\ ImagePages \in PageRanges
  BY ConstantsOK DEF PageRanges, Pages

(* The counts as the bits define them. *)
CountsOf(cpu, readable, tracked) ==
    [p \in Pages |-> [readers |-> n(p \notin readable),
                      writers |-> n(p \notin cpu) + n(tracked /\ p \in ImagePages)]]

(* At most two watchers per page: the counters do not wrap around. *)
LEMMA CountsOfOK ==
    ASSUME NEW cpu, NEW readable, NEW tracked \in BOOLEAN
    PROVE  /\ CountsOf(cpu, readable, tracked) \in [Pages -> Counts]
           /\ \A p \in Pages :
                 /\ CountsOf(cpu, readable, tracked)[p].readers = n(p \notin readable)
                 /\ CountsOf(cpu, readable, tracked)[p].writers
                        = n(p \notin cpu) + n(tracked /\ p \in ImagePages)
  <1>1. \A p \in Pages : /\ n(p \notin readable) \in 0 .. 1
                         /\ n(p \notin cpu) + n(tracked /\ p \in ImagePages) \in 0 .. 127
    BY DEF n
  <1> QED
    BY <1>1 DEF CountsOf, Counts

(* The counts of page p that the bits of t and of u ask for differ by the  *)
(* watcher that is added or removed.                                       *)
Follows(p, t, a, u, b, mask, track, isRead) ==
    LET d == IF p \notin mask THEN 0 ELSE IF track THEN 1 ELSE -1
    IN  /\ n(p \notin u.readable) = n(p \notin t.readable) + (IF isRead THEN d ELSE 0)
        /\ n(p \notin u.cpu) + n(b /\ p \in ImagePages)
               = n(p \notin t.cpu) + n(a /\ p \in ImagePages) + (IF isRead THEN 0 ELSE d)

(* The state v has these bits, and its counts and protection follow them. *)
Carried(v, cpu, gpuBits, tracked) ==
    v \in TrackerStates /\ v.cpu = cpu /\ v.gpu = gpuBits /\ Agrees(v, tracked)

(* An update of the page manager that carries a change of the bits (or of  *)
(* the image) over to the counts leads from an agreement to the next.      *)
LEMMA CarryOver ==
    ASSUME NEW t \in TrackerStates, NEW u \in TrackerStates, NEW a \in BOOLEAN, NEW b \in BOOLEAN,
           Agrees(t, a), Apart(u), NEW mask \in SUBSET Pages, NEW track \in BOOLEAN,
           NEW isRead \in BOOLEAN,
           u.cached = t.cached, u.host = t.host, u.failed = t.failed,
           u.writeable = u.cpu, u.readable = IF mode = "Precise" THEN Pages \ u.gpu ELSE Pages,
           \A p \in Pages : Follows(p, t, a, u, b, mask, track, isRead)
    PROVE  Carried(UpdatePageWatchers(u, mask, track, isRead), u.cpu, u.gpu, b)
  <1> DEFINE c == CountsOf(u.cpu, u.readable, b)
             v == UpdatePageWatchers(u, mask, track, isRead)
  <1>1. /\ c \in [Pages -> Counts]
        /\ \A p \in Pages : /\ c[p].readers = n(p \notin u.readable)
                            /\ c[p].writers = n(p \notin u.cpu) + n(b /\ p \in ImagePages)
    BY CountsOfOK
  <1>2. /\ ~u.failed /\ \A p \in Pages : u.host[p] = Perms(u.cached[p])
        /\ \A p \in Pages : /\ u.cached[p].readers = n(p \notin t.readable)
                            /\ u.cached[p].writers = n(p \notin t.cpu) + n(a /\ p \in ImagePages)
    BY DEF Agrees
  <1> HIDE DEF c
  <1>3. \A p \in Pages : u.cached[p] \in Counts /\ c[p] \in Counts
    BY <1>1 DEF TrackerStates, Counts
  <1>4. \A p \in Pages \ mask : c[p] = u.cached[p]
    <2> SUFFICES ASSUME NEW p \in Pages \ mask PROVE c[p] = u.cached[p]
      OBVIOUS
    <2>1. /\ u.cached[p] = [readers |-> u.cached[p].readers, writers |-> u.cached[p].writers]
          /\ c[p] = [readers |-> c[p].readers, writers |-> c[p].writers]
      BY <1>3 DEF Counts
    <2>2. c[p].readers = u.cached[p].readers /\ c[p].writers = u.cached[p].writers
      BY <1>1, <1>2 DEF n, Follows
    <2> QED
      BY <2>1, <2>2
  <1>5. \A p \in mask : Moved(u.cached[p], c[p], track, isRead)
    BY <1>1, <1>2 DEF Moved, Follows
  <1>6. \A p \in Pages : c[p].readers = 0 \/ c[p].writers # 0
    BY <1>1 DEF Apart, n
  <1>7. Updated(u, v, c)
    <2>1. c \in [Pages -> Counts]
      BY <1>1
    <2>2. ~u.failed
      BY <1>2
    <2>3. \A p \in Pages : u.host[p] = Perms(u.cached[p])
      BY <1>2
    <2> QED
      BY <1>4, <1>5, <1>6, <2>1, <2>2, <2>3, UpdatePageWatchersOK, Zenon
  <1> HIDE DEF v
  <1>8. Agrees(v, b)
    BY <1>1, <1>7 DEF Agrees, Updated
  <1> QED
    BY <1>7, <1>8 DEF v, Updated, Carried

(* The three changes of the region's bits, and the image's watchers.       *)

(* Marking pages CPU-modified opens them to stores, unless the image       *)
(* watches them.                                                           *)
LEMMA MarkCpuOK ==
    ASSUME NEW t \in TrackerStates, NEW a \in BOOLEAN, Agrees(t, a), NEW S \in SUBSET Pages,
           mode # "Disabled" => (t.cpu \cup S) \cap t.gpu = {}
    PROVE  Carried(MarkCpu(t, S), t.cpu \cup S, t.gpu, a)
  <1> DEFINE t1 == [t EXCEPT !.cpu = t.cpu \cup S]
             u == [t1 EXCEPT !.writeable = t1.cpu]
             mask == S \ t.cpu
  <1>1. t.cpu \in SUBSET Pages /\ t.writeable = t.cpu
    BY DEF TrackerStates, Agrees
  <1>2. /\ t1 \in TrackerStates /\ t1.cpu = t.cpu \cup S /\ t1.gpu = t.gpu
        /\ t1.writeable = t.writeable /\ t1.readable = t.readable /\ t1.cached = t.cached
        /\ t1.host = t.host /\ t1.failed = t.failed
    BY <1>1 DEF TrackerStates
  <1> HIDE DEF t1
  <1>3. /\ u \in TrackerStates /\ u.cpu = t.cpu \cup S /\ u.gpu = t.gpu
        /\ u.writeable = u.cpu /\ u.readable = t.readable /\ u.cached = t.cached
        /\ u.host = t.host /\ u.failed = t.failed
    BY <1>2 DEF TrackerStates
  <1>4. MarkCpu(t, S) = IF mask = {} THEN t1 ELSE UpdatePageWatchers(u, mask, FALSE, FALSE)
    <2>1. SymDiff(t1.cpu, t1.writeable) = mask
      BY <1>1, <1>2 DEF SymDiff
    <2>2. MarkCpu(t, S) = UpdateProtection(t1, FALSE, FALSE)
      BY DEF MarkCpu, t1
    <2> HIDE DEF mask
    <2>3. UpdateProtection(t1, FALSE, FALSE)
              = IF mask = {} THEN t1 ELSE UpdatePageWatchers(u, mask, FALSE, FALSE)
      BY ONLY <2>1 DEF UpdateProtection, u
    <2> QED
      BY <2>2, <2>3
  <1> HIDE DEF u
  <1>5. CASE mask = {}
    <2>1. t1.cpu = t.cpu
      BY <1>1, <1>2, <1>5
    <2>2. Agrees(t1, a)
      BY <1>1, <1>2, <2>1 DEF Agrees
    <2> QED
      BY <1>2, <1>4, <1>5, <2>2 DEF Carried
  <1>6. CASE mask # {}
    <2>1. \A p \in Pages : Follows(p, t, a, u, a, mask, FALSE, FALSE)
      BY <1>3 DEF Follows, n
    <2>2. mask \in SUBSET Pages /\ TRUE \in BOOLEAN /\ FALSE \in BOOLEAN /\ Apart(u)
      BY <1>1, <1>3 DEF Apart
    <2>3. u.readable = IF mode = "Precise" THEN Pages \ u.gpu ELSE Pages
      BY <1>3 DEF Agrees
    <2> HIDE DEF mask
    <2>4. Carried(UpdatePageWatchers(u, mask, FALSE, FALSE), u.cpu, u.gpu, a)
      BY <1>3, <2>1, <2>2, <2>3, CarryOver, Zenon
    <2> QED
      BY <1>3, <1>4, <1>6, <2>4
  <1> QED
    BY <1>5, <1>6

(* Unmarking CPU-modified pages closes them to stores. *)
LEMMA ClearCpuOK ==
    ASSUME NEW t \in TrackerStates, NEW a \in BOOLEAN, Agrees(t, a), NEW S \in SUBSET Pages,
           Apart(t)
    PROVE  Carried(ClearCpu(t, S), t.cpu \ S, t.gpu, a)
  <1> DEFINE t1 == [t EXCEPT !.cpu = t.cpu \ S]
             u == [t1 EXCEPT !.writeable = t1.cpu]
             mask == S \cap t.cpu
  <1>1. t.cpu \in SUBSET Pages /\ t.writeable = t.cpu
    BY DEF TrackerStates, Agrees
  <1>2. /\ t1 \in TrackerStates /\ t1.cpu = t.cpu \ S /\ t1.gpu = t.gpu
        /\ t1.writeable = t.writeable /\ t1.readable = t.readable /\ t1.cached = t.cached
        /\ t1.host = t.host /\ t1.failed = t.failed
    BY <1>1 DEF TrackerStates
  <1> HIDE DEF t1
  <1>3. /\ u \in TrackerStates /\ u.cpu = t.cpu \ S /\ u.gpu = t.gpu
        /\ u.writeable = u.cpu /\ u.readable = t.readable /\ u.cached = t.cached
        /\ u.host = t.host /\ u.failed = t.failed
    BY <1>2 DEF TrackerStates
  <1>4. ClearCpu(t, S) = IF mask = {} THEN t1 ELSE UpdatePageWatchers(u, mask, TRUE, FALSE)
    <2>1. SymDiff(t1.cpu, t1.writeable) = mask
      BY <1>1, <1>2 DEF SymDiff
    <2>2. ClearCpu(t, S) = UpdateProtection(t1, TRUE, FALSE)
      BY DEF ClearCpu, t1
    <2> HIDE DEF mask
    <2>3. UpdateProtection(t1, TRUE, FALSE)
              = IF mask = {} THEN t1 ELSE UpdatePageWatchers(u, mask, TRUE, FALSE)
      BY ONLY <2>1 DEF UpdateProtection, u
    <2> QED
      BY <2>2, <2>3
  <1> HIDE DEF u
  <1>5. CASE mask = {}
    <2>1. t1.cpu = t.cpu
      BY <1>1, <1>2, <1>5
    <2>2. Agrees(t1, a)
      BY <1>1, <1>2, <2>1 DEF Agrees
    <2> QED
      BY <1>2, <1>4, <1>5, <2>2 DEF Carried
  <1>6. CASE mask # {}
    <2>1. \A p \in Pages : Follows(p, t, a, u, a, mask, TRUE, FALSE)
      BY <1>3 DEF Follows, n
    <2>2. mask \in SUBSET Pages /\ TRUE \in BOOLEAN /\ FALSE \in BOOLEAN /\ Apart(u)
      BY <1>1, <1>3 DEF Apart
    <2>3. u.readable = IF mode = "Precise" THEN Pages \ u.gpu ELSE Pages
      BY <1>3 DEF Agrees
    <2> HIDE DEF mask
    <2>4. Carried(UpdatePageWatchers(u, mask, TRUE, FALSE), u.cpu, u.gpu, a)
      BY <1>3, <2>1, <2>2, <2>3, CarryOver, Zenon
    <2> QED
      BY <1>3, <1>4, <1>6, <2>4
  <1> QED
    BY <1>5, <1>6

(* Marking pages GPU-modified closes them to loads with precise readbacks. *)
(* They are closed to stores already, so that no page becomes write-only.  *)
LEMMA MarkGpuOK ==
    ASSUME NEW t \in TrackerStates, NEW a \in BOOLEAN, Agrees(t, a), NEW S \in SUBSET Pages,
           mode # "Disabled" => t.cpu \cap (t.gpu \cup S) = {}
    PROVE  Carried(ChangeGpu(t, S, TRUE), t.cpu, t.gpu \cup S, a)
  <1> DEFINE t1 == [t EXCEPT !.gpu = t.gpu \cup S]
             u == [t1 EXCEPT !.readable = Pages \ t1.gpu]
             mask == S \ t.gpu
  <1>1. t.gpu \in SUBSET Pages /\ t.readable = IF mode = "Precise" THEN Pages \ t.gpu ELSE Pages
    BY DEF TrackerStates, Agrees
  <1>2. /\ t1 \in TrackerStates /\ t1.gpu = t.gpu \cup S /\ t1.cpu = t.cpu
        /\ t1.writeable = t.writeable /\ t1.readable = t.readable /\ t1.cached = t.cached
        /\ t1.host = t.host /\ t1.failed = t.failed
    BY <1>1 DEF TrackerStates
  <1>d. ChangeGpu(t, S, TRUE) = IF mode = "Precise" THEN UpdateProtection(t1, TRUE, TRUE) ELSE t1
    BY DEF ChangeGpu
  <1> HIDE DEF t1
  <1>3. CASE mode # "Precise"
    <2>1. Agrees(t1, a)
      BY <1>2, <1>3 DEF Agrees
    <2> QED
      BY <1>2, <1>3, <1>d, <2>1 DEF Carried
  <1>4. CASE mode = "Precise"
    <2>1. /\ u \in TrackerStates /\ u.gpu = t.gpu \cup S /\ u.cpu = t.cpu
          /\ u.writeable = t.writeable /\ u.readable = Pages \ u.gpu /\ u.cached = t.cached
          /\ u.host = t.host /\ u.failed = t.failed
      BY <1>2 DEF TrackerStates
    <2>2. UpdateProtection(t1, TRUE, TRUE)
              = IF mask = {} THEN t1 ELSE UpdatePageWatchers(u, mask, TRUE, TRUE)
      <3>1. SymDiff(Pages \ t1.gpu, t1.readable) = mask
        BY <1>1, <1>2, <1>4 DEF SymDiff
      <3> HIDE DEF mask
      <3> QED
        BY ONLY <3>1 DEF UpdateProtection, u
    <2> HIDE DEF u
    <2>3. CASE mask = {}
      <3>1. t1.gpu = t.gpu
        BY <1>1, <1>2, <2>3
      <3>2. Agrees(t1, a)
        BY <1>2, <3>1 DEF Agrees
      <3> QED
        BY <1>2, <1>4, <1>d, <2>2, <2>3, <3>2 DEF Carried
    <2>4. CASE mask # {}
      <3>1. \A p \in Pages : Follows(p, t, a, u, a, mask, TRUE, TRUE)
        BY <1>1, <1>4, <2>1 DEF Follows, n
      <3>2. mask \in SUBSET Pages /\ TRUE \in BOOLEAN /\ FALSE \in BOOLEAN /\ Apart(u)
        BY <1>1, <2>1 DEF Apart
      <3>3. /\ u.readable = IF mode = "Precise" THEN Pages \ u.gpu ELSE Pages
            /\ u.writeable = u.cpu
        BY <1>4, <2>1 DEF Agrees
      <3>5. /\ u \in TrackerStates /\ u.cached = t.cached
            /\ u.host = t.host /\ u.failed = t.failed
        BY <2>1
      <3> HIDE DEF mask
      <3>4. Carried(UpdatePageWatchers(u, mask, TRUE, TRUE), u.cpu, u.gpu, a)
        <4> DEFINE track == TRUE
                   isRead == TRUE
        <4>1. track \in BOOLEAN /\ isRead \in BOOLEAN
          OBVIOUS
        <4>2. \A p \in Pages : Follows(p, t, a, u, a, mask, track, isRead)
          BY <3>1
        <4> HIDE DEF track, isRead
        <4>3. Carried(UpdatePageWatchers(u, mask, track, isRead), u.cpu, u.gpu, a)
          BY ONLY t \in TrackerStates, a \in BOOLEAN, Agrees(t, a), <3>2, <3>3, <3>5, <4>1, <4>2,
                  CarryOver
        <4> QED
          BY <4>3 DEF track, isRead
      <3> QED
        BY <1>4, <1>d, <2>1, <2>2, <2>4, <3>4
    <2> QED
      BY <2>3, <2>4
  <1> QED
    BY <1>3, <1>4

(* Unmarking GPU-modified pages opens them to loads. *)
LEMMA UnmarkGpuOK ==
    ASSUME NEW t \in TrackerStates, NEW a \in BOOLEAN, Agrees(t, a), NEW S \in SUBSET Pages,
           Apart(t)
    PROVE  Carried(ChangeGpu(t, S, FALSE), t.cpu, t.gpu \ S, a)
  <1> DEFINE t1 == [t EXCEPT !.gpu = t.gpu \ S]
             u == [t1 EXCEPT !.readable = Pages \ t1.gpu]
             mask == S \cap t.gpu
  <1>1. t.gpu \in SUBSET Pages /\ t.readable = IF mode = "Precise" THEN Pages \ t.gpu ELSE Pages
    BY DEF TrackerStates, Agrees
  <1>2. /\ t1 \in TrackerStates /\ t1.gpu = t.gpu \ S /\ t1.cpu = t.cpu
        /\ t1.writeable = t.writeable /\ t1.readable = t.readable /\ t1.cached = t.cached
        /\ t1.host = t.host /\ t1.failed = t.failed
    BY <1>1 DEF TrackerStates
  <1>d. ChangeGpu(t, S, FALSE) = IF mode = "Precise" THEN UpdateProtection(t1, FALSE, TRUE) ELSE t1
    BY DEF ChangeGpu
  <1> HIDE DEF t1
  <1>3. CASE mode # "Precise"
    <2>1. Agrees(t1, a)
      BY <1>2, <1>3 DEF Agrees
    <2> QED
      BY <1>2, <1>3, <1>d, <2>1 DEF Carried
  <1>4. CASE mode = "Precise"
    <2>1. /\ u \in TrackerStates /\ u.gpu = t.gpu \ S /\ u.cpu = t.cpu
          /\ u.writeable = t.writeable /\ u.readable = Pages \ u.gpu /\ u.cached = t.cached
          /\ u.host = t.host /\ u.failed = t.failed
      BY <1>2 DEF TrackerStates
    <2>2. UpdateProtection(t1, FALSE, TRUE)
              = IF mask = {} THEN t1 ELSE UpdatePageWatchers(u, mask, FALSE, TRUE)
      <3>1. SymDiff(Pages \ t1.gpu, t1.readable) = mask
        BY <1>1, <1>2, <1>4 DEF SymDiff
      <3> HIDE DEF mask
      <3> QED
        BY ONLY <3>1 DEF UpdateProtection, u
    <2> HIDE DEF u
    <2>3. CASE mask = {}
      <3>1. t1.gpu = t.gpu
        BY <1>1, <1>2, <2>3
      <3>2. Agrees(t1, a)
        BY <1>2, <3>1 DEF Agrees
      <3> QED
        BY <1>2, <1>4, <1>d, <2>2, <2>3, <3>2 DEF Carried
    <2>4. CASE mask # {}
      <3>1. \A p \in Pages : Follows(p, t, a, u, a, mask, FALSE, TRUE)
        BY <1>1, <1>4, <2>1 DEF Follows, n
      <3>2. mask \in SUBSET Pages /\ TRUE \in BOOLEAN /\ FALSE \in BOOLEAN /\ Apart(u)
        BY <1>1, <2>1 DEF Apart
      <3>3. /\ u.readable = IF mode = "Precise" THEN Pages \ u.gpu ELSE Pages
            /\ u.writeable = u.cpu
        BY <1>4, <2>1 DEF Agrees
      <3>5. /\ u \in TrackerStates /\ u.cached = t.cached
            /\ u.host = t.host /\ u.failed = t.failed
        BY <2>1
      <3> HIDE DEF mask
      <3>4. Carried(UpdatePageWatchers(u, mask, FALSE, TRUE), u.cpu, u.gpu, a)
        <4> DEFINE track == FALSE
                   isRead == TRUE
        <4>1. track \in BOOLEAN /\ isRead \in BOOLEAN
          OBVIOUS
        <4>2. \A p \in Pages : Follows(p, t, a, u, a, mask, track, isRead)
          BY <3>1
        <4> HIDE DEF track, isRead
        <4>3. Carried(UpdatePageWatchers(u, mask, track, isRead), u.cpu, u.gpu, a)
          BY ONLY t \in TrackerStates, a \in BOOLEAN, Agrees(t, a), <3>2, <3>3, <3>5, <4>1, <4>2,
                  CarryOver
        <4> QED
          BY <4>3 DEF track, isRead
      <3> QED
        BY <1>4, <1>d, <2>1, <2>2, <2>4, <3>4
    <2> QED
      BY <2>3, <2>4
  <1> QED
    BY <1>3, <1>4

(* The image's watchers come and go with its tracked range.                *)
LEMMA TrackOK ==
    ASSUME NEW t \in TrackerStates, Agrees(t, FALSE), Apart(t)
    PROVE  Carried(UpdatePageWatchers(t, ImagePages, TRUE, FALSE), t.cpu, t.gpu, TRUE)
  <1>1. \A p \in Pages : Follows(p, t, FALSE, t, TRUE, ImagePages, TRUE, FALSE)
    BY DEF Follows, n
  <1>2. ImagePages \in SUBSET Pages /\ TRUE \in BOOLEAN /\ FALSE \in BOOLEAN
    BY ImageInPages
  <1>3. /\ t.readable = IF mode = "Precise" THEN Pages \ t.gpu ELSE Pages
        /\ t.writeable = t.cpu
    BY DEF Agrees
  <1> QED
    BY <1>1, <1>2, <1>3, CarryOver, Zenon

(* Tracking backwards: the image's watchers go. *)
LEMMA UntrackOK ==
    ASSUME NEW t \in TrackerStates, Agrees(t, TRUE), Apart(t)
    PROVE  Carried(UpdatePageWatchers(t, ImagePages, FALSE, FALSE), t.cpu, t.gpu, FALSE)
  <1>1. \A p \in Pages : Follows(p, t, TRUE, t, FALSE, ImagePages, FALSE, FALSE)
    BY DEF Follows, n
  <1>2. ImagePages \in SUBSET Pages /\ TRUE \in BOOLEAN /\ FALSE \in BOOLEAN
    BY ImageInPages
  <1>3. /\ t.readable = IF mode = "Precise" THEN Pages \ t.gpu ELSE Pages
        /\ t.writeable = t.cpu
    BY DEF Agrees
  <1> QED
    BY <1>1, <1>2, <1>3, CarryOver, Zenon

(* What the host lets the guest do, in terms of the bits.                  *)
LEMMA HostOf ==
    ASSUME NEW t \in TrackerStates, NEW a \in BOOLEAN, Agrees(t, a), NEW p \in Pages
    PROVE  /\ W \in t.host[p] <=> (p \in t.cpu /\ ~(a /\ p \in ImagePages))
           /\ R \in t.host[p] <=> (mode = "Precise" => p \notin t.gpu)
  <1>1. /\ t.host[p] = Perms(t.cached[p]) /\ t.writeable = t.cpu
        /\ t.cached[p].readers = n(p \notin t.readable)
        /\ t.cached[p].writers = n(p \notin t.writeable) + n(a /\ p \in ImagePages)
        /\ t.readable = IF mode = "Precise" THEN Pages \ t.gpu ELSE Pages
    BY DEF Agrees
  <1>2. W \in t.host[p] <=> t.cached[p].writers = 0
    BY <1>1 DEF Perms, R, W
  <1>3. R \in t.host[p] <=> t.cached[p].readers = 0
    BY <1>1 DEF Perms, R, W
  <1>4. t.cached[p].writers = 0 <=> (p \in t.cpu /\ ~(a /\ p \in ImagePages))
    BY <1>1 DEF n
  <1>5. t.cached[p].readers = 0 <=> p \in t.readable
    BY <1>1 DEF n
  <1> QED
    BY <1>1, <1>2, <1>3, <1>4, <1>5

(* The download window contains the request. *)
LEMMA WindowOK ==
    ASSUME NEW S \in PageRanges
    PROVE  S \subseteq Window(S) /\ Window(S) \subseteq Pages
  <1>1. PICK a \in Pages, b \in Pages : S = a .. b /\ S # {}
    BY DEF PageRanges
  <1>2. /\ a \in Nat /\ b \in Nat /\ a <= b /\ WindowPages \in Nat /\ WindowPages # 0
    BY <1>1, ConstantsOK DEF Pages
  <1>3. Min(S) = a /\ Max(S) = b
    <2>1. \E x \in S : \A y \in S : x <= y
      BY <1>1, <1>2
    <2>2. \E x \in S : \A y \in S : x >= y
      BY <1>1, <1>2
    <2>3. Min(S) \in S /\ \A y \in S : Min(S) <= y
      BY <2>1 DEF Min
    <2>4. Max(S) \in S /\ \A y \in S : Max(S) >= y
      BY <2>2 DEF Max
    <2>5. a \in S /\ b \in S
      BY <1>1, <1>2
    <2> QED
      BY <1>1, <1>2, <2>3, <2>4, <2>5
  <1> DEFINE start == a - (a % WindowPages)
             T == {start + WindowPages, b + 1}
  <1>4. start \in Int /\ start <= a
    <2>1. a % WindowPages \in 0 .. WindowPages - 1
      BY <1>2
    <2> QED
      BY <1>2, <2>1
  <1> HIDE DEF start
  <1>5. Max(T) \in Int /\ b + 1 <= Max(T)
    <2>1. \E x \in T : \A y \in T : x >= y
      BY <1>2, <1>4
    <2>2. Max(T) \in T /\ \A y \in T : Max(T) >= y
      BY <2>1 DEF Max
    <2> QED
      BY <1>2, <1>4, <2>2
  <1>6. Window(S) = {p \in Pages : start <= p /\ p < Max(T)}
    BY <1>3 DEF Window, start
  <1> HIDE DEF T
  <1>7. \A p \in S : p \in Pages /\ p \in Nat /\ a <= p /\ p <= b
    BY <1>1, <1>2, ConstantsOK DEF Pages
  <1> QED
    BY <1>2, <1>4, <1>5, <1>6, <1>7

(* The tracker keeps its promise when the bits and the image's state are   *)
(* carried over.                                                           *)
LEMMA TrackerStep ==
    ASSUME NEW cpu, NEW gpuBits, Carried(trk', cpu, gpuBits, image'.tracked), mode' = mode
    PROVE  WatchersAgree' /\ trk' \in TrackerStates /\ trk'.cpu = cpu /\ trk'.gpu = gpuBits
  BY DEF Carried, Agrees, WatchersAgree, n

(* The tracker in a state of the invariant, in the terms of the lemmas     *)
(* above.                                                                  *)
LEMMA TrackerNow ==
    ASSUME IInv
    PROVE  /\ trk \in TrackerStates /\ image.tracked \in BOOLEAN /\ Agrees(trk, image.tracked)
           /\ Apart(trk) /\ trk.cpu \subseteq Pages /\ trk.gpu \subseteq Pages
           /\ Carried(trk, trk.cpu, trk.gpu, image.tracked)
  <1>1. /\ trk \in TrackerStates /\ image.tracked \in BOOLEAN
        /\ Agrees(trk, image.tracked) /\ Apart(trk)
    BY AgreesIsWatchersAgree DEF IInv, TypeOK, OneSideModified, Apart
  <1> QED
    BY <1>1 DEF TrackerStates, Carried

(* A store into an open page: the page is marked CPU-modified, and an      *)
(* image over it is not tracked, hence Dirty.                              *)
LEMMA StoreOK ==
    ASSUME IInv, NEW g \in Guests, NEW p \in UNION GuestRanges, Store(g, p)
    PROVE  IInv'
  <1>u. UNCHANGED <<mode, trk, lock, mutex, ranges, image, guest, gpu, commands>>
    BY DEF Store
  <1>b. /\ None \notin Guests /\ Gpu \notin Guests /\ Gpu # None
        /\ trk.cpu \subseteq Pages /\ trk.gpu \subseteq Pages /\ ImagePages \subseteq Pages
    BY TrackerNow, ImageInPages, ConstantsOK
  <1>p. p \in Pages
    BY ConstantsOK DEF PageRanges, Pages
  <1>h. p \in trk.cpu /\ ~(image.tracked /\ p \in ImagePages)
    BY <1>p, HostOf, TrackerNow DEF Store
  <1>c. /\ copy'.vramStores = copy.vramStores \ {p} /\ copy'.vramWrites = copy.vramWrites
        /\ copy'.memWrites = copy.memWrites
        /\ copy'.imageStores <=> (copy.imageStores /\ p \notin ImagePages)
        /\ copy' \in [vramStores : SUBSET Pages, vramWrites : SUBSET Pages,
                      memWrites : SUBSET Pages, imageStores : BOOLEAN]
    BY DEF Store, IInv, TypeOK
  <1>t. WatchersAgree'
    BY <1>u DEF IInv, WatchersAgree
  <1>1. TypeOK'
    BY <1>u, <1>b, <1>p, <1>h, <1>c, <1>t DEF IInv, TypeOK
  <1>2. LocksAgree'
    BY <1>u, <1>b, <1>p, <1>h, <1>c, <1>t DEF IInv, LocksAgree, Holds, UploadsFor
  <1>3. CommandsAgree'
    BY <1>u, <1>b, <1>p, <1>h, <1>c, <1>t DEF IInv, CommandsAgree, Serving
  <1>4. CopiesAgree'
    BY <1>u, <1>b, <1>p, <1>h, <1>c, <1>t DEF IInv, CopiesAgree, Serving, UploadsFor
  <1>5. OneSideModified'
    BY <1>u, <1>b, <1>p, <1>h, <1>c, <1>t DEF IInv, OneSideModified
  <1>6. WritesPlaced'
    BY <1>u, <1>b, <1>p, <1>h, <1>c, <1>t DEF IInv, WritesPlaced
  <1>7. ImageAgrees'
    BY <1>u, <1>b, <1>p, <1>h, <1>c, <1>t DEF IInv, ImageAgrees, UploadsFor
  <1>8. WatchersAgree'
    BY <1>t
  <1>9. StaleIsMarked'
    BY <1>u, <1>b, <1>p, <1>h, <1>c, <1>t DEF IInv, StaleIsMarked, ImageAgrees
  <1> QED
    BY <1>1, <1>2, <1>3, <1>4, <1>5, <1>6, <1>7, <1>8, <1>9 DEF IInv

(* A step of a guest thread that does not touch its command: bits of the   *)
(* CPU may be set, and the image untracked.                                *)
LEMMA GuestMoveOK ==
    ASSUME IInv, NEW g \in Guests, NEW cpu \in SUBSET Pages, NEW S \in SUBSET Pages,
           NEW l \in {"run", "invalidate", "flush", "read", "texture"},
           guest[g].pc # "wait", l # "run" => S \in PageRanges,
           guest' = [guest EXCEPT ![g] = [pc |-> l, pages |-> S]],
           Carried(trk', cpu, trk.gpu, image'.tracked), trk.cpu \subseteq cpu,
           mode # "Disabled" => cpu \cap trk.gpu = {}, cpu # trk.cpu => lock = None,
           \/ UNCHANGED image
           \/ mutex = None /\ image' = [tracked |-> FALSE, dirty |-> TRUE],
           UNCHANGED <<mode, lock, mutex, ranges, copy, gpu, commands>>
    PROVE  IInv'
  <1>b. /\ None \notin Guests /\ Gpu \notin Guests /\ Gpu # None
        /\ trk.cpu \subseteq Pages /\ trk.gpu \subseteq Pages /\ ImagePages \subseteq Pages
    BY TrackerNow, ImageInPages, ConstantsOK
  <1>t. WatchersAgree' /\ trk' \in TrackerStates /\ trk'.cpu = cpu /\ trk'.gpu = trk.gpu
    BY TrackerStep
  <1>g. \A k \in Guests : /\ guest'[k].pc = IF k = g THEN l ELSE guest[k].pc
                         /\ guest'[k].pages = IF k = g THEN S ELSE guest[k].pages
    BY DEF IInv, TypeOK
  <1>i. /\ image' \in [tracked : BOOLEAN, dirty : BOOLEAN]
        /\ \/ image'.tracked = image.tracked /\ image'.dirty = image.dirty
           \/ mutex = None /\ ~image'.tracked /\ image'.dirty
    <2>1. CASE UNCHANGED image
      BY <2>1 DEF IInv, TypeOK
    <2>2. CASE mutex = None /\ image' = [tracked |-> FALSE, dirty |-> TRUE]
      BY <2>2
    <2> QED
      BY <2>1, <2>2
  <1>1. TypeOK'
    BY <1>b, <1>t, <1>g, <1>i DEF IInv, TypeOK
  <1>2. LocksAgree'
    BY <1>b, <1>t, <1>g, <1>i DEF IInv, LocksAgree, Holds, UploadsFor
  <1>3. CommandsAgree'
    BY <1>b, <1>t, <1>g, <1>i DEF IInv, CommandsAgree, Serving
  <1>4. CopiesAgree'
    BY <1>b, <1>t, <1>g, <1>i DEF IInv, CopiesAgree, Serving, UploadsFor, LocksAgree, Holds
  <1>5. OneSideModified'
    BY <1>b, <1>t, <1>g, <1>i DEF IInv, OneSideModified
  <1>6. WritesPlaced'
    BY <1>b, <1>t, <1>g, <1>i DEF IInv, WritesPlaced
  <1>7. ImageAgrees'
    BY <1>b, <1>t, <1>g, <1>i DEF IInv, ImageAgrees, UploadsFor, LocksAgree, Holds
  <1>8. WatchersAgree'
    BY <1>t
  <1>9. StaleIsMarked'
    BY <1>b, <1>t, <1>g, <1>i DEF IInv, StaleIsMarked
  <1> QED
    BY <1>1, <1>2, <1>3, <1>4, <1>5, <1>6, <1>7, <1>8, <1>9 DEF IInv

(* Goto changes only the pc of its thread. *)
LEMMA GotoIs ==
    ASSUME IInv, NEW g \in Guests, NEW l, Goto(g, l)
    PROVE  guest' = [guest EXCEPT ![g] = [pc |-> l, pages |-> guest[g].pages]]
  <1>1. guest[g] = [pc |-> guest[g].pc, pages |-> guest[g].pages]
    BY DEF IInv, TypeOK
  <1>2. [guest[g] EXCEPT !.pc = l] = [pc |-> l, pages |-> guest[g].pages]
    BY <1>1
  <1>3. guest' = [guest EXCEPT ![g] = [guest[g] EXCEPT !.pc = l]]
    BY DEF Goto
  <1> QED
    BY <1>2, <1>3

(* The fault handlers are entered with a range of pages. *)
LEMMA InvalidateOK ==
    ASSUME IInv, NEW g \in Guests, NEW S \in GuestRanges, Invalidate(g, S) PROVE IInv'
  <1>1. S \in PageRanges /\ S \in SUBSET Pages
    BY ConstantsOK DEF PageRanges, Pages
  <1>2. guest[g].pc # "wait" /\ trk' = trk /\ image' = image
    BY DEF Invalidate
  <1> QED
    BY <1>1, <1>2, TrackerNow, GuestMoveOK DEF Invalidate, Apart

(* The same for a load, whose range is one page. *)
LEMMA LoadFaultOK ==
    ASSUME IInv, NEW g \in Guests, NEW p \in UNION GuestRanges, LoadFault(g, p) PROVE IInv'
  <1>1. p \in Pages /\ p \in Int
    BY ConstantsOK DEF PageRanges, Pages
  <1>2. {p} \in PageRanges /\ {p} \in SUBSET Pages
    <2>1. {p} = p .. p
      BY <1>1
    <2> QED
      BY <1>1, <2>1 DEF PageRanges
  <1>3. guest[g].pc # "wait" /\ trk' = trk /\ image' = image
    BY DEF LoadFault
  <1> QED
    BY <1>2, <1>3, TrackerNow, GuestMoveOK DEF LoadFault, Apart

(* The pages are marked only when the GPU has not modified them, or when   *)
(* nothing is read back.                                                   *)
LEMMA InvalidateRegionOK == ASSUME IInv, NEW g \in Guests, InvalidateRegion(g) PROVE IInv'
  <1> DEFINE S == guest[g].pages
  <1>0. /\ guest[g].pc = "invalidate" /\ lock = None
        /\ UNCHANGED <<mode, lock, mutex, ranges, image, copy, gpu, commands>>
    BY DEF InvalidateRegion
  <1>1. S \in PageRanges /\ S \in SUBSET Pages
    BY <1>0 DEF IInv, CommandsAgree, TypeOK
  <1>2. CASE mode # "Disabled" /\ trk.gpu \cap S # {}
    <2>1. Goto(g, "flush") /\ trk' = trk
      BY <1>2 DEF InvalidateRegion
    <2>2. guest' = [guest EXCEPT ![g] = [pc |-> "flush", pages |-> S]]
      BY <2>1, GotoIs
    <2> HIDE DEF S
    <2> QED
      BY <1>0, <1>1, <2>1, <2>2, TrackerNow, GuestMoveOK DEF Apart
  <1>3. CASE ~(mode # "Disabled" /\ trk.gpu \cap S # {})
    <2>1. Goto(g, "texture") /\ trk' = MarkCpu(trk, S)
      BY <1>3 DEF InvalidateRegion
    <2>2. guest' = [guest EXCEPT ![g] = [pc |-> "texture", pages |-> S]]
      BY <2>1, GotoIs
    <2> HIDE DEF S
    <2>3. mode # "Disabled" => (trk.cpu \cup S) \cap trk.gpu = {}
      BY <1>3, TrackerNow DEF Apart
    <2>4. Carried(trk', trk.cpu \cup S, trk.gpu, image'.tracked)
      BY <1>0, <1>1, <2>1, <2>3, TrackerNow, MarkCpuOK
    <2>5. trk.cpu \cup S \in SUBSET Pages /\ trk.cpu \subseteq trk.cpu \cup S
      BY <1>1, TrackerNow
    <2> QED
      BY <1>0, <1>1, <2>2, <2>3, <2>4, <2>5, GuestMoveOK
  <1> QED
    BY <1>2, <1>3

(* UntrackImage gives back exactly what TrackImage took. *)
LEMMA UntrackImageOK ==
    ASSUME IInv PROVE Carried(UntrackImage(trk), trk.cpu, trk.gpu, FALSE)
  <1>1. CASE image.tracked
    <2>1. Agrees(trk, TRUE)
      BY <1>1, TrackerNow
    <2> QED
      BY <1>1, <2>1, TrackerNow, UntrackOK DEF UntrackImage
  <1>2. CASE ~image.tracked
    <2>1. Carried(trk, trk.cpu, trk.gpu, FALSE)
      BY <1>2, TrackerNow
    <2> QED
      BY <1>2, <2>1 DEF UntrackImage
  <1> QED
    BY <1>1, <1>2

(* The image is untracked and Dirty in one step, under the texture mutex. *)
LEMMA InvalidateImageOK == ASSUME IInv, NEW g \in Guests, InvalidateImage(g) PROVE IInv'
  <1>0. /\ guest[g].pc = "texture" /\ mutex = None
        /\ guest' = [guest EXCEPT ![g] = [pc |-> "run", pages |-> {}]]
        /\ UNCHANGED <<mode, lock, mutex, ranges, copy, gpu, commands>>
    BY DEF InvalidateImage
  <1>1. \/ trk' = UntrackImage(trk) /\ image' = [tracked |-> FALSE, dirty |-> TRUE]
        \/ UNCHANGED <<trk, image>>
    BY DEF InvalidateImage
  <1>2. {} \in SUBSET Pages /\ trk.cpu \in SUBSET Pages
        /\ (mode # "Disabled" => trk.cpu \cap trk.gpu = {})
    BY TrackerNow DEF Apart
  <1>3. CASE trk' = UntrackImage(trk) /\ image' = [tracked |-> FALSE, dirty |-> TRUE]
    <2>1. Carried(trk', trk.cpu, trk.gpu, image'.tracked)
      BY <1>3, UntrackImageOK
    <2> QED
      BY <1>0, <1>2, <1>3, <2>1, GuestMoveOK
  <1>4. CASE UNCHANGED <<trk, image>>
    BY <1>0, <1>2, <1>4, TrackerNow, GuestMoveOK
  <1> QED
    BY <1>1, <1>3, <1>4

(* The command joins the queue of a thread that was not waiting.           *)
LEMMA SendCommandOK == ASSUME IInv, NEW g \in Guests, SendCommand(g) PROVE IInv'
  <1>u. /\ guest[g].pc \in {"flush", "read"}
        /\ UNCHANGED <<mode, trk, lock, mutex, ranges, image, copy, gpu>>
    BY DEF SendCommand
  <1>b. /\ None \notin Guests /\ Gpu \notin Guests /\ Gpu # None
        /\ trk.cpu \subseteq Pages /\ trk.gpu \subseteq Pages /\ ImagePages \subseteq Pages
    BY TrackerNow, ImageInPages, ConstantsOK
  <1>t. WatchersAgree'
    BY <1>u DEF IInv, WatchersAgree
  <1>w. guest' = [guest EXCEPT ![g] = [pc |-> "wait", pages |-> guest[g].pages]]
    BY GotoIs DEF SendCommand
  <1>g. /\ guest' \in [Guests -> [pc : {"run", "invalidate", "flush", "read", "wait", "texture"},
                                pages : SUBSET Pages]]
        /\ \A k \in Guests : /\ guest'[k].pc = IF k = g THEN "wait" ELSE guest[k].pc
                             /\ guest'[k].pages = guest[k].pages
    BY <1>w DEF IInv, TypeOK
  <1>c. PICK w \in BOOLEAN : commands' = Append(commands, [from |-> g, write |-> w])
    BY DEF SendCommand
  <1>d. /\ commands' \in Seq([from : Guests, write : BOOLEAN])
        /\ Len(commands') = Len(commands) + 1 /\ Len(commands) \in Nat
        /\ commands'[Len(commands) + 1].from = g
        /\ \A i \in 1 .. Len(commands) : commands'[i] = commands[i]
    <2>1. commands \in Seq([from : Guests, write : BOOLEAN])
      BY DEF IInv, TypeOK
    <2> QED
      BY <1>c, <2>1
  <1>e. \A i \in 1 .. Len(commands) : commands[i].from # g
    BY <1>u DEF IInv, CommandsAgree
  <1>1. TypeOK'
    BY <1>u, <1>b, <1>t, <1>w, <1>g, <1>c, <1>d, <1>e DEF IInv, TypeOK
  <1>2. LocksAgree'
    BY <1>u, <1>b, <1>t, <1>w, <1>g, <1>c, <1>d, <1>e DEF IInv, LocksAgree, Holds, UploadsFor
  <1>3. CommandsAgree'
    <2>1. \A k \in Guests :
              (\E i \in 1 .. Len(commands') : commands'[i].from = k)
                  <=> (k = g \/ \E i \in 1 .. Len(commands) : commands[i].from = k)
      BY <1>d
    <2>2. \A i, j \in 1 .. Len(commands') : commands'[i].from = commands'[j].from => i = j
      <3> SUFFICES ASSUME NEW i \in 1 .. Len(commands'), NEW j \in 1 .. Len(commands'),
                          commands'[i].from = commands'[j].from, i # j
                   PROVE  FALSE
        OBVIOUS
      <3>1. CASE i <= Len(commands) /\ j <= Len(commands)
        BY <1>d, <3>1 DEF IInv, CommandsAgree
      <3>2. CASE i = Len(commands) + 1 \/ j = Len(commands) + 1
        BY <1>d, <1>e, <3>2
      <3> QED
        BY <1>d, <3>1, <3>2
    <2>3. gpu.for # g
      BY <1>u DEF IInv, CommandsAgree
    <2>4. \A i \in 1 .. Len(commands') : commands'[i].from # gpu.for
      BY <1>d, <2>3 DEF IInv, CommandsAgree
    <2>5. /\ \A k \in Guests :
                 /\ guest'[k].pc # "run" => guest'[k].pages \in PageRanges
                 /\ (guest'[k].pc = "wait") <=>
                        (gpu.for = k \/ \E i \in 1 .. Len(commands') : commands'[i].from = k)
      BY <1>u, <1>g, <2>1 DEF IInv, CommandsAgree
    <2>6. Serving => gpu.for \in Guests /\ guest'[gpu.for].pages = guest[gpu.for].pages
      BY <1>g DEF IInv, TypeOK, GpuStates, CommandsAgree
    <2> QED
      BY <1>u, <2>2, <2>4, <2>5, <2>6 DEF IInv, CommandsAgree, Serving
  <1>4. CopiesAgree'
    BY <1>u, <1>b, <1>t, <1>w, <1>g, <1>c, <1>d, <1>e DEF IInv, CopiesAgree, Serving, UploadsFor
  <1>5. OneSideModified'
    BY <1>u, <1>b, <1>t, <1>w, <1>g, <1>c, <1>d, <1>e DEF IInv, OneSideModified
  <1>6. WritesPlaced'
    BY <1>u, <1>b, <1>t, <1>w, <1>g, <1>c, <1>d, <1>e DEF IInv, WritesPlaced
  <1>7. ImageAgrees'
    BY <1>u, <1>b, <1>t, <1>w, <1>g, <1>c, <1>d, <1>e DEF IInv, ImageAgrees, UploadsFor
  <1>8. WatchersAgree'
    BY <1>t
  <1>9. StaleIsMarked'
    BY <1>u, <1>b, <1>t, <1>w, <1>g, <1>c, <1>d, <1>e DEF IInv, StaleIsMarked
  <1> QED
    BY <1>1, <1>2, <1>3, <1>4, <1>5, <1>6, <1>7, <1>8, <1>9 DEF IInv

(* An upload begins: what it unmarks it will copy.                         *)
LEMMA BeginUploadOK ==
    ASSUME IInv, NEW S \in SUBSET Pages, NEW then \in {"read", "write", "image"},
           \/ gpu.pc = "idle" /\ then # "image"
           \/ gpu.pc = "sync" /\ then = "image" /\ S = ImagePages,
           BeginUpload(S, then), UNCHANGED <<mode, mutex, ranges, image, copy, guest, commands>>
    PROVE  IInv'
  <1>b. /\ None \notin Guests /\ Gpu \notin Guests /\ Gpu # None
        /\ trk.cpu \subseteq Pages /\ trk.gpu \subseteq Pages /\ ImagePages \subseteq Pages
    BY TrackerNow, ImageInPages, ConstantsOK
  <1>l. lock = None /\ lock' = IF then = "write" THEN Gpu ELSE None
    BY DEF BeginUpload
  <1>c0. trk' = ClearCpu(trk, S)
    BY DEF BeginUpload
  <1>c1. Carried(trk', trk.cpu \ S, trk.gpu, image'.tracked)
    BY <1>c0, TrackerNow, ClearCpuOK
  <1>t. WatchersAgree' /\ trk' \in TrackerStates /\ trk'.cpu = trk.cpu \ S /\ trk'.gpu = trk.gpu
    BY <1>c1, TrackerStep
  <1>g. /\ gpu'.pc = "upload" /\ gpu'.pages = S /\ gpu'.copies = trk.cpu \cap S
        /\ gpu'.then = then /\ gpu'.for = None /\ gpu' \in GpuStates
    BY TrackerNow DEF BeginUpload, IInv, TypeOK, GpuStates
  <1>1. TypeOK'
    BY <1>b, <1>l, <1>t, <1>g DEF IInv, TypeOK
  <1>2. LocksAgree'
    BY <1>b, <1>l, <1>t, <1>g DEF IInv, LocksAgree, Holds, UploadsFor
  <1>3. CommandsAgree'
    BY <1>b, <1>l, <1>t, <1>g DEF IInv, CommandsAgree, Serving
  <1>4. CopiesAgree'
    BY <1>b, <1>l, <1>t, <1>g DEF IInv, CopiesAgree, Serving, UploadsFor, OneSideModified
  <1>5. OneSideModified'
    BY <1>b, <1>l, <1>t, <1>g DEF IInv, OneSideModified
  <1>6. WritesPlaced'
    BY <1>b, <1>l, <1>t, <1>g DEF IInv, WritesPlaced, CopiesAgree, Serving
  <1>7. ImageAgrees'
    BY <1>b, <1>l, <1>t, <1>g DEF IInv, ImageAgrees, UploadsFor, StaleIsMarked
  <1>8. WatchersAgree'
    BY <1>t
  <1>9. StaleIsMarked'
    BY <1>b, <1>l, <1>t, <1>g DEF IInv, StaleIsMarked
  <1> QED
    BY <1>1, <1>2, <1>3, <1>4, <1>5, <1>6, <1>7, <1>8, <1>9 DEF IInv

(* An upload for a buffer is not one for the image. *)
LEMMA SynchronizeBufferOK ==
    ASSUME IInv, NEW S \in GpuRanges, NEW written \in BOOLEAN, SynchronizeBuffer(S, written)
    PROVE  IInv'
  <1>1. S \in SUBSET Pages
    BY ConstantsOK DEF PageRanges, Pages
  <1>2. PICK then \in {"read", "write", "image"} : BeginUpload(S, then) /\ then # "image"
    BY DEF SynchronizeBuffer
  <1> QED
    BY <1>1, <1>2, BeginUploadOK DEF SynchronizeBuffer

(* The buffer of the image contains the image. *)
LEMMA SynchronizeImageOK == ASSUME IInv, SynchronizeImage PROVE IInv'
  BY ImageInPages, BeginUploadOK DEF SynchronizeImage

(* The copies reach the buffer; the GPU's writes are not overwritten,      *)
(* since no page is modified on both sides.                                *)
LEMMA UploadCopiesOK == ASSUME IInv, UploadCopies PROVE IInv'
  <1>u. gpu.pc = "upload" /\ UNCHANGED <<mode, trk, lock, mutex, ranges, image, guest, commands>>
    BY DEF UploadCopies
  <1>b. /\ None \notin Guests /\ Gpu \notin Guests /\ Gpu # None
        /\ trk.cpu \subseteq Pages /\ trk.gpu \subseteq Pages /\ ImagePages \subseteq Pages
    BY TrackerNow, ImageInPages, ConstantsOK
  <1>t. WatchersAgree'
    BY <1>u DEF IInv, WatchersAgree
  <1>w. /\ gpu.pages \in SUBSET Pages /\ gpu.copies \in SUBSET Pages
        /\ gpu.then \in {"read", "write", "image"}
    BY DEF IInv, TypeOK, GpuStates
  <1>g. /\ gpu'.pc = (IF gpu.then = "write" THEN "mark"
                        ELSE IF gpu.then = "image" THEN "refresh" ELSE "idle")
        /\ gpu'.pages = gpu.pages /\ gpu'.copies = {}
        /\ gpu'.then = gpu.then /\ gpu'.for = gpu.for /\ gpu' \in GpuStates
    BY <1>w DEF UploadCopies, IInv, TypeOK, GpuStates
  <1>c. /\ copy'.vramStores = copy.vramStores \cup gpu.copies
        /\ copy'.vramWrites = copy.vramWrites \ (gpu.copies \ copy.memWrites)
        /\ copy'.memWrites = copy.memWrites
        /\ copy'.imageStores <=> copy.imageStores
        /\ copy' \in [vramStores : SUBSET Pages, vramWrites : SUBSET Pages,
                      memWrites : SUBSET Pages, imageStores : BOOLEAN]
    BY DEF UploadCopies, IInv, TypeOK, GpuStates
  <1>1. TypeOK'
    BY <1>u, <1>b, <1>t, <1>w, <1>g, <1>c DEF IInv, TypeOK
  <1>2. LocksAgree'
    BY <1>u, <1>b, <1>t, <1>w, <1>g, <1>c DEF IInv, LocksAgree, Holds, UploadsFor
  <1>3. CommandsAgree'
    BY <1>u, <1>b, <1>t, <1>w, <1>g, <1>c DEF IInv, CommandsAgree, Serving
  <1>4. CopiesAgree'
    BY <1>u, <1>b, <1>t, <1>w, <1>g, <1>c DEF IInv, CopiesAgree, Serving, UploadsFor
  <1>5. OneSideModified'
    BY <1>u, <1>b, <1>t, <1>w, <1>g, <1>c DEF IInv, OneSideModified, WritesPlaced, CopiesAgree
  <1>6. WritesPlaced'
    BY <1>u, <1>b, <1>t, <1>w, <1>g, <1>c DEF IInv, WritesPlaced, CopiesAgree
  <1>7. ImageAgrees'
    BY <1>u, <1>b, <1>t, <1>w, <1>g, <1>c DEF IInv, ImageAgrees, UploadsFor
  <1>8. WatchersAgree'
    BY <1>t
  <1>9. StaleIsMarked'
    BY <1>u, <1>b, <1>t, <1>w, <1>g, <1>c DEF IInv, StaleIsMarked
  <1> QED
    BY <1>1, <1>2, <1>3, <1>4, <1>5, <1>6, <1>7, <1>8, <1>9 DEF IInv

(* The pages were unmarked under the lock that is still held.              *)
LEMMA MarkGpuStepOK == ASSUME IInv, MarkGpu PROVE IInv'
  <1>u. /\ gpu.pc = "mark" /\ lock' = None
        /\ UNCHANGED <<mode, mutex, ranges, image, copy, guest, commands>>
    BY DEF MarkGpu
  <1>b. /\ None \notin Guests /\ Gpu \notin Guests /\ Gpu # None
        /\ trk.cpu \subseteq Pages /\ trk.gpu \subseteq Pages /\ ImagePages \subseteq Pages
    BY TrackerNow, ImageInPages, ConstantsOK
  <1>w. gpu.pages \in SUBSET Pages /\ gpu.pages \cap trk.cpu = {}
    BY <1>u DEF IInv, TypeOK, GpuStates, CopiesAgree
  <1>c. trk' = ChangeGpu(trk, gpu.pages, TRUE)
    BY DEF MarkGpu
  <1>d. mode # "Disabled" => trk.cpu \cap (trk.gpu \cup gpu.pages) = {}
    BY <1>w, TrackerNow DEF Apart
  <1>e. Carried(trk', trk.cpu, trk.gpu \cup gpu.pages, image'.tracked)
    BY <1>u, <1>w, <1>c, <1>d, TrackerNow, MarkGpuOK
  <1>t. /\ WatchersAgree' /\ trk' \in TrackerStates
        /\ trk'.cpu = trk.cpu /\ trk'.gpu = trk.gpu \cup gpu.pages
    BY <1>u, <1>e, TrackerStep
  <1>g. /\ gpu'.pc = "draw" /\ gpu'.pages = gpu.pages /\ gpu'.copies = gpu.copies
        /\ gpu'.then = gpu.then /\ gpu'.for = gpu.for /\ gpu' \in GpuStates
    BY DEF MarkGpu, IInv, TypeOK, GpuStates
  <1>1. TypeOK'
    BY <1>u, <1>b, <1>w, <1>d, <1>t, <1>g DEF IInv, TypeOK
  <1>2. LocksAgree'
    BY <1>u, <1>b, <1>w, <1>d, <1>t, <1>g DEF IInv, LocksAgree, Holds, UploadsFor
  <1>3. CommandsAgree'
    BY <1>u, <1>b, <1>w, <1>d, <1>t, <1>g DEF IInv, CommandsAgree, Serving
  <1>4. CopiesAgree'
    BY <1>u, <1>b, <1>w, <1>d, <1>t, <1>g DEF IInv, CopiesAgree, Serving, UploadsFor
  <1>5. OneSideModified'
    BY <1>u, <1>b, <1>w, <1>d, <1>t, <1>g DEF IInv, OneSideModified
  <1>6. WritesPlaced'
    BY <1>u, <1>b, <1>w, <1>d, <1>t, <1>g DEF IInv, WritesPlaced, CopiesAgree
  <1>7. ImageAgrees'
    BY <1>u, <1>b, <1>w, <1>d, <1>t, <1>g DEF IInv, ImageAgrees, UploadsFor
  <1>8. WatchersAgree'
    BY <1>t
  <1>9. StaleIsMarked'
    BY <1>u, <1>b, <1>w, <1>d, <1>t, <1>g DEF IInv, StaleIsMarked
  <1> QED
    BY <1>1, <1>2, <1>3, <1>4, <1>5, <1>6, <1>7, <1>8, <1>9 DEF IInv

(* The GPU writes to pages that are marked.                                *)
LEMMA DrawOK ==
    ASSUME IInv, NEW formatted \in BOOLEAN, NEW written \in SUBSET gpu.pages,
           Draw(formatted, written)
    PROVE  IInv'
  <1>u. /\ gpu.pc = "draw" /\ mutex = None /\ ranges' = ranges \cup gpu.pages
        /\ UNCHANGED <<mode, trk, lock, mutex, guest, commands>>
    BY DEF Draw
  <1>b. /\ None \notin Guests /\ Gpu \notin Guests /\ Gpu # None
        /\ trk.cpu \subseteq Pages /\ trk.gpu \subseteq Pages /\ ImagePages \subseteq Pages
    BY TrackerNow, ImageInPages, ConstantsOK
  <1>w. gpu.pages \in SUBSET Pages
    BY DEF IInv, TypeOK, GpuStates
  <1>i. /\ image' \in [tracked : BOOLEAN, dirty : BOOLEAN]
        /\ (image'.tracked <=> image.tracked) /\ (image.dirty => image'.dirty)
    BY DEF Draw, IInv, TypeOK
  <1>g. /\ gpu'.pc = "idle" /\ gpu'.pages = {} /\ gpu'.copies = gpu.copies
        /\ gpu'.then = gpu.then /\ gpu'.for = gpu.for /\ gpu' \in GpuStates
    BY DEF Draw, IInv, TypeOK, GpuStates
  <1>c. /\ copy'.vramStores = copy.vramStores
        /\ copy'.vramWrites = copy.vramWrites
        /\ copy'.memWrites = copy.memWrites \ written
        /\ copy'.imageStores <=> copy.imageStores
        /\ copy' \in [vramStores : SUBSET Pages, vramWrites : SUBSET Pages,
                      memWrites : SUBSET Pages, imageStores : BOOLEAN]
    BY DEF Draw, IInv, TypeOK, GpuStates
  <1>1. TypeOK'
    BY <1>u, <1>b, <1>w, <1>i, <1>g, <1>c DEF IInv, TypeOK
  <1>2. LocksAgree'
    BY <1>u, <1>b, <1>w, <1>i, <1>g, <1>c DEF IInv, LocksAgree, Holds, UploadsFor
  <1>3. CommandsAgree'
    BY <1>u, <1>b, <1>w, <1>i, <1>g, <1>c DEF IInv, CommandsAgree, Serving
  <1>4. CopiesAgree'
    BY <1>u, <1>b, <1>w, <1>i, <1>g, <1>c DEF IInv, CopiesAgree, Serving, UploadsFor
  <1>5. OneSideModified'
    BY <1>u, <1>b, <1>w, <1>i, <1>g, <1>c DEF IInv, OneSideModified
  <1>6. WritesPlaced'
    BY <1>u, <1>b, <1>w, <1>i, <1>g, <1>c DEF IInv, WritesPlaced
  <1>7. ImageAgrees'
    BY <1>u, <1>b, <1>w, <1>i, <1>g, <1>c DEF IInv, ImageAgrees, UploadsFor
  <1>8. WatchersAgree'
    BY <1>u, <1>i DEF IInv, WatchersAgree
  <1>9. StaleIsMarked'
    BY <1>u, <1>b, <1>w, <1>i, <1>g, <1>c DEF IInv, StaleIsMarked
  <1> QED
    BY <1>1, <1>2, <1>3, <1>4, <1>5, <1>6, <1>7, <1>8, <1>9 DEF IInv

(* TrackImage adds a watcher to the image's pages once. *)
LEMMA TrackImageOK ==
    ASSUME IInv PROVE Carried(TrackImage, trk.cpu, trk.gpu, TRUE)
  <1>1. CASE ~image.tracked
    <2>1. Agrees(trk, FALSE)
      BY <1>1, TrackerNow
    <2> QED
      BY <1>1, <2>1, TrackerNow, TrackOK DEF TrackImage
  <1>2. CASE image.tracked
    <2>1. Carried(trk, trk.cpu, trk.gpu, TRUE)
      BY <1>2, TrackerNow
    <2> QED
      BY <1>2, <2>1 DEF TrackImage
  <1> QED
    BY <1>1, <1>2

(* The image is tracked before it is looked at.                            *)
LEMMA UpdateImageOK == ASSUME IInv, UpdateImage PROVE IInv'
  <1>u. gpu.pc = "idle" /\ mutex = None /\ UNCHANGED <<mode, lock, ranges, copy, guest, commands>>
    BY DEF UpdateImage
  <1>b. /\ None \notin Guests /\ Gpu \notin Guests /\ Gpu # None
        /\ trk.cpu \subseteq Pages /\ trk.gpu \subseteq Pages /\ ImagePages \subseteq Pages
    BY TrackerNow, ImageInPages, ConstantsOK
  <1>i. /\ image' \in [tracked : BOOLEAN, dirty : BOOLEAN]
        /\ image'.tracked = TRUE /\ (image'.dirty <=> image.dirty)
    BY DEF UpdateImage, IInv, TypeOK
  <1>c. Carried(trk', trk.cpu, trk.gpu, image'.tracked)
    BY <1>i, TrackImageOK DEF UpdateImage
  <1>t. /\ WatchersAgree' /\ trk' \in TrackerStates
        /\ trk'.cpu = trk.cpu /\ trk'.gpu = trk.gpu
    BY <1>u, <1>c, TrackerStep
  <1>m. mutex' = IF image.dirty THEN Gpu ELSE None
    BY DEF UpdateImage
  <1>g. /\ gpu'.pc = (IF image.dirty THEN "sync" ELSE "idle")
        /\ gpu'.pages = gpu.pages /\ gpu'.copies = gpu.copies
        /\ gpu'.then = gpu.then /\ gpu'.for = gpu.for /\ gpu' \in GpuStates
    BY DEF UpdateImage, IInv, TypeOK, GpuStates
  <1>1. TypeOK'
    BY <1>u, <1>b, <1>i, <1>t, <1>m, <1>g DEF IInv, TypeOK
  <1>2. LocksAgree'
    BY <1>u, <1>b, <1>i, <1>t, <1>m, <1>g DEF IInv, LocksAgree, Holds, UploadsFor
  <1>3. CommandsAgree'
    BY <1>u, <1>b, <1>i, <1>t, <1>m, <1>g DEF IInv, CommandsAgree, Serving
  <1>4. CopiesAgree'
    BY <1>u, <1>b, <1>i, <1>t, <1>m, <1>g DEF IInv, CopiesAgree, Serving, UploadsFor
  <1>5. OneSideModified'
    BY <1>u, <1>b, <1>i, <1>t, <1>m, <1>g DEF IInv, OneSideModified
  <1>6. WritesPlaced'
    BY <1>u, <1>b, <1>i, <1>t, <1>m, <1>g DEF IInv, WritesPlaced
  <1>7. ImageAgrees'
    BY <1>u, <1>b, <1>i, <1>t, <1>m, <1>g DEF IInv, ImageAgrees, UploadsFor
  <1>8. WatchersAgree'
    BY <1>t
  <1>9. StaleIsMarked'
    BY <1>u, <1>b, <1>i, <1>t, <1>m, <1>g DEF IInv, StaleIsMarked
  <1> QED
    BY <1>1, <1>2, <1>3, <1>4, <1>5, <1>6, <1>7, <1>8, <1>9 DEF IInv

(* Every store is in the buffer when the image is copied from it.          *)
LEMMA RefreshImageOK == ASSUME IInv, RefreshImage PROVE IInv'
  <1>u. /\ gpu.pc = "refresh" /\ mutex' = None
        /\ UNCHANGED <<mode, trk, lock, ranges, guest, commands>>
    BY DEF RefreshImage
  <1>b. /\ None \notin Guests /\ Gpu \notin Guests /\ Gpu # None
        /\ trk.cpu \subseteq Pages /\ trk.gpu \subseteq Pages /\ ImagePages \subseteq Pages
    BY TrackerNow, ImageInPages, ConstantsOK
  <1>i. /\ image' \in [tracked : BOOLEAN, dirty : BOOLEAN]
        /\ (image'.tracked <=> image.tracked) /\ ~image'.dirty
    BY DEF RefreshImage, IInv, TypeOK
  <1>g. /\ gpu'.pc = "idle" /\ gpu'.pages = {} /\ gpu'.copies = gpu.copies
        /\ gpu'.then = gpu.then /\ gpu'.for = gpu.for /\ gpu' \in GpuStates
    BY DEF RefreshImage, IInv, TypeOK, GpuStates
  <1>c. /\ copy'.vramStores = copy.vramStores
        /\ copy'.vramWrites = copy.vramWrites
        /\ copy'.memWrites = copy.memWrites
        /\ copy'.imageStores <=> (ImagePages \subseteq copy.vramStores)
        /\ copy' \in [vramStores : SUBSET Pages, vramWrites : SUBSET Pages,
                      memWrites : SUBSET Pages, imageStores : BOOLEAN]
    BY DEF RefreshImage, IInv, TypeOK, GpuStates
  <1>1. TypeOK'
    BY <1>u, <1>b, <1>i, <1>g, <1>c DEF IInv, TypeOK
  <1>2. LocksAgree'
    BY <1>u, <1>b, <1>i, <1>g, <1>c DEF IInv, LocksAgree, Holds, UploadsFor
  <1>3. CommandsAgree'
    BY <1>u, <1>b, <1>i, <1>g, <1>c DEF IInv, CommandsAgree, Serving
  <1>4. CopiesAgree'
    BY <1>u, <1>b, <1>i, <1>g, <1>c DEF IInv, CopiesAgree, Serving, UploadsFor
  <1>5. OneSideModified'
    BY <1>u, <1>b, <1>i, <1>g, <1>c DEF IInv, OneSideModified
  <1>6. WritesPlaced'
    BY <1>u, <1>b, <1>i, <1>g, <1>c DEF IInv, WritesPlaced
  <1>7. ImageAgrees'
    BY <1>u, <1>b, <1>i, <1>g, <1>c DEF IInv, ImageAgrees, UploadsFor
  <1>8. WatchersAgree'
    BY <1>u, <1>i DEF IInv, WatchersAgree
  <1>9. StaleIsMarked'
    BY <1>u, <1>b, <1>i, <1>g, <1>c DEF IInv, StaleIsMarked, ImageAgrees
  <1> QED
    BY <1>1, <1>2, <1>3, <1>4, <1>5, <1>6, <1>7, <1>8, <1>9 DEF IInv

(* The commands in the queue come from guest threads. *)
LEMMA CommandAt ==
    ASSUME IInv, NEW i \in 1 .. Len(commands)
    PROVE  commands[i] \in [from : Guests, write : BOOLEAN] /\ commands[i].from \in Guests
  <1> DEFINE V == [from : Guests, write : BOOLEAN]
  <1>1. commands \in Seq(V)
    BY DEF IInv, TypeOK
  <1> HIDE DEF V
  <1>2. commands[i] \in V
    BY <1>1
  <1> QED
    BY <1>2 DEF V

(* The request at the head is taken up: its window contains its pages.     *)
LEMMA ProcessCommandsOK == ASSUME IInv, ProcessCommands PROVE IInv'
  <1>u. /\ gpu.pc = "idle" /\ commands # << >> /\ lock = None
        /\ commands' = Tail(commands)
        /\ UNCHANGED <<mode, trk, lock, mutex, image, copy, guest>>
    BY DEF ProcessCommands
  <1>b. /\ None \notin Guests /\ Gpu \notin Guests /\ Gpu # None
        /\ trk.cpu \subseteq Pages /\ trk.gpu \subseteq Pages /\ ImagePages \subseteq Pages
    BY TrackerNow, ImageInPages, ConstantsOK
  <1>t. WatchersAgree'
    BY <1>u DEF IInv, WatchersAgree
  <1>q. commands \in Seq([from : Guests, write : BOOLEAN])
    BY DEF IInv, TypeOK
  <1>n. /\ Len(commands) \in Nat \ {0} /\ Len(commands') = Len(commands) - 1
        /\ commands' \in Seq([from : Guests, write : BOOLEAN]) /\ Head(commands) = commands[1]
        /\ \A i \in 1 .. Len(commands) - 1 : commands'[i] = commands[i + 1]
    BY <1>q, <1>u
  <1>h. PICK g \in Guests, w \in BOOLEAN : Head(commands) = [from |-> g, write |-> w]
    <2>1. commands[1] \in [from : Guests, write : BOOLEAN]
      BY <1>n, CommandAt
    <2> QED
      BY <1>n, <2>1
  <1>w. commands[1].from = g /\ guest[g].pc = "wait" /\ guest[g].pages \in PageRanges
    BY <1>h, <1>n DEF IInv, CommandsAgree
  <1>v. /\ guest[g].pages \subseteq Window(guest[g].pages)
        /\ Window(guest[g].pages) \subseteq Pages
    BY <1>w, WindowOK
  <1>x. PICK S \in SUBSET Pages :
            /\ guest[g].pages \subseteq S
            /\ ranges' = ranges \ (trk.gpu \cap S)
            /\ gpu' = [pc |-> IF trk.gpu \cap S \cap ranges = {} THEN "done" ELSE "write",
                       pages |-> S, copies |-> trk.gpu \cap S \cap ranges,
                       for |-> g, then |-> IF w THEN "write" ELSE "read"]
    <2> DEFINE S == Window(guest[g].pages)
    <2>1. Head(commands).from = g /\ Head(commands).write = w
      BY <1>h
    <2>2. /\ ranges' = ranges \ (trk.gpu \cap S)
          /\ gpu' = [pc |-> IF trk.gpu \cap S \cap ranges = {} THEN "done" ELSE "write",
                     pages |-> S, copies |-> trk.gpu \cap S \cap ranges,
                     for |-> g, then |-> IF w THEN "write" ELSE "read"]
      BY <2>1, Zenon DEF ProcessCommands
    <2> HIDE DEF S
    <2>3. guest[g].pages \subseteq S /\ S \in SUBSET Pages
      BY <1>v DEF S
    <2> QED
      BY <2>2, <2>3
  <1>g. /\ gpu'.pages = S /\ gpu'.copies = trk.gpu \cap S \cap ranges /\ gpu'.for = g
        /\ gpu'.pc \in {"done", "write"} /\ (gpu'.pc = "done" <=> trk.gpu \cap S \cap ranges = {})
        /\ gpu' \in GpuStates
    BY <1>b, <1>x DEF GpuStates
  <1>r. ranges' = ranges \ (trk.gpu \cap S) /\ guest[g].pages \subseteq S
    BY <1>x
  <1>k. trk.gpu \subseteq ranges /\ gpu.copies = {} /\ gpu.for = None
    BY <1>u DEF IInv, CopiesAgree, CommandsAgree, Serving
  <1>1. TypeOK'
    BY <1>u, <1>b, <1>n, <1>w, <1>g, <1>r, <1>k DEF IInv, TypeOK
  <1>2. LocksAgree'
    BY <1>u, <1>b, <1>n, <1>w, <1>g, <1>r, <1>k DEF IInv, LocksAgree, Holds, UploadsFor
  <1>3. CommandsAgree'
    <2>1. \A i \in 1 .. Len(commands) : commands[i].from = g => i = 1
      BY <1>n, <1>w DEF IInv, CommandsAgree
    <2>2. \A i \in 1 .. Len(commands') : commands'[i].from # g
      <3> SUFFICES ASSUME NEW i \in 1 .. Len(commands'), commands'[i].from = g PROVE FALSE
        OBVIOUS
      <3> QED
        BY <1>n, <2>1
    <2>3. \A k \in Guests \ {g} :
              (\E i \in 1 .. Len(commands') : commands'[i].from = k)
                  <=> (\E i \in 1 .. Len(commands) : commands[i].from = k)
      <3> SUFFICES ASSUME NEW k \in Guests \ {g}
                   PROVE  (\E i \in 1 .. Len(commands') : commands'[i].from = k)
                              <=> (\E i \in 1 .. Len(commands) : commands[i].from = k)
        OBVIOUS
      <3>1. ASSUME NEW i \in 1 .. Len(commands), commands[i].from = k
            PROVE  i - 1 \in 1 .. Len(commands') /\ commands'[i - 1].from = k
        <4>1. i # 1
          BY <1>w, <3>1
        <4> QED
          BY <1>n, <3>1, <4>1
      <3>2. ASSUME NEW i \in 1 .. Len(commands'), commands'[i].from = k
            PROVE  i + 1 \in 1 .. Len(commands) /\ commands[i + 1].from = k
        BY <1>n, <3>2
      <3> QED
        BY <3>1, <3>2
    <2>4. ASSUME NEW i \in 1 .. Len(commands'), NEW j \in 1 .. Len(commands'),
                 commands'[i].from = commands'[j].from
          PROVE  i = j
      <3>1. i + 1 \in 1 .. Len(commands) /\ j + 1 \in 1 .. Len(commands)
        BY <1>n
      <3>2. commands[i + 1].from = commands[j + 1].from
        BY <1>n, <2>4
      <3>3. i + 1 = j + 1
        BY <3>1, <3>2 DEF IInv, CommandsAgree
      <3> QED
        BY <3>3
    <2> QED
      BY <1>u, <1>b, <1>w, <1>g, <1>r, <1>k, <2>2, <2>3, <2>4 DEF IInv, CommandsAgree, Serving
  <1>4. CopiesAgree'
    BY <1>u, <1>b, <1>n, <1>w, <1>g, <1>r, <1>k DEF IInv, CopiesAgree, Serving, UploadsFor
  <1>5. OneSideModified'
    BY <1>u, <1>b, <1>n, <1>w, <1>g, <1>r, <1>k DEF IInv, OneSideModified
  <1>6. WritesPlaced'
    BY <1>u, <1>b, <1>n, <1>w, <1>g, <1>r, <1>k DEF IInv, WritesPlaced
  <1>7. ImageAgrees'
    BY <1>u, <1>b, <1>n, <1>w, <1>g, <1>r, <1>k DEF IInv, ImageAgrees, UploadsFor
  <1>8. WatchersAgree'
    BY <1>t
  <1>9. StaleIsMarked'
    BY <1>u, <1>b, <1>n, <1>w, <1>g, <1>r, <1>k DEF IInv, StaleIsMarked
  <1> QED
    BY <1>1, <1>2, <1>3, <1>4, <1>5, <1>6, <1>7, <1>8, <1>9 DEF IInv

(* The downloaded pages reach guest memory.                                *)
LEMMA WriteBackingOK == ASSUME IInv, WriteBacking PROVE IInv'
  <1>u. gpu.pc = "write" /\ UNCHANGED <<mode, trk, lock, mutex, ranges, image, guest, commands>>
    BY DEF WriteBacking
  <1>b. /\ None \notin Guests /\ Gpu \notin Guests /\ Gpu # None
        /\ trk.cpu \subseteq Pages /\ trk.gpu \subseteq Pages /\ ImagePages \subseteq Pages
    BY TrackerNow, ImageInPages, ConstantsOK
  <1>t. WatchersAgree'
    BY <1>u DEF IInv, WatchersAgree
  <1>g. /\ gpu'.pc = "unmark" /\ gpu'.pages = gpu.pages /\ gpu'.copies = {}
        /\ gpu'.then = gpu.then /\ gpu'.for = gpu.for /\ gpu' \in GpuStates
    BY DEF WriteBacking, IInv, TypeOK, GpuStates
  <1>c. /\ copy'.vramStores = copy.vramStores
        /\ copy'.vramWrites = copy.vramWrites
        /\ copy'.memWrites = copy.memWrites \cup (gpu.copies \cap copy.vramWrites)
        /\ copy'.imageStores <=> copy.imageStores
        /\ copy' \in [vramStores : SUBSET Pages, vramWrites : SUBSET Pages,
                      memWrites : SUBSET Pages, imageStores : BOOLEAN]
    BY DEF WriteBacking, IInv, TypeOK, GpuStates
  <1>1. TypeOK'
    BY <1>u, <1>b, <1>t, <1>g, <1>c DEF IInv, TypeOK
  <1>2. LocksAgree'
    BY <1>u, <1>b, <1>t, <1>g, <1>c DEF IInv, LocksAgree, Holds, UploadsFor
  <1>3. CommandsAgree'
    BY <1>u, <1>b, <1>t, <1>g, <1>c DEF IInv, CommandsAgree, Serving
  <1>4. CopiesAgree'
    BY <1>u, <1>b, <1>t, <1>g, <1>c DEF IInv, CopiesAgree, Serving, UploadsFor
  <1>5. OneSideModified'
    BY <1>u, <1>b, <1>t, <1>g, <1>c DEF IInv, OneSideModified
  <1>6. WritesPlaced'
    BY <1>u, <1>b, <1>t, <1>g, <1>c DEF IInv, WritesPlaced, OneSideModified
  <1>7. ImageAgrees'
    BY <1>u, <1>b, <1>t, <1>g, <1>c DEF IInv, ImageAgrees, UploadsFor
  <1>8. WatchersAgree'
    BY <1>t
  <1>9. StaleIsMarked'
    BY <1>u, <1>b, <1>t, <1>g, <1>c DEF IInv, StaleIsMarked
  <1> QED
    BY <1>1, <1>2, <1>3, <1>4, <1>5, <1>6, <1>7, <1>8, <1>9 DEF IInv

(* What the window still marks was written back.                           *)
LEMMA UnmarkGpuStepOK == ASSUME IInv, UnmarkGpu PROVE IInv'
  <1>u. /\ gpu.pc = "unmark" /\ lock = None
        /\ UNCHANGED <<mode, lock, mutex, ranges, image, copy, guest, commands>>
    BY DEF UnmarkGpu
  <1>b. /\ None \notin Guests /\ Gpu \notin Guests /\ Gpu # None
        /\ trk.cpu \subseteq Pages /\ trk.gpu \subseteq Pages /\ ImagePages \subseteq Pages
    BY TrackerNow, ImageInPages, ConstantsOK
  <1>w. gpu.pages \in SUBSET Pages
    BY DEF IInv, TypeOK, GpuStates
  <1>c. trk' = ChangeGpu(trk, gpu.pages, FALSE)
    BY DEF UnmarkGpu
  <1>e. Carried(trk', trk.cpu, trk.gpu \ gpu.pages, image'.tracked)
    BY <1>u, <1>w, <1>c, TrackerNow, UnmarkGpuOK
  <1>t. /\ WatchersAgree' /\ trk' \in TrackerStates
        /\ trk'.cpu = trk.cpu /\ trk'.gpu = trk.gpu \ gpu.pages
    BY <1>u, <1>e, TrackerStep
  <1>g. /\ gpu'.pc = "done" /\ gpu'.pages = gpu.pages /\ gpu'.copies = gpu.copies
        /\ gpu'.then = gpu.then /\ gpu'.for = gpu.for /\ gpu' \in GpuStates
    BY DEF UnmarkGpu, IInv, TypeOK, GpuStates
  <1>1. TypeOK'
    BY <1>u, <1>b, <1>w, <1>t, <1>g DEF IInv, TypeOK
  <1>2. LocksAgree'
    BY <1>u, <1>b, <1>w, <1>t, <1>g DEF IInv, LocksAgree, Holds, UploadsFor
  <1>3. CommandsAgree'
    BY <1>u, <1>b, <1>w, <1>t, <1>g DEF IInv, CommandsAgree, Serving
  <1>4. CopiesAgree'
    BY <1>u, <1>b, <1>w, <1>t, <1>g DEF IInv, CopiesAgree, Serving, UploadsFor
  <1>5. OneSideModified'
    BY <1>u, <1>b, <1>w, <1>t, <1>g DEF IInv, OneSideModified
  <1>6. WritesPlaced'
    BY <1>u, <1>b, <1>w, <1>t, <1>g DEF IInv, WritesPlaced, CopiesAgree
  <1>7. ImageAgrees'
    BY <1>u, <1>b, <1>w, <1>t, <1>g DEF IInv, ImageAgrees, UploadsFor
  <1>8. WatchersAgree'
    BY <1>t
  <1>9. StaleIsMarked'
    BY <1>u, <1>b, <1>w, <1>t, <1>g DEF IInv, StaleIsMarked
  <1> QED
    BY <1>1, <1>2, <1>3, <1>4, <1>5, <1>6, <1>7, <1>8, <1>9 DEF IInv

(* The requester goes on; its pages are marked only on the CPU's side.     *)
LEMMA FinishCommandOK == ASSUME IInv, FinishCommand PROVE IInv'
  <1>u. /\ gpu.pc = "done" /\ lock = None
        /\ UNCHANGED <<mode, lock, mutex, ranges, image, copy, commands>>
    BY DEF FinishCommand
  <1>b. /\ None \notin Guests /\ Gpu \notin Guests /\ Gpu # None
        /\ trk.cpu \subseteq Pages /\ trk.gpu \subseteq Pages /\ ImagePages \subseteq Pages
    BY TrackerNow, ImageInPages, ConstantsOK
  <1>f. PICK g \in Guests : gpu.for = g /\ guest[g].pc = "wait" /\ guest[g].pages \in PageRanges
                             /\ guest[g].pages \subseteq gpu.pages /\ gpu.pages \cap trk.gpu = {}
    <2>1. gpu.for \in Guests
      BY <1>u DEF IInv, TypeOK, GpuStates, CommandsAgree, Serving
    <2>2. guest[gpu.for].pc = "wait" /\ guest[gpu.for].pages \in PageRanges
      BY <2>1 DEF IInv, CommandsAgree
    <2> QED
      BY <1>u, <2>1, <2>2 DEF IInv, CommandsAgree, CopiesAgree, Serving
  <1>x. guest[g].pages \in SUBSET Pages
    BY DEF IInv, TypeOK
  <1>d. PICK cpu \in SUBSET Pages :
            /\ trk.cpu \subseteq cpu /\ (mode # "Disabled" => cpu \cap trk.gpu = {})
            /\ Carried(trk', cpu, trk.gpu, image'.tracked)
    <2>1. CASE gpu.then = "write"
      <3>1. trk' = MarkCpu(trk, guest[g].pages)
        BY <1>f, <2>1 DEF FinishCommand
      <3>2. mode # "Disabled" => (trk.cpu \cup guest[g].pages) \cap trk.gpu = {}
        BY <1>f, TrackerNow DEF Apart
      <3>3. Carried(trk', trk.cpu \cup guest[g].pages, trk.gpu, image'.tracked)
        BY <1>u, <1>x, <3>1, <3>2, TrackerNow, MarkCpuOK
      <3> QED
        BY <1>b, <1>x, <3>2, <3>3
    <2>2. CASE gpu.then # "write"
      <3>1. trk' = trk
        BY <2>2 DEF FinishCommand
      <3> QED
        BY <1>u, <3>1, TrackerNow DEF Apart
    <2> QED
      BY <2>1, <2>2
  <1>t. WatchersAgree' /\ trk' \in TrackerStates /\ trk'.cpu = cpu /\ trk'.gpu = trk.gpu
    BY <1>u, <1>d, TrackerStep
  <1>g. /\ gpu'.pc = "idle" /\ gpu'.pages = {} /\ gpu'.copies = {}
        /\ gpu'.then = "read" /\ gpu'.for = None /\ gpu' \in GpuStates
    BY DEF FinishCommand, IInv, TypeOK, GpuStates
  <1>h. PICK l \in {"run", "texture"}, S \in SUBSET Pages :
            /\ guest' = [guest EXCEPT ![g] = [pc |-> l, pages |-> S]]
            /\ l # "run" => S \in PageRanges
    <2>1. guest[g] = [pc |-> guest[g].pc, pages |-> guest[g].pages]
      BY DEF IInv, TypeOK
    <2>2. [guest[g] EXCEPT !.pc = "texture"] = [pc |-> "texture", pages |-> guest[g].pages]
      BY <2>1
    <2>3. CASE gpu.then = "write"
      <3>1. guest' = [guest EXCEPT ![g] = [guest[g] EXCEPT !.pc = "texture"]]
        BY <1>f, <2>3 DEF FinishCommand
      <3>2. guest' = [guest EXCEPT ![g] = [pc |-> "texture", pages |-> guest[g].pages]]
        BY <2>2, <3>1
      <3> QED
        BY <1>f, <1>x, <3>2
    <2>4. CASE gpu.then # "write"
      <3>1. guest' = [guest EXCEPT ![g] = [pc |-> "run", pages |-> {}]]
        BY <1>f, <2>4 DEF FinishCommand
      <3> WITNESS "run" \in {"run", "texture"}, {} \in SUBSET Pages
      <3> QED
        BY <3>1
    <2> QED
      BY <2>3, <2>4
  <1>k. /\ guest' \in [Guests -> [pc : {"run", "invalidate", "flush", "read", "wait", "texture"},
                                pages : SUBSET Pages]]
        /\ \A k \in Guests : /\ guest'[k].pc = IF k = g THEN l ELSE guest[k].pc
                             /\ guest'[k].pages = IF k = g THEN S ELSE guest[k].pages
    BY <1>h DEF IInv, TypeOK
  <1>1. TypeOK'
    BY <1>u, <1>b, <1>f, <1>d, <1>t, <1>g, <1>h, <1>k DEF IInv, TypeOK
  <1>2. LocksAgree'
    BY <1>u, <1>b, <1>f, <1>d, <1>t, <1>g, <1>h, <1>k DEF IInv, LocksAgree, Holds, UploadsFor
  <1>3. CommandsAgree'
    <2>1. \A i \in 1 .. Len(commands) : commands[i].from # g
      BY <1>f DEF IInv, CommandsAgree
    <2>2. /\ \A k \in Guests : (guest[k].pc = "wait")
                                 <=> (k = g \/ \E i \in 1 .. Len(commands) : commands[i].from = k)
          /\ \A k \in Guests : guest[k].pc # "run" => guest[k].pages \in PageRanges
          /\ \A i, j \in 1 .. Len(commands) : commands[i].from = commands[j].from => i = j
      BY <1>f DEF IInv, CommandsAgree
    <2>3. \A i \in 1 .. Len(commands) : commands[i].from # None
      BY <1>b, CommandAt
    <2>4. ASSUME NEW k \in Guests
          PROVE  /\ guest'[k].pc # "run" => guest'[k].pages \in PageRanges
                 /\ (guest'[k].pc = "wait")
                       <=> (None = k \/ \E i \in 1 .. Len(commands) : commands[i].from = k)
      <3>1. CASE k = g
        BY <1>b, <1>h, <1>k, <2>1, <3>1
      <3>2. CASE k # g
        BY <1>b, <1>k, <2>2, <3>2
      <3> QED
        BY <3>1, <3>2
    <2> QED
      BY <1>u, <1>g, <2>2, <2>3, <2>4 DEF CommandsAgree, Serving
  <1>4. CopiesAgree'
    BY <1>u, <1>b, <1>f, <1>d, <1>t, <1>g, <1>h, <1>k DEF IInv, CopiesAgree, Serving, UploadsFor
  <1>5. OneSideModified'
    BY <1>u, <1>b, <1>f, <1>d, <1>t, <1>g, <1>h, <1>k DEF IInv, OneSideModified
  <1>6. WritesPlaced'
    BY <1>u, <1>b, <1>f, <1>d, <1>t, <1>g, <1>h, <1>k DEF IInv, WritesPlaced, CopiesAgree
  <1>7. ImageAgrees'
    BY <1>u, <1>b, <1>f, <1>d, <1>t, <1>g, <1>h, <1>k DEF IInv, ImageAgrees, UploadsFor
  <1>8. WatchersAgree'
    BY <1>t
  <1>9. StaleIsMarked'
    BY <1>u, <1>b, <1>f, <1>d, <1>t, <1>g, <1>h, <1>k DEF IInv, StaleIsMarked
  <1> QED
    BY <1>1, <1>2, <1>3, <1>4, <1>5, <1>6, <1>7, <1>8, <1>9 DEF IInv

(* Nothing uploaded, every page CPU-modified and open: the counts are zero *)
(* and the image is Dirty.                                                 *)
LEMMA InitOK == Init => IInv
  <1> SUFFICES ASSUME Init PROVE IInv
    OBVIOUS
  <1>b. /\ None \notin Guests /\ Gpu \notin Guests /\ Gpu # None
        /\ ImagePages \subseteq Pages
    BY ImageInPages, ConstantsOK
  <1>t. /\ trk.cpu = Pages /\ trk.gpu = {} /\ trk.writeable = Pages /\ trk.readable = Pages
        /\ trk.failed = FALSE
        /\ trk.cached = [p \in Pages |-> [readers |-> 0, writers |-> 0]]
        /\ trk.host = [p \in Pages |-> {R, W}]
    BY DEF Init
  <1>c. /\ copy.vramStores = {} /\ copy.vramWrites = Pages /\ copy.memWrites = Pages
        /\ copy.imageStores = FALSE
        /\ image.tracked = FALSE /\ image.dirty = TRUE
    BY DEF Init
  <1>g. /\ gpu.pc = "idle" /\ gpu.pages = {} /\ gpu.copies = {} /\ gpu.then = "read"
        /\ gpu.for = None /\ commands = << >> /\ Len(commands) = 0
        /\ lock = None /\ mutex = None /\ ranges = {}
    BY DEF Init
  <1>k. \A g \in Guests : guest[g].pc = "run" /\ guest[g].pages = {}
    BY DEF Init
  <1>1. TypeOK
    <2>1. trk \in TrackerStates
      BY DEF Init, TrackerStates
    <2>2. gpu \in GpuStates
      BY DEF Init, GpuStates
    <2>3. commands \in Seq([from : Guests, write : BOOLEAN])
      BY <1>g
    <2> QED
      BY <2>1, <2>2, <2>3 DEF Init, TypeOK
  <1>2. LocksAgree
    BY <1>g DEF LocksAgree, Holds, UploadsFor
  <1>3. CommandsAgree
    BY <1>b, <1>g, <1>k DEF CommandsAgree, Serving
  <1>4. CopiesAgree
    BY <1>g, <1>t DEF CopiesAgree, Serving, UploadsFor
  <1>5. OneSideModified
    BY <1>t, <1>c DEF OneSideModified
  <1>6. WritesPlaced
    BY <1>c DEF WritesPlaced
  <1>7. ImageAgrees
    BY <1>g, <1>c DEF ImageAgrees, UploadsFor
  <1>8. WatchersAgree
    <2>1. \A p \in Pages : /\ trk.cached[p].readers = 0 /\ trk.cached[p].writers = 0
                           /\ trk.host[p] = {R, W}
      BY <1>t
    <2>2. \A p \in Pages : Perms(trk.cached[p]) = {R, W}
      BY <2>1 DEF Perms
    <2> QED
      BY <1>t, <1>c, <2>1, <2>2 DEF WatchersAgree
  <1>9. StaleIsMarked
    BY <1>t, <1>c DEF StaleIsMarked
  <1> QED
    BY <1>1, <1>2, <1>3, <1>4, <1>5, <1>6, <1>7, <1>8, <1>9 DEF IInv

(* Every step preserves the invariant: one case per action. *)
LEMMA StepOK == IInv /\ [Next]_vars => IInv'
  <1> SUFFICES ASSUME IInv, [Next]_vars PROVE IInv'
    OBVIOUS
  <1>1. ASSUME NEW g \in Guests, GuestStep(g) PROVE IInv'
    <2>1. CASE \E p \in UNION GuestRanges : Store(g, p)
      BY <2>1, StoreOK
    <2>2. CASE \E p \in UNION GuestRanges : LoadFault(g, p)
      BY <2>2, LoadFaultOK
    <2>3. CASE \E S \in GuestRanges : Invalidate(g, S)
      BY <2>3, InvalidateOK
    <2>4. CASE InvalidateRegion(g)
      BY <2>4, InvalidateRegionOK
    <2>5. CASE SendCommand(g)
      BY <2>5, SendCommandOK
    <2>6. CASE InvalidateImage(g)
      BY <2>6, InvalidateImageOK
    <2> QED
      BY <1>1, <2>1, <2>2, <2>3, <2>4, <2>5, <2>6 DEF GuestStep
  <1>2. ASSUME NEW S \in GpuRanges, NEW written \in BOOLEAN, SynchronizeBuffer(S, written)
        PROVE  IInv'
    BY <1>2, SynchronizeBufferOK
  <1>3. CASE UpdateImage
    BY <1>3, UpdateImageOK
  <1>4. CASE GpuContinues
    <2>1. CASE UploadCopies
      BY <2>1, UploadCopiesOK
    <2>2. CASE MarkGpu
      BY <2>2, MarkGpuStepOK
    <2>3. CASE SynchronizeImage
      BY <2>3, SynchronizeImageOK
    <2>4. CASE RefreshImage
      BY <2>4, RefreshImageOK
    <2>5. CASE \E f \in BOOLEAN, S \in SUBSET gpu.pages : Draw(f, S)
      BY <2>5, DrawOK
    <2>6. CASE WriteBacking
      BY <2>6, WriteBackingOK
    <2>7. CASE UnmarkGpu
      BY <2>7, UnmarkGpuStepOK
    <2>8. CASE FinishCommand
      BY <2>8, FinishCommandOK
    <2> QED
      BY <1>4, <2>1, <2>2, <2>3, <2>4, <2>5, <2>6, <2>7, <2>8 DEF GpuContinues
  <1>5. CASE ProcessCommands
    BY <1>5, ProcessCommandsOK
  <1>6. CASE UNCHANGED vars
    BY <1>6 DEF vars, IInv, TypeOK, LocksAgree, Holds, UploadsFor, CommandsAgree, Serving,
                CopiesAgree, OneSideModified, WritesPlaced, ImageAgrees, WatchersAgree,
                StaleIsMarked
  <1> QED
    BY <1>1, <1>2, <1>3, <1>4, <1>5, <1>6 DEF Next

(***************************************************************************)
(* What the GPU writes survives; the fault handlers and the GPU thread     *)
(* never wait for each other in a circle.                                  *)
(***************************************************************************)
LEMMA WritesSurvive == IInv => GpuWritesSurvive
  <1> SUFFICES ASSUME IInv, mode # "Disabled", NEW p \in Pages \ copy.memWrites
               PROVE  /\ p \in copy.vramWrites
                      /\ p \in trk.gpu /\ p \in ranges \cup gpu.copies
                      /\ W \notin trk.host[p]
                      /\ mode = "Precise" => R \notin trk.host[p]
    BY DEF GpuWritesSurvive
  <1>1. p \in Pages /\ p \in trk.gpu /\ p \in ranges \cup gpu.copies
    BY DEF IInv, WritesPlaced
  <1>2. p \in copy.vramWrites /\ p \notin trk.cpu
    BY <1>1 DEF IInv, OneSideModified
  <1>3. /\ W \in trk.host[p] <=> (p \in trk.cpu /\ ~(image.tracked /\ p \in ImagePages))
        /\ R \in trk.host[p] <=> (mode = "Precise" => p \notin trk.gpu)
    BY ONLY IInv, <1>1, HostOf, TrackerNow
  <1> QED
    BY <1>1, <1>2, <1>3

(* The waiting threads hold nothing, and the pages that UploadCopies loads *)
(* from are open: they are not GPU-modified.                               *)
LEMMA NoCircle == IInv => NoWaitCycle
  <1> SUFFICES ASSUME IInv PROVE NoWaitCycle
    OBVIOUS
  <1>1. None \notin Guests /\ Gpu \notin Guests
    BY ConstantsOK
  <1>2. lock \in {None, Gpu} /\ mutex \in {None, Gpu}
    BY DEF IInv, LocksAgree, Holds
  <1>3. ASSUME NEW g \in Guests, guest[g].pc = "wait"
        PROVE  /\ g \notin {lock, mutex}
               /\ (gpu.for = g) # (\E i \in 1 .. Len(commands) : commands[i].from = g)
               /\ \A i, j \in 1 .. Len(commands) :
                     commands[i].from = g /\ commands[j].from = g => i = j
    <2>1. g \notin {lock, mutex}
      BY <1>1, <1>2
    <2>2. gpu.for = g \/ \E i \in 1 .. Len(commands) : commands[i].from = g
      BY <1>3 DEF IInv, CommandsAgree
    <2>3. ~(gpu.for = g /\ \E i \in 1 .. Len(commands) : commands[i].from = g)
      BY DEF IInv, CommandsAgree
    <2>4. \A i, j \in 1 .. Len(commands) :
             commands[i].from = g /\ commands[j].from = g => i = j
      BY DEF IInv, CommandsAgree
    <2>5. (gpu.for = g) # (\E i \in 1 .. Len(commands) : commands[i].from = g)
      BY ONLY <2>2, <2>3
    <2> QED
      BY <2>1, <2>4, <2>5
  <1>4. /\ gpu.pc \in {"sync", "unmark", "done"} => lock = None
        /\ gpu.pc = "draw" => mutex = None
    BY DEF IInv, LocksAgree, Holds, UploadsFor
  <1>5. ASSUME gpu.pc = "upload", NEW p \in gpu.copies PROVE R \in trk.host[p]
    <2>1. p \in Pages
      BY DEF IInv, TypeOK, GpuStates
    <2>2. mode = "Precise" => p \notin trk.gpu
      BY <1>5 DEF IInv, CopiesAgree
    <2>3. R \in trk.host[p] <=> (mode = "Precise" => p \notin trk.gpu)
      BY ONLY IInv, <2>1, HostOf, TrackerNow
    <2> QED
      BY <2>2, <2>3
  <1> QED
    BY <1>3, <1>4, <1>5 DEF NoWaitCycle

(* Every state of the tracker satisfies the inductive invariant: the steps *)
(* of RegionManager, PageManager, BufferCache, TextureCache and Liverpool, *)
(* in any interleaving of any number of guest threads over a region of any *)
(* size, keep it.                                                          *)
THEOREM MemoryTrackerInvariant == Spec => []IInv
  BY InitOK, StepOK, PTL DEF Spec

(* The counts of PageManager and the host's protection follow the region's *)
(* bits and the tracked image through every UpdatePageWatchers, whatever   *)
(* ranges its Protect calls coalesce; its assertions never fail.           *)
THEOREM MemoryTrackerWatchersAgree == Spec => []WatchersAgree
  <1>1. IInv => WatchersAgree
    BY DEF IInv
  <1> QED
    BY <1>1, MemoryTrackerInvariant, PTL

(* With readbacks, a page that DownloadBufferMemory has not yet written    *)
(* back is GPU-modified, closed to guest stores, and still whole in the    *)
(* GPU's copy; with precise readbacks it is closed to guest loads too.     *)
THEOREM MemoryTrackerGpuWritesSurvive == Spec => []GpuWritesSurvive
  BY WritesSurvive, MemoryTrackerInvariant, PTL

(* A guest store that SynchronizeBuffer or RefreshImage has not uploaded   *)
(* yet is marked for the next upload, also when it races with one.         *)
THEOREM MemoryTrackerStaleIsMarked == Spec => []StaleIsMarked
  <1>1. IInv => StaleIsMarked
    BY DEF IInv
  <1> QED
    BY <1>1, MemoryTrackerInvariant, PTL

(* The circle of a guest thread in SendCommand<true>, its command, the GPU *)
(* thread and the region's lock never closes, for any number of faulting   *)
(* threads: UploadCopies never faults with the lock held.                  *)
THEOREM MemoryTrackerNoWaitCycle == Spec => []NoWaitCycle
  BY NoCircle, MemoryTrackerInvariant, PTL
=============================================================================
