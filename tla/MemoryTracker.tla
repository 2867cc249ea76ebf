--------------------------- MODULE MemoryTracker ---------------------------
(***************************************************************************)
(* Coherence of guest memory with the GPU's copies: RegionManager,         *)
(* MemoryTracker, PageManager and the parts of BufferCache, TextureCache   *)
(* and Liverpool that drive them.                                          *)
(*                                                                         *)
(* Guest threads store into pages and fault on the protected ones; the     *)
(* handler marks the page, or has the GPU thread download it first.  The   *)
(* GPU thread uploads modified pages before it reads or writes a buffer,   *)
(* refreshes an image, and serves the commands of the faulting threads.    *)
(* One region, one registered buffer over all its pages and one            *)
(* page-aligned image inside it.  Bitsets are sets of pages; of the bytes  *)
(* of a page only this is kept: whether each copy holds every guest store  *)
(* and every GPU write.  A GPU write and a guest store are taken to be to  *)
(* different bytes of a page, so that neither makes up for a lost other.   *)
(***************************************************************************)
EXTENDS Integers, Sequences, FiniteSetsExt

CONSTANTS
    Guests,       \* guest threads
    None,         \* no thread holds the lock
    Gpu,          \* the thread of Liverpool::Process
    NumPages,     \* pages of the region
    WindowPages,  \* download window of ReadMemory, in pages
    ImagePages,   \* pages of the image, consecutive
    GuestRanges,  \* page ranges the guest threads invalidate, and store into
    GpuRanges     \* page ranges of the buffers the GPU thread uses

Pages == 0 .. NumPages - 1
PageRanges == {a .. b : a, b \in Pages} \ {{}}

ASSUME ConstantsOK ==
    /\ NumPages \in Nat \ {0} /\ WindowPages \in Nat \ {0}
    /\ None \notin Guests /\ Gpu \notin Guests /\ Gpu # None
    /\ {ImagePages} \cup GuestRanges \cup GpuRanges \subseteq PageRanges

VARIABLES
    mode,    \* GpuReadbacksMode, fixed when the emulator starts
    trk,     \* the region's bits, the page manager's counters, host permissions
    lock,    \* RegionManager::lock
    mutex,   \* TextureCache::mutex
    ranges,  \* pages gpu_modified_ranges reaches
    image,   \* whether the image is tracked and Dirty
    copy,    \* which copies hold which writes
    guest,   \* what each guest thread's fault handler is doing
    gpu,     \* what the GPU thread is doing
    commands \* Liverpool::command_queue

vars == <<mode, trk, lock, mutex, ranges, image, copy, guest, gpu, commands>>

R == "read"
W == "write"

(***************************************************************************)
(* PageManager                                                             *)
(***************************************************************************)
\* ReadPerm() | WritePerm() of a PageState
Perms(s) == (IF s.readers = 0 THEN {R} ELSE {}) \cup (IF s.writers = 0 THEN {W} ELSE {})

\* AddDelta: the counters are bit-fields of one and of seven bits.
AddDelta(s, delta, isRead) ==
    IF isRead THEN [s EXCEPT !.readers = (@ + delta) % 2]
              ELSE [s EXCEPT !.writers = (@ + delta) % 128]

Watchers(s, isRead) == IF isRead THEN s.readers ELSE s.writers

\* Page p lies in a range that one Protect call covers: between two pages whose
\* count left or reached zero, with no other permissions in between (there the
\* loop calls release_pending and starts anew).
InProtectedRange(p, edges, cached) ==
    \E a, b \in edges : /\ a <= p /\ p <= b
                       /\ \A q \in a .. b : Perms(cached[q]) = Perms(cached[p])

\* UpdatePageWatchersForRegion<track, is_read>, and UpdatePageWatchers when the
\* pages of the mask are consecutive.
UpdatePageWatchers(t, mask, track, isRead) ==
    LET cached == [p \in Pages |->
            IF p \in mask THEN AddDelta(t.cached[p], IF track THEN 1 ELSE -1, isRead)
                          ELSE t.cached[p]]
        edges == {p \in mask : Watchers(cached[p], isRead) = (IF track THEN 1 ELSE 0)}
        protected == {p \in Pages : InProtectedRange(p, edges, cached)}
    IN [t EXCEPT
          !.cached = cached,
          !.host = [p \in Pages |-> IF p \in protected THEN Perms(cached[p]) ELSE @[p]],
          !.failed = \/ @
                     \/ ~track /\ \E p \in mask : Watchers(t.cached[p], isRead) = 0
                     \/ \E p \in protected : Perms(cached[p]) = {W}]

(***************************************************************************)
(* RegionManager                                                           *)
(***************************************************************************)
UpdateProtection(t, track, isRead) ==
    LET mask == IF isRead THEN SymDiff(Pages \ t.gpu, t.readable)
                          ELSE SymDiff(t.cpu, t.writeable)
        u == IF isRead THEN [t EXCEPT !.readable = Pages \ t.gpu]
                       ELSE [t EXCEPT !.writeable = t.cpu]
    IN IF mask = {} THEN t ELSE UpdatePageWatchers(u, mask, track, isRead)

\* ChangeRegionState<Type::CPU, true>
MarkCpu(t, S) == UpdateProtection([t EXCEPT !.cpu = @ \cup S], FALSE, FALSE)

\* ForEachModifiedRange<Type::CPU, true>; the ranges it passes to func are the
\* pages of t.cpu in S.
ClearCpu(t, S) == UpdateProtection([t EXCEPT !.cpu = @ \ S], TRUE, FALSE)

\* ChangeRegionState<Type::GPU, enable>
ChangeGpu(t, S, enable) ==
    LET u == [t EXCEPT !.gpu = IF enable THEN @ \cup S ELSE @ \ S]
    IN IF mode = "Precise" THEN UpdateProtection(u, enable, TRUE) ELSE u

(***************************************************************************)
(* Initial states: nothing uploaded yet, every page CPU-modified and open. *)
(***************************************************************************)
Init ==
    /\ mode \in {"Disabled", "Relaxed", "Precise"}
    /\ trk = [cpu |-> Pages, gpu |-> {}, writeable |-> Pages, readable |-> Pages,
              cached |-> [p \in Pages |-> [readers |-> 0, writers |-> 0]],
              host |-> [p \in Pages |-> {R, W}], failed |-> FALSE]
    /\ lock = None /\ mutex = None
    /\ ranges = {}
    /\ image = [tracked |-> FALSE, dirty |-> TRUE]
    /\ copy = [vramStores |-> {}, vramWrites |-> Pages, memWrites |-> Pages,
               imageStores |-> FALSE]
    /\ guest = [g \in Guests |-> [pc |-> "run", pages |-> {}]]
    /\ gpu = [pc |-> "idle", pages |-> {}, copies |-> {}, then |-> "read", for |-> None]
    /\ commands = << >>

(***************************************************************************)
(* Guest threads                                                           *)
(***************************************************************************)
Goto(g, pc) == guest' = [guest EXCEPT ![g].pc = pc]

\* A store into an open page.
Store(g, p) ==
    /\ guest[g].pc = "run" /\ W \in trk.host[p]
    /\ copy' = [copy EXCEPT !.vramStores = @ \ {p},
                            !.imageStores = @ /\ p \notin ImagePages]
    /\ UNCHANGED <<mode, trk, lock, mutex, ranges, image, guest, gpu, commands>>

\* A store into a protected page, or an explicit InvalidateMemory of a range
\* (file reads, memory protection, unmapping).
Invalidate(g, S) ==
    /\ guest[g].pc = "run"
    /\ guest' = [guest EXCEPT ![g] = [pc |-> "invalidate", pages |-> S]]
    /\ UNCHANGED <<mode, trk, lock, mutex, ranges, image, copy, gpu, commands>>

\* A load from a protected page.
LoadFault(g, p) ==
    /\ guest[g].pc = "run" /\ R \notin trk.host[p]
    /\ guest' = [guest EXCEPT ![g] = [pc |-> "read", pages |-> {p}]]
    /\ UNCHANGED <<mode, trk, lock, mutex, ranges, image, copy, gpu, commands>>

\* Mutant: the flush is asked for with the lock held.
MutInvalidateLocked(g) ==
    /\ guest[g].pc = "invalidate" /\ lock = None
    /\ IF mode # "Disabled" /\ trk.gpu \cap guest[g].pages # {}
       THEN Goto(g, "flush") /\ lock' = g /\ UNCHANGED trk
       ELSE Goto(g, "texture") /\ trk' = MarkCpu(trk, guest[g].pages) /\ UNCHANGED lock
    /\ UNCHANGED <<mode, mutex, ranges, image, copy, gpu, commands>>

\* MemoryTracker::InvalidateRegion: the check and the change of state are made
\* under the lock, the flush after it.
InvalidateRegion(g) ==
    /\ guest[g].pc = "invalidate" /\ lock = None
    /\ IF mode # "Disabled" /\ trk.gpu \cap guest[g].pages # {}
       THEN Goto(g, "flush") /\ UNCHANGED trk
       ELSE Goto(g, "texture") /\ trk' = MarkCpu(trk, guest[g].pages)
    /\ UNCHANGED <<mode, lock, mutex, ranges, image, copy, gpu, commands>>

\* BufferCache::ReadMemory on a guest thread: SendCommand<true> and its wait.
SendCommand(g) ==
    /\ guest[g].pc \in {"flush", "read"}
    /\ commands' = Append(commands, [from |-> g, write |-> guest[g].pc = "flush"])
    /\ Goto(g, "wait")
    /\ UNCHANGED <<mode, trk, lock, mutex, ranges, image, copy, gpu>>

\* Mutant: the image is untracked without asking whether it is tracked.
MutUntrackImage(t) == UpdatePageWatchers(t, ImagePages, FALSE, FALSE)

\* UntrackImage: the watchers of the image go with its tracked range.
UntrackImage(t) ==
    IF image.tracked THEN UpdatePageWatchers(t, ImagePages, FALSE, FALSE) ELSE t

\* TextureCache::InvalidateMemory, for an image the range overlaps.
InvalidateImage(g) ==
    /\ guest[g].pc = "texture" /\ mutex = None
    /\ IF guest[g].pages \cap ImagePages # {}
       THEN trk' = UntrackImage(trk) /\ image' = [tracked |-> FALSE, dirty |-> TRUE]
       ELSE UNCHANGED <<trk, image>>
    /\ guest' = [guest EXCEPT ![g] = [pc |-> "run", pages |-> {}]]
    /\ UNCHANGED <<mode, lock, mutex, ranges, copy, gpu, commands>>

(***************************************************************************)
(* The GPU thread: SynchronizeBuffer and what it is called for             *)
(***************************************************************************)
\* ForEachUploadRange up to on_upload: the modified pages are noted, unmarked
\* and protected; a written buffer keeps the lock.
BeginUpload(S, then) ==
    /\ lock = None
    /\ trk' = ClearCpu(trk, S)
    /\ gpu' = [pc |-> "upload", pages |-> S, copies |-> trk.cpu \cap S,
               then |-> then, for |-> None]
    /\ lock' = IF then = "write" THEN Gpu ELSE None

\* ObtainBuffer, CopyBuffer or SynchronizeBuffersInRange reaches SynchronizeBuffer.
SynchronizeBuffer(S, written) ==
    /\ gpu.pc = "idle"
    /\ BeginUpload(S, IF written THEN "write" ELSE "read")
    /\ UNCHANGED <<mode, mutex, ranges, image, copy, guest, commands>>

\* UploadCopies: guest memory goes to the staging buffer and, in the order of the
\* command buffer, to the GPU's copy.  It loads from the pages, which must be open:
\* a fault here would have the GPU thread ask for the lock it holds.
UploadCopies ==
    /\ gpu.pc = "upload" /\ \A p \in gpu.copies : R \in trk.host[p]
    /\ copy' = [copy EXCEPT !.vramStores = @ \cup gpu.copies,
                            !.vramWrites = @ \ (gpu.copies \ copy.memWrites)]
    /\ gpu' = [gpu EXCEPT !.copies = {},
                 !.pc = CASE gpu.then = "write" -> "mark"
                          [] gpu.then = "image" -> "refresh"
                          [] OTHER -> "idle"]
    /\ UNCHANGED <<mode, trk, lock, mutex, ranges, image, guest, commands>>

\* The end of ForEachUploadRange for a written buffer.
MarkGpu ==
    /\ gpu.pc = "mark"
    /\ trk' = ChangeGpu(trk, gpu.pages, TRUE)
    /\ lock' = None
    /\ gpu' = [gpu EXCEPT !.pc = "draw"]
    /\ UNCHANGED <<mode, mutex, ranges, image, copy, guest, commands>>

\* gpu_modified_ranges.Add, InvalidateMemoryFromGPU for a formatted buffer that
\* starts where the image does, and the GPU's write to some of the pages.  They
\* are one step because only this thread refreshes images and downloads ranges.
Draw(formatted, written) ==
    /\ gpu.pc = "draw" /\ mutex = None
    /\ ranges' = ranges \cup gpu.pages
    /\ image' = [image EXCEPT !.dirty = @ \/ (formatted /\ Min(gpu.pages) = Min(ImagePages))]
    /\ copy' = [copy EXCEPT !.memWrites = @ \ written]
    /\ gpu' = [gpu EXCEPT !.pc = "idle", !.pages = {}]
    /\ UNCHANGED <<mode, trk, lock, mutex, guest, commands>>

TrackImage ==
    IF image.tracked THEN trk ELSE UpdatePageWatchers(trk, ImagePages, TRUE, FALSE)

\* Mutant: the texture mutex is not held while the image is refreshed.
MutUpdateImage ==
    /\ gpu.pc = "idle" /\ mutex = None
    /\ trk' = TrackImage
    /\ image' = [image EXCEPT !.tracked = TRUE]
    /\ gpu' = IF image.dirty THEN [gpu EXCEPT !.pc = "sync"] ELSE gpu
    /\ UNCHANGED <<mode, lock, mutex, ranges, copy, guest, commands>>

\* TextureCache::UpdateImage: TrackImage, then RefreshImage of a Dirty image.
UpdateImage ==
    /\ gpu.pc = "idle" /\ mutex = None
    /\ trk' = TrackImage
    /\ image' = [image EXCEPT !.tracked = TRUE]
    /\ IF image.dirty THEN gpu' = [gpu EXCEPT !.pc = "sync"] /\ mutex' = Gpu
                      ELSE UNCHANGED <<gpu, mutex>>
    /\ UNCHANGED <<mode, lock, ranges, copy, guest, commands>>

\* ObtainBufferForImage: the buffer contains the image.
SynchronizeImage ==
    /\ gpu.pc = "sync"
    /\ BeginUpload(ImagePages, "image")
    /\ UNCHANGED <<mode, mutex, ranges, image, copy, guest, commands>>

\* Image::Upload clears the Dirty flags; UpdateImage leaves the mutex.
RefreshImage ==
    /\ gpu.pc = "refresh"
    /\ copy' = [copy EXCEPT !.imageStores = ImagePages \subseteq copy.vramStores]
    /\ image' = [image EXCEPT !.dirty = FALSE]
    /\ mutex' = None
    /\ gpu' = [gpu EXCEPT !.pc = "idle", !.pages = {}]
    /\ UNCHANGED <<mode, trk, lock, ranges, guest, commands>>

(***************************************************************************)
(* The GPU thread: the commands of the faulting threads                    *)
(***************************************************************************)
\* The window of ReadMemory around a request.
Window(S) ==
    LET start == Min(S) - (Min(S) % WindowPages)
    IN {p \in Pages : start <= p /\ p < Max({start + WindowPages, Max(S) + 1})}

\* Mutant: only the requested pages are downloaded, the whole window unmarked.
MutProcessCommands ==
    /\ gpu.pc = "idle" /\ commands # << >> /\ lock = None
    /\ LET cmd == Head(commands)
           S == guest[cmd.from].pages
           download == trk.gpu \cap S \cap ranges
       IN gpu' = [pc |-> IF download = {} THEN "done" ELSE "write", pages |-> Window(S),
                  copies |-> download, for |-> cmd.from,
                  then |-> IF cmd.write THEN "write" ELSE "read"]
          /\ ranges' = ranges \ (trk.gpu \cap S)
    /\ commands' = Tail(commands)
    /\ UNCHANGED <<mode, trk, lock, mutex, image, copy, guest>>

\* ProcessCommands and the first half of DownloadBufferMemory<false>: what
\* gpu_modified_ranges holds of the GPU-modified pages is copied and forgotten.
ProcessCommands ==
    /\ gpu.pc = "idle" /\ commands # << >> /\ lock = None
    /\ LET cmd == Head(commands)
           S == Window(guest[cmd.from].pages)
           download == trk.gpu \cap S \cap ranges
       IN gpu' = [pc |-> IF download = {} THEN "done" ELSE "write", pages |-> S,
                  copies |-> download, for |-> cmd.from,
                  then |-> IF cmd.write THEN "write" ELSE "read"]
          /\ ranges' = ranges \ (trk.gpu \cap S)
    /\ commands' = Tail(commands)
    /\ UNCHANGED <<mode, trk, lock, mutex, image, copy, guest>>

\* write_data after Finish: guest memory is written behind its protection ...
\* The result of TryWriteBacking is ignored; the model takes every copied range
\* to lie in one physically backed area, where it writes all of the range.
WriteBacking ==
    /\ gpu.pc = "write"
    /\ copy' = [copy EXCEPT !.memWrites = @ \cup (gpu.copies \cap copy.vramWrites)]
    /\ gpu' = [gpu EXCEPT !.pc = "unmark", !.copies = {}]
    /\ UNCHANGED <<mode, trk, lock, mutex, ranges, image, guest, commands>>

\* ... and the window is unmarked.
UnmarkGpu ==
    /\ gpu.pc = "unmark" /\ lock = None
    /\ trk' = ChangeGpu(trk, gpu.pages, FALSE)
    /\ gpu' = [gpu EXCEPT !.pc = "done"]
    /\ UNCHANGED <<mode, lock, mutex, ranges, image, copy, guest, commands>>

\* A store's command marks its pages; either way the waiting thread goes on.
FinishCommand ==
    /\ gpu.pc = "done" /\ lock = None
    /\ trk' = IF gpu.then = "write" THEN MarkCpu(trk, guest[gpu.for].pages) ELSE trk
    /\ guest' = [guest EXCEPT ![gpu.for] =
                    IF gpu.then = "write" THEN [@ EXCEPT !.pc = "texture"]
                                          ELSE [pc |-> "run", pages |-> {}]]
    /\ gpu' = [pc |-> "idle", pages |-> {}, copies |-> {}, then |-> "read", for |-> None]
    /\ UNCHANGED <<mode, lock, mutex, ranges, image, copy, commands>>

GuestStep(g) ==
    \/ \E p \in UNION GuestRanges : Store(g, p) \/ LoadFault(g, p)
    \/ \E S \in GuestRanges : Invalidate(g, S)
    \/ InvalidateRegion(g) \/ SendCommand(g) \/ InvalidateImage(g)

GpuContinues ==
    \/ UploadCopies \/ MarkGpu \/ SynchronizeImage \/ RefreshImage
    \/ \E f \in BOOLEAN, S \in SUBSET gpu.pages : Draw(f, S)
    \/ WriteBacking \/ UnmarkGpu \/ FinishCommand

Next ==
    \/ \E g \in Guests : GuestStep(g)
    \/ \E S \in GpuRanges, written \in BOOLEAN : SynchronizeBuffer(S, written)
    \/ UpdateImage
    \/ GpuContinues
    \/ ProcessCommands

Spec == Init /\ [][Next]_vars

(***************************************************************************)
(* Properties                                                              *)
(***************************************************************************)
\* The page manager's reference counts and the host's protection follow the
\* region's bits through every partial, coalesced update: a page's write watchers
\* are the buffer cache's and the image's, the host permissions are exactly what
\* the counts ask for although Protect is called on ranges, no count goes below
\* zero and no page is ever made write-only (the assertions of PageManager).
WatchersAgree ==
    /\ ~trk.failed
    /\ trk.writeable = trk.cpu
    /\ trk.readable = IF mode = "Precise" THEN Pages \ trk.gpu ELSE Pages
    /\ \A p \in Pages :
          LET n(P) == IF P THEN 1 ELSE 0
          IN /\ trk.host[p] = Perms(trk.cached[p])
             /\ trk.cached[p].readers = n(p \notin trk.readable)
             /\ trk.cached[p].writers = n(p \notin trk.writeable)
                                        + n(image.tracked /\ p \in ImagePages)

\* With readbacks, no interleaving of faults, uploads and downloads loses what the
\* GPU wrote: while guest memory lacks it the page is GPU-modified, closed to
\* stores, and the GPU's copy still has it; in Precise mode the page is closed to
\* loads too, so that no guest thread ever reads the old bytes.  About guest memory
\* that TryWriteBacking can write (buffer_cache.cpp:151, memory.cpp:168).
GpuWritesSurvive ==
    mode # "Disabled" =>
        \A p \in Pages \ copy.memWrites :
            /\ p \in copy.vramWrites
            /\ p \in trk.gpu /\ p \in ranges \cup gpu.copies
            /\ W \notin trk.host[p]
            /\ mode = "Precise" => R \notin trk.host[p]

\* What the GPU will use next is never a copy from before a guest store: a page
\* whose store the buffer lacks is marked CPU-modified or is being uploaded right
\* now, and an image that lacks a store is Dirty - whatever happens between the
\* marking, the protection, the copy and the stores that race with them.
StaleIsMarked ==
    /\ \A p \in Pages \ copy.vramStores :
          p \in trk.cpu \/ (gpu.pc = "upload" /\ p \in gpu.copies)
    /\ copy.imageStores \/ image.dirty

\* No fault hangs: a thread that waits for the GPU thread holds no lock and its
\* command is queued or being served exactly once, and what the GPU thread needs
\* next - the region lock, or the pages it copies from while it holds that lock -
\* is always there for it, so the circle guest - command - lock never closes.
NoWaitCycle ==
    /\ \A g \in Guests : guest[g].pc = "wait" =>
          /\ g \notin {lock, mutex}
          /\ (gpu.for = g) # (\E i \in 1 .. Len(commands) : commands[i].from = g)
          /\ \A i, j \in 1 .. Len(commands) :
                commands[i].from = g /\ commands[j].from = g => i = j
    /\ gpu.pc \in {"sync", "unmark", "done"} => lock = None
    /\ gpu.pc = "upload" => \A p \in gpu.copies : R \in trk.host[p]
    /\ gpu.pc = "draw" => mutex = None

(***************************************************************************)
(* The inductive invariant of the proofs                                   *)
(***************************************************************************)
TrackerStates ==
    [cpu : SUBSET Pages, gpu : SUBSET Pages, writeable : SUBSET Pages, readable : SUBSET Pages,
     cached : [Pages -> [readers : 0 .. 1, writers : 0 .. 127]],
     host : [Pages -> SUBSET {R, W}], failed : BOOLEAN]

GpuStates ==
    [pc : {"idle", "upload", "mark", "draw", "sync", "refresh", "write", "unmark", "done"},
     pages : SUBSET Pages, copies : SUBSET Pages,
     then : {"read", "write", "image"}, for : Guests \cup {None}]

TypeOK ==
    /\ mode \in {"Disabled", "Relaxed", "Precise"}
    /\ trk \in TrackerStates
    /\ ranges \subseteq Pages
    /\ image \in [tracked : BOOLEAN, dirty : BOOLEAN]
    /\ copy \in [vramStores : SUBSET Pages, vramWrites : SUBSET Pages,
                 memWrites : SUBSET Pages, imageStores : BOOLEAN]
    /\ guest \in [Guests ->
           [pc : {"run", "invalidate", "flush", "read", "wait", "texture"}, pages : SUBSET Pages]]
    /\ gpu \in GpuStates
    /\ commands \in Seq([from : Guests, write : BOOLEAN])

Holds(P) == IF P THEN Gpu ELSE None
UploadsFor(what) == gpu.pc = "upload" /\ gpu.then = what

\* Only the GPU thread keeps the two locks over a step, each for its own part of
\* an upload.
LocksAgree ==
    /\ lock = Holds(UploadsFor("write") \/ gpu.pc = "mark")
    /\ mutex = Holds(gpu.pc \in {"sync", "refresh"} \/ UploadsFor("image"))

Serving == gpu.pc \in {"write", "unmark", "done"}

\* The waiting threads are the ones whose command is queued or being served; the
\* window that is downloaded has the pages of the request.
CommandsAgree ==
    /\ \A g \in Guests :
          /\ guest[g].pc # "run" => guest[g].pages \in PageRanges
          /\ (guest[g].pc = "wait") <=>
                 (gpu.for = g \/ \E i \in 1 .. Len(commands) : commands[i].from = g)
    /\ \A i \in 1 .. Len(commands) : commands[i].from # gpu.for
    /\ \A i, j \in 1 .. Len(commands) : commands[i].from = commands[j].from => i = j
    /\ (gpu.for # None) <=> Serving
    /\ Serving => guest[gpu.for].pages \subseteq gpu.pages

\* The pages a step of the GPU thread still has to copy, and what it relies on
\* from the bits it read before.
CopiesAgree ==
    /\ gpu.copies # {} => gpu.pc \in {"upload", "write"}
    /\ gpu.pc = "upload" /\ mode # "Disabled" => gpu.copies \cap trk.gpu = {}
    /\ (UploadsFor("write") \/ gpu.pc = "mark") => gpu.pages \cap trk.cpu = {}
    /\ gpu.pc = "draw" => gpu.pages \subseteq trk.gpu
    /\ gpu.pc = "draw" \/ Serving \/ trk.gpu \subseteq ranges
    /\ gpu.pc = "draw" => trk.gpu \subseteq ranges \cup gpu.pages
    /\ gpu.pc \in {"write", "unmark"} =>
           trk.gpu \ gpu.pages \subseteq ranges /\ trk.gpu \cap gpu.pages \cap ranges = {}
    /\ gpu.pc = "done" => trk.gpu \subseteq ranges /\ trk.gpu \cap gpu.pages = {}

\* A page is not modified on both sides, and the GPU's copy never loses a write.
OneSideModified ==
    mode # "Disabled" => trk.cpu \cap trk.gpu = {} /\ copy.vramWrites = Pages

\* A page whose GPU write guest memory lacks is on its way there, or will be found
\* by the next download.
WritesPlaced ==
    mode # "Disabled" => Pages \ copy.memWrites \subseteq trk.gpu \cap (ranges \cup gpu.copies)

\* An image that is not Dirty is tracked, and stays so while it is refreshed; the
\* refresh finds every store in the buffer.
ImageAgrees ==
    /\ image.tracked \/ image.dirty
    /\ (gpu.pc \in {"sync", "refresh"} \/ UploadsFor("image")) => image.tracked
    /\ UploadsFor("image") => ImagePages \subseteq copy.vramStores \cup gpu.copies
    /\ gpu.pc = "refresh" => ImagePages \subseteq copy.vramStores

IInv ==
    /\ TypeOK /\ LocksAgree /\ CommandsAgree /\ CopiesAgree /\ OneSideModified
    /\ WritesPlaced /\ ImageAgrees /\ WatchersAgree /\ StaleIsMarked
=============================================================================
