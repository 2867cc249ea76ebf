--------------------------- MODULE VideoCoreBridge ---------------------------
(***************************************************************************)
(* D3D12VideoCoreBridge over D3D12DeviceContext and D3D12ResourceAllocator *)
(* (platform/xbox_uwp).  The calls come from one thread, the host's UI     *)
(* thread; the GPU executes the queue at its own pace, the fence advances  *)
(* behind it, and a call that waits lets it run.  A recording ("batch") is *)
(* built by fills, copies and frame imports, closed and submitted by Flush,*)
(* and its command allocator, uploads and image references are recycled    *)
(* once the ticket of the submission is complete.                          *)
(*                                                                         *)
(* Memory is counted in 32-bit words, the unit FillBuffer accepts.  A      *)
(* rejected request (E_INVALIDARG, E_NOTIMPL) changes only statistics and  *)
(* is a stuttering step, except where the code rejects it after starting a *)
(* recording.  Resource states and barriers are left out.                  *)
(***************************************************************************)
EXTENDS Integers, Sequences, FiniteSets, SequencesExt, FiniteSetsExt

CONSTANTS Resources,        \* DEFAULT buffers the client registers
          Width,            \* [Resources -> words]
          MaxAddress,       \* the largest VAddr
          Values,           \* the words a fill writes
          Sizes,            \* the transfer sizes the client asks for
          FrameAddresses,   \* where it imports linear frames from
          MaxTransfer,      \* MaxTransferBytes, in words
          MaxBindings,
          Budget,           \* budget_bytes of the allocator, in words
          Footprint,        \* what GetResourceAllocationInfo charges for a size
          FenceMax,         \* UINT64_MAX, reserved for device removal
          Faults,           \* which of the calls below may fail
          MaxObjects,       \* bound: resources alive at a time
          MaxCommands,      \* bound: commands of one recording
          MaxDepth,         \* bound: nested scope markers (0: no markers at all)
          MaxQueue          \* bound: submissions in flight when the shell adds one

FaultKinds == {"alloc", "reset", "close", "signal", "wait", "removal"}

ASSUME ConstantsAssumption ==
    /\ Resources \cap (0 .. MaxObjects) = {}
    /\ Width \in [Resources -> Nat \ {0}]
    /\ {MaxAddress, MaxTransfer, MaxBindings, Budget, FenceMax, MaxObjects,
        MaxCommands, MaxDepth, MaxQueue} \subseteq Nat
    /\ Footprint \in [0 .. MaxTransfer -> Nat]
    /\ Sizes \subseteq Nat /\ FrameAddresses \subseteq 1 .. MaxAddress
    /\ FenceMax > 0 /\ 0 \notin Values
    /\ Faults \subseteq FaultKinds

Objects == 1 .. MaxObjects         \* committed resources of the allocator
NoObject == 0
Addresses == 1 .. MaxAddress
Words == (UNION {0 .. Width[r] - 1 : r \in Resources}) \cup (0 .. MaxTransfer - 1)
Blank == [w \in Words |-> 0]

VARIABLES
    bindings,          \* bindings_: base address of a registered buffer, or 0
    encoder,           \* encoder_ is set: a recording is in progress
    batch,             \* staging_, pending_images_, staged_bytes_, the owners kept
                       \* by the encoder, and the command list
    last_ticket, marker_depth,
    call,              \* the call the UI thread is in, and its local resource
    frame,             \* the image the client owns (output of CreateLinearFrame)
    live_bytes, size,  \* D3D12ResourceAccounting: total charge; words of a resource
    fence_value, submission_error,     \* D3D12DeviceContext
    queue, completed, removed,         \* the GPU: queue, fence, device removal
    vram,              \* contents of buffers and allocated resources
    downloaded,        \* what the last successful DownloadBuffer returned
    abandoned          \* history: tickets of the lists whose resources the bridge gave
                       \* up without having waited for them (0: those without ticket)

outcome == <<downloaded, abandoned>>
bridge == <<bindings, encoder, batch, last_ticket, marker_depth, call, outcome>>
heap == <<live_bytes, size, frame>>
gpu == <<queue, completed, removed>>
vars == <<bridge, heap, fence_value, submission_error, gpu, vram>>

Idle == [op |-> "idle", obj |-> NoObject]
EmptyBatch == [staging |-> {}, pending |-> {}, staged |-> 0, tracked |-> {},
               cmds |-> <<>>, list |-> "none"]

Init == /\ bindings = [r \in Resources |-> 0]
        /\ encoder = FALSE
        /\ batch = EmptyBatch
        /\ last_ticket = 0 /\ marker_depth = 0
        /\ call = Idle
        /\ frame = NoObject
        /\ live_bytes = 0 /\ size = [o \in Objects |-> 0]
        /\ fence_value = 0 /\ submission_error = FALSE
        /\ queue = <<>> /\ completed = 0 /\ removed = FALSE
        /\ vram = [x \in Resources \cup Objects |-> Blank]
        /\ downloaded = <<>> /\ abandoned = {}

-----------------------------------------------------------------------------
(* D3D12DeviceContext: tickets.                                            *)

\* Wait(ticket) returns, or throws: a ticket never signalled, a failed
\* signal or a removed device (CompletedValue), or a failed event wait.
WaitReturns(ticket) ==
    /\ ticket <= fence_value
    /\ ~submission_error /\ ~removed
    /\ completed >= ticket

WaitRefused(ticket) == ticket > fence_value \/ submission_error \/ removed
WaitThrows(ticket) == WaitRefused(ticket) \/ ("wait" \in Faults /\ completed < ticket)

\* The lists a wait for last_ticket_ leaves behind in flight when it throws.
GivenUp == IF WaitThrows(last_ticket) THEN completed + 1 .. last_ticket ELSE {}

\* CompletedValue() >= last_ticket_, where CompletedValue may throw.
BatchRetired == ~submission_error /\ ~removed /\ completed >= last_ticket

Enqueue(cmds, ticket) == queue' = Append(queue, [cmds |-> cmds, ticket |-> ticket])

\* Mutant of Submit: the fence is signalled before the list is executed.
MutSignalFirst(cmds) ==
    /\ ~submission_error
    /\ fence_value < FenceMax - 1
    /\ queue' = queue \o <<[cmds |-> <<>>, ticket |-> fence_value + 1],
                           [cmds |-> cmds, ticket |-> 0]>>
    /\ fence_value' = fence_value + 1
    /\ UNCHANGED <<submission_error, completed, removed>>

\* Mutant of Submit: the ticket is handed out and never signalled.
MutNoSignal(cmds) ==
    /\ ~submission_error
    /\ fence_value < FenceMax - 1
    /\ Enqueue(cmds, 0)
    /\ fence_value' = fence_value + 1
    /\ UNCHANGED <<submission_error, completed, removed>>

\* Mutant of Submit: the reserved value is not kept out of the fence.
MutSubmitNoLimit(cmds) ==
    /\ ~submission_error
    /\ fence_value < FenceMax
    /\ Enqueue(cmds, fence_value + 1)
    /\ fence_value' = fence_value + 1
    /\ UNCHANGED <<submission_error, completed, removed>>

\* Submit when Signal succeeds: the list runs, then the fence gets the ticket.
Submit(cmds) ==
    /\ ~submission_error
    /\ fence_value < FenceMax - 1
    /\ Enqueue(cmds, fence_value + 1)
    /\ fence_value' = fence_value + 1
    /\ UNCHANGED <<submission_error, completed, removed>>

\* Submit when it throws: refused outright after an earlier failure; else the
\* list has been executed and is left without a ticket.
SubmitThrows(cmds) ==
    /\ \/ submission_error /\ UNCHANGED <<queue, submission_error>>
       \/ ~submission_error /\ Enqueue(cmds, 0)
          /\ \/ fence_value >= FenceMax - 1 /\ UNCHANGED submission_error
             \/ ("signal" \in Faults \/ removed) /\ fence_value < FenceMax - 1
                /\ submission_error' = TRUE
    /\ UNCHANGED <<fence_value, completed, removed>>

-----------------------------------------------------------------------------
(* D3D12ResourceAllocator: committed resources under a budget.             *)

\* Everything some owner refers to: bridge and encoder of batch b, call, client.
HeldBy(b) == b.staging \cup b.pending \cup b.tracked \cup {call.obj, frame}
Held == HeldBy(batch)

\* The allocator hands out memory no owner refers to.
Unheld(b) == Objects \ HeldBy(b)
NewObject(b) == Min(Unheld(b))

Total(words) ==
    LET sum[o \in 0 .. MaxObjects] == IF o = 0 THEN 0 ELSE sum[o - 1] + words[o]
    IN  sum[MaxObjects]
Bytes(set) == Total([o \in Objects |-> IF o \in set THEN size[o] ELSE 0])
Charge(set) == Total([o \in Objects |-> IF o \in set THEN Footprint[size[o]] ELSE 0])

\* Create: the footprint of n words is charged to the budget.  live is the charge
\* before the call.
Affordable(n, live) == Footprint[n] <= Budget - live
AllocationFails(n, live) == ~Affordable(n, live) \/ "alloc" \in Faults

\* What remains of sizes sz and contents mem once the owners are the new ones:
\* a released resource loses both.
Settle(sz, mem) ==
    /\ size' = [o \in Objects |-> IF o \in Held' THEN sz[o] ELSE 0]
    /\ vram' = [x \in DOMAIN vram |-> IF x \in Objects \ Held' THEN Blank ELSE mem[x]]

-----------------------------------------------------------------------------
(* The bridge: address lookup, recording, submission.                      *)

\* Find: the registered buffer and offset of a range, if it lies in one.
Covers(r, a, n) ==
    /\ bindings[r] # 0 /\ a >= bindings[r]
    /\ a - bindings[r] < Width[r] /\ n <= Width[r] - (a - bindings[r])
Found(a, n) == n \in 1 .. MaxTransfer /\ \E r \in Resources : Covers(r, a, n)
Buffer(a, n) == CHOOSE r \in Resources : Covers(r, a, n)
Offset(a, n) == a - bindings[Buffer(a, n)]

RegisterBuffer(r, base) ==
    /\ call = Idle
    /\ Cardinality({q \in Resources : bindings[q] # 0}) < MaxBindings
    /\ ~encoder
    /\ last_ticket # 0 => BatchRetired
    /\ Width[r] <= MaxAddress - base
    /\ bindings[r] = 0
    /\ \A q \in Resources : bindings[q] # 0 =>
          ~(base < bindings[q] + Width[q] /\ bindings[q] < base + Width[r])
    /\ bindings' = [bindings EXCEPT ![r] = base]
    /\ UNCHANGED <<encoder, batch, last_ticket, marker_depth, call, outcome, heap,
                   fence_value, submission_error, gpu, vram>>

\* Mutant of NewBatch: staged_bytes_ keeps counting across batches.
MutNewBatchKeepsCount == [EmptyBatch EXCEPT !.list = "open", !.staged = batch.staged]

\* The recording a call continues, or the empty one it starts.
NewBatch == [EmptyBatch EXCEPT !.list = "open"]
Batch == IF encoder THEN batch ELSE NewBatch
ChargeAfter(b) == live_bytes - Charge(batch.staging \ b.staging)

\* The command list ignores commands once it is closed.
Command(dst, doff, src, soff, n) ==
    [dst |-> dst, doff |-> doff, src |-> src, soff |-> soff, n |-> n]
Record(b, c) == IF b.list = "open" THEN Append(b.cmds, c) ELSE b.cmds

\* The calls that record.  The first three reach BeginRecording with nothing
\* allocated; CreateLinearFrame has already created its texture.
Room == Len(batch.cmds) < MaxCommands

Request(req) ==
    /\ call = Idle
    /\ call' = [op |-> "record", obj |-> NoObject, req |-> req]
    /\ UNCHANGED <<bindings, encoder, batch, last_ticket, marker_depth, outcome, heap,
                   fence_value, submission_error, gpu, vram>>

FillBuffer(a, n, v) == /\ Room /\ Unheld(Batch) # {} /\ Found(a, n)
                       /\ Request([kind |-> "fill", a |-> a, n |-> n, v |-> v])
CopyBuffer(d, s, n) == /\ Room /\ Found(d, n) /\ Found(s, n) /\ Buffer(d, n) # Buffer(s, n)
                       /\ Request([kind |-> "copy", d |-> d, s |-> s, n |-> n])
ScopeMarkerBegin == marker_depth < MaxDepth /\ Request([kind |-> "begin"])
ScopedMarkerInsertColor == MaxDepth > 0 /\ Request([kind |-> "insert"])

CreateLinearFrame(a) ==
    /\ call = Idle
    /\ frame = NoObject
    /\ Room /\ Unheld(batch) # {} /\ Found(a, 1)
    /\ Affordable(1, live_bytes)
    /\ call' = [op |-> "record", obj |-> NewObject(batch), req |-> [kind |-> "frame", a |-> a]]
    /\ live_bytes' = live_bytes + Footprint[1]
    /\ size' = [size EXCEPT ![NewObject(batch)] = 1]
    /\ UNCHANGED <<bindings, encoder, batch, last_ticket, marker_depth, outcome, frame,
                   fence_value, submission_error, gpu, vram>>

\* Leaving a call destroys its local resource and returns its charge.
Leave(live) ==
    /\ call' = Idle
    /\ live_bytes' = live - (IF call.obj = NoObject THEN 0 ELSE Footprint[size[call.obj]])

\* BeginRecording throws: the wait does, or resetting allocator or list does
\* after the wait, when the old staging is already gone.
BeginThrows ==
    /\ ~encoder
    /\ \/ WaitThrows(last_ticket) /\ UNCHANGED batch /\ Leave(live_bytes)
       \/ /\ WaitReturns(last_ticket) /\ "reset" \in Faults
          /\ batch' = [EmptyBatch EXCEPT !.list = IF batch.list = "none" THEN "none" ELSE "closed"]
          /\ Leave(ChargeAfter(EmptyBatch))
    /\ UNCHANGED <<bindings, encoder, last_ticket, marker_depth, outcome, frame,
                   fence_value, submission_error, gpu>>
    /\ Settle(size, vram)

\* BeginRecording returns: at once inside a recording, else after the previous
\* batch is complete.
BeginRecording == encoder \/ WaitReturns(last_ticket)

\* The rest of FillBuffer: it is rejected, or its upload cannot be allocated,
\* after the recording has begun; else the upload is retained and recorded.
\* Track and CopyBuffer, between push_back and staged_bytes_ +=, are taken not to
\* throw: only lack of host memory or a failing query of the upload makes them.
RecordFill(req, b) ==
    LET live == ChargeAfter(b)
        r == Buffer(req.a, req.n)
        c == Command(r, Offset(req.a, req.n), NewObject(b), 0, req.n) IN
    \/ /\ req.n > MaxTransfer - b.staged \/ AllocationFails(req.n, live)
       /\ batch' = b /\ live_bytes' = live /\ call' = Idle
       /\ Settle(size, vram)
    \/ /\ req.n <= MaxTransfer - b.staged /\ Affordable(req.n, live)
       /\ batch' = [b EXCEPT !.staging = @ \cup {NewObject(b)}, !.tracked = @ \cup {NewObject(b)},
                             !.staged = @ + req.n, !.cmds = Record(b, c)]
       /\ live_bytes' = live + Footprint[req.n]
       /\ call' = Idle
       /\ Settle([size EXCEPT ![NewObject(b)] = req.n],
                 [vram EXCEPT ![NewObject(b)] = [w \in Words |-> IF w < req.n THEN req.v ELSE 0]])

RecordCopy(req, b) ==
    LET c == Command(Buffer(req.d, req.n), Offset(req.d, req.n),
                     Buffer(req.s, req.n), Offset(req.s, req.n), req.n) IN
    /\ batch' = [b EXCEPT !.cmds = Record(b, c)]
    /\ live_bytes' = ChargeAfter(b) /\ call' = Idle
    /\ Settle(size, vram)

\* Mutant of RecordFrame: the client is trusted to keep the image alive.
MutFrameNotRetained(req, b) ==
    LET c == Command(call.obj, 0, Buffer(req.a, 1), Offset(req.a, 1), 1) IN
    /\ batch' = [b EXCEPT !.tracked = @ \cup {call.obj}, !.cmds = Record(b, c)]
    /\ live_bytes' = ChargeAfter(b) /\ call' = Idle
    /\ frame' = call.obj
    /\ Settle(size, vram)

\* The rest of CreateLinearFrame: pending_images_ keeps the texture alive, the
\* client becomes its owner.
RecordFrame(req, b) ==
    LET c == Command(call.obj, 0, Buffer(req.a, 1), Offset(req.a, 1), 1) IN
    /\ batch' = [b EXCEPT !.pending = @ \cup {call.obj}, !.tracked = @ \cup {call.obj},
                          !.cmds = Record(b, c)]
    /\ live_bytes' = ChargeAfter(b) /\ call' = Idle
    /\ frame' = call.obj
    /\ Settle(size, vram)

RecordMarker(req, b) ==
    /\ batch' = b /\ live_bytes' = ChargeAfter(b) /\ call' = Idle
    /\ Settle(size, vram)

\* A recording call returns.
Recorded ==
    /\ call.op = "record" /\ BeginRecording
    /\ encoder' = TRUE
    /\ LET req == call.req IN
       \/ req.kind = "fill" /\ UNCHANGED <<frame, marker_depth>> /\ RecordFill(req, Batch)
       \/ req.kind = "copy" /\ UNCHANGED <<frame, marker_depth>> /\ RecordCopy(req, Batch)
       \/ req.kind = "frame" /\ RecordFrame(req, Batch) /\ UNCHANGED marker_depth
       \/ /\ req.kind \in {"begin", "insert"} /\ UNCHANGED frame /\ RecordMarker(req, Batch)
          /\ marker_depth' = IF req.kind = "begin" THEN marker_depth + 1 ELSE marker_depth
    /\ UNCHANGED <<bindings, last_ticket, outcome, fence_value, submission_error, gpu>>

RecordThrows == call.op = "record" /\ BeginThrows

ScopeMarkerEnd ==
    /\ call = Idle
    /\ encoder /\ marker_depth # 0
    /\ marker_depth' = marker_depth - 1
    /\ UNCHANGED <<bindings, encoder, batch, last_ticket, call, outcome, heap,
                   fence_value, submission_error, gpu, vram>>

-----------------------------------------------------------------------------
(* Flush, Finish and DownloadBuffer.                                       *)

\* Flush of recording b, then on to call next: Close, Submit, encoder_.reset.
Flushed(b, next) ==
    /\ marker_depth = 0
    /\ b.list = "open"
    /\ Submit(b.cmds)
    /\ last_ticket' = fence_value + 1
    /\ encoder' = FALSE
    /\ batch' = [b EXCEPT !.list = "closed", !.cmds = <<>>, !.tracked = {}]
    /\ call' = next

\* Mutant of FlushThrows: encoder_ is reset before Submit.
MutFlushResetsFirst(b) ==
    /\ marker_depth = 0 /\ b.list = "open"
    /\ SubmitThrows(b.cmds)
    /\ batch' = [b EXCEPT !.list = "closed", !.cmds = <<>>, !.tracked = {}]
    /\ encoder' = FALSE
    /\ UNCHANGED last_ticket

\* Flush throws and leaves encoder_ set: markers open, Close fails (always, on
\* a list already closed), or Submit throws with the list executed or refused.
FlushThrows(b) ==
    /\ \/ /\ marker_depth # 0
          /\ batch' = b
          /\ UNCHANGED <<queue, completed, removed, fence_value, submission_error>>
       \/ /\ marker_depth = 0 /\ (b.list # "open" \/ "close" \in Faults)
          /\ batch' = [b EXCEPT !.list = "closed"]
          /\ UNCHANGED <<queue, completed, removed, fence_value, submission_error>>
       \/ /\ marker_depth = 0 /\ b.list = "open"
          /\ SubmitThrows(b.cmds)
          /\ batch' = [b EXCEPT !.list = "closed", !.cmds = IF submission_error THEN @ ELSE <<>>]
    /\ encoder' = TRUE
    /\ UNCHANGED last_ticket

Flush ==
    /\ call = Idle /\ encoder
    /\ \/ Flushed(batch, Idle)
       \/ FlushThrows(batch) /\ UNCHANGED call
    /\ UNCHANGED <<bindings, marker_depth, outcome, live_bytes, frame>>
    /\ Settle(size, vram)

\* Finish and the first half of DownloadBuffer: Flush, then Wait.
StartFinish(next) ==
    /\ call = Idle
    /\ \/ /\ ~encoder /\ call' = next
          /\ UNCHANGED <<encoder, batch, last_ticket, fence_value, submission_error, gpu>>
       \/ encoder /\ Flushed(batch, next)
       \/ encoder /\ FlushThrows(batch) /\ UNCHANGED call
    /\ UNCHANGED <<bindings, marker_depth, outcome, live_bytes, frame>>
    /\ Settle(size, vram)

Finish == StartFinish([op |-> "finish", obj |-> NoObject])
DownloadBuffer(a, n) == /\ Objects \ {frame} # {} /\ Found(a, n)
                        /\ StartFinish([op |-> "download", obj |-> NoObject, a |-> a, n |-> n])

\* staging_.clear(), pending_images_.clear(), staged_bytes_ = 0.
Cleared == [batch EXCEPT !.staging = {}, !.pending = {}, !.staged = 0]

FinishReturns ==
    /\ call.op = "finish" /\ WaitReturns(last_ticket)
    /\ batch' = Cleared
    /\ Leave(ChargeAfter(Cleared))
    /\ UNCHANGED <<bindings, encoder, last_ticket, marker_depth, outcome, frame,
                   fence_value, submission_error, gpu>>
    /\ Settle(size, vram)

\* Finish inside DownloadBuffer returned: the readback buffer is created.
DownloadFinished ==
    /\ call.op = "download" /\ WaitReturns(last_ticket)
    /\ batch' = Cleared
    /\ UNCHANGED <<bindings, encoder, last_ticket, marker_depth, outcome, frame,
                   fence_value, submission_error, gpu>>
    /\ LET live == ChargeAfter(Cleared) IN
       \/ AllocationFails(call.n, live) /\ Leave(live) /\ Settle(size, vram)
       \/ /\ Affordable(call.n, live)
          /\ call' = [op |-> "readback", obj |-> NewObject(Cleared), a |-> call.a, n |-> call.n]
          /\ live_bytes' = live + Footprint[call.n]
          /\ Settle([size EXCEPT ![NewObject(Cleared)] = call.n], vram)

\* BeginRecording, the copy into the readback buffer and the second Flush.
Readback ==
    /\ call.op = "readback" /\ BeginRecording
    /\ LET c == Command(call.obj, 0, Buffer(call.a, call.n), Offset(call.a, call.n), call.n)
           b == [Batch EXCEPT !.tracked = @ \cup {call.obj}, !.cmds = Record(Batch, c)] IN
       \/ /\ Flushed(b, [op |-> "read", obj |-> call.obj, a |-> call.a, n |-> call.n])
          /\ live_bytes' = ChargeAfter(b)
       \/ FlushThrows(b) /\ Leave(ChargeAfter(b))
    /\ UNCHANGED <<bindings, marker_depth, outcome, frame>>
    /\ Settle(size, vram)

ReadbackThrows == call.op = "readback" /\ BeginThrows

\* The second Finish returned: the words are copied out.
DownloadReturns ==
    /\ call.op = "read" /\ WaitReturns(last_ticket)
    /\ batch' = Cleared
    /\ Leave(ChargeAfter(Cleared))
    /\ downloaded' = [i \in 1 .. call.n |-> vram[call.obj][i - 1]]
    /\ UNCHANGED <<abandoned, bindings, encoder, last_ticket, marker_depth, frame,
                   fence_value, submission_error, gpu>>
    /\ Settle(size, vram)

\* A Wait inside Finish or DownloadBuffer throws: locals are destroyed, a
\* readback buffer with them, whether the GPU has written it or not; the
\* staging stays.
FinishThrows ==
    /\ call.op \in {"finish", "download", "read"} /\ WaitThrows(last_ticket)
    /\ Leave(live_bytes)
    /\ abandoned' = abandoned \cup (IF call.op = "read" THEN GivenUp ELSE {})
    /\ UNCHANGED <<bindings, encoder, batch, last_ticket, marker_depth, downloaded, frame,
                   fence_value, submission_error, gpu>>
    /\ Settle(size, vram)

OnSubmit ==
    /\ call = Idle
    /\ ~encoder /\ last_ticket # 0 /\ BatchRetired
    /\ batch' = Cleared
    /\ live_bytes' = ChargeAfter(Cleared)
    /\ UNCHANGED <<bindings, encoder, last_ticket, marker_depth, call, outcome, frame,
                   fence_value, submission_error, gpu>>
    /\ Settle(size, vram)

-----------------------------------------------------------------------------
(* The destructor, the client and the GPU.                                 *)

Destroy ==
    /\ call = Idle
    /\ call' = [op |-> "destroy", obj |-> NoObject]
    /\ UNCHANGED <<bindings, encoder, batch, last_ticket, marker_depth, outcome, heap,
                   fence_value, submission_error, gpu, vram>>

\* ~D3D12VideoCoreBridge: waits, swallows what the wait throws, releases all.
\* It never waits for a list that Signal left without a ticket.
Destroyed ==
    /\ call.op = "destroy"
    /\ WaitReturns(last_ticket) \/ WaitThrows(last_ticket)
    /\ batch' = EmptyBatch
    /\ encoder' = FALSE
    /\ live_bytes' = ChargeAfter(EmptyBatch)
    /\ call' = [op |-> "gone", obj |-> NoObject]
    /\ abandoned' = abandoned \cup GivenUp \cup {0}
    /\ UNCHANGED <<bindings, last_ticket, marker_depth, downloaded, frame,
                   fence_value, submission_error, gpu>>
    /\ Settle(size, vram)

Gone == call.op = "gone" /\ UNCHANGED vars

\* The client drops the image it owns (D3D12Resource::Reset).
ReleaseFrame ==
    /\ call.op \in {"idle", "gone"} /\ frame # NoObject
    /\ frame' = NoObject
    /\ live_bytes' = live_bytes - Footprint[size[frame]]
    /\ UNCHANGED <<bridge, fence_value, submission_error, gpu>>
    /\ Settle(size, vram)

\* The shell submits lists of its own through the same context.
HostSubmit ==
    /\ call = Idle
    /\ Len(queue) < MaxQueue
    /\ Submit(<<>>) \/ SubmitThrows(<<>>)
    /\ UNCHANGED <<bridge, heap, vram>>

\* CopyBufferRegion.
Execute(mem, c) ==
    [mem EXCEPT ![c.dst] = [w \in Words |->
        IF w \in c.doff .. c.doff + c.n - 1 THEN mem[c.src][w - c.doff + c.soff] ELSE @[w]]]
ExecuteAll(mem, cmds) ==
    LET after[i \in 0 .. Len(cmds)] ==
            IF i = 0 THEN mem ELSE Execute(after[i - 1], cmds[i])
    IN  after[Len(cmds)]

\* The GPU finishes the oldest submission, and the fence reaches its ticket.
GpuStep ==
    /\ ~removed /\ queue # <<>>
    /\ vram' = ExecuteAll(vram, Head(queue).cmds)
    /\ completed' = IF Head(queue).ticket = 0 THEN completed ELSE Head(queue).ticket
    /\ queue' = Tail(queue)
    /\ UNCHANGED <<bridge, heap, fence_value, submission_error, removed>>

\* The device is removed: what is queued never executes.
DeviceRemoved ==
    /\ "removal" \in Faults /\ ~removed
    /\ removed' = TRUE
    /\ UNCHANGED <<bridge, heap, fence_value, submission_error, queue, completed, vram>>

-----------------------------------------------------------------------------
Calls ==
    \/ \E r \in Resources, base \in Addresses : RegisterBuffer(r, base)
    \/ \E a \in Addresses, n \in Sizes :
          \/ \E v \in Values : FillBuffer(a, n, v)
          \/ \E s \in Addresses : CopyBuffer(a, s, n)
          \/ DownloadBuffer(a, n)
    \/ \E a \in FrameAddresses : CreateLinearFrame(a)
    \/ ScopeMarkerBegin \/ ScopedMarkerInsertColor \/ ScopeMarkerEnd
    \/ Flush \/ Finish \/ OnSubmit \/ Destroy

Returns ==
    \/ Recorded \/ RecordThrows
    \/ FinishReturns \/ FinishThrows
    \/ DownloadFinished \/ Readback \/ ReadbackThrows \/ DownloadReturns
    \/ Destroyed

Next == Calls \/ Returns \/ ReleaseFrame \/ HostSubmit \/ GpuStep \/ DeviceRemoved \/ Gone

Spec == Init /\ [][Next]_vars

\* The GPU works through its queue and the UI thread runs once its wait ends.
\* Nothing makes an event wait fail, so a failure never counts as its end.
Ready == \/ call.op = "record" /\ encoder
         \/ WaitReturns(last_ticket) \/ WaitRefused(last_ticket)
FairSpec == Spec /\ WF_vars(GpuStep) /\ WF_vars(Ready /\ Returns)

-----------------------------------------------------------------------------
(* Properties.                                                             *)

\* A command reads and writes inside its buffers.
InBounds(x, off, n) == off + n <= (IF x \in Resources THEN Width[x] ELSE MaxTransfer)
Commands == {c \in [dst : Resources \cup Objects, doff : Nat,
                    src : Resources \cup Objects, soff : Nat, n : Nat \ {0}] :
                InBounds(c.dst, c.doff, c.n) /\ InBounds(c.src, c.soff, c.n)}
Batches == [staging : SUBSET Objects, pending : SUBSET Objects, staged : Nat,
            tracked : SUBSET Objects, cmds : Seq(Commands), list : {"none", "open", "closed"}]
Submissions == [cmds : Seq(Commands), ticket : 0 .. FenceMax - 1]
Memories == [Resources \cup Objects -> [Words -> Values \cup {0}]]

\* Every variable has its type: addresses stay in range, copies stay inside
\* their buffers (Find and the offsets of FillBuffer and CopyBuffer) and the
\* fence never gets the value reserved for device removal
\* (d3d12_device_context.cpp:54).
TypeOK ==
    /\ bindings \in [Resources -> {0} \cup Addresses]
    /\ encoder \in BOOLEAN /\ submission_error \in BOOLEAN /\ removed \in BOOLEAN
    /\ batch \in Batches
    /\ marker_depth \in 0 .. MaxDepth
    /\ call.obj \in Objects \cup {NoObject} /\ frame \in Objects \cup {NoObject}
    /\ live_bytes \in Nat /\ size \in [Objects -> 0 .. MaxTransfer]
    /\ fence_value \in 0 .. FenceMax - 1
    /\ completed \in 0 .. FenceMax - 1 /\ last_ticket \in 0 .. FenceMax - 1
    /\ queue \in Seq(Submissions)
    /\ vram \in Memories

\* What a call has established when it waits: the range it found is still
\* registered, and memory for its resource has been set aside.
RequestAgrees(req) ==
    /\ req.kind \in {"fill", "copy", "frame", "begin", "insert"}
    /\ req.kind = "fill" => /\ req.a \in Addresses /\ Found(req.a, req.n) /\ req.v \in Values
                            /\ Unheld(Batch) # {}
    /\ req.kind = "copy" => /\ req.d \in Addresses /\ Found(req.d, req.n)
                            /\ req.s \in Addresses /\ Found(req.s, req.n)
    /\ req.kind = "frame" => /\ req.a \in Addresses /\ Found(req.a, 1)
                             /\ frame = NoObject /\ call.obj # NoObject
    /\ req.kind = "begin" => marker_depth < MaxDepth

CallAgrees ==
    /\ call.op \in {"idle", "record", "finish", "download", "readback", "read", "destroy", "gone"}
    /\ call.op = "record" => RequestAgrees(call.req)
    /\ call.op \in {"download", "readback", "read"} =>
           call.a \in Addresses /\ Found(call.a, call.n)
    /\ call.op = "download" => Objects \ {frame} # {}
    /\ call.op \in {"readback", "read"} => ~submission_error /\ call.obj # NoObject
    /\ call.op \in {"finish", "download", "readback", "read"} => ~encoder
    /\ call.obj # NoObject =>
           \/ call.op = "record" /\ call.req.kind = "frame"
           \/ call.op \in {"readback", "read"}

\* Between recordings the encoder keeps nothing and no list is open.
EncoderAgrees ==
    ~encoder => /\ batch.tracked = {} /\ batch.list # "open"
                /\ (marker_depth = 0 \/ call.op = "gone")

\* The fence passes the tickets in the order of the queue, a list of the bridge
\* has a ticket up to last_ticket_, or none, and a list without one leaves
\* traces that keep every later wait from returning.
TicketsAgree ==
    /\ completed <= fence_value /\ last_ticket <= fence_value
    /\ \A i \in 1 .. Len(queue) : queue[i].ticket # 0 =>
          /\ completed < queue[i].ticket /\ queue[i].ticket <= fence_value
          /\ \A j \in 1 .. i - 1 : queue[j].ticket < queue[i].ticket
    /\ \A i \in 1 .. Len(queue) : queue[i].cmds # <<>> =>
          /\ queue[i].ticket <= last_ticket
          /\ queue[i].ticket = 0 => \/ submission_error \/ call.op = "gone"
                                    \/ encoder /\ batch.list = "closed"

\* An allocation has one owner that pays for it.
OneOwner ==
    /\ call.obj \notin batch.staging /\ frame \notin batch.staging
    /\ call.obj = frame => frame = NoObject

\* The accounting is exact across failures and early returns: the budget is
\* charged the allocation size of the resources that have an owner and of nothing
\* else (d3d12_resource_allocator.cpp:118-141), and staged_bytes_ is what was
\* asked for the staging of the batch (d3d12_videocore_bridge.cpp:136).
AccountingExact ==
    /\ live_bytes = Charge(batch.staging \cup {call.obj, frame})
    /\ live_bytes <= Budget
    /\ batch.staged = Bytes(batch.staging) /\ batch.staged <= MaxTransfer

BaseInv == TypeOK /\ CallAgrees /\ EncoderAgrees /\ TicketsAgree /\ OneOwner /\ AccountingExact

InFlight == {queue[i] : i \in {j \in 1 .. Len(queue) : ~removed}}
Uses(cmds) == {o \in Objects : \E i \in 1 .. Len(cmds) : o \in {cmds[i].dst, cmds[i].src}}

\* The command allocator is never reset while the GPU may still execute the
\* commands in it: while a list is open, no submission of the bridge is in
\* flight (d3d12_videocore_bridge.cpp:90-100).
AllocatorNotRecycled ==
    batch.list = "open" => \A e \in InFlight : e.cmds = <<>>

\* A resource a submitted list still uses has an owner: uploads, images and
\* readback buffers outlive the GPU's use of them through every failure of the
\* allocator, a reset, Close, Signal, a wait or the device, except where the code
\* gives a list up.  It does so in two places, and abandoned names their lists:
\* DownloadBuffer, when its second wait throws with the copy still in flight
\* (d3d12_videocore_bridge.cpp:199), against d3d12_command_encoder.h:26, and the
\* destructor, for a list Signal left without a ticket
\* (d3d12_device_context.cpp:60) and for every list when its own wait throws
\* (d3d12_videocore_bridge.cpp:20-28).  The command allocator is never recycled
\* under a list, given up or not.
NoUseAfterRelease ==
    /\ \A e \in InFlight : e.ticket \in abandoned \/ Uses(e.cmds) \subseteq Held
    /\ AllocatorNotRecycled

\* No list is given up before it is submitted: tickets are handed out once, so
\* what a failed download gives up exempts no later list, and a list without a
\* ticket is exempt only from the destructor on.
AbandonedAgrees ==
    /\ abandoned \subseteq 0 .. last_ticket
    /\ 0 \in abandoned => call.op = "gone"

\* Who keeps what a list uses: staging_ and pending_images_ before it is
\* submitted, with the encoder's references or the download's readback buffer
\* after that.
Keepers == batch.staging \cup batch.pending \cup batch.tracked
               \cup (IF call.op = "read" THEN {call.obj} ELSE {})
UsesOwned ==
    /\ batch.list = "open" => Uses(batch.cmds) \subseteq batch.staging \cup batch.pending
    /\ \A e \in InFlight :
          \/ e.ticket \in abandoned
          \/ IF call.op = "gone" THEN e.cmds = <<>> ELSE Uses(e.cmds) \subseteq Keepers

\* The inductive invariant: calls, recording, tickets, owners and charges agree,
\* so that nothing in flight loses what it uses unless it was given up
\* (D3D12VideoCoreBridge, D3D12DeviceContext and D3D12ResourceAllocator).
IInv == BaseInv /\ UsesOwned /\ AllocatorNotRecycled /\ AbandonedAgrees

\* Device memory once everything in flight and everything recorded has run.
Eventual == ExecuteAll(vram, FlattenSeq([i \in 1 .. Len(queue) |-> queue[i].cmds]) \o batch.cmds)
EventualWords ==
    LET mem == Eventual IN
    [a \in Addresses |-> IF call.op # "gone" /\ \E r \in Resources : Covers(r, a, 1)
                         THEN mem[Buffer(a, 1)][Offset(a, 1)]
                         ELSE 0]

\* The transfer the client is waiting for.
CurrentRequest ==
    CASE call.op = "record" /\ call.req.kind \in {"fill", "copy"} -> call.req
      [] call.op \in {"download", "readback", "read"} ->
             [kind |-> "download", a |-> call.a, n |-> call.n]
      [] call.op = "gone" -> [kind |-> "closed"]
      [] OTHER -> [kind |-> "none"]

\* Batching is invisible: with the words of an address read from device memory
\* after all submitted and recorded work, fills, copies and downloads happen one
\* at a time, in call order, whole or not at all, and a download delivers what
\* was written before it - whatever was queued, retired, recycled or had failed
\* in the meantime.
Transfers == INSTANCE GuestTransfers WITH
                 words <- EventualWords, request <- CurrentRequest
BatchingIsInvisible == Transfers!Spec

\* A call that waits for the GPU returns or throws: its ticket is always one the
\* fence reaches, even after a failed signal or the removal of the device.
CallReturns == (call.op \notin {"idle", "gone"}) ~> (call.op \in {"idle", "gone"})
=============================================================================
