--------------------------- MODULE GuestTransfers ---------------------------
(***************************************************************************)
(* What a client of VideoCore::GpuCommandSink may rely on when it moves    *)
(* buffer data (d3d12_videocore_bridge.h): a fill or a copy takes effect   *)
(* at once and as a whole or not at all, in program order, and a download  *)
(* that returns delivers the words at that moment.  Nothing here knows of  *)
(* batches, command lists, tickets or staging.                             *)
(***************************************************************************)
EXTENDS Integers, Sequences

CONSTANTS Addresses,    \* GPU addresses (identifiers, never dereferenced)
          Values,       \* contents of a 32-bit word; 0 is the initial one
          Sizes         \* lengths of a transfer, in words

VARIABLES words,        \* the contents of every address
          downloaded,   \* what the last successful download delivered
          request       \* the transfer in progress

vars == <<request, downloaded, words>>

None == [kind |-> "none"]
Closed == [kind |-> "closed"]
Requests == [kind : {"fill"}, a : Addresses, n : Sizes, v : Values]
            \cup [kind : {"copy"}, d : Addresses, s : Addresses, n : Sizes]
            \cup [kind : {"download"}, a : Addresses, n : Sizes]

Init == /\ words = [a \in Addresses |-> 0]
        /\ downloaded = <<>>
        /\ request = None

Ask == /\ request = None
       /\ request' \in Requests
       /\ UNCHANGED <<words, downloaded>>

\* Memory w with n words from address a on replaced by f(a), f(a + 1), ...
Replace(w, a, n, f(_)) ==
    [x \in Addresses |-> IF x \in a .. a + n - 1 THEN f(x) ELSE w[x]]

Fill == /\ request.kind = "fill" /\ request' = None
        /\ words' = Replace(words, request.a, request.n, LAMBDA x : request.v)
        /\ UNCHANGED downloaded

Copy == /\ request.kind = "copy" /\ request' = None
        /\ words' = Replace(words, request.d, request.n,
                            LAMBDA x : words[x - request.d + request.s])
        /\ UNCHANGED downloaded

Download == /\ request.kind = "download" /\ request' = None
            /\ downloaded' = [i \in 1 .. request.n |-> words[request.a + i - 1]]
            /\ UNCHANGED words

\* A transfer may fail, and then leaves no trace.
Fail == /\ request \notin {None, Closed} /\ request' = None
        /\ UNCHANGED <<words, downloaded>>

\* Destroying the sink discards what it recorded; its addresses lose meaning.
Destroy == /\ request = None /\ request' = Closed
           /\ words' = [a \in Addresses |-> 0]
           /\ UNCHANGED downloaded

Next == Ask \/ Fill \/ Copy \/ Download \/ Fail \/ Destroy

Spec == Init /\ [][Next]_vars
=============================================================================
