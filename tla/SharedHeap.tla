----------------------------- MODULE SharedHeap -----------------------------
(***************************************************************************)
(* The shared heap and the lockable buffers that use it.  The client       *)
(* allocates runs of chunks; an upload copies the locked range into a      *)
(* snapshot of its own, sends it and sends the snapshot's deallocation     *)
(* behind it.  Only the server, which executes the commands in order,      *)
(* marks a first chunk Deallocated, and only then may the client, when it  *)
(* runs out of space, take the chunks back.                                *)
(***************************************************************************)
EXTENDS Integers, SequencesExt

CONSTANTS
  Buffer,         \* lockable buffers, created and destroyed by the game
  Size,           \* Size[b]: chunks of buffer b
  DefaultSegment, \* sharedHeapDefaultSegmentSize, in chunks
  HeapLimit,      \* kMax32BitHeapSize, in chunks
  QueueCap,       \* commands on the way
  MaxLocks,       \* bound on nested locks of a buffer
  MaxUid          \* bound on the allocations made

ASSUME HeapAssumption ==
  /\ Size \in [Buffer -> Nat \ {0}]
  /\ {DefaultSegment, HeapLimit, QueueCap, MaxLocks, MaxUid} \subseteq Nat \ {0}

Chunk == 0 .. HeapLimit - 1
Value == 0 .. 1   \* what a chunk may hold
InvalidId == -1
NoCall == [kind |-> "none"]

VARIABLES
  segments,       \* the client's m_segments: [base, chunks] each
  defaultSegment, \* the client's m_defaultSegmentSize
  cache,          \* the client's m_cache: id -> first chunk
  allocations,    \* m_allocations: first chunk -> final chunk
  nextUid,        \* m_nextUid
  chunkState,     \* the shared states of chunks
  memory,         \* the shared contents of chunks
  channel,        \* commands sent and not executed
  serverSegments, \* the server's m_segments
  serverCache,    \* the server's m_cache
  bufferId,       \* m_bufferId of each buffer
  lockInfos,      \* m_lockInfos of each buffer
  at,             \* where the client's thread is
  call,           \* what its call works on
  retries, growthAttempted,   \* of findAllocation
  found           \* the allocation found

heap == <<segments, defaultSegment, cache, allocations, nextUid>>
shared == <<chunkState, memory>>
server == <<serverSegments, serverCache>>
buffers == <<bufferId, lockInfos>>
search == <<retries, growthAttempted, found>>
vars == <<heap, shared, channel, server, buffers, at, call, search>>

-----------------------------------------------------------------------------
(* Chunks and allocations *)

End(segs) == IF segs = <<>> THEN 0 ELSE Last(segs).base + Last(segs).chunks
Added(segs, n) == Append(segs, [base |-> End(segs), chunks |-> n])
TakenFirst == DOMAIN allocations
Taken == UNION {f .. allocations[f] : f \in DOMAIN allocations}
ChunksOf(id) == cache[id] .. allocations[cache[id]]

\* findSharedHeapAllocation: the first run of n free chunks within one segment.
AnySegments(c, n) == c + n <= End(segments)
OneSegment(c, n) ==
  \E k \in DOMAIN segments :
    segments[k].base <= c /\ c + n <= segments[k].base + segments[k].chunks
Fits(n) == {c \in Chunk : OneSegment(c, n) /\ (c .. c + n - 1) \cap Taken = {}}

\* The maps m_cache and m_allocations: a key is set, keys are erased.
With(f, key, v) == [x \in DOMAIN f \union {key} |-> IF x = key THEN v ELSE f[x]]
Without(f, dom) == [x \in DOMAIN f \ dom |-> f[x]]

Send(msg) == Len(channel) < QueueCap /\ channel' = Append(channel, msg)

Goes(from, to) == at = from /\ at' = to

-----------------------------------------------------------------------------
(* The game: LockableBuffer *)

\* The game writes through a pointer that a lock gave it, before and after other uploads.
GameWrites(b) ==
  /\ at = "idle"
  /\ \E k \in DOMAIN lockInfos[b], v \in Value :
       \E c \in ChunksOf(lockInfos[b][k].buffer) :
         /\ memory[c] # v
         /\ memory' = [memory EXCEPT ![c] = v]
  /\ UNCHANGED <<heap, chunkState, channel, server, buffers, at, call, search>>

\* lock: a discard, or the first lock, allocates.
Lock(b, discard) ==
  /\ at = "idle" /\ Len(lockInfos[b]) < MaxLocks
  /\ IF discard \/ bufferId[b] = InvalidId
     THEN /\ nextUid < MaxUid
          /\ at' = "allocate"
          /\ call' = [kind |-> "lock", buffer |-> b, chunks |-> Size[b], old |-> bufferId[b], offset |-> 0]
          /\ UNCHANGED lockInfos
     ELSE /\ lockInfos' = [lockInfos EXCEPT ![b] =
                             Append(@, [buffer |-> bufferId[b], discarded |-> InvalidId])]
          /\ UNCHANGED <<at, call>>
  /\ UNCHANGED <<heap, shared, channel, server, bufferId, search>>

\* unlock: the buffer that this lock discarded is retired; unless the lock only
\* read, the locked chunks are uploaded from a snapshot.
Unlock(b) ==
  /\ at = "idle" /\ lockInfos[b] # <<>>
  /\ lockInfos' = [lockInfos EXCEPT ![b] = Tail(@)]
  /\ LET lock == Head(lockInfos[b]) IN
     /\ IF lock.discarded = InvalidId THEN UNCHANGED channel
        ELSE Send([kind |-> "Dealloc", id |-> lock.discarded])
     /\ \/ UNCHANGED <<at, call>>
        \/ \E offset \in 0 .. Size[b] - 1 : \E n \in 1 .. Size[b] - offset :
             /\ nextUid < MaxUid
             /\ at' = "allocate"
             /\ call' = [kind |-> "snapshot", buffer |-> b, chunks |-> n, old |-> lock.buffer, offset |-> offset]
  /\ UNCHANGED <<heap, shared, server, bufferId, search>>

\* ~LockableBuffer; the pending locks go with the buffer.
Destroy(b) ==
  /\ at = "idle" /\ bufferId[b] # InvalidId
  /\ Send([kind |-> "Dealloc", id |-> bufferId[b]])
  /\ bufferId' = [bufferId EXCEPT ![b] = InvalidId]
  /\ lockInfos' = [lockInfos EXCEPT ![b] = <<>>]
  /\ UNCHANGED <<heap, shared, server, at, call, search>>

-----------------------------------------------------------------------------
(* The client's allocate, inside a lock or an unlock *)

\* One search; when it finds nothing the call goes on at another step.
Find(otherwise) ==
  IF Fits(call.chunks) = {} THEN at' = otherwise /\ UNCHANGED found
  ELSE at' = "announce" /\ found' = Min(Fits(call.chunks))

\* The default size of a segment grows with the request; the first search frees nothing.
Doubled(n) == Min({m \in {defaultSegment * 2 ^ k : k \in 0 .. n} : m >= n})
Allocate ==
  /\ at = "allocate"
  /\ defaultSegment' = Doubled(call.chunks)
  /\ Find("free")
  /\ retries' = 0 /\ growthAttempted' = FALSE
  /\ UNCHANGED <<segments, cache, allocations, nextUid, shared, channel, server, buffers, call>>

\* freeDeallocations: what the server has retired is free again.
AskedFor == {id \in DOMAIN cache : [kind |-> "Dealloc", id |-> id] \in ToSet(channel)}
AlreadyFree == {id \in DOMAIN cache : chunkState[cache[id]] = "Unallocated"}
Retired == {id \in DOMAIN cache : chunkState[cache[id]] = "Deallocated"}
FreeDeallocations ==
  LET chunks == {cache[id] : id \in Retired} IN
  /\ at = "free" /\ at' = "find"
  /\ cache' = Without(cache, Retired)
  /\ allocations' = Without(allocations, chunks)
  /\ chunkState' = [c \in Chunk |-> IF c \in chunks THEN "Unallocated" ELSE chunkState[c]]
  /\ UNCHANGED <<segments, defaultSegment, nextUid, memory, channel, server, buffers, call, search>>

FindAgain ==
  /\ at = "find"
  /\ Find(IF ~growthAttempted /\ retries >= 2 /\ End(segments) < HeapLimit THEN "grow" ELSE "wait")
  /\ UNCHANGED <<heap, shared, channel, server, buffers, call, retries, growthAttempted>>

\* addNewHeapSegment halves the size until the system grants it, or gives up;
\* the search after a failure is the next round's.
UnlimitedSizes == {defaultSegment \div 2 ^ k : k \in 0 .. HeapLimit} \ {0}
SegmentSizes == {Min({HeapLimit - End(segments), defaultSegment}) \div 2 ^ k : k \in 0 .. HeapLimit} \ {0}
Grow ==
  /\ at = "grow" /\ growthAttempted' = TRUE
  /\ \/ at' = "wait" /\ UNCHANGED <<segments, channel>>
     \/ \E n \in SegmentSizes :
          /\ Send([kind |-> "AddSeg", chunks |-> n])
          /\ segments' = Added(segments, n)
          /\ at' = "search"
  /\ UNCHANGED <<defaultSegment, cache, allocations, nextUid, shared, server, buffers, call, retries, found>>

FindInNew ==
  /\ at = "search" /\ Find("wait")
  /\ UNCHANGED <<heap, shared, channel, server, buffers, call, retries, growthAttempted>>

\* Bound of the model: retries are counted up to the one that may grow the heap.
Again ==
  /\ Goes("wait", "free")
  /\ retries' = Min({retries + 1, 2})
  /\ UNCHANGED <<heap, shared, channel, server, buffers, call, growthAttempted, found>>

\* The time limit: a lock loses its buffer, an unlock its upload.
TimesOut ==
  /\ Goes("wait", "idle")
  /\ bufferId' = IF call.kind = "lock" THEN [bufferId EXCEPT ![call.buffer] = InvalidId] ELSE bufferId
  /\ call' = NoCall
  /\ UNCHANGED <<heap, shared, channel, server, lockInfos, search>>

Announce ==
  /\ Goes("announce", "mark")
  /\ nextUid' = nextUid + 1
  /\ cache' = With(cache, nextUid, found)
  /\ allocations' = With(allocations, found, found + call.chunks - 1)
  /\ Send([kind |-> "Alloc", id |-> nextUid, first |-> found])
  /\ UNCHANGED <<segments, defaultSegment, shared, server, buffers, call, search>>

\* The chunk is marked, and the caller has its memory: a lock hands it to the game,
\* an unlock copies the locked range into it.
Mark ==
  /\ at = "mark"
  /\ chunkState' = [chunkState EXCEPT ![found] = "Allocated"]
  /\ LET b == call.buffer
         id == nextUid - 1
         copied == cache[call.old] + call.offset
     IN \/ /\ call.kind = "lock" /\ at' = "idle" /\ call' = NoCall
           /\ bufferId' = [bufferId EXCEPT ![b] = id]
           /\ lockInfos' = [lockInfos EXCEPT ![b] = Append(@, [buffer |-> id, discarded |-> call.old])]
           /\ UNCHANGED memory
        \/ /\ call.kind = "snapshot" /\ at' = "upload" /\ UNCHANGED <<call, buffers>>
           /\ memory' = [c \in Chunk |-> IF c \in ChunksOf(id) THEN memory[copied + c - found] ELSE memory[c]]
  /\ UNCHANGED <<heap, channel, server, search>>

\* The rest of unlock.  data is what the locked range held (history).
Upload ==
  /\ Goes("upload", "retire")
  /\ LET copied == cache[call.old] + call.offset IN
       Send([kind |-> "Unlock", id |-> nextUid - 1,
             data |-> [k \in 0 .. call.chunks - 1 |-> memory[copied + k]]])
  /\ UNCHANGED <<heap, shared, server, buffers, call, search>>

RetireSnapshot ==
  /\ Goes("retire", "idle")
  /\ Send([kind |-> "Dealloc", id |-> nextUid - 1])
  /\ call' = NoCall
  /\ UNCHANGED <<heap, shared, server, buffers, search>>

InCall ==
  Allocate \/ FreeDeallocations \/ FindAgain \/ Grow \/ FindInNew \/ Again \/ TimesOut
    \/ Announce \/ Mark \/ Upload \/ RetireSnapshot

-----------------------------------------------------------------------------
(* The server: its commands in order *)

Executes(kind) == channel # <<>> /\ Head(channel).kind = kind /\ channel' = Tail(channel)

ServerAddSeg ==
  /\ Executes("AddSeg")
  /\ serverSegments' = Added(serverSegments, Head(channel).chunks)
  /\ UNCHANGED <<heap, shared, serverCache, buffers, at, call, search>>

ServerAlloc ==
  /\ Executes("Alloc")
  /\ serverCache' = With(serverCache, Head(channel).id, Head(channel).first)
  /\ UNCHANGED <<heap, shared, serverSegments, buffers, at, call, search>>

\* What the upload reads (UploadsKept): the chunks of its snapshot.
ServerUnlock ==
  /\ Executes("Unlock")
  /\ UNCHANGED <<heap, shared, server, buffers, at, call, search>>

ServerDealloc ==
  /\ Executes("Dealloc")
  /\ chunkState' = [chunkState EXCEPT ![serverCache[Head(channel).id]] = "Deallocated"]
  /\ serverCache' = Without(serverCache, {Head(channel).id})
  /\ UNCHANGED <<heap, memory, serverSegments, buffers, at, call, search>>

Server == ServerAddSeg \/ ServerAlloc \/ ServerUnlock \/ ServerDealloc

-----------------------------------------------------------------------------
\* The constructor's addNewHeapSegment.
FirstSegment == IF HeapLimit < DefaultSegment THEN HeapLimit ELSE DefaultSegment

Init ==
  /\ segments = Added(<<>>, FirstSegment)
  /\ defaultSegment = DefaultSegment
  /\ cache = <<>> /\ allocations = <<>> /\ nextUid = 0
  /\ chunkState = [c \in Chunk |-> "Unallocated"]
  /\ memory = [c \in Chunk |-> 0]
  /\ channel = <<[kind |-> "AddSeg", chunks |-> FirstSegment]>>
  /\ serverSegments = <<>> /\ serverCache = <<>>
  /\ bufferId = [b \in Buffer |-> InvalidId] /\ lockInfos = [b \in Buffer |-> <<>>]
  /\ at = "idle" /\ call = NoCall
  /\ retries = 0 /\ growthAttempted = FALSE /\ found = 0

Next ==
  \/ \E b \in Buffer : GameWrites(b) \/ Unlock(b) \/ Destroy(b) \/ \E discard \in BOOLEAN : Lock(b, discard)
  \/ InCall
  \/ Server
Spec == Init /\ [][Next]_vars

\* The server executes commands, and a call that is under way goes on.
FairSpec == Spec /\ WF_vars(Server) /\ WF_vars(InCall)

-----------------------------------------------------------------------------
(* Properties *)

Locked(b) == {lockInfos[b][k].buffer : k \in DOMAIN lockInfos[b]}
Held ==
  ((UNION {Locked(b) \union {bufferId[b]} : b \in Buffer}) \ {InvalidId})
    \union (IF call.kind = "snapshot" THEN {call.old} ELSE {})

\* The heap's segments, the commands on the way, the locks and the calls.
Id == Nat \union {InvalidId}
Segment == [base : Nat, chunks : Nat \ {0}]
Data == UNION {[0 .. n - 1 -> Value] : n \in 1 .. HeapLimit}
Command ==
  [kind : {"AddSeg"}, chunks : Nat \ {0}] \union [kind : {"Alloc"}, id : Nat, first : Chunk]
    \union [kind : {"Unlock"}, id : Nat, data : Data] \union [kind : {"Dealloc"}, id : Nat]
LockInfo == [buffer : Nat, discarded : Id]
Calls == [kind : {"lock", "snapshot"}, buffer : Buffer, chunks : Nat \ {0}, old : Id, offset : Nat]
Searching == {"allocate", "free", "find", "grow", "search", "wait"}

\* Every variable has its type: the segments lie within the heap and the server's
\* are the first of the client's, chunks lie within the heap, the buffers' ids are
\* those of allocations, an upload is no longer than the heap, and a call is under
\* way exactly where the client's thread is inside one.
TypeOK ==
  /\ segments \in Seq(Segment) /\ End(segments) <= HeapLimit /\ defaultSegment \in Nat \ {0}
  /\ serverSegments \in Seq(Segment) /\ IsPrefix(serverSegments, segments)
  /\ nextUid \in Nat /\ DOMAIN cache \subseteq 0 .. nextUid - 1 /\ cache \in [DOMAIN cache -> Chunk]
  /\ DOMAIN allocations \subseteq Chunk /\ allocations \in [DOMAIN allocations -> Chunk]
  /\ chunkState \in [Chunk -> {"Unallocated", "Allocated", "Deallocated"}]
  /\ memory \in [Chunk -> Value]
  /\ channel \in Seq(Command)
  /\ DOMAIN serverCache \subseteq DOMAIN cache /\ serverCache \in [DOMAIN serverCache -> Chunk]
  /\ bufferId \in [Buffer -> {InvalidId} \union DOMAIN cache]
  /\ lockInfos \in [Buffer -> Seq(LockInfo)]
  /\ at \in Searching \union {"idle", "announce", "mark", "upload", "retire"}
  /\ IF at = "idle" THEN call = NoCall ELSE call \in Calls
  /\ retries \in 0 .. 2 /\ growthAttempted \in BOOLEAN /\ found \in Chunk

\* "The game may write the shared buffer again before the server reads it": an
\* upload on the way still finds in its snapshot what the locked range held.
UploadsKept ==
  \A k \in DOMAIN channel :
    LET c == channel[k] IN
      c.kind = "Unlock" =>
        /\ c.id \in DOMAIN cache
        /\ \A j \in DOMAIN c.data : memory[cache[c.id] + j] = c.data[j]

\* "Only the server's retirement state permits pending upload storage to be
\* reused": no two allocations share a chunk, and no pointer the game still has
\* leads to memory that is, or is about to be, given back.
HeldMemoryIsOwn ==
  /\ \A i, j \in DOMAIN cache : i # j => ChunksOf(i) \cap ChunksOf(j) = {}
  /\ \A id \in Held :
       /\ id \in DOMAIN cache /\ chunkState[cache[id]] = "Allocated"
       /\ [kind |-> "Dealloc", id |-> id] \notin ToSet(channel)

\* The assertions of both sides: the server knows the id it must read or
\* retire, by the client's chunk, in a state and a segment that allow it, and
\* the client marks only free chunks.
AssertionsHold ==
  /\ at = "mark" => chunkState[found] = "Unallocated"
  /\ channel # <<>> /\ Head(channel).kind \in {"Unlock", "Dealloc"} =>
       LET id == Head(channel).id IN
       /\ id \in DOMAIN serverCache \intersect DOMAIN cache
       /\ serverCache[id] = cache[id] /\ chunkState[cache[id]] = "Allocated"
       /\ \E k \in DOMAIN serverSegments :
            ChunksOf(id) \subseteq
              serverSegments[k].base .. serverSegments[k].base + serverSegments[k].chunks - 1

\* A call does not wait for ever, even without its time limit: it returns, unless
\* what is neither retired nor about to be leaves no room for it.
Kept ==
  {id \in DOMAIN cache : /\ chunkState[cache[id]] # "Deallocated"
                         /\ [kind |-> "Dealloc", id |-> id] \notin ToSet(channel)}
Full ==
  \A c \in Chunk :
    OneSegment(c, call.chunks) => (c .. c + call.chunks - 1) \cap UNION {ChunksOf(id) : id \in Kept} # {}
CallsReturn == (at # "idle") ~> (at = "idle" \/ (at = "wait" /\ Full))
=============================================================================
