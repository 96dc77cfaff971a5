-------------------------- MODULE SharedHeapProofs --------------------------
(***************************************************************************)
(* The safety of the shared heap, for every set of buffers and their       *)
(* sizes, every limit and default segment, every queue size and every      *)
(* number of locks and allocations: no upload is overwritten before the    *)
(* server reads it, no memory in use is given back, no assertion fails.    *)
(***************************************************************************)
EXTENDS SharedHeap, SequenceTheorems, NaturalsInduction, FiniteSetTheorems, WellFoundedInduction, TLAPS

-----------------------------------------------------------------------------
(* The inductive invariant *)

\* The k-th command on the way is of this kind, about this allocation.
About == {"Alloc", "Unlock", "Dealloc"}
Msg(k, kind, id) ==
  k \in 1 .. Len(channel) /\ channel[k].kind = kind /\ channel[k].id = id

\* Allocations have their runs of chunks, and share none.
Runs ==
  /\ nextUid \in Nat /\ DOMAIN cache \subseteq 0 .. nextUid - 1
  /\ cache \in [DOMAIN cache -> Chunk]
  /\ allocations \in [DOMAIN allocations -> Chunk]
  /\ DOMAIN allocations = {cache[id] : id \in DOMAIN cache}
  /\ \A id \in DOMAIN cache : cache[id] <= allocations[cache[id]]
  /\ \A i, j \in DOMAIN cache : i # j => ChunksOf(i) \cap ChunksOf(j) = {}

\* A command is about an allocation that lives until it is executed.
Ordered ==
  /\ channel \in Seq(Command)
  /\ \A k, id \in Nat : Msg(k, "Alloc", id) =>
       /\ id \in DOMAIN cache /\ channel[k].first = cache[id]
       /\ id \notin DOMAIN serverCache /\ chunkState[cache[id]] # "Deallocated"
       /\ \A j \in Nat : Msg(j, "Alloc", id) => j = k
  /\ \A k, id \in Nat : Msg(k, "Unlock", id) \/ Msg(k, "Dealloc", id) =>
       /\ id \in DOMAIN cache /\ chunkState[cache[id]] = "Allocated"
       /\ id \in DOMAIN serverCache \/ \E j \in Nat : j < k /\ Msg(j, "Alloc", id)
  /\ \A k, id \in Nat : Msg(k, "Dealloc", id) =>
       \A j \in Nat, kind \in About : Msg(j, kind, id) => j <= k

\* The server knows what is not retired, or will; the states are those of
\* allocations, and the newest alone may have no state yet.
Known ==
  /\ chunkState \in [Chunk -> {"Unallocated", "Allocated", "Deallocated"}]
  /\ serverCache \in [DOMAIN serverCache -> Chunk]
  /\ \A id \in DOMAIN serverCache :
       id \in DOMAIN cache /\ serverCache[id] = cache[id] /\ chunkState[cache[id]] # "Deallocated"
  /\ \A id \in DOMAIN cache : chunkState[cache[id]] # "Deallocated" =>
       id \in DOMAIN serverCache \/ \E k \in Nat : Msg(k, "Alloc", id)
  /\ \A c \in Chunk : chunkState[c] # "Unallocated" => c \in DOMAIN allocations
  /\ \A id \in DOMAIN cache : chunkState[cache[id]] = "Unallocated" => at = "mark" /\ id = nextUid - 1

\* The allocation lies within one of the first n segments.
Inside(id, n) ==
  \E s \in 1 .. Len(segments) :
    /\ s <= n
    /\ segments[s].base <= cache[id] /\ allocations[cache[id]] < segments[s].base + segments[s].chunks

\* When it executes the k-th command on the way the server has reached[k] segments.
Reaches(reached) ==
  /\ reached \in [1 .. Len(channel) + 1 -> Nat]
  /\ reached[1] = Len(serverSegments) /\ reached[Len(channel) + 1] = Len(segments)
  /\ \A k \in 1 .. Len(channel) :
       IF channel[k].kind = "AddSeg"
       THEN /\ reached[k + 1] = reached[k] + 1 /\ reached[k + 1] <= Len(segments)
            /\ channel[k].chunks = segments[reached[k + 1]].chunks
       ELSE reached[k + 1] = reached[k]
  /\ \A k, id \in Nat : Msg(k, "Alloc", id) => Inside(id, reached[k])

\* The segments follow one another, and the server's are the first ones.
Segments ==
  /\ segments \in Seq(Segment) /\ serverSegments \in Seq(Segment)
  /\ defaultSegment \in Nat \ {0}
  /\ Len(serverSegments) <= Len(segments)
  /\ \A k \in 1 .. Len(serverSegments) : serverSegments[k] = segments[k]
  /\ \A k \in 1 .. Len(segments) :
       /\ segments[k].base = IF k = 1 THEN 0 ELSE segments[k - 1].base + segments[k - 1].chunks
       /\ segments[k].base + segments[k].chunks <= HeapLimit
  /\ \A id \in DOMAIN serverCache : Inside(id, Len(serverSegments))
TheSegments == \E reached \in [1 .. Len(channel) + 1 -> Nat] : Reaches(reached)

\* The ids a buffer has: its own, those of its locks, and those they will retire.
Uses(b, id) ==
  /\ id # InvalidId
  /\ \/ id = bufferId[b]
     \/ \E k \in 1 .. Len(lockInfos[b]) : id \in {lockInfos[b][k].buffer, lockInfos[b][k].discarded}

\* The allocation is in use, and its retirement is not on the way.
Alive(id) ==
  id \in DOMAIN cache /\ chunkState[cache[id]] = "Allocated" /\ \A k \in Nat : ~ Msg(k, "Dealloc", id)
Chunks(id, n) == allocations[cache[id]] = cache[id] + n - 1

\* What a lock discarded is neither the buffer's nor a later lock's, nor discarded twice.
Separate(b) ==
  \A k \in 1 .. Len(lockInfos[b]) : lockInfos[b][k].discarded # InvalidId =>
    /\ lockInfos[b][k].discarded # bufferId[b]
    /\ \A j \in 1 .. Len(lockInfos[b]) :
         /\ j >= k => lockInfos[b][j].buffer # lockInfos[b][k].discarded
         /\ j # k => lockInfos[b][j].discarded # lockInfos[b][k].discarded

\* Each buffer has allocations of its own, and retires each once, after its locks.
Owners ==
  /\ bufferId \in [Buffer -> Id] /\ lockInfos \in [Buffer -> Seq(LockInfo)]
  /\ \A b \in Buffer, id \in Nat : Uses(b, id) =>
       /\ Alive(id) /\ Chunks(id, Size[b])
       /\ \A k \in Nat : ~ Msg(k, "Unlock", id)
       /\ \A c \in Buffer : Uses(c, id) => b = c
  /\ \A b \in Buffer : Separate(b)

\* The call under way: what it asks for, and the allocation it has made.
Called ==
  /\ at \in Searching \union {"idle", "announce", "mark", "upload", "retire"}
  /\ IF at = "idle" THEN call = NoCall ELSE call \in Calls
  /\ retries \in 0 .. 2 /\ growthAttempted \in BOOLEAN /\ found \in Chunk
  /\ call.kind = "lock" =>
       /\ at \notin {"upload", "retire"}
       /\ call.old = bufferId[call.buffer] /\ call.chunks = Size[call.buffer]
  /\ call.kind = "snapshot" =>
       /\ call.old \in Nat /\ Alive(call.old) /\ Chunks(call.old, Size[call.buffer])
       /\ call.offset + call.chunks <= Size[call.buffer]
Made ==
  /\ at = "announce" => found \in Fits(call.chunks)
  /\ at \in {"mark", "upload", "retire"} =>
       /\ nextUid - 1 \in DOMAIN cache /\ cache[nextUid - 1] = found
       /\ Chunks(nextUid - 1, call.chunks) /\ call.old # nextUid - 1
       /\ \A b \in Buffer : ~ Uses(b, nextUid - 1)
       /\ \A k \in Nat : ~ Msg(k, "Dealloc", nextUid - 1)
       /\ chunkState[found] = IF at = "mark" THEN "Unallocated" ELSE "Allocated"

\* An upload on the way has its data in its own run, and so has the one in progress.
Copied(c) == memory[cache[call.old] + call.offset + c]
Uploaded ==
  /\ memory \in [Chunk -> Value]
  /\ \A k, id \in Nat : Msg(k, "Unlock", id) => \A c \in DOMAIN channel[k].data :
       cache[id] + c \in ChunksOf(id) /\ memory[cache[id] + c] = channel[k].data[c]
  /\ at = "upload" => \A c \in 0 .. call.chunks - 1 : memory[found + c] = Copied(c)

IndInv ==
  /\ Runs /\ Ordered /\ Known /\ Segments /\ TheSegments /\ Owners /\ Called /\ Made /\ Uploaded
-----------------------------------------------------------------------------
(* The channel *)

\* What a command sent changes on the way.
LEMMA SendFacts ==
  ASSUME channel \in Seq(Command), NEW msg \in Command, channel' = Append(channel, msg)
  PROVE  /\ channel' \in Seq(Command) /\ Len(channel) \in Nat /\ Len(channel') = Len(channel) + 1
         /\ \A k \in 1 .. Len(channel) : channel'[k] = channel[k]
         /\ channel'[Len(channel) + 1] = msg
         /\ \A k \in Nat : \A kind, id :
              Msg(k, kind, id)' <=> \/ Msg(k, kind, id)
                                    \/ k = Len(channel) + 1 /\ msg.kind = kind /\ msg.id = id
<1>1. /\ channel' \in Seq(Command) /\ Len(channel) \in Nat /\ Len(channel') = Len(channel) + 1
      /\ \A k \in 1 .. Len(channel) : channel'[k] = channel[k]
      /\ channel'[Len(channel) + 1] = msg
  OBVIOUS
<1>2. ASSUME NEW k \in Nat, NEW kind, NEW id
      PROVE Msg(k, kind, id)' <=> \/ Msg(k, kind, id)
                                  \/ k = Len(channel) + 1 /\ msg.kind = kind /\ msg.id = id
  <2>1. CASE k \in 1 .. Len(channel)
    BY <2>1, <1>1 DEF Msg
  <2>2. CASE k = Len(channel) + 1
    BY <2>2, <1>1 DEF Msg
  <2>3. CASE k \notin 1 .. Len(channel) + 1
    BY <2>3, <1>1 DEF Msg
  <2> QED
    BY <2>1, <2>2, <2>3, <1>1
<1> QED
  BY <1>1, <1>2

\* What a command executed changes on the way.
LEMMA TakeFacts ==
  ASSUME channel \in Seq(Command), channel # <<>>, channel' = Tail(channel)
  PROVE  /\ channel' \in Seq(Command) /\ Len(channel) \in Nat /\ Len(channel) >= 1
         /\ Len(channel') = Len(channel) - 1
         /\ Head(channel) = channel[1] /\ channel[1] \in Command
         /\ \A k \in 1 .. Len(channel') : channel'[k] = channel[k + 1]
         /\ \A k \in Nat : \A kind, id : Msg(k, kind, id)' <=> k >= 1 /\ Msg(k + 1, kind, id)
<1>1. /\ channel' \in Seq(Command) /\ Len(channel) \in Nat /\ Len(channel) >= 1
      /\ Len(channel') = Len(channel) - 1
      /\ Head(channel) = channel[1] /\ channel[1] \in Command
      /\ \A k \in 1 .. Len(channel') : channel'[k] = channel[k + 1]
  OBVIOUS
<1>2. ASSUME NEW k \in Nat, NEW kind, NEW id
      PROVE Msg(k, kind, id)' <=> k >= 1 /\ Msg(k + 1, kind, id)
  BY <1>1 DEF Msg
<1> QED
  BY <1>1, <1>2

-----------------------------------------------------------------------------
(* Allocations *)

\* A run that was found is free, within the heap and within a segment.
LEMMA FitsFacts ==
  ASSUME Runs, Known, Segments, NEW n \in Nat \ {0}, NEW c \in Fits(n)
  PROVE  /\ c \in Chunk /\ c + n - 1 \in Chunk /\ c \notin DOMAIN allocations
         /\ \A id \in DOMAIN cache : (c .. c + n - 1) \cap ChunksOf(id) = {}
         /\ chunkState[c] = "Unallocated"
         /\ \E s \in 1 .. Len(segments) :
              segments[s].base <= c /\ c + n - 1 < segments[s].base + segments[s].chunks
<1>1. c \in Chunk /\ OneSegment(c, n) /\ (c .. c + n - 1) \cap Taken = {}
  BY DEF Fits
<1>2. HeapLimit \in Nat
  BY HeapAssumption
<1>3. c \in Nat /\ c <= HeapLimit - 1
  BY <1>1, <1>2 DEF Chunk
<1>4. PICK s \in 1 .. Len(segments) : segments[s].base <= c /\ c + n <= segments[s].base + segments[s].chunks
  BY <1>1 DEF OneSegment, Segments
<1>5. /\ segments[s].base \in Nat /\ segments[s].chunks \in Nat
      /\ segments[s].base + segments[s].chunks <= HeapLimit
  <2>1. segments[s] \in Segment /\ segments[s].base + segments[s].chunks <= HeapLimit
    BY DEF Segments
  <2> QED
    BY <2>1 DEF Segment
<1>6. c + n - 1 \in Chunk /\ c + n - 1 < segments[s].base + segments[s].chunks
  BY SMTT(30), <1>2, <1>3, <1>4, <1>5 DEF Chunk
<1>7. \A f \in DOMAIN allocations : (c .. c + n - 1) \cap (f .. allocations[f]) = {}
  BY <1>1 DEF Taken
<1>8. \A id \in DOMAIN cache : cache[id] \in DOMAIN allocations
  BY DEF Runs
<1>9. \A id \in DOMAIN cache : (c .. c + n - 1) \cap ChunksOf(id) = {}
  BY <1>7, <1>8 DEF ChunksOf
<1>10. ASSUME c \in DOMAIN allocations PROVE FALSE
  <2>1. PICK id \in DOMAIN cache : c = cache[id]
    BY <1>10 DEF Runs
  <2>2. c <= allocations[c] /\ allocations[c] \in Nat
    <3>1. cache[id] <= allocations[cache[id]]
      BY DEF Runs
    <3>2. allocations[c] \in Chunk
      BY <1>10 DEF Runs
    <3> QED
      BY <2>1, <3>1, <3>2, <1>2 DEF Chunk
  <2>3. c \in c .. allocations[c] /\ c \in c .. c + n - 1
    BY <2>2, <1>3
  <2> QED
    BY <2>3, <1>7, <1>10
<1>11. chunkState[c] = "Unallocated"
  BY <1>1, <1>10 DEF Known
<1> QED
  BY <1>1, <1>4, <1>6, <1>9, <1>10, <1>11

\* Allocation id stays where it is.
Stays(id) ==
  id \in DOMAIN cache' /\ cache'[id] = cache[id] /\ allocations'[cache[id]] = allocations[cache[id]]

\* A new allocation leaves the others.
LEMMA AnnounceFacts ==
  ASSUME IndInv, Announce
  PROVE  /\ nextUid \in Nat /\ nextUid \notin DOMAIN cache /\ nextUid' = nextUid + 1
         /\ call \in Calls /\ call.chunks \in Nat \ {0} /\ found \in Chunk
         /\ DOMAIN cache' = DOMAIN cache \union {nextUid} /\ cache'[nextUid] = found
         /\ DOMAIN allocations' = DOMAIN allocations \union {found}
         /\ allocations'[found] = found + call.chunks - 1
         /\ \A id \in DOMAIN cache : Stays(id) /\ cache[id] # found
         /\ \A f \in DOMAIN allocations : allocations'[f] = allocations[f]
<1>1. Runs /\ Known /\ Segments /\ Called /\ Made
  BY DEF IndInv
<1>2. call \in Calls /\ call.chunks \in Nat \ {0} /\ found \in Fits(call.chunks) /\ found \in Chunk
  BY <1>1 DEF Announce, Goes, Called, Calls, Made
<1>3. found \notin DOMAIN allocations
  BY <1>1, <1>2, FitsFacts
<1>4. nextUid \in Nat /\ nextUid \notin DOMAIN cache
  BY <1>1 DEF Runs
<1>5. \A id \in DOMAIN cache : cache[id] \in DOMAIN allocations
  BY <1>1 DEF Runs
<1>6. /\ cache' = With(cache, nextUid, found)
      /\ allocations' = With(allocations, found, found + call.chunks - 1) /\ nextUid' = nextUid + 1
  BY DEF Announce
<1>7. /\ DOMAIN cache' = DOMAIN cache \union {nextUid} /\ cache'[nextUid] = found
      /\ \A id \in DOMAIN cache : cache'[id] = cache[id]
  BY <1>4, <1>6 DEF With
<1>8. /\ DOMAIN allocations' = DOMAIN allocations \union {found}
      /\ allocations'[found] = found + call.chunks - 1
      /\ \A f \in DOMAIN allocations : allocations'[f] = allocations[f]
  BY <1>3, <1>6 DEF With
<1> QED
  BY <1>2, <1>3, <1>4, <1>5, <1>6, <1>7, <1>8 DEF Stays

\* Two allocations never start at the same chunk.
LEMMA FirstChunksDiffer ==
  ASSUME Runs, NEW i \in DOMAIN cache, NEW j \in DOMAIN cache, i # j
  PROVE  cache[i] # cache[j]
<1>1. cache[i] \in Nat /\ allocations[cache[i]] \in Nat /\ cache[i] <= allocations[cache[i]]
  BY HeapAssumption DEF Runs, Chunk
<1>2. cache[i] \in ChunksOf(i) /\ (cache[j] = cache[i] => cache[i] \in ChunksOf(j))
  BY <1>1 DEF ChunksOf
<1> QED
  BY <1>2 DEF Runs

\* What freeDeallocations leaves, it leaves as it is.
LEMMA FreeFacts ==
  ASSUME IndInv, FreeDeallocations
  PROVE  /\ DOMAIN cache' = {id \in DOMAIN cache : chunkState[cache[id]] # "Deallocated"}
         /\ \A id \in DOMAIN cache' : Stays(id) /\ chunkState'[cache[id]] = chunkState[cache[id]]
         /\ DOMAIN allocations' = {cache[id] : id \in DOMAIN cache'}
         /\ \A f \in DOMAIN allocations' : allocations'[f] = allocations[f] /\ f \in DOMAIN allocations
         /\ chunkState' \in [Chunk -> {"Unallocated", "Allocated", "Deallocated"}]
         /\ \A c \in Chunk : chunkState'[c] # "Unallocated" =>
              chunkState'[c] = chunkState[c] /\ \A id \in Retired : cache[id] # c
<1> DEFINE Freed == {cache[id] : id \in Retired}
<1>1. Runs /\ Known
  BY DEF IndInv
<1>2. /\ cache' = Without(cache, Retired) /\ allocations' = Without(allocations, Freed)
      /\ chunkState' = [c \in Chunk |-> IF c \in Freed THEN "Unallocated" ELSE chunkState[c]]
  BY DEF FreeDeallocations
<1>3. /\ DOMAIN cache' = {id \in DOMAIN cache : chunkState[cache[id]] # "Deallocated"}
      /\ \A id \in DOMAIN cache' : cache'[id] = cache[id]
      /\ \A id \in DOMAIN cache' : id \in DOMAIN cache /\ id \notin Retired
  BY <1>2 DEF Without, Retired
<1>4. \A f : f \in Freed <=> \E id \in Retired : f = cache[id]
  OBVIOUS
<1>5. \A id \in DOMAIN cache' : cache[id] \notin Freed
  BY <1>1, <1>3, <1>4, FirstChunksDiffer DEF Retired
<1>6. \A id \in DOMAIN cache : cache[id] \in DOMAIN allocations /\ cache[id] \in Chunk
  BY <1>1 DEF Runs
<1>7. DOMAIN allocations' = DOMAIN allocations \ Freed
  BY <1>2 DEF Without
<1>8. \A f \in DOMAIN allocations' : allocations'[f] = allocations[f] /\ f \in DOMAIN allocations
  BY <1>2, <1>7 DEF Without
<1>9. DOMAIN allocations' = {cache[id] : id \in DOMAIN cache'}
  <2>1. ASSUME NEW f \in DOMAIN allocations' PROVE f \in {cache[id] : id \in DOMAIN cache'}
    <3>1. f \notin Freed /\ f \in DOMAIN allocations
      BY <2>1, <1>7
    <3>2. PICK id \in DOMAIN cache : f = cache[id]
      BY <3>1, <1>1 DEF Runs
    <3>3. id \in DOMAIN cache'
      BY <3>1, <3>2, <1>3, <1>4 DEF Retired
    <3> QED
      BY <3>2, <3>3
  <2>2. ASSUME NEW id \in DOMAIN cache' PROVE cache[id] \in DOMAIN allocations'
    BY <1>3, <1>5, <1>6, <1>7
  <2> QED
    BY <2>1, <2>2
<1>10. \A id \in DOMAIN cache' : Stays(id)
  BY <1>3, <1>8, <1>9 DEF Stays
<1>11. /\ chunkState' \in [Chunk -> {"Unallocated", "Allocated", "Deallocated"}]
       /\ \A c \in Chunk : chunkState'[c] # "Unallocated" => chunkState'[c] = chunkState[c] /\ c \notin Freed
       /\ \A c \in Chunk : c \notin Freed => chunkState'[c] = chunkState[c]
  <2> HIDE DEF Freed
  <2> QED
    BY <1>1, <1>2 DEF Known
<1>12. \A id \in DOMAIN cache' : chunkState'[cache[id]] = chunkState[cache[id]]
  BY <1>3, <1>5, <1>6, <1>11
<1> QED
  BY <1>3, <1>4, <1>8, <1>9, <1>10, <1>11, <1>12

\* The allocations change in announce and freeDeallocations only.
LEMMA AllocationsQuiet ==
  ASSUME [Next]_vars, ~ Announce, ~ FreeDeallocations
  PROVE  UNCHANGED <<nextUid, cache, allocations>>
<1> USE DEF heap, vars
<1>1. CASE Server
  BY <1>1 DEF Server, ServerAddSeg, ServerAlloc, ServerUnlock, ServerDealloc
<1>2. CASE InCall
  BY <1>2 DEF InCall, Allocate, FindAgain, Grow, FindInNew, Again, TimesOut, Mark, Upload, RetireSnapshot
<1>3. ASSUME NEW b \in Buffer,
             GameWrites(b) \/ Unlock(b) \/ Destroy(b) \/ \E discard \in BOOLEAN : Lock(b, discard)
      PROVE UNCHANGED <<nextUid, cache, allocations>>
  BY <1>3 DEF GameWrites, Unlock, Destroy, Lock
<1>4. CASE UNCHANGED vars
  BY <1>4
<1> QED
  BY <1>1, <1>2, <1>3, <1>4 DEF Next

\* An allocation that is not retired stays in every step.
LEMMA AllocationsStay ==
  ASSUME IndInv, [Next]_vars
  PROVE  \A id \in DOMAIN cache : chunkState[cache[id]] # "Deallocated" => Stays(id)
<1>1. CASE Announce
  BY <1>1, AnnounceFacts
<1>2. CASE FreeDeallocations
  BY <1>2, FreeFacts
<1>3. CASE ~ Announce /\ ~ FreeDeallocations
  BY <1>3, AllocationsQuiet DEF Stays
<1> QED
  BY <1>1, <1>2, <1>3

\* Allocations are made where nothing is, and dropped with their run.
LEMMA RunsKept ==
  ASSUME IndInv, [Next]_vars
  PROVE  Runs'
<1>1. Runs /\ Known /\ Segments
  BY DEF IndInv
<1>2. CASE ~ Announce /\ ~ FreeDeallocations
  BY <1>1, <1>2, AllocationsQuiet DEF Runs, ChunksOf
<1>3. CASE Announce
  <2>1. /\ nextUid \in Nat /\ nextUid \notin DOMAIN cache /\ nextUid' = nextUid + 1
        /\ call.chunks \in Nat \ {0} /\ found \in Chunk
        /\ DOMAIN cache' = DOMAIN cache \union {nextUid} /\ cache'[nextUid] = found
        /\ DOMAIN allocations' = DOMAIN allocations \union {found}
        /\ allocations'[found] = found + call.chunks - 1
        /\ \A id \in DOMAIN cache : Stays(id) /\ cache[id] # found
        /\ \A f \in DOMAIN allocations : allocations'[f] = allocations[f]
    BY <1>3, AnnounceFacts
  <2>2. found + call.chunks - 1 \in Chunk /\ \A id \in DOMAIN cache : (found .. found + call.chunks - 1) \cap ChunksOf(id) = {}
    <3>1. found \in Fits(call.chunks)
      BY <1>3 DEF IndInv, Made, Announce, Goes
    <3> QED
      BY <3>1, <2>1, <1>1, FitsFacts
  <2>3. \A id \in DOMAIN cache : cache'[id] = cache[id] /\ allocations'[cache[id]] = allocations[cache[id]]
    BY <2>1 DEF Stays
  <2>4. cache' \in [DOMAIN cache' -> Chunk]
    <3>1. \A id \in DOMAIN cache' : cache'[id] \in Chunk
      BY <2>1, <2>3, <1>1 DEF Runs
    <3>2. cache' = [id \in DOMAIN cache' |-> cache'[id]]
      BY <1>3 DEF Announce, With
    <3> QED
      BY <3>1, <3>2
  <2>5. allocations' \in [DOMAIN allocations' -> Chunk]
    <3>1. \A f \in DOMAIN allocations' : allocations'[f] \in Chunk
      BY <2>1, <2>2, <1>1 DEF Runs
    <3>2. allocations' = [f \in DOMAIN allocations' |-> allocations'[f]]
      BY <1>3 DEF Announce, With
    <3> QED
      BY <3>1, <3>2
  <2>6. DOMAIN allocations' = {cache'[id] : id \in DOMAIN cache'}
    <3>1. DOMAIN allocations = {cache[id] : id \in DOMAIN cache}
      BY <1>1 DEF Runs
    <3>2. \A f : (\E id \in DOMAIN cache' : f = cache'[id]) <=> f = found \/ \E id \in DOMAIN cache : f = cache[id]
      BY <2>1, <2>3
    <3>3. \A f : f \in DOMAIN allocations' <=> f \in {cache'[id] : id \in DOMAIN cache'}
      <4>1. \A f : f \in DOMAIN allocations' <=> f = found \/ \E id \in DOMAIN cache : f = cache[id]
        BY <3>1, <2>1
      <4>2. \A f : f \in {cache'[id] : id \in DOMAIN cache'} <=> \E id \in DOMAIN cache' : f = cache'[id]
        OBVIOUS
      <4> QED
        BY <3>2, <4>1, <4>2, Zenon
    <3> QED
      BY <3>3, Zenon
  <2>7. DOMAIN cache' \subseteq 0 .. nextUid' - 1
    BY <2>1, <1>1 DEF Runs
  <2>8. \A id \in DOMAIN cache' : cache'[id] <= allocations'[cache'[id]]
    <3>1. \A id \in DOMAIN cache : cache[id] <= allocations[cache[id]]
      BY <1>1 DEF Runs
    <3>2. found <= found + call.chunks - 1
      BY <2>1, HeapAssumption DEF Chunk
    <3> QED
      BY <3>1, <3>2, <2>1, <2>3
  <2>9. /\ \A id \in DOMAIN cache : ChunksOf(id)' = ChunksOf(id)
        /\ \A id : id = nextUid => ChunksOf(id)' = found .. found + call.chunks - 1
    BY <2>1, <2>3 DEF ChunksOf
  <2>10. ASSUME NEW i \in DOMAIN cache', NEW j \in DOMAIN cache', i # j
         PROVE ChunksOf(i)' \cap ChunksOf(j)' = {}
    <3>1. CASE i \in DOMAIN cache /\ j \in DOMAIN cache
      BY <3>1, <2>9, <2>10, <1>1 DEF Runs
    <3>2. CASE i = nextUid /\ j \in DOMAIN cache
      BY <3>2, <2>9, <2>2
    <3>3. CASE j = nextUid /\ i \in DOMAIN cache
      BY <3>3, <2>9, <2>2
    <3> QED
      BY <3>1, <3>2, <3>3, <2>1, <2>10
  <2> QED
    BY <2>1, <2>4, <2>5, <2>6, <2>7, <2>8, <2>10 DEF Runs
<1>4. CASE FreeDeallocations
  <2>1. /\ DOMAIN cache' \subseteq DOMAIN cache /\ \A id \in DOMAIN cache' : Stays(id)
        /\ DOMAIN allocations' = {cache[id] : id \in DOMAIN cache'}
        /\ \A f \in DOMAIN allocations' : allocations'[f] = allocations[f] /\ f \in DOMAIN allocations
    BY <1>4, FreeFacts
  <2>2. \A id \in DOMAIN cache' : cache'[id] = cache[id] /\ allocations'[cache[id]] = allocations[cache[id]]
    BY <2>1 DEF Stays
  <2>3. cache' \in [DOMAIN cache' -> Chunk] /\ allocations' \in [DOMAIN allocations' -> Chunk]
    <3>1. cache' = [id \in DOMAIN cache' |-> cache'[id]] /\ allocations' = [f \in DOMAIN allocations' |-> allocations'[f]]
      BY <1>4 DEF FreeDeallocations, Without
    <3>2. \A id \in DOMAIN cache' : cache'[id] \in Chunk
      BY <2>1, <2>2, <1>1 DEF Runs
    <3>3. \A f \in DOMAIN allocations' : allocations'[f] \in Chunk
      BY <2>1, <1>1 DEF Runs
    <3> QED
      BY <3>1, <3>2, <3>3
  <2>4. DOMAIN allocations' = {cache'[id] : id \in DOMAIN cache'}
    BY <2>1, <2>2
  <2>5. \A id \in DOMAIN cache' : ChunksOf(id)' = ChunksOf(id)
    BY <2>2 DEF ChunksOf
  <2>6. nextUid' = nextUid
    BY <1>4 DEF FreeDeallocations
  <2> QED
    BY <2>1, <2>2, <2>3, <2>4, <2>5, <2>6, <1>1 DEF Runs
<1> QED
  BY <1>2, <1>3, <1>4

-----------------------------------------------------------------------------
(* Ordered and Known through each step *)

\* (A step that leaves both sides' books alone.)
LEMMA QuietKeepsOrder ==
  ASSUME Ordered, Known, at # "mark" \/ at' = at,
         UNCHANGED <<channel, nextUid, cache, allocations, serverCache, chunkState>>
  PROVE  Ordered' /\ Known'
<1>1. \A k \in Nat : \A kind, id : Msg(k, kind, id)' <=> Msg(k, kind, id)
  BY DEF Msg
<1>2. Ordered'
  BY <1>1 DEF Ordered
<1>3. Known'
  BY <1>1 DEF Known
<1> QED
  BY <1>2, <1>3

\* (The client sends a segment, or something about an allocation that lives.)
LEMMA SendKeepsOrder ==
  ASSUME Ordered, Known, at # "mark", NEW msg \in Command, channel' = Append(channel, msg),
         \/ msg.kind = "AddSeg"
         \/ msg.kind \in {"Unlock", "Dealloc"} /\ msg.id \in Nat /\ Alive(msg.id),
         UNCHANGED <<nextUid, cache, allocations, serverCache, chunkState>>
  PROVE  Ordered' /\ Known'
<1>1. /\ channel' \in Seq(Command) /\ Len(channel) \in Nat /\ Len(channel') = Len(channel) + 1
      /\ \A k \in 1 .. Len(channel) : channel'[k] = channel[k]
      /\ \A k \in Nat : \A kind, id :
           Msg(k, kind, id)' <=> \/ Msg(k, kind, id)
                                 \/ k = Len(channel) + 1 /\ msg.kind = kind /\ msg.id = id
  BY SendFacts DEF Ordered
<1>2. \A k \in Nat : \A kind, id : Msg(k, kind, id) => k <= Len(channel)
  BY DEF Msg
<1>3. ASSUME NEW k \in Nat, NEW id \in Nat, Msg(k, "Alloc", id)'
      PROVE /\ id \in DOMAIN cache' /\ channel'[k].first = cache'[id]
            /\ id \notin DOMAIN serverCache' /\ chunkState'[cache'[id]] # "Deallocated"
            /\ \A j \in Nat : Msg(j, "Alloc", id)' => j = k
  <2>1. \A j \in Nat : Msg(j, "Alloc", id)' => Msg(j, "Alloc", id)
    BY <1>1
  <2>2. channel'[k] = channel[k]
    BY <2>1, <1>1, <1>3 DEF Msg
  <2> QED
    BY <2>1, <2>2, <1>3 DEF Ordered
<1>4. ASSUME NEW k \in Nat, NEW id \in Nat, Msg(k, "Unlock", id)' \/ Msg(k, "Dealloc", id)'
      PROVE /\ id \in DOMAIN cache' /\ chunkState'[cache'[id]] = "Allocated"
            /\ id \in DOMAIN serverCache' \/ \E j \in Nat : j < k /\ Msg(j, "Alloc", id)'
  <2>1. CASE Msg(k, "Unlock", id) \/ Msg(k, "Dealloc", id)
    BY <2>1, <1>1 DEF Ordered
  <2>2. CASE k = Len(channel) + 1 /\ id = msg.id /\ msg.kind \in {"Unlock", "Dealloc"}
    <3>1. id \in DOMAIN cache /\ chunkState[cache[id]] = "Allocated"
      BY <2>2 DEF Alive
    <3>2. id \in DOMAIN serverCache \/ \E j \in Nat : Msg(j, "Alloc", id)
      BY <3>1 DEF Known
    <3>3. \A j \in Nat : Msg(j, "Alloc", id) => j < k
      BY <2>2, <1>1, <1>2
    <3> QED
      BY <3>1, <3>2, <3>3, <1>1
  <2> QED
    BY <2>1, <2>2, <1>1, <1>4
<1>5. ASSUME NEW k \in Nat, NEW id \in Nat, Msg(k, "Dealloc", id)',
             NEW j \in Nat, NEW kind \in About, Msg(j, kind, id)'
      PROVE j <= k
  <2>1. CASE Msg(k, "Dealloc", id)
    <3>1. Msg(j, kind, id)
      BY <2>1, <1>1, <1>5 DEF Alive, About
    <3> QED
      BY <2>1, <3>1 DEF Ordered
  <2>2. CASE k = Len(channel) + 1
    <3>1. Msg(j, kind, id) \/ j = Len(channel) + 1
      BY <1>1, <1>5
    <3>2. j <= Len(channel) + 1
      BY <3>1, <1>1, <1>2
    <3> QED
      BY <2>2, <3>2
  <2> QED
    BY <2>1, <2>2, <1>1, <1>5
<1>6. Ordered'
  BY <1>1, <1>3, <1>4, <1>5 DEF Ordered
<1>7. Known'
  BY <1>1 DEF Known
<1> QED
  BY <1>6, <1>7

\* (A new allocation is announced.)
LEMMA AnnounceKeepsOrder ==
  ASSUME IndInv, Announce
  PROVE  Ordered' /\ Known'
<1> DEFINE msg == [kind |-> "Alloc", id |-> nextUid, first |-> found]
<1>1. Runs /\ Ordered /\ Known /\ Segments
  BY DEF IndInv
<1>2. /\ nextUid \in Nat /\ nextUid \notin DOMAIN cache /\ nextUid' = nextUid + 1
      /\ call.chunks \in Nat \ {0} /\ found \in Chunk
      /\ DOMAIN cache' = DOMAIN cache \union {nextUid} /\ cache'[nextUid] = found
      /\ DOMAIN allocations' = DOMAIN allocations \union {found}
      /\ \A id \in DOMAIN cache : Stays(id) /\ cache[id] # found
  BY <1>1, AnnounceFacts
<1>3. \A id \in DOMAIN cache : cache'[id] = cache[id]
  BY <1>2 DEF Stays
<1>4. chunkState[found] = "Unallocated"
  <2>1. found \in Fits(call.chunks)
    BY DEF IndInv, Made, Announce, Goes
  <2> QED
    BY <2>1, <1>1, <1>2, FitsFacts
<1>5. /\ channel' = Append(channel, msg) /\ at' = "mark" /\ at # "mark"
      /\ UNCHANGED <<chunkState, serverCache>>
  BY DEF Announce, Goes, Send, shared, server
<1>6. msg \in Command /\ msg.kind = "Alloc" /\ msg.id = nextUid /\ msg.first = found
  BY <1>2 DEF Command
<1> HIDE DEF msg
<1>7. /\ channel' \in Seq(Command) /\ Len(channel) \in Nat /\ Len(channel') = Len(channel) + 1
      /\ \A k \in 1 .. Len(channel) : channel'[k] = channel[k]
      /\ channel'[Len(channel) + 1] = msg
      /\ \A k \in Nat : \A kind, id :
           Msg(k, kind, id)' <=> \/ Msg(k, kind, id)
                                 \/ k = Len(channel) + 1 /\ msg.kind = kind /\ msg.id = id
  BY <1>1, <1>5, <1>6, SendFacts DEF Ordered
<1>8. \A k \in Nat : \A kind, id : Msg(k, kind, id) => k <= Len(channel) /\ channel'[k] = channel[k]
  BY <1>7 DEF Msg
<1>9. \A k \in Nat, kind \in About : ~ Msg(k, kind, nextUid)
  BY <1>1, <1>2 DEF Ordered, About
<1>10. \A id \in DOMAIN serverCache : id \in DOMAIN cache
  BY <1>1 DEF Known
<1>11. ASSUME NEW k \in Nat, NEW id \in Nat, Msg(k, "Alloc", id)'
       PROVE /\ id \in DOMAIN cache' /\ channel'[k].first = cache'[id]
             /\ id \notin DOMAIN serverCache' /\ chunkState'[cache'[id]] # "Deallocated"
             /\ \A j \in Nat : Msg(j, "Alloc", id)' => j = k
  <2>1. CASE id = nextUid
    <3>1. \A j \in Nat : Msg(j, "Alloc", id)' => j = Len(channel) + 1
      BY <2>1, <1>7, <1>9 DEF About
    <3>2. k = Len(channel) + 1
      BY <3>1, <1>11
    <3> QED
      BY <2>1, <3>1, <3>2, <1>2, <1>4, <1>5, <1>6, <1>7, <1>10
  <2>2. CASE id # nextUid
    <3>1. \A j \in Nat : Msg(j, "Alloc", id)' => Msg(j, "Alloc", id)
      BY <2>2, <1>6, <1>7
    <3>2. Msg(k, "Alloc", id) /\ channel'[k] = channel[k]
      BY <3>1, <1>8, <1>11
    <3> QED
      BY <3>1, <3>2, <1>1, <1>2, <1>3, <1>5 DEF Ordered
  <2> QED
    BY <2>1, <2>2
<1>12. ASSUME NEW k \in Nat, NEW id \in Nat, Msg(k, "Unlock", id)' \/ Msg(k, "Dealloc", id)'
       PROVE /\ id \in DOMAIN cache' /\ chunkState'[cache'[id]] = "Allocated"
             /\ id \in DOMAIN serverCache' \/ \E j \in Nat : j < k /\ Msg(j, "Alloc", id)'
  <2>1. Msg(k, "Unlock", id) \/ Msg(k, "Dealloc", id)
    BY <1>6, <1>7, <1>12
  <2> QED
    BY ZenonT(30), <2>1, <1>1, <1>2, <1>3, <1>5, <1>7 DEF Ordered
<1>13. ASSUME NEW k \in Nat, NEW id \in Nat, Msg(k, "Dealloc", id)',
              NEW j \in Nat, NEW kind \in About, Msg(j, kind, id)'
       PROVE j <= k
  <2>1. Msg(k, "Dealloc", id)
    BY <1>6, <1>7, <1>13
  <2>2. Msg(j, kind, id)
    BY <2>1, <1>6, <1>7, <1>9, <1>13 DEF About
  <2> QED
    BY <2>1, <2>2, <1>1 DEF Ordered
<1>14. Ordered'
  BY <1>7, <1>11, <1>12, <1>13 DEF Ordered
<1>15. Known'
  <2>1. \A id \in DOMAIN serverCache' :
          id \in DOMAIN cache' /\ serverCache'[id] = cache'[id] /\ chunkState'[cache'[id]] # "Deallocated"
    BY <1>1, <1>2, <1>3, <1>5 DEF Known
  <2>2. \A id \in DOMAIN cache' : chunkState'[cache'[id]] # "Deallocated" =>
          id \in DOMAIN serverCache' \/ \E k \in Nat : Msg(k, "Alloc", id)'
    <3> SUFFICES ASSUME NEW id \in DOMAIN cache', chunkState'[cache'[id]] # "Deallocated"
                 PROVE id \in DOMAIN serverCache' \/ \E k \in Nat : Msg(k, "Alloc", id)'
      OBVIOUS
    <3>1. CASE id = nextUid
      <4>2. \A k \in Nat : k = Len(channel) + 1 => Msg(k, "Alloc", id)'
        BY <3>1, <1>6, <1>7
      <4> QED
        BY <4>2, <1>7
    <3>2. CASE id \in DOMAIN cache
      BY <3>2, <1>1, <1>3, <1>5, <1>7 DEF Known
    <3> QED
      BY <3>1, <3>2, <1>2
  <2>3. \A c \in Chunk : chunkState'[c] # "Unallocated" => c \in DOMAIN allocations'
    BY <1>1, <1>2, <1>5 DEF Known
  <2>4. \A id \in DOMAIN cache' : chunkState'[cache'[id]] = "Unallocated" => at' = "mark" /\ id = nextUid' - 1
    BY <1>1, <1>2, <1>3, <1>5 DEF Known
  <2> QED
    BY <2>1, <2>2, <2>3, <2>4, <1>1, <1>5 DEF Known
<1> QED
  BY <1>14, <1>15

\* (freeDeallocations: what it drops is on neither side's way.)
LEMMA FreeKeepsOrder ==
  ASSUME IndInv, FreeDeallocations
  PROVE  Ordered' /\ Known'
<1>1. Runs /\ Ordered /\ Known
  BY DEF IndInv
<1>2. /\ at = "free" /\ UNCHANGED <<channel, nextUid, serverCache>>
  BY DEF FreeDeallocations, server
<1>3. /\ DOMAIN cache' = {id \in DOMAIN cache : chunkState[cache[id]] # "Deallocated"}
      /\ \A id \in DOMAIN cache' : Stays(id) /\ chunkState'[cache[id]] = chunkState[cache[id]]
      /\ DOMAIN allocations' = {cache[id] : id \in DOMAIN cache'}
      /\ chunkState' \in [Chunk -> {"Unallocated", "Allocated", "Deallocated"}]
      /\ \A c \in Chunk : chunkState'[c] # "Unallocated" =>
           chunkState'[c] = chunkState[c] /\ \A id \in Retired : cache[id] # c
  BY FreeFacts
<1>4. \A id \in DOMAIN cache' : cache'[id] = cache[id] /\ id \in DOMAIN cache
  BY <1>3 DEF Stays
<1>5. \A k \in Nat : \A kind, id : Msg(k, kind, id)' <=> Msg(k, kind, id)
  BY <1>2 DEF Msg
<1>6. \A k, id \in Nat, kind \in About : Msg(k, kind, id) => id \in DOMAIN cache'
  BY <1>1, <1>3 DEF Ordered, About
<1>7. Ordered'
  <2>1. \A k, id \in Nat : Msg(k, "Alloc", id) =>
          /\ id \in DOMAIN cache' /\ channel[k].first = cache'[id]
          /\ id \notin DOMAIN serverCache /\ chunkState'[cache'[id]] # "Deallocated"
    BY <1>1, <1>3, <1>4, <1>6 DEF Ordered, About
  <2>2. \A k, id \in Nat : Msg(k, "Unlock", id) \/ Msg(k, "Dealloc", id) =>
          id \in DOMAIN cache' /\ chunkState'[cache'[id]] = "Allocated"
    BY <1>1, <1>3, <1>4, <1>6 DEF Ordered, About
  <2>3. \A k, id \in Nat : Msg(k, "Alloc", id)' =>
          /\ id \in DOMAIN cache' /\ channel'[k].first = cache'[id]
          /\ id \notin DOMAIN serverCache' /\ chunkState'[cache'[id]] # "Deallocated"
          /\ \A j \in Nat : Msg(j, "Alloc", id)' => j = k
    <3>1. \A k, id \in Nat : Msg(k, "Alloc", id) => \A j \in Nat : Msg(j, "Alloc", id) => j = k
      BY <1>1 DEF Ordered
    <3> QED
      BY <2>1, <3>1, <1>2, <1>5
  <2>4. \A k, id \in Nat : Msg(k, "Unlock", id)' \/ Msg(k, "Dealloc", id)' =>
          /\ id \in DOMAIN cache' /\ chunkState'[cache'[id]] = "Allocated"
          /\ id \in DOMAIN serverCache' \/ \E j \in Nat : j < k /\ Msg(j, "Alloc", id)'
    <3>1. \A k, id \in Nat : Msg(k, "Unlock", id) \/ Msg(k, "Dealloc", id) =>
            id \in DOMAIN serverCache \/ \E j \in Nat : j < k /\ Msg(j, "Alloc", id)
      BY <1>1 DEF Ordered
    <3> QED
      BY <2>2, <3>1, <1>2, <1>5
  <2>5. \A k, id \in Nat : Msg(k, "Dealloc", id)' =>
          \A j \in Nat, kind \in About : Msg(j, kind, id)' => j <= k
    BY Zenon, <1>1, <1>5 DEF Ordered
  <2> QED
    BY <2>3, <2>4, <2>5, <1>1, <1>2 DEF Ordered
<1>8. Known'
  <2>1. \A id \in DOMAIN serverCache' :
          id \in DOMAIN cache' /\ serverCache'[id] = cache'[id] /\ chunkState'[cache'[id]] # "Deallocated"
    BY <1>1, <1>2, <1>3, <1>4 DEF Known
  <2>2. \A id \in DOMAIN cache' : chunkState'[cache'[id]] # "Deallocated" =>
          id \in DOMAIN serverCache' \/ \E k \in Nat : Msg(k, "Alloc", id)'
    BY <1>1, <1>2, <1>3, <1>4, <1>5 DEF Known
  <2>3. ASSUME NEW c \in Chunk, chunkState'[c] # "Unallocated" PROVE c \in DOMAIN allocations'
    <3>1. chunkState[c] # "Unallocated" /\ \A id \in Retired : cache[id] # c
      BY <1>3, <2>3
    <3>2. PICK id \in DOMAIN cache : c = cache[id]
      BY <3>1, <1>1 DEF Known, Runs
    <3>3. id \in DOMAIN cache'
      BY <3>1, <3>2, <1>3 DEF Retired
    <3> QED
      BY <3>2, <3>3, <1>3
  <2>4. \A id \in DOMAIN cache' : chunkState'[cache'[id]] = "Unallocated" => at' = "mark" /\ id = nextUid' - 1
    BY <1>1, <1>2, <1>3, <1>4 DEF Known
  <2> QED
    BY <2>1, <2>2, <2>3, <2>4, <1>1, <1>2, <1>3 DEF Known
<1> QED
  BY <1>7, <1>8

\* (The client marks the chunk of the newest allocation.)
LEMMA MarkKeepsOrder ==
  ASSUME IndInv, Mark
  PROVE  Ordered' /\ Known'
<1>1. Runs /\ Ordered /\ Known /\ Made
  BY DEF IndInv
<1>2. /\ at = "mark" /\ chunkState' = [chunkState EXCEPT ![found] = "Allocated"]
      /\ UNCHANGED <<channel, nextUid, cache, allocations, serverCache>>
  BY DEF Mark, heap, server
<1>3. nextUid - 1 \in DOMAIN cache /\ cache[nextUid - 1] = found /\ found \in Chunk
  BY <1>1, <1>2 DEF Made, Runs
<1>4. /\ chunkState' \in [Chunk -> {"Unallocated", "Allocated", "Deallocated"}]
      /\ chunkState'[found] = "Allocated" /\ \A c \in Chunk : c # found => chunkState'[c] = chunkState[c]
  BY <1>1, <1>2, <1>3 DEF Known
<1>5. \A k \in Nat : \A kind, id : Msg(k, kind, id)' <=> Msg(k, kind, id)
  BY <1>2 DEF Msg
<1>6. \A id \in DOMAIN cache :
        /\ chunkState[cache[id]] # "Deallocated" => chunkState'[cache[id]] # "Deallocated"
        /\ chunkState[cache[id]] = "Allocated" => chunkState'[cache[id]] = "Allocated"
        /\ chunkState'[cache[id]] # "Deallocated" => chunkState[cache[id]] # "Deallocated"
        /\ chunkState'[cache[id]] # "Unallocated"
  <2>1. chunkState[found] # "Deallocated"
    BY <1>1, <1>2 DEF Made
  <2>2. \A id \in DOMAIN cache : cache[id] \in Chunk
    BY <1>1 DEF Runs
  <2> QED
    BY <2>1, <2>2, <1>1, <1>3, <1>4 DEF Known
<1>7. Ordered'
  BY <1>1, <1>2, <1>5, <1>6 DEF Ordered
<1>8. Known'
  <2>1. \A c \in Chunk : chunkState'[c] # "Unallocated" => c \in DOMAIN allocations
    BY <1>1, <1>3, <1>4 DEF Known, Runs
  <2> QED
    BY <2>1, <1>1, <1>2, <1>4, <1>5, <1>6 DEF Known
<1> QED
  BY <1>7, <1>8

\* (The server executes a command.)
LEMMA ServerKeepsOrder ==
  ASSUME IndInv, Server
  PROVE  Ordered' /\ Known'
<1>1. Runs /\ Ordered /\ Known
  BY DEF IndInv
<1>2. /\ channel # <<>> /\ channel' = Tail(channel) /\ UNCHANGED <<nextUid, cache, allocations, at>>
  BY DEF Server, ServerAddSeg, ServerAlloc, ServerUnlock, ServerDealloc, Executes, heap
<1>3. /\ channel' \in Seq(Command) /\ Len(channel) \in Nat /\ Len(channel) >= 1
      /\ Len(channel') = Len(channel) - 1
      /\ Head(channel) = channel[1] /\ channel[1] \in Command
      /\ \A k \in 1 .. Len(channel') : channel'[k] = channel[k + 1]
      /\ \A k \in Nat : \A kind, id : Msg(k, kind, id)' <=> k >= 1 /\ Msg(k + 1, kind, id)
  BY <1>1, <1>2, TakeFacts DEF Ordered
<1>4. \A k \in Nat : \A kind, id : Msg(k, kind, id)' => channel'[k] = channel[k + 1] /\ k >= 1 /\ k + 1 \in Nat
  BY <1>3 DEF Msg
<1>5. \A j \in Nat : \A kind, id : Msg(j, kind, id) => j = 1 \/ (j - 1 \in Nat /\ Msg(j - 1, kind, id)')
  <2> SUFFICES ASSUME NEW j \in Nat, NEW kind, NEW id, Msg(j, kind, id), j # 1
               PROVE j - 1 \in Nat /\ Msg(j - 1, kind, id)'
    OBVIOUS
  <2>1. PICK i \in Nat : j = i + 1 /\ i >= 1
    <3>1. j >= 1
      BY DEF Msg
    <3>2. j - 1 \in Nat /\ j = (j - 1) + 1 /\ j - 1 >= 1
      BY <3>1
    <3> QED
      BY <3>2
  <2>2. Msg(i, kind, id)'
    BY <2>1, <1>3
  <2>3. i = j - 1
    BY <2>1
  <2> QED
    BY <2>2, <2>3
<1>6. ASSUME /\ DOMAIN serverCache \subseteq DOMAIN serverCache'
             /\ \A id \in DOMAIN serverCache' : id \in DOMAIN serverCache \/ Msg(1, "Alloc", id)
             /\ \A id \in DOMAIN serverCache' : id \in Nat /\ id \in DOMAIN cache /\ serverCache'[id] = cache[id]
             /\ \A id : Msg(1, "Alloc", id) => id \in DOMAIN serverCache'
             /\ serverCache' \in [DOMAIN serverCache' -> Chunk]
             /\ chunkState' = chunkState
      PROVE Ordered' /\ Known'
  <2>1. ASSUME NEW k \in Nat, NEW id \in Nat, Msg(k, "Alloc", id)'
        PROVE /\ id \in DOMAIN cache' /\ channel'[k].first = cache'[id]
              /\ id \notin DOMAIN serverCache' /\ chunkState'[cache'[id]] # "Deallocated"
              /\ \A j \in Nat : Msg(j, "Alloc", id)' => j = k
    <3>1. k >= 1 /\ k + 1 \in Nat /\ Msg(k + 1, "Alloc", id) /\ channel'[k] = channel[k + 1] /\ k + 1 # 1
      BY <2>1, <1>3, <1>4
    <3>2. \A j \in Nat : Msg(j, "Alloc", id) => j = k + 1
      BY <3>1, <1>1 DEF Ordered
    <3>3. \A j \in Nat : Msg(j, "Alloc", id)' => j + 1 = k + 1
      BY <3>2, <1>3
    <3>4. ~ Msg(1, "Alloc", id)
      BY <3>1, <3>2
    <3> QED
      BY <3>1, <3>3, <3>4, <1>1, <1>2, <1>6 DEF Ordered
  <2>2. ASSUME NEW k \in Nat, NEW id \in Nat, Msg(k, "Unlock", id)' \/ Msg(k, "Dealloc", id)'
        PROVE /\ id \in DOMAIN cache' /\ chunkState'[cache'[id]] = "Allocated"
              /\ id \in DOMAIN serverCache' \/ \E j \in Nat : j < k /\ Msg(j, "Alloc", id)'
    <3>1. k + 1 \in Nat /\ (Msg(k + 1, "Unlock", id) \/ Msg(k + 1, "Dealloc", id))
      BY <2>2, <1>3
    <3>2. /\ id \in DOMAIN cache /\ chunkState[cache[id]] = "Allocated"
          /\ id \in DOMAIN serverCache \/ \E j \in Nat : j < k + 1 /\ Msg(j, "Alloc", id)
      BY <3>1, <1>1 DEF Ordered
    <3>3. ASSUME NEW j \in Nat, j < k + 1, Msg(j, "Alloc", id), j # 1
          PROVE \E i \in Nat : i < k /\ Msg(i, "Alloc", id)'
      <4>1. j - 1 \in Nat /\ Msg(j - 1, "Alloc", id)' /\ j - 1 < k
        BY <3>3, <1>5
      <4> QED
        BY <4>1
    <3> QED
      BY <3>2, <3>3, <1>2, <1>6
  <2>3. ASSUME NEW k \in Nat, NEW id \in Nat, Msg(k, "Dealloc", id)',
               NEW j \in Nat, NEW kind \in About, Msg(j, kind, id)'
        PROVE j <= k
    <3>1. j + 1 \in Nat /\ k + 1 \in Nat /\ Msg(k + 1, "Dealloc", id) /\ Msg(j + 1, kind, id)
      BY <2>3, <1>3
    <3>2. j + 1 <= k + 1
      BY <3>1, <1>1 DEF Ordered
    <3> QED
      BY <3>2
  <2>4. Ordered'
    BY <2>1, <2>2, <2>3, <1>3 DEF Ordered
  <2>5. \A id \in DOMAIN cache' : chunkState'[cache'[id]] # "Deallocated" =>
          id \in DOMAIN serverCache' \/ \E k \in Nat : Msg(k, "Alloc", id)'
    <3> SUFFICES ASSUME NEW id \in DOMAIN cache', chunkState'[cache'[id]] # "Deallocated",
                        id \notin DOMAIN serverCache'
                 PROVE \E k \in Nat : Msg(k, "Alloc", id)'
      OBVIOUS
    <3>1. id \in DOMAIN cache /\ chunkState[cache[id]] # "Deallocated" /\ id \notin DOMAIN serverCache
      BY <1>2, <1>6
    <3>2. PICK k \in Nat : Msg(k, "Alloc", id)
      BY <3>1, <1>1 DEF Known
    <3>3. k # 1
      BY <3>2, <1>6
    <3> QED
      BY <3>2, <3>3, <1>5
  <2>6. \A id \in DOMAIN serverCache' : chunkState[cache[id]] # "Deallocated"
    <3>1. 1 \in Nat
      OBVIOUS
    <3> QED
      BY <3>1, <1>1, <1>6 DEF Known, Ordered
  <2>7. Known'
    BY <2>5, <2>6, <1>1, <1>2, <1>6 DEF Known
  <2> QED
    BY <2>4, <2>7
<1>7. CASE ServerAddSeg \/ ServerUnlock
  <2>1. UNCHANGED <<serverCache, chunkState>> /\ channel[1].kind # "Alloc"
    BY <1>3, <1>7 DEF ServerAddSeg, ServerUnlock, Executes, shared, server
  <2>2. \A id : ~ Msg(1, "Alloc", id)
    BY <2>1 DEF Msg
  <2>3. \A id \in DOMAIN serverCache : id \in Nat
    BY <1>1 DEF Known, Runs
  <2> QED
    BY <2>1, <2>2, <2>3, <1>1, <1>6 DEF Known
<1>8. CASE ServerAlloc
  <2>1. PICK id \in Nat : Msg(1, "Alloc", id) /\ channel[1].id = id
    <3>1. channel[1].kind = "Alloc" /\ channel[1].id \in Nat /\ 1 \in 1 .. Len(channel)
      BY <1>3, <1>8 DEF ServerAlloc, Executes, Command
    <3> QED
      BY <3>1 DEF Msg
  <2>2. id \in DOMAIN cache /\ channel[1].first = cache[id] /\ cache[id] \in Chunk
    BY <2>1, <1>1 DEF Ordered, Runs
  <2>3. serverCache' = With(serverCache, id, cache[id]) /\ chunkState' = chunkState
    BY <2>1, <2>2, <1>3, <1>8 DEF ServerAlloc, shared
  <2>4. /\ DOMAIN serverCache' = DOMAIN serverCache \union {id} /\ serverCache'[id] = cache[id]
        /\ \A i \in DOMAIN serverCache : serverCache'[i] = cache[i]
    BY <2>3, <1>1 DEF With, Known
  <2>5. serverCache' \in [DOMAIN serverCache' -> Chunk]
    <3>1. \A i \in DOMAIN serverCache' : serverCache'[i] \in Chunk
      BY <2>2, <2>4, <1>1 DEF Known, Runs
    <3>2. serverCache' = [i \in DOMAIN serverCache' |-> serverCache'[i]]
      BY <2>3 DEF With
    <3> QED
      BY <3>1, <3>2
  <2>6. \A i : Msg(1, "Alloc", i) => i = id
    BY <2>1 DEF Msg
  <2>7. \A i \in DOMAIN serverCache : i \in Nat /\ i \in DOMAIN cache
    BY <1>1 DEF Known, Runs
  <2> QED
    BY <2>1, <2>2, <2>3, <2>4, <2>5, <2>6, <2>7, <1>6
<1>9. CASE ServerDealloc
  <2>1. PICK id \in Nat : Msg(1, "Dealloc", id) /\ channel[1].id = id
    <3>1. channel[1].kind = "Dealloc" /\ channel[1].id \in Nat /\ 1 \in 1 .. Len(channel)
      BY <1>3, <1>9 DEF ServerDealloc, Executes, Command
    <3> QED
      BY <3>1 DEF Msg
  <2>2. id \in DOMAIN cache /\ cache[id] \in Chunk
    BY <2>1, <1>1 DEF Ordered, Runs
  <2>3. id \in DOMAIN serverCache /\ serverCache[id] = cache[id]
    <3>1. \A j \in Nat : j < 1 => ~ Msg(j, "Alloc", id)
      BY DEF Msg
    <3> QED
      BY <2>1, <3>1, <1>1 DEF Ordered, Known
  <2>4. /\ chunkState' = [chunkState EXCEPT ![cache[id]] = "Deallocated"]
        /\ serverCache' = Without(serverCache, {id})
    BY <2>1, <2>3, <1>3, <1>9 DEF ServerDealloc
  <2>5. /\ DOMAIN serverCache' = DOMAIN serverCache \ {id}
        /\ \A i \in DOMAIN serverCache' : serverCache'[i] = serverCache[i] /\ serverCache[i] = cache[i]
        /\ serverCache' \in [DOMAIN serverCache' -> Chunk]
    <3>1. /\ DOMAIN serverCache' = DOMAIN serverCache \ {id}
          /\ \A i \in DOMAIN serverCache' : serverCache'[i] = serverCache[i]
          /\ serverCache' = [i \in DOMAIN serverCache' |-> serverCache'[i]]
      BY <2>4 DEF Without
    <3>2. \A i \in DOMAIN serverCache' : serverCache'[i] \in Chunk
      BY <3>1, <1>1 DEF Known
    <3> QED
      BY <3>1, <3>2, <1>1 DEF Known
  <2>6. /\ chunkState' \in [Chunk -> {"Unallocated", "Allocated", "Deallocated"}]
        /\ chunkState'[cache[id]] = "Deallocated"
        /\ \A c \in Chunk : c # cache[id] => chunkState'[c] = chunkState[c]
        /\ \A i \in DOMAIN cache : i # id => chunkState'[cache[i]] = chunkState[cache[i]]
    <3>1. /\ chunkState' \in [Chunk -> {"Unallocated", "Allocated", "Deallocated"}]
          /\ chunkState'[cache[id]] = "Deallocated"
          /\ \A c \in Chunk : c # cache[id] => chunkState'[c] = chunkState[c]
      BY <2>2, <2>4, <1>1 DEF Known
    <3>2. \A i \in DOMAIN cache : i # id => cache[i] # cache[id] /\ cache[i] \in Chunk
      BY <2>2, <1>1, FirstChunksDiffer DEF Runs
    <3> QED
      BY <3>1, <3>2
  <2>7. \A k \in Nat, kind \in About : ~ Msg(k, kind, id)'
    <3> SUFFICES ASSUME NEW k \in Nat, NEW kind \in About, Msg(k, kind, id)' PROVE FALSE
      OBVIOUS
    <3>1. k >= 1 /\ k + 1 \in Nat /\ Msg(k + 1, kind, id)
      BY <1>3
    <3>2. k + 1 <= 1
      BY <2>1, <3>1, <1>1 DEF Ordered
    <3> QED
      BY <3>1, <3>2
  <2>8. ASSUME NEW k \in Nat, NEW i \in Nat, Msg(k, "Alloc", i)'
        PROVE /\ i \in DOMAIN cache' /\ channel'[k].first = cache'[i]
              /\ i \notin DOMAIN serverCache' /\ chunkState'[cache'[i]] # "Deallocated"
              /\ \A j \in Nat : Msg(j, "Alloc", i)' => j = k
    <3>1. i # id /\ k + 1 \in Nat /\ Msg(k + 1, "Alloc", i) /\ channel'[k] = channel[k + 1]
      BY <2>7, <2>8, <1>3, <1>4 DEF About
    <3>2. \A j \in Nat : Msg(j, "Alloc", i)' => j + 1 = k + 1
      <4>1. \A j \in Nat : Msg(j, "Alloc", i) => j = k + 1
        BY <3>1, <1>1 DEF Ordered
      <4> QED
        BY <4>1, <1>3
    <3> QED
      BY <3>1, <3>2, <2>5, <2>6, <1>1, <1>2 DEF Ordered
  <2>9. ASSUME NEW k \in Nat, NEW i \in Nat, Msg(k, "Unlock", i)' \/ Msg(k, "Dealloc", i)'
        PROVE /\ i \in DOMAIN cache' /\ chunkState'[cache'[i]] = "Allocated"
              /\ i \in DOMAIN serverCache' \/ \E j \in Nat : j < k /\ Msg(j, "Alloc", i)'
    <3>1. i # id /\ k + 1 \in Nat /\ (Msg(k + 1, "Unlock", i) \/ Msg(k + 1, "Dealloc", i))
      <4>1. \A kind \in About : ~ Msg(k, kind, id)'
        BY <2>7
      <4>2. "Unlock" \in About /\ "Dealloc" \in About
        BY DEF About
      <4> QED
        BY <4>1, <4>2, <2>9, <1>3
    <3>2. /\ i \in DOMAIN cache /\ chunkState[cache[i]] = "Allocated"
          /\ i \in DOMAIN serverCache \/ \E j \in Nat : j < k + 1 /\ Msg(j, "Alloc", i)
      BY <3>1, <1>1 DEF Ordered
    <3>3. ASSUME NEW j \in Nat, j < k + 1, Msg(j, "Alloc", i)
          PROVE \E m \in Nat : m < k /\ Msg(m, "Alloc", i)'
      <4>1. j # 1
        BY <3>3, <2>1 DEF Msg
      <4>2. j - 1 \in Nat /\ Msg(j - 1, "Alloc", i)' /\ j - 1 < k
        BY <4>1, <3>3, <1>5
      <4> QED
        BY <4>2
    <3> QED
      BY <3>1, <3>2, <3>3, <2>5, <2>6, <1>2
  <2>10. ASSUME NEW k \in Nat, NEW i \in Nat, Msg(k, "Dealloc", i)',
                NEW j \in Nat, NEW kind \in About, Msg(j, kind, i)'
         PROVE j <= k
    <3>1. j + 1 \in Nat /\ k + 1 \in Nat /\ Msg(k + 1, "Dealloc", i) /\ Msg(j + 1, kind, i)
      BY <2>10, <1>3
    <3>2. j + 1 <= k + 1
      BY <3>1, <1>1 DEF Ordered
    <3> QED
      BY <3>2
  <2>11. Ordered'
    BY <2>8, <2>9, <2>10, <1>3 DEF Ordered
  <2>12. Known'
    <3>1. \A i \in DOMAIN serverCache' :
            i \in DOMAIN cache' /\ serverCache'[i] = cache'[i] /\ chunkState'[cache'[i]] # "Deallocated"
      BY <2>5, <2>6, <1>1, <1>2 DEF Known
    <3>2. ASSUME NEW i \in DOMAIN cache', chunkState'[cache'[i]] # "Deallocated"
          PROVE i \in DOMAIN serverCache' \/ \E k \in Nat : Msg(k, "Alloc", i)'
      <4>1. i # id /\ i \in DOMAIN cache /\ chunkState[cache[i]] # "Deallocated"
        BY <3>2, <2>6, <1>2
      <4>2. ASSUME NEW k \in Nat, Msg(k, "Alloc", i) PROVE \E m \in Nat : Msg(m, "Alloc", i)'
        <5>1. k # 1
          BY <4>2, <2>1 DEF Msg
        <5> QED
          BY <5>1, <4>2, <1>5
      <4> QED
        BY <4>1, <4>2, <2>5, <1>1 DEF Known
    <3>3. \A c \in Chunk : chunkState'[c] # "Unallocated" => c \in DOMAIN allocations'
      BY <2>2, <2>6, <1>1, <1>2 DEF Known, Runs
    <3>4. \A i \in DOMAIN cache' : chunkState'[cache'[i]] = "Unallocated" => at' = "mark" /\ i = nextUid' - 1
      BY <2>6, <1>1, <1>2 DEF Known
    <3> QED
      BY <3>1, <3>2, <3>3, <3>4, <2>5, <2>6 DEF Known
  <2> QED
    BY <2>11, <2>12
<1> QED
  BY <1>7, <1>8, <1>9 DEF Server

\* The oldest lock of a buffer, and the ones behind it.
LEMMA LockFacts ==
  ASSUME Owners, NEW b \in Buffer, lockInfos[b] # <<>>
  PROVE  /\ lockInfos[b] \in Seq(LockInfo) /\ Len(lockInfos[b]) \in Nat /\ Len(lockInfos[b]) >= 1
         /\ Head(lockInfos[b]) = lockInfos[b][1] /\ lockInfos[b][1] \in LockInfo
         /\ Tail(lockInfos[b]) \in Seq(LockInfo) /\ Len(Tail(lockInfos[b])) = Len(lockInfos[b]) - 1
         /\ \A k \in 1 .. Len(lockInfos[b]) - 1 : Tail(lockInfos[b])[k] = lockInfos[b][k + 1]
<1>1. PICK infos \in Seq(LockInfo) : infos = lockInfos[b] /\ infos # <<>>
  <2>1. lockInfos[b] \in Seq(LockInfo)
    BY DEF Owners
  <2> QED
    BY <2>1
<1>2. /\ Len(infos) \in Nat /\ Len(infos) >= 1
      /\ Head(infos) = infos[1] /\ infos[1] \in LockInfo
      /\ Tail(infos) \in Seq(LockInfo) /\ Len(Tail(infos)) = Len(infos) - 1
      /\ \A k \in 1 .. Len(infos) - 1 : Tail(infos)[k] = infos[k + 1]
  BY <1>1
<1> QED
  BY <1>1, <1>2

\* What a buffer has is alive.
LEMMA UsedFacts ==
  ASSUME Owners, NEW b \in Buffer, NEW id \in Nat, Uses(b, id)
  PROVE  Alive(id) /\ Chunks(id, Size[b]) /\ (\A k \in Nat : ~ Msg(k, "Unlock", id))
           /\ \A c \in Buffer : Uses(c, id) => b = c
BY DEF Owners

\* A snapshot's source is a part of its buffer's run.
LEMMA SourceInRun ==
  ASSUME Runs, Called, call.kind = "snapshot", NEW c \in 0 .. call.chunks - 1
  PROVE  /\ call \in Calls /\ at # "idle" /\ call.old \in DOMAIN cache
         /\ cache[call.old] + call.offset + c \in ChunksOf(call.old)
         /\ cache[call.old] + call.offset + c \in Chunk
<1>1. call \in Calls /\ at # "idle"
  BY DEF Called, NoCall
<1>2. call.chunks \in Nat /\ call.offset \in Nat /\ call.buffer \in Buffer /\ Size[call.buffer] \in Nat
  BY <1>1, HeapAssumption DEF Calls
<1>3. /\ call.old \in DOMAIN cache /\ allocations[cache[call.old]] = cache[call.old] + Size[call.buffer] - 1
      /\ call.offset + call.chunks <= Size[call.buffer]
  BY DEF Called, Alive, Chunks
<1>4. cache[call.old] \in Chunk /\ allocations[cache[call.old]] \in Chunk
  BY <1>3 DEF Runs
<1> QED
  BY <1>1, <1>2, <1>3, <1>4, HeapAssumption DEF Chunk, ChunksOf

\* What the client sends, but for new allocations.
ClientSends(msg) ==
  /\ msg \in Command /\ channel' = Append(channel, msg) /\ at # "mark"
  /\ \/ msg.kind = "AddSeg"
     \/ msg.kind \in {"Unlock", "Dealloc"} /\ msg.id \in Nat /\ Alive(msg.id)

\* An unlock sends nothing, or the retirement of what its lock discarded.
LEMMA UnlockSends ==
  ASSUME IndInv, NEW b \in Buffer, Unlock(b)
  PROVE  /\ at = "idle" /\ lockInfos[b] # <<>> /\ lockInfos[b][1] \in LockInfo
         /\ \/ lockInfos[b][1].discarded = InvalidId /\ UNCHANGED channel
            \/ /\ lockInfos[b][1].discarded \in Nat
               /\ ClientSends([kind |-> "Dealloc", id |-> lockInfos[b][1].discarded])
<1>1. Owners
  BY DEF IndInv
<1>2. /\ at = "idle" /\ lockInfos[b] # <<>>
      /\ IF Head(lockInfos[b]).discarded = InvalidId THEN UNCHANGED channel
         ELSE Send([kind |-> "Dealloc", id |-> Head(lockInfos[b]).discarded])
  BY DEF Unlock
<1>3. Head(lockInfos[b]) = lockInfos[b][1] /\ lockInfos[b][1] \in LockInfo /\ Len(lockInfos[b]) \in Nat /\ Len(lockInfos[b]) >= 1
  BY <1>1, <1>2, LockFacts
<1>4. CASE lockInfos[b][1].discarded = InvalidId
  BY <1>2, <1>3, <1>4
<1>5. CASE lockInfos[b][1].discarded # InvalidId
  <2>1. PICK id \in Nat : id = lockInfos[b][1].discarded
    BY <1>3, <1>5 DEF LockInfo, Id
  <2>2. Uses(b, id)
    BY <1>3, <1>5, <2>1 DEF Uses
  <2>3. Alive(id)
    BY <1>1, <2>2, UsedFacts
  <2>4. channel' = Append(channel, [kind |-> "Dealloc", id |-> id])
    BY <1>2, <1>3, <1>5, <2>1 DEF Send
  <2>5. [kind |-> "Dealloc", id |-> id] \in Command
    BY DEF Command
  <2>6. ClientSends([kind |-> "Dealloc", id |-> id])
    BY <1>2, <2>3, <2>4, <2>5 DEF ClientSends
  <2> QED
    BY <1>2, <1>3, <2>1, <2>6
<1> QED
  BY <1>2, <1>3, <1>4, <1>5

\* A destructor sends the retirement of the buffer's allocation.
LEMMA DestroySends ==
  ASSUME IndInv, NEW b \in Buffer, Destroy(b)
  PROVE  /\ at = "idle" /\ bufferId[b] \in Nat /\ Uses(b, bufferId[b])
         /\ ClientSends([kind |-> "Dealloc", id |-> bufferId[b]])
<1>1. Owners /\ at = "idle" /\ bufferId[b] # InvalidId /\ channel' = Append(channel, [kind |-> "Dealloc", id |-> bufferId[b]])
  BY DEF IndInv, Destroy, Send
<1>2. PICK id \in Nat : id = bufferId[b]
  BY <1>1 DEF Owners, Id
<1>3. Uses(b, id)
  BY <1>1, <1>2 DEF Uses
<1>4. Alive(id)
  BY <1>1, <1>3, UsedFacts
<1>5. [kind |-> "Dealloc", id |-> id] \in Command
  BY DEF Command
<1>6. ClientSends([kind |-> "Dealloc", id |-> id])
  BY <1>1, <1>2, <1>4, <1>5 DEF ClientSends
<1> QED
  BY <1>1, <1>2, <1>3, <1>6

-----------------------------------------------------------------------------
(* The sizes of segments *)

\* A set of naturals has a least element, which Min chooses.
LEMMA MinLemma ==
  ASSUME NEW S \in SUBSET Nat, S # {}
  PROVE  Min(S) \in S /\ \A y \in S : Min(S) <= y
<1> DEFINE R == {p \in Nat \X Nat : p[1] < p[2]}
<1>1. IsWellFoundedOn(R, Nat)
  BY NatLessThanWellFounded DEF OpToRel
<1>2. PICK x \in S : \A y \in S : <<y, x>> \notin R
  BY <1>1, WFMin
<1>3. ASSUME NEW y \in S PROVE x <= y
  <2> SUFFICES ASSUME y < x PROVE FALSE
    OBVIOUS
  <2>1. <<y, x>> \in Nat \X Nat /\ <<y, x>>[1] = y /\ <<y, x>>[2] = x
    OBVIOUS
  <2>2. <<y, x>> \in R
    BY <2>1
  <2> QED
    BY <1>2, <2>2
<1> QED
  BY <1>3 DEF Min

\* A power of 2 is positive, and not below its exponent: it counts the sets of 1 .. n.
LEMMA Powers ==
  ASSUME NEW n \in Nat
  PROVE  2 ^ n \in Nat \ {0} /\ 2 ^ n >= n
<1> DEFINE one == [i \in 1 .. n |-> {i}]
<1>1. IsFiniteSet(1 .. n) /\ Cardinality(1 .. n) = n
  BY FS_Interval
<1>2. IsFiniteSet(SUBSET (1 .. n)) /\ Cardinality(SUBSET (1 .. n)) = 2 ^ n
  BY <1>1, FS_SUBSET
<1>3. 2 ^ n \in Nat
  BY <1>2, FS_CardinalityType
<1>4. one \in Injection(1 .. n, SUBSET (1 .. n))
  BY DEF Injection, IsInjective
<1>5. n <= 2 ^ n
  BY <1>1, <1>2, <1>4, FS_Injection
<1>6. 2 ^ n # 0
  <2>1. {} \in SUBSET (1 .. n)
    OBVIOUS
  <2> QED
    BY <2>1, <1>2, FS_EmptySet
<1> QED
  BY <1>3, <1>5, <1>6

\* A quotient is not above what is divided.
LEMMA Quotients ==
  ASSUME NEW m \in Nat, NEW p \in Nat \ {0}
  PROVE  m \div p \in Nat /\ m \div p <= m
<1>1. PICK q \in Int : q = m \div p /\ p * q <= m /\ m < p * q + p
  OBVIOUS
<1>2. q >= 0
  BY <1>1
<1>3. q <= p * q
  BY <1>2
<1> QED
  BY <1>1, <1>2, <1>3

\* The end of the segments is that of the last one.
LEMMA EndFacts ==
  ASSUME NEW segs \in Seq(Segment)
  PROVE  /\ Len(segs) \in Nat /\ End(segs) \in Nat
         /\ End(segs) = IF Len(segs) = 0 THEN 0 ELSE segs[Len(segs)].base + segs[Len(segs)].chunks
         /\ \A k \in 1 .. Len(segs) : segs[k] \in Segment /\ segs[k].base \in Nat /\ segs[k].chunks \in Nat \ {0}
<1>1. Len(segs) \in Nat /\ (segs = <<>> <=> Len(segs) = 0)
  OBVIOUS
<1>2. ASSUME NEW k \in 1 .. Len(segs)
      PROVE segs[k] \in Segment /\ segs[k].base \in Nat /\ segs[k].chunks \in Nat \ {0}
  <2>1. segs[k] \in Segment
    OBVIOUS
  <2> QED
    BY <2>1 DEF Segment
<1>3. End(segs) = IF Len(segs) = 0 THEN 0 ELSE segs[Len(segs)].base + segs[Len(segs)].chunks
  BY <1>1 DEF End, Last
<1>4. End(segs) \in Nat
  <2>1. CASE Len(segs) = 0
    BY <2>1, <1>3
  <2>2. CASE Len(segs) # 0
    <3>1. Len(segs) \in 1 .. Len(segs)
      BY <2>2, <1>1
    <3> QED
      BY <2>2, <3>1, <1>2, <1>3
  <2> QED
    BY <2>1, <2>2
<1> QED
  BY <1>1, <1>2, <1>3, <1>4

\* A new segment fits behind the others.
LEMMA SizeFacts ==
  ASSUME Segments, NEW n \in SegmentSizes
  PROVE  n \in Nat \ {0} /\ End(segments) + n <= HeapLimit
<1>1. End(segments) \in Nat /\ HeapLimit \in Nat /\ defaultSegment \in Nat \ {0} /\ End(segments) <= HeapLimit
  <2>1. /\ segments \in Seq(Segment) /\ defaultSegment \in Nat \ {0}
        /\ \A k \in 1 .. Len(segments) : segments[k].base + segments[k].chunks <= HeapLimit
    BY DEF Segments
  <2>2. /\ End(segments) \in Nat /\ Len(segments) \in Nat
        /\ End(segments) = IF Len(segments) = 0 THEN 0 ELSE segments[Len(segments)].base + segments[Len(segments)].chunks
    BY <2>1, EndFacts
  <2>3. HeapLimit \in Nat
    BY HeapAssumption
  <2> QED
    BY <2>1, <2>2, <2>3
<1>2. PICK least \in Nat : least = Min({HeapLimit - End(segments), defaultSegment}) /\ least <= HeapLimit - End(segments)
  <2>1. {HeapLimit - End(segments), defaultSegment} \in SUBSET Nat
    BY <1>1
  <2> QED
    BY <2>1, MinLemma
<1>3. n # 0 /\ n \in {least \div 2 ^ k : k \in 0 .. HeapLimit}
  BY <1>2 DEF SegmentSizes
<1>4. PICK k \in 0 .. HeapLimit : n = least \div 2 ^ k
  BY <1>3
<1>5. k \in Nat
  BY <1>1
<1>6. n \in Nat /\ n <= least
  <2>1. 2 ^ k \in Nat \ {0}
    BY <1>5, Powers
  <2> QED
    BY <2>1, <1>4, Quotients
<1> QED
  BY <1>1, <1>2, <1>3, <1>6

\* The default size stays positive.
LEMMA DoubledFacts ==
  ASSUME defaultSegment \in Nat \ {0}, NEW n \in Nat \ {0}
  PROVE  Doubled(n) \in Nat \ {0}
<1> DEFINE sizes == {m \in {defaultSegment * 2 ^ k : k \in 0 .. n} : m >= n}
<1>1. PICK d \in Nat \ {0} : d = defaultSegment
  OBVIOUS
<1>2. \A k \in 0 .. n : 2 ^ k \in Nat \ {0}
  <2>1. \A k \in 0 .. n : k \in Nat
    OBVIOUS
  <2> QED
    BY <2>1, Powers
<1>3. ASSUME NEW p \in Nat \ {0} PROVE d * p \in Nat \ {0} /\ d * p >= p
  OBVIOUS
<1>4. ASSUME NEW m \in sizes PROVE m \in Nat \ {0} /\ m >= n
  <2>1. PICK k \in 0 .. n : m = d * 2 ^ k
    BY <1>1
  <2>2. 2 ^ k \in Nat \ {0}
    BY <1>2
  <2> QED
    BY <2>1, <2>2, <1>3
<1>5. sizes # {}
  <2>1. 2 ^ n \in Nat \ {0} /\ 2 ^ n >= n
    BY Powers
  <2>2. d * 2 ^ n >= n
    BY <2>1, <1>3
  <2>3. n \in 0 .. n
    OBVIOUS
  <2>4. defaultSegment * 2 ^ n \in sizes
    BY <1>1, <2>2, <2>3
  <2> QED
    BY <2>4
<1>6. sizes \in SUBSET Nat
  BY <1>4
<1>7. Min(sizes) \in sizes
  BY <1>5, <1>6, MinLemma
<1> QED
  BY <1>4, <1>7 DEF Doubled

\* A growing heap tells the server of its new segment.
LEMMA GrowFacts ==
  ASSUME IndInv, Grow
  PROVE  /\ at = "grow" /\ at' \in {"wait", "search"}
         /\ \/ UNCHANGED <<segments, channel>>
            \/ \E n \in Nat \ {0} :
                 /\ End(segments) + n <= HeapLimit
                 /\ segments' = Append(segments, [base |-> End(segments), chunks |-> n])
                 /\ ClientSends([kind |-> "AddSeg", chunks |-> n])
<1>1. /\ at = "grow"
      /\ \/ at' = "wait" /\ UNCHANGED <<segments, channel>>
         \/ \E n \in SegmentSizes :
              /\ Send([kind |-> "AddSeg", chunks |-> n])
              /\ segments' = Added(segments, n)
              /\ at' = "search"
  BY DEF Grow
<1>2. ASSUME NEW n \in SegmentSizes, Send([kind |-> "AddSeg", chunks |-> n]), segments' = Added(segments, n)
      PROVE /\ n \in Nat \ {0} /\ End(segments) + n <= HeapLimit
            /\ segments' = Append(segments, [base |-> End(segments), chunks |-> n])
            /\ ClientSends([kind |-> "AddSeg", chunks |-> n])
  <2>1. n \in Nat \ {0} /\ End(segments) + n <= HeapLimit
    BY SizeFacts DEF IndInv
  <2>2. [kind |-> "AddSeg", chunks |-> n] \in Command
    BY <2>1 DEF Command
  <2> QED
    BY <2>1, <2>2, <1>1, <1>2 DEF Send, Added, ClientSends
<1> QED
  BY <1>1, <1>2

\* An upload sends the snapshot's id with the data of its source.
LEMMA UploadSends ==
  ASSUME IndInv, Upload
  PROVE  \E msg \in Command :
           /\ msg.kind = "Unlock" /\ msg.id = nextUid - 1 /\ ClientSends(msg)
           /\ DOMAIN msg.data = 0 .. call.chunks - 1
           /\ \A c \in 0 .. call.chunks - 1 : msg.data[c] = Copied(c)
<1>1. /\ at = "upload" /\ Runs /\ Called /\ Made /\ Uploaded
      /\ channel' = Append(channel, [kind |-> "Unlock", id |-> nextUid - 1,
           data |-> [k \in 0 .. call.chunks - 1 |-> memory[cache[call.old] + call.offset + k]]])
  BY DEF IndInv, Upload, Goes, Send
<1> DEFINE data == [k \in 0 .. call.chunks - 1 |-> memory[cache[call.old] + call.offset + k]]
           msg == [kind |-> "Unlock", id |-> nextUid - 1, data |-> data]
<1>2. call \in Calls /\ call.kind = "snapshot" /\ call.chunks \in Nat
  BY <1>1 DEF Called, Calls
<1>3. data \in [0 .. call.chunks - 1 -> Value]
  <2>1. \A k \in 0 .. call.chunks - 1 : cache[call.old] + call.offset + k \in Chunk
    BY <1>1, <1>2, SourceInRun
  <2>2. memory \in [Chunk -> Value]
    BY <1>1 DEF Uploaded
  <2> QED
    BY <2>1, <2>2
<1>4. nextUid - 1 \in Nat /\ Alive(nextUid - 1)
  <2>1. nextUid - 1 \in DOMAIN cache /\ chunkState[cache[nextUid - 1]] = "Allocated"
    BY <1>1 DEF Made
  <2> QED
    BY <2>1, <1>1 DEF Runs, Made, Alive
<1>5. msg \in Command
  <2> HIDE DEF data
  <2>1. call.chunks \in 1 .. HeapLimit
    <3>1. /\ allocations[cache[nextUid - 1]] = cache[nextUid - 1] + call.chunks - 1
          /\ nextUid - 1 \in DOMAIN cache
      BY <1>1 DEF Made, Chunks
    <3>2. cache[nextUid - 1] \in Chunk /\ allocations[cache[nextUid - 1]] \in Chunk
      BY <1>1, <3>1 DEF Runs
    <3>3. call.chunks \in Nat \ {0}
      BY <1>2 DEF Calls
    <3> QED
      BY <3>1, <3>2, <3>3, HeapAssumption DEF Chunk
  <2>2. data \in Data
    BY <1>3, <2>1 DEF Data
  <2> QED
    BY <2>2, <1>4 DEF Command
<1>6. ClientSends(msg)
  BY <1>1, <1>4, <1>5 DEF ClientSends
<1> QED
  BY <1>5, <1>6 DEF Copied

\* A snapshot is retired behind its upload.
LEMMA RetireSends ==
  ASSUME IndInv, RetireSnapshot
  PROVE  at = "retire" /\ nextUid - 1 \in Nat /\ ClientSends([kind |-> "Dealloc", id |-> nextUid - 1])
<1>1. /\ at = "retire" /\ Runs /\ Made
      /\ channel' = Append(channel, [kind |-> "Dealloc", id |-> nextUid - 1])
  BY DEF IndInv, RetireSnapshot, Goes, Send
<1>2. nextUid - 1 \in Nat /\ Alive(nextUid - 1)
  <2>1. nextUid - 1 \in DOMAIN cache /\ chunkState[cache[nextUid - 1]] = "Allocated"
    BY <1>1 DEF Made
  <2> QED
    BY <2>1, <1>1 DEF Runs, Made, Alive
<1>3. [kind |-> "Dealloc", id |-> nextUid - 1] \in Command
  BY <1>2 DEF Command
<1> QED
  BY <1>1, <1>2, <1>3 DEF ClientSends

\* The steps of the client that announce, mark and free nothing: they send one
\* command or none, and leave the books and the states alone.
LEMMA ClientQuiet ==
  ASSUME IndInv, [Next]_vars, ~ Server, ~ Announce, ~ Mark, ~ FreeDeallocations
  PROVE  /\ UNCHANGED <<nextUid, cache, allocations, serverCache, serverSegments, chunkState>>
         /\ at = "mark" => at' = at
         /\ UNCHANGED channel \/ \E msg \in Command : ClientSends(msg) /\ (~ Grow => msg.kind # "AddSeg")
<1> USE DEF heap, server, shared, buffers, search
<1> HIDE DEF IndInv
<1>1. CASE \E b \in Buffer : GameWrites(b) \/ \E discard \in BOOLEAN : Lock(b, discard)
  BY <1>1 DEF GameWrites, Lock
<1>2. ASSUME NEW b \in Buffer, Unlock(b)
      PROVE  /\ UNCHANGED <<nextUid, cache, allocations, serverCache, serverSegments, chunkState>>
             /\ at # "mark"
             /\ UNCHANGED channel \/ \E msg \in Command : ClientSends(msg) /\ (~ Grow => msg.kind # "AddSeg")
  <2>1. UNCHANGED <<nextUid, cache, allocations, serverCache, serverSegments, chunkState>>
    BY <1>2 DEF Unlock
  <2>2. /\ at = "idle"
        /\ \/ UNCHANGED channel
           \/ ClientSends([kind |-> "Dealloc", id |-> lockInfos[b][1].discarded])
    BY <1>2, UnlockSends
  <2> QED
    BY <2>1, <2>2 DEF ClientSends
<1>3. ASSUME NEW b \in Buffer, Destroy(b)
      PROVE  /\ UNCHANGED <<nextUid, cache, allocations, serverCache, serverSegments, chunkState>>
             /\ at # "mark" /\ \E msg \in Command : ClientSends(msg) /\ (~ Grow => msg.kind # "AddSeg")
  <2>1. UNCHANGED <<nextUid, cache, allocations, serverCache, serverSegments, chunkState>>
    BY <1>3 DEF Destroy
  <2>2. at = "idle" /\ ClientSends([kind |-> "Dealloc", id |-> bufferId[b]])
    BY <1>3, DestroySends
  <2> QED
    BY <2>1, <2>2 DEF ClientSends
<1>4. CASE Allocate \/ FindAgain \/ FindInNew \/ Again \/ TimesOut
  BY <1>4 DEF Allocate, FindAgain, FindInNew, Again, TimesOut, Goes
<1>5. CASE Grow
  <2>1. UNCHANGED <<nextUid, cache, allocations, serverCache, serverSegments, chunkState>>
    BY <1>5 DEF Grow
  <2>2. at = "grow" /\ (UNCHANGED channel \/ \E n \in Nat \ {0} : ClientSends([kind |-> "AddSeg", chunks |-> n]))
    BY <1>5, GrowFacts
  <2>3. UNCHANGED channel \/ \E msg \in Command : ClientSends(msg)
    BY <2>2 DEF ClientSends
  <2> QED
    BY <2>1, <2>2, <2>3, <1>5
<1>6. CASE Upload
  <2>1. UNCHANGED <<nextUid, cache, allocations, serverCache, serverSegments, chunkState>> /\ at = "upload"
    BY <1>6 DEF Upload, Goes
  <2>2. \E msg \in Command : ClientSends(msg) /\ (~ Grow => msg.kind # "AddSeg")
    BY <1>6, UploadSends
  <2> QED
    BY <2>1, <2>2
<1>7. CASE RetireSnapshot
  <2>1. UNCHANGED <<nextUid, cache, allocations, serverCache, serverSegments, chunkState>>
    BY <1>7 DEF RetireSnapshot
  <2>2. at = "retire" /\ ClientSends([kind |-> "Dealloc", id |-> nextUid - 1])
    BY <1>7, RetireSends
  <2> QED
    BY <2>1, <2>2 DEF ClientSends
<1>8. CASE UNCHANGED vars
  BY <1>8 DEF vars
<1> QED
  BY <1>1, <1>2, <1>3, <1>4, <1>5, <1>6, <1>7, <1>8 DEF Next, InCall

\* Commands stay about allocations that live, and the server's books true.
LEMMA OrderKept ==
  ASSUME IndInv, [Next]_vars
  PROVE  Ordered' /\ Known'
<1>1. CASE Server
  BY <1>1, ServerKeepsOrder
<1>2. CASE Announce
  BY <1>2, AnnounceKeepsOrder
<1>3. CASE Mark
  BY <1>3, MarkKeepsOrder
<1>4. CASE FreeDeallocations
  BY <1>4, FreeKeepsOrder
<1>5. CASE ~ Server /\ ~ Announce /\ ~ Mark /\ ~ FreeDeallocations
  <2>1. /\ UNCHANGED <<nextUid, cache, allocations, serverCache, serverSegments, chunkState>>
        /\ at = "mark" => at' = at
        /\ UNCHANGED channel \/ \E msg \in Command : ClientSends(msg) /\ (~ Grow => msg.kind # "AddSeg")
    BY <1>5, ClientQuiet
  <2>2. Ordered /\ Known
    BY DEF IndInv
  <2>3. CASE UNCHANGED channel
    BY <2>1, <2>2, <2>3, QuietKeepsOrder
  <2>4. ASSUME NEW msg \in Command, ClientSends(msg) PROVE Ordered' /\ Known'
    BY <2>1, <2>2, <2>4, SendKeepsOrder DEF ClientSends
  <2> QED
    BY <2>1, <2>3, <2>4
<1> QED
  BY <1>1, <1>2, <1>3, <1>4, <1>5

-----------------------------------------------------------------------------
(* The segments of both sides *)

\* What is not retired stays within its segment, while the heap grows at its end.
LEMMA InsideStays ==
  ASSUME IndInv, [Next]_vars, segments' \in Seq(Segment), Len(segments) <= Len(segments'),
         \A k \in 1 .. Len(segments) : segments'[k] = segments[k],
         NEW id \in DOMAIN cache, chunkState[cache[id]] # "Deallocated",
         NEW n \in Nat, Inside(id, n)
  PROVE  Inside(id, n)'
<1>1. Stays(id) /\ segments \in Seq(Segment)
  BY AllocationsStay DEF IndInv, Segments
<1>2. PICK s \in 1 .. Len(segments) :
        /\ s <= n
        /\ segments[s].base <= cache[id] /\ allocations[cache[id]] < segments[s].base + segments[s].chunks
  BY DEF Inside
<1>3. Len(segments) \in Nat /\ Len(segments') \in Nat
  BY <1>1
<1>4. s \in 1 .. Len(segments') /\ segments'[s] = segments[s]
  BY <1>2, <1>3
<1>5. cache'[id] = cache[id] /\ allocations'[cache[id]] = allocations[cache[id]]
  BY <1>1 DEF Stays
<1>6. segments'[s].base <= cache'[id] /\ allocations'[cache'[id]] < segments'[s].base + segments'[s].chunks
  BY <1>2, <1>4, <1>5
<1> QED
  BY <1>2, <1>4, <1>6 DEF Inside

\* What the server knows stays within the segments it has.
LEMMA ServerInside ==
  ASSUME IndInv, [Next]_vars, segments' \in Seq(Segment), Len(segments) <= Len(segments'),
         \A k \in 1 .. Len(segments) : segments'[k] = segments[k], NEW n \in Nat, Len(serverSegments) <= n
  PROVE  \A id \in DOMAIN serverCache : Inside(id, n)'
<1> SUFFICES ASSUME NEW id \in DOMAIN serverCache PROVE Inside(id, n)'
  OBVIOUS
<1>1. id \in DOMAIN cache /\ chunkState[cache[id]] # "Deallocated"
  BY DEF IndInv, Known
<1>2. Inside(id, Len(serverSegments)) /\ serverSegments \in Seq(Segment)
  BY DEF IndInv, Segments
<1>3. Inside(id, n)
  BY <1>2 DEF Inside
<1> QED
  BY <1>1, <1>3, InsideStays

\* The way of the segments to the server, when a command is sent behind the others.
LEMMA SendKeepsWay ==
  ASSUME IndInv, [Next]_vars, NEW msg \in Command, channel' = Append(channel, msg),
         serverSegments' = serverSegments, segments' \in Seq(Segment),
         Len(segments') = Len(segments) + (IF msg.kind = "AddSeg" THEN 1 ELSE 0),
         \A k \in 1 .. Len(segments) : segments'[k] = segments[k],
         msg.kind = "AddSeg" => msg.chunks = segments'[Len(segments')].chunks,
         msg.kind = "Alloc" => \A n \in Nat : n = Len(segments) => Inside(msg.id, n)'
  PROVE  TheSegments'
<1>1. /\ channel' \in Seq(Command) /\ Len(channel) \in Nat /\ Len(channel') = Len(channel) + 1
      /\ \A k \in 1 .. Len(channel) : channel'[k] = channel[k]
      /\ channel'[Len(channel) + 1] = msg
      /\ \A k \in Nat : \A kind, id :
           Msg(k, kind, id)' <=> \/ Msg(k, kind, id)
                                 \/ k = Len(channel) + 1 /\ msg.kind = kind /\ msg.id = id
  BY SendFacts DEF IndInv, Ordered
<1>2. PICK l \in Nat : l = Len(channel)
  BY <1>1
<1>3. segments \in Seq(Segment) /\ Len(segments) \in Nat /\ Len(segments') \in Nat /\ Len(segments) <= Len(segments')
  BY DEF IndInv, Segments
<1>4. PICK reached \in [1 .. l + 1 -> Nat] :
        /\ reached[1] = Len(serverSegments) /\ reached[l + 1] = Len(segments)
        /\ \A k \in 1 .. l :
             IF channel[k].kind = "AddSeg"
             THEN /\ reached[k + 1] = reached[k] + 1 /\ reached[k + 1] <= Len(segments)
                  /\ channel[k].chunks = segments[reached[k + 1]].chunks
             ELSE reached[k + 1] = reached[k]
        /\ \A k, id \in Nat : Msg(k, "Alloc", id) => Inside(id, reached[k])
  BY <1>2 DEF IndInv, TheSegments, Reaches
<1>5. PICK next \in [1 .. l + 2 -> Nat] : next[l + 2] = Len(segments') /\ \A k \in 1 .. l + 1 : next[k] = reached[k]
  <2> DEFINE longer == [k \in 1 .. l + 2 |-> IF k = l + 2 THEN Len(segments') ELSE reached[k]]
  <2>1. longer \in [1 .. l + 2 -> Nat] /\ longer[l + 2] = Len(segments') /\ \A k \in 1 .. l + 1 : longer[k] = reached[k]
    BY <1>3
  <2> QED
    BY <2>1
<1>6. next[1] = Len(serverSegments') /\ next[l + 2] = Len(segments') /\ next[l + 1] = Len(segments)
  BY <1>4, <1>5
<1>7. ASSUME NEW k \in 1 .. l + 1
      PROVE IF channel'[k].kind = "AddSeg"
            THEN /\ next[k + 1] = next[k] + 1 /\ next[k + 1] <= Len(segments')
                 /\ channel'[k].chunks = segments'[next[k + 1]].chunks
            ELSE next[k + 1] = next[k]
  <2>1. CASE k \in 1 .. l
    <3>1. channel'[k] = channel[k] /\ next[k + 1] = reached[k + 1] /\ next[k] = reached[k] /\ reached[k] \in Nat
      <4>1. k \in 1 .. l + 1 /\ k + 1 \in 1 .. l + 1
        BY <2>1
      <4> QED
        BY <4>1, <2>1, <1>1, <1>2, <1>5
    <3>2. CASE channel[k].kind = "AddSeg"
      <4>1. /\ reached[k + 1] = reached[k] + 1 /\ reached[k + 1] <= Len(segments)
            /\ channel[k].chunks = segments[reached[k + 1]].chunks
        BY <2>1, <3>2, <1>4
      <4>2. reached[k + 1] \in 1 .. Len(segments)
        BY SMTT(30), <3>1, <4>1, <1>3
      <4> QED
        BY SMTT(30), <3>1, <3>2, <4>1, <4>2, <1>3
    <3>3. CASE channel[k].kind # "AddSeg"
      BY <2>1, <3>1, <3>3, <1>4
    <3> QED
      BY <3>2, <3>3
  <2>2. CASE k = l + 1
    <3>1. channel'[k] = msg /\ next[k + 1] = Len(segments') /\ next[k] = Len(segments)
      BY <2>2, <1>1, <1>2, <1>6
    <3> QED
      BY <3>1, <1>3
  <2>3. k \in 1 .. l \/ k = l + 1
    OBVIOUS
  <2> QED
    BY <2>1, <2>2, <2>3
<1>8. ASSUME NEW k \in Nat, NEW id \in Nat, Msg(k, "Alloc", id)' PROVE Inside(id, next[k])'
  <2>1. CASE Msg(k, "Alloc", id)
    <3>1. k \in 1 .. l
      BY <2>1, <1>2 DEF Msg
    <3>2. PICK n \in Nat : n = reached[k] /\ n = next[k]
      BY <3>1, <1>4, <1>5
    <3>3. Inside(id, n)
      BY <2>1, <3>2, <1>4
    <3>4. id \in DOMAIN cache /\ chunkState[cache[id]] # "Deallocated"
      BY <2>1 DEF IndInv, Ordered
    <3>5. Inside(id, n)'
      BY <3>3, <3>4, <1>3, InsideStays
    <3> QED
      BY <3>2, <3>5
  <2>2. CASE k = l + 1 /\ msg.kind = "Alloc" /\ msg.id = id
    BY <2>2, <1>3, <1>6
  <2> QED
    BY <2>1, <2>2, <1>1, <1>2, <1>8
<1>9. Len(channel') = l + 1
  BY <1>1, <1>2
<1>10. next \in [1 .. Len(channel') + 1 -> Nat] /\ next[Len(channel') + 1] = Len(segments')
  BY <1>5, <1>6, <1>9
<1>11. Reaches(next)'
  BY Zenon, <1>6, <1>7, <1>8, <1>9, <1>10 DEF Reaches
<1> QED
  BY <1>10, <1>11 DEF TheSegments

\* (The server executes the command in front.)
LEMMA TakeKeepsWay ==
  ASSUME IndInv, [Next]_vars, channel # <<>>, channel' = Tail(channel), segments' = segments,
         Len(serverSegments') = Len(serverSegments) + (IF channel[1].kind = "AddSeg" THEN 1 ELSE 0)
  PROVE  /\ TheSegments'
         /\ channel[1].kind = "AddSeg" =>
              /\ Len(serverSegments) + 1 <= Len(segments)
              /\ channel[1].chunks = segments[Len(serverSegments) + 1].chunks
         /\ \A id \in Nat : Msg(1, "Alloc", id) => Inside(id, Len(serverSegments))
<1>1. /\ channel' \in Seq(Command) /\ Len(channel) \in Nat /\ Len(channel) >= 1
      /\ Len(channel') = Len(channel) - 1
      /\ \A k \in 1 .. Len(channel') : channel'[k] = channel[k + 1]
      /\ \A k \in Nat : \A kind, id : Msg(k, kind, id)' <=> k >= 1 /\ Msg(k + 1, kind, id)
  BY TakeFacts DEF IndInv, Ordered
<1>2. PICK l \in Nat : l = Len(channel') /\ Len(channel) = l + 1
  <2>1. Len(channel') \in Nat /\ Len(channel) = Len(channel') + 1
    BY <1>1
  <2> QED
    BY Zenon, <2>1
<1>3. segments \in Seq(Segment) /\ serverSegments \in Seq(Segment) /\ Len(segments) \in Nat /\ Len(serverSegments) \in Nat
  BY DEF IndInv, Segments
<1>4. PICK reached \in [1 .. l + 2 -> Nat] :
        /\ reached[1] = Len(serverSegments) /\ reached[l + 2] = Len(segments)
        /\ \A k \in 1 .. l + 1 :
             IF channel[k].kind = "AddSeg"
             THEN /\ reached[k + 1] = reached[k] + 1 /\ reached[k + 1] <= Len(segments)
                  /\ channel[k].chunks = segments[reached[k + 1]].chunks
             ELSE reached[k + 1] = reached[k]
        /\ \A k, id \in Nat : Msg(k, "Alloc", id) => Inside(id, reached[k])
  <2>1. PICK r \in [1 .. Len(channel) + 1 -> Nat] : Reaches(r)
    BY DEF IndInv, TheSegments
  <2>2. Len(channel) + 1 = l + 2
    BY <1>2
  <2>3. r \in [1 .. l + 2 -> Nat] /\ r[1] = Len(serverSegments) /\ r[l + 2] = Len(segments)
    BY <2>1, <2>2 DEF Reaches
  <2>4. /\ \A k \in 1 .. l + 1 :
             IF channel[k].kind = "AddSeg"
             THEN /\ r[k + 1] = r[k] + 1 /\ r[k + 1] <= Len(segments)
                  /\ channel[k].chunks = segments[r[k + 1]].chunks
             ELSE r[k + 1] = r[k]
        /\ \A k, id \in Nat : Msg(k, "Alloc", id) => Inside(id, r[k])
    BY <2>1, <1>2 DEF Reaches
  <2> QED
    BY <2>3, <2>4
<1>5. PICK next \in [1 .. l + 1 -> Nat] : \A k \in 1 .. l + 1 : next[k] = reached[k + 1]
  <2> DEFINE shorter == [k \in 1 .. l + 1 |-> reached[k + 1]]
  <2>1. shorter \in [1 .. l + 1 -> Nat] /\ \A k \in 1 .. l + 1 : shorter[k] = reached[k + 1]
    OBVIOUS
  <2> QED
    BY <2>1
<1>6. next[1] = Len(serverSegments') /\ next[l + 1] = Len(segments')
  <2>1. 1 \in 1 .. l + 1 /\ l + 1 \in 1 .. l + 1
    OBVIOUS
  <2>2. next[1] = reached[2] /\ next[l + 1] = reached[l + 2]
    BY <2>1, <1>5
  <2>3. reached[2] = reached[1] + (IF channel[1].kind = "AddSeg" THEN 1 ELSE 0)
    BY <2>1, <1>4
  <2> QED
    BY <2>2, <2>3, <1>4
<1>7. ASSUME NEW k \in 1 .. l
      PROVE IF channel'[k].kind = "AddSeg"
            THEN /\ next[k + 1] = next[k] + 1 /\ next[k + 1] <= Len(segments')
                 /\ channel'[k].chunks = segments'[next[k + 1]].chunks
            ELSE next[k + 1] = next[k]
  <2>1. k \in 1 .. l + 1 /\ k + 1 \in 1 .. l + 1
    OBVIOUS
  <2>2. channel'[k] = channel[k + 1] /\ next[k] = reached[k + 1] /\ next[k + 1] = reached[(k + 1) + 1]
    BY <2>1, <1>1, <1>2, <1>5
  <2>3. IF channel[k + 1].kind = "AddSeg"
        THEN /\ reached[(k + 1) + 1] = reached[k + 1] + 1 /\ reached[(k + 1) + 1] <= Len(segments)
             /\ channel[k + 1].chunks = segments[reached[(k + 1) + 1]].chunks
        ELSE reached[(k + 1) + 1] = reached[k + 1]
    BY <2>1, <1>4
  <2> QED
    BY <2>2, <2>3
<1>8. ASSUME NEW k \in Nat, NEW id \in Nat, Msg(k, "Alloc", id)' PROVE Inside(id, next[k])'
  <2>1. k >= 1 /\ k + 1 \in Nat /\ Msg(k + 1, "Alloc", id)
    BY SMTT(30), <1>1, <1>8
  <2>2. k \in 1 .. l + 1
    BY <2>1, <1>2 DEF Msg
  <2>3. PICK n \in Nat : n = reached[k + 1] /\ n = next[k]
    BY <2>2, <1>5
  <2>4. Inside(id, n)
    BY <2>1, <2>3, <1>4
  <2>5. id \in DOMAIN cache /\ chunkState[cache[id]] # "Deallocated"
    BY <2>1 DEF IndInv, Ordered
  <2>6. Inside(id, n)'
    BY <2>4, <2>5, <1>3, InsideStays
  <2> QED
    BY <2>3, <2>6
<1>9. Len(channel') + 1 = l + 1
  BY <1>2
<1>10. next \in [1 .. Len(channel') + 1 -> Nat] /\ next[Len(channel') + 1] = Len(segments')
  BY <1>6, <1>9
<1>11. Reaches(next)'
  BY <1>2, <1>6, <1>7, <1>8, <1>10 DEF Reaches
<1>12. TheSegments'
  BY <1>10, <1>11 DEF TheSegments
<1>13. channel[1].kind = "AddSeg" =>
         /\ Len(serverSegments) + 1 <= Len(segments)
         /\ channel[1].chunks = segments[Len(serverSegments) + 1].chunks
  <2>1. 1 \in 1 .. l + 1
    OBVIOUS
  <2> QED
    BY <2>1, <1>4
<1>14. \A id \in Nat : Msg(1, "Alloc", id) => Inside(id, Len(serverSegments))
  <2>1. 1 \in Nat
    OBVIOUS
  <2> QED
    BY <2>1, <1>4
<1> QED
  BY <1>12, <1>13, <1>14

\* (Nothing is sent or executed.)
LEMMA QuietKeepsWay ==
  ASSUME IndInv, [Next]_vars, channel' = channel, segments' = segments, serverSegments' = serverSegments
  PROVE  TheSegments'
<1>1. segments \in Seq(Segment) /\ Len(segments) \in Nat
  BY DEF IndInv, Segments
<1>2. PICK reached \in [1 .. Len(channel) + 1 -> Nat] : Reaches(reached)
  BY DEF IndInv, TheSegments
<1>3. ASSUME NEW k \in Nat, NEW id \in Nat, Msg(k, "Alloc", id)' PROVE Inside(id, reached[k])'
  <2>1. Msg(k, "Alloc", id)
    BY <1>3 DEF Msg
  <2>2. k \in 1 .. Len(channel) + 1
    BY <2>1 DEF Msg, IndInv, Ordered
  <2>3. PICK n \in Nat : n = reached[k]
    BY <2>2, <1>2
  <2>4. Inside(id, n)
    BY <2>1, <2>3, <1>2 DEF Reaches
  <2>5. id \in DOMAIN cache /\ chunkState[cache[id]] # "Deallocated"
    BY <2>1 DEF IndInv, Ordered
  <2>6. Inside(id, n)'
    BY <2>4, <2>5, <1>1, InsideStays
  <2> QED
    BY <2>3, <2>6
<1>4. reached \in [1 .. Len(channel') + 1 -> Nat] /\ reached[1] = Len(serverSegments') /\ reached[Len(channel') + 1] = Len(segments')
  BY <1>2 DEF Reaches
<1>5. \A k \in 1 .. Len(channel') :
        IF channel'[k].kind = "AddSeg"
        THEN /\ reached[k + 1] = reached[k] + 1 /\ reached[k + 1] <= Len(segments')
             /\ channel'[k].chunks = segments'[reached[k + 1]].chunks
        ELSE reached[k + 1] = reached[k]
  BY <1>2 DEF Reaches
<1>6. Reaches(reached)'
  BY <1>3, <1>4, <1>5 DEF Reaches
<1> QED
  BY <1>4, <1>6 DEF TheSegments

\* Neither side's list changes but by a new segment, which both take from the same end.
LEMMA SegmentsQuiet ==
  ASSUME IndInv, [Next]_vars
  PROVE  /\ ~ Grow => UNCHANGED segments
         /\ ~ ServerAddSeg => UNCHANGED serverSegments
         /\ defaultSegment' \in Nat \ {0}
<1> USE DEF heap, server, shared, buffers, search
<1>1. defaultSegment \in Nat \ {0}
  BY DEF IndInv, Segments
<1> HIDE DEF IndInv
<1>2. CASE \E b \in Buffer : GameWrites(b) \/ Unlock(b) \/ Destroy(b) \/ \E discard \in BOOLEAN : Lock(b, discard)
  BY <1>1, <1>2 DEF GameWrites, Lock, Unlock, Destroy
<1>3. CASE Allocate
  <2>1. at = "allocate" /\ defaultSegment' = Doubled(call.chunks) /\ UNCHANGED <<segments, serverSegments>>
    BY <1>3 DEF Allocate
  <2>2. call.chunks \in Nat \ {0}
    BY <2>1 DEF IndInv, Called, Calls
  <2>3. defaultSegment' \in Nat \ {0}
    BY <1>1, <2>1, <2>2, DoubledFacts
  <2> QED
    BY <2>1, <2>3
<1>4. CASE FreeDeallocations \/ FindAgain \/ Grow \/ FindInNew \/ Again \/ TimesOut \/ Announce
             \/ Mark \/ Upload \/ RetireSnapshot
  BY <1>1, <1>4 DEF FreeDeallocations, FindAgain, Grow, FindInNew, Again, TimesOut, Announce,
                    Mark, Upload, RetireSnapshot
<1>5. CASE Server
  BY <1>1, <1>5 DEF Server, ServerAddSeg, ServerAlloc, ServerUnlock, ServerDealloc
<1>6. CASE UNCHANGED vars
  BY <1>1, <1>6 DEF vars
<1> QED
  BY <1>2, <1>3, <1>4, <1>5, <1>6 DEF Next, InCall

\* A new segment lies behind the others, and its command behind the other commands.
LEMMA GrowKeepsSegments ==
  ASSUME IndInv, [Next]_vars, Grow, ~ UNCHANGED segments
  PROVE  Segments' /\ TheSegments'
<1>1. PICK n \in Nat \ {0} :
        /\ End(segments) + n <= HeapLimit
        /\ segments' = Append(segments, [base |-> End(segments), chunks |-> n])
        /\ ClientSends([kind |-> "AddSeg", chunks |-> n])
  BY GrowFacts
<1>2. UNCHANGED <<serverSegments, serverCache>> /\ defaultSegment' = defaultSegment
  BY DEF Grow, server
<1>3. /\ segments \in Seq(Segment) /\ serverSegments \in Seq(Segment) /\ defaultSegment \in Nat \ {0}
      /\ Len(serverSegments) <= Len(segments) /\ Len(serverSegments) \in Nat
      /\ \A k \in 1 .. Len(serverSegments) : serverSegments[k] = segments[k]
      /\ \A k \in 1 .. Len(segments) :
           /\ segments[k].base = IF k = 1 THEN 0 ELSE segments[k - 1].base + segments[k - 1].chunks
           /\ segments[k].base + segments[k].chunks <= HeapLimit
  BY DEF IndInv, Segments
<1>4. PICK l \in Nat : l = Len(segments)
  BY <1>3
<1>5. /\ End(segments) \in Nat
      /\ End(segments) = IF l = 0 THEN 0 ELSE segments[l].base + segments[l].chunks
  BY <1>3, <1>4, EndFacts
<1>6. PICK new \in Segment : new = [base |-> End(segments), chunks |-> n]
  BY <1>5 DEF Segment
<1>7. /\ segments' \in Seq(Segment) /\ Len(segments') = l + 1 /\ segments'[l + 1] = new
      /\ \A k \in 1 .. l : segments'[k] = segments[k]
  BY <1>1, <1>3, <1>4, <1>6
<1>8. \A k \in 1 .. Len(segments') :
        /\ segments'[k].base = IF k = 1 THEN 0 ELSE segments'[k - 1].base + segments'[k - 1].chunks
        /\ segments'[k].base + segments'[k].chunks <= HeapLimit
  <2> SUFFICES ASSUME NEW k \in 1 .. l + 1
               PROVE /\ segments'[k].base = IF k = 1 THEN 0 ELSE segments'[k - 1].base + segments'[k - 1].chunks
                     /\ segments'[k].base + segments'[k].chunks <= HeapLimit
    BY <1>7
  <2>1. CASE k \in 1 .. l
    <3>1. segments'[k] = segments[k] /\ (k # 1 => k - 1 \in 1 .. l /\ segments'[k - 1] = segments[k - 1])
      BY <2>1, <1>7
    <3> QED
      BY <2>1, <3>1, <1>3, <1>4
  <2>2. CASE k = l + 1
    <3>1. segments'[k] = new /\ new.base = End(segments) /\ new.chunks = n
      BY <2>2, <1>6, <1>7
    <3>2. l # 0 => k # 1 /\ k - 1 = l /\ segments'[l] = segments[l]
      BY <2>2, <1>7
    <3>3. l = 0 => k = 1
      BY <2>2
    <3> QED
      BY <3>1, <3>2, <3>3, <1>1, <1>5
  <2>3. k \in 1 .. l \/ k = l + 1
    OBVIOUS
  <2> QED
    BY <2>1, <2>2, <2>3
<1>9. (\A id \in DOMAIN serverCache : Inside(id, Len(serverSegments)))'
  <2>1. PICK last \in Nat : last = Len(serverSegments)
    BY <1>3
  <2>2. \A id \in DOMAIN serverCache : Inside(id, last)'
    BY <2>1, <1>3, <1>4, <1>7, ServerInside
  <2> QED
    BY <2>1, <2>2, <1>2
<1>10. Segments'
  <2>1. Len(serverSegments') <= Len(segments') /\ \A k \in 1 .. Len(serverSegments') : serverSegments'[k] = segments'[k]
    <3>1. \A k \in 1 .. Len(serverSegments) : k \in 1 .. l
      BY <1>3, <1>4
    <3> QED
      BY <3>1, <1>2, <1>3, <1>4, <1>7
  <2> QED
    BY <2>1, <1>2, <1>3, <1>7, <1>8, <1>9 DEF Segments
<1>11. TheSegments'
  <2>1. PICK msg \in Command : /\ msg = [kind |-> "AddSeg", chunks |-> n] /\ channel' = Append(channel, msg)
                               /\ msg.kind = "AddSeg" /\ msg.chunks = n
    BY <1>1 DEF ClientSends
  <2>2. segments'[Len(segments')].chunks = n
    BY <1>6, <1>7
  <2> QED
    BY <2>1, <2>2, <1>2, <1>4, <1>7, SendKeepsWay
<1> QED
  BY <1>10, <1>11

\* The server's new segment is the client's next one.
LEMMA ServerAddsSegment ==
  ASSUME IndInv, [Next]_vars, ServerAddSeg
  PROVE  Segments' /\ TheSegments'
<1>1. /\ channel # <<>> /\ Head(channel).kind = "AddSeg" /\ channel' = Tail(channel)
      /\ serverSegments' = Added(serverSegments, Head(channel).chunks)
      /\ UNCHANGED <<segments, serverCache, defaultSegment>>
  BY DEF ServerAddSeg, Executes, heap
<1>2. Head(channel) = channel[1]
  BY <1>1, TakeFacts DEF IndInv, Ordered
<1>3. /\ segments \in Seq(Segment) /\ serverSegments \in Seq(Segment) /\ defaultSegment \in Nat \ {0}
      /\ Len(serverSegments) <= Len(segments) /\ Len(segments) \in Nat
      /\ \A k \in 1 .. Len(serverSegments) : serverSegments[k] = segments[k]
      /\ \A k \in 1 .. Len(segments) :
           /\ segments[k].base = IF k = 1 THEN 0 ELSE segments[k - 1].base + segments[k - 1].chunks
           /\ segments[k].base + segments[k].chunks <= HeapLimit
  BY DEF IndInv, Segments
<1>4. PICK l \in Nat : l = Len(serverSegments)
  BY <1>3
<1>5. Len(serverSegments') = l + 1
  BY <1>1, <1>3, <1>4 DEF Added
<1>6. /\ TheSegments' /\ l + 1 <= Len(segments) /\ channel[1].chunks = segments[l + 1].chunks
  BY <1>1, <1>2, <1>4, <1>5, TakeKeepsWay
<1>7. l + 1 \in 1 .. Len(segments)
  BY <1>3, <1>6
<1>8. PICK new \in Segment : new = segments[l + 1]
  BY <1>3, <1>7
<1>9. new = [base |-> End(serverSegments), chunks |-> channel[1].chunks]
  <2>1. End(serverSegments) = IF l = 0 THEN 0 ELSE serverSegments[l].base + serverSegments[l].chunks
    BY <1>3, <1>4, EndFacts
  <2>2. new.base = IF l = 0 THEN 0 ELSE segments[l].base + segments[l].chunks
    <3>1. new.base = IF l + 1 = 1 THEN 0 ELSE segments[(l + 1) - 1].base + segments[(l + 1) - 1].chunks
      BY <1>3, <1>7, <1>8
    <3>2. (l + 1 = 1 <=> l = 0) /\ (l + 1) - 1 = l
      OBVIOUS
    <3> QED
      BY <3>1, <3>2
  <2>3. l # 0 => serverSegments[l] = segments[l]
    BY <1>3, <1>4
  <2>4. new.base = End(serverSegments) /\ new.chunks = channel[1].chunks
    BY <2>1, <2>2, <2>3, <1>6, <1>8
  <2> QED
    BY <2>4 DEF Segment
<1>10. serverSegments' = Append(serverSegments, new)
  BY <1>1, <1>2, <1>9 DEF Added
<1>11. /\ serverSegments' \in Seq(Segment)
       /\ \A k \in 1 .. l + 1 : serverSegments'[k] = segments[k]
  BY <1>3, <1>4, <1>8, <1>10
<1>12. (\A id \in DOMAIN serverCache : Inside(id, Len(serverSegments)))'
  <2>1. PICK n \in Nat : n = Len(serverSegments') /\ Len(serverSegments) <= n
    BY <1>4, <1>5
  <2>2. \A id \in DOMAIN serverCache : Inside(id, n)'
    BY <2>1, <1>1, <1>3, ServerInside
  <2> QED
    BY <2>1, <2>2, <1>1
<1>13. Segments'
  BY <1>1, <1>3, <1>5, <1>6, <1>11, <1>12 DEF Segments
<1> QED
  BY <1>6, <1>13

\* (Neither side has a new segment.)
LEMMA SameSegments ==
  ASSUME IndInv, [Next]_vars, segments' = segments, serverSegments' = serverSegments,
         NEW n \in Nat, n = Len(serverSegments),
         \A id \in DOMAIN serverCache' : id \in DOMAIN serverCache \/ Inside(id, n)'
  PROVE  Segments'
<1>1. segments \in Seq(Segment) /\ Len(segments) \in Nat /\ Len(serverSegments) <= n
  BY DEF IndInv, Segments
<1>2. \A id \in DOMAIN serverCache : Inside(id, n)'
  BY <1>1, ServerInside
<1>3. (\A id \in DOMAIN serverCache : Inside(id, Len(serverSegments)))'
  BY <1>2
<1>4. defaultSegment' \in Nat \ {0}
  BY SegmentsQuiet
<1> QED
  BY <1>3, <1>4 DEF IndInv, Segments

\* Both sides' segments agree, as far as the server has got, in every step.
LEMMA SegmentsKept ==
  ASSUME IndInv, [Next]_vars
  PROVE  Segments' /\ TheSegments'
<1>1. PICK n \in Nat : n = Len(serverSegments)
  BY DEF IndInv, Segments
<1>2. CASE Grow /\ ~ UNCHANGED segments
  BY <1>2, GrowKeepsSegments
<1>3. CASE ServerAddSeg
  BY <1>3, ServerAddsSegment
<1>4. CASE Server /\ ~ ServerAddSeg
  <2>1. segments' = segments /\ serverSegments' = serverSegments
    BY <1>4 DEF Server, ServerAlloc, ServerUnlock, ServerDealloc, heap, server
  <2>2. channel # <<>> /\ channel' = Tail(channel)
    BY <1>4 DEF Server, ServerAlloc, ServerUnlock, ServerDealloc, Executes
  <2>3. Head(channel) = channel[1] /\ channel[1] \in Command /\ Len(channel) \in Nat /\ Len(channel) >= 1
    BY <2>2, TakeFacts DEF IndInv, Ordered
  <2>4. channel[1].kind # "AddSeg"
    BY <1>4, <2>3 DEF Server, ServerAlloc, ServerUnlock, ServerDealloc, Executes
  <2>5. TheSegments' /\ \A id \in Nat : Msg(1, "Alloc", id) => Inside(id, Len(serverSegments))
    BY <2>1, <2>2, <2>4, <1>1, TakeKeepsWay
  <2>6. CASE ServerAlloc
    <3>1. PICK id \in Nat : Msg(1, "Alloc", id) /\ channel[1].id = id
      <4>1. channel[1].kind = "Alloc" /\ channel[1].id \in Nat /\ 1 \in 1 .. Len(channel)
        BY <2>3, <2>6 DEF ServerAlloc, Executes, Command
      <4> QED
        BY <4>1 DEF Msg
    <3>2. id \in DOMAIN cache /\ chunkState[cache[id]] # "Deallocated" /\ Inside(id, n)
      BY <3>1, <2>5, <1>1 DEF IndInv, Ordered
    <3>3. Inside(id, n)'
      <4>1. segments \in Seq(Segment) /\ Len(segments) \in Nat
        BY DEF IndInv, Segments
      <4> QED
        BY <3>2, <4>1, <2>1, InsideStays
    <3>4. \A i \in DOMAIN serverCache' : i \in DOMAIN serverCache \/ i = id
      BY <2>3, <2>6, <3>1 DEF ServerAlloc, With
    <3> QED
      BY <3>3, <3>4, <2>1, <2>5, <1>1, SameSegments
  <2>7. CASE ServerUnlock \/ ServerDealloc
    <3>1. DOMAIN serverCache' \subseteq DOMAIN serverCache
      BY <2>7 DEF ServerUnlock, ServerDealloc, server, Without
    <3> QED
      BY <3>1, <2>1, <2>5, <1>1, SameSegments
  <2> QED
    BY <1>4, <2>6, <2>7 DEF Server
<1>5. CASE Announce
  <2>1. /\ channel' = Append(channel, [kind |-> "Alloc", id |-> nextUid, first |-> found])
        /\ UNCHANGED <<segments, serverSegments, serverCache>>
    BY <1>5 DEF Announce, Send, server
  <2>2. /\ nextUid \in Nat /\ found \in Chunk /\ cache'[nextUid] = found
        /\ call.chunks \in Nat \ {0} /\ allocations'[found] = found + call.chunks - 1
    BY <1>5, AnnounceFacts
  <2>3. PICK msg \in Command : /\ msg = [kind |-> "Alloc", id |-> nextUid, first |-> found]
                               /\ msg.kind = "Alloc" /\ msg.id = nextUid
    <3>1. [kind |-> "Alloc", id |-> nextUid, first |-> found] \in Command
      BY <2>2 DEF Command
    <3> QED
      BY <3>1
  <2>4. PICK s \in 1 .. Len(segments) :
          segments[s].base <= found /\ found + call.chunks - 1 < segments[s].base + segments[s].chunks
    <3>1. found \in Fits(call.chunks) /\ Runs /\ Known /\ Segments
      BY <1>5 DEF IndInv, Made, Announce, Goes
    <3> QED
      BY <3>1, <2>2, FitsFacts
  <2>5. segments \in Seq(Segment) /\ Len(segments) \in Nat
    BY DEF IndInv, Segments
  <2>6. ASSUME NEW m \in Nat, m = Len(segments) PROVE Inside(msg.id, m)'
    <3>1. s \in 1 .. Len(segments') /\ s <= m
      BY <2>1, <2>6
    <3>2. segments'[s].base <= cache'[msg.id] /\ allocations'[cache'[msg.id]] < segments'[s].base + segments'[s].chunks
      BY <2>1, <2>2, <2>3, <2>4
    <3> QED
      BY <3>1, <3>2 DEF Inside
  <2>7. TheSegments'
    BY <2>1, <2>3, <2>5, <2>6, SendKeepsWay
  <2>8. Segments'
    BY <2>1, <1>1, SameSegments
  <2> QED
    BY <2>7, <2>8
<1>6. CASE Mark \/ FreeDeallocations
  <2>1. UNCHANGED <<channel, segments, serverSegments, serverCache>>
    BY <1>6 DEF Mark, FreeDeallocations, heap, server
  <2>2. TheSegments'
    BY <2>1, QuietKeepsWay
  <2> QED
    BY <2>1, <2>2, <1>1, SameSegments
<1>7. CASE (~ Grow \/ UNCHANGED segments) /\ ~ Server /\ ~ Announce /\ ~ Mark /\ ~ FreeDeallocations
  <2>1. /\ UNCHANGED <<serverSegments, serverCache>>
        /\ UNCHANGED channel \/ \E msg \in Command : ClientSends(msg) /\ (~ Grow => msg.kind # "AddSeg")
    BY <1>7, ClientQuiet
  <2>2. UNCHANGED segments
    BY <1>7, SegmentsQuiet
  <2>3. Segments'
    BY <2>1, <2>2, <1>1, SameSegments
  <2>4. CASE UNCHANGED channel
    <3>1. TheSegments'
      BY <2>1, <2>2, <2>4, QuietKeepsWay
    <3> QED
      BY <3>1, <2>3
  <2>5. ASSUME NEW msg \in Command, ClientSends(msg), msg.kind # "AddSeg" PROVE TheSegments'
    <3>1. channel' = Append(channel, msg) /\ msg.kind # "Alloc"
      BY <2>5 DEF ClientSends
    <3>2. segments \in Seq(Segment) /\ Len(segments) \in Nat
      BY DEF IndInv, Segments
    <3> QED
      BY <3>1, <3>2, <2>1, <2>2, <2>5, SendKeepsWay
  <2>6. CASE Grow
    <3>1. UNCHANGED channel
      <4>1. segments \in Seq(Segment)
        BY DEF IndInv, Segments
      <4>2. ASSUME NEW x PROVE Append(segments, x) # segments
        <5>1. Len(Append(segments, x)) # Len(segments)
          BY <4>1
        <5> QED
          BY <5>1
      <4> QED
        BY <2>2, <2>6, <4>2, GrowFacts
    <3> QED
      BY <3>1, <2>3, <2>4
  <2> QED
    BY <2>1, <2>3, <2>4, <2>5, <2>6
<1> QED
  BY <1>2, <1>3, <1>4, <1>5, <1>6, <1>7 DEF Server

-----------------------------------------------------------------------------
(* What is alive stays alive *)

\* What is not on the way is not after a step that does not send it.
LEMMA NoneSent ==
  ASSUME channel \in Seq(Command), NEW kind, NEW id, \A k \in Nat : ~ Msg(k, kind, id),
         \/ channel' = channel
         \/ channel # <<>> /\ channel' = Tail(channel)
         \/ \E msg \in Command : channel' = Append(channel, msg) /\ (msg.kind # kind \/ msg.id # id)
  PROVE  \A k \in Nat : ~ Msg(k, kind, id)'
<1>1. CASE channel' = channel
  BY <1>1 DEF Msg
<1>2. CASE channel # <<>> /\ channel' = Tail(channel)
  <2>1. \A k \in Nat : \A x, i : Msg(k, x, i)' <=> k >= 1 /\ Msg(k + 1, x, i)
    BY Zenon, <1>2, TakeFacts
  <2> QED
    BY SMTT(30), <2>1
<1>3. ASSUME NEW msg \in Command, channel' = Append(channel, msg), msg.kind # kind \/ msg.id # id
      PROVE \A k \in Nat : ~ Msg(k, kind, id)'
  <2>1. \A k \in Nat : \A x, i :
          Msg(k, x, i)' <=> \/ Msg(k, x, i)
                            \/ k = Len(channel) + 1 /\ msg.kind = x /\ msg.id = i
    BY <1>3, SendFacts
  <2> QED
    BY <2>1, <1>3
<1> QED
  BY <1>1, <1>2, <1>3

\* The states of chunks change with marks, frees and retirements only.
LEMMA StatesQuiet ==
  ASSUME IndInv, [Next]_vars, ~ Mark, ~ FreeDeallocations, ~ ServerDealloc
  PROVE  UNCHANGED chunkState
<1>1. CASE Server
  BY <1>1 DEF Server, ServerAddSeg, ServerAlloc, ServerUnlock, shared
<1>2. CASE Announce
  BY <1>2 DEF Announce, shared
<1> QED
  BY <1>1, <1>2, ClientQuiet

\* A retirement changes the state of the allocation it is about only.
LEMMA RetiresOne ==
  ASSUME IndInv, ServerDealloc, NEW id \in DOMAIN cache, \A k \in Nat : ~ Msg(k, "Dealloc", id)
  PROVE  chunkState'[cache[id]] = chunkState[cache[id]]
<1>1. Runs /\ Ordered /\ Known /\ id \in Nat /\ cache[id] \in Chunk
  BY DEF IndInv, Runs
<1>2. channel # <<>> /\ channel' = Tail(channel) /\ Head(channel).kind = "Dealloc"
  BY DEF ServerDealloc, Executes
<1>3. Head(channel) = channel[1] /\ channel[1] \in Command /\ Len(channel) \in Nat /\ Len(channel) >= 1
  BY <1>1, <1>2, TakeFacts DEF Ordered
<1>4. PICK i \in Nat : Msg(1, "Dealloc", i) /\ channel[1].id = i
  <2>1. channel[1].kind = "Dealloc" /\ channel[1].id \in Nat /\ 1 \in 1 .. Len(channel)
    BY <1>2, <1>3 DEF Command
  <2> QED
    BY <2>1 DEF Msg
<1>5. i # id /\ i \in DOMAIN cache
  BY <1>1, <1>4 DEF Ordered
<1>6. serverCache[i] = cache[i]
  <2>1. \A j \in Nat : j < 1 => ~ Msg(j, "Alloc", i)
    BY DEF Msg
  <2> QED
    BY <1>4, <2>1, <1>1 DEF Ordered, Known
<1>7. cache[i] # cache[id]
  BY <1>1, <1>5, FirstChunksDiffer
<1>8. chunkState' = [chunkState EXCEPT ![cache[i]] = "Deallocated"]
  BY <1>3, <1>4, <1>6 DEF ServerDealloc
<1> QED
  BY <1>1, <1>7, <1>8 DEF Known

\* An allocation in use stays, while no one sends its retirement.
LEMMA AliveStays ==
  ASSUME IndInv, [Next]_vars, NEW id \in Nat, Alive(id), \A k \in Nat : ~ Msg(k, "Dealloc", id)'
  PROVE  /\ Alive(id)' /\ Stays(id)
         /\ \A n : Chunks(id, n) => Chunks(id, n)'
         /\ ChunksOf(id)' = ChunksOf(id)
<1>1. Runs /\ Ordered /\ Known /\ Made
  BY DEF IndInv
<1>2. /\ id \in DOMAIN cache /\ chunkState[cache[id]] = "Allocated" /\ cache[id] \in Chunk
      /\ \A k \in Nat : ~ Msg(k, "Dealloc", id)
  BY <1>1 DEF Alive, Runs
<1>3. Stays(id)
  BY <1>2, AllocationsStay
<1>4. chunkState'[cache[id]] = "Allocated"
  <2>1. CASE Mark
    <3>1. chunkState' = [chunkState EXCEPT ![found] = "Allocated"]
      BY <2>1 DEF Mark
    <3> QED
      BY <3>1, <1>1, <1>2 DEF Known
  <2>2. CASE FreeDeallocations
    BY <2>2, <1>2, FreeFacts
  <2>3. CASE ServerDealloc
    BY <2>3, <1>2, RetiresOne
  <2>4. CASE ~ Mark /\ ~ FreeDeallocations /\ ~ ServerDealloc
    BY <2>4, <1>2, StatesQuiet
  <2> QED
    BY <2>1, <2>2, <2>3, <2>4
<1>5. cache'[id] = cache[id] /\ id \in DOMAIN cache' /\ allocations'[cache[id]] = allocations[cache[id]]
  BY <1>3 DEF Stays
<1>6. Alive(id)'
  BY <1>4, <1>5 DEF Alive
<1>7. (\A n : Chunks(id, n) => Chunks(id, n)') /\ ChunksOf(id)' = ChunksOf(id)
  BY <1>5 DEF Chunks, ChunksOf
<1> QED
  BY <1>3, <1>6, <1>7

-----------------------------------------------------------------------------
(* The buffers' allocations *)

\* (No buffer has something new, and nothing that a buffer keeps is sent away.)
LEMMA FewerUses ==
  ASSUME IndInv, [Next]_vars,
         bufferId' \in [Buffer -> Id], lockInfos' \in [Buffer -> Seq(LockInfo)],
         \A b \in Buffer : Separate(b)',
         \A b \in Buffer, id \in Nat : Uses(b, id)' =>
           /\ Uses(b, id) /\ \A k \in Nat : ~ Msg(k, "Dealloc", id)' /\ ~ Msg(k, "Unlock", id)'
  PROVE  Owners'
<1>1. ASSUME NEW b \in Buffer, NEW id \in Nat, Uses(b, id)'
      PROVE  /\ Alive(id)' /\ Chunks(id, Size[b])'
             /\ \A k \in Nat : ~ Msg(k, "Unlock", id)'
             /\ \A c \in Buffer : Uses(c, id)' => b = c
  <2>1. /\ Alive(id) /\ Chunks(id, Size[b]) /\ \A c \in Buffer : Uses(c, id) => b = c
    BY <1>1, UsedFacts DEF IndInv
  <2>2. Alive(id)' /\ \A n : Chunks(id, n) => Chunks(id, n)'
    BY <1>1, <2>1, AliveStays
  <2>3. Chunks(id, Size[b])'
    BY <2>1, <2>2
  <2> QED
    BY <1>1, <2>1, <2>2, <2>3
<1> QED
  BY <1>1 DEF Owners

\* (The buffers are left alone.)
LEMMA OwnersQuiet ==
  ASSUME IndInv, [Next]_vars, UNCHANGED <<bufferId, lockInfos>>,
         \A b \in Buffer, id \in Nat : Uses(b, id) =>
           \A k \in Nat : ~ Msg(k, "Dealloc", id)' /\ ~ Msg(k, "Unlock", id)'
  PROVE  Owners'
<1>1. \A b \in Buffer, id \in Nat : Uses(b, id)' <=> Uses(b, id)
  BY DEF Uses
<1>2. \A b \in Buffer : Separate(b)'
  BY DEF IndInv, Owners, Separate
<1>3. bufferId' \in [Buffer -> Id] /\ lockInfos' \in [Buffer -> Seq(LockInfo)]
  BY DEF IndInv, Owners
<1> QED
  BY <1>1, <1>2, <1>3, FewerUses

\* (The buffers' owners change, but nothing is sent.)
LEMMA SendsNothing ==
  ASSUME IndInv, channel' = channel \/ (channel # <<>> /\ channel' = Tail(channel))
                   \/ \E msg \in Command : channel' = Append(channel, msg) /\ msg.kind \in {"AddSeg", "Alloc"}
  PROVE  \A b \in Buffer, id \in Nat : Uses(b, id) =>
           \A k \in Nat : ~ Msg(k, "Dealloc", id)' /\ ~ Msg(k, "Unlock", id)'
<1> SUFFICES ASSUME NEW b \in Buffer, NEW id \in Nat, Uses(b, id)
             PROVE \A k \in Nat : ~ Msg(k, "Dealloc", id)' /\ ~ Msg(k, "Unlock", id)'
  OBVIOUS
<1>1. (\A k \in Nat : ~ Msg(k, "Dealloc", id)) /\ (\A k \in Nat : ~ Msg(k, "Unlock", id))
  BY UsedFacts DEF IndInv, Alive
<1>2. channel \in Seq(Command)
  BY DEF IndInv, Ordered
<1>3. \A k \in Nat : ~ Msg(k, "Dealloc", id)'
  BY <1>1, <1>2, NoneSent
<1>4. \A k \in Nat : ~ Msg(k, "Unlock", id)'
  BY <1>1, <1>2, NoneSent
<1> QED
  BY <1>3, <1>4

\* (A lock of what the buffer has.)
LEMMA LockKeepsOwners ==
  ASSUME IndInv, [Next]_vars, NEW b \in Buffer, NEW discard \in BOOLEAN, Lock(b, discard)
  PROVE  Owners'
<1>1. Owners /\ UNCHANGED <<channel, bufferId>>
  BY DEF IndInv, Lock
<1>2. \A c \in Buffer, id \in Nat : Uses(c, id) => \A k \in Nat : ~ Msg(k, "Dealloc", id)' /\ ~ Msg(k, "Unlock", id)'
  BY <1>1, SendsNothing
<1>3. CASE UNCHANGED lockInfos
  BY <1>1, <1>2, <1>3, OwnersQuiet
<1>4. CASE /\ bufferId[b] # InvalidId
           /\ lockInfos' = [lockInfos EXCEPT ![b] = Append(@, [buffer |-> bufferId[b], discarded |-> InvalidId])]
  <2>1. PICK old \in Nat : old = bufferId[b]
    BY <1>1, <1>4 DEF Owners, Id
  <2>2. PICK infos \in Seq(LockInfo) : infos = lockInfos[b]
    BY <1>1 DEF Owners
  <2>3. PICK lock \in LockInfo : lock = [buffer |-> old, discarded |-> InvalidId]
    BY DEF LockInfo, Id
  <2>4. lock.buffer = old /\ lock.discarded = InvalidId
    BY <2>3
  <2>5. PICK more \in Seq(LockInfo) :
          /\ more = Append(infos, lock) /\ Len(infos) \in Nat /\ Len(more) = Len(infos) + 1
          /\ more[Len(infos) + 1] = lock /\ \A k \in 1 .. Len(infos) : more[k] = infos[k]
    <3>1. Append(infos, lock) \in Seq(LockInfo) /\ Len(infos) \in Nat /\ Len(Append(infos, lock)) = Len(infos) + 1
      OBVIOUS
    <3>2. /\ Append(infos, lock)[Len(infos) + 1] = lock
          /\ \A k \in 1 .. Len(infos) : Append(infos, lock)[k] = infos[k]
      OBVIOUS
    <3> QED
      BY <3>1, <3>2
  <2>6. lockInfos' = [lockInfos EXCEPT ![b] = more]
    BY <1>4, <2>1, <2>2, <2>3, <2>5
  <2>7. lockInfos' \in [Buffer -> Seq(LockInfo)] /\ lockInfos'[b] = more /\ \A c \in Buffer : c # b => lockInfos'[c] = lockInfos[c]
    BY <1>1, <2>6 DEF Owners
  <2>8. \A k \in 1 .. Len(more) : k \in 1 .. Len(infos) \/ (k = Len(infos) + 1 /\ more[k] = lock)
    BY <2>5
  <2>9. ASSUME NEW c \in Buffer, NEW id \in Nat, Uses(c, id)' PROVE Uses(c, id)
    <3>1. CASE c # b
      BY <3>1, <2>7, <2>9, <1>1 DEF Uses
    <3>2. CASE c = b
      <4>1. id # InvalidId /\ (id = bufferId[b] \/ \E k \in 1 .. Len(more) : id \in {more[k].buffer, more[k].discarded})
        BY <3>2, <2>7, <2>9, <1>1 DEF Uses
      <4>2. ASSUME NEW k \in 1 .. Len(more), id \in {more[k].buffer, more[k].discarded} PROVE Uses(b, id)
        <5>1. CASE k \in 1 .. Len(infos)
          BY <4>1, <4>2, <5>1, <2>2, <2>5 DEF Uses
        <5>2. CASE more[k] = lock
          BY <4>1, <4>2, <5>2, <2>1, <2>4 DEF Uses
        <5> QED
          BY <5>1, <5>2, <2>8
      <4> QED
        BY <3>2, <4>1, <4>2 DEF Uses
    <3> QED
      BY <3>1, <3>2
  <2>10. ASSUME NEW c \in Buffer PROVE Separate(c)'
    <3>1. CASE c # b
      BY <3>1, <2>7, <1>1 DEF Owners, Separate
    <3>2. CASE c = b
      <4>1. ASSUME NEW k \in 1 .. Len(more), more[k].discarded # InvalidId
            PROVE /\ more[k].discarded # bufferId[b]
                  /\ \A j \in 1 .. Len(more) : /\ j >= k => more[j].buffer # more[k].discarded
                                               /\ j # k => more[j].discarded # more[k].discarded
        <5>1. k \in 1 .. Len(infos) /\ more[k] = infos[k] /\ infos[k].discarded # InvalidId
          BY <4>1, <2>4, <2>5, <2>8
        <5>2. /\ infos[k].discarded # bufferId[b]
              /\ \A j \in 1 .. Len(infos) : /\ j >= k => infos[j].buffer # infos[k].discarded
                                            /\ j # k => infos[j].discarded # infos[k].discarded
          BY <5>1, <2>2, <1>1 DEF Owners, Separate
        <5> QED
          BY <5>1, <5>2, <2>1, <2>4, <2>5, <2>8
      <4> QED
        BY <3>2, <4>1, <2>7, <1>1 DEF Separate
    <3> QED
      BY <3>1, <3>2
  <2>11. bufferId' \in [Buffer -> Id]
    BY <1>1 DEF Owners
  <2> QED
    BY <2>7, <2>9, <2>10, <2>11, <1>2, FewerUses
<1>5. /\ \/ UNCHANGED lockInfos
         \/ /\ bufferId[b] # InvalidId
            /\ lockInfos' = [lockInfos EXCEPT ![b] = Append(@, [buffer |-> bufferId[b], discarded |-> InvalidId])]
  BY DEF Lock
<1> QED
  BY <1>3, <1>4, <1>5

\* (An unlock retires what its lock discarded, which no buffer has any more.)
LEMMA UnlockKeepsOwners ==
  ASSUME IndInv, [Next]_vars, NEW b \in Buffer, Unlock(b)
  PROVE  Owners'
<1>1. Owners /\ lockInfos[b] # <<>> /\ bufferId' = bufferId /\ lockInfos' = [lockInfos EXCEPT ![b] = Tail(@)]
  BY DEF IndInv, Unlock
<1>2. PICK infos \in Seq(LockInfo) : infos = lockInfos[b] /\ infos # <<>>
  <2>1. lockInfos[b] \in Seq(LockInfo)
    BY SMTT(30), <1>1 DEF Owners
  <2> QED
    BY <1>1, <2>1
<1>3. PICK rest \in Seq(LockInfo) :
        /\ rest = Tail(infos) /\ Len(infos) \in Nat /\ Len(infos) >= 1 /\ Len(rest) = Len(infos) - 1
        /\ \A k \in 1 .. Len(rest) : rest[k] = infos[k + 1]
  <2>1. Tail(infos) \in Seq(LockInfo) /\ Len(infos) \in Nat /\ Len(infos) >= 1 /\ Len(Tail(infos)) = Len(infos) - 1
    BY <1>2
  <2>2. \A k \in 1 .. Len(infos) - 1 : Tail(infos)[k] = infos[k + 1]
    BY <1>2
  <2> QED
    BY <2>1, <2>2
<1>4. /\ lockInfos' \in [Buffer -> Seq(LockInfo)] /\ lockInfos'[b] = rest
      /\ \A c \in Buffer : c # b => lockInfos'[c] = lockInfos[c]
  BY <1>1, <1>2, <1>3 DEF Owners
<1>5. \A k \in 1 .. Len(rest) : k + 1 \in 1 .. Len(infos) /\ k + 1 # 1 /\ rest[k] = infos[k + 1]
  BY <1>3
<1>6. ASSUME NEW c \in Buffer, NEW id \in Nat, Uses(c, id)' PROVE Uses(c, id)
  <2>1. CASE c # b
    BY <2>1, <1>1, <1>4, <1>6 DEF Uses
  <2>2. CASE c = b
    <3>1. id # InvalidId /\ (id = bufferId[b] \/ \E k \in 1 .. Len(rest) : id \in {rest[k].buffer, rest[k].discarded})
      BY <2>2, <1>1, <1>4, <1>6 DEF Uses
    <3> QED
      BY <2>2, <3>1, <1>2, <1>5 DEF Uses
  <2> QED
    BY <2>1, <2>2
<1>7. ASSUME NEW c \in Buffer PROVE Separate(c)'
  <2>1. CASE c # b
    BY <2>1, <1>1, <1>4 DEF Owners, Separate
  <2>2. CASE c = b
    <3>1. ASSUME NEW k \in 1 .. Len(rest), rest[k].discarded # InvalidId
          PROVE /\ rest[k].discarded # bufferId[b]
                /\ \A j \in 1 .. Len(rest) : /\ j >= k => rest[j].buffer # rest[k].discarded
                                             /\ j # k => rest[j].discarded # rest[k].discarded
      <4>1. PICK m \in 1 .. Len(infos) : m = k + 1 /\ rest[k] = infos[m]
        BY <1>5
      <4>2. /\ infos[m].discarded # bufferId[b]
            /\ \A j \in 1 .. Len(infos) : /\ j >= m => infos[j].buffer # infos[m].discarded
                                          /\ j # m => infos[j].discarded # infos[m].discarded
        BY <3>1, <4>1, <1>1, <1>2 DEF Owners, Separate
      <4>3. ASSUME NEW j \in 1 .. Len(rest)
            PROVE /\ j >= k => rest[j].buffer # rest[k].discarded
                  /\ j # k => rest[j].discarded # rest[k].discarded
        <5>1. PICK i \in 1 .. Len(infos) : i = j + 1 /\ rest[j] = infos[i]
          BY <1>5
        <5>2. (j >= k => i >= m) /\ (j # k => i # m)
          BY <4>1, <5>1
        <5> QED
          BY <4>1, <4>2, <5>1, <5>2
      <4> QED
        BY <4>1, <4>2, <4>3
    <3>2. lockInfos'[c] = rest /\ bufferId'[c] = bufferId[b]
      BY <2>2, <1>1, <1>4
    <3> QED
      BY <3>1, <3>2 DEF Separate
  <2> QED
    BY <2>1, <2>2
<1>8. ASSUME NEW c \in Buffer, NEW id \in Nat, Uses(c, id)'
      PROVE \A k \in Nat : ~ Msg(k, "Dealloc", id)' /\ ~ Msg(k, "Unlock", id)'
  <2>1. (\A k \in Nat : ~ Msg(k, "Dealloc", id)) /\ (\A k \in Nat : ~ Msg(k, "Unlock", id)) /\ channel \in Seq(Command)
    BY <1>1, <1>6, <1>8, UsedFacts DEF IndInv, Alive, Ordered
  <2>2. CASE UNCHANGED channel
    BY <2>1, <2>2, NoneSent
  <2>3. CASE /\ infos[1].discarded \in Nat
             /\ ClientSends([kind |-> "Dealloc", id |-> infos[1].discarded])
    <3>1. PICK d \in Nat : d = infos[1].discarded /\ d # InvalidId
      BY <2>3 DEF InvalidId
    <3>2. PICK msg \in Command : channel' = Append(channel, msg) /\ msg.kind = "Dealloc" /\ msg.id = d
      BY <2>3, <3>1 DEF ClientSends
    <3>3. Uses(b, d)
      BY <3>1, <1>2, <1>3 DEF Uses
    <3>4. d # bufferId[b] /\ \A j \in 1 .. Len(infos) : infos[j].buffer # d /\ (j # 1 => infos[j].discarded # d)
      <4>1. 1 \in 1 .. Len(infos) /\ Separate(b)
        BY <1>1, <1>3 DEF Owners
      <4>2. \A j \in 1 .. Len(infos) : j >= 1
        OBVIOUS
      <4> QED
        BY <3>1, <4>1, <4>2, <1>2 DEF Separate
    <3>5. ~ Uses(b, d)'
      <4>1. \A k \in 1 .. Len(rest) : rest[k].buffer # d /\ rest[k].discarded # d
        BY <3>4, <1>5
      <4>2. lockInfos'[b] = rest /\ bufferId'[b] # d
        BY <3>4, <1>1, <1>4
      <4> QED
        BY <4>1, <4>2 DEF Uses
    <3>6. id # d
      <4>1. c = b \/ ~ Uses(c, d)
        BY <3>3, <1>1, UsedFacts
      <4> QED
        BY <3>5, <4>1, <1>6, <1>8
    <3>7. \A k \in Nat : ~ Msg(k, "Dealloc", id)'
      BY <3>2, <3>6, <2>1, NoneSent
    <3>8. \A k \in Nat : ~ Msg(k, "Unlock", id)'
      BY <3>2, <2>1, NoneSent
    <3> QED
      BY <3>7, <3>8
  <2> QED
    BY <2>2, <2>3, <1>2, UnlockSends
<1>9. bufferId' \in [Buffer -> Id]
  BY <1>1 DEF Owners
<1> QED
  BY <1>4, <1>6, <1>7, <1>8, <1>9, FewerUses

\* (A destroyed buffer has nothing any more.)
LEMMA DestroyKeepsOwners ==
  ASSUME IndInv, [Next]_vars, NEW b \in Buffer, Destroy(b)
  PROVE  Owners'
<1>1. /\ Owners /\ bufferId' = [bufferId EXCEPT ![b] = InvalidId]
      /\ lockInfos' = [lockInfos EXCEPT ![b] = <<>>]
  BY DEF IndInv, Destroy
<1>2. /\ bufferId' \in [Buffer -> Id] /\ bufferId'[b] = InvalidId
      /\ \A c \in Buffer : c # b => bufferId'[c] = bufferId[c] /\ lockInfos'[c] = lockInfos[c]
  BY <1>1 DEF Owners, Id
<1>3. lockInfos' \in [Buffer -> Seq(LockInfo)] /\ lockInfos'[b] = <<>> /\ Len(lockInfos'[b]) = 0
  BY <1>1 DEF Owners
<1>4. ASSUME NEW c \in Buffer, NEW id \in Nat, Uses(c, id)' PROVE Uses(c, id) /\ c # b
  <2>1. c # b
    BY <1>2, <1>3, <1>4 DEF Uses
  <2> QED
    BY <2>1, <1>2, <1>4 DEF Uses
<1>5. ASSUME NEW c \in Buffer PROVE Separate(c)'
  BY <1>1, <1>2, <1>3 DEF Owners, Separate
<1>6. PICK d \in Nat : d = bufferId[b] /\ Uses(b, d) /\ ClientSends([kind |-> "Dealloc", id |-> d])
  BY DestroySends
<1>7. PICK msg \in Command : channel' = Append(channel, msg) /\ msg.kind = "Dealloc" /\ msg.id = d
  BY <1>6 DEF ClientSends
<1>8. ASSUME NEW c \in Buffer, NEW id \in Nat, Uses(c, id)'
      PROVE \A k \in Nat : ~ Msg(k, "Dealloc", id)' /\ ~ Msg(k, "Unlock", id)'
  <2>1. (\A k \in Nat : ~ Msg(k, "Dealloc", id)) /\ (\A k \in Nat : ~ Msg(k, "Unlock", id)) /\ channel \in Seq(Command)
    BY <1>1, <1>4, <1>8, UsedFacts DEF IndInv, Alive, Ordered
  <2>2. id # d
    BY <1>1, <1>4, <1>6, <1>8, UsedFacts
  <2>3. \A k \in Nat : ~ Msg(k, "Dealloc", id)'
    BY <2>1, <2>2, <1>7, NoneSent
  <2>4. \A k \in Nat : ~ Msg(k, "Unlock", id)'
    BY <2>1, <1>7, NoneSent
  <2> QED
    BY <2>3, <2>4
<1> QED
  BY <1>2, <1>3, <1>4, <1>5, <1>8, FewerUses

\* (A lock that timed out loses its buffer's allocation.)
LEMMA TimesOutKeepsOwners ==
  ASSUME IndInv, [Next]_vars, TimesOut
  PROVE  Owners'
<1>1. /\ Owners /\ UNCHANGED <<channel, lockInfos>> /\ call \in Calls
      /\ bufferId' = IF call.kind = "lock" THEN [bufferId EXCEPT ![call.buffer] = InvalidId] ELSE bufferId
  BY DEF IndInv, TimesOut, Goes, Called
<1>2. /\ bufferId' \in [Buffer -> Id]
      /\ \A b \in Buffer : bufferId'[b] = bufferId[b] \/ bufferId'[b] = InvalidId
  BY <1>1 DEF Owners, Id, Calls
<1>3. \A b \in Buffer, id \in Nat : Uses(b, id) => \A k \in Nat : ~ Msg(k, "Dealloc", id)' /\ ~ Msg(k, "Unlock", id)'
  BY <1>1, SendsNothing
<1>4. \A b \in Buffer, id \in Nat : Uses(b, id)' => Uses(b, id)
  BY <1>1, <1>2 DEF Uses
<1>5. \A b \in Buffer : Separate(b)'
  BY <1>1, <1>2 DEF Owners, Separate
<1>6. lockInfos' \in [Buffer -> Seq(LockInfo)]
  BY <1>1 DEF Owners
<1> QED
  BY <1>2, <1>3, <1>4, <1>5, <1>6, FewerUses

\* The allocation just made is nobody's yet, and in use once it is marked.
LEMMA MarkFacts ==
  ASSUME IndInv, [Next]_vars, Mark
  PROVE  /\ at = "mark" /\ call \in Calls /\ nextUid - 1 \in Nat /\ nextUid - 1 \in DOMAIN cache
         /\ UNCHANGED <<channel, cache, allocations, nextUid, segments, found>>
         /\ cache[nextUid - 1] = found /\ Chunks(nextUid - 1, call.chunks) /\ call.old # nextUid - 1
         /\ \A b \in Buffer : ~ Uses(b, nextUid - 1)
         /\ \A k \in Nat : ~ Msg(k, "Dealloc", nextUid - 1) /\ ~ Msg(k, "Unlock", nextUid - 1)
         /\ chunkState'[found] = "Allocated"
         /\ \A i : i = nextUid - 1 => Alive(i)'
<1>1. /\ at = "mark" /\ UNCHANGED <<channel, cache, allocations, nextUid, segments, found>>
      /\ chunkState' = [chunkState EXCEPT ![found] = "Allocated"]
  BY DEF Mark, heap, search
<1>2. Runs /\ Ordered /\ Known /\ Called /\ Made /\ call \in Calls
  BY <1>1 DEF IndInv, Called
<1>3. /\ nextUid - 1 \in DOMAIN cache /\ nextUid - 1 \in Nat /\ cache[nextUid - 1] = found
      /\ Chunks(nextUid - 1, call.chunks) /\ call.old # nextUid - 1
      /\ \A b \in Buffer : ~ Uses(b, nextUid - 1)
      /\ \A k \in Nat : ~ Msg(k, "Dealloc", nextUid - 1)
      /\ chunkState[found] = "Unallocated"
  BY <1>1, <1>2 DEF Made, Runs
<1>4. \A k \in Nat : ~ Msg(k, "Unlock", nextUid - 1)
  BY <1>2, <1>3 DEF Ordered
<1>5. chunkState'[found] = "Allocated"
  BY <1>1, <1>2, <1>3 DEF Known, Called
<1>6. ASSUME NEW i, i = nextUid - 1 PROVE Alive(i)'
  <2>1. i \in DOMAIN cache' /\ chunkState'[cache'[i]] = "Allocated"
    BY <1>1, <1>3, <1>5, <1>6
  <2>2. \A k \in Nat : ~ Msg(k, "Dealloc", i)'
    BY <1>1, <1>3, <1>6 DEF Msg
  <2> QED
    BY <2>1, <2>2 DEF Alive
<1> QED
  BY <1>1, <1>2, <1>3, <1>4, <1>5, <1>6

\* (A lock hands its buffer the new allocation, and remembers the old one.)
LEMMA MarkKeepsOwners ==
  ASSUME IndInv, [Next]_vars, Mark
  PROVE  Owners'
<1>1. /\ Owners /\ channel' = channel /\ call \in Calls /\ at = "mark"
      /\ \/ UNCHANGED <<bufferId, lockInfos>>
         \/ /\ call.kind = "lock"
            /\ bufferId' = [bufferId EXCEPT ![call.buffer] = nextUid - 1]
            /\ lockInfos' = [lockInfos EXCEPT ![call.buffer] = Append(@, [buffer |-> nextUid - 1, discarded |-> call.old])]
  BY MarkFacts DEF IndInv, Mark, buffers
<1>2. \A c \in Buffer, id \in Nat : Uses(c, id) => \A k \in Nat : ~ Msg(k, "Dealloc", id)' /\ ~ Msg(k, "Unlock", id)'
  BY <1>1, SendsNothing
<1>3. CASE UNCHANGED <<bufferId, lockInfos>>
  BY <1>2, <1>3, OwnersQuiet
<1>4. CASE /\ call.kind = "lock"
           /\ bufferId' = [bufferId EXCEPT ![call.buffer] = nextUid - 1]
           /\ lockInfos' = [lockInfos EXCEPT ![call.buffer] = Append(@, [buffer |-> nextUid - 1, discarded |-> call.old])]
  <2>1. PICK new \in Nat :
          /\ new = nextUid - 1 /\ \A c \in Buffer : ~ Uses(c, new)
          /\ \A k \in Nat : ~ Msg(k, "Unlock", new)'
          /\ Alive(new)' /\ Chunks(new, call.chunks) /\ UNCHANGED <<cache, allocations>>
    <3>1. /\ nextUid - 1 \in Nat /\ (\A c \in Buffer : ~ Uses(c, nextUid - 1)) /\ channel' = channel
          /\ \A k \in Nat : ~ Msg(k, "Unlock", nextUid - 1)
          /\ (\A i : i = nextUid - 1 => Alive(i)') /\ Chunks(nextUid - 1, call.chunks) /\ UNCHANGED <<cache, allocations>>
      BY MarkFacts
    <3>2. PICK new \in Nat : new = nextUid - 1
      BY <3>1
    <3>3. \A k \in Nat : ~ Msg(k, "Unlock", new)'
      BY <3>1, <3>2 DEF Msg
    <3> QED
      BY <3>1, <3>2, <3>3
  <2>2. PICK b \in Buffer : b = call.buffer
    BY <1>1 DEF Calls
  <2>3. PICK old \in Id : old = bufferId[b] /\ old = call.old /\ call.chunks = Size[b]
    BY <1>1, <1>4, <2>2 DEF IndInv, Called, Owners
  <2>4. PICK infos \in Seq(LockInfo) : infos = lockInfos[b]
    BY <1>1 DEF Owners
  <2>5. PICK lock \in LockInfo : lock = [buffer |-> new, discarded |-> old] /\ lock.buffer = new /\ lock.discarded = old
    <3>1. [buffer |-> new, discarded |-> old] \in LockInfo
      BY DEF LockInfo
    <3> QED
      BY <3>1
  <2>6. PICK more \in Seq(LockInfo) :
          /\ more = Append(infos, lock) /\ Len(infos) \in Nat /\ Len(more) = Len(infos) + 1
          /\ more[Len(infos) + 1] = lock /\ \A k \in 1 .. Len(infos) : more[k] = infos[k]
    <3>1. Append(infos, lock) \in Seq(LockInfo) /\ Len(infos) \in Nat /\ Len(Append(infos, lock)) = Len(infos) + 1
      OBVIOUS
    <3>2. /\ Append(infos, lock)[Len(infos) + 1] = lock
          /\ \A k \in 1 .. Len(infos) : Append(infos, lock)[k] = infos[k]
      OBVIOUS
    <3> QED
      BY <3>1, <3>2
  <2>7. lockInfos' = [lockInfos EXCEPT ![b] = more] /\ bufferId' = [bufferId EXCEPT ![b] = new]
    BY <1>4, <2>1, <2>2, <2>3, <2>4, <2>5, <2>6
  <2>8. /\ lockInfos' \in [Buffer -> Seq(LockInfo)] /\ lockInfos'[b] = more
        /\ bufferId' \in [Buffer -> Id] /\ bufferId'[b] = new
        /\ \A c \in Buffer : c # b => lockInfos'[c] = lockInfos[c] /\ bufferId'[c] = bufferId[c]
    BY <1>1, <2>7 DEF Owners, Id
  <2>9. \A k \in 1 .. Len(more) : k \in 1 .. Len(infos) \/ (k = Len(infos) + 1 /\ more[k] = lock)
    BY <2>6
  <2>10. ASSUME NEW c \in Buffer, NEW id \in Nat, Uses(c, id)' PROVE Uses(c, id) \/ (c = b /\ id = new)
    <3>1. CASE c # b
      BY <3>1, <2>8, <2>10 DEF Uses
    <3>2. CASE c = b
      <4>1. id # InvalidId /\ (id = new \/ \E k \in 1 .. Len(more) : id \in {more[k].buffer, more[k].discarded})
        BY <3>2, <2>8, <2>10 DEF Uses
      <4>2. ASSUME NEW k \in 1 .. Len(more), id \in {more[k].buffer, more[k].discarded}, id # new PROVE Uses(b, id)
        <5>1. CASE k \in 1 .. Len(infos)
          BY <4>1, <4>2, <5>1, <2>4, <2>6 DEF Uses
        <5>2. CASE more[k] = lock
          BY <4>1, <4>2, <5>2, <2>3, <2>5 DEF Uses
        <5> QED
          BY <5>1, <5>2, <2>9
      <4> QED
        BY <3>2, <4>1, <4>2
    <3> QED
      BY <3>1, <3>2
  <2>11. ASSUME NEW c \in Buffer PROVE Separate(c)'
    <3>1. CASE c # b
      BY <3>1, <2>8, <1>1 DEF Owners, Separate
    <3>2. CASE c = b
      <4>1. \A k \in 1 .. Len(infos) : /\ infos[k].discarded # InvalidId => infos[k].discarded # new /\ infos[k].discarded # old
                                       /\ infos[k].buffer # new /\ infos[k].discarded # new
        <5> SUFFICES ASSUME NEW k \in 1 .. Len(infos)
                     PROVE  /\ infos[k].discarded # InvalidId => infos[k].discarded # new /\ infos[k].discarded # old
                            /\ infos[k].buffer # new /\ infos[k].discarded # new
          OBVIOUS
        <5>1. new # InvalidId /\ ~ Uses(b, new)
          BY <2>1 DEF InvalidId
        <5>2. infos[k].buffer # new /\ infos[k].discarded # new
          BY <5>1, <2>4 DEF Uses
        <5>3. infos[k].discarded # InvalidId => infos[k].discarded # old
          BY <2>3, <2>4, <1>1 DEF Owners, Separate
        <5> QED
          BY <5>2, <5>3
      <4>2. old # new
        <5>1. new # InvalidId /\ ~ Uses(b, new)
          BY <2>1 DEF InvalidId
        <5> QED
          BY <5>1, <2>3 DEF Uses
      <4>3. ASSUME NEW k \in 1 .. Len(more), more[k].discarded # InvalidId
            PROVE /\ more[k].discarded # new
                  /\ \A j \in 1 .. Len(more) : /\ j >= k => more[j].buffer # more[k].discarded
                                               /\ j # k => more[j].discarded # more[k].discarded
        <5>1. CASE k \in 1 .. Len(infos)
          <6>1. more[k] = infos[k] /\ infos[k].discarded # InvalidId
            BY <4>3, <5>1, <2>6
          <6>2. \A j \in 1 .. Len(infos) : /\ j >= k => infos[j].buffer # infos[k].discarded
                                           /\ j # k => infos[j].discarded # infos[k].discarded
            BY <5>1, <6>1, <2>4, <1>1 DEF Owners, Separate
          <6> QED
            BY <5>1, <6>1, <6>2, <4>1, <2>5, <2>6, <2>9
        <5>2. CASE k = Len(infos) + 1
          <6>1. more[k].discarded = old /\ old # InvalidId
            BY <4>3, <5>2, <2>5, <2>6
          <6>2. \A j \in 1 .. Len(infos) : infos[j].discarded # old /\ ~ (j >= k)
            BY <5>2, <6>1, <4>1, <2>6
          <6> QED
            BY <5>2, <6>1, <6>2, <4>2, <2>5, <2>6, <2>9
        <5> QED
          BY <5>1, <5>2, <2>9
      <4>4. lockInfos'[c] = more /\ bufferId'[c] = new
        BY <3>2, <2>8
      <4> QED
        BY <4>3, <4>4 DEF Separate
    <3> QED
      BY <3>1, <3>2
  <2>12. ASSUME NEW c \in Buffer, NEW id \in Nat, Uses(c, id)'
         PROVE  /\ Alive(id)' /\ Chunks(id, Size[c])'
                /\ \A k \in Nat : ~ Msg(k, "Unlock", id)'
                /\ \A d \in Buffer : Uses(d, id)' => c = d
    <3>1. CASE Uses(c, id)
      <4>1. Alive(id) /\ Chunks(id, Size[c]) /\ \A d \in Buffer : Uses(d, id) => c = d
        BY <3>1, <1>1, UsedFacts
      <4>2. /\ \A k \in Nat : ~ Msg(k, "Dealloc", id)'
            /\ \A k \in Nat : ~ Msg(k, "Unlock", id)'
        BY <3>1, <1>2
      <4>3. Alive(id)' /\ \A n : Chunks(id, n) => Chunks(id, n)'
        BY <4>1, <4>2, AliveStays
      <4>4. Chunks(id, Size[c])'
        BY <4>1, <4>3
      <4>5. id # new
        BY <3>1, <2>1
      <4> QED
        BY <4>1, <4>2, <4>3, <4>4, <4>5, <2>10
    <3>2. CASE c = b /\ id = new
      <4>1. Alive(id)' /\ (\A k \in Nat : ~ Msg(k, "Unlock", id)') /\ \A d \in Buffer : Uses(d, id)' => c = d
        BY <3>2, <2>1, <2>10
      <4>2. Chunks(id, Size[c])'
        BY <3>2, <2>1, <2>3 DEF Chunks
      <4> QED
        BY <4>1, <4>2
    <3> QED
      BY <3>1, <3>2, <2>10, <2>12
  <2> QED
    BY <2>8, <2>11, <2>12 DEF Owners
<1> QED
  BY <1>1, <1>3, <1>4

\* Every buffer's allocations stay its own, alive, and not yet on the way to be retired.
LEMMA OwnersKept ==
  ASSUME IndInv, [Next]_vars
  PROVE  Owners'
<1>1. ASSUME NEW b \in Buffer, Unlock(b) \/ Destroy(b) \/ \E discard \in BOOLEAN : Lock(b, discard)
      PROVE Owners'
  BY <1>1, UnlockKeepsOwners, DestroyKeepsOwners, LockKeepsOwners
<1>2. CASE Mark
  BY <1>2, MarkKeepsOwners
<1>3. CASE TimesOut
  BY <1>3, TimesOutKeepsOwners
<1>4. CASE \/ \E b \in Buffer : GameWrites(b)
           \/ Allocate \/ FreeDeallocations \/ FindAgain \/ FindInNew \/ Again
           \/ UNCHANGED vars
  <2>1. channel' = channel /\ UNCHANGED <<bufferId, lockInfos>>
    BY <1>4 DEF GameWrites, Allocate, FreeDeallocations, FindAgain, FindInNew, Again, buffers, vars
  <2> QED
    BY <2>1, SendsNothing, OwnersQuiet
<1>5. CASE Server
  <2>1. channel # <<>> /\ channel' = Tail(channel) /\ UNCHANGED <<bufferId, lockInfos>>
    BY <1>5 DEF Server, ServerAddSeg, ServerAlloc, ServerUnlock, ServerDealloc, Executes, buffers
  <2> QED
    BY <2>1, SendsNothing, OwnersQuiet
<1>6. CASE Grow
  <2>1. UNCHANGED channel \/ \E n \in Nat \ {0} : ClientSends([kind |-> "AddSeg", chunks |-> n])
    BY <1>6, GrowFacts
  <2>2. UNCHANGED channel \/ \E msg \in Command : channel' = Append(channel, msg) /\ msg.kind = "AddSeg"
    BY <2>1 DEF ClientSends
  <2>3. UNCHANGED <<bufferId, lockInfos>>
    BY <1>6 DEF Grow, buffers
  <2> QED
    BY <2>2, <2>3, SendsNothing, OwnersQuiet
<1>7. CASE Announce
  <2>1. nextUid \in Nat /\ found \in Chunk
    BY <1>7, AnnounceFacts
  <2>2. [kind |-> "Alloc", id |-> nextUid, first |-> found] \in Command
    BY <2>1 DEF Command
  <2>3. \E msg \in Command : channel' = Append(channel, msg) /\ msg.kind = "Alloc"
    BY <2>2, <1>7 DEF Announce, Send
  <2>4. UNCHANGED <<bufferId, lockInfos>>
    BY <1>7 DEF Announce, buffers
  <2> QED
    BY <2>3, <2>4, SendsNothing, OwnersQuiet
<1>8. CASE Upload \/ RetireSnapshot
  <2>1. PICK msg \in Command : channel' = Append(channel, msg) /\ msg.id = nextUid - 1
    <3>1. CASE Upload
      BY <3>1, UploadSends DEF ClientSends
    <3>2. CASE RetireSnapshot
      BY <3>2, RetireSends DEF ClientSends
    <3> QED
      BY <3>1, <3>2, <1>8
  <2>2. \A b \in Buffer : ~ Uses(b, nextUid - 1)
    BY <1>8 DEF Upload, RetireSnapshot, Goes, IndInv, Made
  <2>3. ASSUME NEW b \in Buffer, NEW id \in Nat, Uses(b, id)
        PROVE \A k \in Nat : ~ Msg(k, "Dealloc", id)' /\ ~ Msg(k, "Unlock", id)'
    <3>1. (\A k \in Nat : ~ Msg(k, "Dealloc", id)) /\ (\A k \in Nat : ~ Msg(k, "Unlock", id)) /\ channel \in Seq(Command)
      BY <2>3, UsedFacts DEF IndInv, Alive, Ordered
    <3>2. msg.id # id
      BY <2>1, <2>2, <2>3
    <3>3. \A k \in Nat : ~ Msg(k, "Dealloc", id)'
      BY <3>1, <3>2, <2>1, NoneSent
    <3>4. \A k \in Nat : ~ Msg(k, "Unlock", id)'
      BY <3>1, <3>2, <2>1, NoneSent
    <3> QED
      BY <3>3, <3>4
  <2>4. UNCHANGED <<bufferId, lockInfos>>
    BY <1>8 DEF Upload, RetireSnapshot, buffers
  <2> QED
    BY <2>3, <2>4, OwnersQuiet
<1> QED
  BY <1>1, <1>2, <1>3, <1>4, <1>5, <1>6, <1>7, <1>8 DEF Next, InCall

-----------------------------------------------------------------------------
(* The call under way *)

\* A search finds a free run, or goes on elsewhere.
LEMMA FindFacts ==
  ASSUME IndInv, at # "idle", NEW otherwise, Find(otherwise)
  PROVE  /\ found' \in Chunk
         /\ \/ at' = otherwise
            \/ at' = "announce" /\ found' \in Fits(call.chunks)
<1>1. found \in Chunk /\ call \in Calls
  BY DEF IndInv, Called
<1>2. Fits(call.chunks) \subseteq Chunk /\ Chunk \subseteq Nat
  BY HeapAssumption DEF Fits, Chunk
<1>3. CASE Fits(call.chunks) = {}
  BY <1>1, <1>3 DEF Find
<1>4. CASE Fits(call.chunks) # {}
  <2>1. Min(Fits(call.chunks)) \in Fits(call.chunks)
    BY <1>2, <1>4, MinLemma
  <2> QED
    BY <1>2, <1>4, <2>1 DEF Find
<1> QED
  BY <1>3, <1>4

\* (The call goes on, and no one retires what it copies from.)
LEMMA CallGoesOn ==
  ASSUME IndInv, [Next]_vars, call' = call, bufferId' = bufferId, at # "idle",
         call.kind = "snapshot" => \A k \in Nat : ~ Msg(k, "Dealloc", call.old)',
         \/ at' \in Searching \union {"announce", "mark"}
         \/ at' \in {"upload", "retire"} /\ call.kind = "snapshot",
         retries' \in 0 .. 2, growthAttempted' \in BOOLEAN, found' \in Chunk
  PROVE  Called'
<1>1. Called /\ call \in Calls
  BY DEF IndInv, Called
<1>2. at' # "idle" /\ at' \in Searching \union {"announce", "mark", "upload", "retire"}
  BY DEF Searching
<1>3. ASSUME call.kind = "snapshot"
      PROVE /\ call'.old \in Nat /\ Alive(call.old)' /\ Chunks(call.old, Size[call.buffer])'
            /\ call'.offset + call'.chunks <= Size[call'.buffer]
  <2>1. PICK old \in Nat : old = call.old /\ Alive(old) /\ Chunks(old, Size[call.buffer]) /\ call.offset + call.chunks <= Size[call.buffer]
    BY <1>1, <1>3 DEF Called
  <2>2. \A k \in Nat : ~ Msg(k, "Dealloc", old)'
    BY <2>1, <1>3
  <2>3. Alive(old)' /\ \A n : Chunks(old, n) => Chunks(old, n)'
    BY <2>1, <2>2, AliveStays
  <2>4. PICK n \in Nat : n = Size[call.buffer]
    BY <1>1, HeapAssumption DEF Calls
  <2>5. Chunks(old, n)'
    BY <2>1, <2>3, <2>4
  <2> QED
    BY <2>1, <2>3, <2>4, <2>5
<1>4. call'.kind = "lock" => /\ at' \notin {"upload", "retire"}
                             /\ call'.old = bufferId'[call'.buffer] /\ call'.chunks = Size[call'.buffer]
  BY <1>1 DEF Called, Searching
<1> QED
  BY <1>1, <1>2, <1>3, <1>4 DEF Called

\* (Inside a call no one but the end of an upload sends a retirement.)
LEMMA SourceKept ==
  ASSUME IndInv, call' = call,
         channel' = channel \/ (channel # <<>> /\ channel' = Tail(channel))
           \/ \E msg \in Command : channel' = Append(channel, msg) /\ msg.kind # "Dealloc"
  PROVE  call.kind = "snapshot" => \A k \in Nat : ~ Msg(k, "Dealloc", call.old)'
<1> SUFFICES ASSUME call.kind = "snapshot" PROVE \A k \in Nat : ~ Msg(k, "Dealloc", call.old)'
  OBVIOUS
<1>1. PICK old \in Nat : old = call.old /\ Alive(old)
  BY DEF IndInv, Called
<1>2. channel \in Seq(Command) /\ \A k \in Nat : ~ Msg(k, "Dealloc", old)
  BY <1>1 DEF IndInv, Ordered, Alive
<1>3. \A k \in Nat : ~ Msg(k, "Dealloc", old)'
  BY <1>2, NoneSent
<1> QED
  BY <1>1, <1>3

\* (No call is under way afterwards.)
LEMMA CallEnds ==
  ASSUME Called, at' = "idle", call' = NoCall, UNCHANGED <<retries, growthAttempted, found>>
  PROVE  Called'
BY DEF Called, NoCall, Searching

\* (The game's steps outside of a call, and its calls.)
LEMMA GameKeepsCall ==
  ASSUME IndInv, [Next]_vars, NEW b \in Buffer,
         GameWrites(b) \/ Unlock(b) \/ Destroy(b) \/ \E discard \in BOOLEAN : Lock(b, discard)
  PROVE  Called'
<1>1. Called /\ at = "idle" /\ UNCHANGED <<retries, growthAttempted, found>>
  BY DEF IndInv, GameWrites, Unlock, Destroy, Lock, search
<1>2. call = NoCall
  BY <1>1 DEF Called
<1>3. CASE UNCHANGED <<at, call>>
  BY <1>1, <1>2, <1>3, CallEnds
<1>4. ASSUME NEW discard \in BOOLEAN, Lock(b, discard), ~ UNCHANGED <<at, call>> PROVE Called'
  <2>1. /\ at' = "allocate" /\ UNCHANGED bufferId
        /\ call' = [kind |-> "lock", buffer |-> b, chunks |-> Size[b], old |-> bufferId[b], offset |-> 0]
    BY <1>4 DEF Lock
  <2>2. bufferId[b] \in Id /\ Size[b] \in Nat \ {0}
    BY HeapAssumption DEF IndInv, Owners
  <2>3. /\ call' \in Calls /\ call'.kind = "lock" /\ call'.buffer = b
        /\ call'.chunks = Size[b] /\ call'.old = bufferId[b]
    BY <2>1, <2>2 DEF Calls
  <2> QED
    BY <2>1, <2>3, <1>1 DEF Called, Searching
<1>5. CASE Unlock(b) /\ ~ UNCHANGED <<at, call>>
  <2>1. lockInfos[b] # <<>> /\ lockInfos[b][1] \in LockInfo /\ Len(lockInfos[b]) \in Nat /\ Len(lockInfos[b]) >= 1
    BY <1>5, UnlockSends, LockFacts DEF IndInv
  <2>2. PICK lock \in LockInfo : lock = lockInfos[b][1] /\ lock = Head(lockInfos[b])
    BY <2>1, LockFacts DEF IndInv
  <2> DEFINE Locks(offset, n) ==
        /\ at' = "allocate"
        /\ call' = [kind |-> "snapshot", buffer |-> b, chunks |-> n, old |-> lock.buffer, offset |-> offset]
  <2>14. \E offset \in 0 .. Size[b] - 1 : \E n \in 1 .. Size[b] - offset : Locks(offset, n)
    BY <1>5, <2>2 DEF Unlock
  <2>15. PICK offset \in 0 .. Size[b] - 1 : \E n \in 1 .. Size[b] - offset : Locks(offset, n)
    BY <2>14
  <2>3. PICK n \in 1 .. Size[b] - offset : Locks(offset, n)
    BY <2>15
  <2>4. PICK old \in Nat : old = lock.buffer
    BY DEF LockInfo
  <2>5. PICK size \in Nat : size = Size[b]
    BY HeapAssumption
  <2>6. n \in Nat \ {0} /\ offset \in Nat /\ offset + n <= Size[b]
    BY <2>5
  <2>7. /\ call' \in Calls /\ call'.kind = "snapshot" /\ call'.buffer = b /\ call'.offset + call'.chunks <= Size[b]
        /\ call'.old = old
    BY <2>3, <2>4, <2>6 DEF Calls, Id
  <2>8. 1 \in 1 .. Len(lockInfos[b])
    BY <2>1
  <2>9. Uses(b, old)
    BY <2>2, <2>4, <2>8 DEF Uses, InvalidId
  <2>10. Alive(old) /\ Chunks(old, size)
    BY <2>5, <2>9, UsedFacts DEF IndInv
  <2>11. \A k \in Nat : ~ Msg(k, "Dealloc", old)'
    <3>1. channel \in Seq(Command) /\ \A k \in Nat : ~ Msg(k, "Dealloc", old)
      BY <2>10 DEF IndInv, Ordered, Alive
    <3>2. CASE UNCHANGED channel
      BY <3>1, <3>2, NoneSent
    <3>3. CASE lock.discarded \in Nat /\ ClientSends([kind |-> "Dealloc", id |-> lock.discarded])
      <4>1. PICK msg \in Command : channel' = Append(channel, msg) /\ msg.id = lock.discarded
        BY <3>3 DEF ClientSends
      <4>2. lock.discarded # old
        <5>1. Separate(b) /\ lock.discarded # InvalidId
          BY <3>3 DEF IndInv, Owners, InvalidId
        <5> QED
          BY <5>1, <2>2, <2>4, <2>8 DEF Separate
      <4> QED
        BY <3>1, <4>1, <4>2, NoneSent
    <3> QED
      BY <3>2, <3>3, <1>5, <2>2, UnlockSends
  <2>12. Alive(old)' /\ Chunks(old, size)'
    BY <2>10, <2>11, AliveStays
  <2>13. Alive(call.old)' /\ Chunks(call.old, Size[call.buffer])'
    BY <2>5, <2>7, <2>12
  <2> QED
    BY <2>3, <2>7, <2>13, <1>1 DEF Called, Searching
<1>6. CASE GameWrites(b) \/ Destroy(b)
  BY <1>3, <1>6 DEF GameWrites, Destroy
<1> QED
  BY <1>3, <1>4, <1>5, <1>6

\* A call keeps what it was made with, and an unlock the allocation it copies from.
LEMMA CalledKept ==
  ASSUME IndInv, [Next]_vars
  PROVE  Called'
<1>1. Called
  BY DEF IndInv
<1>2. ASSUME NEW b \in Buffer, GameWrites(b) \/ Unlock(b) \/ Destroy(b) \/ \E discard \in BOOLEAN : Lock(b, discard)
      PROVE Called'
  BY <1>2, GameKeepsCall
<1>3. CASE Allocate \/ FindAgain \/ FindInNew
  <2>1. /\ at \in Searching /\ at # "idle" /\ channel' = channel /\ call' = call /\ bufferId' = bufferId
        /\ retries' \in 0 .. 2 /\ growthAttempted' \in BOOLEAN
    <3>1. /\ at \in Searching /\ at # "idle" /\ channel' = channel /\ call' = call /\ bufferId' = bufferId
          /\ UNCHANGED retries \/ retries' = 0
      BY <1>3 DEF Allocate, FindAgain, FindInNew, buffers, Searching
    <3>2. UNCHANGED growthAttempted \/ growthAttempted' = FALSE
      BY <1>3, Zenon DEF Allocate, FindAgain, FindInNew
    <3>3. retries' \in 0 .. 2
      BY <3>1, <1>1 DEF Called
    <3>4. growthAttempted' \in BOOLEAN
      BY <3>2, <1>1 DEF Called
    <3> QED
      BY <3>1, <3>3, <3>4
  <2>2. PICK otherwise \in Searching : Find(otherwise)
    BY <1>3 DEF Allocate, FindAgain, FindInNew, Searching
  <2>3. found' \in Chunk /\ (at' = otherwise \/ at' = "announce")
    BY <2>1, <2>2, FindFacts
  <2>4. call.kind = "snapshot" => \A k \in Nat : ~ Msg(k, "Dealloc", call.old)'
    BY <2>1, SourceKept
  <2> QED
    BY <2>1, <2>2, <2>3, <2>4, CallGoesOn
<1>4. CASE FreeDeallocations \/ Again
  <2>1. /\ at # "idle" /\ at' \in Searching /\ channel' = channel /\ call' = call /\ bufferId' = bufferId
        /\ growthAttempted' = growthAttempted /\ found' = found
        /\ retries' = retries \/ retries' = Min({retries + 1, 2})
    BY <1>1, <1>4 DEF FreeDeallocations, Again, Goes, buffers, search, Searching
  <2>2. retries' \in 0 .. 2
    <3>1. retries \in 0 .. 2
      BY <1>1 DEF Called
    <3>2. {retries + 1, 2} \in SUBSET Nat
      BY <3>1
    <3>3. Min({retries + 1, 2}) \in {retries + 1, 2} /\ Min({retries + 1, 2}) <= 2
      BY <3>2, MinLemma
    <3> QED
      BY <2>1, <3>1, <3>3
  <2>3. call.kind = "snapshot" => \A k \in Nat : ~ Msg(k, "Dealloc", call.old)'
    BY <2>1, SourceKept
  <2> QED
    BY <2>1, <2>2, <2>3, <1>1, CallGoesOn DEF Called
<1>5. CASE Grow
  <2>1. /\ at # "idle" /\ at' \in Searching /\ call' = call /\ bufferId' = bufferId
        /\ growthAttempted' = TRUE /\ found' = found /\ retries' = retries
    BY <1>5 DEF Grow, buffers, Searching
  <2>2. UNCHANGED channel \/ \E msg \in Command : channel' = Append(channel, msg) /\ msg.kind # "Dealloc"
    <3>1. UNCHANGED channel \/ \E n \in Nat \ {0} : ClientSends([kind |-> "AddSeg", chunks |-> n])
      BY <1>5, GrowFacts
    <3> QED
      BY <3>1 DEF ClientSends
  <2>3. call.kind = "snapshot" => \A k \in Nat : ~ Msg(k, "Dealloc", call.old)'
    BY <2>1, <2>2, SourceKept
  <2> QED
    BY <2>1, <2>3, <1>1, CallGoesOn DEF Called
<1>6. CASE TimesOut \/ RetireSnapshot
  BY <1>1, <1>6, CallEnds DEF TimesOut, RetireSnapshot, Goes, search
<1>7. CASE Announce
  <2>1. /\ at # "idle" /\ at' = "mark" /\ call' = call /\ bufferId' = bufferId
        /\ growthAttempted' = growthAttempted /\ found' = found /\ retries' = retries
        /\ channel' = Append(channel, [kind |-> "Alloc", id |-> nextUid, first |-> found])
    BY <1>7 DEF Announce, Goes, Send, buffers, search
  <2>2. \E msg \in Command : channel' = Append(channel, msg) /\ msg.kind # "Dealloc"
    <3>1. nextUid \in Nat /\ found \in Chunk
      BY <1>7, AnnounceFacts
    <3>2. [kind |-> "Alloc", id |-> nextUid, first |-> found] \in Command
      BY <3>1 DEF Command
    <3> QED
      BY <2>1, <3>2
  <2>3. call.kind = "snapshot" => \A k \in Nat : ~ Msg(k, "Dealloc", call.old)'
    BY <2>1, <2>2, SourceKept
  <2> QED
    BY <2>1, <2>3, <1>1, CallGoesOn DEF Called
<1>8. CASE Mark
  <2>1. channel' = channel /\ UNCHANGED <<retries, growthAttempted, found>> /\ at # "idle"
    BY <1>8 DEF Mark, search
  <2>2. CASE at' = "idle" /\ call' = NoCall
    BY <2>1, <2>2, <1>1, CallEnds
  <2>3. CASE call.kind = "snapshot" /\ at' = "upload" /\ UNCHANGED <<call, buffers>>
    <3>1. call' = call /\ bufferId' = bufferId
      BY <2>3 DEF buffers
    <3>2. call.kind = "snapshot" => \A k \in Nat : ~ Msg(k, "Dealloc", call.old)'
      BY <2>1, <3>1, SourceKept
    <3> QED
      BY <2>1, <2>3, <3>1, <3>2, <1>1, CallGoesOn DEF Called
  <2> QED
    BY <2>2, <2>3, <1>8 DEF Mark
<1>9. CASE Upload
  <2>1. /\ at = "upload" /\ at' = "retire" /\ call' = call /\ bufferId' = bufferId
        /\ UNCHANGED <<retries, growthAttempted, found>>
    BY <1>9 DEF Upload, Goes, buffers, search
  <2>2. call.kind = "snapshot"
    BY <2>1, <1>1 DEF Called, Calls
  <2>3. \E msg \in Command : channel' = Append(channel, msg) /\ msg.kind # "Dealloc"
    BY <1>9, UploadSends DEF ClientSends
  <2>4. call.kind = "snapshot" => \A k \in Nat : ~ Msg(k, "Dealloc", call.old)'
    BY <2>1, <2>3, SourceKept
  <2> QED
    BY <2>1, <2>2, <2>4, <1>1, CallGoesOn DEF Called
<1>10. CASE Server \/ UNCHANGED vars
  <2>1. /\ at' = at /\ call' = call /\ bufferId' = bufferId /\ UNCHANGED <<retries, growthAttempted, found>>
        /\ channel' = channel \/ (channel # <<>> /\ channel' = Tail(channel))
    BY <1>10 DEF Server, ServerAddSeg, ServerAlloc, ServerUnlock, ServerDealloc, Executes, buffers, search, vars
  <2>2. CASE at = "idle"
    <3>1. call = NoCall
      BY <2>2, <1>1 DEF Called
    <3> QED
      BY <2>1, <2>2, <3>1, <1>1, CallEnds
  <2>3. CASE at # "idle"
    <3>1. call.kind = "snapshot" => \A k \in Nat : ~ Msg(k, "Dealloc", call.old)'
      BY <2>1, SourceKept
    <3>2. at' \in Searching \union {"announce", "mark"} \/ (at' \in {"upload", "retire"} /\ call.kind = "snapshot")
      BY <2>1, <2>3, <1>1 DEF Called, Calls
    <3> QED
      BY <2>1, <2>3, <3>1, <3>2, <1>1, CallGoesOn DEF Called
  <2> QED
    BY <2>2, <2>3
<1> QED
  BY <1>2, <1>3, <1>4, <1>5, <1>6, <1>7, <1>8, <1>9, <1>10 DEF Next, InCall

\* (The allocation made is its caller's alone until the call hands it over or retires it.)
LEMMA MadeGoesOn ==
  ASSUME IndInv, [Next]_vars, at \in {"mark", "upload", "retire"},
         UNCHANGED <<nextUid, found, call, buffers>>,
         \A id \in Nat : id = nextUid - 1 => \A k \in Nat : ~ Msg(k, "Dealloc", id)',
         at' \in {"mark", "upload", "retire"}, at' = "mark" => at = "mark",
         chunkState'[found] = IF at' = "mark" THEN "Unallocated" ELSE "Allocated",
         ~ Announce, ~ FreeDeallocations
  PROVE  Made'
<1>1. /\ nextUid - 1 \in Nat /\ nextUid - 1 \in DOMAIN cache /\ cache[nextUid - 1] = found
      /\ Chunks(nextUid - 1, call.chunks) /\ call.old # nextUid - 1
      /\ \A b \in Buffer : ~ Uses(b, nextUid - 1)
  BY DEF IndInv, Made, Runs
<1>2. UNCHANGED <<cache, allocations, bufferId, lockInfos>>
  BY AllocationsQuiet DEF buffers
<1>3. PICK id \in Nat : id = nextUid - 1 /\ id = nextUid' - 1
  BY <1>1
<1>4. \A b \in Buffer : ~ Uses(b, id)'
  BY <1>1, <1>2, <1>3 DEF Uses
<1>5. \A k \in Nat : ~ Msg(k, "Dealloc", id)'
  BY <1>3
<1>6. (\A b \in Buffer : ~ Uses(b, nextUid - 1))' /\ (\A k \in Nat : ~ Msg(k, "Dealloc", nextUid - 1))'
  BY <1>3, <1>4, <1>5
<1>7. Chunks(nextUid - 1, call.chunks)'
  BY <1>1, <1>2 DEF Chunks
<1> QED
  BY <1>1, <1>2, <1>6, <1>7 DEF Made

\* What is free changes with the segments and the allocations only.
LEMMA FitsQuiet ==
  ASSUME UNCHANGED <<segments, allocations>>, NEW n
  PROVE  Fits(n)' = Fits(n)
BY DEF Fits, OneSegment, Taken

\* What a search found stays free until it is taken, and what was made its caller's.
LEMMA MadeKept ==
  ASSUME IndInv, [Next]_vars
  PROVE  Made'
<1>1. CASE at' \notin {"announce", "mark", "upload", "retire"}
  BY <1>1 DEF Made
<1>2. CASE Announce
  <2>1. /\ nextUid \in Nat /\ nextUid \notin DOMAIN cache /\ nextUid' = nextUid + 1
        /\ call \in Calls /\ call.chunks \in Nat \ {0} /\ found \in Chunk
        /\ DOMAIN cache' = DOMAIN cache \union {nextUid} /\ cache'[nextUid] = found
        /\ allocations'[found] = found + call.chunks - 1
    BY <1>2, AnnounceFacts
  <2>2. /\ at = "announce" /\ at' = "mark" /\ UNCHANGED <<found, call, bufferId, lockInfos, chunkState>>
        /\ channel' = Append(channel, [kind |-> "Alloc", id |-> nextUid, first |-> found])
    BY <1>2 DEF Announce, Goes, Send, search, buffers, shared
  <2>3. PICK id \in Nat : id = nextUid /\ id = nextUid' - 1
    BY <2>1
  <2>4. id \in DOMAIN cache' /\ cache'[id] = found /\ Chunks(id, call.chunks)'
    BY <2>1, <2>2, <2>3 DEF Chunks
  <2>5. \A i \in Nat : Alive(i) => i # id
    BY <2>1, <2>3 DEF Alive
  <2>6. call.old # id
    <3>1. CASE call.kind = "snapshot"
      BY <3>1, <2>5 DEF IndInv, Called
    <3>2. CASE call.kind = "lock"
      <4>1. call.old = bufferId[call.buffer] /\ call.buffer \in Buffer
        BY <2>1, <3>2 DEF IndInv, Called, Calls
      <4>2. CASE call.old \in Nat
        <5>1. PICK old \in Nat : old = call.old
          BY <4>2
        <5>2. PICK b \in Buffer : b = call.buffer
          BY <4>1
        <5>3. Uses(b, old)
          BY <4>1, <5>1, <5>2 DEF Uses, InvalidId
        <5>4. Alive(old)
          BY <5>3, UsedFacts DEF IndInv
        <5> QED
          BY <5>1, <5>4, <2>5
      <4> QED
        BY <4>2, <2>3
    <3> QED
      BY <3>1, <3>2, <2>1 DEF Calls
  <2>7. \A b \in Buffer : ~ Uses(b, id)'
    <3> SUFFICES ASSUME NEW b \in Buffer, Uses(b, id)' PROVE FALSE
      OBVIOUS
    <3>1. Uses(b, id)
      BY <2>2 DEF Uses
    <3>2. Alive(id)
      BY <3>1, UsedFacts DEF IndInv
    <3> QED
      BY <3>2, <2>5
  <2>8. \A k \in Nat : ~ Msg(k, "Dealloc", id)'
    <3>1. channel \in Seq(Command) /\ \A k \in Nat : ~ Msg(k, "Dealloc", id)
      BY <2>1, <2>3 DEF IndInv, Ordered
    <3>2. [kind |-> "Alloc", id |-> nextUid, first |-> found] \in Command
      BY <2>1 DEF Command
    <3> QED
      BY <3>1, <3>2, <2>2, NoneSent
  <2>9. chunkState'[found'] = "Unallocated"
    <3>1. found \in Fits(call.chunks) /\ Runs /\ Known /\ Segments
      BY <2>2 DEF IndInv, Made
    <3> QED
      BY <3>1, <2>1, <2>2, FitsFacts
  <2>10. (\A b \in Buffer : ~ Uses(b, nextUid - 1))' /\ (\A k \in Nat : ~ Msg(k, "Dealloc", nextUid - 1))'
    BY <2>3, <2>7, <2>8
  <2>11. Chunks(nextUid - 1, call.chunks)'
    BY <2>2, <2>3, <2>4
  <2> QED
    BY <2>2, <2>3, <2>4, <2>6, <2>9, <2>10, <2>11 DEF Made
<1>3. CASE Allocate \/ FindAgain \/ FindInNew
  <2>1. at # "idle" /\ UNCHANGED <<segments, allocations, call>>
    BY <1>3 DEF Allocate, FindAgain, FindInNew, heap
  <2>2. PICK otherwise \in Searching : Find(otherwise)
    BY <1>3 DEF Allocate, FindAgain, FindInNew, Searching
  <2>3. at' = otherwise \/ (at' = "announce" /\ found' \in Fits(call.chunks))
    BY <2>1, <2>2, FindFacts
  <2>4. found' \in Fits(call.chunks) => (found \in Fits(call.chunks))'
    <3>1. PICK n : n = call.chunks
      OBVIOUS
    <3>2. Fits(n)' = Fits(n)
      BY <2>1, FitsQuiet
    <3> QED
      BY <3>1, <3>2, <2>1
  <2> QED
    BY <2>2, <2>3, <2>4 DEF Made, Searching
<1>4. CASE Mark
  <2>1. /\ at = "mark" /\ UNCHANGED <<channel, nextUid, found>> /\ chunkState'[found] = "Allocated"
        /\ \A k \in Nat : ~ Msg(k, "Dealloc", nextUid - 1)
        /\ ~ Announce /\ ~ FreeDeallocations
    BY <1>4, MarkFacts DEF Announce, FreeDeallocations, Goes
  <2>2. CASE at' = "upload" /\ UNCHANGED <<call, buffers>>
    <3>1. \A id \in Nat : id = nextUid - 1 => \A k \in Nat : ~ Msg(k, "Dealloc", id)'
      BY <2>1 DEF Msg
    <3> QED
      BY <2>1, <2>2, <3>1, MadeGoesOn
  <2> QED
    BY <2>2, <1>1, <1>4 DEF Mark
<1>5. CASE Upload
  <2>1. at = "upload" /\ at' = "retire" /\ UNCHANGED <<nextUid, found, call, buffers, chunkState>> /\ ~ Announce /\ ~ FreeDeallocations
    BY <1>5 DEF Upload, Goes, heap, search, shared, Announce, FreeDeallocations
  <2>2. chunkState[found] = "Allocated" /\ (\A k \in Nat : ~ Msg(k, "Dealloc", nextUid - 1)) /\ channel \in Seq(Command)
    BY <2>1 DEF IndInv, Made, Ordered
  <2>3. \E msg \in Command : channel' = Append(channel, msg) /\ msg.kind = "Unlock"
    BY <1>5, UploadSends DEF ClientSends
  <2>4. \A k \in Nat : ~ Msg(k, "Dealloc", nextUid - 1)'
    <3>1. PICK i : i = nextUid - 1
      OBVIOUS
    <3>2. \A k \in Nat : ~ Msg(k, "Dealloc", i)'
      BY <2>2, <2>3, <3>1, NoneSent
    <3> QED
      BY <3>1, <3>2, <2>1
  <2>5. \A id \in Nat : id = nextUid - 1 => \A k \in Nat : ~ Msg(k, "Dealloc", id)'
    BY <2>1, <2>4
  <2> QED
    BY <2>1, <2>2, <2>5, MadeGoesOn
<1>6. CASE Server \/ UNCHANGED vars
  <2>1. /\ UNCHANGED <<at, nextUid, found, call, buffers, segments, allocations>> /\ ~ Announce /\ ~ FreeDeallocations
        /\ channel' = channel \/ (channel # <<>> /\ channel' = Tail(channel))
    <3>1. /\ UNCHANGED <<at, nextUid, found, call, buffers, segments, allocations>>
          /\ channel' = channel \/ (channel # <<>> /\ channel' = Tail(channel))
      BY <1>6 DEF Server, ServerAddSeg, ServerAlloc, ServerUnlock, ServerDealloc, Executes, heap, search, vars
    <3> QED
      BY <3>1 DEF Announce, FreeDeallocations, Goes
  <2>2. CASE at = "announce"
    <3>1. PICK n : n = call.chunks /\ found \in Fits(n)
      BY <2>2 DEF IndInv, Made
    <3>2. Fits(n)' = Fits(n)
      BY <2>1, FitsQuiet
    <3>3. (found \in Fits(call.chunks))'
      BY <3>1, <3>2, <2>1
    <3> QED
      BY <3>3, <2>1, <2>2 DEF Made
  <2>3. CASE at \in {"mark", "upload", "retire"}
    <3>1. /\ nextUid - 1 \in Nat /\ nextUid - 1 \in DOMAIN cache /\ cache[nextUid - 1] = found
          /\ chunkState[found] = IF at = "mark" THEN "Unallocated" ELSE "Allocated"
          /\ \A k \in Nat : ~ Msg(k, "Dealloc", nextUid - 1)
      BY <2>3 DEF IndInv, Made, Runs
    <3>2. PICK id \in Nat : id = nextUid - 1
      BY <3>1
    <3>3. \A k \in Nat : ~ Msg(k, "Dealloc", id)'
      BY <2>1, <3>1, <3>2, NoneSent DEF IndInv, Ordered
    <3>4. chunkState'[found] = chunkState[found]
      <4>1. CASE at # "mark"
        <5>1. Alive(id)
          BY <3>1, <3>2, <4>1 DEF Alive
        <5>2. Alive(id)' /\ Stays(id)
          BY <3>3, <5>1, AliveStays
        <5> QED
          BY <3>1, <3>2, <5>2, <4>1 DEF Alive, Stays
      <4>2. CASE at = "mark"
        <5>1. CASE ServerDealloc
          BY <5>1, <3>1, <3>2, RetiresOne
        <5>2. CASE ~ ServerDealloc
          BY <5>2, <4>2, <2>1, StatesQuiet DEF Mark
        <5> QED
          BY <5>1, <5>2
      <4> QED
        BY <4>1, <4>2
    <3> QED
      BY <2>1, <2>3, <3>1, <3>2, <3>3, <3>4, MadeGoesOn
  <2>4. CASE at \notin {"announce", "mark", "upload", "retire"}
    BY <2>1, <2>4, <1>1
  <2> QED
    BY <2>2, <2>3, <2>4
<1>7. CASE \/ \E b \in Buffer : GameWrites(b) \/ Unlock(b) \/ Destroy(b) \/ \E discard \in BOOLEAN : Lock(b, discard)
           \/ FreeDeallocations \/ Grow \/ Again \/ TimesOut \/ RetireSnapshot
  <2>1. at' \notin {"announce", "mark", "upload", "retire"}
    BY <1>7 DEF GameWrites, Unlock, Destroy, Lock, FreeDeallocations, Grow, Again, TimesOut, RetireSnapshot, Goes
  <2> QED
    BY <2>1, <1>1
<1> QED
  BY <1>2, <1>3, <1>4, <1>5, <1>6, <1>7 DEF Next, InCall

-----------------------------------------------------------------------------
(* The uploads *)

\* An allocation's chunks are chunks of the heap.
LEMMA ChunksInHeap ==
  ASSUME Runs, NEW id \in DOMAIN cache
  PROVE  ChunksOf(id) \subseteq Chunk
<1>1. cache[id] \in Chunk /\ allocations[cache[id]] \in Chunk
  BY DEF Runs
<1> QED
  BY <1>1, HeapAssumption DEF Chunk, ChunksOf

\* The memory changes when the game writes and when an unlock copies.
LEMMA MemoryQuiet ==
  ASSUME [Next]_vars, ~ Mark, \A b \in Buffer : ~ GameWrites(b)
  PROVE  UNCHANGED memory
<1>1. CASE Server \/ UNCHANGED vars
  BY <1>1 DEF Server, ServerAddSeg, ServerAlloc, ServerUnlock, ServerDealloc, shared, vars
<1>2. CASE InCall
  BY <1>2 DEF InCall, Allocate, FreeDeallocations, FindAgain, Grow, FindInNew, Again, TimesOut, Announce,
              Upload, RetireSnapshot, shared
<1>3. ASSUME NEW b \in Buffer, Unlock(b) \/ Destroy(b) \/ \E discard \in BOOLEAN : Lock(b, discard)
      PROVE UNCHANGED memory
  BY <1>3 DEF Unlock, Destroy, Lock, shared
<1> QED
  BY <1>1, <1>2, <1>3 DEF Next

\* The game writes what its buffers have.
LEMMA GameWritesItsOwn ==
  ASSUME IndInv, NEW b \in Buffer, GameWrites(b)
  PROVE  /\ at = "idle" /\ UNCHANGED <<at, channel>>
         /\ \E id \in Nat, v \in Value : \E c \in ChunksOf(id) :
              Uses(b, id) /\ memory' = [memory EXCEPT ![c] = v]
<1>1. /\ at = "idle" /\ UNCHANGED <<at, channel>>
      /\ \E k \in DOMAIN lockInfos[b], v \in Value :
           \E c \in ChunksOf(lockInfos[b][k].buffer) : memory' = [memory EXCEPT ![c] = v]
  BY DEF GameWrites
<1>2. PICK k \in DOMAIN lockInfos[b], v \in Value :
        \E c \in ChunksOf(lockInfos[b][k].buffer) : memory' = [memory EXCEPT ![c] = v]
  BY <1>1
<1>3. PICK infos \in Seq(LockInfo) : infos = lockInfos[b]
  BY DEF IndInv, Owners
<1>4. k \in 1 .. Len(infos) /\ infos[k] \in LockInfo
  BY <1>2, <1>3
<1>5. PICK id \in Nat : id = lockInfos[b][k].buffer
  BY <1>3, <1>4 DEF LockInfo
<1>6. Uses(b, id)
  BY <1>3, <1>4, <1>5 DEF Uses, InvalidId
<1> QED
  BY <1>1, <1>2, <1>5, <1>6

\* No step touches the run of an upload on the way.
LEMMA UploadUntouched ==
  ASSUME IndInv, [Next]_vars, NEW id \in Nat, NEW k \in Nat, Msg(k, "Unlock", id)
  PROVE  Stays(id) /\ ChunksOf(id)' = ChunksOf(id) /\ \A c \in ChunksOf(id) : memory'[c] = memory[c]
<1>1. Runs /\ id \in DOMAIN cache /\ chunkState[cache[id]] = "Allocated" /\ memory \in [Chunk -> Value]
  BY DEF IndInv, Ordered, Uploaded
<1>2. Stays(id) /\ ChunksOf(id) \subseteq Chunk
  BY <1>1, AllocationsStay, ChunksInHeap
<1>3. ChunksOf(id)' = ChunksOf(id)
  BY <1>2 DEF Stays, ChunksOf
<1>4. ASSUME NEW c \in ChunksOf(id) PROVE memory'[c] = memory[c]
  <2>1. ASSUME NEW b \in Buffer, GameWrites(b) PROVE memory'[c] = memory[c]
    <3>1. PICK i \in Nat, v \in Value : \E x \in ChunksOf(i) : Uses(b, i) /\ memory' = [memory EXCEPT ![x] = v]
      BY <2>1, GameWritesItsOwn
    <3>2. PICK x \in ChunksOf(i) : Uses(b, i) /\ memory' = [memory EXCEPT ![x] = v]
      BY <3>1
    <3>3. i \in DOMAIN cache /\ i # id
      BY <3>2, UsedFacts DEF IndInv, Alive
    <3>4. c # x
      BY <3>2, <3>3, <1>1, <1>4 DEF Runs
    <3> QED
      BY <3>2, <3>4, <1>1, <1>2, <1>4
  <2>2. CASE Mark
    <3>1. /\ nextUid - 1 \in DOMAIN cache /\ \A j \in Nat : ~ Msg(j, "Unlock", nextUid - 1)
      BY <2>2, MarkFacts
    <3>2. PICK i \in DOMAIN cache : i = nextUid - 1 /\ i # id
      BY <3>1
    <3>3. c \notin ChunksOf(i)
      BY <3>2, <1>1, <1>4 DEF Runs
    <3>4. \/ memory' = memory
          \/ memory' = [x \in Chunk |-> IF x \in ChunksOf(i) THEN memory[cache[call.old] + call.offset + x - found] ELSE memory[x]]
      BY <2>2, <3>2 DEF Mark
    <3> QED
      BY <3>3, <3>4, <1>2, <1>4
  <2>3. CASE ~ Mark /\ \A b \in Buffer : ~ GameWrites(b)
    BY <2>3, MemoryQuiet
  <2> QED
    BY <2>1, <2>2, <2>3
<1> QED
  BY <1>2, <1>3, <1>4

\* The memory keeps its type.
LEMMA MemoryTyped ==
  ASSUME IndInv, [Next]_vars
  PROVE  memory' \in [Chunk -> Value]
<1>1. memory \in [Chunk -> Value] /\ Runs /\ Called
  BY DEF IndInv, Uploaded
<1>2. ASSUME NEW b \in Buffer, GameWrites(b) PROVE memory' \in [Chunk -> Value]
  <2>1. PICK id \in Nat, v \in Value : \E c \in ChunksOf(id) : Uses(b, id) /\ memory' = [memory EXCEPT ![c] = v]
    BY <1>2, GameWritesItsOwn
  <2> QED
    BY <2>1, <1>1
<1>3. CASE Mark
  <2>1. CASE memory' = memory
    BY <2>1, <1>1
  <2>2. CASE /\ call.kind = "snapshot"
             /\ memory' = [c \in Chunk |-> IF c \in ChunksOf(nextUid - 1) THEN memory[cache[call.old] + call.offset + c - found]
                                           ELSE memory[c]]
    <3>1. /\ cache[nextUid - 1] = found /\ Chunks(nextUid - 1, call.chunks) /\ found \in Nat
          /\ call.chunks \in Nat /\ call.offset \in Nat /\ nextUid - 1 \in DOMAIN cache
      BY <1>1, <1>3, MarkFacts, HeapAssumption DEF Called, Chunk, Calls
    <3>2. ASSUME NEW c \in ChunksOf(nextUid - 1) PROVE memory[cache[call.old] + call.offset + c - found] \in Value
      <4>1. PICK j \in 0 .. call.chunks - 1 : c = found + j
        <5>1. c \in found .. found + call.chunks - 1
          BY <3>1, <3>2 DEF ChunksOf, Chunks
        <5>2. c - found \in 0 .. call.chunks - 1 /\ c = found + (c - found)
          BY <5>1, <3>1
        <5> QED
          BY <5>2
      <4>2. cache[call.old] + call.offset + j \in Chunk /\ call.old \in DOMAIN cache
        BY <2>2, <1>1, SourceInRun
      <4>3. cache[call.old] \in Nat
        BY <4>2, <1>1, HeapAssumption DEF Runs, Chunk
      <4>4. cache[call.old] + call.offset + c - found = cache[call.old] + call.offset + j
        BY <4>1, <4>3, <3>1
      <4> QED
        BY <4>2, <4>4, <1>1
    <3> QED
      BY <2>2, <3>2, <1>1
  <2> QED
    BY <2>1, <2>2, <1>3 DEF Mark
<1>4. CASE ~ Mark /\ \A b \in Buffer : ~ GameWrites(b)
  BY <1>1, <1>4, MemoryQuiet
<1> QED
  BY <1>2, <1>3, <1>4

\* (The data of a command on the way is in the memory.)
Arrived(k, id) ==
  \A c \in DOMAIN channel[k].data :
    cache[id] + c \in ChunksOf(id) /\ memory[cache[id] + c] = channel[k].data[c]

\* (An upload that was on the way.)
LEMMA OldUploadKept ==
  ASSUME IndInv, [Next]_vars, NEW id \in Nat, NEW m \in Nat, Msg(m, "Unlock", id), NEW k \in Nat, channel'[k] = channel[m]
  PROVE  Arrived(k, id)'
<1>1. Stays(id) /\ ChunksOf(id)' = ChunksOf(id) /\ \A c \in ChunksOf(id) : memory'[c] = memory[c]
  BY UploadUntouched
<1>2. \A c \in DOMAIN channel[m].data :
        cache[id] + c \in ChunksOf(id) /\ memory[cache[id] + c] = channel[m].data[c]
  BY DEF IndInv, Uploaded
<1>3. cache'[id] = cache[id]
  BY <1>1 DEF Stays
<1>4. \A c \in DOMAIN channel'[k].data :
        cache'[id] + c \in ChunksOf(id)' /\ memory'[cache'[id] + c] = channel'[k].data[c]
  BY <1>1, <1>2, <1>3
<1> QED
  BY <1>4 DEF Arrived

\* (Nothing is uploaded by the step.)
LEMMA OldUploadsKept ==
  ASSUME IndInv, [Next]_vars,
         channel' = channel \/ (channel # <<>> /\ channel' = Tail(channel))
           \/ \E msg \in Command : channel' = Append(channel, msg) /\ msg.kind # "Unlock"
  PROVE  \A k, id \in Nat : Msg(k, "Unlock", id)' => Arrived(k, id)'
<1> SUFFICES ASSUME NEW k \in Nat, NEW id \in Nat, Msg(k, "Unlock", id)' PROVE Arrived(k, id)'
  OBVIOUS
<1>1. channel \in Seq(Command)
  BY DEF IndInv, Ordered
<1>2. \E m \in Nat : Msg(m, "Unlock", id) /\ channel'[k] = channel[m]
  <2>1. CASE channel' = channel
    BY <2>1 DEF Msg
  <2>2. CASE channel # <<>> /\ channel' = Tail(channel)
    <3>1. /\ \A j \in 1 .. Len(channel') : channel'[j] = channel[j + 1]
          /\ Msg(k, "Unlock", id)' <=> k >= 1 /\ Msg(k + 1, "Unlock", id)
      BY Zenon, <2>2, <1>1, TakeFacts
    <3> QED
      BY SMTT(30), <3>1 DEF Msg
  <2>3. ASSUME NEW msg \in Command, channel' = Append(channel, msg), msg.kind # "Unlock"
        PROVE \E m \in Nat : Msg(m, "Unlock", id) /\ channel'[k] = channel[m]
    <3>1. /\ \A j \in 1 .. Len(channel) : channel'[j] = channel[j]
          /\ Msg(k, "Unlock", id)' <=> \/ Msg(k, "Unlock", id)
                                       \/ k = Len(channel) + 1 /\ msg.kind = "Unlock" /\ msg.id = id
      BY <2>3, <1>1, SendFacts
    <3> QED
      BY <3>1, <2>3 DEF Msg
  <2> QED
    BY <2>1, <2>2, <2>3
<1> QED
  BY <1>2, OldUploadKept

\* (An upload takes the data from the memory.)
LEMMA NewUploadKept ==
  ASSUME IndInv, [Next]_vars, Upload
  PROVE  \A k, id \in Nat : Msg(k, "Unlock", id)' => Arrived(k, id)'
<1>1. /\ Runs /\ Called /\ Made /\ Uploaded /\ at = "upload" /\ UNCHANGED <<cache, allocations, memory>>
      /\ channel \in Seq(Command)
  BY DEF IndInv, Upload, Goes, heap, shared, Ordered
<1>2. PICK msg \in Command :
        /\ msg.kind = "Unlock" /\ msg.id = nextUid - 1 /\ channel' = Append(channel, msg)
        /\ DOMAIN msg.data = 0 .. call.chunks - 1
        /\ \A c \in 0 .. call.chunks - 1 : msg.data[c] = Copied(c)
  BY UploadSends DEF ClientSends
<1>3. /\ \A k \in 1 .. Len(channel) : channel'[k] = channel[k]
      /\ channel'[Len(channel) + 1] = msg
      /\ \A k \in Nat : \A kind, id :
           Msg(k, kind, id)' <=> \/ Msg(k, kind, id)
                                 \/ k = Len(channel) + 1 /\ msg.kind = kind /\ msg.id = id
  BY <1>1, <1>2, SendFacts
<1> SUFFICES ASSUME NEW k \in Nat, NEW id \in Nat, Msg(k, "Unlock", id)' PROVE Arrived(k, id)'
  OBVIOUS
<1>4. CASE Msg(k, "Unlock", id)
  <2>1. channel'[k] = channel[k]
    BY <1>3, <1>4 DEF Msg
  <2> QED
    BY <2>1, <1>4, OldUploadKept
<1>5. CASE k = Len(channel) + 1 /\ id = nextUid - 1
  <2>1. /\ id \in DOMAIN cache /\ cache[id] = found /\ found \in Nat
        /\ allocations[cache[id]] = found + call.chunks - 1 /\ call.chunks \in Nat
    BY <1>1, <1>5, HeapAssumption DEF Made, Chunks, Called, Calls, Chunk
  <2>2. ASSUME NEW c \in 0 .. call.chunks - 1
        PROVE cache[id] + c \in ChunksOf(id) /\ memory[cache[id] + c] = msg.data[c]
    <3>1. found + c \in found .. found + call.chunks - 1
      BY <2>1
    <3>2. memory[found + c] = Copied(c)
      BY <1>1 DEF Uploaded
    <3> QED
      BY <3>1, <3>2, <2>1, <1>2 DEF ChunksOf
  <2>3. channel'[k] = msg
    BY <1>3, <1>5
  <2>4. \A c \in DOMAIN channel'[k].data :
          cache'[id] + c \in ChunksOf(id)' /\ memory'[cache'[id] + c] = channel'[k].data[c]
    <3>1. ChunksOf(id)' = ChunksOf(id)
      BY <1>1 DEF ChunksOf
    <3> QED
      BY <3>1, <2>2, <2>3, <1>1, <1>2
  <2> QED
    BY <2>4 DEF Arrived
<1> QED
  BY <1>2, <1>3, <1>4, <1>5

\* (The source and the snapshot of an upload in progress keep what they held.)
LEMMA CopyKept ==
  ASSUME IndInv, [Next]_vars, at' = "upload"
  PROVE  (\A c \in 0 .. call.chunks - 1 : memory[found + c] = Copied(c))'
<1>1. Runs /\ Called /\ Made /\ Uploaded
  BY DEF IndInv
<1>2. CASE Mark
  <2>1. /\ call.kind = "snapshot" /\ UNCHANGED <<call, found, cache>>
        /\ memory' = [c \in Chunk |-> IF c \in ChunksOf(nextUid - 1) THEN memory[cache[call.old] + call.offset + c - found]
                                      ELSE memory[c]]
    BY <1>2 DEF Mark, heap, search
  <2>2. /\ nextUid - 1 \in DOMAIN cache /\ cache[nextUid - 1] = found /\ Chunks(nextUid - 1, call.chunks)
        /\ call.old # nextUid - 1 /\ call.chunks \in Nat /\ call.offset \in Nat
    BY <1>2, MarkFacts DEF Calls
  <2>3. found \in Nat /\ allocations[found] = found + call.chunks - 1 /\ allocations[found] \in Chunk
    BY <2>2, <1>1, HeapAssumption DEF Called, Chunk, Chunks, Runs
  <2>4. ASSUME NEW c \in 0 .. call.chunks - 1
        PROVE memory'[found + c] = memory'[cache[call.old] + call.offset + c]
    <3>1. PICK x \in Int : x = cache[call.old] + call.offset + c
      <4>1. cache[call.old] + call.offset + c \in Chunk
        BY <2>1, <1>1, SourceInRun
      <4> QED
        BY <4>1, HeapAssumption DEF Chunk
    <3>2. x \in Chunk /\ x \in ChunksOf(call.old) /\ call.old \in DOMAIN cache
      BY <3>1, <2>1, <1>1, SourceInRun
    <3>3. x \notin ChunksOf(nextUid - 1)
      BY <3>2, <2>2, <1>1 DEF Runs
    <3>4. memory'[x] = memory[x]
      BY <3>2, <3>3, <2>1
    <3>5. found + c \in ChunksOf(nextUid - 1)
      BY <2>2, <2>3 DEF ChunksOf
    <3>6. found + c \in Chunk
      BY <3>5, <2>2, <1>1, ChunksInHeap
    <3>7. cache[call.old] + call.offset + (found + c) - found = x
      <4>1. cache[call.old] \in Nat
        BY <3>2, <1>1, HeapAssumption DEF Runs, Chunk
      <4> QED
        BY <4>1, <3>1, <2>2, <2>3
    <3> QED
      BY <3>1, <3>4, <3>5, <3>6, <3>7, <2>1
  <2> QED
    BY <2>1, <2>4 DEF Copied
<1>3. CASE ~ Mark
  <2>1. at = "upload" /\ UNCHANGED <<memory, call, found>>
    <3>1. CASE Server \/ UNCHANGED vars
      BY <3>1 DEF Server, ServerAddSeg, ServerAlloc, ServerUnlock, ServerDealloc, shared, search, vars
    <3>2. CASE \E b \in Buffer : GameWrites(b) \/ Unlock(b) \/ Destroy(b) \/ \E discard \in BOOLEAN : Lock(b, discard)
      BY <3>2 DEF GameWrites, Unlock, Destroy, Lock
    <3>3. CASE Allocate \/ FindAgain \/ FindInNew
      <4>1. PICK otherwise \in Searching : Find(otherwise)
        BY <3>3 DEF Allocate, FindAgain, FindInNew, Searching
      <4>2. at # "idle"
        BY <3>3 DEF Allocate, FindAgain, FindInNew
      <4> QED
        BY <4>1, <4>2, FindFacts DEF Searching
    <3>4. CASE FreeDeallocations \/ Grow \/ Again \/ TimesOut \/ Announce \/ Upload \/ RetireSnapshot
      BY <3>4 DEF FreeDeallocations, Grow, Again, TimesOut, Announce, Upload, RetireSnapshot, Goes
    <3> QED
      BY <3>1, <3>2, <3>3, <3>4, <1>3 DEF Next, InCall
  <2>2. call.kind = "snapshot"
    BY <2>1, <1>1 DEF Called, Calls
  <2>3. call.old \in DOMAIN cache /\ chunkState[cache[call.old]] = "Allocated"
    BY <2>2, <1>1 DEF Called, Alive
  <2>4. cache'[call.old] = cache[call.old]
    BY <2>3, AllocationsStay DEF Stays
  <2>5. \A c \in 0 .. call.chunks - 1 : memory[found + c] = Copied(c)
    BY <2>1, <1>1 DEF Uploaded
  <2> QED
    BY <2>1, <2>4, <2>5 DEF Copied
<1> QED
  BY <1>2, <1>3

\* What an unlock sends is what its run holds, until the server has read it.
LEMMA UploadedKept ==
  ASSUME IndInv, [Next]_vars
  PROVE  Uploaded'
<1>1. memory' \in [Chunk -> Value]
  BY MemoryTyped
<1>2. at' = "upload" => (\A c \in 0 .. call.chunks - 1 : memory[found + c] = Copied(c))'
  BY CopyKept
<1>3. \A k, id \in Nat : Msg(k, "Unlock", id)' => Arrived(k, id)'
  <2>1. CASE Upload
    BY <2>1, NewUploadKept
  <2>2. CASE Server
    BY <2>2, OldUploadsKept DEF Server, ServerAddSeg, ServerAlloc, ServerUnlock, ServerDealloc, Executes
  <2>3. CASE Announce
    <3>1. nextUid \in Nat /\ found \in Chunk
      BY <2>3, AnnounceFacts
    <3>2. [kind |-> "Alloc", id |-> nextUid, first |-> found] \in Command
      BY <3>1 DEF Command
    <3>3. \E msg \in Command : channel' = Append(channel, msg) /\ msg.kind # "Unlock"
      BY <3>2, <2>3 DEF Announce, Send
    <3> QED
      BY <3>3, OldUploadsKept
  <2>4. CASE Mark \/ FreeDeallocations \/ Allocate \/ FindAgain \/ FindInNew \/ Again \/ TimesOut \/ UNCHANGED vars
    <3>1. channel' = channel
      BY <2>4 DEF Mark, FreeDeallocations, Allocate, FindAgain, FindInNew, Again, TimesOut, vars
    <3> QED
      BY <3>1, OldUploadsKept
  <2>5. CASE Grow
    <3>1. UNCHANGED channel \/ \E n \in Nat \ {0} : ClientSends([kind |-> "AddSeg", chunks |-> n])
      BY <2>5, GrowFacts
    <3>2. UNCHANGED channel \/ \E msg \in Command : channel' = Append(channel, msg) /\ msg.kind # "Unlock"
      BY <3>1 DEF ClientSends
    <3> QED
      BY <3>2, OldUploadsKept
  <2>6. CASE RetireSnapshot
    <3>1. \E msg \in Command : channel' = Append(channel, msg) /\ msg.kind # "Unlock"
      BY <2>6, RetireSends DEF ClientSends
    <3> QED
      BY <3>1, OldUploadsKept
  <2>7. ASSUME NEW b \in Buffer, GameWrites(b) \/ Unlock(b) \/ Destroy(b) \/ \E discard \in BOOLEAN : Lock(b, discard)
        PROVE \A k, id \in Nat : Msg(k, "Unlock", id)' => Arrived(k, id)'
    <3>1. UNCHANGED channel \/ \E msg \in Command : channel' = Append(channel, msg) /\ msg.kind # "Unlock"
      <4>1. CASE GameWrites(b) \/ \E discard \in BOOLEAN : Lock(b, discard)
        BY <4>1 DEF GameWrites, Lock
      <4>2. CASE Unlock(b)
        BY <4>2, UnlockSends DEF ClientSends
      <4>3. CASE Destroy(b)
        BY <4>3, DestroySends DEF ClientSends
      <4> QED
        BY <4>1, <4>2, <4>3, <2>7
    <3> QED
      BY <3>1, OldUploadsKept
  <2> QED
    BY <2>1, <2>2, <2>3, <2>4, <2>5, <2>6, <2>7 DEF Next, InCall
<1> QED
  BY <1>1, <1>2, <1>3 DEF Uploaded, Arrived

-----------------------------------------------------------------------------
(* The theorems *)

\* The constructor's segment is the first of both sides.
LEMMA InitialState ==
  ASSUME Init
  PROVE  IndInv
<1>1. PICK size \in Nat \ {0} : size = FirstSegment /\ size <= HeapLimit
  <2>1. DefaultSegment \in Nat \ {0} /\ HeapLimit \in Nat \ {0}
    BY HeapAssumption
  <2> QED
    BY <2>1 DEF FirstSegment
<1>2. /\ cache = <<>> /\ allocations = <<>> /\ nextUid = 0
      /\ chunkState = [c \in Chunk |-> "Unallocated"] /\ memory = [c \in Chunk |-> 0]
      /\ channel = <<[kind |-> "AddSeg", chunks |-> size]>>
      /\ serverSegments = <<>> /\ serverCache = <<>> /\ defaultSegment = DefaultSegment
      /\ bufferId = [b \in Buffer |-> InvalidId] /\ lockInfos = [b \in Buffer |-> <<>>]
      /\ at = "idle" /\ call = NoCall /\ retries = 0 /\ growthAttempted = FALSE /\ found = 0
      /\ segments = <<[base |-> 0, chunks |-> size]>>
  BY <1>1 DEF Init, Added, End
<1>3. DOMAIN cache = {} /\ DOMAIN allocations = {} /\ DOMAIN serverCache = {}
  BY <1>2
<1>4. /\ Len(channel) = 1 /\ channel[1].kind = "AddSeg" /\ channel[1].chunks = size
      /\ \A k \in Nat : \A kind \in About : \A id : ~ Msg(k, kind, id)
  BY <1>2 DEF Msg, About
<1>5. Len(segments) = 1 /\ segments[1].base = 0 /\ segments[1].chunks = size /\ Len(serverSegments) = 0
  BY <1>2
<1>6. Runs
  BY <1>2, <1>3 DEF Runs
<1>7. channel \in Seq(Command)
  <2>1. [kind |-> "AddSeg", chunks |-> size] \in Command
    BY <1>1 DEF Command
  <2> QED
    BY <2>1, <1>2
<1>8. Ordered
  BY <1>4, <1>7 DEF Ordered, About
<1>9. Known
  BY <1>2, <1>3 DEF Known
<1>10. Segments
  <2>1. segments \in Seq(Segment) /\ serverSegments \in Seq(Segment)
    <3>1. [base |-> 0, chunks |-> size] \in Segment
      BY <1>1 DEF Segment
    <3> QED
      BY <3>1, <1>2
  <2>2. defaultSegment \in Nat \ {0}
    BY <1>2, HeapAssumption
  <2>3. \A k \in 1 .. Len(segments) : k = 1
    BY <1>5
  <2> QED
    BY <2>1, <2>2, <2>3, <1>1, <1>3, <1>5 DEF Segments
<1>11. TheSegments
  <2> DEFINE reached == [k \in 1 .. 2 |-> k - 1]
  <2>1. reached \in [1 .. 2 -> Nat] /\ reached[1] = 0 /\ reached[2] = 1
    OBVIOUS
  <2> HIDE DEF reached
  <2>2. \A k \in 1 .. Len(channel) : k = 1
    BY <1>4
  <2>3. Len(channel) + 1 = 2
    BY <1>4
  <2>4. Reaches(reached)
    BY <2>1, <2>2, <2>3, <1>4, <1>5 DEF Reaches, About
  <2> QED
    BY <2>1, <2>3, <2>4 DEF TheSegments
<1>12. Owners
  <2>1. bufferId \in [Buffer -> Id] /\ lockInfos \in [Buffer -> Seq(LockInfo)] /\ \A b \in Buffer : Len(lockInfos[b]) = 0
    BY <1>2 DEF Id
  <2>2. \A b \in Buffer, id \in Nat : ~ Uses(b, id)
    BY <2>1, <1>2 DEF Uses
  <2> QED
    BY <2>1, <2>2 DEF Owners, Separate
<1>13. Called
  <2>1. at = "idle" /\ call = NoCall /\ call.kind # "lock" /\ call.kind # "snapshot"
    BY <1>2 DEF NoCall
  <2>2. retries \in 0 .. 2 /\ found \in Chunk
    BY <1>2, HeapAssumption DEF Chunk
  <2>3. growthAttempted \in BOOLEAN
    BY <1>2
  <2> QED
    BY <2>1, <2>2, <2>3 DEF Called
<1>14. Made
  BY <1>2 DEF Made
<1>15. Uploaded
  BY <1>2, <1>4 DEF Uploaded, Value, About
<1> QED
  BY <1>6, <1>8, <1>9, <1>10, <1>11, <1>12, <1>13, <1>14, <1>15 DEF IndInv

\* Every step of the client, the game and the server keeps the inductive invariant.
LEMMA EveryStep ==
  ASSUME IndInv, [Next]_vars
  PROVE  IndInv'
<1>1. Runs'
  BY RunsKept
<1>2. Ordered' /\ Known'
  BY OrderKept
<1>3. Segments' /\ TheSegments'
  BY SegmentsKept
<1>4. Owners'
  BY OwnersKept
<1>5. Called' /\ Made'
  BY CalledKept, MadeKept
<1>6. Uploaded'
  BY UploadedKept
<1> QED
  BY <1>1, <1>2, <1>3, <1>4, <1>5, <1>6 DEF IndInv

\* Both sides' books agree: see the parts of IndInv.
THEOREM Invariant == Spec => []IndInv
<1>1. Init => IndInv
  BY InitialState
<1>2. IndInv /\ [Next]_vars => IndInv'
  BY EveryStep
<1> QED
  BY <1>1, <1>2, PTL DEF Spec

\* Every variable has its type: the segments lie within the heap, the server's are
\* the first of the client's, and so on for each variable, as TypeOK says.
THEOREM TypesHold == Spec => []TypeOK
<1>1. ASSUME IndInv PROVE TypeOK
  <2>1. Runs /\ Known /\ Segments /\ Owners /\ Called /\ Uploaded
    BY <1>1 DEF IndInv
  <2>2. /\ segments \in Seq(Segment) /\ serverSegments \in Seq(Segment)
        /\ Len(serverSegments) <= Len(segments) /\ Len(serverSegments) \in Nat /\ Len(segments) \in Nat
        /\ \A k \in 1 .. Len(serverSegments) : serverSegments[k] = segments[k]
    BY <2>1 DEF Segments
  <2>3. End(segments) <= HeapLimit
    <3>1. End(segments) = IF Len(segments) = 0 THEN 0 ELSE segments[Len(segments)].base + segments[Len(segments)].chunks
      BY <2>2, EndFacts
    <3>2. \A k \in 1 .. Len(segments) : segments[k].base + segments[k].chunks <= HeapLimit
      BY <2>1 DEF Segments
    <3> QED
      BY <2>2, <3>1, <3>2, HeapAssumption
  <2>4. IsPrefix(serverSegments, segments)
    BY <2>2 DEF IsPrefix
  <2>5. /\ DOMAIN cache \subseteq 0 .. nextUid - 1 /\ DOMAIN allocations \subseteq Chunk
        /\ DOMAIN serverCache \subseteq DOMAIN cache
    BY <2>1 DEF Runs, Known
  <2>6. bufferId \in [Buffer -> {InvalidId} \union DOMAIN cache]
    <3>1. bufferId \in [Buffer -> Id]
      BY <2>1 DEF Owners
    <3>2. ASSUME NEW b \in Buffer, bufferId[b] # InvalidId PROVE bufferId[b] \in DOMAIN cache
      <4>1. PICK id \in Nat : id = bufferId[b]
        BY <3>1, <3>2 DEF Id
      <4>2. Uses(b, id)
        BY <3>2, <4>1 DEF Uses
      <4> QED
        BY <2>1, <4>1, <4>2, UsedFacts DEF Alive
    <3> QED
      BY <3>1, <3>2
  <2>7. /\ nextUid \in Nat /\ cache \in [DOMAIN cache -> Chunk]
        /\ allocations \in [DOMAIN allocations -> Chunk]
        /\ serverCache \in [DOMAIN serverCache -> Chunk]
        /\ chunkState \in [Chunk -> {"Unallocated", "Allocated", "Deallocated"}]
        /\ memory \in [Chunk -> Value] /\ defaultSegment \in Nat \ {0}
    BY <2>1 DEF Runs, Known, Segments, Uploaded
  <2>8. channel \in Seq(Command) /\ lockInfos \in [Buffer -> Seq(LockInfo)]
    BY <1>1, <2>1 DEF IndInv, Ordered, Owners
  <2>9. /\ at \in Searching \union {"idle", "announce", "mark", "upload", "retire"}
        /\ IF at = "idle" THEN call = NoCall ELSE call \in Calls
        /\ retries \in 0 .. 2 /\ growthAttempted \in BOOLEAN /\ found \in Chunk
    BY <2>1 DEF Called
  <2> QED
    BY <2>2, <2>3, <2>4, <2>5, <2>6, <2>7, <2>8, <2>9 DEF TypeOK
<1> QED
  BY <1>1, Invariant, PTL

\* An upload on the way still finds in its snapshot what the locked range held
\* when it was sent, whatever the game writes before the server reads it.
THEOREM UploadsSurvive == Spec => []UploadsKept
<1>1. ASSUME IndInv PROVE UploadsKept
  <2> SUFFICES ASSUME NEW k \in DOMAIN channel, channel[k].kind = "Unlock"
               PROVE /\ channel[k].id \in DOMAIN cache
                     /\ \A j \in DOMAIN channel[k].data : memory[cache[channel[k].id] + j] = channel[k].data[j]
    BY DEF UploadsKept
  <2>1. channel \in Seq(Command)
    BY <1>1 DEF IndInv, Ordered
  <2>2. k \in 1 .. Len(channel) /\ k \in Nat /\ channel[k] \in Command
    BY <2>1
  <2>3. PICK id \in Nat : id = channel[k].id
    BY <2>2 DEF Command
  <2>4. Msg(k, "Unlock", id)
    BY <2>2, <2>3 DEF Msg
  <2> QED
    BY <1>1, <2>2, <2>3, <2>4 DEF IndInv, Ordered, Uploaded
<1> QED
  BY <1>1, Invariant, PTL

\* No two allocations share a chunk, and no pointer that the game or an unlock
\* still has leads to memory that is given back, or about to be.
THEOREM MemoryIsOwned == Spec => []HeldMemoryIsOwn
<1>1. ASSUME IndInv PROVE HeldMemoryIsOwn
  <2>1. \A i, j \in DOMAIN cache : i # j => ChunksOf(i) \cap ChunksOf(j) = {}
    BY <1>1 DEF IndInv, Runs
  <2>2. ASSUME NEW id \in Held PROVE id \in Nat /\ Alive(id)
    <3>1. CASE call.kind = "snapshot" /\ id = call.old
      BY <1>1, <3>1 DEF IndInv, Called
    <3>2. ASSUME NEW b \in Buffer, id \in Locked(b) \union {bufferId[b]}, id # InvalidId
          PROVE id \in Nat /\ Alive(id)
      <4>1. PICK infos \in Seq(LockInfo) : infos = lockInfos[b]
        BY <1>1 DEF IndInv, Owners
      <4>2. id \in Id
        <5>1. CASE id = bufferId[b]
          BY <1>1, <5>1 DEF IndInv, Owners
        <5>2. CASE id \in Locked(b)
          <6>1. PICK k \in DOMAIN infos : id = infos[k].buffer
            BY <4>1, <5>2 DEF Locked
          <6>2. infos[k] \in LockInfo
            BY <6>1
          <6> QED
            BY <6>1, <6>2 DEF LockInfo, Id
        <5> QED
          BY <3>2, <5>1, <5>2
      <4>3. id \in Nat
        BY <3>2, <4>2 DEF Id
      <4>4. Uses(b, id)
        <5>1. CASE id = bufferId[b]
          BY <3>2, <5>1 DEF Uses
        <5>2. CASE id \in Locked(b)
          <6>1. PICK k \in DOMAIN infos : id = infos[k].buffer
            BY <4>1, <5>2 DEF Locked
          <6>2. k \in 1 .. Len(infos)
            BY <6>1
          <6> QED
            BY <3>2, <4>1, <6>1, <6>2 DEF Uses
        <5> QED
          BY <3>2, <5>1, <5>2
      <4> QED
        BY <1>1, <4>3, <4>4, UsedFacts DEF IndInv
    <3>3. id \in UNION {Locked(b) \union {bufferId[b]} : b \in Buffer} =>
            \E b \in Buffer : id \in Locked(b) \union {bufferId[b]}
      OBVIOUS
    <3>4. \/ id \in UNION {Locked(b) \union {bufferId[b]} : b \in Buffer} /\ id # InvalidId
          \/ call.kind = "snapshot" /\ id = call.old
      BY <2>2 DEF Held
    <3> QED
      BY <3>1, <3>2, <3>3, <3>4
  <2>3. ASSUME NEW id \in Held PROVE [kind |-> "Dealloc", id |-> id] \notin ToSet(channel)
    <3> SUFFICES ASSUME NEW k \in DOMAIN channel, channel[k] = [kind |-> "Dealloc", id |-> id] PROVE FALSE
      BY DEF ToSet
    <3>1. k \in Nat /\ k \in 1 .. Len(channel)
      BY <1>1 DEF IndInv, Ordered
    <3>2. Msg(k, "Dealloc", id)
      BY <3>1 DEF Msg
    <3> QED
      BY <2>2, <3>1, <3>2 DEF Alive
  <2> QED
    BY <2>1, <2>2, <2>3 DEF HeldMemoryIsOwn, Alive
<1> QED
  BY <1>1, Invariant, PTL

\* The assertions of both sides hold: the server reads and retires only what it
\* knows, where the client has it, and the client marks only free chunks.
THEOREM AssertionsNeverFail == Spec => []AssertionsHold
<1>1. ASSUME IndInv PROVE AssertionsHold
  <2>1. at = "mark" => chunkState[found] = "Unallocated"
    BY <1>1 DEF IndInv, Made
  <2>2. ASSUME channel # <<>>, Head(channel).kind \in {"Unlock", "Dealloc"}
        PROVE /\ Head(channel).id \in DOMAIN serverCache \intersect DOMAIN cache
              /\ serverCache[Head(channel).id] = cache[Head(channel).id] /\ chunkState[cache[Head(channel).id]] = "Allocated"
              /\ \E k \in DOMAIN serverSegments :
                   ChunksOf(Head(channel).id) \subseteq
                     serverSegments[k].base .. serverSegments[k].base + serverSegments[k].chunks - 1
    <3>1. channel \in Seq(Command) /\ Runs /\ Ordered /\ Known /\ Segments
      BY <1>1 DEF IndInv, Ordered
    <3>2. Head(channel) = channel[1] /\ channel[1] \in Command /\ 1 \in 1 .. Len(channel)
      BY <2>2, <3>1
    <3>3. PICK id \in Nat : id = channel[1].id
      BY <2>2, <3>2 DEF Command
    <3>4. Msg(1, "Unlock", id) \/ Msg(1, "Dealloc", id)
      BY <2>2, <3>2, <3>3 DEF Msg
    <3>5. id \in DOMAIN serverCache /\ id \in DOMAIN cache /\ chunkState[cache[id]] = "Allocated"
      <4>1. \A j \in Nat : j < 1 => ~ Msg(j, "Alloc", id)
        BY DEF Msg
      <4> QED
        BY <3>1, <3>4, <4>1 DEF Ordered
    <3>6. serverCache[id] = cache[id]
      BY <3>1, <3>5 DEF Known
    <3>7. Inside(id, Len(serverSegments))
      BY <3>1, <3>5 DEF Segments
    <3>8. PICK s \in 1 .. Len(segments) :
            /\ s <= Len(serverSegments)
            /\ segments[s].base <= cache[id] /\ allocations[cache[id]] < segments[s].base + segments[s].chunks
      BY <3>7 DEF Inside
    <3>9. s \in 1 .. Len(serverSegments) /\ s \in DOMAIN serverSegments /\ serverSegments[s] = segments[s]
      BY <3>1, <3>8 DEF Segments
    <3>10. segments[s].base \in Nat /\ segments[s].chunks \in Nat
      BY <3>1, EndFacts DEF Segments
    <3>11. cache[id] \in Nat /\ allocations[cache[id]] \in Nat
      BY <3>1, <3>5, HeapAssumption DEF Runs, Chunk
    <3>12. ChunksOf(id) \subseteq serverSegments[s].base .. serverSegments[s].base + serverSegments[s].chunks - 1
      BY SMTT(30), <3>8, <3>9, <3>10, <3>11 DEF ChunksOf
    <3> QED
      BY <3>2, <3>3, <3>5, <3>6, <3>9, <3>12
  <2> QED
    BY <2>1, <2>2 DEF AssertionsHold
<1> QED
  BY <1>1, Invariant, PTL
=============================================================================
