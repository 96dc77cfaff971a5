------------------------ MODULE SceneCommandsProofs ------------------------
EXTENDS SceneCommands, SequenceTheorems, TLAPS

-----------------------------------------------------------------------------
(* The inductive invariant: the queue *)

\* Batches that left the list: those applied, and the one that waits in m_next.
Gone == Len(applied) + (IF popped = None THEN 0 ELSE 1)

\* Every batch has one place: a producer that has taken its number has it, or the
\* line of exchanges.
Numbered ==
  /\ \A t \in Thread :
       /\ pushing[t] # None <=> step[t] \in {"exchange", "link"}
       /\ pushing[t] # None => pushing[t] \in 1 .. issued
       /\ step[t] = "exchange" => \A k \in 1 .. Len(order) : order[k] # pushing[t]
  /\ \A t, u \in Thread : t # u /\ pushing[t] # None => pushing[t] # pushing[u]
  /\ \A k \in 1 .. Len(order) : order[k] \in 1 .. issued
  /\ \A j, k \in 1 .. Len(order) : j # k => order[j] # order[k]
  /\ \A b \in 1 .. issued :
       \/ \E k \in 1 .. Len(order) : order[k] = b
       \/ \E t \in Thread : step[t] = "exchange" /\ pushing[t] = b

\* What was popped is the first part of that line, in its order.
PoppedInOrder ==
  /\ Gone <= Len(order)
  /\ \A k \in 1 .. Len(applied) : applied[k] = order[k]
  /\ popped # None => popped = order[Len(applied) + 1]
  /\ popStep \in Popping \union {"nothing"} => popped = None
  /\ popStep = "found" => popped # None

\* A thread is about to store that b follows a.
Linking(a, b) ==
  \/ \E t \in Thread : step[t] = "link" /\ previous[t] = a /\ pushing[t] = b
  \/ popStep = "linkStub" /\ before = a /\ b = Stub

\* The list from tail to head: the batches that are not popped, in order, and the
\* stub at place p, or nowhere (p is past the end).
Listed(l, p) ==
  /\ l \in Seq(Node) /\ Len(l) >= 1 /\ l[1] = tail /\ l[Len(l)] = head
  /\ p \in 1 .. Len(l) + 1
  /\ Len(order) - Gone = IF p <= Len(l) THEN Len(l) - 1 ELSE Len(l)
  /\ \A k \in 1 .. Len(l) :
       l[k] = IF k < p THEN order[Gone + k] ELSE IF k = p THEN Stub ELSE order[Gone + k - 1]

\* Each node but the last leads to the next one, or will when a thread has made
\* its second store, and each thread between its stores is at such a place.
Linked(l) ==
  /\ next[head] = None
  /\ \A k \in 1 .. Len(l) - 1 :
       next[l[k]] = l[k + 1] \/ (next[l[k]] = None /\ Linking(l[k], l[k + 1]))
  /\ \A t \in Thread : step[t] = "link" =>
       \E k \in 1 .. Len(l) - 1 : previous[t] = l[k] /\ pushing[t] = l[k + 1] /\ next[l[k]] = None
  /\ popStep = "linkStub" =>
       \E k \in 1 .. Len(l) - 1 : before = l[k] /\ l[k + 1] = Stub /\ next[l[k]] = None

\* Where the stub is in the course of a pop, and what the batch behind the tail is
\* if the pop may end without one.
PopAt(l, p) ==
  /\ popStep \in {"testHead", "pushStub", "linkStub", "loadAgain"} =>
       /\ p # 1
       /\ Len(l) >= 2 /\ p # 2 => l[2] \notin Head(commands).queued
  /\ popStep = "testHead" => p # 2 \/ Len(l) = 1
  /\ popStep = "pushStub" => p > Len(l)
  /\ popStep = "loadAgain" => p <= Len(l)

\* A pop that ended with nothing left nothing behind, or met a batch that was not
\* wholly pushed when the command was made.
NothingLeft ==
  popStep = "nothing" =>
    \/ Left = {}
    \/ \E k \in Gone + 1 .. Gone + 2 :
         k <= Len(order) /\ order[k] \notin Head(commands).queued

TheList == \E l \in Seq(Node) : \E p \in 1 .. Len(l) + 1 : Listed(l, p) /\ Linked(l) /\ PopAt(l, p)

QueueInv == QueueTypes /\ Numbered /\ PoppedInOrder /\ TheList /\ NothingLeft

-----------------------------------------------------------------------------
(* The inductive invariant: the command stream *)

\* What the i-th command, or a call that will make it, knows of the queue.
Knows(c, i) ==
  /\ c.bound \in 0 .. issued
  /\ \A b \in c.queued :
       /\ b \in 1 .. c.bound
       /\ \E k \in 1 .. Len(order) : order[k] = b
       /\ \A t \in Thread : pushing[t] # b
  /\ \A b \in 1 .. c.bound : emittedAt[b] <= i

\* Command c is the i-th.
Placed(from, c, i) ==
  \/ \E k \in 1 .. Len(commands) : c = commands[k] /\ i = executed + k - 1
  \/ \E j \in 1 .. Len(chunksQueued) : \E k \in 1 .. Len(chunksQueued[j]) :
       c = chunksQueued[j][k] /\ i = from[j] + k - 1
  \/ \E k \in 1 .. Len(chunk) : c = chunk[k] /\ i = from[Len(chunksQueued) + 1] + k - 1

\* Every command emitted is executed, or in the chunk that runs, in a chunk that
\* waits or in the device's: from[i] were emitted before the i-th chunk that waits.
Streamed(from) ==
  /\ from \in [1 .. Len(chunksQueued) + 1 -> Nat]
  /\ from[1] = executed + Len(commands)
  /\ \A i \in 1 .. Len(chunksQueued) : from[i + 1] = from[i] + Len(chunksQueued[i])
  /\ emitted = from[Len(chunksQueued) + 1] + Len(chunk)
  /\ \A c \in Command, i \in Nat : Placed(from, c, i) => Knows(c, i)

TheStream == \E from \in [1 .. Len(chunksQueued) + 1 -> Nat] : Streamed(from)

Counted ==
  /\ chunksDispatched = chunksExecuted + Len(chunksQueued) + (IF running THEN 1 ELSE 0)
  /\ \A i \in 1 .. Len(chunksQueued) : chunksQueued[i] # <<>>
  /\ csStep \in {"run", "drain"} <=> commands # <<>>
  /\ csStep \in {"run", "drain"} => running
  /\ csStep = "wait" => ~running
  /\ csStep = "drain" <=> popStep # "done"

\* One thread has the device lock, with the device's chunk flushed; the device's
\* destruction starts when every other call is over.
AllExecuted == chunk = <<>> /\ chunksQueued = <<>> /\ ~running
Locks ==
  /\ \A t \in Thread : deviceLock = t <=> step[t] = "synchronize"
  /\ deviceLock # NoThread => chunk = <<>> /\ waitsFor[deviceLock] = chunksDispatched
  /\ closing => \A t \in Thread : step[t] \in {"idle", "synchronize", "stop", "gone"}
  /\ \A t \in Thread : step[t] = "stop" => closing /\ AllExecuted
  /\ stopped => closing /\ AllExecuted

\* The bound of the drains is that of a command that has started.
Bounds ==
  /\ \A t \in Thread : Knows(ticket[t], emitted)
  /\ \A b \in 1 .. issued : emittedAt[b] <= emitted
  /\ bound \in 0 .. issued /\ \A b \in 1 .. bound : emittedAt[b] <= executed
  /\ csStep = "drain" => Head(commands).bound <= bound
  /\ markerLimit \in {1, 2} /\ markersApplied \in 0 .. markerLimit

StreamInv == StreamTypes /\ TheStream /\ Counted /\ Locks /\ Bounds

IndInv == QueueInv /\ StreamInv
-----------------------------------------------------------------------------
(* The list *)

\* The list has each node once, the stub at its place only, and its batches come
\* from the line of exchanges, behind those that left it.
LEMMA ListFacts ==
  ASSUME QueueTypes, Numbered, PoppedInOrder, NEW l, NEW p, Listed(l, p)
  PROVE /\ \A k \in 1 .. Len(l) : l[k] = Stub <=> k = p
        /\ \A j, k \in 1 .. Len(l) : j # k => l[j] # l[k]
        /\ \A k \in 1 .. Len(l) : k # p =>
             \E m \in 1 .. Len(order) : m > Gone /\ l[k] = order[m]
        /\ Gone \in Nat /\ Len(order) \in Nat /\ Len(l) \in Nat
<1>1. Len(order) \in Nat /\ Len(applied) \in Nat /\ Gone \in Nat
  BY DEF QueueTypes, Gone
<1>2. Len(l) \in Nat /\ p \in 1 .. Len(l) + 1
  BY DEF Listed
<1>3. \A k \in 1 .. Len(order) : order[k] \in Batch /\ order[k] # Stub
  BY QueueAssumption DEF QueueTypes, Batch, Stub
<1>4. \A k \in 1 .. Len(l) : k < p => Gone + k \in 1 .. Len(order) /\ l[k] = order[Gone + k]
  BY <1>1, <1>2 DEF Listed
<1>5. \A k \in 1 .. Len(l) : k > p => Gone + k - 1 \in 1 .. Len(order) /\ l[k] = order[Gone + k - 1]
  BY <1>1, <1>2 DEF Listed
<1>6. \A k \in 1 .. Len(l) : k = p => l[k] = Stub
  BY <1>1, <1>2 DEF Listed
<1>7. \A k \in 1 .. Len(l) : l[k] = Stub <=> k = p
  BY <1>2, <1>3, <1>4, <1>5, <1>6
<1>8. \A j, k \in 1 .. Len(l) : j < k => l[j] # l[k]
  <2> SUFFICES ASSUME NEW j \in 1 .. Len(l), NEW k \in 1 .. Len(l), j < k PROVE l[j] # l[k]
    OBVIOUS
  <2>1. CASE k < p
    BY <2>1, <1>1, <1>2, <1>4 DEF Numbered
  <2>2. CASE j > p
    BY SMTT(30), <2>2, <1>1, <1>2, <1>5 DEF Numbered
  <2>3. CASE j < p /\ k > p
    <3>1. Gone + j # Gone + k - 1
      BY <2>3, <1>1, <1>2
    <3> QED
      BY <3>1, <2>3, <1>4, <1>5 DEF Numbered
  <2>4. CASE j = p \/ k = p
    BY <2>4, <1>7
  <2> QED
    BY <2>1, <2>2, <2>3, <2>4, <1>2
<1>9. \A j, k \in 1 .. Len(l) : j # k => l[j] # l[k]
  BY <1>8, <1>2
<1>10. \A k \in 1 .. Len(l) : k # p => \E m \in 1 .. Len(order) : m > Gone /\ l[k] = order[m]
  <2> SUFFICES ASSUME NEW k \in 1 .. Len(l), k # p
               PROVE \E m \in 1 .. Len(order) : m > Gone /\ l[k] = order[m]
    OBVIOUS
  <2>1. CASE k < p
    BY <2>1, <1>1, <1>4
  <2>2. CASE k > p
    BY <2>2, <1>1, <1>2, <1>5
  <2> QED
    BY <2>1, <2>2, <1>2
<1> QED
  BY <1>1, <1>2, <1>7, <1>9, <1>10

-----------------------------------------------------------------------------
(* The queue through each step *)

\* A step that leaves the queue alone, apart from what its threads do outside a push.
LEMMA QuietKeepsQueue ==
  ASSUME QueueInv,
         UNCHANGED <<issued, pushing, previous, consumer, head, next, order, applied>>,
         step' \in [Thread -> {"idle", "exchange", "link", "lock", "emit", "synchronize", "stop", "gone"}],
         \A t \in Thread : step'[t] # step[t] => {step[t], step'[t]} \cap {"exchange", "link"} = {},
         commands' = commands \/ popStep = "done"
  PROVE  QueueInv'
<1>1. PICK l \in Seq(Node) : \E p \in 1 .. Len(l) + 1 : Listed(l, p) /\ Linked(l) /\ PopAt(l, p)
  BY DEF QueueInv, TheList
<1>2. PICK p \in 1 .. Len(l) + 1 : Listed(l, p) /\ Linked(l) /\ PopAt(l, p)
  BY <1>1
<1>3. QueueTypes'
  BY DEF QueueInv, QueueTypes, consumer
<1>4. \A t \in Thread : /\ step'[t] = "exchange" <=> step[t] = "exchange"
                        /\ step'[t] = "link" <=> step[t] = "link"
  OBVIOUS
<1>5. Numbered'
  BY <1>4 DEF QueueInv, Numbered
<1>6. PoppedInOrder' /\ Gone' = Gone
  BY DEF QueueInv, PoppedInOrder, Gone, consumer
<1>7. Listed(l, p)'
  BY <1>2, <1>6 DEF Listed, consumer
<1>8. Linked(l)'
  BY <1>2, <1>4 DEF Linked, Linking, consumer
<1>9. PopAt(l, p)'
  BY <1>2 DEF PopAt, consumer
<1>10. NothingLeft'
  BY <1>6 DEF QueueInv, NothingLeft, Left, consumer
<1> QED
  BY <1>3, <1>5, <1>6, <1>7, <1>8, <1>9, <1>10 DEF QueueInv, TheList

\* Where a drain begins and where it ends, the pop is at none of its stores.
LEMMA EdgeKeepsQueue ==
  ASSUME QueueInv,
         UNCHANGED <<producer, tail, popped, before, head, next, previous, order, applied>>,
         popStep \in {"done", "nothing", "found"},
         \/ popStep' = "done"
         \/ popStep' = IF popped = None THEN "load" ELSE "found"
  PROVE  QueueInv'
<1>1. PICK l \in Seq(Node) : \E p \in 1 .. Len(l) + 1 : Listed(l, p) /\ Linked(l) /\ PopAt(l, p)
  BY DEF QueueInv, TheList
<1>2. PICK p \in 1 .. Len(l) + 1 : Listed(l, p) /\ Linked(l) /\ PopAt(l, p)
  BY <1>1
<1>3. QueueTypes'
  BY DEF QueueInv, QueueTypes, Popping, producer
<1>4. Numbered'
  BY DEF QueueInv, Numbered, producer
<1>5. PoppedInOrder' /\ Gone' = Gone
  BY DEF QueueInv, PoppedInOrder, Gone, Popping, producer
<1>6. Listed(l, p)'
  BY <1>2, <1>5 DEF Listed, producer
<1>7. Linked(l)'
  BY <1>2 DEF Linked, Linking, producer
<1>8. PopAt(l, p)' /\ NothingLeft'
  BY DEF PopAt, NothingLeft
<1> QED
  BY <1>3, <1>4, <1>5, <1>6, <1>7, <1>8 DEF QueueInv, TheList

\* A producer's number is that of a batch nobody has.
LEMMA TakeNumberKeepsQueue ==
  ASSUME QueueInv, NEW t \in Thread, TakeNumber(t), UNCHANGED <<commands, applied>>
  PROVE  QueueInv'
<1>1. PICK l \in Seq(Node) : \E p \in 1 .. Len(l) + 1 : Listed(l, p) /\ Linked(l) /\ PopAt(l, p)
  BY DEF QueueInv, TheList
<1>2. PICK p \in 1 .. Len(l) + 1 : Listed(l, p) /\ Linked(l) /\ PopAt(l, p)
  BY <1>1
<1> USE DEF TakeNumber, Goes, consumer
<1>3. QueueTypes'
  BY QueueAssumption DEF QueueInv, QueueTypes, Batch
<1>4. /\ issued \in Nat /\ issued' = issued + 1 /\ order' = order
      /\ step[t] = "idle" /\ step'[t] = "exchange" /\ pushing'[t] = issued + 1
      /\ \A u \in Thread : u # t => step'[u] = step[u] /\ pushing'[u] = pushing[u]
  BY DEF QueueInv, QueueTypes
<1>5. \A u \in Thread : pushing[u] # None => pushing[u] \in 1 .. issued
  BY DEF QueueInv, Numbered
<1>6. pushing[t] = None
  BY <1>4 DEF QueueInv, Numbered
<1>7. Numbered'
  <2>1. \A u \in Thread :
          /\ pushing'[u] # None <=> step'[u] \in {"exchange", "link"}
          /\ pushing'[u] # None => pushing'[u] \in 1 .. issued'
          /\ step'[u] = "exchange" => \A k \in 1 .. Len(order) : order[k] # pushing'[u]
    <3> SUFFICES ASSUME NEW u \in Thread
                 PROVE /\ pushing'[u] # None <=> step'[u] \in {"exchange", "link"}
                       /\ pushing'[u] # None => pushing'[u] \in 1 .. issued'
                       /\ step'[u] = "exchange" => \A k \in 1 .. Len(order) : order[k] # pushing'[u]
      OBVIOUS
    <3>1. CASE u = t
      BY <3>1, <1>4 DEF QueueInv, Numbered, None
    <3>2. CASE u # t
      BY <3>2, <1>4 DEF QueueInv, Numbered
    <3> QED
      BY <3>1, <3>2
  <2>2. \A u, v \in Thread : u # v /\ pushing'[u] # None => pushing'[u] # pushing'[v]
    BY <1>4, <1>5 DEF QueueInv, Numbered, None
  <2>3. \A k \in 1 .. Len(order) : order[k] \in 1 .. issued'
    BY <1>4 DEF QueueInv, Numbered
  <2>4. \A b \in 1 .. issued' :
          \/ \E k \in 1 .. Len(order) : order[k] = b
          \/ \E u \in Thread : step'[u] = "exchange" /\ pushing'[u] = b
    <3> SUFFICES ASSUME NEW b \in 1 .. issued',
                        ~ \E k \in 1 .. Len(order) : order[k] = b
                 PROVE \E u \in Thread : step'[u] = "exchange" /\ pushing'[u] = b
      OBVIOUS
    <3>1. CASE b = issued + 1
      BY <3>1, <1>4
    <3>2. CASE b \in 1 .. issued
      <4>1. PICK u \in Thread : step[u] = "exchange" /\ pushing[u] = b
        BY <3>2 DEF QueueInv, Numbered
      <4> QED
        BY <4>1, <1>4
    <3> QED
      BY <3>1, <3>2, <1>4
  <2> QED
    BY <2>1, <2>2, <2>3, <2>4, <1>4 DEF QueueInv, Numbered
<1>8. PoppedInOrder' /\ Gone' = Gone
  BY DEF QueueInv, PoppedInOrder, Gone
<1>9. Listed(l, p)'
  BY <1>2, <1>8 DEF Listed
<1>10. Linked(l)'
  <2>1. \A a, b : Linking(a, b) => Linking(a, b)'
    BY <1>4 DEF Linking
  <2>2. \A u \in Thread : step'[u] = "link" => step[u] = "link" /\ pushing'[u] = pushing[u]
    BY <1>4
  <2>3. UNCHANGED <<next, head, previous, before, popStep>>
    OBVIOUS
  <2> QED
    BY <1>2, <2>1, <2>2, <2>3 DEF Linked
<1>11. PopAt(l, p)' /\ NothingLeft'
  BY <1>2, <1>8 DEF PopAt, QueueInv, NothingLeft, Left
<1> QED
  BY <1>3, <1>7, <1>8, <1>9, <1>10, <1>11 DEF QueueInv, TheList

\* The exchange appends the batch to the list, unlinked; a command that was made
\* before does not know of it.
LEMMA ExchangeKeepsQueue ==
  ASSUME QueueInv, NEW t \in Thread, Exchange(t), UNCHANGED <<commands, applied>>,
         popStep # "done" => pushing[t] \notin Head(commands).queued
  PROVE  QueueInv'
<1>1. PICK l \in Seq(Node) : \E p \in 1 .. Len(l) + 1 : Listed(l, p) /\ Linked(l) /\ PopAt(l, p)
  BY DEF QueueInv, TheList
<1>2. PICK p \in 1 .. Len(l) + 1 : Listed(l, p) /\ Linked(l) /\ PopAt(l, p)
  BY <1>1
<1>3. QueueTypes /\ Numbered /\ PoppedInOrder /\ NothingLeft
  BY DEF QueueInv
<1>4. PICK b \in 1 .. issued : b = pushing[t]
  BY DEF QueueInv, Numbered, Exchange, Goes
<1>5. b \in Batch /\ b \in Node /\ b # Stub /\ b # None /\ issued \in Nat
  BY <1>3, QueueAssumption DEF QueueTypes, Batch, Node, Stub, None
<1>6. /\ step[t] = "exchange" /\ step' = [step EXCEPT ![t] = "link"]
      /\ previous' = [previous EXCEPT ![t] = head]
      /\ head' = b /\ next' = [next EXCEPT ![b] = None] /\ order' = Append(order, b)
      /\ UNCHANGED <<issued, pushing, tail, popped, popStep, before, commands, applied>>
  BY <1>4 DEF Exchange, Goes, consumer
<1>7. /\ Len(order) \in Nat /\ Len(order') = Len(order) + 1 /\ order'[Len(order) + 1] = b
      /\ \A k \in 1 .. Len(order) : order'[k] = order[k]
  BY <1>3, <1>5, <1>6 DEF QueueTypes
<1>8. \A k \in 1 .. Len(order) : order[k] # b
  BY <1>3, <1>4, <1>6 DEF Numbered
<1>9. /\ step'[t] = "link" /\ previous'[t] = head
      /\ \A u \in Thread : u # t => step'[u] = step[u] /\ previous'[u] = previous[u]
  BY <1>3, <1>6 DEF QueueTypes
<1>10. QueueTypes'
  BY <1>3, <1>5, <1>6 DEF QueueTypes, Batch
<1>11. Numbered'
  <2>1. \A u \in Thread :
          /\ pushing'[u] # None <=> step'[u] \in {"exchange", "link"}
          /\ pushing'[u] # None => pushing'[u] \in 1 .. issued'
    BY <1>3, <1>6, <1>9 DEF Numbered
  <2>2. ASSUME NEW u \in Thread, step'[u] = "exchange", NEW k \in 1 .. Len(order')
        PROVE order'[k] # pushing'[u]
    <3>1. u # t /\ step[u] = "exchange"
      BY <2>2, <1>9
    <3>2. pushing[u] # b
      BY <3>1, <1>3, <1>4, <1>5 DEF Numbered
    <3>3. CASE k \in 1 .. Len(order)
      BY <3>1, <3>3, <1>3, <1>6, <1>7 DEF Numbered
    <3>4. CASE k = Len(order) + 1
      BY <3>2, <3>4, <1>6, <1>7
    <3> QED
      BY <3>3, <3>4, <1>7
  <2>3. \A k \in 1 .. Len(order') : order'[k] \in 1 .. issued'
    BY <1>3, <1>6, <1>7 DEF Numbered
  <2>4. \A j, k \in 1 .. Len(order') : j # k => order'[j] # order'[k]
    BY <1>3, <1>7, <1>8 DEF Numbered
  <2>5. ASSUME NEW c \in 1 .. issued'
        PROVE \/ \E k \in 1 .. Len(order') : order'[k] = c
              \/ \E u \in Thread : step'[u] = "exchange" /\ pushing'[u] = c
    <3>1. CASE c = b
      BY <3>1, <1>7
    <3>2. CASE \E k \in 1 .. Len(order) : order[k] = c
      BY <3>2, <1>7
    <3>3. CASE c # b /\ \E u \in Thread : step[u] = "exchange" /\ pushing[u] = c
      BY <3>3, <1>4, <1>6, <1>9
    <3> QED
      BY <3>1, <3>2, <3>3, <1>3, <1>6 DEF Numbered
  <2> QED
    BY SMTT(30), <2>1, <2>2, <2>3, <2>4, <2>5, <1>3, <1>6 DEF Numbered
<1>12. Gone' = Gone /\ Gone \in Nat /\ Gone <= Len(order) /\ Len(applied) \in Nat
  BY <1>3, <1>6 DEF Gone, QueueTypes, PoppedInOrder
<1>13. PoppedInOrder'
  <2>1. Len(applied) <= Len(order) /\ (popped # None => Len(applied) + 1 \in 1 .. Len(order))
    BY <1>12 DEF Gone
  <2> QED
    BY <2>1, <1>3, <1>6, <1>7, <1>12 DEF PoppedInOrder
<1>14. PICK m \in Seq(Node) : m = Append(l, b)
  <2>1. Append(l, b) \in Seq(Node)
    BY <1>5
  <2> QED
    BY <2>1
<1>15. /\ Len(l) \in Nat /\ Len(l) >= 1 /\ Len(m) = Len(l) + 1 /\ m[Len(l) + 1] = b
       /\ \A k \in 1 .. Len(l) : m[k] = l[k]
  BY <1>2, <1>5, <1>14 DEF Listed
<1>22. Len(order) - Gone = IF p <= Len(l) THEN Len(l) - 1 ELSE Len(l)
  BY <1>2 DEF Listed
<1>16. PICK q \in 1 .. Len(m) + 1 : q = IF p = Len(l) + 1 THEN p + 1 ELSE p
  BY <1>15
<1>17. \A k \in 1 .. Len(l) : l[k] # b
  BY <1>2, <1>3, <1>5, <1>8, ListFacts
<1>18. Listed(m, q)'
  <2>1. \A k \in 1 .. Len(m) :
          m[k] = IF k < q THEN order'[Gone + k] ELSE IF k = q THEN Stub ELSE order'[Gone + k - 1]
    <3> SUFFICES ASSUME NEW k \in 1 .. Len(m)
                 PROVE m[k] = IF k < q THEN order'[Gone + k] ELSE IF k = q THEN Stub ELSE order'[Gone + k - 1]
      OBVIOUS
    <3>1. CASE k \in 1 .. Len(l)
      <4>1. l[k] = IF k < p THEN order[Gone + k] ELSE IF k = p THEN Stub ELSE order[Gone + k - 1]
        BY <1>2, <3>1 DEF Listed
      <4>2. k < p => Gone + k \in 1 .. Len(order)
        BY <1>2, <1>7, <1>12, <1>15, <3>1 DEF Listed
      <4>3. k > p => Gone + k - 1 \in 1 .. Len(order)
        BY <1>2, <1>7, <1>12, <1>15, <3>1 DEF Listed
      <4>4. (k < q <=> k < p) /\ (k = q <=> k = p)
        BY <1>15, <1>16, <3>1
      <4> QED
        BY <4>1, <4>2, <4>3, <4>4, <1>7, <1>15, <3>1
    <3>2. CASE k = Len(l) + 1
      <4>1. CASE p = Len(l) + 1
        <5>1. Gone + k = Len(order) + 1 /\ k < q
          BY SMTT(30), <4>1, <3>2, <1>7, <1>12, <1>15, <1>16, <1>22
        <5> QED
          BY <5>1, <3>2, <1>7, <1>15
      <4>2. CASE p <= Len(l)
        <5>1. Gone + k - 1 = Len(order) + 1 /\ k > q
          BY <4>2, <3>2, <1>7, <1>12, <1>15, <1>16, <1>22
        <5> QED
          BY <5>1, <3>2, <1>7, <1>15
      <4> QED
        BY <4>1, <4>2, <1>15
    <3> QED
      BY <3>1, <3>2, <1>15
  <2>2. Len(order') - Gone' = IF q <= Len(m) THEN Len(m) - 1 ELSE Len(m)
    BY <1>2, <1>7, <1>12, <1>15, <1>16 DEF Listed
  <2>3. m[1] = tail' /\ m[Len(m)] = head'
    BY <1>2, <1>6, <1>15 DEF Listed
  <2> QED
    BY <2>1, <2>2, <2>3, <1>12, <1>15 DEF Listed
<1>19. Linked(m)'
  <2>1. l[Len(l)] = head /\ next[head] = None /\ head \in Node
    BY <1>2, <1>3 DEF Listed, Linked, QueueTypes
  <2>2. /\ next'[b] = None
        /\ \A k \in 1 .. Len(l) : next'[l[k]] = next[l[k]]
    BY <1>3, <1>5, <1>6, <1>17 DEF QueueTypes
  <2>3. \A u \in Thread : step[u] = "link" =>
          step'[u] = "link" /\ previous'[u] = previous[u] /\ pushing'[u] = pushing[u]
    BY <1>6, <1>9
  <2>4. \A a, c : Linking(a, c) => Linking(a, c)'
    BY <2>3, <1>6 DEF Linking
  <2>5. \A a : a = head => Linking(a, b)'
    BY <1>4, <1>6, <1>9 DEF Linking
  <2>6. \A k \in 1 .. Len(m) - 1 :
          next'[m[k]] = m[k + 1] \/ (next'[m[k]] = None /\ Linking(m[k], m[k + 1])')
    <3> SUFFICES ASSUME NEW k \in 1 .. Len(m) - 1
                 PROVE next'[m[k]] = m[k + 1] \/ (next'[m[k]] = None /\ Linking(m[k], m[k + 1])')
      OBVIOUS
    <3>1. CASE k \in 1 .. Len(l) - 1
      <4>1. m[k] = l[k] /\ m[k + 1] = l[k + 1] /\ k \in 1 .. Len(l)
        BY <3>1, <1>15
      <4> QED
        BY <4>1, <3>1, <2>2, <2>4, <1>2 DEF Linked
    <3>2. CASE k = Len(l)
      BY <3>2, <2>1, <2>2, <2>5, <1>15
    <3> QED
      BY <3>1, <3>2, <1>15
  <2>7. ASSUME NEW u \in Thread, step'[u] = "link"
        PROVE \E k \in 1 .. Len(m) - 1 : previous'[u] = m[k] /\ pushing'[u] = m[k + 1] /\ next'[m[k]] = None
    <3>1. CASE u = t
      <4>1. Len(l) \in 1 .. Len(m) - 1
        BY <1>15
      <4> QED
        BY <4>1, <3>1, <2>1, <2>2, <1>4, <1>6, <1>9, <1>15
    <3>2. CASE u # t
      <4>1. PICK k \in 1 .. Len(l) - 1 : previous[u] = l[k] /\ pushing[u] = l[k + 1] /\ next[l[k]] = None
        BY <2>7, <3>2, <1>2, <1>9 DEF Linked
      <4>2. m[k] = l[k] /\ m[k + 1] = l[k + 1] /\ k \in 1 .. Len(m) - 1 /\ k \in 1 .. Len(l)
        BY <4>1, <1>15
      <4> QED
        BY <4>1, <4>2, <3>2, <2>2, <1>6, <1>9
    <3> QED
      BY <3>1, <3>2
  <2>8. popStep' = "linkStub" =>
          \E k \in 1 .. Len(m) - 1 : before' = m[k] /\ m[k + 1] = Stub /\ next'[m[k]] = None
    <3> SUFFICES ASSUME popStep = "linkStub"
                 PROVE \E k \in 1 .. Len(m) - 1 : before = m[k] /\ m[k + 1] = Stub /\ next'[m[k]] = None
      BY <1>6
    <3>1. PICK k \in 1 .. Len(l) - 1 : before = l[k] /\ l[k + 1] = Stub /\ next[l[k]] = None
      BY <1>2 DEF Linked
    <3>2. m[k] = l[k] /\ m[k + 1] = l[k + 1] /\ k \in 1 .. Len(m) - 1 /\ k \in 1 .. Len(l)
      BY <1>15
    <3> QED
      BY <3>1, <3>2, <2>2
  <2>9. next'[head'] = None
    BY <2>2, <1>6
  <2> QED
    BY <2>6, <2>7, <2>8, <2>9 DEF Linked
<1>20. PopAt(m, q)'
  <2>1. CASE Len(l) = 1
    BY <2>1, <1>2, <1>4, <1>6, <1>15, <1>16 DEF PopAt
  <2>2. CASE Len(l) >= 2
    BY <2>2, <1>2, <1>6, <1>15, <1>16 DEF PopAt
  <2>3. Len(l) = 1 \/ Len(l) >= 2
    <3>1. \A n \in Nat : n >= 1 => n = 1 \/ n >= 2
      OBVIOUS
    <3> QED
      BY <3>1, <1>15, Zenon
  <2> QED
    BY <2>1, <2>2, <2>3
<1>21. NothingLeft'
  BY <1>3, <1>6, <1>7, <1>12 DEF NothingLeft, Left
<1> QED
  BY <1>10, <1>11, <1>13, <1>18, <1>19, <1>20, <1>21 DEF QueueInv, TheList

\* The second store joins the batch to the one before it, which is still in the list.
LEMMA LinkKeepsQueue ==
  ASSUME QueueInv, NEW t \in Thread, NEW to \in {"lock", "idle"}, Link(t, to),
         UNCHANGED <<commands, applied>>
  PROVE  QueueInv'
<1>1. PICK l \in Seq(Node) : \E p \in 1 .. Len(l) + 1 : Listed(l, p) /\ Linked(l) /\ PopAt(l, p)
  BY DEF QueueInv, TheList
<1>2. PICK p \in 1 .. Len(l) + 1 : Listed(l, p) /\ Linked(l) /\ PopAt(l, p)
  BY <1>1
<1>3. QueueTypes /\ Numbered /\ PoppedInOrder /\ NothingLeft
  BY DEF QueueInv
<1>4. step[t] = "link"
  BY DEF Link, Goes
<1>5. PICK k \in 1 .. Len(l) - 1 : previous[t] = l[k] /\ pushing[t] = l[k + 1] /\ next[l[k]] = None
  BY <1>2, <1>4 DEF Linked
<1>6. Len(l) \in Nat /\ \A j \in 1 .. Len(l) : l[j] \in Node
  BY <1>2 DEF Listed
<1>7. /\ step' = [step EXCEPT ![t] = to]
      /\ next' = [next EXCEPT ![l[k]] = l[k + 1]]
      /\ pushing' = [pushing EXCEPT ![t] = None] /\ previous' = [previous EXCEPT ![t] = None]
      /\ UNCHANGED <<issued, head, order, tail, popped, popStep, before, commands, applied>>
  BY <1>5 DEF Link, Goes, consumer
<1>8. /\ step'[t] = to /\ pushing'[t] = None /\ to \notin {"exchange", "link"}
      /\ \A u \in Thread : u # t =>
           step'[u] = step[u] /\ pushing'[u] = pushing[u] /\ previous'[u] = previous[u]
  BY <1>3, <1>7 DEF QueueTypes
<1>9. QueueTypes'
  BY <1>3, <1>6, <1>7 DEF QueueTypes
<1>10. Numbered'
  <2>1. \A u \in Thread :
          /\ pushing'[u] # None <=> step'[u] \in {"exchange", "link"}
          /\ pushing'[u] # None => pushing'[u] \in 1 .. issued'
          /\ step'[u] = "exchange" => \A j \in 1 .. Len(order) : order[j] # pushing'[u]
    BY <1>3, <1>7, <1>8 DEF Numbered
  <2>2. \A u, v \in Thread : u # v /\ pushing'[u] # None => pushing'[u] # pushing'[v]
    BY <1>3, <1>8 DEF Numbered
  <2>3. \A b \in 1 .. issued' :
          \/ \E j \in 1 .. Len(order) : order[j] = b
          \/ \E u \in Thread : step'[u] = "exchange" /\ pushing'[u] = b
    <3> SUFFICES ASSUME NEW b \in 1 .. issued, ~ \E j \in 1 .. Len(order) : order[j] = b
                 PROVE \E u \in Thread : step'[u] = "exchange" /\ pushing'[u] = b
      BY <1>7
    <3>1. PICK u \in Thread : step[u] = "exchange" /\ pushing[u] = b
      BY <1>3 DEF Numbered
    <3> QED
      BY <3>1, <1>4, <1>8
  <2> QED
    BY <2>1, <2>2, <2>3, <1>3, <1>7 DEF Numbered
<1>11. PoppedInOrder' /\ Gone' = Gone
  BY <1>3, <1>7 DEF PoppedInOrder, Gone
<1>12. Listed(l, p)'
  BY <1>2, <1>7, <1>11 DEF Listed
<1>13. \A i, j \in 1 .. Len(l) : i # j => l[i] # l[j]
  BY <1>2, <1>3, ListFacts
<1>14. Linked(l)'
  <2>1. k \in 1 .. Len(l) /\ k # Len(l) /\ Len(l) \in 1 .. Len(l)
    BY <1>6
  <2>2. next'[l[k]] = l[k + 1] /\ \A j \in 1 .. Len(l) : j # k => next'[l[j]] = next[l[j]]
    BY <2>1, <1>3, <1>6, <1>7, <1>13 DEF QueueTypes
  <2>3. next'[head'] = None
    BY <2>1, <2>2, <1>2, <1>7 DEF Listed, Linked
  <2>4. ASSUME NEW j \in 1 .. Len(l) - 1
        PROVE next'[l[j]] = l[j + 1] \/ (next'[l[j]] = None /\ Linking(l[j], l[j + 1])')
    <3>1. CASE j = k
      BY <3>1, <2>2
    <3>2. CASE j # k
      <4>1. j \in 1 .. Len(l) /\ next'[l[j]] = next[l[j]] /\ l[j] # previous[t]
        BY <3>2, <2>1, <2>2, <1>5, <1>6, <1>13
      <4>2. Linking(l[j], l[j + 1]) => Linking(l[j], l[j + 1])'
        BY <4>1, <1>7, <1>8 DEF Linking
      <4> QED
        BY <4>1, <4>2, <1>2 DEF Linked
    <3> QED
      BY <3>1, <3>2
  <2>5. ASSUME NEW u \in Thread, step'[u] = "link"
        PROVE \E j \in 1 .. Len(l) - 1 : previous'[u] = l[j] /\ pushing'[u] = l[j + 1] /\ next'[l[j]] = None
    <3>1. u # t /\ step[u] = "link"
      BY <2>5, <1>8
    <3>2. PICK j \in 1 .. Len(l) - 1 : previous[u] = l[j] /\ pushing[u] = l[j + 1] /\ next[l[j]] = None
      BY <3>1, <1>2 DEF Linked
    <3>3. j # k
      BY <3>1, <3>2, <1>3, <1>4, <1>5 DEF Numbered
    <3>4. j \in 1 .. Len(l)
      BY <1>6
    <3> QED
      BY <3>1, <3>2, <3>3, <3>4, <2>2, <1>8
  <2>6. ASSUME popStep = "linkStub"
        PROVE \E j \in 1 .. Len(l) - 1 : before = l[j] /\ l[j + 1] = Stub /\ next'[l[j]] = None
    <3>1. PICK j \in 1 .. Len(l) - 1 : before = l[j] /\ l[j + 1] = Stub /\ next[l[j]] = None
      BY <2>6, <1>2 DEF Linked
    <3>2. j # k
      BY <3>1, <1>3, <1>4, <1>5, QueueAssumption DEF Numbered, QueueTypes, Stub
    <3>3. j \in 1 .. Len(l)
      BY <1>6
    <3> QED
      BY <3>1, <3>2, <3>3, <2>2
  <2> QED
    BY <2>3, <2>4, <2>5, <2>6, <1>7 DEF Linked
<1>15. PopAt(l, p)' /\ NothingLeft'
  BY <1>2, <1>3, <1>7, <1>11 DEF PopAt, NothingLeft, Left
<1> QED
  BY <1>9, <1>10, <1>11, <1>12, <1>14, <1>15 DEF QueueInv, TheList

\* The tail moves to its successor: a batch goes to m_next, the stub is stepped over.
LEMMA AdvanceKeepsQueue ==
  ASSUME QueueInv, popStep \in {"load", "loadAgain"}, next[tail] # None, tail' = next[tail],
         UNCHANGED <<producer, before, head, next, previous, order, commands, applied>>,
         \/ tail # Stub /\ popped' = tail /\ popStep' = "found"
         \/ tail = Stub /\ popStep = "load" /\ UNCHANGED <<popStep, popped>>
  PROVE  QueueInv'
<1>1. PICK l \in Seq(Node) : \E p \in 1 .. Len(l) + 1 : Listed(l, p) /\ Linked(l) /\ PopAt(l, p)
  BY DEF QueueInv, TheList
<1>2. PICK p \in 1 .. Len(l) + 1 : Listed(l, p) /\ Linked(l) /\ PopAt(l, p)
  BY <1>1
<1>3. QueueTypes /\ Numbered /\ PoppedInOrder /\ NothingLeft
  BY DEF QueueInv
<1>4. UNCHANGED <<issued, step, pushing, before, head, next, previous, order, commands, applied>>
  BY DEF producer
<1>5. popped = None /\ popStep # "linkStub"
  BY <1>3 DEF PoppedInOrder, Popping
<1>6. /\ \A k \in 1 .. Len(l) : l[k] = Stub <=> k = p
      /\ \A k \in 1 .. Len(l) : k # p => \E m \in 1 .. Len(order) : m > Gone /\ l[k] = order[m]
      /\ Gone \in Nat /\ Len(order) \in Nat /\ Len(l) \in Nat
      /\ \A i, j \in 1 .. Len(l) : i # j => l[i] # l[j]
  BY SMTT(30), <1>2, <1>3, ListFacts
<1>7. /\ l[1] = tail /\ l[Len(l)] = head /\ next[head] = None /\ Len(l) >= 1
      /\ Len(order) - Gone = IF p <= Len(l) THEN Len(l) - 1 ELSE Len(l)
  BY <1>2 DEF Listed, Linked
<1>8. Len(l) >= 2
  <2>1. Len(l) # 1
    BY <1>7
  <2> QED
    BY <2>1, <1>6, <1>7
<1>9. tail' = l[2]
  BY <1>2, <1>6, <1>7, <1>8 DEF Linked
<1>10. PICK m \in Seq(Node) : m = Tail(l)
  <2>1. Tail(l) \in Seq(Node)
    BY <1>8
  <2> QED
    BY <2>1
<1>11. /\ Len(m) = Len(l) - 1 /\ \A k \in 1 .. Len(m) : m[k] = l[k + 1]
  BY <1>8, <1>10
<1>12. Linked(m)'
  <2>1. \A a, b : Linking(a, b) => Linking(a, b)'
    BY <1>4, <1>5 DEF Linking
  <2>2. \A k \in 1 .. Len(m) - 1 :
          next'[m[k]] = m[k + 1] \/ (next'[m[k]] = None /\ Linking(m[k], m[k + 1])')
    <3> SUFFICES ASSUME NEW k \in 1 .. Len(m) - 1
                 PROVE next'[m[k]] = m[k + 1] \/ (next'[m[k]] = None /\ Linking(m[k], m[k + 1])')
      OBVIOUS
    <3>1. k + 1 \in 1 .. Len(l) - 1 /\ m[k] = l[k + 1] /\ m[k + 1] = l[(k + 1) + 1]
      BY <1>6, <1>11
    <3>2. \/ next[l[k + 1]] = l[(k + 1) + 1]
          \/ next[l[k + 1]] = None /\ Linking(l[k + 1], l[(k + 1) + 1])
      BY <3>1, <1>2 DEF Linked
    <3> QED
      BY <3>1, <3>2, <2>1, <1>4
  <2>3. ASSUME NEW u \in Thread, step'[u] = "link"
        PROVE \E k \in 1 .. Len(m) - 1 : previous'[u] = m[k] /\ pushing'[u] = m[k + 1] /\ next'[m[k]] = None
    <3>1. PICK k \in 1 .. Len(l) - 1 : previous[u] = l[k] /\ pushing[u] = l[k + 1] /\ next[l[k]] = None
      BY <2>3, <1>2, <1>4 DEF Linked
    <3>2. k # 1
      BY <3>1, <1>7
    <3>3. k - 1 \in 1 .. Len(m) - 1 /\ m[k - 1] = l[k] /\ m[(k - 1) + 1] = l[k + 1]
      BY <3>1, <3>2, <1>6, <1>11
    <3> QED
      BY <3>1, <3>3, <1>4
  <2>4. popStep' # "linkStub"
    BY <1>5
  <2> QED
    BY <2>2, <2>3, <2>4, <1>4, <1>7 DEF Linked
<1>13. m[1] = tail' /\ m[Len(m)] = head' /\ Len(m) >= 1
  BY <1>4, <1>6, <1>7, <1>8, <1>9, <1>11
<1>14. CASE tail # Stub
  <2>1. p # 1 /\ p - 1 \in 1 .. Len(m) + 1
    BY <1>14, <1>6, <1>7, <1>11
  <2>2. popped' = tail /\ popStep' = "found" /\ tail \in Batch
    BY <1>14, <1>3 DEF QueueTypes, Node
  <2>3. Gone' = Gone + 1 /\ Gone = Len(applied)
    BY <2>2, <1>3, <1>4, <1>5, QueueAssumption DEF Gone, QueueTypes, Batch, None
  <2>4. tail = order[Gone + 1]
    BY <2>1, <1>2, <1>6, <1>7 DEF Listed
  <2>5. QueueTypes'
    BY <2>2, <1>3, <1>4, <1>7, <1>8, <1>9 DEF QueueTypes
  <2>6. Gone + 1 <= Len(order)
    BY <2>1, <1>6, <1>7, <1>8
  <2>7. PoppedInOrder'
    BY <2>2, <2>3, <2>4, <2>6, <1>3, <1>4, QueueAssumption DEF PoppedInOrder, Popping, Batch, None
  <2>8. PICK q \in 1 .. Len(m) + 1 : q = p - 1
    BY <2>1
  <2>9. \A k \in 1 .. Len(m) :
          m[k] = IF k < q THEN order[Gone + 1 + k] ELSE IF k = q THEN Stub ELSE order[Gone + 1 + k - 1]
    <3> SUFFICES ASSUME NEW k \in 1 .. Len(m)
                 PROVE m[k] = IF k < q THEN order[Gone + 1 + k] ELSE IF k = q THEN Stub ELSE order[Gone + 1 + k - 1]
      OBVIOUS
    <3>1. k + 1 \in 1 .. Len(l) /\ m[k] = l[k + 1]
      BY <1>6, <1>11
    <3>2. l[k + 1] = IF k + 1 < p THEN order[Gone + (k + 1)] ELSE IF k + 1 = p THEN Stub ELSE order[Gone + (k + 1) - 1]
      BY <3>1, <1>2 DEF Listed
    <3>3. (k + 1 < p <=> k < q) /\ (k + 1 = p <=> k = q)
      BY <2>8
    <3>4. Gone + 1 + k = Gone + (k + 1) /\ Gone + 1 + k - 1 = Gone + (k + 1) - 1
      BY <1>6
    <3> QED
      BY <3>1, <3>2, <3>3, <3>4
  <2>10. Len(order) - (Gone + 1) = IF q <= Len(m) THEN Len(m) - 1 ELSE Len(m)
    BY <2>8, <1>6, <1>7, <1>11
  <2>11. Listed(m, q)'
    BY <2>3, <2>9, <2>10, <1>4, <1>13 DEF Listed
  <2>12. PopAt(m, q)' /\ NothingLeft'
    BY <2>2 DEF PopAt, NothingLeft
  <2>13. Numbered'
    BY <1>3, <1>4 DEF Numbered
  <2> QED
    BY <2>5, <2>7, <2>11, <2>12, <2>13, <1>12 DEF QueueInv, TheList
<1>15. CASE tail = Stub
  <2>1. p = 1
    BY <1>15, <1>6, <1>7
  <2>2. UNCHANGED <<popStep, popped>> /\ popStep = "load"
    BY <1>15
  <2>3. Gone' = Gone
    BY <2>2, <1>4 DEF Gone
  <2>4. QueueTypes' /\ PoppedInOrder' /\ Numbered'
    <3>1. QueueTypes'
      BY <2>2, <1>3, <1>4, <1>7, <1>8, <1>9 DEF QueueTypes
    <3>2. PoppedInOrder' /\ Numbered'
      BY <2>2, <2>3, <1>3, <1>4 DEF PoppedInOrder, Numbered
    <3> QED
      BY <3>1, <3>2
  <2>5. PICK q \in 1 .. Len(m) + 1 : q = Len(m) + 1
    BY <1>13
  <2>6. \A k \in 1 .. Len(m) :
          m[k] = IF k < q THEN order[Gone + k] ELSE IF k = q THEN Stub ELSE order[Gone + k - 1]
    <3> SUFFICES ASSUME NEW k \in 1 .. Len(m) PROVE m[k] = order[Gone + k]
      BY <2>5
    <3>1. k + 1 \in 1 .. Len(l) /\ m[k] = l[k + 1] /\ k + 1 > p
      BY <2>1, <1>6, <1>11
    <3>2. l[k + 1] = order[Gone + (k + 1) - 1]
      BY <3>1, <1>2 DEF Listed
    <3>3. Gone + (k + 1) - 1 = Gone + k
      BY <1>6
    <3> QED
      BY <3>1, <3>2, <3>3
  <2>7. Len(order) - Gone = Len(m)
    BY <2>1, <1>6, <1>7, <1>8, <1>11
  <2>8. Listed(m, q)'
    BY <2>3, <2>5, <2>6, <2>7, <1>4, <1>13 DEF Listed
  <2>9. PopAt(m, q)' /\ NothingLeft'
    BY <2>2 DEF PopAt, NothingLeft
  <2> QED
    BY <2>4, <2>8, <2>9, <1>12 DEF QueueInv, TheList
<1> QED
  BY <1>14, <1>15

\* What the command in progress knows of the queue: its batches are in line, and
\* no thread pushes one.
HeadKnows ==
  \A b \in Head(commands).queued :
    (\E k \in 1 .. Len(order) : order[k] = b) /\ \A t \in Thread : pushing[t] # b

\* A node that has no successor yet and is not the head: a thread pushes the next.
LEMMA NotJoined ==
  ASSUME QueueInv, HeadKnows, popStep # "linkStub", NEW l, NEW p, Listed(l, p), Linked(l),
         Len(l) >= 2, next[l[1]] = None
  PROVE  l[2] # Stub /\ p # 2 /\ l[2] \notin Head(commands).queued
<1>1. Len(l) \in Nat /\ 1 \in 1 .. Len(l) - 1 /\ 2 \in 1 .. Len(l)
  BY DEF Listed
<1>2. l[1 + 1] \in Node /\ l[1 + 1] # None
  BY <1>1, QueueAssumption DEF Listed, Node, Batch, Stub, None
<1>3. Linking(l[1], l[1 + 1])
  BY <1>1, <1>2 DEF Linked
<1>4. PICK t \in Thread : step[t] = "link" /\ pushing[t] = l[2]
  BY <1>3 DEF Linking
<1>5. l[2] # Stub
  BY <1>4, QueueAssumption DEF QueueInv, Numbered, QueueTypes, Stub
<1>6. p # 2
  BY <1>1, <1>5 DEF Listed
<1> QED
  BY <1>4, <1>5, <1>6 DEF HeadKnows

\* A pop that finds no successor ends with nothing, or goes on to the head.
LEMMA StopsKeepsQueue ==
  ASSUME QueueInv, HeadKnows,
         UNCHANGED <<producer, tail, popped, before, head, next, previous, order, commands, applied>>,
         \/ /\ popStep \in {"load", "loadAgain"} /\ next[tail] = None
            /\ popStep' = IF popStep = "load" /\ tail # Stub THEN "testHead" ELSE "nothing"
         \/ popStep = "testHead" /\ popStep' = IF tail # head THEN "nothing" ELSE "pushStub"
  PROVE  QueueInv'
<1>1. PICK l \in Seq(Node) : \E p \in 1 .. Len(l) + 1 : Listed(l, p) /\ Linked(l) /\ PopAt(l, p)
  BY DEF QueueInv, TheList
<1>2. PICK p \in 1 .. Len(l) + 1 : Listed(l, p) /\ Linked(l) /\ PopAt(l, p)
  BY <1>1
<1>3. QueueTypes /\ Numbered /\ PoppedInOrder
  BY DEF QueueInv
<1>4. UNCHANGED <<issued, step, pushing, tail, popped, before, head, next, previous, order, commands, applied>>
  BY DEF producer
<1>5. /\ popStep \in {"load", "loadAgain", "testHead"} /\ popped = None
      /\ popStep' \in {"testHead", "nothing", "pushStub"}
  BY <1>3 DEF PoppedInOrder, Popping
<1>6. QueueTypes'
  BY <1>3, <1>4, <1>5 DEF QueueTypes, Popping
<1>7. Numbered' /\ PoppedInOrder' /\ Gone' = Gone
  BY <1>3, <1>4, <1>5 DEF Numbered, PoppedInOrder, Gone, Popping
<1>8. Listed(l, p)'
  BY <1>2, <1>4, <1>7 DEF Listed
<1>9. Linked(l)'
  <2>1. \A a, b : Linking(a, b) => Linking(a, b)'
    BY <1>4, <1>5 DEF Linking
  <2> QED
    BY <2>1, <1>2, <1>4, <1>5 DEF Linked
<1>10. /\ \A k \in 1 .. Len(l) : l[k] = Stub <=> k = p
       /\ Gone \in Nat /\ Len(order) \in Nat /\ Len(l) \in Nat
       /\ \A i, j \in 1 .. Len(l) : i # j => l[i] # l[j]
  BY <1>2, <1>3, ListFacts
<1>11. /\ l[1] = tail /\ l[Len(l)] = head /\ Len(l) >= 1
       /\ Len(order) - Gone = IF p <= Len(l) THEN Len(l) - 1 ELSE Len(l)
  BY <1>2 DEF Listed
<1>12. next[tail] = None /\ Len(l) >= 2 => p # 2 /\ l[2] \notin Head(commands).queued
  BY <1>2, <1>5, <1>11, NotJoined
<1>13. Len(l) = 1 \/ Len(l) >= 2
  <2>1. \A n \in Nat : n >= 1 => n = 1 \/ n >= 2
    OBVIOUS
  <2> QED
    BY <2>1, <1>10, <1>11, Zenon
<1>14. Len(l) = 1 <=> tail = head
  BY <1>10, <1>11, <1>13
<1>15. PopAt(l, p)'
  <2>1. CASE popStep' = "testHead"
    <3>1. next[tail] = None /\ tail # Stub
      BY <2>1, <1>5
    <3>2. p # 1
      BY <3>1, <1>10, <1>11
    <3> QED
      BY <2>1, <3>1, <3>2, <1>4, <1>12, <1>13 DEF PopAt
  <2>2. CASE popStep' = "nothing"
    BY <2>2 DEF PopAt
  <2>3. CASE popStep' = "pushStub"
    <3>1. popStep = "testHead" /\ Len(l) = 1
      BY <2>3, <1>5, <1>14
    <3>2. p # 1
      BY <3>1, <1>2 DEF PopAt
    <3> QED
      BY <2>3, <3>1, <3>2, <1>2, <1>4 DEF PopAt
  <2> QED
    BY <2>1, <2>2, <2>3, <1>5
<1>16. NothingLeft'
  <2> SUFFICES ASSUME popStep' = "nothing"
               PROVE \/ Left = {}
                     \/ \E k \in Gone + 1 .. Gone + 2 : k <= Len(order) /\ order[k] \notin Head(commands).queued
    BY <1>4, <1>7 DEF NothingLeft, Left
  <2>1. CASE Len(l) = 1 /\ p = 1
    <3>1. Len(order) = Gone /\ Gone = Len(applied)
      BY <2>1, <1>3, <1>5, <1>10, <1>11 DEF Gone, QueueTypes
    <3>2. \A k \in 1 .. Len(order) : order[k] = applied[k] /\ k \in DOMAIN applied
      BY <3>1, <1>3 DEF PoppedInOrder, QueueTypes
    <3> QED
      BY <3>2 DEF HeadKnows, Left, ToSet
  <2>2. CASE Len(l) >= 2 /\ p = 1
    <3>1. popStep # "testHead" /\ next[tail] = None
      BY <2>2, <1>2, <1>5 DEF PopAt
    <3>2. l[2] = order[Gone + 1] /\ Gone + 1 <= Len(order)
      <4>1. 2 \in 1 .. Len(l) /\ ~ 2 < p /\ 2 # p
        BY <2>2
      <4>2. l[2] = order[Gone + 2 - 1]
        BY <4>1, <1>2 DEF Listed
      <4> QED
        BY <4>2, <2>2, <1>10, <1>11
    <3> QED
      BY <3>1, <3>2, <2>2, <1>10, <1>12
  <2>3. CASE p # 1
    <3>1. Len(l) >= 2 /\ p # 2 /\ l[2] \notin Head(commands).queued
      <4>1. tail # Stub
        BY <2>3, <1>10, <1>11
      <4>2. CASE popStep = "testHead"
        <5>1. Len(l) >= 2
          BY <4>2, <1>13, <1>14
        <5>2. p # 2
          BY <4>2, <5>1, <1>2, <1>10 DEF PopAt
        <5> QED
          BY <4>2, <5>1, <5>2, <1>2 DEF PopAt
      <4>3. CASE popStep = "loadAgain"
        <5>1. p <= Len(l)
          BY <4>3, <1>2 DEF PopAt
        <5>2. Len(l) >= 2 /\ next[tail] = None
          BY <4>3, <5>1, <2>3, <1>5, <1>10, <1>13
        <5> QED
          BY <5>2, <1>12
      <4> QED
        BY <4>1, <4>2, <4>3, <1>5
    <3>2. l[2] = order[Gone + 2]
      <4>1. 2 \in 1 .. Len(l) /\ 2 < p
        BY <3>1, <2>3, <1>10
      <4> QED
        BY <4>1, <1>2 DEF Listed
    <3>3. Gone + 2 <= Len(order)
      BY <3>1, <2>3, <1>10, <1>11
    <3> QED
      BY <3>1, <3>2, <3>3, <1>10
  <2> QED
    BY <2>1, <2>2, <2>3, <1>13
<1> QED
  BY <1>6, <1>7, <1>8, <1>9, <1>15, <1>16 DEF QueueInv, TheList

\* The stub is exchanged for the head when it is not in the list.
LEMMA ExchangeStubKeepsQueue ==
  ASSUME QueueInv, ExchangeStub, UNCHANGED <<commands, applied>>
  PROVE  QueueInv'
<1>1. PICK l \in Seq(Node) : \E p \in 1 .. Len(l) + 1 : Listed(l, p) /\ Linked(l) /\ PopAt(l, p)
  BY DEF QueueInv, TheList
<1>2. PICK p \in 1 .. Len(l) + 1 : Listed(l, p) /\ Linked(l) /\ PopAt(l, p)
  BY <1>1
<1>3. QueueTypes /\ Numbered /\ PoppedInOrder /\ NothingLeft
  BY DEF QueueInv
<1>4. /\ popStep = "pushStub" /\ popStep' = "linkStub" /\ before' = head /\ head' = Stub
      /\ next' = [next EXCEPT ![Stub] = None]
      /\ UNCHANGED <<issued, step, pushing, tail, popped, previous, order, commands, applied>>
  BY DEF ExchangeStub, producer
<1>5. Stub \in Node /\ Stub # None
  BY DEF Node, Stub, None
<1>6. QueueTypes'
  BY <1>3, <1>4, <1>5 DEF QueueTypes, Popping
<1>7. Numbered' /\ PoppedInOrder' /\ Gone' = Gone
  BY <1>3, <1>4 DEF Numbered, PoppedInOrder, Gone, Popping
<1>8. /\ \A k \in 1 .. Len(l) : l[k] = Stub <=> k = p
      /\ Gone \in Nat /\ Len(order) \in Nat /\ Len(l) \in Nat
  BY <1>2, <1>3, ListFacts
<1>9. /\ l[1] = tail /\ l[Len(l)] = head /\ Len(l) >= 1 /\ next[head] = None
      /\ Len(order) - Gone = IF p <= Len(l) THEN Len(l) - 1 ELSE Len(l)
  BY <1>2 DEF Listed, Linked
<1>10. p = Len(l) + 1
  BY <1>2, <1>4, <1>8 DEF PopAt
<1>11. PICK m \in Seq(Node) : m = Append(l, Stub)
  <2>1. Append(l, Stub) \in Seq(Node)
    BY <1>5
  <2> QED
    BY <2>1
<1>12. /\ Len(m) = Len(l) + 1 /\ m[Len(l) + 1] = Stub
       /\ \A k \in 1 .. Len(l) : m[k] = l[k]
  BY <1>5, <1>11
<1>13. p \in 1 .. Len(m) + 1 /\ p = Len(m)
  BY <1>8, <1>10, <1>12
<1>14. Listed(m, p)'
  <2>1. \A k \in 1 .. Len(m) :
          m[k] = IF k < p THEN order[Gone + k] ELSE IF k = p THEN Stub ELSE order[Gone + k - 1]
    <3> SUFFICES ASSUME NEW k \in 1 .. Len(m)
                 PROVE m[k] = IF k < p THEN order[Gone + k] ELSE IF k = p THEN Stub ELSE order[Gone + k - 1]
      OBVIOUS
    <3>1. CASE k = p
      BY <3>1, <1>10, <1>12
    <3>2. CASE k # p
      <4>1. k \in 1 .. Len(l) /\ k < p
        BY <3>2, <1>8, <1>10, <1>12
      <4> QED
        BY <4>1, <1>2, <1>12 DEF Listed
    <3> QED
      BY <3>1, <3>2
  <2>2. Len(order) - Gone = Len(m) - 1
    BY <1>8, <1>9, <1>10, <1>12
  <2> QED
    BY <2>1, <2>2, <1>4, <1>7, <1>8, <1>9, <1>12, <1>13 DEF Listed
<1>15. Linked(m)'
  <2>1. \A k \in 1 .. Len(l) : l[k] # Stub /\ l[k] \in Node
    BY <1>2, <1>8, <1>10 DEF Listed
  <2>2. next'[Stub] = None /\ \A k \in 1 .. Len(l) : next'[l[k]] = next[l[k]]
    BY <2>1, <1>3, <1>4, <1>5 DEF QueueTypes
  <2>3. \A a, b : Linking(a, b) => Linking(a, b)'
    BY <1>4 DEF Linking
  <2>4. \A k \in 1 .. Len(m) - 1 :
          next'[m[k]] = m[k + 1] \/ (next'[m[k]] = None /\ Linking(m[k], m[k + 1])')
    <3> SUFFICES ASSUME NEW k \in 1 .. Len(m) - 1
                 PROVE next'[m[k]] = m[k + 1] \/ (next'[m[k]] = None /\ Linking(m[k], m[k + 1])')
      OBVIOUS
    <3>1. CASE k \in 1 .. Len(l) - 1
      <4>1. m[k] = l[k] /\ m[k + 1] = l[k + 1] /\ k \in 1 .. Len(l)
        BY <3>1, <1>8, <1>12
      <4> QED
        BY <4>1, <3>1, <2>2, <2>3, <1>2 DEF Linked
    <3>2. CASE k = Len(l)
      <4>1. m[k] = head /\ m[k + 1] = Stub /\ next'[m[k]] = None
        BY <3>2, <2>2, <1>8, <1>9, <1>12
      <4> QED
        BY <4>1, <1>4 DEF Linking
    <3> QED
      BY <3>1, <3>2, <1>8, <1>12
  <2>5. ASSUME NEW u \in Thread, step[u] = "link"
        PROVE \E k \in 1 .. Len(m) - 1 : previous[u] = m[k] /\ pushing[u] = m[k + 1] /\ next'[m[k]] = None
    <3>1. PICK k \in 1 .. Len(l) - 1 : previous[u] = l[k] /\ pushing[u] = l[k + 1] /\ next[l[k]] = None
      BY <2>5, <1>2 DEF Linked
    <3>2. m[k] = l[k] /\ m[k + 1] = l[k + 1] /\ k \in 1 .. Len(l) /\ k \in 1 .. Len(m) - 1
      BY <1>8, <1>12
    <3> QED
      BY <3>1, <3>2, <2>2
  <2>6. \E k \in 1 .. Len(m) - 1 : before' = m[k] /\ m[k + 1] = Stub /\ next'[m[k]] = None
    <3>1. Len(l) \in 1 .. Len(m) - 1 /\ Len(l) \in 1 .. Len(l)
      BY <1>8, <1>9, <1>12
    <3> QED
      BY <3>1, <2>2, <1>4, <1>9, <1>12
  <2> QED
    BY <2>2, <2>4, <2>5, <2>6, <1>4 DEF Linked
<1>16. PopAt(m, p)'
  <2>1. p # 1
    BY <1>8, <1>9, <1>10
  <2>2. p # 2 => Len(l) >= 2 /\ m[2] = l[2]
    BY <1>8, <1>9, <1>10, <1>12
  <2> QED
    BY <2>1, <2>2, <1>2, <1>4 DEF PopAt
<1>17. NothingLeft'
  BY <1>4 DEF NothingLeft
<1> QED
  BY <1>6, <1>7, <1>13, <1>14, <1>15, <1>16, <1>17 DEF QueueInv, TheList

\* The stub's second store.
LEMMA LinkStubKeepsQueue ==
  ASSUME QueueInv, LinkStub, UNCHANGED <<commands, applied>>
  PROVE  QueueInv'
<1>1. PICK l \in Seq(Node) : \E p \in 1 .. Len(l) + 1 : Listed(l, p) /\ Linked(l) /\ PopAt(l, p)
  BY DEF QueueInv, TheList
<1>2. PICK p \in 1 .. Len(l) + 1 : Listed(l, p) /\ Linked(l) /\ PopAt(l, p)
  BY <1>1
<1>3. QueueTypes /\ Numbered /\ PoppedInOrder /\ NothingLeft
  BY DEF QueueInv
<1>4. PICK k \in 1 .. Len(l) - 1 : before = l[k] /\ l[k + 1] = Stub /\ next[l[k]] = None
  BY <1>2 DEF LinkStub, Linked
<1>5. /\ popStep = "linkStub" /\ popStep' = "loadAgain"
      /\ next' = [next EXCEPT ![l[k]] = Stub] /\ before' = None
      /\ UNCHANGED <<issued, step, pushing, tail, popped, head, previous, order, commands, applied>>
  BY <1>4 DEF LinkStub, producer
<1>6. /\ \A j \in 1 .. Len(l) : l[j] \in Node /\ (l[j] = Stub <=> j = p)
      /\ Len(l) \in Nat
      /\ \A i, j \in 1 .. Len(l) : i # j => l[i] # l[j]
  BY SMTT(30), <1>2, <1>3, ListFacts DEF Listed
<1>7. Stub \in Node /\ k \in 1 .. Len(l) /\ k + 1 \in 1 .. Len(l)
  BY <1>6 DEF Node
<1>8. QueueTypes'
  BY <1>3, <1>5, <1>6, <1>7 DEF QueueTypes, Popping
<1>9. Numbered' /\ PoppedInOrder' /\ Gone' = Gone
  BY <1>3, <1>5 DEF Numbered, PoppedInOrder, Gone, Popping
<1>10. Listed(l, p)'
  BY <1>2, <1>5, <1>9 DEF Listed
<1>11. next'[l[k]] = Stub /\ \A j \in 1 .. Len(l) : j # k => next'[l[j]] = next[l[j]]
  BY <1>3, <1>5, <1>6, <1>7 DEF QueueTypes
<1>12. Linked(l)'
  <2>1. next'[head'] = None
    <3>1. Len(l) # k /\ Len(l) \in 1 .. Len(l)
      BY <1>6
    <3> QED
      BY <3>1, <1>2, <1>5, <1>11 DEF Listed, Linked
  <2>2. ASSUME NEW j \in 1 .. Len(l) - 1
        PROVE next'[l[j]] = l[j + 1] \/ (next'[l[j]] = None /\ Linking(l[j], l[j + 1])')
    <3>1. CASE j = k
      BY <3>1, <1>4, <1>11
    <3>2. CASE j # k
      <4>1. j \in 1 .. Len(l) /\ l[j] # before
        BY <3>2, <1>4, <1>6, <1>7
      <4>2. Linking(l[j], l[j + 1]) => Linking(l[j], l[j + 1])'
        BY <4>1, <1>5 DEF Linking
      <4> QED
        BY <4>1, <4>2, <3>2, <1>2, <1>11 DEF Linked
    <3> QED
      BY <3>1, <3>2
  <2>3. ASSUME NEW u \in Thread, step[u] = "link"
        PROVE \E j \in 1 .. Len(l) - 1 : previous[u] = l[j] /\ pushing[u] = l[j + 1] /\ next'[l[j]] = None
    <3>1. PICK j \in 1 .. Len(l) - 1 : previous[u] = l[j] /\ pushing[u] = l[j + 1] /\ next[l[j]] = None
      BY <2>3, <1>2 DEF Linked
    <3>2. l[j + 1] # Stub
      BY <2>3, <3>1, <1>3, QueueAssumption DEF Numbered, QueueTypes, Stub
    <3>3. j # k /\ j \in 1 .. Len(l)
      BY <3>2, <1>4, <1>6
    <3> QED
      BY <3>1, <3>3, <1>11
  <2> QED
    BY <2>1, <2>2, <2>3, <1>5 DEF Linked
<1>13. PopAt(l, p)'
  <2>1. p <= Len(l)
    BY <1>4, <1>6, <1>7
  <2> QED
    BY <2>1, <1>2, <1>5 DEF PopAt
<1>14. NothingLeft'
  BY <1>5 DEF NothingLeft
<1> QED
  BY <1>8, <1>9, <1>10, <1>12, <1>13, <1>14 DEF QueueInv, TheList

\* What was popped is applied next.
LEMMA ApplyKeepsQueue ==
  ASSUME QueueInv, popStep = "found", popStep' = "load", popped' = None,
         applied' = Append(applied, popped),
         UNCHANGED <<producer, tail, before, head, next, previous, order, commands>>
  PROVE  QueueInv'
<1>1. PICK l \in Seq(Node) : \E p \in 1 .. Len(l) + 1 : Listed(l, p) /\ Linked(l) /\ PopAt(l, p)
  BY DEF QueueInv, TheList
<1>2. PICK p \in 1 .. Len(l) + 1 : Listed(l, p) /\ Linked(l) /\ PopAt(l, p)
  BY <1>1
<1>3. QueueTypes /\ Numbered /\ PoppedInOrder
  BY DEF QueueInv
<1>4. UNCHANGED <<issued, step, pushing, tail, before, head, next, previous, order, commands>>
  BY DEF producer
<1>5. popped # None /\ popped \in Batch
  BY <1>3 DEF PoppedInOrder, QueueTypes
<1>6. /\ Len(applied) \in Nat /\ Len(applied') = Len(applied) + 1
      /\ applied'[Len(applied) + 1] = popped
      /\ \A k \in 1 .. Len(applied) : applied'[k] = applied[k]
  BY <1>3, <1>5 DEF QueueTypes
<1>7. Gone' = Gone
  BY <1>5, <1>6 DEF Gone
<1>8. QueueTypes'
  BY <1>3, <1>4, <1>5 DEF QueueTypes, Popping
<1>9. Numbered'
  BY <1>3, <1>4 DEF Numbered
<1>10. PoppedInOrder'
  BY <1>3, <1>4, <1>5, <1>6, <1>7 DEF PoppedInOrder, Popping
<1>11. Listed(l, p)'
  BY <1>2, <1>4, <1>7 DEF Listed
<1>12. Linked(l)'
  <2>1. \A a, b : Linking(a, b) => Linking(a, b)'
    BY <1>4 DEF Linking
  <2> QED
    BY <2>1, <1>2, <1>4 DEF Linked
<1>13. PopAt(l, p)' /\ NothingLeft'
  BY DEF PopAt, NothingLeft
<1> QED
  BY <1>8, <1>9, <1>10, <1>11, <1>12, <1>13 DEF QueueInv, TheList

-----------------------------------------------------------------------------
(* What a command knows *)

\* What a command knows of the queue stays true, and true of a later place.
Remembers == \A c : \A i, j \in Nat : i <= j /\ Knows(c, i) => Knows(c, j)'

\* (Every step but a push.)
LEMMA UnchangedRemembers ==
  ASSUME UNCHANGED <<issued, order, pushing, emittedAt>>,
         issued \in Nat, emittedAt \in [Batch -> Nat], issued <= MaxBatches
  PROVE  Remembers
<1> SUFFICES ASSUME NEW c, NEW i \in Nat, NEW j \in Nat, i <= j, Knows(c, i)
             PROVE Knows(c, j)'
  BY DEF Remembers
<1>1. \A b \in 1 .. c.bound : emittedAt[b] \in Nat
  BY QueueAssumption DEF Knows, Batch
<1> QED
  BY <1>1 DEF Knows

\* (The three stores of a push.)
LEMMA PushRemembers ==
  ASSUME QueueInv, emittedAt \in [Batch -> Nat], NEW t \in Thread, NEW to,
         \/ TakeNumber(t) /\ emittedAt' = [emittedAt EXCEPT ![issued + 1] = emitted]
         \/ (Exchange(t) \/ Link(t, to)) /\ UNCHANGED emittedAt
  PROVE  Remembers
<1> SUFFICES ASSUME NEW c, NEW i \in Nat, NEW j \in Nat, i <= j, Knows(c, i)
             PROVE Knows(c, j)'
  BY DEF Remembers
<1>1. QueueTypes /\ Numbered /\ issued \in Nat /\ issued <= MaxBatches
  BY QueueAssumption DEF QueueInv, QueueTypes
<1>2. \A b \in 1 .. c.bound : b \in Batch /\ emittedAt[b] \in Nat
  BY <1>1, QueueAssumption DEF Knows, Batch
<1>3. CASE TakeNumber(t) /\ emittedAt' = [emittedAt EXCEPT ![issued + 1] = emitted]
  <2>1. /\ issued' = issued + 1 /\ order' = order
        /\ \A u \in Thread : pushing'[u] = pushing[u] \/ pushing'[u] = issued + 1
    BY <1>1, <1>3 DEF TakeNumber, QueueTypes
  <2>2. \A b \in 1 .. c.bound : emittedAt'[b] = emittedAt[b] /\ b # issued + 1
    BY <1>1, <1>2, <1>3 DEF Knows
  <2>3. c.bound \in 0 .. issued'
    BY <2>1, <1>1 DEF Knows
  <2>4. \A b \in c.queued : \A u \in Thread : pushing'[u] # b
    BY <2>1, <2>2 DEF Knows
  <2> QED
    BY <2>1, <2>2, <2>3, <2>4, <1>2 DEF Knows
<1>4. CASE Exchange(t) /\ UNCHANGED emittedAt
  <2>1. UNCHANGED <<issued, pushing>>
    BY <1>4 DEF Exchange
  <2>2. \A k \in 1 .. Len(order) : k \in 1 .. Len(order') /\ order'[k] = order[k]
    <3>1. pushing[t] \in Batch
      BY <1>1, <1>4, QueueAssumption DEF Exchange, Goes, Numbered, QueueTypes, Batch
    <3> QED
      BY <3>1, <1>1, <1>4 DEF Exchange, QueueTypes
  <2> QED
    BY <2>1, <2>2, <1>2, <1>4 DEF Knows
<1>5. CASE Link(t, to) /\ UNCHANGED emittedAt
  <2>1. UNCHANGED <<issued, order>>
    BY <1>5 DEF Link
  <2>2. \A u \in Thread : pushing'[u] = pushing[u] \/ pushing'[u] = None
    BY <1>1, <1>5 DEF Link, QueueTypes
  <2>3. \A b \in c.queued : \A u \in Thread : pushing'[u] # b
    BY <2>2, <1>2 DEF Knows, Batch, None
  <2> QED
    BY <2>1, <2>3, <1>2, <1>5 DEF Knows
<1> QED
  BY <1>3, <1>4, <1>5

-----------------------------------------------------------------------------
(* The command stream through each of its steps *)

\* A step that leaves the stream alone.
LEMMA SameStream ==
  ASSUME StreamTypes, TheStream, Remembers,
         UNCHANGED <<chunk, chunksQueued, commands, emitted, executed>>
  PROVE  TheStream'
<1>1. PICK from \in [1 .. Len(chunksQueued) + 1 -> Nat] : Streamed(from)
  BY DEF TheStream
<1>2. ASSUME NEW c \in Command, NEW i \in Nat, Placed(from, c, i)' PROVE Knows(c, i)'
  BY <1>1, <1>2 DEF Streamed, Placed, Remembers
<1>3. Streamed(from)'
  BY <1>1, <1>2 DEF Streamed
<1> QED
  BY <1>3 DEF TheStream

\* Another chunk goes to the queue.
LEMMA DispatchedStream ==
  ASSUME StreamTypes, TheStream, Remembers, chunk # <<>>, NEW last \in Seq(Command),
         chunksQueued' = Append(chunksQueued, chunk), chunk' = last,
         UNCHANGED <<commands, executed>>, emitted' = emitted + Len(last),
         \A c \in Command, i \in Nat :
           (\E k \in 1 .. Len(last) : c = last[k] /\ i = emitted + k - 1) => Knows(c, i)'
  PROVE  TheStream' /\ chunksQueued' \in Seq(Seq(Command))
<1>1. PICK from \in [1 .. Len(chunksQueued) + 1 -> Nat] : Streamed(from)
  BY DEF TheStream
<1>2. PICK n \in Nat : n = Len(chunksQueued)
  BY DEF StreamTypes
<1>3. /\ chunksQueued' \in Seq(Seq(Command)) /\ Len(chunksQueued') = n + 1
      /\ chunksQueued'[n + 1] = chunk /\ Len(chunk) \in Nat /\ emitted \in Nat
      /\ \A j \in 1 .. n : chunksQueued'[j] = chunksQueued[j]
  BY <1>2 DEF StreamTypes
<1>4. PICK m \in [1 .. n + 2 -> Nat] : m = [j \in 1 .. n + 2 |-> IF j = n + 2 THEN emitted ELSE from[j]]
  <2>1. from \in [1 .. n + 1 -> Nat]
    BY <1>2
  <2>2. [j \in 1 .. n + 2 |-> IF j = n + 2 THEN emitted ELSE from[j]] \in [1 .. n + 2 -> Nat]
    BY <2>1, <1>3
  <2> QED
    BY <2>2
<1>5. m[n + 2] = emitted /\ \A j \in 1 .. n + 1 : m[j] = from[j]
  BY <1>4
<1>6. /\ from[1] = executed + Len(commands) /\ emitted = from[n + 1] + Len(chunk)
      /\ \A j \in 1 .. n : from[j + 1] = from[j] + Len(chunksQueued[j])
  BY <1>1, <1>2 DEF Streamed
<1>7. ASSUME NEW c \in Command, NEW i \in Nat, Placed(m, c, i)' PROVE Knows(c, i)'
  <2>1. CASE \E k \in 1 .. Len(commands) : c = commands[k] /\ i = executed + k - 1
    <3>1. Placed(from, c, i)
      BY <2>1 DEF Placed
    <3> QED
      BY <3>1, <1>1 DEF Streamed, Remembers
  <2>2. CASE \E j \in 1 .. n : \E k \in 1 .. Len(chunksQueued[j]) :
                c = chunksQueued[j][k] /\ i = from[j] + k - 1
    <3>1. Placed(from, c, i)
      BY <2>2, <1>2 DEF Placed
    <3> QED
      BY <3>1, <1>1 DEF Streamed, Remembers
  <2>3. CASE \E k \in 1 .. Len(chunk) : c = chunk[k] /\ i = from[n + 1] + k - 1
    <3>1. Placed(from, c, i)
      BY <2>3, <1>2 DEF Placed
    <3> QED
      BY <3>1, <1>1 DEF Streamed, Remembers
  <2>4. CASE \E k \in 1 .. Len(last) : c = last[k] /\ i = emitted + k - 1
    BY <2>4
  <2>5. CASE \E j \in 1 .. n + 1 : \E k \in 1 .. Len(chunksQueued'[j]) :
                c = chunksQueued'[j][k] /\ i = m[j] + k - 1
    <3>1. PICK j \in 1 .. n + 1 : \E k \in 1 .. Len(chunksQueued'[j]) :
                c = chunksQueued'[j][k] /\ i = m[j] + k - 1
      BY <2>5
    <3>2. CASE j = n + 1
      BY <3>1, <3>2, <2>3, <1>3, <1>5
    <3>3. CASE j \in 1 .. n
      BY <3>1, <3>3, <2>2, <1>3, <1>5
    <3> QED
      BY <3>2, <3>3, <1>2
  <2>6. Len(chunksQueued') = n + 1 /\ Len(chunksQueued') + 1 = n + 2
    BY <1>3
  <2> QED
    BY <2>1, <2>4, <2>5, <2>6, <1>5, <1>7 DEF Placed
<1>8. Streamed(m)'
  <2>1. Len(chunksQueued') + 1 = n + 2
    BY <1>3
  <2>2. m[1] = executed + Len(commands)
    BY <1>5, <1>6
  <2>3. emitted' = m[n + 2] + Len(last)
    BY <1>5
  <2>4. \A j \in 1 .. n + 1 : m[j + 1] = m[j] + Len(chunksQueued'[j])
    <3> SUFFICES ASSUME NEW j \in 1 .. n + 1 PROVE m[j + 1] = m[j] + Len(chunksQueued'[j])
      OBVIOUS
    <3>1. CASE j = n + 1
      BY <3>1, <1>3, <1>5, <1>6
    <3>2. CASE j \in 1 .. n
      BY <3>2, <1>3, <1>5, <1>6
    <3>3. j = n + 1 \/ j \in 1 .. n
      OBVIOUS
    <3> QED
      BY <3>1, <3>2, <3>3
  <2> QED
    BY <2>1, <2>2, <2>3, <2>4, <1>3, <1>4, <1>7 DEF Streamed
<1>9. Len(chunksQueued') + 1 = n + 2
  BY <1>3
<1> QED
  BY <1>3, <1>4, <1>8, <1>9 DEF TheStream

\* A command goes to the device's chunk.
LEMMA AppendedStream ==
  ASSUME StreamTypes, TheStream, Remembers, NEW command \in Command, NEW place \in Nat,
         chunk' = Append(chunk, command), emitted' = emitted + 1,
         UNCHANGED <<chunksQueued, commands, executed>>,
         place = emitted, Knows(command, place)'
  PROVE  TheStream'
<1>1. PICK from \in [1 .. Len(chunksQueued) + 1 -> Nat] : Streamed(from)
  BY DEF TheStream
<1>2. /\ Len(chunk) \in Nat /\ Len(chunk') = Len(chunk) + 1 /\ chunk'[Len(chunk) + 1] = command
      /\ \A k \in 1 .. Len(chunk) : chunk'[k] = chunk[k]
  BY DEF StreamTypes
<1>3. /\ emitted = from[Len(chunksQueued) + 1] + Len(chunk) /\ emitted \in Nat
      /\ from[Len(chunksQueued) + 1] \in Nat
  <2>1. Len(chunksQueued) + 1 \in 1 .. Len(chunksQueued) + 1 /\ emitted \in Nat
    BY DEF StreamTypes
  <2> QED
    BY <2>1, <1>1 DEF Streamed
<1>4. ASSUME NEW c \in Command, NEW i \in Nat, Placed(from, c, i)' PROVE Knows(c, i)'
  <2>1. CASE Placed(from, c, i)
    BY <2>1, <1>1 DEF Streamed, Remembers
  <2>2. CASE \E k \in 1 .. Len(chunk') : c = chunk'[k] /\ i = from[Len(chunksQueued) + 1] + k - 1
    <3>1. PICK k \in 1 .. Len(chunk') : c = chunk'[k] /\ i = from[Len(chunksQueued) + 1] + k - 1
      BY <2>2
    <3>2. CASE k = Len(chunk) + 1
      <4>1. c = command /\ i = place
        BY <3>1, <3>2, <1>2, <1>3
      <4> QED
        BY <4>1
    <3>3. CASE k \in 1 .. Len(chunk)
      BY <3>1, <3>3, <2>1, <1>2 DEF Placed
    <3> QED
      BY <3>2, <3>3, <1>2
  <2>3. \/ Placed(from, c, i)
        \/ \E k \in 1 .. Len(chunk') : c = chunk'[k] /\ i = from[Len(chunksQueued) + 1] + k - 1
    BY <1>4 DEF Placed
  <2> QED
    BY <2>1, <2>2, <2>3
<1>5. Streamed(from)'
  BY <1>1, <1>2, <1>3, <1>4 DEF Streamed
<1> QED
  BY <1>5 DEF TheStream

\* The first chunk that waits is taken, when none runs.
LEMMA TakenStream ==
  ASSUME StreamTypes, TheStream, Remembers, commands = <<>>, TakeChunk, chunksQueued # <<>>,
         UNCHANGED <<chunk, emitted, executed>>
  PROVE  TheStream' /\ commands' \in Seq(Command) /\ chunksQueued' \in Seq(Seq(Command))
<1>1. PICK from \in [1 .. Len(chunksQueued) + 1 -> Nat] : Streamed(from)
  BY DEF TheStream
<1>2. PICK n \in Nat : n = Len(chunksQueued)
  BY DEF StreamTypes
<1>3. /\ n >= 1 /\ chunksQueued' \in Seq(Seq(Command)) /\ Len(chunksQueued') = n - 1
      /\ commands' = chunksQueued[1] /\ commands' \in Seq(Command)
      /\ \A j \in 1 .. n - 1 : chunksQueued'[j] = chunksQueued[j + 1]
  BY <1>2 DEF StreamTypes, TakeChunk
<1>4. PICK m \in [1 .. n -> Nat] : m = [j \in 1 .. n |-> from[j + 1]]
  <2>1. from \in [1 .. n + 1 -> Nat]
    BY <1>2
  <2>2. [j \in 1 .. n |-> from[j + 1]] \in [1 .. n -> Nat]
    BY <2>1
  <2> QED
    BY <2>2
<1>5. \A j \in 1 .. n : m[j] = from[j + 1]
  BY <1>4
<1>6. /\ from[1] = executed /\ emitted = from[n + 1] + Len(chunk) /\ executed \in Nat
      /\ \A j \in 1 .. n : from[j + 1] = from[j] + Len(chunksQueued[j])
  BY <1>1, <1>2 DEF Streamed, StreamTypes
<1>7. ASSUME NEW c \in Command, NEW i \in Nat, Placed(m, c, i)' PROVE Knows(c, i)'
  <2>1. CASE \E k \in 1 .. Len(commands') : c = commands'[k] /\ i = executed + k - 1
    <3>1. PICK k \in 1 .. Len(chunksQueued[1]) : c = chunksQueued[1][k] /\ i = from[1] + k - 1
      BY <2>1, <1>3, <1>6
    <3>2. Placed(from, c, i)
      BY <3>1, <1>2, <1>3 DEF Placed
    <3> QED
      BY <3>2, <1>1 DEF Streamed, Remembers
  <2>2. CASE \E j \in 1 .. n - 1 : \E k \in 1 .. Len(chunksQueued'[j]) :
                c = chunksQueued'[j][k] /\ i = m[j] + k - 1
    <3>1. PICK j \in 1 .. n - 1 : \E k \in 1 .. Len(chunksQueued'[j]) :
                c = chunksQueued'[j][k] /\ i = m[j] + k - 1
      BY <2>2
    <3>2. j + 1 \in 1 .. n /\ chunksQueued'[j] = chunksQueued[j + 1] /\ m[j] = from[j + 1]
      BY <1>2, <1>3, <1>5
    <3>3. \E k \in 1 .. Len(chunksQueued[j + 1]) : c = chunksQueued[j + 1][k] /\ i = from[j + 1] + k - 1
      BY <3>1, <3>2
    <3>4. Placed(from, c, i)
      BY <3>2, <3>3, <1>2 DEF Placed
    <3> QED
      BY <3>4, <1>1 DEF Streamed, Remembers
  <2>3. CASE \E k \in 1 .. Len(chunk) : c = chunk[k] /\ i = m[n] + k - 1
    <3>1. n \in 1 .. n /\ m[n] = from[n + 1]
      BY <1>3, <1>5
    <3>2. Placed(from, c, i)
      BY <2>3, <3>1, <1>2 DEF Placed
    <3> QED
      BY <3>2, <1>1 DEF Streamed, Remembers
  <2>4. Len(chunksQueued') + 1 = n
    BY <1>3
  <2> QED
    BY <2>1, <2>2, <2>3, <2>4, <1>3, <1>7 DEF Placed
<1>8. Streamed(m)'
  <2>1. Len(chunksQueued') + 1 = n
    BY <1>3
  <2>2. m[1] = executed + Len(commands')
    BY <1>2, <1>3, <1>5, <1>6
  <2>3. emitted = m[n] + Len(chunk)
    BY <1>3, <1>5, <1>6
  <2>4. \A j \in 1 .. n - 1 : m[j + 1] = m[j] + Len(chunksQueued'[j])
    <3> SUFFICES ASSUME NEW j \in 1 .. n - 1 PROVE m[j + 1] = m[j] + Len(chunksQueued'[j])
      OBVIOUS
    <3>0. j + 1 \in 1 .. n /\ j \in 1 .. n
      OBVIOUS
    <3>1. j + 1 \in 1 .. n /\ m[j + 1] = from[(j + 1) + 1] /\ m[j] = from[j + 1]
          /\ chunksQueued'[j] = chunksQueued[j + 1]
      BY <3>0, <1>3, <1>5
    <3> QED
      BY <3>1, <1>6
  <2> QED
    BY <2>1, <2>2, <2>3, <2>4, <1>3, <1>4, <1>7 DEF Streamed
<1>9. Len(chunksQueued') + 1 = n
  BY <1>3
<1> QED
  BY <1>3, <1>4, <1>8, <1>9 DEF TheStream

\* A command is over.
LEMMA OverStream ==
  ASSUME StreamTypes, TheStream, Remembers, commands # <<>>,
         commands' = Tail(commands), executed' = executed + 1,
         UNCHANGED <<chunk, chunksQueued, emitted>>
  PROVE  TheStream' /\ commands' \in Seq(Command)
<1>1. PICK from \in [1 .. Len(chunksQueued) + 1 -> Nat] : Streamed(from)
  BY DEF TheStream
<1>2. /\ commands' \in Seq(Command) /\ Len(commands) \in Nat /\ Len(commands) >= 1
      /\ Len(commands') = Len(commands) - 1 /\ executed \in Nat
      /\ \A k \in 1 .. Len(commands') : commands'[k] = commands[k + 1]
  BY DEF StreamTypes
<1>3. ASSUME NEW c \in Command, NEW i \in Nat, Placed(from, c, i)' PROVE Knows(c, i)'
  <2>1. CASE \E k \in 1 .. Len(commands') : c = commands'[k] /\ i = executed' + k - 1
    <3>1. PICK k \in 1 .. Len(commands') : c = commands'[k] /\ i = executed' + k - 1
      BY <2>1
    <3>2. k + 1 \in 1 .. Len(commands) /\ c = commands[k + 1] /\ i = executed + (k + 1) - 1
      BY <3>1, <1>2
    <3>3. Placed(from, c, i)
      BY <3>2 DEF Placed
    <3> QED
      BY <3>3, <1>1 DEF Streamed, Remembers
  <2>2. CASE Placed(from, c, i)
    BY <2>2, <1>1 DEF Streamed, Remembers
  <2>3. \/ Placed(from, c, i)
        \/ \E k \in 1 .. Len(commands') : c = commands'[k] /\ i = executed' + k - 1
    BY <1>3 DEF Placed
  <2> QED
    BY <2>1, <2>2, <2>3
<1>4. Streamed(from)'
  BY <1>1, <1>2, <1>3 DEF Streamed
<1> QED
  BY <1>2, <1>4 DEF TheStream

\* The device emits a command: into its chunk, or a new one behind it.
LEMMA EmittedStream ==
  ASSUME StreamInv, Remembers, NEW command \in Command, NEW place \in Nat,
         EmitCs(command), place = emitted, Knows(command, place)',
         UNCHANGED <<commands, executed, chunksExecuted, running>>
  PROVE  /\ TheStream' /\ chunk' \in Seq(Command) /\ chunksQueued' \in Seq(Seq(Command))
         /\ emitted' = emitted + 1 /\ chunksDispatched' \in Nat /\ chunksDispatched <= chunksDispatched'
         /\ chunksDispatched' = chunksExecuted + Len(chunksQueued') + (IF running THEN 1 ELSE 0)
         /\ \A i \in 1 .. Len(chunksQueued') : chunksQueued'[i] # <<>>
<1>1. StreamTypes /\ TheStream /\ Counted
  BY DEF StreamInv
<1>2. CASE Len(chunk) < ChunkCap /\ chunk' = Append(chunk, command) /\ UNCHANGED <<chunksQueued, chunksDispatched>>
  <2>1. emitted' = emitted + 1
    BY DEF EmitCs
  <2>2. TheStream'
    BY <2>1, <1>1, <1>2, AppendedStream
  <2> QED
    BY <2>1, <2>2, <1>1, <1>2 DEF StreamTypes, Counted
<1>3. CASE Len(chunk) = ChunkCap /\ Dispatch(chunk) /\ chunk' = <<command>>
  <2>1. emitted' = emitted + 1
    BY DEF EmitCs
  <2>2. PICK last \in Seq(Command) : last = <<command>>
    <3>1. <<command>> \in Seq(Command)
      OBVIOUS
    <3> QED
      BY <3>1
  <2>3. Len(last) = 1 /\ last[1] = command
    BY <2>2
  <2>4. chunk # <<>>
    BY <1>3, ChunkAssumption
  <2>5. \A c \in Command, i \in Nat :
          (\E k \in 1 .. Len(last) : c = last[k] /\ i = emitted + k - 1) => Knows(c, i)'
    <3> SUFFICES ASSUME NEW c \in Command, NEW i \in Nat, NEW k \in 1 .. Len(last),
                        c = last[k], i = emitted + k - 1
                 PROVE Knows(c, i)'
      OBVIOUS
    <3>1. k = 1
      BY <2>3
    <3>2. c = command /\ i = place
      BY <3>1, <2>3, <1>1 DEF StreamTypes
    <3> QED
      BY <3>2
  <2>6. /\ chunksQueued' = Append(chunksQueued, chunk) /\ chunk' = last
        /\ emitted' = emitted + Len(last) /\ chunksDispatched' = chunksDispatched + 1
    BY <2>1, <2>2, <2>3, <1>3 DEF Dispatch
  <2>7. TheStream' /\ chunksQueued' \in Seq(Seq(Command))
    BY <2>4, <2>5, <2>6, <1>1, DispatchedStream
  <2>8. /\ Len(chunksQueued) \in Nat /\ Len(chunksQueued') = Len(chunksQueued) + 1
        /\ chunksQueued'[Len(chunksQueued) + 1] = chunk
        /\ \A i \in 1 .. Len(chunksQueued) : chunksQueued'[i] = chunksQueued[i]
    BY <2>6, <1>1 DEF StreamTypes
  <2>9. \A i \in 1 .. Len(chunksQueued') : chunksQueued'[i] # <<>>
    BY <2>4, <2>8, <1>1 DEF Counted
  <2>10. chunksDispatched' = chunksExecuted + Len(chunksQueued') + (IF running THEN 1 ELSE 0)
    BY <2>6, <2>8, <1>1 DEF Counted, StreamTypes
  <2> QED
    BY <2>1, <2>2, <2>6, <2>7, <2>9, <2>10, <1>1 DEF StreamTypes
<1> QED
  BY <1>2, <1>3 DEF EmitCs

\* The device's chunk is flushed.
LEMMA FlushedStream ==
  ASSUME StreamInv, Remembers, FlushCsChunk,
         UNCHANGED <<commands, executed, emitted, chunksExecuted, running>>
  PROVE  /\ TheStream' /\ chunk' = <<>> /\ chunksQueued' \in Seq(Seq(Command))
         /\ chunksDispatched' \in Nat /\ chunksDispatched <= chunksDispatched'
         /\ chunksDispatched' = chunksExecuted + Len(chunksQueued') + (IF running THEN 1 ELSE 0)
         /\ \A i \in 1 .. Len(chunksQueued') : chunksQueued'[i] # <<>>
<1>1. StreamTypes /\ TheStream /\ Counted /\ chunk' = <<>>
  BY DEF StreamInv, FlushCsChunk
<1>2. CASE chunk = <<>>
  <2>1. UNCHANGED <<chunk, chunksQueued, chunksDispatched>>
    BY <1>1, <1>2 DEF FlushCsChunk
  <2>2. TheStream'
    BY <2>1, <1>1, SameStream
  <2> QED
    BY <2>1, <2>2, <1>1 DEF StreamTypes, Counted
<1>3. CASE chunk # <<>>
  <2>1. PICK last \in Seq(Command) : last = <<>>
    <3>1. <<>> \in Seq(Command)
      OBVIOUS
    <3> QED
      BY <3>1
  <2>2. Len(last) = 0
    BY <2>1
  <2>3. \A c \in Command, i \in Nat :
          (\E k \in 1 .. Len(last) : c = last[k] /\ i = emitted + k - 1) => Knows(c, i)'
    BY <2>2
  <2>4. /\ chunksQueued' = Append(chunksQueued, chunk) /\ chunk' = last
        /\ emitted' = emitted + Len(last) /\ chunksDispatched' = chunksDispatched + 1
    BY <2>1, <2>2, <1>1, <1>3 DEF Dispatch, FlushCsChunk, StreamTypes
  <2>5. TheStream' /\ chunksQueued' \in Seq(Seq(Command))
    BY <2>3, <2>4, <1>1, <1>3, DispatchedStream
  <2>6. /\ Len(chunksQueued) \in Nat /\ Len(chunksQueued') = Len(chunksQueued) + 1
        /\ chunksQueued'[Len(chunksQueued) + 1] = chunk
        /\ \A i \in 1 .. Len(chunksQueued) : chunksQueued'[i] = chunksQueued[i]
    BY <2>4, <1>1 DEF StreamTypes
  <2>7. \A i \in 1 .. Len(chunksQueued') : chunksQueued'[i] # <<>>
    BY <2>6, <1>1, <1>3 DEF Counted
  <2>8. chunksDispatched' = chunksExecuted + Len(chunksQueued') + (IF running THEN 1 ELSE 0)
    BY <2>4, <2>6, <1>1 DEF Counted, StreamTypes
  <2> QED
    BY SMTT(30), <2>4, <2>5, <2>7, <2>8, <1>1 DEF StreamTypes
<1> QED
  BY <1>2, <1>3

\* The bounds through a step that starts no command and applies no marker.
LEMMA BoundsKept ==
  ASSUME StreamInv, Remembers, issued \in Nat, issued' \in Nat, issued <= issued',
         emitted' \in Nat, emitted <= emitted', executed' \in Nat, executed <= executed',
         issued <= MaxBatches,
         \A t \in Thread : ticket'[t] = ticket[t] \/ (\A c, i : c = ticket'[t] /\ i = emitted' => Knows(c, i)'),
         \A b \in 1 .. issued' : emittedAt'[b] <= emitted',
         \A b \in 1 .. issued : emittedAt'[b] = emittedAt[b],
         UNCHANGED <<bound, markerLimit, markersApplied>>,
         csStep' = "drain" => csStep = "drain" /\ commands' = commands
  PROVE  Bounds'
<1>1. Bounds /\ StreamTypes
  BY DEF StreamInv
<1>2. ASSUME NEW t \in Thread, NEW c, NEW i, c = ticket'[t], i = emitted'
      PROVE Knows(c, i)'
  <2>1. CASE ticket'[t] = ticket[t]
    <3>1. PICK j \in Nat : j = emitted
      BY <1>1 DEF StreamTypes
    <3>2. Knows(c, j)
      BY <2>1, <3>1, <1>1, <1>2 DEF Bounds
    <3> QED
      BY <3>1, <3>2, <1>2 DEF Remembers
  <2>2. CASE ticket'[t] # ticket[t]
    BY <2>2, <1>2
  <2> QED
    BY <2>1, <2>2
<1>3. \A t \in Thread : Knows(ticket[t], emitted)'
  BY <1>2 DEF Knows
<1>4. bound \in 0 .. issued' /\ \A b \in 1 .. bound : emittedAt'[b] <= executed'
  <2>1. \A b \in 1 .. bound : b \in 1 .. issued /\ b \in Batch /\ emittedAt[b] <= executed
    BY <1>1, QueueAssumption DEF Bounds, Batch
  <2> QED
    BY <2>1, <1>1 DEF Bounds, StreamTypes
<1> QED
  BY <1>1, <1>3, <1>4 DEF Bounds

-----------------------------------------------------------------------------
(* The command stream through each action *)

\* (pushSceneCommands takes a number.)
LEMMA PushKeepsStream ==
  ASSUME IndInv, NEW t \in Thread, NEW isMarker \in BOOLEAN, Push(t, isMarker)
  PROVE  StreamInv'
<1>1. QueueInv /\ QueueTypes /\ StreamInv /\ StreamTypes
  BY DEF IndInv, QueueInv, StreamInv
<1>2. /\ TakeNumber(t) /\ emittedAt' = [emittedAt EXCEPT ![issued + 1] = emitted]
      /\ ~closing /\ closing' = closing /\ UNCHANGED <<csVars, ticket, drain, popStep>>
  BY DEF Push, TakeNumber, consumer
<1>3. Remembers
  BY <1>1, <1>2, PushRemembers DEF StreamTypes
<1>4. UNCHANGED <<chunk, chunksQueued, chunksDispatched, deviceLock, waitsFor, asleep, csStep, running,
                  commands, chunksExecuted, executed, stopped, emitted>>
  BY <1>2 DEF csVars, stream, syncing, execution
<1>5. UNCHANGED <<bound, markerLimit, markersApplied>>
  BY <1>2 DEF drain
<1>6. StreamTypes'
  BY <1>1, <1>2, <1>4 DEF StreamTypes
<1>7. TheStream'
  BY <1>1, <1>3, <1>4, SameStream DEF StreamInv
<1>8. Counted'
  BY <1>1, <1>2, <1>4 DEF StreamInv, Counted
<1>9. Locks'
  <2>1. step[t] = "idle" /\ step'[t] = "exchange" /\ \A u \in Thread : u # t => step'[u] = step[u]
    BY <1>1, <1>2 DEF TakeNumber, Goes, QueueTypes
  <2> QED
    BY <2>1, <1>1, <1>2, <1>4 DEF StreamInv, Locks, AllExecuted
<1>10. Bounds'
  <2>1. issued \in Nat /\ issued' = issued + 1 /\ issued <= MaxBatches /\ issued + 1 \in Batch
    BY <1>1, <1>2, QueueAssumption DEF QueueTypes, TakeNumber, Batch
  <2>2. \A b \in 1 .. issued : b # issued + 1 /\ emittedAt'[b] = emittedAt[b] /\ emittedAt[b] <= emitted
    <3>1. \A b \in 1 .. issued : b \in Batch /\ b # issued + 1
      BY <2>1, QueueAssumption DEF Batch
    <3>2. \A b \in 1 .. issued : emittedAt'[b] = emittedAt[b]
      BY <3>1, <1>1, <1>2 DEF StreamTypes
    <3> QED
      BY <3>1, <3>2, <1>1 DEF StreamInv, Bounds
  <2>3. emittedAt'[issued + 1] = emitted /\ emitted \in Nat /\ executed \in Nat
    BY <2>1, <1>1, <1>2 DEF StreamTypes
  <2>4. \A b \in 1 .. issued' : emittedAt'[b] <= emitted'
    BY <2>1, <2>2, <2>3, <1>4
  <2>5. ticket' = ticket
    BY <1>2
  <2> QED
    BY <2>1, <2>2, <2>3, <2>4, <2>5, <1>1, <1>3, <1>4, <1>5, BoundsKept
<1> QED
  BY <1>6, <1>7, <1>8, <1>9, <1>10 DEF StreamInv

\* (Its other two stores.)
LEMMA PushGoesOnKeepsStream ==
  ASSUME IndInv, NEW t \in Thread, PushGoesOn(t)
  PROVE  StreamInv'
<1>1. QueueInv /\ QueueTypes /\ StreamInv /\ StreamTypes
  BY DEF IndInv, QueueInv, StreamInv
<1>2. PICK to \in {"lock", "idle"} : Exchange(t) \/ Link(t, to)
  BY DEF PushGoesOn
<1>3. UNCHANGED <<csVars, calls, drain, popStep, issued>>
  BY <1>2 DEF PushGoesOn, Exchange, Link, consumer
<1>4. Remembers
  BY <1>1, <1>2, <1>3, PushRemembers DEF StreamTypes, calls
<1>5. UNCHANGED <<chunk, chunksQueued, chunksDispatched, deviceLock, waitsFor, asleep, csStep, running,
                  commands, chunksExecuted, executed, stopped, emitted>>
  BY <1>3 DEF csVars, stream, syncing, execution
<1>6. UNCHANGED <<bound, markerLimit, markersApplied, ticket, emittedAt, closing>>
  BY <1>3 DEF drain, calls
<1>7. StreamTypes'
  BY <1>1, <1>5, <1>6 DEF StreamTypes
<1>8. TheStream'
  BY <1>1, <1>4, <1>5, SameStream DEF StreamInv
<1>9. Counted'
  BY <1>1, <1>3, <1>5 DEF StreamInv, Counted
<1>10. Locks'
  <2>1. /\ step[t] \in {"exchange", "link"} /\ step'[t] \in {"link", "lock", "idle"}
        /\ \A u \in Thread : u # t => step'[u] = step[u]
    BY <1>1, <1>2 DEF Exchange, Link, Goes, QueueTypes
  <2> QED
    BY <2>1, <1>1, <1>5, <1>6 DEF StreamInv, Locks, AllExecuted
<1>11. Bounds'
  <2>1. issued \in Nat /\ issued' = issued /\ issued <= MaxBatches
    BY <1>1, <1>3, QueueAssumption DEF QueueTypes
  <2>2. \A b \in 1 .. issued : emittedAt'[b] = emittedAt[b] /\ emittedAt'[b] <= emitted'
    BY <1>1, <1>5, <1>6 DEF StreamInv, Bounds
  <2>3. emitted \in Nat /\ executed \in Nat
    BY <1>1 DEF StreamTypes
  <2> QED
    BY <2>1, <2>2, <2>3, <1>1, <1>4, <1>5, <1>6, BoundsKept
<1> QED
  BY <1>7, <1>8, <1>9, <1>10, <1>11 DEF StreamInv

\* What a call knows that takes its bound now.
LEMMA TicketKnows ==
  ASSUME IndInv, NEW c, NEW i, c.bound = issued, c.queued = Returned, i = emitted
  PROVE  Knows(c, i) /\ Returned \in SUBSET Batch
<1>1. QueueTypes /\ Numbered /\ Bounds
  BY DEF IndInv, QueueInv, StreamInv
<1>2. issued \in Nat /\ issued <= MaxBatches
  BY <1>1, QueueAssumption DEF QueueTypes
<1>3. \A b \in Returned : b \in 1 .. issued /\ \A t \in Thread : pushing[t] # b
  BY DEF Returned
<1>4. \A b \in Returned : \E k \in 1 .. Len(order) : order[k] = b
  BY <1>1, <1>3 DEF Numbered
<1>5. \A b \in 1 .. issued : emittedAt[b] <= emitted
  BY <1>1 DEF Bounds
<1> QED
  BY <1>2, <1>3, <1>4, <1>5, QueueAssumption DEF Knows, Batch

\* (A call takes s_mutex and its bound.)
LEMMA LockApiKeepsStream ==
  ASSUME IndInv, NEW t \in Thread, LockApi(t)
  PROVE  StreamInv'
<1>1. QueueInv /\ QueueTypes /\ StreamInv /\ StreamTypes
  BY DEF IndInv, QueueInv, StreamInv
<1>2. /\ ticket' = [ticket EXCEPT ![t] = [bound |-> issued, queued |-> Returned]]
      /\ UNCHANGED <<popStep, issued, order, pushing, csVars, emittedAt, closing, drain>>
  BY DEF LockApi, consumer
<1>3. issued \in Nat /\ issued <= MaxBatches
  BY <1>1, QueueAssumption DEF QueueTypes
<1>4. Remembers
  BY <1>1, <1>2, <1>3, UnchangedRemembers DEF StreamTypes
<1>5. UNCHANGED <<chunk, chunksQueued, chunksDispatched, deviceLock, waitsFor, asleep, csStep, running,
                  commands, chunksExecuted, executed, stopped, emitted>>
  BY <1>2 DEF csVars, stream, syncing, execution
<1>6. UNCHANGED <<bound, markerLimit, markersApplied>>
  BY <1>2 DEF drain
<1>7. PICK mine \in [bound : Nat, queued : SUBSET Batch] : mine = [bound |-> issued, queued |-> Returned]
  <2>1. Returned \in SUBSET Batch
    BY <1>3, QueueAssumption DEF Returned, Batch
  <2>2. [bound |-> issued, queued |-> Returned] \in [bound : Nat, queued : SUBSET Batch]
    BY <2>1, <1>3
  <2> QED
    BY <2>2
<1>8. ticket' \in [Thread -> [bound : Nat, queued : SUBSET Batch]] /\ ticket'[t] = mine
      /\ \A u \in Thread : u # t => ticket'[u] = ticket[u]
  BY <1>1, <1>2, <1>7 DEF StreamTypes
<1>9. StreamTypes'
  BY <1>1, <1>2, <1>5, <1>8 DEF StreamTypes
<1>10. TheStream'
  BY <1>1, <1>4, <1>5, SameStream DEF StreamInv
<1>11. Counted'
  BY <1>1, <1>2, <1>5 DEF StreamInv, Counted
<1>12. Locks'
  <2>1. /\ step[t] \in {"lock", "idle"} /\ step'[t] = "emit" /\ ~closing
        /\ \A u \in Thread : u # t => step'[u] = step[u]
    BY <1>1 DEF LockApi, Goes, QueueTypes, StreamInv, Locks
  <2> QED
    BY <2>1, <1>1, <1>2, <1>5 DEF StreamInv, Locks, AllExecuted
<1>13. Bounds'
  <2>1. \A b \in 1 .. issued : emittedAt'[b] = emittedAt[b] /\ emittedAt'[b] <= emitted'
    BY <1>1, <1>2, <1>5 DEF StreamInv, Bounds
  <2>2. emitted \in Nat /\ executed \in Nat
    BY <1>1 DEF StreamTypes
  <2>3. ASSUME NEW u \in Thread, NEW c, NEW i, c = ticket'[u], i = emitted', u = t
        PROVE Knows(c, i)'
    <3>1. c.bound = issued /\ c.queued = Returned /\ i = emitted
      BY <2>3, <1>5, <1>7, <1>8
    <3>2. Knows(c, i)
      BY <3>1, TicketKnows
    <3>3. i \in Nat
      BY <3>1, <2>2
    <3> QED
      BY <3>2, <3>3, <1>4 DEF Remembers
  <2>4. \A u \in Thread : ticket'[u] = ticket[u] \/ (\A c, i : c = ticket'[u] /\ i = emitted' => Knows(c, i)')
    BY <2>3, <1>8
  <2> QED
    BY <2>1, <2>2, <2>4, <1>1, <1>2, <1>3, <1>4, <1>5, <1>6, BoundsKept
<1> QED
  BY <1>9, <1>10, <1>11, <1>12, <1>13 DEF StreamInv

\* (A call emits its command and lets s_mutex go.)
LEMMA EmitDrainKeepsStream ==
  ASSUME IndInv, NEW t \in Thread, EmitDrain(t)
  PROVE  StreamInv'
<1>1. QueueInv /\ QueueTypes /\ StreamInv /\ StreamTypes
  BY DEF IndInv, QueueInv, StreamInv
<1>2. PICK kind \in {"draw", "destroy"} :
        EmitCs([kind |-> kind, bound |-> ticket[t].bound, queued |-> ticket[t].queued])
  BY DEF EmitDrain
<1>3. /\ step[t] = "emit" /\ step' = [step EXCEPT ![t] = "idle"]
      /\ ticket' = [ticket EXCEPT ![t] = NoTicket]
      /\ UNCHANGED <<popStep, issued, order, pushing, syncing, execution, stopped, emittedAt, closing, drain>>
  BY DEF EmitDrain, Goes, consumer
<1>4. PICK command \in Command :
        command = [kind |-> kind, bound |-> ticket[t].bound, queued |-> ticket[t].queued]
  <2>1. [kind |-> kind, bound |-> ticket[t].bound, queued |-> ticket[t].queued] \in Command
    BY <1>1 DEF StreamTypes, Command
  <2> QED
    BY <2>1
<1>5. issued \in Nat /\ issued <= MaxBatches
  BY <1>1, QueueAssumption DEF QueueTypes
<1>6. Remembers
  BY <1>1, <1>3, <1>5, UnchangedRemembers DEF StreamTypes
<1>7. PICK place \in Nat : place = emitted
  BY <1>1 DEF StreamTypes
<1>8. Knows(command, place)'
  <2>1. Knows(ticket[t], place)
    BY <1>1, <1>7 DEF StreamInv, Bounds
  <2>2. Knows(command, place)
    BY <2>1, <1>4 DEF Knows
  <2> QED
    BY <2>2, <1>6 DEF Remembers
<1>9. UNCHANGED <<commands, executed, chunksExecuted, running, csStep, deviceLock, waitsFor, asleep>>
  BY <1>3 DEF syncing, execution
<1>10. EmitCs(command)
  BY <1>2, <1>4
<1>11. /\ TheStream' /\ chunk' \in Seq(Command) /\ chunksQueued' \in Seq(Seq(Command))
       /\ emitted' = emitted + 1 /\ chunksDispatched' \in Nat /\ chunksDispatched <= chunksDispatched'
       /\ chunksDispatched' = chunksExecuted + Len(chunksQueued') + (IF running THEN 1 ELSE 0)
       /\ \A i \in 1 .. Len(chunksQueued') : chunksQueued'[i] # <<>>
  BY <1>1, <1>6, <1>7, <1>8, <1>9, <1>10, EmittedStream
<1>12. ticket' \in [Thread -> [bound : Nat, queued : SUBSET Batch]]
  <2>1. NoTicket \in [bound : Nat, queued : SUBSET Batch]
    BY DEF NoTicket
  <2> QED
    BY <2>1, <1>1, <1>3 DEF StreamTypes
<1>13. StreamTypes'
  <2>1. \A u \in Thread : waitsFor'[u] <= chunksDispatched'
    BY <1>1, <1>9, <1>11 DEF StreamTypes
  <2> QED
    <3>1. {emitted', executed', chunksExecuted', chunksDispatched'} \subseteq Nat
      BY SMTT(30), <1>1, <1>9, <1>11 DEF StreamTypes
    <3>2. /\ running' \in BOOLEAN /\ stopped' \in BOOLEAN /\ closing' \in BOOLEAN
          /\ csStep' \in {"loop", "wait", "run", "drain", "ended"}
          /\ deviceLock' \in Thread \union {NoThread} /\ asleep' \subseteq Thread
      BY <1>1, <1>3, <1>9 DEF StreamTypes
    <3>3. commands' \in Seq(Command) /\ emittedAt' \in [Batch -> Nat] /\ waitsFor' \in [Thread -> Nat]
      BY <1>1, <1>3, <1>9 DEF StreamTypes
    <3> QED
      BY <2>1, <3>1, <3>2, <3>3, <1>11, <1>12 DEF StreamTypes
<1>14. Counted'
  BY <1>1, <1>3, <1>9, <1>11 DEF StreamInv, Counted
<1>15. Locks'
  <2>1. deviceLock = NoThread /\ step'[t] = "idle" /\ \A u \in Thread : u # t => step'[u] = step[u]
    BY <1>1, <1>3, <1>10 DEF EmitCs, QueueTypes
  <2>2. ~closing
    BY <1>1, <1>3 DEF StreamInv, Locks
  <2> QED
    BY <2>1, <2>2, <1>1, <1>3, <1>9 DEF StreamInv, Locks
<1>16. Bounds'
  <2>1. \A b \in 1 .. issued : emittedAt'[b] = emittedAt[b] /\ b \in Batch /\ emittedAt[b] <= emitted
    BY <1>1, <1>3, <1>5, QueueAssumption DEF StreamInv, Bounds, Batch
  <2>2. emitted \in Nat /\ executed \in Nat /\ \A b \in Batch : emittedAt[b] \in Nat
    BY <1>1 DEF StreamTypes
  <2>3. \A b \in 1 .. issued : emittedAt'[b] <= emitted'
    BY <2>1, <2>2, <1>11
  <2>4. ASSUME NEW u \in Thread, NEW c, NEW i, c = ticket'[u], i = emitted', u = t
        PROVE Knows(c, i)'
    <3>1. c = NoTicket
      BY <2>4, <1>1, <1>3 DEF StreamTypes
    <3> QED
      BY <3>1, <1>3, <1>5 DEF Knows, NoTicket
  <2>5. \A u \in Thread : ticket'[u] = ticket[u] \/ (\A c, i : c = ticket'[u] /\ i = emitted' => Knows(c, i)')
    BY <2>4, <1>1, <1>3 DEF StreamTypes
  <2>6. UNCHANGED <<bound, markerLimit, markersApplied>>
    BY <1>3 DEF drain
  <2> QED
    BY <2>1, <2>2, <2>3, <2>5, <2>6, <1>1, <1>3, <1>5, <1>6, <1>9, <1>11, BoundsKept
<1> QED
  BY <1>11, <1>13, <1>14, <1>15, <1>16 DEF StreamInv

\* (The injection of a Present.)
LEMMA PresentKeepsStream ==
  ASSUME IndInv, NEW t \in Thread, Present(t)
  PROVE  StreamInv'
<1>1. QueueInv /\ QueueTypes /\ StreamInv /\ StreamTypes
  BY DEF IndInv, QueueInv, StreamInv
<1>2. EmitCs([kind |-> "present", bound |-> issued, queued |-> Returned])
  BY DEF Present
<1>3. /\ ~closing
      /\ UNCHANGED <<step, popStep, issued, order, pushing, syncing, execution, stopped, emittedAt,
                     ticket, closing, drain>>
  BY DEF Present, queueVars, producer, consumer, calls
<1>4. issued \in Nat /\ issued <= MaxBatches
  BY <1>1, QueueAssumption DEF QueueTypes
<1>5. Remembers
  BY <1>1, <1>3, <1>4, UnchangedRemembers DEF StreamTypes
<1>6. PICK command \in Command : command = [kind |-> "present", bound |-> issued, queued |-> Returned]
  <2>1. Returned \in SUBSET Batch
    BY <1>4, QueueAssumption DEF Returned, Batch
  <2>2. [kind |-> "present", bound |-> issued, queued |-> Returned] \in Command
    BY <2>1, <1>4 DEF Command
  <2> QED
    BY <2>2
<1>7. PICK place \in Nat : place = emitted
  BY <1>1 DEF StreamTypes
<1>8. Knows(command, place)'
  <2>1. Knows(command, place)
    BY <1>6, <1>7, TicketKnows
  <2> QED
    BY <2>1, <1>5 DEF Remembers
<1>9. UNCHANGED <<commands, executed, chunksExecuted, running, csStep, deviceLock, waitsFor, asleep>>
  BY <1>3 DEF syncing, execution
<1>10. EmitCs(command)
  BY <1>2, <1>6
<1>11. /\ TheStream' /\ chunk' \in Seq(Command) /\ chunksQueued' \in Seq(Seq(Command))
       /\ emitted' = emitted + 1 /\ chunksDispatched' \in Nat /\ chunksDispatched <= chunksDispatched'
       /\ chunksDispatched' = chunksExecuted + Len(chunksQueued') + (IF running THEN 1 ELSE 0)
       /\ \A i \in 1 .. Len(chunksQueued') : chunksQueued'[i] # <<>>
  BY <1>1, <1>5, <1>7, <1>8, <1>9, <1>10, EmittedStream
<1>12. StreamTypes'
  <2>1. {emitted', executed', chunksExecuted', chunksDispatched'} \subseteq Nat
    BY SMTT(30), <1>1, <1>9, <1>11 DEF StreamTypes
  <2>2. /\ running' \in BOOLEAN /\ stopped' \in BOOLEAN /\ closing' \in BOOLEAN
        /\ csStep' \in {"loop", "wait", "run", "drain", "ended"}
        /\ deviceLock' \in Thread \union {NoThread} /\ asleep' \subseteq Thread
    BY <1>1, <1>3, <1>9 DEF StreamTypes
  <2>3. /\ commands' \in Seq(Command) /\ emittedAt' \in [Batch -> Nat] /\ waitsFor' \in [Thread -> Nat]
        /\ ticket' \in [Thread -> [bound : Nat, queued : SUBSET Batch]]
    BY <1>1, <1>3, <1>9 DEF StreamTypes
  <2>4. \A u \in Thread : waitsFor'[u] <= chunksDispatched'
    <3>1. \A u \in Thread : waitsFor'[u] \in Nat /\ waitsFor'[u] <= chunksDispatched
      BY <1>1, <1>9 DEF StreamTypes
    <3>2. chunksDispatched \in Nat
      BY <1>1 DEF StreamTypes
    <3> QED
      BY <3>1, <3>2, <1>11
  <2> QED
    BY <2>1, <2>2, <2>3, <2>4, <1>11 DEF StreamTypes
<1>13. Counted'
  BY <1>1, <1>3, <1>9, <1>11 DEF StreamInv, Counted
<1>14. Locks'
  <2>1. deviceLock = NoThread
    BY <1>10 DEF EmitCs
  <2> QED
    BY <2>1, <1>1, <1>3, <1>9 DEF StreamInv, Locks
<1>15. Bounds'
  <2>1. \A b \in 1 .. issued : emittedAt'[b] = emittedAt[b] /\ b \in Batch /\ emittedAt[b] <= emitted
    BY <1>1, <1>3, <1>4, QueueAssumption DEF StreamInv, Bounds, Batch
  <2>2. emitted \in Nat /\ executed \in Nat /\ \A b \in Batch : emittedAt[b] \in Nat
    BY <1>1 DEF StreamTypes
  <2>3. \A b \in 1 .. issued : emittedAt'[b] <= emitted'
    BY <2>1, <2>2, <1>11
  <2>4. UNCHANGED <<bound, markerLimit, markersApplied, ticket>>
    BY <1>3 DEF drain
  <2> QED
    BY <2>1, <2>2, <2>3, <2>4, <1>1, <1>3, <1>4, <1>5, <1>9, <1>11, BoundsKept
<1> QED
  BY <1>11, <1>12, <1>13, <1>14, <1>15 DEF StreamInv

\* (SynchronizeCsThread takes the device lock and flushes the chunk.)
LEMMA SynchronizeKeepsStream ==
  ASSUME IndInv, NEW t \in Thread, NEW destroys \in BOOLEAN, Synchronize(t, destroys)
  PROVE  StreamInv'
<1>1. QueueInv /\ QueueTypes /\ StreamInv /\ StreamTypes
  BY DEF IndInv, QueueInv, StreamInv
<1>2. /\ ~closing /\ closing' = destroys /\ (destroys => \A u \in Thread : step[u] = "idle")
      /\ step[t] = "idle" /\ step' = [step EXCEPT ![t] = "synchronize"]
      /\ deviceLock = NoThread /\ deviceLock' = t /\ FlushCsChunk
      /\ waitsFor' = [waitsFor EXCEPT ![t] = chunksDispatched']
      /\ UNCHANGED <<popStep, issued, order, pushing, asleep, execution, stopped, emitted, emittedAt, ticket, drain>>
  BY DEF Synchronize, SynchronizeCsThread, Goes, consumer
<1>3. issued \in Nat /\ issued <= MaxBatches
  BY <1>1, QueueAssumption DEF QueueTypes
<1>4. Remembers
  BY <1>1, <1>2, <1>3, UnchangedRemembers DEF StreamTypes
<1>5. UNCHANGED <<commands, executed, chunksExecuted, running, csStep>>
  BY <1>2 DEF execution
<1>6. /\ TheStream' /\ chunk' = <<>> /\ chunksQueued' \in Seq(Seq(Command))
      /\ chunksDispatched' \in Nat /\ chunksDispatched <= chunksDispatched'
      /\ chunksDispatched' = chunksExecuted + Len(chunksQueued') + (IF running THEN 1 ELSE 0)
      /\ \A i \in 1 .. Len(chunksQueued') : chunksQueued'[i] # <<>>
  BY <1>1, <1>2, <1>4, <1>5, FlushedStream
<1>7. chunk' \in Seq(Command)
  <2>1. <<>> \in Seq(Command)
    OBVIOUS
  <2> QED
    BY <2>1, <1>6
<1>8. /\ waitsFor' \in [Thread -> Nat] /\ waitsFor'[t] = chunksDispatched'
      /\ \A u \in Thread : u # t => waitsFor'[u] = waitsFor[u]
  BY <1>1, <1>2, <1>6 DEF StreamTypes
<1>9. StreamTypes'
  <2>1. \A u \in Thread : waitsFor'[u] <= chunksDispatched'
    <3>1. \A u \in Thread : waitsFor[u] \in Nat /\ waitsFor[u] <= chunksDispatched
      BY <1>1 DEF StreamTypes
    <3>2. chunksDispatched \in Nat
      BY <1>1 DEF StreamTypes
    <3>3. \A u \in Thread : u # t => waitsFor'[u] <= chunksDispatched'
      BY <3>1, <3>2, <1>6, <1>8
    <3> QED
      BY <3>3, <1>6, <1>8
  <2> QED
    BY <2>1, <1>1, <1>2, <1>5, <1>6, <1>7, <1>8 DEF StreamTypes
<1>10. Counted'
  BY <1>1, <1>2, <1>5, <1>6 DEF StreamInv, Counted
<1>11. Locks'
  <2>1. step'[t] = "synchronize" /\ \A u \in Thread : u # t => step'[u] = step[u]
    BY <1>1, <1>2 DEF QueueTypes
  <2>2. \A u \in Thread : u # t => step[u] \notin {"synchronize", "stop"}
    BY <1>1, <1>2, SceneAssumption DEF StreamInv, Locks
  <2>3. t # NoThread /\ ~stopped
    BY <1>1, <1>2, SceneAssumption DEF StreamInv, Locks
  <2>4. \A u \in Thread : deviceLock' = u <=> step'[u] = "synchronize"
    BY <2>1, <2>2, <1>2
  <2>5. \A u \in Thread : step'[u] # "stop"
    BY <2>1, <2>2
  <2> QED
    BY <2>1, <2>3, <2>4, <2>5, <1>2, <1>6, <1>8 DEF Locks
<1>12. Bounds'
  <2>1. \A b \in 1 .. issued : emittedAt'[b] = emittedAt[b] /\ emittedAt'[b] <= emitted'
    BY <1>1, <1>2 DEF StreamInv, Bounds
  <2>2. emitted \in Nat /\ executed \in Nat
    BY <1>1 DEF StreamTypes
  <2>3. UNCHANGED <<bound, markerLimit, markersApplied>>
    BY <1>2 DEF drain
  <2> QED
    BY <2>1, <2>2, <2>3, <1>1, <1>2, <1>3, <1>4, <1>5, BoundsKept
<1> QED
  BY <1>6, <1>9, <1>10, <1>11, <1>12 DEF StreamInv

\* A step that leaves the stream, the bounds and the threads' locks to one proof each.
LEMMA CalmKeepsStream ==
  ASSUME IndInv, Locks', StreamTypes',
         UNCHANGED <<issued, order, pushing, emittedAt, ticket, chunk, chunksQueued, chunksDispatched,
                     chunksExecuted, running, csStep, commands, emitted, executed, popStep, drain>>
  PROVE  StreamInv'
<1>1. QueueInv /\ QueueTypes /\ StreamInv /\ StreamTypes
  BY DEF IndInv, QueueInv, StreamInv
<1>2. issued \in Nat /\ issued <= MaxBatches
  BY <1>1, QueueAssumption DEF QueueTypes
<1>3. Remembers
  BY <1>1, <1>2, UnchangedRemembers DEF StreamTypes
<1>4. TheStream'
  BY <1>1, <1>3, SameStream DEF StreamInv
<1>5. Counted'
  BY <1>1 DEF StreamInv, Counted
<1>6. Bounds'
  BY <1>1 DEF StreamInv, Bounds, Knows, drain
<1> QED
  BY <1>4, <1>5, <1>6 DEF StreamInv

\* (The wait in synchronize.)
LEMMA WaitsKeepsStream ==
  ASSUME IndInv, NEW t \in Thread, Waits(t)
  PROVE  StreamInv'
<1>1. StreamInv /\ StreamTypes /\ Locks
  BY DEF IndInv, StreamInv
<1>2. /\ asleep' = asleep \union {t}
      /\ UNCHANGED <<queueVars, calls, drain, deviceLock, waitsFor, stream, execution, stopped, emitted>>
  BY DEF Waits, Sleep
<1>3. UNCHANGED <<issued, order, pushing, emittedAt, ticket, chunk, chunksQueued, chunksDispatched,
                  chunksExecuted, running, csStep, commands, emitted, executed, popStep, drain,
                  step, closing, stopped, deviceLock, waitsFor>>
  BY <1>2 DEF queueVars, producer, consumer, calls, stream, execution
<1>4. Locks'
  BY <1>1, <1>3 DEF Locks, AllExecuted
<1>5. StreamTypes'
  BY <1>1, <1>2, <1>3 DEF StreamTypes
<1> QED
  BY <1>3, <1>4, <1>5, CalmKeepsStream

\* When the wait is over, every command emitted so far is executed.
LEMMA WaitIsOver ==
  ASSUME IndInv, NEW t \in Thread, step[t] = "synchronize", chunksExecuted >= waitsFor[t]
  PROVE  AllExecuted
<1>1. StreamTypes /\ Locks /\ Counted
  BY DEF IndInv, StreamInv
<1>2. deviceLock = t /\ t # NoThread
  BY <1>1, SceneAssumption DEF Locks
<1>3. chunk = <<>> /\ chunksExecuted >= chunksDispatched
  BY <1>1, <1>2 DEF Locks
<1>4. Len(chunksQueued) = 0 /\ ~running
  <2>1. Len(chunksQueued) \in Nat /\ chunksExecuted \in Nat
    BY <1>1 DEF StreamTypes
  <2> QED
    BY <2>1, <1>1, <1>3 DEF Counted, StreamTypes
<1>5. chunksQueued = <<>>
  BY <1>1, <1>4 DEF StreamTypes
<1> QED
  BY <1>3, <1>4, <1>5 DEF AllExecuted

\* (Its end.)
LEMMA ReturnsKeepsStream ==
  ASSUME IndInv, NEW t \in Thread, Returns(t)
  PROVE  StreamInv'
<1>1. StreamInv /\ StreamTypes /\ Locks /\ QueueTypes
  BY DEF IndInv, StreamInv, QueueInv
<1>2. /\ deviceLock' = NoThread /\ waitsFor' = [waitsFor EXCEPT ![t] = 0]
      /\ step[t] = "synchronize" /\ step' = [step EXCEPT ![t] = IF closing THEN "stop" ELSE "idle"]
      /\ chunksExecuted >= waitsFor[t]
      /\ UNCHANGED <<asleep, consumer, order, issued, pushing, calls, drain, stream, execution, stopped, emitted>>
  BY DEF Returns, Synchronized, Goes
<1>3. UNCHANGED <<issued, order, pushing, emittedAt, ticket, chunk, chunksQueued, chunksDispatched,
                  chunksExecuted, running, csStep, commands, emitted, executed, popStep, drain,
                  closing, stopped, asleep>>
  BY <1>2 DEF consumer, calls, stream, execution
<1>4. AllExecuted
  BY <1>2, WaitIsOver
<1>5. /\ step'[t] = IF closing THEN "stop" ELSE "idle"
      /\ \A u \in Thread : u # t => step'[u] = step[u]
  BY <1>1, <1>2 DEF QueueTypes
<1>6. deviceLock = t /\ t # NoThread /\ \A u \in Thread : u # NoThread
  BY <1>1, <1>2, SceneAssumption DEF Locks
<1>7. \A u \in Thread : step'[u] # "synchronize"
  BY <1>1, <1>5, <1>6 DEF Locks
<1>8. Locks'
  BY <1>1, <1>2, <1>3, <1>4, <1>5, <1>6, <1>7 DEF Locks, AllExecuted
<1>9. StreamTypes'
  BY <1>1, <1>2, <1>3 DEF StreamTypes
<1> QED
  BY <1>3, <1>8, <1>9, CalmKeepsStream

\* (The device's destructor stops the command stream thread.)
LEMMA StopKeepsStream ==
  ASSUME IndInv, NEW t \in Thread, StopThread(t)
  PROVE  StreamInv'
<1>1. StreamInv /\ StreamTypes /\ Locks /\ QueueTypes
  BY DEF IndInv, StreamInv, QueueInv
<1>2. /\ stopped' = TRUE /\ step[t] = "stop" /\ step' = [step EXCEPT ![t] = "gone"]
      /\ UNCHANGED <<consumer, order, issued, pushing, calls, drain, stream, syncing, execution, emitted>>
  BY DEF StopThread, Stop, Goes
<1>3. UNCHANGED <<issued, order, pushing, emittedAt, ticket, chunk, chunksQueued, chunksDispatched,
                  chunksExecuted, running, csStep, commands, emitted, executed, popStep, drain,
                  closing, asleep, deviceLock, waitsFor>>
  BY <1>2 DEF consumer, calls, stream, execution, syncing
<1>4. AllExecuted /\ closing
  BY <1>1, <1>2 DEF Locks
<1>5. step'[t] = "gone" /\ \A u \in Thread : u # t => step'[u] = step[u]
  BY <1>1, <1>2 DEF QueueTypes
<1>6. Locks'
  BY <1>1, <1>2, <1>3, <1>4, <1>5 DEF Locks, AllExecuted
<1>7. StreamTypes'
  BY <1>1, <1>2, <1>3 DEF StreamTypes
<1> QED
  BY <1>3, <1>6, <1>7, CalmKeepsStream

\* (A drain takes the bound of its command.)
LEMMA DrainBeginsKeepsStream ==
  ASSUME IndInv, DrainBegins
  PROVE  StreamInv'
<1>1. QueueInv /\ QueueTypes /\ StreamInv /\ StreamTypes /\ TheStream /\ Counted /\ Bounds /\ Locks
  BY DEF IndInv, QueueInv, StreamInv
<1>2. /\ csStep = "run" /\ csStep' = "drain"
      /\ bound' = IF Head(commands).bound > bound THEN Head(commands).bound ELSE bound
      /\ popStep' \in {"load", "found"}
      /\ UNCHANGED <<step, issued, order, pushing, chunk, chunksQueued, chunksDispatched, deviceLock, waitsFor,
                     asleep, running, commands, chunksExecuted, executed, stopped, emitted, ticket,
                     emittedAt, closing>>
  BY DEF DrainBegins, producer, stream, syncing, calls
<1>3. issued \in Nat /\ issued <= MaxBatches
  BY <1>1, QueueAssumption DEF QueueTypes
<1>4. Remembers
  BY <1>1, <1>2, <1>3, UnchangedRemembers DEF StreamTypes
<1>5. StreamTypes'
  BY <1>1, <1>2 DEF StreamTypes
<1>6. TheStream'
  BY <1>1, <1>2, <1>4, SameStream
<1>7. Counted'
  BY <1>1, <1>2 DEF Counted
<1>8. Locks'
  BY <1>1, <1>2 DEF Locks, AllExecuted
<1>9. commands # <<>> /\ Head(commands) = commands[1] /\ commands[1] \in Command /\ 1 \in 1 .. Len(commands)
  BY <1>1, <1>2 DEF Counted, StreamTypes
<1>10. PICK from \in [1 .. Len(chunksQueued) + 1 -> Nat] : Streamed(from)
  BY <1>1 DEF TheStream
<1>11. Knows(Head(commands), executed)
  <2>1. Placed(from, Head(commands), executed) /\ executed \in Nat
    BY <1>1, <1>9 DEF Placed, StreamTypes
  <2> QED
    BY <2>1, <1>9, <1>10 DEF Streamed
<1>12. bound' \in 0 .. issued /\ (\A b \in 1 .. bound' : emittedAt[b] <= executed) /\ Head(commands).bound <= bound'
  BY <1>1, <1>2, <1>3, <1>11 DEF Knows, Bounds
<1>13. \A t \in Thread : Knows(ticket[t], emitted)'
  BY <1>1, <1>2 DEF Bounds, Knows
<1>14. markerLimit' \in {1, 2} /\ markersApplied' \in 0 .. markerLimit'
  BY <1>1 DEF Bounds, DrainBegins
<1>15. Bounds'
  BY <1>1, <1>2, <1>12, <1>13, <1>14 DEF Bounds
<1> QED
  BY <1>5, <1>6, <1>7, <1>8, <1>15 DEF StreamInv

\* (Pops and applies, in the course of a drain.)
LEMMA DrainGoesOnKeepsStream ==
  ASSUME IndInv, Pops \/ Applies
  PROVE  StreamInv'
<1>1. QueueInv /\ QueueTypes /\ StreamInv /\ StreamTypes /\ TheStream /\ Counted /\ Bounds /\ Locks
  BY DEF IndInv, QueueInv, StreamInv
<1>2. /\ UNCHANGED <<csVars, calls, bound, step, issued, pushing, order>>
      /\ popStep # "done" /\ popStep' # "done"
  <2>1. CASE Pops
    BY <2>1 DEF Pops, PopBatch, LoadNext, TestHead, ExchangeStub, LinkStub, LoadAgain, Takes, producer, drain
  <2>2. CASE Applies
    BY <2>2 DEF Applies, producer
  <2> QED
    BY <2>1, <2>2
<1>3. UNCHANGED <<chunk, chunksQueued, chunksDispatched, deviceLock, waitsFor, asleep, csStep, running,
                  commands, chunksExecuted, executed, stopped, emitted, ticket, emittedAt, closing>>
  BY <1>2 DEF csVars, stream, syncing, execution, calls
<1>4. issued \in Nat /\ issued <= MaxBatches
  BY <1>1, QueueAssumption DEF QueueTypes
<1>5. Remembers
  BY <1>1, <1>2, <1>3, <1>4, UnchangedRemembers DEF StreamTypes
<1>6. StreamTypes'
  BY <1>1, <1>3 DEF StreamTypes
<1>7. TheStream'
  BY <1>1, <1>3, <1>5, SameStream
<1>8. Counted'
  BY <1>1, <1>2, <1>3 DEF Counted
<1>9. Locks'
  BY <1>1, <1>2, <1>3 DEF Locks, AllExecuted
<1>10. markerLimit' \in {1, 2} /\ markersApplied' \in 0 .. markerLimit'
  <2>1. CASE Pops
    BY <2>1, <1>1 DEF Bounds, Pops, drain
  <2>2. CASE Applies
    BY <2>2, <1>1 DEF Bounds, Applies, Ready
  <2> QED
    BY <2>1, <2>2
<1>11. Bounds'
  BY <1>1, <1>2, <1>3, <1>10 DEF Bounds, Knows
<1> QED
  BY <1>6, <1>7, <1>8, <1>9, <1>11 DEF StreamInv

\* (The end of a drain and of its command.)
LEMMA DrainEndsKeepsStream ==
  ASSUME IndInv, DrainEnds
  PROVE  StreamInv'
<1>1. QueueInv /\ QueueTypes /\ StreamInv /\ StreamTypes /\ TheStream /\ Counted /\ Bounds /\ Locks
  BY DEF IndInv, QueueInv, StreamInv
<1>2. /\ csStep = "drain" /\ popStep' = "done" /\ commands' = Tail(commands)
      /\ csStep' = IF Len(commands) = 1 THEN "loop" ELSE "run"
      /\ executed' = executed + 1
      /\ UNCHANGED <<step, issued, order, pushing, chunk, chunksQueued, chunksDispatched, deviceLock, waitsFor,
                     asleep, running, chunksExecuted, stopped, emitted, ticket, emittedAt, closing,
                     bound, markersApplied, markerLimit>>
  BY DEF DrainEnds, CommandOver, producer, stream, syncing, calls
<1>3. issued \in Nat /\ issued <= MaxBatches
  BY <1>1, QueueAssumption DEF QueueTypes
<1>4. Remembers
  BY <1>1, <1>2, <1>3, UnchangedRemembers DEF StreamTypes
<1>5. commands # <<>> /\ running
  BY <1>1, <1>2 DEF Counted
<1>6. TheStream' /\ commands' \in Seq(Command)
  BY <1>1, <1>2, <1>4, <1>5, OverStream
<1>7. StreamTypes'
  BY <1>1, <1>2, <1>6 DEF StreamTypes
<1>8. commands' # <<>> <=> Len(commands) # 1
  <2>1. Len(commands) \in Nat /\ Len(commands) >= 1 /\ Len(commands') = Len(commands) - 1
    BY <1>1, <1>2, <1>5 DEF StreamTypes
  <2>2. commands' = <<>> <=> Len(commands') = 0
    BY <1>6
  <2> QED
    BY <2>1, <2>2
<1>9. Counted'
  BY <1>1, <1>2, <1>5, <1>8 DEF Counted
<1>10. Locks'
  BY <1>1, <1>2 DEF Locks, AllExecuted
<1>11. Bounds'
  <2>1. \A b \in 1 .. issued : emittedAt'[b] = emittedAt[b] /\ emittedAt'[b] <= emitted'
    BY <1>1, <1>2 DEF Bounds
  <2>2. emitted \in Nat /\ executed \in Nat
    BY <1>1 DEF StreamTypes
  <2>3. csStep' # "drain"
    BY <1>2
  <2> QED
    BY <2>1, <2>2, <2>3, <1>1, <1>2, <1>3, <1>4, BoundsKept
<1> QED
  BY <1>6, <1>7, <1>9, <1>10, <1>11 DEF StreamInv

\* (The command stream thread outside its commands.)
LEMMA CsThreadKeepsStream ==
  ASSUME IndInv, CountChunk \/ Wakes \/ EndOfThread, UNCHANGED <<queueVars, calls, drain>>
  PROVE  StreamInv'
<1>1. QueueInv /\ QueueTypes /\ StreamInv /\ StreamTypes /\ TheStream /\ Counted /\ Bounds /\ Locks
  BY DEF IndInv, QueueInv, StreamInv
<1>2. /\ csStep \in {"loop", "wait"}
      /\ UNCHANGED <<step, issued, order, pushing, popStep, ticket, emittedAt, closing, bound, markersApplied,
                     markerLimit, chunk, chunksDispatched, deviceLock, waitsFor, executed, stopped, emitted>>
  BY DEF CountChunk, Wakes, EndOfThread, queueVars, producer, consumer, calls, drain, syncing, stream
<1>3. issued \in Nat /\ issued <= MaxBatches
  BY <1>1, QueueAssumption DEF QueueTypes
<1>4. Remembers
  BY <1>1, <1>2, <1>3, UnchangedRemembers DEF StreamTypes
<1>5. commands = <<>> /\ popStep = "done"
  BY <1>1, <1>2 DEF Counted
<1>6. asleep' \subseteq Thread
  BY <1>1 DEF CountChunk, Wakes, EndOfThread, NotifyOne, syncing, StreamTypes
<1>7. chunksExecuted' = chunksExecuted + (IF csStep = "loop" /\ ~stopped /\ running THEN 1 ELSE 0)
  BY <1>1 DEF CountChunk, Wakes, EndOfThread, StreamTypes
<1>8. CASE chunksQueued # <<>> /\ TakeChunk
  <2>1. TheStream' /\ commands' \in Seq(Command) /\ chunksQueued' \in Seq(Seq(Command))
    BY <1>1, <1>2, <1>4, <1>5, <1>8, TakenStream
  <2>2. running' = TRUE /\ csStep' = "run" /\ commands' = Head(chunksQueued) /\ chunksQueued' = Tail(chunksQueued)
    BY <1>8 DEF TakeChunk
  <2>3. /\ Len(chunksQueued) \in Nat /\ Len(chunksQueued) >= 1 /\ Len(chunksQueued') = Len(chunksQueued) - 1
        /\ commands' = chunksQueued[1]
        /\ \A i \in 1 .. Len(chunksQueued') : chunksQueued'[i] = chunksQueued[i + 1]
    BY <2>2, <1>1, <1>8 DEF StreamTypes
  <2>4. StreamTypes'
    <3>1. chunksExecuted' \in Nat
      BY <1>1, <1>7 DEF StreamTypes
    <3> QED
      BY <2>1, <2>2, <3>1, <1>1, <1>2, <1>6 DEF StreamTypes
  <2>5. Counted'
    <3>1. \A i \in 1 .. Len(chunksQueued') : chunksQueued'[i] # <<>>
      BY <2>3, <1>1 DEF Counted
    <3>2. commands' # <<>>
      BY <2>3, <1>1 DEF Counted
    <3>3. ~ stopped \/ csStep = "wait"
      BY <1>8 DEF CountChunk, Wakes, EndOfThread, TakeChunk
    <3>4. chunksDispatched' = chunksExecuted' + Len(chunksQueued') + (IF running' THEN 1 ELSE 0)
      BY <2>2, <2>3, <3>3, <1>1, <1>2, <1>7 DEF Counted, StreamTypes
    <3> QED
      BY <2>2, <3>1, <3>2, <3>4, <1>2, <1>5 DEF Counted
  <2>6. Locks'
    BY <1>1, <1>2, <1>8 DEF Locks, AllExecuted
  <2>7. Bounds'
    BY <2>2, <1>1, <1>2 DEF Bounds, Knows
  <2> QED
    BY <2>1, <2>4, <2>5, <2>6, <2>7 DEF StreamInv
<1>9. CASE /\ UNCHANGED <<commands, chunksQueued>>
           /\ \/ csStep' = "wait" /\ running' = FALSE
              \/ csStep' \in {"loop", "ended"} /\ running' = running
  <2>1. TheStream'
    BY <1>1, <1>2, <1>4, <1>9, SameStream
  <2>2. running' \in BOOLEAN /\ csStep' \in {"loop", "wait", "ended"}
    BY <1>1, <1>9 DEF StreamTypes
  <2>3. StreamTypes'
    <3>1. chunksExecuted' \in Nat
      BY <1>1, <1>7 DEF StreamTypes
    <3> QED
      BY <2>2, <3>1, <1>1, <1>2, <1>6, <1>9 DEF StreamTypes
  <2>4. Counted'
    BY <1>1, <1>2, <1>5, <1>9 DEF Counted, CountChunk, Wakes, EndOfThread, TakeChunk, StreamTypes
  <2>5. Locks'
    <3>1. running' => running
      BY <1>9
    <3> QED
      BY <3>1, <2>2, <1>1, <1>2, <1>9 DEF Locks, AllExecuted
  <2>6. Bounds'
    BY <2>2, <1>1, <1>2 DEF Bounds, Knows
  <2> QED
    BY <2>1, <2>3, <2>4, <2>5, <2>6 DEF StreamInv
<1>10. \/ chunksQueued # <<>> /\ TakeChunk
       \/ /\ UNCHANGED <<commands, chunksQueued>>
          /\ \/ csStep' = "wait" /\ running' = FALSE
             \/ csStep' \in {"loop", "ended"} /\ running' = running
  BY DEF CountChunk, Wakes, EndOfThread, stream
<1> QED
  BY <1>8, <1>9, <1>10

-----------------------------------------------------------------------------
(* Every step keeps the invariant *)

\* The command in progress is the first of its chunk, and knows what it was told
\* when it was made.
LEMMA HeadOfDrain ==
  ASSUME IndInv, commands # <<>>
  PROVE  Knows(Head(commands), executed) /\ HeadKnows
<1>1. StreamTypes /\ TheStream
  BY DEF IndInv, StreamInv
<1>2. Head(commands) = commands[1] /\ commands[1] \in Command /\ 1 \in 1 .. Len(commands)
  BY <1>1 DEF StreamTypes
<1>3. PICK from \in [1 .. Len(chunksQueued) + 1 -> Nat] : Streamed(from)
  BY <1>1 DEF TheStream
<1>4. Knows(Head(commands), executed)
  <2>1. Placed(from, Head(commands), executed) /\ executed \in Nat
    BY <1>1, <1>2 DEF Placed, StreamTypes
  <2> QED
    BY <2>1, <1>2, <1>3 DEF Streamed
<1>5. HeadKnows
  BY <1>4 DEF Knows, HeadKnows
<1> QED
  BY <1>4, <1>5

\* (The queue through the steps of the API threads.)
LEMMA ThreadsKeepQueue ==
  ASSUME IndInv, NEW t \in Thread,
         \/ \E isMarker \in BOOLEAN : Push(t, isMarker)
         \/ PushGoesOn(t) \/ LockApi(t) \/ EmitDrain(t) \/ Present(t) \/ Waits(t) \/ Returns(t) \/ StopThread(t)
         \/ \E destroys \in BOOLEAN : Synchronize(t, destroys)
  PROVE  QueueInv'
<1>1. QueueInv /\ QueueTypes /\ Counted
  BY DEF IndInv, QueueInv, StreamInv
<1>2. CASE \E isMarker \in BOOLEAN : Push(t, isMarker)
  <2>1. TakeNumber(t) /\ UNCHANGED <<commands, applied>>
    BY <1>2 DEF Push, csVars, execution, drain
  <2> QED
    BY <2>1, <1>1, TakeNumberKeepsQueue
<1>3. CASE PushGoesOn(t)
  <2>1. UNCHANGED <<commands, applied>>
    BY <1>3 DEF PushGoesOn, csVars, execution, drain
  <2>2. CASE Exchange(t)
    <3>1. popStep # "done" => pushing[t] \notin Head(commands).queued
      BY <1>1, HeadOfDrain DEF Counted, HeadKnows
    <3> QED
      BY <2>1, <2>2, <3>1, <1>1, ExchangeKeepsQueue
  <2>3. CASE Link(t, IF t \in drawing THEN "lock" ELSE "idle")
    <3>1. PICK to \in {"lock", "idle"} : Link(t, to)
      BY <2>3
    <3> QED
      BY <2>1, <3>1, <1>1, LinkKeepsQueue
  <2> QED
    BY <1>3, <2>2, <2>3 DEF PushGoesOn
<1>4. ASSUME NEW from, NEW to, Goes(t, from, to),
             from \in {"idle", "lock", "emit", "synchronize", "stop"},
             to \in {"idle", "emit", "synchronize", "stop", "gone"}
      PROVE  /\ step' \in [Thread -> {"idle", "exchange", "link", "lock", "emit", "synchronize", "stop", "gone"}]
             /\ \A u \in Thread : step'[u] # step[u] => {step[u], step'[u]} \cap {"exchange", "link"} = {}
  BY <1>1, <1>4 DEF Goes, QueueTypes
<1>5. CASE LockApi(t)
  <2>1. PICK from \in {"lock", "idle"} : Goes(t, from, "emit")
    BY <1>5 DEF LockApi
  <2> QED
    BY <2>1, <1>1, <1>4, <1>5, QuietKeepsQueue DEF LockApi, csVars, execution, drain
<1>6. CASE EmitDrain(t)
  BY <1>1, <1>4, <1>6, QuietKeepsQueue DEF EmitDrain, execution, drain
<1>7. CASE Present(t)
  BY <1>1, <1>7, QuietKeepsQueue DEF Present, execution, drain, queueVars, producer, QueueTypes
<1>8. CASE Waits(t)
  BY <1>1, <1>8, QuietKeepsQueue DEF Waits, Sleep, execution, drain, queueVars, producer, QueueTypes
<1>9. CASE Returns(t)
  <2>1. PICK to \in {"idle", "stop"} : Goes(t, "synchronize", to)
    BY <1>9 DEF Returns
  <2> QED
    BY <2>1, <1>1, <1>4, <1>9, QuietKeepsQueue DEF Returns, Synchronized, execution, drain
<1>10. CASE StopThread(t)
  BY <1>1, <1>4, <1>10, QuietKeepsQueue DEF StopThread, Stop, execution, drain
<1>11. CASE \E destroys \in BOOLEAN : Synchronize(t, destroys)
  BY <1>1, <1>4, <1>11, QuietKeepsQueue DEF Synchronize, SynchronizeCsThread, execution, drain
<1> QED
  BY <1>2, <1>3, <1>5, <1>6, <1>7, <1>8, <1>9, <1>10, <1>11

\* (The queue through the steps of the render thread.)
LEMMA RenderThreadKeepsQueue ==
  ASSUME IndInv, RenderThread
  PROVE  QueueInv'
<1>1. QueueInv /\ QueueTypes /\ PoppedInOrder /\ Counted
  BY DEF IndInv, QueueInv, StreamInv
<1>2. CASE DrainBegins
  <2>1. popStep = "done"
    BY <1>1, <1>2 DEF DrainBegins, Counted
  <2> QED
    BY <2>1, <1>1, <1>2, EdgeKeepsQueue DEF DrainBegins
<1>3. CASE DrainEnds
  BY <1>1, <1>3, EdgeKeepsQueue DEF DrainEnds
<1>4. CASE Applies
  BY <1>1, <1>4, ApplyKeepsQueue DEF Applies, csVars, execution
<1>5. CASE Pops
  <2>1. HeadKnows /\ UNCHANGED <<commands, applied>>
    BY <1>1, <1>5, HeadOfDrain DEF Pops, Counted, csVars, execution, drain
  <2>2. CASE LoadNext
    <3>1. CASE next[tail] = None
      BY <1>1, <2>1, <2>2, <3>1, StopsKeepsQueue DEF LoadNext
    <3>2. CASE next[tail] # None
      BY <1>1, <2>1, <2>2, <3>2, AdvanceKeepsQueue DEF LoadNext, Takes
    <3> QED
      BY <3>1, <3>2
  <2>3. CASE TestHead
    BY <1>1, <2>1, <2>3, StopsKeepsQueue DEF TestHead
  <2>4. CASE ExchangeStub
    BY <1>1, <2>1, <2>4, ExchangeStubKeepsQueue
  <2>5. CASE LinkStub
    BY <1>1, <2>1, <2>5, LinkStubKeepsQueue
  <2>6. CASE LoadAgain
    <3>1. CASE next[tail] = None
      BY <1>1, <2>1, <2>6, <3>1, StopsKeepsQueue DEF LoadAgain
    <3>2. CASE next[tail] # None
      <4>1. tail # Stub
        <5>1. PICK l \in Seq(Node) : \E p \in 1 .. Len(l) + 1 : Listed(l, p) /\ Linked(l) /\ PopAt(l, p)
          BY <1>1 DEF QueueInv, TheList
        <5>2. PICK p \in 1 .. Len(l) + 1 : Listed(l, p) /\ Linked(l) /\ PopAt(l, p)
          BY <5>1
        <5>3. p # 1 /\ Len(l) >= 1 /\ l[1] = tail /\ Len(l) \in Nat
          BY <5>2, <2>6 DEF PopAt, LoadAgain, Listed
        <5>4. \A k \in 1 .. Len(l) : l[k] = Stub <=> k = p
          BY <5>2, <1>1, ListFacts DEF QueueInv
        <5> QED
          BY <5>3, <5>4
      <4> QED
        BY <1>1, <2>1, <2>6, <3>2, <4>1, AdvanceKeepsQueue DEF LoadAgain, Takes
    <3> QED
      BY <3>1, <3>2
  <2> QED
    BY <1>5, <2>2, <2>3, <2>4, <2>5, <2>6 DEF Pops, PopBatch
<1>6. CASE (CountChunk \/ Wakes \/ EndOfThread) /\ UNCHANGED <<queueVars, calls, drain>>
  <2>1. csStep \in {"loop", "wait"} /\ popStep = "done"
    BY <1>1, <1>6 DEF CountChunk, Wakes, EndOfThread, Counted
  <2> QED
    BY <2>1, <1>1, <1>6, QuietKeepsQueue DEF queueVars, producer, drain, QueueTypes
<1> QED
  BY <1>2, <1>3, <1>4, <1>5, <1>6 DEF RenderThread, Drain

\* Initially the queue is the stub alone and nothing was emitted.
LEMMA InitialState == Init => IndInv
<1> SUFFICES ASSUME Init PROVE IndInv
  OBVIOUS
<1> USE DEF Init, QueueInit, CsInit
<1>1. MaxBatches \in Nat
  BY QueueAssumption
<1>2. QueueTypes
  <2>1. order \in Seq(Batch) /\ applied \in Seq(Batch)
    OBVIOUS
  <2> QED
    BY <2>1, <1>1 DEF QueueTypes, Node
<1>3. Numbered
  BY DEF Numbered, None
<1>4. PoppedInOrder /\ Gone = 0 /\ Len(order) = 0
  BY DEF PoppedInOrder, Gone, Popping
<1>5. TheList
  <2>1. PICK l \in Seq(Node) : l = <<Stub>>
    <3>1. <<Stub>> \in Seq(Node)
      BY DEF Node
    <3> QED
      BY <3>1
  <2>2. Len(l) = 1 /\ l[1] = Stub
    BY <2>1
  <2>3. PICK p \in 1 .. Len(l) + 1 : p = 1
    BY <2>2
  <2>4. Listed(l, p)
    BY <2>2, <2>3, <1>4 DEF Listed
  <2>5. Linked(l)
    BY <2>2 DEF Linked, Node
  <2>6. PopAt(l, p)
    BY DEF PopAt
  <2> QED
    BY <2>4, <2>5, <2>6 DEF TheList
<1>6. NothingLeft
  BY DEF NothingLeft
<1>7. StreamTypes
  <2>1. <<>> \in Seq(Command) /\ <<>> \in Seq(Seq(Command))
    OBVIOUS
  <2>2. NoTicket \in [bound : Nat, queued : SUBSET Batch]
    BY DEF NoTicket
  <2>3. /\ ticket \in [Thread -> [bound : Nat, queued : SUBSET Batch]]
        /\ emittedAt \in [Batch -> Nat] /\ waitsFor \in [Thread -> Nat]
        /\ \A t \in Thread : waitsFor[t] <= chunksDispatched
    BY <2>2
  <2>4. chunk \in Seq(Command) /\ commands \in Seq(Command) /\ chunksQueued \in Seq(Seq(Command))
    BY <2>1
  <2>5. deviceLock \in Thread \union {NoThread} /\ asleep \subseteq Thread
    OBVIOUS
  <2>6. /\ {emitted, executed, chunksExecuted, chunksDispatched} \subseteq Nat
        /\ running \in BOOLEAN /\ stopped \in BOOLEAN /\ closing \in BOOLEAN
        /\ csStep \in {"loop", "wait", "run", "drain", "ended"}
    <3>1. emitted \in Nat /\ executed \in Nat /\ chunksExecuted \in Nat /\ chunksDispatched \in Nat
      OBVIOUS
    <3>2. /\ running \in BOOLEAN /\ stopped \in BOOLEAN /\ closing \in BOOLEAN
          /\ csStep \in {"loop", "wait", "run", "drain", "ended"}
      OBVIOUS
    <3> HIDE DEF Init, QueueInit, CsInit
    <3> QED
      BY <3>1, <3>2
  <2> QED
    BY <2>3, <2>4, <2>5, <2>6 DEF StreamTypes
<1>8. TheStream
  <2>1. PICK from \in [1 .. Len(chunksQueued) + 1 -> Nat] : from = [j \in 1 .. Len(chunksQueued) + 1 |-> 0]
    <3>1. [j \in 1 .. Len(chunksQueued) + 1 |-> 0] \in [1 .. Len(chunksQueued) + 1 -> Nat]
      OBVIOUS
    <3> QED
      BY <3>1
  <2>2. Len(chunksQueued) = 0 /\ Len(chunk) = 0 /\ Len(commands) = 0 /\ from[1] = 0
    BY <2>1
  <2>3. \A c \in Command, i \in Nat : ~ Placed(from, c, i)
    BY <2>2 DEF Placed
  <2>4. Streamed(from)
    BY <2>1, <2>2, <2>3 DEF Streamed
  <2> QED
    BY <2>4 DEF TheStream
<1>9. Counted
  BY DEF Counted
<1>10. Locks
  BY SceneAssumption DEF Locks, AllExecuted
<1>11. Bounds
  <2>1. \A t \in Thread : Knows(ticket[t], emitted)
    <3> SUFFICES ASSUME NEW t \in Thread, NEW c, c = ticket[t] PROVE Knows(c, emitted)
      OBVIOUS
    <3>1. c.bound = 0 /\ c.queued = {} /\ issued = 0
      BY DEF NoTicket
    <3> QED
      BY <3>1 DEF Knows
  <2> QED
    BY <2>1 DEF Bounds
<1> QED
  BY <1>2, <1>3, <1>4, <1>5, <1>6, <1>7, <1>8, <1>9, <1>10, <1>11
  DEF IndInv, QueueInv, StreamInv

\* (The stream through any step.)
LEMMA EveryStepKeepsIndInv == IndInv /\ [Next]_vars => IndInv'
<1> SUFFICES ASSUME IndInv, [Next]_vars PROVE IndInv'
  OBVIOUS
<1>1. ASSUME NEW t \in Thread,
             \/ \E isMarker \in BOOLEAN : Push(t, isMarker)
             \/ PushGoesOn(t) \/ LockApi(t) \/ EmitDrain(t) \/ Present(t) \/ Waits(t) \/ Returns(t) \/ StopThread(t)
             \/ \E destroys \in BOOLEAN : Synchronize(t, destroys)
      PROVE  IndInv'
  <2>1. QueueInv'
    BY <1>1, ThreadsKeepQueue
  <2>2. StreamInv'
    BY <1>1, PushKeepsStream, PushGoesOnKeepsStream, LockApiKeepsStream, EmitDrainKeepsStream,
       PresentKeepsStream, WaitsKeepsStream, ReturnsKeepsStream, StopKeepsStream, SynchronizeKeepsStream
  <2> QED
    BY <2>1, <2>2 DEF IndInv
<1>2. ASSUME RenderThread PROVE IndInv'
  <2>1. QueueInv'
    BY <1>2, RenderThreadKeepsQueue
  <2>2. StreamInv'
    BY <1>2, DrainBeginsKeepsStream, DrainGoesOnKeepsStream, DrainEndsKeepsStream, CsThreadKeepsStream
    DEF RenderThread, Drain
  <2> QED
    BY <2>1, <2>2 DEF IndInv
<1>3. ASSUME UNCHANGED vars PROVE IndInv'
  <2>1. UNCHANGED <<queueVars, csVars, calls, drain>>
    BY <1>3 DEF vars
  <2>2. QueueInv'
    BY <2>1, QuietKeepsQueue DEF IndInv, QueueInv, QueueTypes, queueVars, producer, csVars, execution, drain
  <2>3. Locks'
    BY <2>1 DEF IndInv, StreamInv, Locks, AllExecuted, csVars, stream, syncing, execution, calls,
                queueVars, producer
  <2>4. StreamTypes'
    BY <2>1 DEF IndInv, StreamInv, StreamTypes, csVars, stream, syncing, execution, calls
  <2>5. StreamInv'
    BY <2>1, <2>3, <2>4, CalmKeepsStream
    DEF csVars, stream, syncing, execution, calls, queueVars, producer, consumer
  <2> QED
    BY <2>2, <2>5 DEF IndInv
<1>4. \/ \E t \in Thread :
           \/ \E isMarker \in BOOLEAN : Push(t, isMarker)
           \/ PushGoesOn(t) \/ LockApi(t) \/ EmitDrain(t) \/ Present(t) \/ Waits(t) \/ Returns(t) \/ StopThread(t)
           \/ \E destroys \in BOOLEAN : Synchronize(t, destroys)
      \/ RenderThread
      \/ UNCHANGED vars
  BY SceneAssumption DEF Next, HostCalls, GameCalls, ThreadSteps
<1> QED
  BY <1>1, <1>2, <1>3, <1>4

-----------------------------------------------------------------------------
(* What the invariant says *)

\* Every state of the program satisfies the invariant.
THEOREM Invariant == Spec => []IndInv
<1> QED
  BY InitialState, EveryStepKeepsIndInv, PTL DEF Spec

\* A step keeps the types of the calls: one thread takes s_mutex, a marker's batch
\* is issued with it, and a frame starts when a Present ends the last.
LEMMA EveryStepKeepsCallTypes ==
  ASSUME QueueTypes, CallTypes, [Next]_vars PROVE CallTypes'
<1>1. issued \in Nat /\ frame \in Nat
  BY DEF QueueTypes, CallTypes
<1>2. ASSUME NEW t \in Thread, NEW isMarker \in BOOLEAN, Push(t, isMarker) PROVE CallTypes'
  <2>1. /\ issued' = issued + 1 /\ UNCHANGED <<sMutex, frame, markerFrame, markerHeld>>
        /\ drawing' \subseteq drawing \union {t} /\ markers' \subseteq markers \union {issued + 1}
    BY <1>2 DEF Push, TakeNumber, drain
  <2> QED
    BY <1>1, <2>1 DEF CallTypes
<1>3. ASSUME NEW t \in Thread,
             \/ PushGoesOn(t) \/ LockApi(t) \/ EmitDrain(t) \/ Present(t)
             \/ Waits(t) \/ Returns(t) \/ StopThread(t)
             \/ \E destroys \in BOOLEAN : Synchronize(t, destroys)
      PROVE  CallTypes'
  <2>1. /\ UNCHANGED <<issued, markers, frame, markerFrame, markerHeld>>
        /\ sMutex' \in {sMutex, t, NoThread} /\ drawing' \in {drawing, drawing \ {t}}
    BY <1>3 DEF PushGoesOn, Exchange, Link, LockApi, EmitDrain, Present, Waits, Returns, StopThread,
                Synchronize, queueVars, producer, calls, drain
  <2> QED
    BY <2>1 DEF CallTypes
<1>4. ASSUME RenderThread PROVE CallTypes'
  <2>1. /\ UNCHANGED <<issued, sMutex, drawing, markers>>
        /\ frame' \in {frame, frame + 1} /\ markerFrame' \in {markerFrame, frame}
        /\ markerHeld' \in {markerHeld, TRUE, FALSE}
    <3>1. CASE DrainBegins
      BY <3>1 DEF DrainBegins, producer, calls
    <3>2. CASE Pops
      BY <3>2 DEF Pops, PopBatch, LoadNext, TestHead, ExchangeStub, LinkStub, LoadAgain, producer,
                  calls, drain
    <3>3. CASE Applies
      BY <3>3 DEF Applies, producer, calls
    <3>4. CASE DrainEnds
      BY <3>4 DEF DrainEnds, producer, calls
    <3>5. CASE UNCHANGED <<queueVars, calls, drain>>
      BY <3>5 DEF queueVars, producer, calls, drain
    <3> QED
      BY <1>4, <3>1, <3>2, <3>3, <3>4, <3>5 DEF RenderThread, Drain
  <2>2. frame' \in Nat /\ frame <= frame'
    BY <1>1, <2>1
  <2>3. markerFrame' \in 0 .. frame' \union {None}
    <3>1. CASE markerFrame' \in 0 .. frame
      BY <1>1, <2>2, <3>1
    <3>2. markerFrame \in 0 .. frame \union {None} /\ frame \in 0 .. frame
      BY <1>1 DEF CallTypes
    <3> QED
      BY <2>1, <3>1, <3>2
  <2>4. markerHeld' \in BOOLEAN
    BY <2>1 DEF CallTypes
  <2> QED
    BY <2>1, <2>2, <2>3, <2>4 DEF CallTypes
<1>5. CASE UNCHANGED vars
  BY <1>5 DEF CallTypes, vars, queueVars, producer, calls, drain
<1> QED
  BY <1>2, <1>3, <1>4, <1>5, SceneAssumption DEF Next, HostCalls, GameCalls, ThreadSteps

\* Every variable has its type: TypeOK holds of every state.
THEOREM TypesHold == Spec => []TypeOK
<1>1. Init => CallTypes
  <2> SUFFICES ASSUME Init PROVE CallTypes
    OBVIOUS
  <2>1. /\ sMutex = NoThread /\ drawing = {} /\ markers = {}
        /\ frame = 0 /\ markerFrame = None /\ markerHeld = FALSE
    BY DEF Init
  <2> QED
    BY <2>1 DEF CallTypes
<1>2. IndInv => QueueTypes
  BY DEF IndInv, QueueInv
<1>3. IndInv /\ CallTypes /\ [Next]_vars => CallTypes'
  BY <1>2, EveryStepKeepsCallTypes
<1>4. IndInv /\ CallTypes => TypeOK
  <2> SUFFICES ASSUME IndInv, CallTypes PROVE TypeOK
    OBVIOUS
  <2>1. QueueTypes /\ StreamTypes /\ Counted /\ Bounds
    BY DEF IndInv, QueueInv, StreamInv
  <2>2. chunksExecuted <= chunksDispatched
    BY <2>1 DEF StreamTypes, Counted
  <2> QED
    BY <2>1, <2>2 DEF Bounds, TypeOK
<1> QED
  BY <1>1, <1>3, <1>4, Invariant, PTL DEF Spec

\* The batches applied and the one popped are the first Gone of the line.
LEMMA DoneIsPrefix ==
  ASSUME IndInv
  PROVE  IsPrefix(Done, order) /\ Len(Done) = Gone
<1>1. QueueTypes /\ PoppedInOrder
  BY DEF IndInv, QueueInv
<1>2. Len(Done) = Gone /\ Done \in Seq(Batch) /\ Gone <= Len(order)
  BY <1>1 DEF QueueTypes, PoppedInOrder, Done, Gone
<1>3. \A k \in 1 .. Len(Done) : Done[k] = order[k]
  <2>1. CASE popped = None
    BY <2>1, <1>1 DEF PoppedInOrder, Done
  <2>2. CASE popped # None
    <3>1. /\ Len(Done) = Len(applied) + 1 /\ Done[Len(applied) + 1] = popped
          /\ \A k \in 1 .. Len(applied) : Done[k] = applied[k]
      BY <2>2, <1>1 DEF QueueTypes, Done
    <3>2. Len(applied) \in Nat
      BY <1>1 DEF QueueTypes
    <3> QED
      BY <2>2, <3>1, <3>2, <1>1 DEF PoppedInOrder
  <2> QED
    BY <2>1, <2>2
<1>4. SubSeq(Done, 1, Len(Done)) = SubSeq(order, 1, Len(Done))
  BY <1>1, <1>2, <1>3 DEF QueueTypes
<1> QED
  BY <1>2, <1>4 DEF IsPrefix

\* The list leads through the batches that are not popped, whatever place the stub has.
LEMMA ListIsChain ==
  ASSUME IndInv, NEW line \in Seq(Batch), Len(line) = Len(order) - Gone,
         \A k \in 1 .. Len(line) : line[k] = order[Gone + k]
  PROVE  Chain(line)
<1>1. QueueTypes /\ Numbered /\ PoppedInOrder /\ TheList
  BY DEF IndInv, QueueInv
<1>2. PICK l \in Seq(Node) : \E p \in 1 .. Len(l) + 1 : Listed(l, p) /\ Linked(l) /\ PopAt(l, p)
  BY <1>1 DEF TheList
<1>3. PICK p \in 1 .. Len(l) + 1 : Listed(l, p) /\ Linked(l) /\ PopAt(l, p)
  BY <1>2
<1>4. Gone \in Nat /\ Len(order) \in Nat /\ Len(l) \in Nat /\ Len(l) >= 1 /\ tail = l[1] /\ Len(line) \in Nat
  BY <1>1, <1>3, ListFacts DEF Listed
<1>5. \A k \in 1 .. Len(l) - 1 : Joined(l[k], l[k + 1])
  BY <1>3 DEF Linked, Linking, Joined
<1>6. /\ Len(line) = IF p <= Len(l) THEN Len(l) - 1 ELSE Len(l)
      /\ \A k \in 1 .. Len(l) : k < p => k \in 1 .. Len(line) /\ l[k] = line[k]
      /\ \A k \in 1 .. Len(l) : k > p => k - 1 \in 1 .. Len(line) /\ l[k] = line[k - 1]
      /\ \A k \in 1 .. Len(l) : k = p => l[k] = Stub
  <2>1. Len(line) = IF p <= Len(l) THEN Len(l) - 1 ELSE Len(l)
    BY <1>3 DEF Listed
  <2>2. ASSUME NEW k \in 1 .. Len(l), k < p PROVE k \in 1 .. Len(line) /\ l[k] = line[k]
    BY <2>1, <2>2, <1>3, <1>4 DEF Listed
  <2>3. ASSUME NEW k \in 1 .. Len(l), k > p PROVE k - 1 \in 1 .. Len(line) /\ l[k] = line[k - 1]
    <3>1. k - 1 \in 1 .. Len(line)
      BY <2>1, <2>3, <1>4
    <3>2. l[k] = order[Gone + k - 1]
      BY <2>3, <1>3, <1>4 DEF Listed
    <3>3. line[k - 1] = order[Gone + (k - 1)] /\ Gone + (k - 1) = Gone + k - 1
      BY <3>1, <1>4
    <3> QED
      BY <3>1, <3>2, <3>3
  <2>4. \A k \in 1 .. Len(l) : k = p => l[k] = Stub
    BY <1>3, <1>4 DEF Listed
  <2> QED
    BY <2>1, <2>2, <2>3, <2>4
<1>7. line # <<>> => tail = line[1] \/ (tail = Stub /\ Joined(Stub, line[1]))
  <2> SUFFICES ASSUME Len(line) >= 1 PROVE tail = line[1] \/ (tail = Stub /\ Joined(Stub, line[1]))
    BY <1>4
  <2>1. CASE p = 1
    <3>1. 1 \in 1 .. Len(l) - 1 /\ 1 + 1 \in 1 .. Len(l) /\ l[1] = Stub
      BY <2>1, <1>4, <1>6
    <3>2. l[1 + 1] = line[1]
      BY <2>1, <3>1, <1>6
    <3> QED
      BY <3>1, <3>2, <1>4, <1>5
  <2>2. CASE p # 1
    BY <2>2, <1>3, <1>4, <1>6
  <2> QED
    BY <2>1, <2>2
<1>8. ASSUME NEW k \in 1 .. Len(line) - 1
      PROVE  \/ Joined(line[k], line[k + 1])
             \/ Joined(line[k], Stub) /\ Joined(Stub, line[k + 1])
  <2>1. CASE k + 1 < p
    <3>1. k \in 1 .. Len(l) - 1 /\ k + 1 \in 1 .. Len(l) /\ k \in 1 .. Len(l) /\ k < p
      BY <2>1, <1>3, <1>4, <1>6
    <3> QED
      BY <2>1, <3>1, <1>5, <1>6
  <2>2. CASE k + 1 = p
    <3>1. /\ k \in 1 .. Len(l) - 1 /\ k + 1 \in 1 .. Len(l) - 1 /\ k \in 1 .. Len(l) /\ k < p
          /\ k + 1 \in 1 .. Len(l) /\ k + 2 \in 1 .. Len(l) /\ k + 2 > p
          /\ (k + 1) + 1 = k + 2 /\ k + 2 - 1 = k + 1
      BY <2>2, <1>3, <1>4, <1>6
    <3>2. l[k] = line[k] /\ l[k + 1] = Stub /\ l[k + 2] = line[k + 1]
      BY <2>2, <3>1, <1>6
    <3>3. Joined(l[k], l[k + 1]) /\ Joined(l[k + 1], l[k + 2])
      BY <3>1, <1>5
    <3> QED
      BY <3>2, <3>3
  <2>3. CASE k >= p
    <3>1. /\ k + 1 \in 1 .. Len(l) - 1 /\ k + 1 > p
          /\ k + 1 \in 1 .. Len(l) /\ k + 2 \in 1 .. Len(l) /\ k + 2 > p
          /\ (k + 1) + 1 = k + 2 /\ k + 2 - 1 = k + 1 /\ k + 1 - 1 = k
      BY <2>3, <1>3, <1>4, <1>6
    <3>2. l[k + 1] = line[k] /\ l[k + 2] = line[k + 1]
      <4>1. l[k + 1] = line[k + 1 - 1]
        BY <3>1, <1>6
      <4>2. l[k + 2] = line[k + 2 - 1]
        BY <3>1, <1>6
      <4> QED
        BY <3>1, <4>1, <4>2
    <3>3. Joined(l[k + 1], l[k + 2])
      BY <3>1, <1>5
    <3> QED
      BY <3>2, <3>3
  <2> QED
    BY <2>1, <2>2, <2>3, <1>3, <1>4
<1> QED
  BY <1>7, <1>8 DEF Chain

\* The queue keeps each batch once and in order, whatever the stores' interleaving.
THEOREM QueueKeepsBatches == Spec => []BatchesKept
<1>1. ASSUME IndInv PROVE BatchesKept
  <2>1. QueueTypes /\ PoppedInOrder
    BY <1>1 DEF IndInv, QueueInv
  <2>2. Gone \in Nat /\ Len(order) \in Nat /\ Gone <= Len(order)
    BY <2>1 DEF QueueTypes, PoppedInOrder, Gone
  <2>3. PICK line \in Seq(Batch) : line = SubSeq(order, Gone + 1, Len(order))
    <3>1. order \in Seq(Batch) /\ Gone + 1 \in 1 .. Len(order) + 1 /\ Len(order) \in Nat
      BY <2>1, <2>2 DEF QueueTypes
    <3>2. SubSeq(order, Gone + 1, Len(order)) \in Seq(Batch)
      BY <3>1, SubSeqProperties
    <3> QED
      BY <3>2
  <2>4. Len(line) = Len(order) - Gone /\ \A k \in 1 .. Len(line) : line[k] = order[Gone + k]
    BY <2>1, <2>2, <2>3 DEF QueueTypes
  <2>5. Chain(line)
    BY <1>1, <2>4, ListIsChain
  <2> QED
    BY <1>1, <2>3, <2>5, DoneIsPrefix DEF BatchesKept
<1> QED
  BY <1>1, Invariant, PTL

\* A wait for the command stream ends when every command emitted is executed.
THEOREM SynchronizeIsAWait == Spec => []SynchronizedMeansExecuted
<1>1. ASSUME IndInv PROVE SynchronizedMeansExecuted
  <2>1. StreamTypes /\ TheStream /\ Counted /\ Locks
    BY <1>1 DEF IndInv, StreamInv
  <2>2. ASSUME AllExecuted PROVE executed = emitted
    <3>1. PICK from \in [1 .. Len(chunksQueued) + 1 -> Nat] : Streamed(from)
      BY <2>1 DEF TheStream
    <3>2. commands = <<>> /\ Len(commands) = 0 /\ Len(chunk) = 0 /\ Len(chunksQueued) = 0
      BY <2>1, <2>2 DEF AllExecuted, Counted
    <3>3. emitted = from[1] + 0 /\ from[1] = executed + 0 /\ executed \in Nat
      BY <2>1, <3>1, <3>2 DEF Streamed, StreamTypes
    <3> QED
      BY <3>3
  <2> QED
    BY <1>1, <2>1, <2>2, WaitIsOver DEF SynchronizedMeansExecuted, Locks
<1> QED
  BY <1>1, Invariant, PTL

\* A batch applies after every call on the command stream made before it was pushed.
THEOREM BatchesFollowEarlierCalls == Spec => AppliedAfterEarlierCalls
<1>1. ASSUME IndInv, Applies PROVE emittedAt[Last(applied')] <= executed
  <2>1. QueueTypes /\ PoppedInOrder /\ Bounds /\ Numbered
    BY <1>1 DEF IndInv, QueueInv, StreamInv
  <2>2. popped # None /\ popped \in Batch /\ ~ popped > bound /\ bound \in Nat
    BY <1>1, <2>1, QueueAssumption DEF Applies, PastBound, PoppedInOrder, QueueTypes, Bounds
  <2>3. applied' = Append(applied, popped) /\ Last(applied') = popped
    BY <1>1, <2>1, <2>2 DEF Applies, QueueTypes, Last
  <2>4. popped \in 1 .. bound
    BY <2>2, QueueAssumption DEF Batch
  <2> QED
    BY <2>1, <2>3, <2>4 DEF Bounds
<1>2. [Next]_vars /\ applied' # applied => Applies
  BY DEF Next, HostCalls, GameCalls, ThreadSteps, RenderThread, Drain, Push, PushGoesOn, LockApi, EmitDrain,
         Present, Synchronize, Waits, Returns, StopThread, DrainBegins, Pops, DrainEnds, drain, vars
<1>3. IndInv /\ [Next]_vars => [applied' # applied => emittedAt[Last(applied')] <= executed]_vars
  BY <1>1, <1>2
<1> QED
  BY <1>3, Invariant, PTL DEF Spec, AppliedAfterEarlierCalls

\* A drain leaves a batch that was queued before its call only for a reason: a marker
\* that waits, or one of the next two in line that was not wholly pushed at that call.
THEOREM DrainsAreComplete == Spec => DrainIsComplete
<1> DEFINE Reason ==
      \E k \in DOMAIN order \ DOMAIN applied : k <= Len(applied) + 2 /\ order[k] \notin Head(commands).queued
<1>1. ASSUME IndInv, DrainEnds, ~markerHeld', Left # {} PROVE Reason
  <2>1. QueueTypes /\ PoppedInOrder /\ Bounds /\ Counted /\ NothingLeft
    BY <1>1 DEF IndInv, QueueInv, StreamInv
  <2>2. /\ Len(order) \in Nat /\ Len(applied) \in Nat
        /\ DOMAIN order = 1 .. Len(order) /\ DOMAIN applied = 1 .. Len(applied)
    BY <2>1 DEF QueueTypes
  <2>3. csStep = "drain" /\ commands # <<>>
    BY <1>1, <2>1 DEF DrainEnds, Counted
  <2>4. CASE popStep = "nothing"
    <3>1. Gone = Len(applied)
      BY <2>1, <2>2, <2>4 DEF PoppedInOrder, Gone
    <3>2. PICK k \in Gone + 1 .. Gone + 2 : k <= Len(order) /\ order[k] \notin Head(commands).queued
      BY <1>1, <2>1, <2>4 DEF NothingLeft
    <3> QED
      BY <2>2, <3>1, <3>2
  <2>5. CASE popStep = "found" /\ PastBound
    <3>1. /\ popped = order[Len(applied) + 1] /\ Len(applied) + 1 <= Len(order)
          /\ popped > bound /\ popped \in Nat /\ bound \in Nat
      BY <2>1, <2>2, <2>5, QueueAssumption DEF PoppedInOrder, Gone, PastBound, QueueTypes, Batch, Bounds
    <3>2. popped \notin Head(commands).queued
      <4>1. Knows(Head(commands), executed)
        BY <1>1, <2>3, HeadOfDrain
      <4>2. Head(commands).bound <= bound /\ Head(commands).bound \in Nat
        BY <2>1, <2>3, <4>1, QueueAssumption DEF Bounds, Knows, QueueTypes
      <4>3. \A b \in Head(commands).queued : b \in 1 .. Head(commands).bound
        BY <4>1 DEF Knows
      <4> QED
        BY <4>2, <4>3, <3>1
    <3> QED
      BY <2>2, <3>1, <3>2
  <2> QED
    BY <1>1, <2>4, <2>5 DEF DrainEnds
<1>2. IndInv => [DrainEnds /\ ~markerHeld' /\ Left # {} => Reason]_vars
  BY <1>1
<1> QED
  BY <1>2, Invariant, PTL DEF Spec, DrainIsComplete
=============================================================================
