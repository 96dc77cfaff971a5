---------------------------- MODULE CommandQueue ----------------------------
(***************************************************************************)
(* AtomicCircularQueue of bridge/src/util: the queue of command headers    *)
(* that lies in memory shared by the two processes of the bridge, with one *)
(* producer and one consumer.  An end that finds no room (no data) spins,  *)
(* then announces itself in its "sleeping" word and blocks on its event;   *)
(* the other end signals that event after publishing, but only while the   *)
(* sleeping word is set.                                                   *)
(*                                                                         *)
(* Memory.  Each shared word has one writer: m_read and the slots belong   *)
(* to the producer, m_write to the consumer, each sleeping word to the end *)
(* that sleeps.  A store is made in the writer's own copy of the word and  *)
(* becomes visible to the other process at any later time, word by word    *)
(* and in any order; a seq_cst fence waits until all of them are visible.  *)
(* Loads happen in program order.                                          *)
(***************************************************************************)
EXTENDS Naturals, Sequences

CONSTANTS
  Item,             \* command headers
  NoItem,           \* what a slot holds before the first push (m_default)
  QueueSize,        \* m_queueSize: number of slots, one of which stays empty
  TimedEnds,        \* ends whose calls have a time limit (timeoutMS # 0)
  EarlyOutEnds,     \* ends whose calls can be told to give up (the consumer)
  Slices,           \* whether a blocked end also wakes every kSleepSliceMs
  CreateEventFails  \* processes in which CreateEvent may have failed

Producer == "producer"
Consumer == "consumer"
End == {Producer, Consumer}

ASSUME QueueAssumption ==
  /\ NoItem \notin Item
  /\ QueueSize \in Nat /\ QueueSize >= 2
  /\ TimedEnds \subseteq End
  /\ EarlyOutEnds \subseteq {Consumer}
  /\ Slices \in BOOLEAN /\ CreateEventFails \subseteq End

VARIABLES
  pc,            \* where each end is in its call
  idx,           \* idx[p]: m_read (producer) or m_write (consumer), as p stored it
  idxSeen,       \* ... as the other process sees it
  sleeping,      \* sleeping[p]: p's sleeping word, as p stored it
  sleepingSeen,  \* ... as the other process sees it
  slot,          \* m_data as the producer stored it
  slotSeen,      \* ... as the consumer sees it
  event,         \* event[p]: the auto-reset event p blocks on is signalled
  opened,        \* opened[q][p]: process q has a handle of p's event
  obj,           \* the producer's argument, the consumer's copy
  op             \* the consumer's call: "peek" or "pull"

words == <<idx, idxSeen, sleeping, sleepingSeen, slot, slotSeen>>
vars == <<pc, words, event, opened, obj, op>>

Idx == 0 .. QueueSize - 1
PC == {"idle", "check", "spin", "arm", "recheck", "block", "retest",
       "go", "publish", "peeked", "wakeLoad", "signal"}

Other(p) == IF p = Producer THEN Consumer ELSE Producer
Goto(p, from, to) == pc[p] = from /\ pc' = [pc EXCEPT ![p] = to]

NoWrap(i) == i + 1
queueIdxInc(i) == IF i + 1 < QueueSize THEN i + 1 ELSE 0

-----------------------------------------------------------------------------
(* Memory *)

\* std::atomic_thread_fence(seq_cst): every store of p is visible.
NoFence(p) == TRUE
Fence(p) ==
  /\ idx[p] = idxSeen[p]
  /\ sleeping[p] = sleepingSeen[p]
  /\ p = Producer => slot = slotSeen

\* One store of p becomes visible to the other process.
DrainIdx(p) ==
  /\ idx[p] # idxSeen[p]
  /\ idxSeen' = [idxSeen EXCEPT ![p] = idx[p]]
  /\ UNCHANGED <<pc, idx, sleeping, sleepingSeen, slot, slotSeen, event, opened, obj, op>>

DrainSleeping(p) ==
  /\ sleeping[p] # sleepingSeen[p]
  /\ sleepingSeen' = [sleepingSeen EXCEPT ![p] = sleeping[p]]
  /\ UNCHANGED <<pc, idx, idxSeen, sleeping, slot, slotSeen, event, opened, obj, op>>

DrainSlot(i) ==
  /\ slot[i] # slotSeen[i]
  /\ slotSeen' = [slotSeen EXCEPT ![i] = slot[i]]
  /\ UNCHANGED <<pc, idx, idxSeen, sleeping, sleepingSeen, slot, event, opened, obj, op>>

-----------------------------------------------------------------------------
(* waitUntil, from the caller's first test on *)

\* hasRoom of push, hasData of waitForData.
Ready(p) ==
  IF p = Producer THEN queueIdxInc(idx[p]) # idxSeen[Consumer]
                  ELSE idx[p] # idxSeen[Producer]

\* The first test: a queue that is ready costs no wait.
Check(p) ==
  /\ Goto(p, "check", IF Ready(p) THEN "go" ELSE "spin")
  /\ UNCHANGED <<words, event, opened, obj, op>>

\* Spin phase: ready, early-out, or the spin time is over.
Spin(p) ==
  /\ \/ Ready(p) /\ Goto(p, "spin", "go")
     \/ ~Ready(p) /\ p \in EarlyOutEnds /\ Goto(p, "spin", "idle")
     \/ ~Ready(p) /\ Goto(p, "spin", "arm")
  /\ UNCHANGED <<words, event, opened, obj, op>>

\* Blocking phase: the sleeping word is set, or, without an event, the thread
\* only yields.
Arm(p) ==
  /\ IF opened[p][p]
     THEN Goto(p, "arm", "recheck") /\ sleeping' = [sleeping EXCEPT ![p] = 1]
     ELSE Goto(p, "arm", "retest") /\ UNCHANGED sleeping
  /\ UNCHANGED <<idx, idxSeen, sleepingSeen, slot, slotSeen, event, opened, obj, op>>

\* ... the fence, then the test again before blocking.
NoRecheck(p) ==
  /\ Fence(p)
  /\ Goto(p, "recheck", "block")
  /\ UNCHANGED <<words, event, opened, obj, op>>
Recheck(p) ==
  /\ Fence(p)
  /\ IF Ready(p)
     THEN Goto(p, "recheck", "go") /\ sleeping' = [sleeping EXCEPT ![p] = 0]
     ELSE Goto(p, "recheck", "block") /\ UNCHANGED sleeping
  /\ UNCHANGED <<idx, idxSeen, sleepingSeen, slot, slotSeen, event, opened, obj, op>>

\* WaitForSingleObject returns on the event, which it resets, ...
Block(p) ==
  /\ event[p] /\ event' = [event EXCEPT ![p] = FALSE]
  /\ Goto(p, "block", "retest")
  /\ sleeping' = [sleeping EXCEPT ![p] = 0]
  /\ UNCHANGED <<idx, idxSeen, sleepingSeen, slot, slotSeen, opened, obj, op>>

\* ... or when its time slice is over; either way the sleeping word is cleared.
SliceEnds(p) ==
  /\ Slices /\ ~event[p]
  /\ Goto(p, "block", "retest")
  /\ sleeping' = [sleeping EXCEPT ![p] = 0]
  /\ UNCHANGED <<idx, idxSeen, sleepingSeen, slot, slotSeen, event, opened, obj, op>>

TimeoutTakenForRoom(p) ==
  /\ \/ Ready(p) /\ Goto(p, "retest", "go")
     \/ ~Ready(p) /\ p \in TimedEnds \union EarlyOutEnds /\ Goto(p, "retest", "go")
     \/ ~Ready(p) /\ Goto(p, "retest", "arm")
  /\ UNCHANGED <<words, event, opened, obj, op>>
\* The test after blocking; then early-out or time limit, or another round.
Retest(p) ==
  /\ \/ Ready(p) /\ Goto(p, "retest", "go")
     \/ ~Ready(p) /\ p \in TimedEnds \union EarlyOutEnds /\ Goto(p, "retest", "idle")
     \/ ~Ready(p) /\ Goto(p, "retest", "arm")
  /\ UNCHANGED <<words, event, opened, obj, op>>

-----------------------------------------------------------------------------
(* wakeIfSleeping *)

\* The fence orders the index store before the load of the sleeping word.
WakeLoad(p) ==
  /\ Fence(p)
  /\ Goto(p, "wakeLoad",
       IF opened[p][Other(p)] /\ sleepingSeen[Other(p)] # 0 THEN "signal" ELSE "idle")
  /\ UNCHANGED <<words, event, opened, obj, op>>

Signal(p) ==
  /\ Goto(p, "signal", "idle")
  /\ event' = [event EXCEPT ![Other(p)] = TRUE]
  /\ UNCHANGED <<words, opened, obj, op>>

-----------------------------------------------------------------------------
(* push *)

Push(x) ==
  /\ Goto(Producer, "idle", "check")
  /\ obj' = [obj EXCEPT ![Producer] = x]
  /\ UNCHANGED <<words, event, opened, op>>

WriteSlot ==
  /\ Goto(Producer, "go", "publish")
  /\ slot' = [slot EXCEPT ![idx[Producer]] = obj[Producer]]
  /\ UNCHANGED <<idx, idxSeen, sleeping, sleepingSeen, slotSeen, event, opened, obj, op>>

PublishUnfenced ==
  /\ Goto(Producer, "publish", "wakeLoad")
  /\ idx' = [idx EXCEPT ![Producer] = queueIdxInc(@)]
  /\ UNCHANGED <<idxSeen, sleeping, sleepingSeen, slot, slotSeen, event, opened, obj, op>>
Publish ==
  /\ Fence(Producer)
  /\ Goto(Producer, "publish", "wakeLoad")
  /\ idx' = [idx EXCEPT ![Producer] = queueIdxInc(@)]
  /\ UNCHANGED <<idxSeen, sleeping, sleepingSeen, slot, slotSeen, event, opened, obj, op>>

-----------------------------------------------------------------------------
(* peek and pull *)

Call(o) ==
  /\ Goto(Consumer, "idle", "check")
  /\ op' = o
  /\ UNCHANGED <<words, event, opened, obj>>

\* Both fence and read the slot; a pull goes on to release it.
ReadSlot ==
  /\ Fence(Consumer)
  /\ Goto(Consumer, "go", IF op = "pull" THEN "publish" ELSE "peeked")
  /\ obj' = [obj EXCEPT ![Consumer] = slotSeen[idx[Consumer]]]
  /\ UNCHANGED <<words, event, opened, op>>

PeekReturns ==
  /\ Goto(Consumer, "peeked", "idle")
  /\ UNCHANGED <<words, event, opened, obj, op>>

Release ==
  /\ Goto(Consumer, "publish", "wakeLoad")
  /\ idx' = [idx EXCEPT ![Consumer] = queueIdxInc(@)]
  /\ UNCHANGED <<idxSeen, sleeping, sleepingSeen, slot, slotSeen, event, opened, obj, op>>

-----------------------------------------------------------------------------
\* The writer constructs the words in place; each process opens the two events.
Init ==
  /\ pc = [p \in End |-> "idle"]
  /\ idx = [p \in End |-> 0] /\ idxSeen = idx
  /\ sleeping = [p \in End |-> 0] /\ sleepingSeen = sleeping
  /\ slot = [i \in Idx |-> NoItem] /\ slotSeen = slot
  /\ event = [p \in End |-> FALSE]
  /\ opened \in [End -> [End -> BOOLEAN]]
  /\ \A q \in End \ CreateEventFails, p \in End : opened[q][p]
  /\ obj = [p \in End |-> NoItem]
  /\ op = "pull"

Wait(p) == Check(p) \/ Spin(p) \/ Arm(p) \/ Recheck(p) \/ Block(p) \/ Retest(p)
Wake(p) == WakeLoad(p) \/ Signal(p)

\* The steps of a call that has begun.
Step(p) ==
  \/ Wait(p) \/ Wake(p)
  \/ p = Producer /\ (WriteSlot \/ Publish)
  \/ p = Consumer /\ (ReadSlot \/ PeekReturns \/ Release)

Drain ==
  \/ \E p \in End : DrainIdx(p) \/ DrainSleeping(p)
  \/ \E i \in Idx : DrainSlot(i)

Next ==
  \/ \E x \in Item : Push(x)
  \/ \E o \in {"peek", "pull"} : Call(o)
  \/ \E p \in End : Step(p) \/ SliceEnds(p)
  \/ Drain

Spec == Init /\ [][Next]_vars

\* Both processes run and stores reach memory.  Nobody is forced to call, and no
\* time slice has to end.
FairSpec ==
  /\ Spec
  /\ \A p \in End : WF_vars(Step(p)) /\ WF_vars(DrainIdx(p)) /\ WF_vars(DrainSleeping(p))
  /\ \A i \in Idx : WF_vars(DrainSlot(i))

-----------------------------------------------------------------------------
(* Properties *)

\* Every variable has its type.
TypeOK ==
  /\ pc \in [End -> PC]
  /\ idx \in [End -> Idx] /\ idxSeen \in [End -> Idx]
  /\ sleeping \in [End -> {0, 1}] /\ sleepingSeen \in [End -> {0, 1}]
  /\ slot \in [Idx -> Item \union {NoItem}] /\ slotSeen \in [Idx -> Item \union {NoItem}]
  /\ event \in [End -> BOOLEAN]
  /\ opened \in [End -> [End -> BOOLEAN]]
  /\ obj \in [End -> Item \union {NoItem}]
  /\ op \in {"peek", "pull"}

\* "A wake-up cannot be lost": an end that is blocked although it could go on
\* has its event signalled, or the other end is about to look at its sleeping
\* word, which says 1, or about to signal.  (wakeIfSleeping against waitUntil.)
NoLostWakeup ==
  \A p \in End :
    pc[p] = "block" /\ Ready(p) /\ opened[Other(p)][p] =>
      \/ event[p]
      \/ pc[Other(p)] = "wakeLoad" /\ sleepingSeen[p] = 1
      \/ pc[Other(p)] = "signal"

\* The slot the consumer copies is complete and the producer is not storing
\* into it: the slot is reused only after the consumer has moved its index.
SlotIntegrity ==
  pc[Consumer] \in {"go", "publish"} =>
    /\ slotSeen[idx[Consumer]] = slot[idx[Consumer]]
    /\ pc[Producer] \in {"go", "publish"} => idx[Producer] # idx[Consumer]

\* isEmpty asked by the consumer (ensureQueueEmpty) never misses an item whose
\* push has returned; asked on the producer's side, where the consumer's index
\* may be old, it says so only when everything pushed was taken.
EmptyMeansTaken ==
  /\ idx[Consumer] = idxSeen[Producer] /\ pc[Producer] = "idle" => idx[Consumer] = idx[Producer]
  /\ idxSeen[Consumer] = idx[Producer] => idx[Consumer] = idx[Producer]

\* What is in flight between an end and the memory: an index only between its
\* store and the fence of wakeIfSleeping, a slot only before it is published, a
\* sleeping word never while its owner is blocked.
InFlight ==
  /\ \A p \in End :
       /\ idx[p] # idxSeen[p] => pc[p] = "wakeLoad" /\ idx[p] = queueIdxInc(idxSeen[p])
       /\ sleeping[p] = 1 <=> pc[p] \in {"recheck", "block"}
       /\ pc[p] = "block" => sleepingSeen[p] = 1
       /\ pc[p] \in {"recheck", "block"} => opened[p][p]
  /\ \A i \in Idx : slot[i] # slotSeen[i] => pc[Producer] = "publish" /\ i = idx[Producer]

\* The ring: a producer that stores has room, a consumer that reads has data,
\* whichever of an end's two index values the other end goes by.
Ring ==
  /\ pc[Producer] \in {"go", "publish"} =>
       queueIdxInc(idx[Producer]) \notin {idx[Consumer], idxSeen[Consumer]}
  /\ pc[Consumer] \in {"go", "publish"} =>
       idx[Consumer] \notin {idx[Producer], idxSeen[Producer]}
  /\ idx[Producer] # idxSeen[Producer] =>
       idx[Producer] \notin {idx[Consumer], idxSeen[Consumer]}
  /\ idx[Consumer] # idxSeen[Consumer] =>
       idxSeen[Consumer] \notin {idx[Producer], idxSeen[Producer]}

\* The inductive invariant.
IndInv == TypeOK /\ InFlight /\ Ring /\ NoLostWakeup

\* A push that has room and a pull that has data return, although nobody else
\* calls and no time slice wakes the blocked end: its event is enough, unless
\* only its own process could open that event.
ReadyCallsReturn ==
  \A p \in End :
    (pc[p] # "idle" /\ Ready(p) /\ (opened[p][p] => opened[Other(p)][p])) ~> (pc[p] = "idle")

-----------------------------------------------------------------------------
(* Refinement *)

\* The slots from the consumer's index c to the producer's index p, and the k-th.
Filled(c, p) == IF c <= p THEN p - c ELSE p + QueueSize - c
SlotAt(c, k) == IF c + k - 1 < QueueSize THEN c + k - 1 ELSE c + k - 1 - QueueSize

\* The items up to the last index the producer made visible.
Contents ==
  [k \in 1 .. Filled(idx[Consumer], idxSeen[Producer]) |-> slotSeen[SlotAt(idx[Consumer], k)]]

\* An item is in the queue from the step that makes the producer's index visible.
Pushing ==
  IF pc[Producer] = "idle" THEN [phase |-> "idle"]
  ELSE IF \/ pc[Producer] = "signal"
          \/ pc[Producer] = "wakeLoad" /\ idx[Producer] = idxSeen[Producer]
       THEN [phase |-> "stored"]
       ELSE [phase |-> "offered", item |-> obj[Producer]]

\* ... until the consumer moves its index.
Pulling ==
  IF pc[Consumer] = "idle" THEN [phase |-> "idle"]
  ELSE IF pc[Consumer] \in {"peeked", "wakeLoad", "signal"}
       THEN [phase |-> "got", item |-> obj[Consumer]]
       ELSE [phase |-> "asked", op |-> op]

Fifo == INSTANCE BoundedFifo WITH
  Capacity <- QueueSize - 1, queue <- Contents, pushing <- Pushing, pulling <- Pulling

\* The queue is a bounded first-in first-out queue: push stores its item exactly
\* once or not at all, pull returns the oldest.
ImplementsFifo == Fifo!Spec
=============================================================================
