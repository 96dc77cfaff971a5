----------------------- MODULE CommandQueueRefinement -----------------------
(***************************************************************************)
(* CommandQueue implements BoundedFifo, for every queue size and every set *)
(* of headers: each of its steps is a step of the abstract queue or leaves *)
(* it as it is.                                                            *)
(***************************************************************************)
EXTENDS CommandQueueProofs, SequenceTheorems

\* What the two ends hold: the producer's header is in the slot it publishes,
\* the consumer's copy is the slot it releases.
Copies ==
  /\ pc[Producer] = "publish" => slot[idx[Producer]] = obj[Producer]
  /\ pc[Producer] = "wakeLoad" /\ idx[Producer] # idxSeen[Producer] =>
       slot[idxSeen[Producer]] = obj[Producer]
  /\ pc[Consumer] = "publish" => op = "pull" /\ obj[Consumer] = slotSeen[idx[Consumer]]

RefInv == IndInv /\ Copies

-----------------------------------------------------------------------------
\* The slots between two indices of the ring: how many there are, which they
\* are, and that a step of either index adds the last or takes the first.
LEMMA RingArithmetic ==
  ASSUME NEW c \in Idx, NEW p \in Idx
  PROVE  /\ Filled(c, p) \in 0 .. QueueSize - 1
         /\ (Filled(c, p) = 0) <=> (c = p)
         /\ \A k \in 1 .. Filled(c, p) : SlotAt(c, k) \in Idx /\ SlotAt(c, k) # p
         /\ SlotAt(c, 1) = c
         /\ SlotAt(c, Filled(c, p) + 1) = p
         /\ queueIdxInc(p) # c => /\ Filled(c, queueIdxInc(p)) = Filled(c, p) + 1
                                  /\ Filled(c, p) < QueueSize - 1
         /\ c # p => /\ Filled(queueIdxInc(c), p) = Filled(c, p) - 1
                     /\ \A k \in 1 .. Filled(c, p) - 1 :
                          SlotAt(queueIdxInc(c), k) = SlotAt(c, k + 1)
BY QueueAssumption DEF Idx, Filled, SlotAt, queueIdxInc

\* The contents are a sequence; its head is the consumer's slot.
LEMMA ContentsLemma ==
  ASSUME TypeOK
  PROVE  /\ Contents \in Seq(Item \union {NoItem})
         /\ Len(Contents) = Filled(idx[Consumer], idxSeen[Producer])
         /\ idx[Consumer] # idxSeen[Producer] =>
              /\ Contents # <<>>
              /\ Head(Contents) = slotSeen[idx[Consumer]]
<1> DEFINE n == Filled(idx[Consumer], idxSeen[Producer])
<1>1. idx[Consumer] \in Idx /\ idxSeen[Producer] \in Idx
  BY EndLemma DEF TypeOK
<1>2. n \in Nat /\ \A k \in 1 .. n : SlotAt(idx[Consumer], k) \in Idx
  BY <1>1, RingArithmetic, QueueAssumption
<1>3. \A k \in 1 .. n : slotSeen[SlotAt(idx[Consumer], k)] \in Item \union {NoItem}
  BY <1>2 DEF TypeOK
<1>4. Contents \in Seq(Item \union {NoItem}) /\ Len(Contents) = n
  BY <1>2, <1>3 DEF Contents
<1>5. ASSUME idx[Consumer] # idxSeen[Producer]
      PROVE  Contents # <<>> /\ Head(Contents) = slotSeen[idx[Consumer]]
  <2>1. n >= 1
    BY <1>1, <1>2, <1>5, RingArithmetic
  <2>2. Contents[1] = slotSeen[idx[Consumer]]
    BY <1>1, <2>1, <1>2, RingArithmetic DEF Contents
  <2> QED
    BY <1>4, <2>1, <2>2
<1> QED
  BY <1>4, <1>5

\* A step that moves neither end and makes no filled slot visible keeps the contents.
LEMMA ContentsKept ==
  ASSUME TypeOK, idx'[Consumer] = idx[Consumer], idxSeen'[Producer] = idxSeen[Producer],
         \A i \in Idx : i # idxSeen[Producer] => slotSeen'[i] = slotSeen[i]
  PROVE  Contents' = Contents
<1>1. idx[Consumer] \in Idx /\ idxSeen[Producer] \in Idx
  BY EndLemma DEF TypeOK
<1>2. \A k \in 1 .. Filled(idx[Consumer], idxSeen[Producer]) :
        slotSeen'[SlotAt(idx[Consumer], k)] = slotSeen[SlotAt(idx[Consumer], k)]
  BY <1>1, RingArithmetic
<1> QED
  BY <1>2 DEF Contents, Filled, SlotAt

\* The producer's index becomes visible: its item enters at the end.
LEMMA ContentsAppended ==
  ASSUME RefInv, DrainIdx(Producer)
  PROVE  Contents' = Append(Contents, obj[Producer]) /\ Len(Contents) < QueueSize - 1
<1> DEFINE c == idx[Consumer]
           p == idxSeen[Producer]
           n == Filled(c, p)
<1>1. c \in Idx /\ p \in Idx
  BY EndLemma DEF RefInv, IndInv, TypeOK
<1>2. idx[Producer] = queueIdxInc(p) /\ queueIdxInc(p) # c
  BY EndLemma DEF RefInv, IndInv, InFlight, Ring, DrainIdx
<1>3. idx'[Consumer] = c /\ idxSeen'[Producer] = queueIdxInc(p) /\ slotSeen' = slotSeen
  BY <1>2, EndLemma DEF DrainIdx, RefInv, IndInv, TypeOK
<1>4. n \in Nat /\ Filled(c, queueIdxInc(p)) = n + 1 /\ n < QueueSize - 1
  BY <1>1, <1>2, RingArithmetic, QueueAssumption
<1>5. slotSeen[p] = obj[Producer]
  BY <1>1, EndLemma DEF RefInv, Copies, IndInv, InFlight, DrainIdx
<1>6. Contents' = [k \in 1 .. n + 1 |-> slotSeen[SlotAt(c, k)]]
  BY <1>3, <1>4 DEF Contents, Filled, SlotAt
<1>7. SlotAt(c, n + 1) = p
  BY <1>1, RingArithmetic
<1>8. Contents \in Seq(Item \union {NoItem}) /\ Len(Contents) = n
  BY ContentsLemma DEF RefInv, IndInv
<1>9. Contents = [k \in 1 .. n |-> slotSeen[SlotAt(c, k)]]
  BY DEF Contents
<1>10. Append(Contents, obj[Producer]) =
         [k \in 1 .. n + 1 |-> IF k = n + 1 THEN obj[Producer] ELSE Contents[k]]
  BY <1>4, <1>8
<1> HIDE DEF c, p, n
<1> QED
  BY <1>4, <1>5, <1>6, <1>7, <1>8, <1>9, <1>10

\* The consumer moves its index: the item it copied leaves at the front.
LEMMA ContentsTaken ==
  ASSUME RefInv, Release
  PROVE  /\ Contents # <<>> /\ obj[Consumer] = Head(Contents)
         /\ Contents' = Tail(Contents)
<1> DEFINE c == idx[Consumer]
           p == idxSeen[Producer]
           n == Filled(c, p)
<1>1. c \in Idx /\ p \in Idx /\ c # p
  BY EndLemma DEF RefInv, IndInv, TypeOK, Ring, Release, Goto
<1>2. Contents # <<>> /\ Head(Contents) = slotSeen[c] /\ Len(Contents) = n
      /\ Contents \in Seq(Item \union {NoItem})
  BY <1>1, ContentsLemma DEF RefInv, IndInv
<1>3. obj[Consumer] = slotSeen[c]
  BY DEF RefInv, Copies, Release, Goto
<1>4. idx'[Consumer] = queueIdxInc(c) /\ idxSeen'[Producer] = p /\ slotSeen' = slotSeen
  BY EndLemma DEF Release, RefInv, IndInv, TypeOK
<1>5. /\ n \in Nat /\ Filled(queueIdxInc(c), p) = n - 1
      /\ \A k \in 1 .. n - 1 : SlotAt(queueIdxInc(c), k) = SlotAt(c, k + 1)
  <2>1. n \in 0 .. QueueSize - 1
    BY <1>1, RingArithmetic
  <2>2. Filled(queueIdxInc(c), p) = n - 1
    BY <1>1, RingArithmetic
  <2>3. \A k \in 1 .. n - 1 : SlotAt(queueIdxInc(c), k) = SlotAt(c, k + 1)
    BY <1>1, RingArithmetic
  <2> QED
    BY <2>1, <2>2, <2>3, QueueAssumption
<1>6. Contents' = [k \in 1 .. n - 1 |-> slotSeen[SlotAt(queueIdxInc(c), k)]]
  <2>1. Contents' = [k \in 1 .. Filled(idx'[Consumer], idxSeen'[Producer]) |->
                      slotSeen'[SlotAt(idx'[Consumer], k)]]
    BY DEF Contents, Filled, SlotAt
  <2> QED
    BY <1>4, <1>5, <2>1
<1>7. \A k \in 1 .. n - 1 : Contents[k + 1] = slotSeen[SlotAt(c, k + 1)]
  BY <1>5 DEF Contents
<1>8. /\ Tail(Contents) \in Seq(Item \union {NoItem})
      /\ Len(Tail(Contents)) = n - 1
      /\ \A k \in 1 .. n - 1 : Tail(Contents)[k] = Contents[k + 1]
  BY <1>2, <1>5, HeadTailProperties
<1>9. /\ Contents' \in Seq(Item \union {NoItem})
      /\ Len(Contents') = n - 1
      /\ \A k \in 1 .. n - 1 : Contents'[k] = Contents[k + 1]
  <2>1. \A k \in 1 .. n - 1 : slotSeen[SlotAt(queueIdxInc(c), k)] \in Item \union {NoItem}
    BY <1>1, <1>5, RingArithmetic DEF RefInv, IndInv, TypeOK
  <2>2. n - 1 \in Nat
    BY <1>2, <1>5
  <2> QED
    BY <1>5, <1>6, <1>7, <2>1, <2>2
<1>10. Contents' = Tail(Contents)
  BY <1>8, <1>9, SeqEqual
<1> QED
  BY <1>2, <1>3, <1>10

-----------------------------------------------------------------------------
\* Every step keeps what the two ends hold.
LEMMA NextCopies == ASSUME RefInv, Next PROVE Copies'
<1> USE EndLemma, IncLemma DEF RefInv, Copies, IndInv, TypeOK, PC, Goto, words
<1>1. CASE \E x \in Item : Push(x)
  BY <1>1 DEF Push
<1>2. CASE \E o \in {"peek", "pull"} : Call(o)
  BY <1>2 DEF Call
<1>3. ASSUME NEW p \in End, Wait(p) \/ SliceEnds(p) PROVE Copies'
  BY <1>3 DEF Wait, Check, Spin, Arm, Recheck, Block, SliceEnds, Retest
<1>4. ASSUME NEW p \in End, Wake(p) PROVE Copies'
  BY <1>4 DEF Wake, WakeLoad, Signal
<1>5. CASE WriteSlot
  BY <1>5 DEF WriteSlot, InFlight
<1>6. CASE Publish
  BY <1>6 DEF Publish, Fence
<1>7. CASE ReadSlot
  BY <1>7 DEF ReadSlot
<1>8. CASE PeekReturns
  BY <1>8 DEF PeekReturns
<1>9. CASE Release
  BY <1>9 DEF Release
<1>10. ASSUME NEW p \in End, DrainIdx(p) \/ DrainSleeping(p) PROVE Copies'
  BY <1>10 DEF DrainIdx, DrainSleeping
<1>11. ASSUME NEW i \in Idx, DrainSlot(i) PROVE Copies'
  BY <1>11 DEF DrainSlot, InFlight, Ring
<1> HIDE DEF RefInv, Copies, IndInv, TypeOK, PC, Goto, words
<1> QED
  BY <1>1, <1>2, <1>3, <1>4, <1>5, <1>6, <1>7, <1>8, <1>9, <1>10, <1>11 DEF Next, Step, Drain

\* The first state is an empty queue without calls.
LEMMA InitFifo == Init => Fifo!Init
<1> SUFFICES ASSUME Init PROVE Fifo!Init
  OBVIOUS
<1>1. Filled(0, 0) = 0
  BY DEF Filled
<1>2. idx[Consumer] = 0 /\ idxSeen[Producer] = 0
  BY EndLemma DEF Init
<1>3. Contents = <<>>
  BY <1>1, <1>2 DEF Contents
<1> QED
  BY <1>3, EndLemma DEF Init, Fifo!Init, Fifo!Idle, Pushing, Pulling

\* Every step is one of the abstract queue, or leaves it as it is.
LEMMA StepFifo == ASSUME RefInv, Next PROVE Fifo!Next \/ UNCHANGED Fifo!fifoVars
<1> DEFINE Refined == Fifo!Next \/ UNCHANGED Fifo!fifoVars
<1> SUFFICES Refined
  OBVIOUS
<1> USE EndLemma DEF Fifo!fifoVars, Fifo!Next, Fifo!Idle, Fifo!Offered, Fifo!Stored, Fifo!Asked,
                     Fifo!Got, Pushing, Pulling, Goto, words, RefInv, IndInv, TypeOK, PC
<1>1. ASSUME NEW x \in Item, Push(x) PROVE Refined
  <2>1. Contents' = Contents
    BY <1>1, ContentsKept DEF Push
  <2> QED
    BY <1>1, <2>1 DEF Push, Fifo!Offer
<1>2. ASSUME NEW o \in {"peek", "pull"}, Call(o) PROVE Refined
  <2>1. Contents' = Contents
    BY <1>2, ContentsKept DEF Call
  <2> QED
    BY <1>2, <2>1 DEF Call, Fifo!Ask
<1>3. ASSUME NEW p \in End, Wait(p) \/ SliceEnds(p) PROVE Refined
  <2>1. Contents' = Contents
    BY <1>3, ContentsKept DEF Wait, Check, Spin, Arm, Recheck, Block, SliceEnds, Retest
  <2>2. CASE p = Producer
    BY <1>3, <2>1, <2>2
       DEF Wait, Check, Spin, Arm, Recheck, Block, SliceEnds, Retest, Fifo!PushFails
  <2>3. CASE p = Consumer
    BY <1>3, <2>1, <2>3
       DEF Wait, Check, Spin, Arm, Recheck, Block, SliceEnds, Retest, Fifo!PullTimesOut
  <2> QED
    BY <2>2, <2>3
<1>4. ASSUME NEW p \in End, Wake(p) PROVE Refined
  <2>1. Contents' = Contents
    BY <1>4, ContentsKept DEF Wake, WakeLoad, Signal
  <2>2. CASE p = Producer
    BY <1>4, <2>1, <2>2 DEF Wake, WakeLoad, Fence, Signal, Fifo!PushReturns
  <2>3. CASE p = Consumer
    BY <1>4, <2>1, <2>3 DEF Wake, WakeLoad, Signal, Fifo!PullReturns
  <2> QED
    BY <2>2, <2>3
<1>5. CASE WriteSlot
  <2>1. Contents' = Contents
    BY <1>5, ContentsKept DEF WriteSlot
  <2> QED
    BY <1>5, <2>1 DEF WriteSlot
<1>6. CASE Publish
  <2>1. Contents' = Contents
    BY <1>6, ContentsKept DEF Publish
  <2> QED
    BY <1>6, <2>1, IncLemma DEF Publish, Fence
<1>7. CASE ReadSlot
  <2>1. Contents' = Contents
    BY <1>7, ContentsKept DEF ReadSlot
  <2>2. Contents # <<>> /\ Head(Contents) = slotSeen[idx[Consumer]]
    BY <1>7, ContentsLemma DEF ReadSlot, Ring
  <2> QED
    BY <1>7, <2>1, <2>2 DEF ReadSlot, Fifo!Peek
<1>8. CASE PeekReturns
  <2>1. Contents' = Contents
    BY <1>8, ContentsKept DEF PeekReturns
  <2> QED
    BY <1>8, <2>1 DEF PeekReturns, Fifo!PullReturns
<1>9. CASE Release
  <2>1. /\ Contents # <<>> /\ obj[Consumer] = Head(Contents)
        /\ Contents' = Tail(Contents) /\ op = "pull"
    BY <1>9, ContentsTaken DEF Release, Copies
  <2> QED
    BY <1>9, <2>1 DEF Release, Fifo!Remove
<1>10. CASE DrainIdx(Producer)
  <2>1. Contents' = Append(Contents, obj[Producer]) /\ Len(Contents) < QueueSize - 1
    BY <1>10, ContentsAppended
  <2>2. pc[Producer] = "wakeLoad"
    BY <1>10 DEF DrainIdx, InFlight
  <2> QED
    BY <1>10, <2>1, <2>2 DEF DrainIdx, Fifo!Store
<1>11. CASE DrainIdx(Consumer)
  <2>1. Contents' = Contents
    BY <1>11, ContentsKept DEF DrainIdx
  <2> QED
    BY <1>11, <2>1 DEF DrainIdx
<1>12. ASSUME NEW p \in End, DrainSleeping(p) PROVE Refined
  <2>1. Contents' = Contents
    BY <1>12, ContentsKept DEF DrainSleeping
  <2> QED
    BY <1>12, <2>1 DEF DrainSleeping
<1>13. ASSUME NEW i \in Idx, DrainSlot(i) PROVE Refined
  <2>1. i = idxSeen[Producer]
    BY <1>13 DEF DrainSlot, InFlight
  <2>2. Contents' = Contents
    BY <1>13, <2>1, ContentsKept DEF DrainSlot
  <2> QED
    BY <1>13, <2>2 DEF DrainSlot
<1>14. ASSUME NEW p \in End, DrainIdx(p) PROVE Refined
  BY <1>10, <1>11, <1>14
<1> HIDE DEF Refined, Fifo!fifoVars, Fifo!Next, Pushing, Pulling, Goto, words, RefInv, IndInv, TypeOK, PC
<1> QED
  <2>1. ASSUME NEW p \in End, Step(p) \/ SliceEnds(p) PROVE Refined
    BY <1>3, <1>4, <1>5, <1>6, <1>7, <1>8, <1>9, <2>1 DEF Step
  <2>2. CASE Drain
    BY <1>12, <1>13, <1>14, <2>2 DEF Drain
  <2> QED
    BY <1>1, <1>2, <2>1, <2>2 DEF Next

\* What the two ends hold is true in every reachable state.
LEMMA RefInvariant == Spec => []RefInv
<1>1. Init => Copies
  BY EndLemma DEF Init, Copies
<1>2. RefInv /\ [Next]_vars => Copies'
  <2>1. RefInv /\ UNCHANGED vars => Copies'
    BY DEF vars, words, RefInv, Copies
  <2> QED
    BY <2>1, NextCopies
<1>3. RefInv <=> IndInv /\ Copies
  BY DEF RefInv
<1> QED
  BY <1>1, <1>2, <1>3, IndInvariant, PTL DEF Spec

\* CommandQueue implements BoundedFifo: a push stores its header exactly once or
\* not at all, a pull returns the oldest, on a memory that delays every store.
THEOREM Refinement == Spec => ImplementsFifo
<1>1. RefInv /\ [Next]_vars => [Fifo!Next]_(Fifo!fifoVars)
  <2>1. RefInv /\ UNCHANGED vars => UNCHANGED Fifo!fifoVars
    BY DEF vars, words, Fifo!fifoVars, Contents, Pushing, Pulling
  <2> QED
    BY <2>1, StepFifo
<1> QED
  BY <1>1, InitFifo, RefInvariant, PTL DEF Spec, ImplementsFifo, Fifo!Spec
=============================================================================
