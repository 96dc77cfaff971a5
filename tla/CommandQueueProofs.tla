------------------------- MODULE CommandQueueProofs -------------------------
(***************************************************************************)
(* The safety of CommandQueue for every queue size, every set of headers   *)
(* and every choice of time limits, slices and missing events.             *)
(***************************************************************************)
EXTENDS CommandQueue, TLAPS

\* An index has one successor and one predecessor in the ring, and, with at
\* least two slots, is not its own successor.  (queueIdxInc.)
LEMMA IncLemma ==
  /\ \A i \in Idx : queueIdxInc(i) \in Idx /\ queueIdxInc(i) # i
  /\ \A i, j \in Idx : queueIdxInc(i) = queueIdxInc(j) => i = j
BY QueueAssumption DEF Idx, queueIdxInc

\* The two ends are distinct and each is the other's other.
LEMMA EndLemma ==
  /\ Producer \in End /\ Consumer \in End /\ Producer # Consumer
  /\ \A p \in End : Other(p) \in End /\ Other(p) # p /\ (p = Producer \/ p = Consumer)
  /\ Other(Producer) = Consumer /\ Other(Consumer) = Producer
BY DEF End, Producer, Consumer, Other

\* The first state satisfies the inductive invariant.
LEMMA InitIndInv == Init => IndInv
<1> SUFFICES ASSUME Init PROVE IndInv
  OBVIOUS
<1> USE EndLemma, QueueAssumption
<1>1. TypeOK
  <2>1. opened \in [End -> [End -> BOOLEAN]]
    BY DEF Init
  <2>2. 0 \in Idx
    BY DEF Idx
  <2> QED
    BY <2>1, <2>2 DEF Init, TypeOK, PC
<1>2. InFlight
  BY DEF Init, InFlight
<1>3. Ring
  BY DEF Init, Ring
<1>4. NoLostWakeup
  BY DEF Init, NoLostWakeup
<1> QED
  BY <1>1, <1>2, <1>3, <1>4 DEF IndInv

\* Every step keeps the types.
LEMMA NextTypeOK == TypeOK /\ Next => TypeOK'
<1> SUFFICES ASSUME TypeOK, Next PROVE TypeOK'
  OBVIOUS
<1> USE EndLemma, IncLemma DEF TypeOK, PC, Goto, words
<1>1. CASE \E x \in Item : Push(x)
  BY <1>1 DEF Push
<1>2. CASE \E o \in {"peek", "pull"} : Call(o)
  BY <1>2 DEF Call
<1>3. ASSUME NEW p \in End, Wait(p) \/ SliceEnds(p) PROVE TypeOK'
  BY <1>3 DEF Wait, Check, Spin, Arm, Recheck, Block, SliceEnds, Retest
<1>4. ASSUME NEW p \in End, Wake(p) PROVE TypeOK'
  BY <1>4 DEF Wake, WakeLoad, Signal
<1>5. CASE WriteSlot
  BY <1>5 DEF WriteSlot
<1>6. CASE Publish
  BY <1>6 DEF Publish
<1>7. CASE ReadSlot
  BY <1>7 DEF ReadSlot
<1>8. CASE PeekReturns
  BY <1>8 DEF PeekReturns
<1>9. CASE Release
  BY <1>9 DEF Release
<1>10. CASE Drain
  BY <1>10 DEF Drain, DrainIdx, DrainSleeping, DrainSlot
<1> HIDE DEF TypeOK, PC, Goto, words
<1> QED
  BY <1>1, <1>2, <1>3, <1>4, <1>5, <1>6, <1>7, <1>8, <1>9, <1>10 DEF Next, Step

\* Every step keeps what may be in flight.
LEMMA NextInFlight == TypeOK /\ InFlight /\ Next => InFlight'
<1> SUFFICES ASSUME TypeOK /\ InFlight, Next PROVE InFlight'
  OBVIOUS
<1> USE EndLemma, IncLemma DEF TypeOK, PC, Goto, words, InFlight
<1>1. CASE \E x \in Item : Push(x)
  BY <1>1 DEF Push
<1>2. CASE \E o \in {"peek", "pull"} : Call(o)
  BY <1>2 DEF Call
<1>3. ASSUME NEW p \in End, Check(p) \/ Spin(p) \/ Retest(p) PROVE InFlight'
  BY <1>3 DEF Check, Spin, Retest
<1>4. ASSUME NEW p \in End, Arm(p) PROVE InFlight'
  BY <1>4 DEF Arm
<1>5. ASSUME NEW p \in End, Recheck(p) PROVE InFlight'
  BY <1>5 DEF Recheck, Fence
<1>6. ASSUME NEW p \in End, Block(p) \/ SliceEnds(p) PROVE InFlight'
  BY <1>6 DEF Block, SliceEnds
<1>7. ASSUME NEW p \in End, WakeLoad(p) PROVE InFlight'
  BY <1>7 DEF WakeLoad, Fence
<1>8. ASSUME NEW p \in End, Signal(p) PROVE InFlight'
  BY <1>8 DEF Signal
<1>9. CASE WriteSlot
  BY <1>9 DEF WriteSlot
<1>10. CASE Publish
  BY <1>10 DEF Publish, Fence
<1>11. CASE ReadSlot
  BY <1>11 DEF ReadSlot, Fence
<1>12. CASE PeekReturns
  BY <1>12 DEF PeekReturns
<1>13. CASE Release
  BY <1>13 DEF Release
<1>14. ASSUME NEW p \in End, DrainIdx(p) PROVE InFlight'
  BY <1>14 DEF DrainIdx
<1>15. ASSUME NEW p \in End, DrainSleeping(p) PROVE InFlight'
  BY <1>15 DEF DrainSleeping
<1>16. ASSUME NEW i \in Idx, DrainSlot(i) PROVE InFlight'
  BY <1>16 DEF DrainSlot
<1> HIDE DEF TypeOK, PC, Goto, words, InFlight
<1> QED
  BY <1>1, <1>2, <1>3, <1>4, <1>5, <1>6, <1>7, <1>8, <1>9, <1>10, <1>11, <1>12, <1>13,
     <1>14, <1>15, <1>16 DEF Next, Step, Wait, Wake, Drain

\* Every step keeps the ring: neither end overtakes the other.
LEMMA NextRing == TypeOK /\ InFlight /\ Ring /\ Next => Ring'
<1> SUFFICES ASSUME TypeOK /\ InFlight /\ Ring, Next PROVE Ring'
  OBVIOUS
<1> USE EndLemma, IncLemma DEF TypeOK, PC, Goto, words, InFlight, Ring
<1>1. CASE \E x \in Item : Push(x)
  BY <1>1 DEF Push
<1>2. CASE \E o \in {"peek", "pull"} : Call(o)
  BY <1>2 DEF Call
<1>3. ASSUME NEW p \in End, Check(p) \/ Spin(p) \/ Retest(p) PROVE Ring'
  BY <1>3 DEF Check, Spin, Retest, Ready
<1>4. ASSUME NEW p \in End, Arm(p) PROVE Ring'
  BY <1>4 DEF Arm
<1>5. ASSUME NEW p \in End, Recheck(p) PROVE Ring'
  BY <1>5 DEF Recheck, Fence, Ready
<1>6. ASSUME NEW p \in End, Block(p) \/ SliceEnds(p) PROVE Ring'
  BY <1>6 DEF Block, SliceEnds
<1>7. ASSUME NEW p \in End, WakeLoad(p) PROVE Ring'
  BY <1>7 DEF WakeLoad, Fence
<1>8. ASSUME NEW p \in End, Signal(p) PROVE Ring'
  BY <1>8 DEF Signal
<1>9. CASE WriteSlot
  BY <1>9 DEF WriteSlot
<1>10. CASE Publish
  BY <1>10 DEF Publish, Fence
<1>11. CASE ReadSlot
  BY <1>11 DEF ReadSlot, Fence
<1>12. CASE PeekReturns
  BY <1>12 DEF PeekReturns
<1>13. CASE Release
  BY <1>13 DEF Release
<1>14. ASSUME NEW p \in End, DrainIdx(p) PROVE Ring'
  BY <1>14 DEF DrainIdx
<1>15. ASSUME NEW p \in End, DrainSleeping(p) PROVE Ring'
  BY <1>15 DEF DrainSleeping
<1>16. ASSUME NEW i \in Idx, DrainSlot(i) PROVE Ring'
  BY <1>16 DEF DrainSlot
<1> HIDE DEF TypeOK, PC, Goto, words, InFlight, Ring
<1> QED
  BY <1>1, <1>2, <1>3, <1>4, <1>5, <1>6, <1>7, <1>8, <1>9, <1>10, <1>11, <1>12, <1>13,
     <1>14, <1>15, <1>16 DEF Next, Step, Wait, Wake, Drain

\* No step loses a wake-up.
LEMMA NextNoLostWakeup == IndInv /\ Next => NoLostWakeup'
<1> SUFFICES ASSUME IndInv, Next PROVE NoLostWakeup'
  OBVIOUS
<1> USE EndLemma, IncLemma DEF IndInv, TypeOK, PC, Goto, words, InFlight, NoLostWakeup, Ready
<1>1. CASE \E x \in Item : Push(x)
  BY <1>1 DEF Push
<1>2. CASE \E o \in {"peek", "pull"} : Call(o)
  BY <1>2 DEF Call
<1>3. ASSUME NEW p \in End, Check(p) \/ Spin(p) \/ Retest(p) PROVE NoLostWakeup'
  BY <1>3 DEF Check, Spin, Retest
<1>4. ASSUME NEW p \in End, Arm(p) PROVE NoLostWakeup'
  BY <1>4 DEF Arm
<1>5. ASSUME NEW p \in End, Recheck(p) PROVE NoLostWakeup'
  BY <1>5 DEF Recheck, Fence
<1>6. ASSUME NEW p \in End, Block(p) \/ SliceEnds(p) PROVE NoLostWakeup'
  BY <1>6 DEF Block, SliceEnds
<1>7. ASSUME NEW p \in End, WakeLoad(p) PROVE NoLostWakeup'
  BY <1>7 DEF WakeLoad, Fence
<1>8. ASSUME NEW p \in End, Signal(p) PROVE NoLostWakeup'
  BY <1>8 DEF Signal
<1>9. CASE WriteSlot
  BY <1>9 DEF WriteSlot
<1>10. CASE Publish
  BY <1>10 DEF Publish, Fence
<1>11. CASE ReadSlot
  BY <1>11 DEF ReadSlot, Fence
<1>12. CASE PeekReturns
  BY <1>12 DEF PeekReturns
<1>13. CASE Release
  BY <1>13 DEF Release
<1>14. ASSUME NEW p \in End, DrainIdx(p) PROVE NoLostWakeup'
  BY <1>14 DEF DrainIdx
<1>15. ASSUME NEW p \in End, DrainSleeping(p) PROVE NoLostWakeup'
  BY <1>15 DEF DrainSleeping
<1>16. ASSUME NEW i \in Idx, DrainSlot(i) PROVE NoLostWakeup'
  BY <1>16 DEF DrainSlot
<1> HIDE DEF TypeOK, PC, Goto, words, InFlight, NoLostWakeup, Ready
<1> QED
  BY <1>1, <1>2, <1>3, <1>4, <1>5, <1>6, <1>7, <1>8, <1>9, <1>10, <1>11, <1>12, <1>13,
     <1>14, <1>15, <1>16 DEF Next, Step, Wait, Wake, Drain

-----------------------------------------------------------------------------
\* The inductive invariant holds in every reachable state.
THEOREM IndInvariant == Spec => []IndInv
<1>1. IndInv /\ [Next]_vars => IndInv'
  <2> SUFFICES ASSUME IndInv, [Next]_vars PROVE IndInv'
    OBVIOUS
  <2>1. CASE Next
    BY <2>1, NextTypeOK, NextInFlight, NextRing, NextNoLostWakeup DEF IndInv
  <2>2. CASE UNCHANGED vars
    BY <2>2 DEF vars, words, IndInv, TypeOK, InFlight, Ring, NoLostWakeup, Ready
  <2> QED
    BY <2>1, <2>2
<1> QED
  BY <1>1, InitIndInv, PTL DEF Spec

\* Every variable keeps its type, so no index ever leaves the slot array.
THEOREM TypeCorrect == Spec => []TypeOK
<1>1. IndInv => TypeOK
  BY DEF IndInv
<1> QED
  BY <1>1, IndInvariant, PTL

\* No wake-up is lost: an end blocked although it could go on is being woken.
THEOREM WakeupsArrive == Spec => []NoLostWakeup
<1>1. IndInv => NoLostWakeup
  BY DEF IndInv
<1> QED
  BY <1>1, IndInvariant, PTL

\* The consumer copies complete headers, and never one that is being stored.
THEOREM SlotsIntact == Spec => []SlotIntegrity
<1>1. IndInv => SlotIntegrity
  <2> SUFFICES ASSUME IndInv, pc[Consumer] \in {"go", "publish"} PROVE
        /\ slotSeen[idx[Consumer]] = slot[idx[Consumer]]
        /\ pc[Producer] \in {"go", "publish"} => idx[Producer] # idx[Consumer]
    BY DEF SlotIntegrity
  <2>1. idx[Consumer] # idx[Producer]
    BY DEF IndInv, Ring
  <2>2. idx[Consumer] \in Idx
    BY EndLemma DEF IndInv, TypeOK
  <2> QED
    BY <2>1, <2>2 DEF IndInv, InFlight
<1> QED
  BY <1>1, IndInvariant, PTL

\* "Empty" is never said of a queue that holds an item whose push has returned.
THEOREM EmptyIsEmpty == Spec => []EmptyMeansTaken
<1>1. IndInv => EmptyMeansTaken
  <2> SUFFICES ASSUME IndInv PROVE EmptyMeansTaken
    OBVIOUS
  <2>1. pc[Producer] = "idle" => idx[Producer] = idxSeen[Producer]
    BY EndLemma DEF IndInv, InFlight
  <2> QED
    BY <2>1 DEF IndInv, Ring, EmptyMeansTaken
<1> QED
  BY <1>1, IndInvariant, PTL
=============================================================================
