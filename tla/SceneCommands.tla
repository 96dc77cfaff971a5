--------------------------- MODULE SceneCommands ---------------------------
(***************************************************************************)
(* Retained commands of the Remix API: API threads push batches into the   *)
(* SceneQueue without a lock, and everything else they do goes through the *)
(* command stream (CsThread).  DrawRetainedInstances pushes a batch with a *)
(* frame marker and emits a drain; DestroyMesh, DestroyMaterial and the    *)
(* injection of a Present drain before they act.  A drain applies batches  *)
(* up to the number issued when it was emitted, and one frame marker per   *)
(* device frame, two when one was held over.                               *)
(***************************************************************************)
EXTENDS SceneQueue, CsThread, FiniteSets, SequencesExt

CONSTANTS
  Host, Game,   \* threads that also draw retained instances and destroy meshes,
                \* and those that call D3D9
  MaxCommands   \* bound on the number of commands emitted

ASSUME SceneAssumption ==
  /\ Host \union Game \subseteq Thread /\ NoThread \notin Thread
  /\ MaxCommands \in Nat

VARIABLES
  sMutex,      \* the thread that holds s_mutex
  ticket,      \* ticket[t]: the bound t took, and the batches queued before its call
  drawing,     \* threads in DrawRetainedInstances
  markers,     \* batches with a frame marker
  emittedAt,   \* emittedAt[b]: how many commands were emitted before b was pushed (history)
  closing,     \* the device is being destroyed
  bound,       \* m_sceneCommandsApplied
  frame,       \* the device frame (m_remixFrameId)
  markerFrame, markersApplied, markerLimit, markerHeld,  \* the m_sceneFrameMarker members
  applied      \* the batches applied, in order (history)

calls == <<sMutex, ticket, drawing, markers, emittedAt, closing>>
drain == <<bound, frame, markerFrame, markersApplied, markerLimit, markerHeld, applied>>
vars == <<queueVars, csVars, calls, drain>>

NoTicket == [bound |-> 0, queued |-> {}]

-----------------------------------------------------------------------------
(* The API threads *)

\* Bound of the model: the commands emitted, and those that calls will emit.
MayEmit == emitted + Cardinality(drawing) < MaxCommands

\* pushSceneCommands
Push(t, isMarker) ==
  /\ ~closing
  /\ TakeNumber(t)
  /\ isMarker => MayEmit
  /\ markers' = IF isMarker THEN markers \union {issued + 1} ELSE markers
  /\ drawing' = IF isMarker THEN drawing \union {t} ELSE drawing
  /\ emittedAt' = [emittedAt EXCEPT ![issued + 1] = emitted]
  /\ UNCHANGED <<csVars, sMutex, ticket, closing, drain>>

PushGoesOn(t) ==
  /\ \/ Exchange(t)
     \/ Link(t, IF t \in drawing THEN "lock" ELSE "idle")
  /\ UNCHANGED <<csVars, calls, drain>>

\* DestroyMesh, DestroyMaterial, and what follows the push of DrawRetainedInstances:
\* under s_mutex the bound is taken, then the command is emitted.
LockApi(t) ==
  /\ \/ Goes(t, "lock", "emit")
     \/ Goes(t, "idle", "emit") /\ ~closing /\ MayEmit
  /\ sMutex = NoThread /\ sMutex' = t
  /\ ticket' = [ticket EXCEPT ![t] = [bound |-> issued, queued |-> Returned]]
  /\ UNCHANGED <<consumer, head, next, previous, order, issued, pushing, csVars, drawing,
                 markers, emittedAt, closing, drain>>

EmitDrain(t) ==
  /\ Goes(t, "emit", "idle")
  /\ EmitCs([kind |-> IF t \in drawing THEN "draw" ELSE "destroy",
             bound |-> ticket[t].bound, queued |-> ticket[t].queued])
  /\ sMutex' = NoThread
  /\ drawing' = drawing \ {t}
  /\ ticket' = [ticket EXCEPT ![t] = NoTicket]
  /\ UNCHANGED <<consumer, head, next, previous, order, issued, pushing, syncing, execution,
                 stopped, markers, emittedAt, closing, drain>>

\* Present: the injection takes its bound under the device lock alone.
Present(t) ==
  /\ step[t] = "idle" /\ ~closing /\ MayEmit
  /\ EmitCs([kind |-> "present", bound |-> issued, queued |-> Returned])
  /\ UNCHANGED <<queueVars, syncing, execution, stopped, calls, drain>>

Synchronize(t, destroys) ==
  /\ ~closing /\ closing' = destroys
  /\ destroys => \A u \in Thread : step[u] = "idle"
  /\ Goes(t, "idle", "synchronize")
  /\ SynchronizeCsThread(t)
  /\ UNCHANGED <<consumer, head, next, previous, order, issued, pushing, sMutex, ticket,
                 drawing, markers, emittedAt, drain>>

Waits(t) ==
  /\ step[t] = "synchronize" /\ Sleep(t)
  /\ UNCHANGED <<queueVars, calls, drain>>

\* The device's destructor goes on to stop the thread.
Returns(t) ==
  /\ Synchronized(t)
  /\ Goes(t, "synchronize", IF closing THEN "stop" ELSE "idle")
  /\ UNCHANGED <<consumer, head, next, previous, order, issued, pushing, calls, drain>>

StopThread(t) ==
  /\ Stop
  /\ Goes(t, "stop", "gone")
  /\ UNCHANGED <<consumer, head, next, previous, order, issued, pushing, calls, drain>>

ThreadSteps(t) ==
  PushGoesOn(t) \/ (step[t] = "lock" /\ LockApi(t)) \/ EmitDrain(t) \/ Waits(t) \/ Returns(t) \/ StopThread(t)

-----------------------------------------------------------------------------
(* The render thread: drainSceneCommands *)

\* The first drain of a device frame sets its limit of markers.
DrainBegins ==
  /\ csStep = "run" /\ csStep' = "drain"
  /\ bound' = IF Head(commands).bound > bound THEN Head(commands).bound ELSE bound
  /\ IF markerFrame = frame THEN UNCHANGED <<markerFrame, markersApplied, markerLimit>>
     ELSE /\ markerFrame' = frame /\ markersApplied' = 0
          /\ markerLimit' = IF markerHeld THEN 2 ELSE 1
  /\ popStep' = IF popped = None THEN "load" ELSE "found"
  /\ UNCHANGED <<producer, tail, popped, before, head, next, previous, order, stream, syncing,
                 running, commands, chunksExecuted, executed, stopped, emitted, calls,
                 frame, markerHeld, applied>>

Pops ==
  /\ csStep = "drain" /\ PopBatch
  /\ UNCHANGED <<csVars, calls, drain>>

\* popUpTo's conditions: within the bound, and ready.
PastNewest == popped > issued
AtBound == popped >= bound
PastBound == popped > bound
AnyMarker == TRUE
Ready == popped \notin markers \/ markersApplied < markerLimit

Applies ==
  /\ csStep = "drain" /\ popStep = "found" /\ ~PastBound /\ Ready
  /\ applied' = Append(applied, popped)
  /\ popped' = None /\ popStep' = "load"
  /\ IF popped \in markers THEN markersApplied' = markersApplied + 1 /\ markerHeld' = FALSE
                           ELSE UNCHANGED <<markersApplied, markerHeld>>
  /\ UNCHANGED <<producer, tail, before, head, next, previous, order, csVars, calls, bound,
                 frame, markerFrame, markerLimit>>

\* Nothing, a batch past the bound, or one that waits for the next device frame.
\* Then the command does the rest; a Present ends the device frame.
DrainEnds ==
  /\ csStep = "drain"
  /\ \/ popStep = "nothing" /\ UNCHANGED markerHeld
     \/ popStep = "found" /\ PastBound /\ UNCHANGED markerHeld
     \/ popStep = "found" /\ ~PastBound /\ ~Ready /\ markerHeld' = TRUE
  /\ popStep' = "done"
  /\ frame' = IF Head(commands).kind = "present" THEN frame + 1 ELSE frame
  /\ CommandOver
  /\ UNCHANGED <<producer, tail, popped, before, head, next, previous, order, calls, bound,
                 markerFrame, markersApplied, markerLimit, applied>>

Drain == DrainBegins \/ Pops \/ Applies \/ DrainEnds
RenderThread ==
  Drain \/ ((CountChunk \/ Wakes \/ EndOfThread) /\ UNCHANGED <<queueVars, calls, drain>>)

-----------------------------------------------------------------------------
Init ==
  /\ QueueInit /\ CsInit(Thread)
  /\ sMutex = NoThread /\ ticket = [t \in Thread |-> NoTicket] /\ drawing = {} /\ markers = {}
  /\ emittedAt = [b \in Batch |-> 0] /\ closing = FALSE
  /\ bound = 0 /\ frame = 0 /\ markerFrame = None
  /\ markersApplied = 0 /\ markerLimit = 1 /\ markerHeld = FALSE
  /\ applied = <<>>

HostCalls(t) == Push(t, TRUE) \/ LockApi(t)
GameCalls(t) == Present(t) \/ \E destroys \in BOOLEAN : Synchronize(t, destroys)

Next ==
  \/ \E t \in Host : HostCalls(t)
  \/ \E t \in Game : GameCalls(t)
  \/ \E t \in Thread : Push(t, FALSE) \/ ThreadSteps(t)
  \/ RenderThread
Spec == Init /\ [][Next]_vars

\* The render thread runs, and a thread inside a call goes on.
FairSpec == Spec /\ WF_vars(RenderThread) /\ \A t \in Thread : WF_vars(ThreadSteps(t))

-----------------------------------------------------------------------------
(* Properties *)

\* The queue: nodes and batches, the producers' steps and the consumer's.
Popping == {"load", "testHead", "pushStub", "linkStub", "loadAgain"}
QueueTypes ==
  /\ issued \in 0 .. MaxBatches /\ head \in Node /\ tail \in Node
  /\ next \in [Node -> Node \union {None}]
  /\ popped \in Batch \union {None} /\ before \in Node \union {None}
  /\ step \in [Thread -> {"idle", "exchange", "link", "lock", "emit", "synchronize", "stop", "gone"}]
  /\ pushing \in [Thread -> Batch \union {None}]
  /\ previous \in [Thread -> Node \union {None}]
  /\ popStep \in Popping \union {"found", "nothing", "done"}
  /\ order \in Seq(Batch) /\ applied \in Seq(Batch)

\* The command stream: what is emitted, and how far the threads are with it.
Command == [kind : {"draw", "destroy", "present"}, bound : Nat, queued : SUBSET Batch]
StreamTypes ==
  /\ chunk \in Seq(Command) /\ commands \in Seq(Command) /\ chunksQueued \in Seq(Seq(Command))
  /\ {emitted, executed, chunksExecuted, chunksDispatched} \subseteq Nat
  /\ running \in BOOLEAN /\ stopped \in BOOLEAN /\ closing \in BOOLEAN
  /\ csStep \in {"loop", "wait", "run", "drain", "ended"}
  /\ ticket \in [Thread -> [bound : Nat, queued : SUBSET Batch]]
  /\ emittedAt \in [Batch -> Nat]
  /\ deviceLock \in Thread \union {NoThread} /\ asleep \subseteq Thread
  /\ waitsFor \in [Thread -> Nat] /\ \A t \in Thread : waitsFor[t] <= chunksDispatched

\* The calls and their frames.
CallTypes ==
  /\ sMutex \in Thread \union {NoThread} /\ drawing \subseteq Thread
  /\ markers \subseteq 1 .. issued
  /\ frame \in Nat /\ markerFrame \in 0 .. frame \union {None} /\ markerHeld \in BOOLEAN

\* Every variable has its type, and the counters keep to their limits: nothing is
\* executed before it is dispatched, waited for before that, drained before it is
\* issued, or marked past the frame's limit.
TypeOK ==
  /\ QueueTypes /\ StreamTypes /\ CallTypes
  /\ chunksExecuted <= chunksDispatched /\ bound \in 0 .. issued
  /\ markerLimit \in {1, 2} /\ markersApplied \in 0 .. markerLimit

\* "Batches from one thread stay in that thread's order", and the render thread
\* loses none and applies none twice, however the producers' and its own stores
\* interleave: the batches applied, the one popped, and those the list leads to,
\* are the batches in the order of their exchanges.
Done == IF popped = None THEN applied ELSE Append(applied, popped)
BatchesKept ==
  /\ IsPrefix(Done, order)
  /\ Chain(SubSeq(order, Len(Done) + 1, Len(order)))

\* "However far the render thread runs behind", a batch applies after every call
\* on the command stream that was made before the batch was pushed.
AppliedAfterEarlierCalls ==
  [][applied' # applied => emittedAt[Last(applied')] <= executed]_vars

\* The batches a drain leaves although they were queued before its call.
Left == Head(commands).queued \ ToSet(applied)

\* A drain applies every batch that was queued before its call, unless a frame
\* marker waits for the next device frame, or the next batch in line, or the one
\* behind it that would let it leave, was not wholly pushed at that call.
DrainIsComplete ==
  [][DrainEnds /\ ~markerHeld' /\ Left # {} =>
       \E k \in DOMAIN order \ DOMAIN applied :
         k <= Len(applied) + 2 /\ order[k] \notin Head(commands).queued]_vars

\* "Retained commands queued before this call (the destroys of the mesh's
\* instances) apply first": the mesh is destroyed after them.
RetainedApplyFirst ==
  [][DrainEnds /\ Head(commands).kind = "destroy" => Left = {}]_vars

\* SynchronizeCsThread returns when every command emitted so far is executed, and
\* the device's destruction drops none.
SynchronizedMeansExecuted ==
  \A t \in Thread :
    (step[t] = "synchronize" /\ t \notin asleep /\ chunksExecuted >= waitsFor[t]) \/ stopped =>
      executed = emitted

\* Every wait for the command stream ends: a notification of one thread is enough.
SynchronizeReturns == \A t \in Thread : (step[t] = "synchronize") ~> (step[t] # "synchronize")
=============================================================================
