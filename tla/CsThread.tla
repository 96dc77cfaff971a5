------------------------------ MODULE CsThread ------------------------------
(***************************************************************************)
(* DxvkCsThread and the chunks a device fills for it: commands are         *)
(* appended to the device's chunk under the device lock; a full chunk, or  *)
(* a flush, goes to the queue of the command stream thread, which executes *)
(* the chunks one after the other.  SynchronizeCsThread waits until all of *)
(* them are executed, and holds the device lock meanwhile.                 *)
(***************************************************************************)
EXTENDS Naturals, Sequences

CONSTANT ChunkCap  \* commands that fill a chunk

ASSUME ChunkAssumption == ChunkCap \in Nat \ {0}

VARIABLES
  deviceLock,        \* the thread in SynchronizeCsThread, if any
  chunk,             \* m_csChunk
  chunksQueued, chunksDispatched, chunksExecuted, stopped,  \* the members of the same names
  waitsFor,          \* waitsFor[t]: the chunk number t waits for in synchronize
  asleep,            \* threads waiting on m_condOnSync
  csStep,            \* the step of the command stream thread
  running,           \* it holds a chunk
  commands,          \* what it has still to execute of that chunk
  emitted, executed  \* commands emitted and executed so far (history)

stream == <<chunk, chunksQueued, chunksDispatched>>
syncing == <<deviceLock, waitsFor, asleep>>
execution == <<csStep, running, commands, chunksExecuted, executed>>
csVars == <<stream, syncing, execution, stopped, emitted>>

NoThread == "none"

-----------------------------------------------------------------------------
(* The device *)

\* dispatchChunk; the notification finds at most the one thread, which tests its
\* condition under the same mutex.
Dispatch(c) ==
  /\ chunksQueued' = Append(chunksQueued, c)
  /\ chunksDispatched' = chunksDispatched + 1

\* EmitCs: into the current chunk, or into a new one when it is full.
EmitCs(command) ==
  /\ deviceLock = NoThread
  /\ \/ Len(chunk) < ChunkCap /\ chunk' = Append(chunk, command)
        /\ UNCHANGED <<chunksQueued, chunksDispatched>>
     \/ Len(chunk) = ChunkCap /\ Dispatch(chunk) /\ chunk' = <<command>>
  /\ emitted' = emitted + 1

\* SynchronizeCsThread: the lock, FlushCsChunk, and the number of chunks dispatched.
FlushCsChunk ==
  /\ chunk' = <<>>
  /\ IF chunk = <<>> THEN UNCHANGED <<chunksQueued, chunksDispatched>> ELSE Dispatch(chunk)

SynchronizeUnlocked(t) ==
  /\ FlushCsChunk
  /\ waitsFor' = [waitsFor EXCEPT ![t] = chunksDispatched']
  /\ UNCHANGED <<deviceLock, asleep, execution, stopped, emitted>>
SynchronizeCsThread(t) ==
  /\ deviceLock = NoThread /\ deviceLock' = t
  /\ FlushCsChunk
  /\ waitsFor' = [waitsFor EXCEPT ![t] = chunksDispatched']
  /\ UNCHANGED <<asleep, execution, stopped, emitted>>

\* The wait on m_condOnSync: sleep until the chunk is executed ...
Sleep(t) ==
  /\ t \notin asleep /\ chunksExecuted < waitsFor[t]
  /\ asleep' = asleep \union {t}
  /\ UNCHANGED <<deviceLock, waitsFor, stream, execution, stopped, emitted>>

\* ... and let the device go.
Synchronized(t) ==
  /\ t \notin asleep /\ chunksExecuted >= waitsFor[t]
  /\ deviceLock' = NoThread /\ waitsFor' = [waitsFor EXCEPT ![t] = 0]
  /\ UNCHANGED <<asleep, stream, execution, stopped, emitted>>

\* ~DxvkCsThread
Stop ==
  /\ stopped' = TRUE
  /\ UNCHANGED <<stream, syncing, execution, emitted>>

-----------------------------------------------------------------------------
(* threadFunc *)

TakeChunk ==
  /\ running' = TRUE
  /\ commands' = Head(chunksQueued) /\ chunksQueued' = Tail(chunksQueued)
  /\ csStep' = "run"

\* notify_one: one of the sleepers.
NotifyOne ==
  IF asleep = {} THEN UNCHANGED asleep ELSE \E t \in asleep : asleep' = asleep \ {t}

CountsAtTake ==
  /\ csStep = "loop" /\ ~stopped
  /\ IF chunksQueued # <<>> THEN TakeChunk /\ chunksExecuted' = chunksExecuted + 1 /\ NotifyOne
     ELSE csStep' = "wait" /\ running' = FALSE /\ UNCHANGED <<commands, chunksQueued, chunksExecuted, asleep>>
  /\ UNCHANGED <<chunk, chunksDispatched, deviceLock, waitsFor, executed, stopped, emitted>>
\* The chunk that was executed is counted; then the next one, or a wait.
CountChunk ==
  /\ csStep = "loop" /\ ~stopped
  /\ IF running THEN chunksExecuted' = chunksExecuted + 1 /\ NotifyOne
                ELSE UNCHANGED <<chunksExecuted, asleep>>
  /\ IF chunksQueued # <<>> THEN TakeChunk
     ELSE csStep' = "wait" /\ running' = FALSE /\ UNCHANGED <<commands, chunksQueued>>
  /\ UNCHANGED <<chunk, chunksDispatched, deviceLock, waitsFor, executed, stopped, emitted>>

\* m_condOnAdd: a chunk, or the end.
Wakes ==
  /\ csStep = "wait"
  /\ \/ chunksQueued # <<>> /\ TakeChunk
     \/ chunksQueued = <<>> /\ stopped /\ csStep' = "loop" /\ UNCHANGED <<running, commands, chunksQueued>>
  /\ UNCHANGED <<chunk, chunksDispatched, syncing, chunksExecuted, executed, stopped, emitted>>

EndOfThread ==
  /\ csStep = "loop" /\ stopped /\ csStep' = "ended"
  /\ UNCHANGED <<stream, syncing, running, commands, chunksExecuted, executed, stopped, emitted>>

\* A command of the chunk is over; after the last the chunk is executed.
CommandOver ==
  /\ commands' = Tail(commands)
  /\ csStep' = IF Len(commands) = 1 THEN "loop" ELSE "run"
  /\ executed' = executed + 1
  /\ UNCHANGED <<running, chunksExecuted, stream, syncing, stopped, emitted>>

-----------------------------------------------------------------------------
CsInit(threads) ==
  /\ deviceLock = NoThread /\ chunk = <<>>
  /\ chunksQueued = <<>> /\ chunksDispatched = 0 /\ chunksExecuted = 0 /\ stopped = FALSE
  /\ waitsFor = [t \in threads |-> 0] /\ asleep = {}
  /\ csStep = "loop" /\ running = FALSE /\ commands = <<>>
  /\ emitted = 0 /\ executed = 0
=============================================================================
