-------------------------- MODULE WorkerThreadPool --------------------------
(***************************************************************************)
(* WorkerThreadPool of src/util: one thread schedules jobs (lambdas) into  *)
(* a ring of Task slots and one queue of slot numbers per worker; workers  *)
(* run them, and steal; a Future owns the result until it is read or       *)
(* dropped.  A slot is released once by the worker that ran it and once by *)
(* the Future, and is free again after both.                               *)
(*                                                                         *)
(* In a pool that is not LowLatency an idle worker waits on a condition    *)
(* variable for m_numTasks to be positive.  Each access to a shared atomic *)
(* is a step; a pop and its decrement are one, under m_threadMutex, the    *)
(* condition's test and the sleep are one, under m_taskMutex.              *)
(***************************************************************************)
EXTENDS Integers, Sequences

CONSTANTS
  Job,           \* what is scheduled, again and again
  NoJob,         \* none of them
  NumThread,     \* workers, numbered from 0
  QueueSlots,    \* NumTasksPerThread: a worker's queue, one slot stays empty
  TaskCount,     \* Task slots in use (slotMask() + 1), numbered from 0
  WorkStealing,  \* template parameter
  Latencies      \* the values of LowLatency, template parameter

ASSUME PoolAssumption ==
  /\ NoJob \notin Job
  /\ NumThread \in Nat \ {0} /\ TaskCount \in Nat \ {0}
  /\ QueueSlots \in Nat \ {0, 1}
  /\ WorkStealing \in BOOLEAN /\ Latencies \subseteq BOOLEAN

VARIABLES
  lowLatency,  \* this pool's LowLatency
  sched,       \* the scheduling thread: its step, job and slot; m_taskId and
               \* m_schedulerIndex, modulo the numbers of slots and of workers
  task,        \* per slot: the job in m_lambdaStorage, the job whose result is
               \* in m_resultStorage, the bits of m_state, m_cancelled
  queue,       \* m_workerTasks
  numTasks,    \* m_numTasks; where it is negative the 32-bit count is large
  stop,        \* m_stopWork
  worker,      \* per worker: its step, its slot, the queue it looks at
  future       \* per job: the step of its Future, and its slot

vars == <<lowLatency, sched, task, queue, numTasks, stop, worker, future>>

Worker == 0 .. NumThread - 1
Slot == 0 .. TaskCount - 1
Executed == "executed"
Released == "released"
Free == {"free"}

-----------------------------------------------------------------------------
(* Task::finish: a side's bit is set; the second side destroys a result nobody *)
(* took and frees the slot.                                                    *)

SecondIsWorker(s, side) == side = Executed
Second(s, side) == task[s].state \union {side} = {Executed, Released}
SetBit(s, side) == task' = [task EXCEPT ![s].state = @ \union {side}]

KeepResult(s) == task' = [task EXCEPT ![s].state = Free]
CleanUp(s) ==
  task' = [task EXCEPT ![s] =
             [lambda |-> @.lambda, result |-> NoJob, state |-> Free, cancelled |-> @.cancelled]]

-----------------------------------------------------------------------------
(* Schedule, on the one scheduling thread *)

\* isFull; push tests for itself, and its answer is not looked at.
NeverFull(w) == Len(queue[w]) = QueueSlots
IsFull(w) == Len(queue[w]) = QueueSlots - 1
HasRoom(w) == Len(queue[w]) < QueueSlots - 1

ReserveAnySlot(w, s) == ~IsFull(w)
Reserved(w, s) == ~IsFull(w) /\ task[s].state = Free

GotoS(from, to) == sched.pc = from /\ sched' = [sched EXCEPT !.pc = to]

\* reserve picks worker and slot, capture fills the slot.  A job is anew when
\* nothing is left of its former run.
Anew(j) == future[j].pc = "none" /\ \A s \in Slot : j \notin {task[s].lambda, task[s].result}
Schedule(j) ==
  /\ sched.pc = "idle" /\ ~stop /\ Anew(j)
  /\ Reserved(sched.thread, sched.next)
  /\ sched' = [pc |-> "push", job |-> j, slot |-> sched.next,
               next |-> (sched.next + 1) % TaskCount, thread |-> (sched.thread + 1) % NumThread]
  /\ task' = [task EXCEPT ![sched.next] =
                [lambda |-> j, result |-> NoJob, state |-> {}, cancelled |-> FALSE]]
  /\ UNCHANGED <<lowLatency, queue, numTasks, stop, worker, future>>

\* An invalid Future, or ScheduleOrRun runs the job at once: the pool only moves
\* on to the next worker.
Rejected ==
  /\ sched.pc = "idle" /\ ~stop
  /\ ~Reserved(sched.thread, sched.next)
  /\ sched' = [sched EXCEPT !.thread = (@ + 1) % NumThread]
  /\ UNCHANGED <<lowLatency, task, queue, numTasks, stop, worker, future>>

\* submit, from the push on.  The worker is the one before the next.
Target == (sched.thread + NumThread - 1) % NumThread
Push ==
  /\ GotoS("push", IF lowLatency THEN "count" ELSE "notify")
  /\ queue' = IF HasRoom(Target) THEN [queue EXCEPT ![Target] = Append(@, sched.slot)] ELSE queue
  /\ UNCHANGED <<lowLatency, task, numTasks, stop, worker, future>>

\* m_condOnAdd: one sleeper when workers steal, or all.
Asleep == {w \in Worker : worker[w].pc = "asleep"}
WakeOne ==
  IF Asleep = {} THEN UNCHANGED worker
  ELSE \E w \in Asleep : worker' = [worker EXCEPT ![w].pc = "wait"]
WakeAll ==
  worker' = [w \in Worker |-> IF w \in Asleep THEN [worker[w] EXCEPT !.pc = "wait"] ELSE worker[w]]

Notify ==
  /\ GotoS("notify", "count")
  /\ IF WorkStealing THEN WakeOne ELSE WakeAll
  /\ UNCHANGED <<lowLatency, task, queue, numTasks, stop, future>>

\* The count follows the notification; then the caller has its Future.
Count ==
  /\ sched.pc = "count"
  /\ sched' = [sched EXCEPT !.pc = "idle", !.job = NoJob, !.slot = 0]
  /\ numTasks' = numTasks + 1
  /\ future' = [future EXCEPT ![sched.job] = [pc |-> "held", slot |-> sched.slot]]
  /\ UNCHANGED <<lowLatency, task, queue, stop, worker>>

-----------------------------------------------------------------------------
(* Future, on whatever thread has it *)

NoFuture == [pc |-> "none", slot |-> 0]
Goto(j, from, to) == future[j].pc = from /\ future' = [future EXCEPT ![j].pc = to]

\* get waits until the task was executed; cancel marks the task and drops the
\* Future, reset only drops it.
Get(j) ==
  /\ Goto(j, "held", "wait")
  /\ UNCHANGED <<lowLatency, sched, task, queue, numTasks, stop, worker>>

Cancel(j) ==
  /\ Goto(j, "held", "drop")
  /\ task' = [task EXCEPT ![future[j].slot].cancelled = TRUE]
  /\ UNCHANGED <<lowLatency, sched, queue, numTasks, stop, worker>>

Reset(j) ==
  /\ Goto(j, "held", "drop")
  /\ UNCHANGED <<lowLatency, sched, task, queue, numTasks, stop, worker>>

AtOnce(j) == TRUE
HasRun(j) == Executed \in task[future[j].slot].state
Wait(j) ==
  /\ HasRun(j) /\ Goto(j, "wait", "take")
  /\ UNCHANGED <<lowLatency, sched, task, queue, numTasks, stop, worker>>

\* The result is moved out, or left, and the owner's side of the slot released.
Release(j) ==
  /\ future[j].pc \in {"take", "drop"}
  /\ future' = [future EXCEPT ![j] =
                  IF Second(@.slot, Released) THEN [@ EXCEPT !.pc = "cleanUp"] ELSE NoFuture]
  /\ SetBit(future[j].slot, Released)
  /\ UNCHANGED <<lowLatency, sched, queue, numTasks, stop, worker>>

FutureCleansUp(j) ==
  /\ future[j].pc = "cleanUp" /\ future' = [future EXCEPT ![j] = NoFuture]
  /\ CleanUp(future[j].slot)
  /\ UNCHANGED <<lowLatency, sched, queue, numTasks, stop, worker>>

FutureSteps(j) == Wait(j) \/ Release(j) \/ FutureCleansUp(j)

-----------------------------------------------------------------------------
(* processWork, executeTask and Task's operator() *)

Waiting(w) == [pc |-> "wait", slot |-> 0, victim |-> w]

\* The top of the loop: the condition variable, unless LowLatency, and the halt.
Await(w) ==
  /\ worker[w].pc = "wait"
  /\ worker' = [worker EXCEPT ![w].pc =
                  IF stop THEN "done" ELSE IF lowLatency \/ numTasks # 0 THEN "pop" ELSE "asleep"]
  /\ UNCHANGED <<lowLatency, sched, task, queue, numTasks, stop, future>>

\* A condition variable may also wake on its own.
Spurious(w) ==
  /\ worker[w].pc = "asleep" /\ worker' = [worker EXCEPT ![w].pc = "wait"]
  /\ UNCHANGED <<lowLatency, sched, task, queue, numTasks, stop, future>>

\* The worker's own queue, then those of the others, one pop at a time.
NextQueue(w) == worker[w].victim + 1
NextVictim(w) == (worker[w].victim + 1) % NumThread
FindsNothing(w) ==
  /\ worker[w].pc = "pop" /\ queue[worker[w].victim] = <<>>
  /\ worker' = [worker EXCEPT ![w] = IF WorkStealing /\ NextVictim(w) # w
                                     THEN [@ EXCEPT !.victim = NextVictim(w)] ELSE Waiting(w)]
  /\ UNCHANGED <<lowLatency, sched, task, queue, numTasks, stop, future>>

Pop(w) ==
  LET v == worker[w].victim IN
  /\ worker[w].pc = "pop" /\ queue[v] # <<>>
  /\ worker' = [worker EXCEPT ![w] = [pc |-> "execute", slot |-> Head(queue[v]), victim |-> w]]
  /\ queue' = [queue EXCEPT ![v] = Tail(@)]
  /\ numTasks' = numTasks - 1
  /\ UNCHANGED <<lowLatency, sched, task, stop, future>>

\* The lambda runs unless the task is cancelled; then it is destroyed.
Execute(w) ==
  /\ worker[w].pc = "execute" /\ worker' = [worker EXCEPT ![w].pc = "finish"]
  /\ task' = [task EXCEPT ![worker[w].slot] =
                [lambda |-> NoJob, result |-> IF @.cancelled THEN @.result ELSE @.lambda,
                 state |-> @.state, cancelled |-> @.cancelled]]
  /\ UNCHANGED <<lowLatency, sched, queue, numTasks, stop, future>>

\* The worker's side of the slot is released.
Finish(w) ==
  /\ worker[w].pc = "finish"
  /\ worker' = [worker EXCEPT ![w] =
                  IF Second(@.slot, Executed) THEN [@ EXCEPT !.pc = "cleanUp"] ELSE Waiting(w)]
  /\ SetBit(worker[w].slot, Executed)
  /\ UNCHANGED <<lowLatency, sched, queue, numTasks, stop, future>>

WorkerCleansUp(w) ==
  /\ worker[w].pc = "cleanUp" /\ worker' = [worker EXCEPT ![w] = Waiting(w)]
  /\ CleanUp(worker[w].slot)
  /\ UNCHANGED <<lowLatency, sched, queue, numTasks, stop, future>>

WorkerSteps(w) ==
  \/ Await(w) \/ FindsNothing(w) \/ Pop(w) \/ Execute(w) \/ Finish(w) \/ WorkerCleansUp(w)

-----------------------------------------------------------------------------
(* ~WorkerThreadPool, on the scheduling thread; every Future is gone *)

StopWork ==
  /\ GotoS("idle", IF lowLatency THEN "join" ELSE "notifyAll")
  /\ ~stop /\ stop' = TRUE
  /\ \A j \in Job : future[j] = NoFuture
  /\ UNCHANGED <<lowLatency, task, queue, numTasks, worker, future>>

NotifyAll ==
  /\ GotoS("notifyAll", "join")
  /\ WakeAll
  /\ UNCHANGED <<lowLatency, task, queue, numTasks, stop, future>>

NoneLeft == FALSE
TasksLeft == numTasks # 0
Join ==
  /\ GotoS("join", IF TasksLeft THEN "drain" ELSE "gone")
  /\ \A w \in Worker : worker[w].pc = "done"
  /\ UNCHANGED <<lowLatency, task, queue, numTasks, stop, worker, future>>

\* A task nobody ran is cancelled and executed here, so that its lambda is
\* destroyed and its slot released.
Drain(w) ==
  LET s == Head(queue[w]) IN
  /\ sched.pc = "drain" /\ queue[w] # <<>> /\ \A v \in 0 .. w - 1 : queue[v] = <<>>
  /\ queue' = [queue EXCEPT ![w] = Tail(@)]
  /\ task' = [task EXCEPT ![s] =
                IF Second(s, Executed)
                THEN [lambda |-> NoJob, result |-> NoJob, state |-> Free, cancelled |-> TRUE]
                ELSE [lambda |-> NoJob, result |-> @.result, state |-> @.state \union {Executed},
                      cancelled |-> TRUE]]
  /\ numTasks' = numTasks - 1
  /\ UNCHANGED <<lowLatency, sched, stop, worker, future>>

Drained ==
  /\ GotoS("drain", "gone") /\ \A w \in Worker : queue[w] = <<>>
  /\ UNCHANGED <<lowLatency, task, queue, numTasks, stop, worker, future>>

SchedulerSteps ==
  Push \/ Notify \/ Count \/ NotifyAll \/ Join \/ (\E w \in Worker : Drain(w)) \/ Drained

-----------------------------------------------------------------------------
Init ==
  /\ lowLatency \in Latencies
  /\ sched = [pc |-> "idle", job |-> NoJob, slot |-> 0, next |-> 0, thread |-> 0]
  /\ task = [s \in Slot |-> [lambda |-> NoJob, result |-> NoJob, state |-> Free,
                             cancelled |-> FALSE]]
  /\ queue = [w \in Worker |-> <<>>] /\ numTasks = 0 /\ stop = FALSE
  /\ worker = [w \in Worker |-> Waiting(w)]
  /\ future = [j \in Job |-> NoFuture]

Next ==
  \/ \E j \in Job : Schedule(j) \/ Get(j) \/ Cancel(j) \/ Reset(j) \/ FutureSteps(j)
  \/ Rejected \/ SchedulerSteps \/ StopWork
  \/ \E w \in Worker : WorkerSteps(w) \/ Spurious(w)

Spec == Init /\ [][Next]_vars

\* Every thread runs on; nobody is forced to schedule, to read, to drop or to
\* destroy, and no condition variable wakes on its own.
FairSpec ==
  /\ Spec /\ WF_vars(SchedulerSteps)
  /\ \A j \in Job : WF_vars(FutureSteps(j))
  /\ \A w \in Worker : WF_vars(WorkerSteps(w))

-----------------------------------------------------------------------------
(* Properties *)

\* Every variable has its type.
TypeOK ==
  /\ lowLatency \in BOOLEAN /\ stop \in BOOLEAN /\ numTasks \in Int
  /\ sched \in [pc : {"idle", "push", "notify", "count", "notifyAll", "join", "drain", "gone"},
                job : Job \union {NoJob}, slot : Slot, next : Slot, thread : Worker]
  /\ task \in [Slot -> [lambda : Job \union {NoJob}, result : Job \union {NoJob},
                        state : SUBSET {Executed, Released, "free"}, cancelled : BOOLEAN]]
  /\ queue \in [Worker -> Seq(Slot)]
  /\ worker \in [Worker -> [pc : {"wait", "asleep", "pop", "execute", "finish", "cleanUp", "done"},
                            slot : Slot, victim : Worker]]
  /\ future \in [Job -> [pc : {"none", "held", "wait", "take", "drop", "cleanUp"}, slot : Slot]]

\* "A Future still held never reads a later task's result": it reads its own.
OwnResult == \A j \in Job : future[j].pc = "take" => task[future[j].slot].result = j

\* "A task slot was released twice": no side releases a slot that it released
\* before, or that is free.
ReleasedOnce ==
  /\ \A w \in Worker : worker[w].pc = "finish" => task[worker[w].slot].state \subseteq {Released}
  /\ \A j \in Job : future[j].pc \in {"take", "drop"} =>
       task[future[j].slot].state \subseteq {Executed}

\* "Every task ran exactly once": a worker has a slot that no other worker has, and
\* its lambda is still there.
RunsOnce ==
  /\ \A w \in Worker : worker[w].pc = "execute" => task[worker[w].slot].lambda # NoJob
  /\ \A v, w \in Worker :
       {worker[v].pc, worker[w].pc} \subseteq {"execute", "finish", "cleanUp"} /\ v # w =>
         worker[v].slot # worker[w].slot

\* "Every unread result and every lambda was destroyed": a free slot holds
\* neither, whoever was last to release it.
FreeIsEmpty ==
  \A s \in Slot : task[s].state = Free => task[s].lambda = NoJob /\ task[s].result = NoJob

\* "Tasks left in thread pool queue after destruction": when the destructor ends,
\* the count is 0, the queues are empty and every slot is free.
LeavesNothing ==
  sched.pc = "gone" =>
    /\ numTasks = 0 /\ \A w \in Worker : queue[w] = <<>>
    /\ \A s \in Slot : task[s].state = Free

\* The destructor ends: no worker sleeps through it.
DestructionEnds == stop ~> (sched.pc = "gone")

\* A Future that is read gets its result ("Waits for the lambda"): in a pool whose
\* workers spin, and in one whose workers sleep.
Returns(j) == (future[j].pc = "wait") ~> (future[j].pc # "wait")
SpinningPoolAnswers == lowLatency => \A j \in Job : Returns(j)
EveryGetReturns == \A j \in Job : Returns(j)
=============================================================================
