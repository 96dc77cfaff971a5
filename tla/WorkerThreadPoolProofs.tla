----------------------- MODULE WorkerThreadPoolProofs -----------------------
(***************************************************************************)
(* The safety of WorkerThreadPool, for every set of jobs, every number of  *)
(* workers, slots and places in a queue, with and without stealing and     *)
(* sleeping.                                                               *)
(***************************************************************************)
EXTENDS WorkerThreadPool, FiniteSetTheorems, TLAPS

-----------------------------------------------------------------------------
(* The inductive invariant *)

\* What is left of the life of a slot's task: its lambda is to be executed, its
\* result is to be taken or dropped, or it is to be cleaned up.
Unexecuted(s) == task[s].state \in {{}, {Released}}
Unreleased(s) == task[s].state \in {{}, {Executed}}
Over(s) == task[s].state = {Executed, Released}

\* A slot in a queue, and one that the scheduler has, until its push and until its
\* caller has the Future.
Queued(w, k, s) == k \in 1 .. Len(queue[w]) /\ queue[w][k] = s
Waits(s) == \E w \in Worker : \E k \in Nat : Queued(w, k, s)
Distinct ==
  \A v, w \in Worker : \A i, k \in Nat : \A s \in Slot :
    Queued(v, i, s) /\ Queued(w, k, s) => v = w /\ i = k
Scheduling == {"push", "notify", "count"}
ToPush(s) == sched.pc = "push" /\ sched.slot = s
Offered(s) == sched.pc \in Scheduling /\ sched.slot = s

Runs(w, s) == worker[w].pc \in {"execute", "finish"} /\ worker[w].slot = s
Holds(j, s) == future[j].pc \in {"held", "wait", "take", "drop"} /\ future[j].slot = s
WorkerCleans(w, s) == worker[w].pc = "cleanUp" /\ worker[w].slot = s
FutureCleans(j, s) == future[j].pc = "cleanUp" /\ future[j].slot = s

\* One has the lambda of a task that is not executed, and nobody another's.
LambdaSide ==
  /\ \A s \in Slot : Unexecuted(s) <=> ToPush(s) \/ Waits(s) \/ \E w \in Worker : Runs(w, s)
  /\ \A s \in Slot : ~ (ToPush(s) /\ Waits(s))
  /\ \A s \in Slot, w \in Worker : Runs(w, s) => ~ToPush(s) /\ ~Waits(s)
  /\ \A s \in Slot, v, w \in Worker : Runs(v, s) /\ Runs(w, s) => v = w
  /\ Distinct

\* One has the result, or will, of a task that is not released.
ResultSide ==
  /\ \A s \in Slot : Unreleased(s) <=> Offered(s) \/ \E j \in Job : Holds(j, s)
  /\ \A s \in Slot, j \in Job : Holds(j, s) => ~Offered(s)
  /\ \A s \in Slot, i, j \in Job : Holds(i, s) /\ Holds(j, s) => i = j
  /\ sched.pc \in Scheduling => sched.job \in Job /\ future[sched.job].pc = "none"

\* One cleans up, of the two sides the second.
CleanSide ==
  /\ \A s \in Slot : Over(s) <=> (\E w \in Worker : WorkerCleans(w, s)) \/ \E j \in Job : FutureCleans(j, s)
  /\ \A s \in Slot, w \in Worker, j \in Job : ~ (WorkerCleans(w, s) /\ FutureCleans(j, s))
  /\ \A s \in Slot, v, w \in Worker : WorkerCleans(v, s) /\ WorkerCleans(w, s) => v = w
  /\ \A s \in Slot, i, j \in Job : FutureCleans(i, s) /\ FutureCleans(j, s) => i = j

\* The lambda is there until it is executed, and then the result, for its own Future.
Answers(s, j) == ~task[s].cancelled /\ j \in {task[s].lambda, task[s].result}
Contents ==
  /\ \A s \in Slot : task[s].state \in {Free, {}, {Executed}, {Released}, {Executed, Released}}
  /\ \A s \in Slot : ~Unexecuted(s) => task[s].lambda = NoJob
  /\ \A s \in Slot : task[s].state = Free => task[s].result = NoJob
  /\ \A s \in Slot : ToPush(s) \/ Waits(s) => task[s].lambda # NoJob /\ task[s].result = NoJob
  /\ \A w \in Worker :
       /\ worker[w].pc = "execute" =>
            task[worker[w].slot].lambda # NoJob /\ task[worker[w].slot].result = NoJob
       /\ worker[w].pc = "finish" => task[worker[w].slot].lambda = NoJob
  /\ sched.pc \in Scheduling => Answers(sched.slot, sched.job)
  /\ \A j \in Job :
       /\ future[j].pc \in {"held", "wait", "take"} => Answers(future[j].slot, j)
       /\ future[j].pc = "take" => task[future[j].slot].state = {Executed}

\* The pool is destroyed when all is over, and counts what its queues hold, less the
\* task that is pushed and not yet counted.
Ending == {"notifyAll", "join", "drain", "gone"}
InQueues == {s \in Slot : Waits(s)}
Counted ==
  /\ stop <=> sched.pc \in Ending
  /\ stop => \A j \in Job : future[j].pc = "none"
  /\ sched.pc \in {"drain", "gone"} => \A w \in Worker : worker[w].pc = "done"
  /\ sched.pc = "gone" => \A w \in Worker : queue[w] = <<>>
  /\ \A w \in Worker : Len(queue[w]) <= QueueSlots - 1
  /\ sched.pc = "push" => HasRoom(Target)
  /\ IF sched.pc \in {"notify", "count"} THEN numTasks = Cardinality(InQueues) - 1
                                         ELSE numTasks = Cardinality(InQueues)

IndInv == TypeOK /\ LambdaSide /\ ResultSide /\ CleanSide /\ Contents /\ Counted

-----------------------------------------------------------------------------
(* Numbers of slots and workers, sets of bits, and queues *)

\* The remainders that are taken of numbers up to twice the modulus.
LEMMA Remainders ==
  ASSUME NEW n \in Nat \ {0}, NEW a \in 0 .. n - 1
  PROVE  /\ (a + 1) % n \in 0 .. n - 1
         /\ (((a + 1) % n) + n - 1) % n = a
<1>1. CASE a + 1 < n
  <2>1. (a + 1) % n = a + 1
    BY <1>1
  <2>2. (a + n) % n = a
    OBVIOUS
  <2> QED
    BY <2>1, <2>2, <1>1
<1>2. CASE a + 1 = n
  <2>1. (a + 1) % n = 0
    BY <1>2
  <2>2. (n - 1) % n = n - 1
    OBVIOUS
  <2> QED
    BY <2>1, <2>2, <1>2
<1> QED
  BY <1>1, <1>2

\* The bits of m_state, as a side sets its own.
LEMMA Bits ==
  /\ Free # {} /\ Free # {Executed} /\ Free # {Released} /\ Free # {Executed, Released}
  /\ {} # {Executed} /\ {} # {Released} /\ {} # {Executed, Released}
  /\ {Executed} # {Released} /\ {Executed} # {Executed, Released} /\ {Released} # {Executed, Released}
  /\ {} \union {Executed} = {Executed} /\ {Released} \union {Executed} = {Executed, Released}
  /\ {} \union {Released} = {Released} /\ {Executed} \union {Released} = {Executed, Released}
BY DEF Free, Executed, Released

\* A slot that is in no queue is pushed.
LEMMA PushedQueue ==
  ASSUME TypeOK, Distinct, NEW v \in Worker, NEW s \in Slot, ~Waits(s),
         queue' = [queue EXCEPT ![v] = Append(@, s)]
  PROVE  /\ queue' \in [Worker -> Seq(Slot)]
         /\ Len(queue'[v]) = Len(queue[v]) + 1
         /\ \A w \in Worker : w # v => queue'[w] = queue[w]
         /\ Distinct'
         /\ \A x \in Slot : Waits(x)' <=> Waits(x) \/ x = s
<1>1. queue \in [Worker -> Seq(Slot)]
  BY DEF TypeOK
<1>2. PICK l \in Nat : l = Len(queue[v])
  BY <1>1
<1>3. /\ queue' \in [Worker -> Seq(Slot)]
      /\ Len(queue'[v]) = l + 1 /\ queue'[v][l + 1] = s /\ \A k \in 1 .. l : queue'[v][k] = queue[v][k]
      /\ \A w \in Worker : w # v => queue'[w] = queue[w]
  BY <1>1, <1>2
<1>4. \A w \in Worker, k \in Nat, x \in Slot :
        Queued(w, k, x)' <=> Queued(w, k, x) \/ (w = v /\ k = l + 1 /\ x = s)
  BY <1>1, <1>2, <1>3 DEF Queued
<1>5. Distinct'
  BY <1>4 DEF Distinct, Waits
<1>6. \A x \in Slot : Waits(x)' <=> Waits(x) \/ x = s
  BY <1>2, <1>4 DEF Waits
<1> QED
  BY <1>2, <1>3, <1>5, <1>6

\* The first slot of a queue is taken.
LEMMA TakenQueue ==
  ASSUME TypeOK, Distinct, NEW v \in Worker, queue[v] # <<>>,
         queue' = [queue EXCEPT ![v] = Tail(@)]
  PROVE  /\ queue' \in [Worker -> Seq(Slot)]
         /\ \A w \in Worker : Len(queue'[w]) <= Len(queue[w])
         /\ Distinct' /\ Head(queue[v]) \in Slot /\ Waits(Head(queue[v]))
         /\ \A x \in Slot : Waits(x)' <=> Waits(x) /\ x # Head(queue[v])
<1>1. queue \in [Worker -> Seq(Slot)]
  BY DEF TypeOK
<1>2. PICK l \in Nat : l + 1 = Len(queue[v])
  <2>1. Len(queue[v]) \in Nat \ {0}
    BY <1>1
  <2>2. Len(queue[v]) - 1 \in Nat /\ (Len(queue[v]) - 1) + 1 = Len(queue[v])
    BY <2>1
  <2> QED
    BY <2>2
<1>3. /\ queue' \in [Worker -> Seq(Slot)]
      /\ Len(queue'[v]) = l /\ \A k \in 1 .. l : queue'[v][k] = queue[v][k + 1]
      /\ \A w \in Worker : w # v => queue'[w] = queue[w]
      /\ Head(queue[v]) \in Slot /\ Head(queue[v]) = queue[v][1]
  BY <1>1, <1>2
<1>4. \A w \in Worker, k \in Nat, x \in Slot : w # v => (Queued(w, k, x)' <=> Queued(w, k, x))
  BY <1>3 DEF Queued
<1>5. \A k \in Nat, x \in Slot : k # 0 => (Queued(v, k, x)' <=> Queued(v, k + 1, x))
  BY <1>2, <1>3 DEF Queued
<1>6. \A x \in Slot : ~ Queued(v, 0, x) /\ ~ Queued(v, 0, x)' /\ (Queued(v, 1, x) <=> x = Head(queue[v]))
  BY <1>2, <1>3 DEF Queued
<1>7. Distinct'
  <2> SUFFICES ASSUME NEW w \in Worker, NEW u \in Worker, NEW i \in Nat, NEW k \in Nat, NEW x \in Slot,
                      Queued(w, i, x)', Queued(u, k, x)'
               PROVE  w = u /\ i = k
    BY DEF Distinct
  <2>1. Queued(w, IF w = v THEN i + 1 ELSE i, x) /\ Queued(u, IF u = v THEN k + 1 ELSE k, x)
    BY <1>4, <1>5, <1>6
  <2> QED
    BY <2>1 DEF Distinct
<1>8. ASSUME NEW x \in Slot PROVE Waits(x)' <=> Waits(x) /\ x # Head(queue[v])
  <2>1. ASSUME NEW w \in Worker, NEW k \in Nat, Queued(w, k, x)' PROVE Waits(x) /\ x # Head(queue[v])
    <3>1. PICK j \in Nat : j = (IF w = v THEN k + 1 ELSE k) /\ (w = v => j # 1)
      BY <2>1, <1>6
    <3>2. Queued(w, j, x)
      BY <2>1, <3>1, <1>4, <1>5, <1>6
    <3>3. x = Head(queue[v]) => Queued(v, 1, x)
      BY <1>6
    <3> QED
      BY <3>1, <3>2, <3>3 DEF Waits, Distinct
  <2>2. ASSUME NEW w \in Worker, NEW k \in Nat, Queued(w, k, x), x # Head(queue[v]) PROVE Waits(x)'
    <3>1. CASE w = v
      <4>1. k # 0 /\ k # 1
        BY <2>2, <3>1, <1>6
      <4>2. k - 1 \in Nat /\ k - 1 # 0 /\ (k - 1) + 1 = k
        BY <4>1
      <4> QED
        BY <2>2, <3>1, <4>2, <1>5 DEF Waits
    <3> QED
      BY <3>1, <2>2, <1>4 DEF Waits
  <2> QED
    BY <2>1, <2>2 DEF Waits
<1>9. Waits(Head(queue[v]))
  BY <1>3, <1>6 DEF Waits
<1> QED
  BY <1>1, <1>2, <1>3, <1>7, <1>8, <1>9

-----------------------------------------------------------------------------
(* Types *)

\* There is a first slot and a first worker; the scheduler goes round both.
LEMMA Numbers ==
  /\ 0 \in Slot /\ 0 \in Worker
  /\ \A s \in Slot : (s + 1) % TaskCount \in Slot
  /\ \A w \in Worker : (w + 1) % NumThread \in Worker
<1>1. \A s \in 0 .. TaskCount - 1 : (s + 1) % TaskCount \in 0 .. TaskCount - 1
  BY PoolAssumption, Remainders
<1>2. \A w \in 0 .. NumThread - 1 : (w + 1) % NumThread \in 0 .. NumThread - 1
  BY PoolAssumption, Remainders
<1>3. 0 \in 0 .. TaskCount - 1 /\ 0 \in 0 .. NumThread - 1
  BY PoolAssumption
<1> QED
  BY <1>1, <1>2, <1>3 DEF Slot, Worker

\* The worker before the next.
LEMMA WorkerBefore ==
  /\ \A t \in Worker : (t + NumThread - 1) % NumThread \in Worker
  /\ \A w, t \in Worker : t = (w + 1) % NumThread => (t + NumThread - 1) % NumThread = w
<1>1. \A t \in 0 .. NumThread - 1 : (t + NumThread - 1) % NumThread \in 0 .. NumThread - 1
  BY PoolAssumption
<1>2. \A w \in 0 .. NumThread - 1 : (((w + 1) % NumThread) + NumThread - 1) % NumThread = w
  BY PoolAssumption, Remainders
<1> QED
  BY <1>1, <1>2 DEF Worker

\* The scheduler pushes to the queue of a worker.
LEMMA TargetIsWorker == sched.thread \in Worker => Target \in Worker
BY WorkerBefore DEF Target

\* The types of what the functions hold.
TaskType == [lambda : Job \union {NoJob}, result : Job \union {NoJob},
             state : SUBSET {Executed, Released, "free"}, cancelled : BOOLEAN]
WorkerType == [pc : {"wait", "asleep", "pop", "execute", "finish", "cleanUp", "done"},
               slot : Slot, victim : Worker]
FutureType == [pc : {"none", "held", "wait", "take", "drop", "cleanUp"}, slot : Slot]

Functions ==
  /\ worker \in [Worker -> WorkerType] /\ future \in [Job -> FutureType] /\ task \in [Slot -> TaskType]
  /\ \A s \in Slot, v \in Worker : [pc |-> "wait", slot |-> s, victim |-> v] \in WorkerType
  /\ \A s \in Slot : [pc |-> "held", slot |-> s] \in FutureType
  /\ NoFuture \in FutureType /\ \A w \in Worker : Waiting(w) \in WorkerType
  /\ sched.slot \in Slot /\ sched.next \in Slot /\ sched.thread \in Worker

\* What the types say of the functions and of what is put into them.
LEMMA Typed == TypeOK => Functions
BY Numbers DEF TypeOK, WorkerType, FutureType, TaskType, NoFuture, Waiting, Functions

\* A step moves a worker, or a Future.
LEMMA Moves ==
  ASSUME TypeOK
  PROVE  /\ \A w \in Worker, r \in WorkerType : [worker EXCEPT ![w] = r] \in [Worker -> WorkerType]
         /\ \A j \in Job, r \in FutureType : [future EXCEPT ![j] = r] \in [Job -> FutureType]
         /\ \A s \in Slot, r \in TaskType : [task EXCEPT ![s] = r] \in [Slot -> TaskType]
         /\ \A w \in Worker, p \in {"wait", "asleep", "pop", "execute", "finish", "cleanUp", "done"} :
              /\ [worker[w] EXCEPT !.pc = p] \in WorkerType
              /\ [worker EXCEPT ![w].pc = p] \in [Worker -> WorkerType]
         /\ \A j \in Job, p \in {"none", "held", "wait", "take", "drop", "cleanUp"} :
              /\ [future[j] EXCEPT !.pc = p] \in FutureType
              /\ [future EXCEPT ![j].pc = p] \in [Job -> FutureType]
<1>1. worker \in [Worker -> WorkerType] /\ future \in [Job -> FutureType] /\ task \in [Slot -> TaskType]
  BY DEF TypeOK, WorkerType, FutureType, TaskType
<1>2. \A w \in Worker, p \in {"wait", "asleep", "pop", "execute", "finish", "cleanUp", "done"} :
        [worker[w] EXCEPT !.pc = p] \in WorkerType
  BY <1>1 DEF WorkerType
<1>3. \A j \in Job, p \in {"none", "held", "wait", "take", "drop", "cleanUp"} :
        [future[j] EXCEPT !.pc = p] \in FutureType
  BY <1>1 DEF FutureType
<1> QED
  BY <1>1, <1>2, <1>3

\* The scheduler notifies one worker that sleeps, or all.
LEMMA WakingTypes == ASSUME TypeOK, WakeOne \/ WakeAll PROVE worker' \in [Worker -> WorkerType]
<1>1. worker \in [Worker -> WorkerType]
  BY DEF TypeOK, WorkerType
<1>2. \A w \in Worker : [worker[w] EXCEPT !.pc = "wait"] \in WorkerType
  BY Moves
<1>3. CASE WakeAll
  BY <1>1, <1>2, <1>3 DEF WakeAll
<1>4. CASE WakeOne
  BY <1>1, <1>4, <1>2 DEF WakeOne, Asleep
<1> QED
  BY <1>3, <1>4

\* A step changes the bits of a slot's task.
LEMMA TaskTypes ==
  ASSUME TypeOK, NEW s \in Slot
  PROVE  /\ \A side \in {Executed, Released} : SetBit(s, side) => task' \in [Slot -> TaskType]
         /\ CleanUp(s) => task' \in [Slot -> TaskType]
<1>1. /\ task \in [Slot -> TaskType]
      /\ \A l, r \in Job \union {NoJob}, b \in SUBSET {Executed, Released, "free"}, c \in BOOLEAN :
           [lambda |-> l, result |-> r, state |-> b, cancelled |-> c] \in TaskType
  BY DEF TypeOK, TaskType
<1>2. task[s].state \in SUBSET {Executed, Released, "free"}
  BY <1>1 DEF TaskType
<1>3. \A side \in {Executed, Released} : [task[s] EXCEPT !.state = @ \union {side}] \in TaskType
  BY <1>1, <1>2 DEF TaskType
<1>4. Free \in SUBSET {Executed, Released, "free"}
  BY DEF Free
<1>5. [lambda |-> task[s].lambda, result |-> NoJob, state |-> Free, cancelled |-> task[s].cancelled]
        \in TaskType
  BY <1>1, <1>4 DEF TaskType
<1> QED
  BY ZenonT(30), <1>1, <1>3, <1>5, Moves DEF SetBit, CleanUp

\* Every step keeps the types.
LEMMA NextTypeOK == TypeOK /\ [Next]_vars => TypeOK'
<1> SUFFICES ASSUME TypeOK, [Next]_vars PROVE TypeOK'
  OBVIOUS
<1>0. Functions
  BY Typed
<1> USE DEF Functions
<1> DEFINE Types ==
      /\ lowLatency' \in BOOLEAN /\ stop' \in BOOLEAN /\ numTasks' \in Int
      /\ sched' \in [pc : {"idle", "push", "notify", "count", "notifyAll", "join", "drain", "gone"},
                     job : Job \union {NoJob}, slot : Slot, next : Slot, thread : Worker]
      /\ task' \in [Slot -> TaskType] /\ queue' \in [Worker -> Seq(Slot)]
      /\ worker' \in [Worker -> WorkerType] /\ future' \in [Job -> FutureType]
<1> SUFFICES Types
  BY DEF TypeOK, WorkerType, FutureType, TaskType
<1>1. ASSUME NEW j \in Job, Schedule(j) PROVE Types
  <2>1. [lambda |-> j, result |-> NoJob, state |-> {}, cancelled |-> FALSE] \in TaskType
    BY DEF TaskType
  <2>2. task' \in [Slot -> TaskType]
    BY <1>0, <1>1, <2>1, Moves DEF Schedule
  <2> QED
    BY <1>0, <1>1, <2>2, Numbers DEF Schedule, TypeOK
<1>2. ASSUME NEW j \in Job, Get(j) \/ Reset(j) \/ Wait(j) PROVE Types
  <2>1. PICK p \in {"wait", "take", "drop"} : future' = [future EXCEPT ![j].pc = p]
    BY <1>2 DEF Get, Reset, Wait, Goto
  <2>2. future' \in [Job -> FutureType]
    BY <2>1, Moves
  <2> QED
    BY <1>0, <1>2, <2>2 DEF Get, Reset, Wait, TypeOK
<1>3. ASSUME NEW j \in Job, Cancel(j) PROVE Types
  <2>1. future' \in [Job -> FutureType]
    BY <1>3, Moves DEF Cancel, Goto
  <2>2. future[j].slot \in Slot
    BY <1>0 DEF FutureType
  <2>3. [task[future[j].slot] EXCEPT !.cancelled = TRUE] \in TaskType
    BY ZenonT(30), <1>0, <2>2 DEF TaskType
  <2>4. task' \in [Slot -> TaskType]
    BY <1>0, <1>3, <2>2, <2>3 DEF Cancel
  <2> QED
    BY <1>0, <1>3, <2>1, <2>4 DEF Cancel, TypeOK
<1>4. ASSUME NEW j \in Job, Release(j) PROVE Types
  <2>1. future[j].slot \in Slot
    BY <1>0 DEF FutureType
  <2>2. future' \in [Job -> FutureType]
    BY <1>0, <1>4, Moves DEF Release
  <2>3. task' \in [Slot -> TaskType]
    BY <1>4, <2>1, TaskTypes DEF Release
  <2> QED
    BY <1>0, <1>4, <2>2, <2>3 DEF Release, TypeOK
<1>5. ASSUME NEW j \in Job, FutureCleansUp(j) PROVE Types
  <2>1. future[j].slot \in Slot
    BY <1>0 DEF FutureType
  <2>2. future' \in [Job -> FutureType]
    BY <1>0, <1>5, Moves DEF FutureCleansUp
  <2>3. task' \in [Slot -> TaskType]
    BY <1>5, <2>1, TaskTypes DEF FutureCleansUp
  <2> QED
    BY <1>0, <1>5, <2>2, <2>3 DEF FutureCleansUp, TypeOK
<1>6. CASE Rejected
  BY <1>0, <1>6, Numbers DEF Rejected, TypeOK
<1>7. CASE Push
  <2>1. Target \in Worker
    BY <1>0, TargetIsWorker
  <2>2. queue' \in [Worker -> Seq(Slot)]
    BY <1>0, <1>7, <2>1 DEF Push, TypeOK
  <2> QED
    BY <1>0, <1>7, <2>2 DEF Push, GotoS, TypeOK
<1>8. CASE Notify
  BY <1>0, <1>8, WakingTypes DEF Notify, GotoS, TypeOK
<1>9. CASE Count
  <2>1. [pc |-> "held", slot |-> sched.slot] \in FutureType
    BY <1>0
  <2>2. future' \in [Job -> FutureType]
    BY <1>0, <1>9, <2>1 DEF Count
  <2>3. sched' \in [pc : {"idle", "push", "notify", "count", "notifyAll", "join", "drain", "gone"},
                    job : Job \union {NoJob}, slot : Slot, next : Slot, thread : Worker]
    BY <1>9, Numbers DEF Count, TypeOK
  <2> QED
    BY <1>0, <1>9, <2>2, <2>3 DEF Count, TypeOK
<1>10. CASE NotifyAll
  BY <1>0, <1>10, WakingTypes DEF NotifyAll, GotoS, TypeOK
<1>11. CASE Join \/ Drained \/ StopWork
  BY <1>0, <1>11 DEF Join, Drained, StopWork, GotoS, TypeOK
<1>12. ASSUME NEW w \in Worker, Drain(w) PROVE Types
  <2>1. Head(queue[w]) \in Slot /\ queue' \in [Worker -> Seq(Slot)]
    BY <1>12 DEF Drain, TypeOK
  <2>2. PICK s \in Slot : s = Head(queue[w])
    BY <2>1
  <2>3. /\ [lambda |-> NoJob, result |-> NoJob, state |-> Free, cancelled |-> TRUE] \in TaskType
        /\ [lambda |-> NoJob, result |-> task[s].result, state |-> task[s].state \union {Executed},
            cancelled |-> TRUE] \in TaskType
    BY <1>0, <2>2 DEF TaskType, Free
  <2>4. task' \in [Slot -> TaskType]
    BY <1>0, <1>12, <2>2, <2>3 DEF Drain
  <2> QED
    BY <1>0, <1>12, <2>1, <2>4 DEF Drain, TypeOK
<1>13. ASSUME NEW w \in Worker, Await(w) \/ Spurious(w) PROVE Types
  <2>1. PICK p \in {"wait", "asleep", "pop", "done"} : worker' = [worker EXCEPT ![w].pc = p]
    BY <1>13 DEF Await, Spurious
  <2>2. worker' \in [Worker -> WorkerType]
    BY <2>1, Moves
  <2> QED
    BY <1>0, <1>13, <2>2 DEF Await, Spurious, TypeOK
<1>14. ASSUME NEW w \in Worker, FindsNothing(w) PROVE Types
  <2>1. worker[w].victim \in Worker
    BY <1>0 DEF WorkerType
  <2>2. NextVictim(w) \in Worker
    BY <2>1, Numbers DEF NextVictim
  <2>3. [worker[w] EXCEPT !.victim = NextVictim(w)] \in WorkerType
    BY <1>0, <2>2 DEF WorkerType
  <2>4. worker' \in [Worker -> WorkerType]
    BY <1>0, <1>14, <2>3 DEF FindsNothing
  <2> QED
    BY <1>0, <1>14, <2>4 DEF FindsNothing, TypeOK
<1>15. ASSUME NEW w \in Worker, Pop(w) PROVE Types
  <2>1. PICK v \in Worker : v = worker[w].victim
    BY <1>0 DEF WorkerType
  <2>2. Head(queue[v]) \in Slot /\ queue' \in [Worker -> Seq(Slot)]
    BY <1>15, <2>1 DEF Pop, TypeOK
  <2>3. [pc |-> "execute", slot |-> Head(queue[v]), victim |-> w] \in WorkerType
    BY <2>2 DEF WorkerType
  <2>4. worker' \in [Worker -> WorkerType]
    BY <1>0, <1>15, <2>1, <2>3 DEF Pop
  <2> QED
    BY <1>0, <1>15, <2>2, <2>4 DEF Pop, TypeOK
<1>16. ASSUME NEW w \in Worker, Execute(w) PROVE Types
  <2>1. PICK s \in Slot : s = worker[w].slot
    BY <1>0 DEF WorkerType
  <2>2. [lambda |-> NoJob, result |-> IF task[s].cancelled THEN task[s].result ELSE task[s].lambda,
         state |-> task[s].state, cancelled |-> task[s].cancelled] \in TaskType
    BY <1>0 DEF TaskType
  <2>5. task' \in [Slot -> TaskType]
    BY <1>0, <1>16, <2>1, <2>2 DEF Execute
  <2>6. worker' \in [Worker -> WorkerType]
    BY <1>16, Moves DEF Execute
  <2> QED
    BY <1>0, <1>16, <2>5, <2>6 DEF Execute, TypeOK
<1>17. ASSUME NEW w \in Worker, Finish(w) PROVE Types
  <2>1. worker[w].slot \in Slot
    BY <1>0 DEF WorkerType
  <2>2. worker' \in [Worker -> WorkerType]
    BY <1>0, <1>17, Moves DEF Finish
  <2>3. task' \in [Slot -> TaskType]
    BY <1>17, <2>1, TaskTypes DEF Finish
  <2> QED
    BY <1>0, <1>17, <2>2, <2>3 DEF Finish, TypeOK
<1>18. ASSUME NEW w \in Worker, WorkerCleansUp(w) PROVE Types
  <2>1. worker[w].slot \in Slot
    BY <1>0 DEF WorkerType
  <2>2. worker' \in [Worker -> WorkerType]
    BY <1>0, <1>18, Moves DEF WorkerCleansUp
  <2>3. task' \in [Slot -> TaskType]
    BY <1>18, <2>1, TaskTypes DEF WorkerCleansUp
  <2> QED
    BY <1>0, <1>18, <2>2, <2>3 DEF WorkerCleansUp, TypeOK
<1>19. CASE UNCHANGED vars
  BY <1>0, <1>19 DEF vars, TypeOK
<1> HIDE DEF Types
<1> QED
  BY <1>1, <1>2, <1>3, <1>4, <1>5, <1>6, <1>7, <1>8, <1>9, <1>10, <1>11, <1>12, <1>13, <1>14,
     <1>15, <1>16, <1>17, <1>18, <1>19
     DEF Next, FutureSteps, SchedulerSteps, WorkerSteps

-----------------------------------------------------------------------------
(* What the steps do to a slot *)

\* A side sets its bit, and a clean-up frees the slot.
LEMMA TaskSteps ==
  ASSUME TypeOK, NEW s \in Slot
  PROVE  /\ \A side \in {Executed, Released} : SetBit(s, side) =>
              /\ task'[s].state = task[s].state \union {side} /\ task'[s].lambda = task[s].lambda
              /\ task'[s].result = task[s].result /\ task'[s].cancelled = task[s].cancelled
              /\ \A x \in Slot : x # s => task'[x] = task[x]
         /\ CleanUp(s) =>
              /\ task'[s].state = Free /\ task'[s].lambda = task[s].lambda
              /\ task'[s].result = NoJob
              /\ \A x \in Slot : x # s => task'[x] = task[x]
<1>1. task \in [Slot -> TaskType]
  BY Typed DEF Functions
<1> QED
  BY <1>1 DEF SetBit, CleanUp, TaskType

\* Nothing changes who has which lambda.
LEMMA SameLambdas ==
  ASSUME LambdaSide, UNCHANGED queue,
         \A s \in Slot : /\ Unexecuted(s)' <=> Unexecuted(s)
                         /\ ToPush(s)' <=> ToPush(s)
                         /\ \A w \in Worker : Runs(w, s)' <=> Runs(w, s)
  PROVE  LambdaSide'
<1>1. (\A s \in Slot : Waits(s)' <=> Waits(s)) /\ (Distinct' <=> Distinct)
  BY DEF Waits, Distinct, Queued
<1> QED
  BY <1>1 DEF LambdaSide

\* Nothing changes who has which result.
LEMMA SameResults ==
  ASSUME ResultSide,
         sched'.pc \in Scheduling => sched.pc \in Scheduling /\ sched'.job = sched.job
                                   /\ future'[sched'.job].pc = "none",
         \A s \in Slot : /\ Unreleased(s)' <=> Unreleased(s)
                         /\ Offered(s)' <=> Offered(s)
                         /\ \A j \in Job : Holds(j, s)' <=> Holds(j, s)
  PROVE  ResultSide'
BY DEF ResultSide

\* Nothing changes who cleans up.
LEMMA SameCleaning ==
  ASSUME CleanSide,
         \A s \in Slot : /\ Over(s)' <=> Over(s)
                         /\ \A w \in Worker : WorkerCleans(w, s)' <=> WorkerCleans(w, s)
                         /\ \A j \in Job : FutureCleans(j, s)' <=> FutureCleans(j, s)
  PROVE  CleanSide'
BY DEF CleanSide

-----------------------------------------------------------------------------
(* The lambdas *)

\* A new task fills a free slot.
LEMMA Scheduled ==
  ASSUME IndInv, NEW j \in Job, Schedule(j)
  PROVE  \E s \in Slot :
           /\ s = sched.next /\ task[s].state = Free /\ ~stop
           /\ task'[s] = [lambda |-> j, result |-> NoJob, state |-> {}, cancelled |-> FALSE]
           /\ \A x \in Slot : x # s => task'[x] = task[x]
           /\ sched'.pc = "push" /\ sched'.slot = s /\ sched'.job = j /\ sched.pc = "idle"
           /\ sched'.thread = (sched.thread + 1) % NumThread /\ ~IsFull(sched.thread)
           /\ future[j].pc = "none"
           /\ UNCHANGED <<lowLatency, queue, numTasks, stop, worker, future>>
<1>1. Functions
  BY Typed DEF IndInv
<1> QED
  BY <1>1 DEF Functions, TaskType, Schedule, Reserved, Anew

\* Sleepers are woken, and nothing else happens to a worker.
LEMMA Woken ==
  ASSUME Functions, WakeOne \/ WakeAll
  PROVE  \A w \in Worker : \/ worker'[w] = worker[w]
                           \/ worker[w].pc = "asleep" /\ worker'[w].pc = "wait" /\ worker'[w].slot = worker[w].slot
<1>1. worker \in [Worker -> WorkerType]
  BY DEF Functions
<1>2. CASE WakeOne
  BY <1>1, <1>2 DEF WakeOne, Asleep, WorkerType
<1>3. CASE WakeAll
  BY <1>1, <1>3 DEF WakeAll, Asleep, WorkerType
<1> QED
  BY <1>2, <1>3

\* A worker without a task looks for one.
LEMMA Idles ==
  ASSUME IndInv, NEW w \in Worker, Await(w) \/ Spurious(w) \/ FindsNothing(w)
  PROVE  \A x \in Worker : \/ worker'[x] = worker[x]
                           \/ x = w /\ {worker[x].pc, worker'[x].pc} \subseteq {"wait", "asleep", "pop", "done"}
<1>1. worker \in [Worker -> WorkerType]
  BY Typed DEF IndInv, Functions
<1>2. CASE Await(w) \/ Spurious(w)
  BY <1>1, <1>2 DEF Await, Spurious, WorkerType
<1>3. CASE FindsNothing(w)
  BY <1>1, <1>3 DEF FindsNothing, Waiting, WorkerType
<1> QED
  BY <1>2, <1>3

\* The destructor finds each task that is left released: its Future is gone.
LEMMA Drains ==
  ASSUME IndInv, NEW v \in Worker, Drain(v), NEW s \in Slot, s = Head(queue[v]), Waits(s)
  PROVE  /\ sched.pc = "drain" /\ UNCHANGED <<sched, worker, future>> /\ task[s].state = {Released}
         /\ task'[s].state = Free /\ task'[s].lambda = NoJob /\ task'[s].result = NoJob
         /\ \A x \in Slot : x # s => task'[x] = task[x]
<1>1. sched.pc = "drain" /\ UNCHANGED <<sched, worker, future>>
  BY DEF Drain
<1>2. Unexecuted(s)
  BY DEF IndInv, LambdaSide
<1>3. ~Unreleased(s)
  BY <1>1 DEF IndInv, Counted, Ending, ResultSide, Offered, Holds, Scheduling
<1>4. task[s].state = {Released}
  BY <1>2, <1>3 DEF Unexecuted, Unreleased
<1>5. Second(s, Executed)
  BY <1>4, Bits DEF Second
<1>6. task' = [task EXCEPT ![s] = [lambda |-> NoJob, result |-> NoJob, state |-> Free, cancelled |-> TRUE]]
  BY <1>5 DEF Drain
<1>7. task \in [Slot -> TaskType]
  BY Typed DEF IndInv, Functions
<1> QED
  BY <1>1, <1>4, <1>6, <1>7

\* A step keeps who has which lambda, in whatever way.
LEMMA NextLambdaSide == IndInv /\ [Next]_vars => LambdaSide'
<1> SUFFICES ASSUME IndInv, [Next]_vars PROVE LambdaSide'
  OBVIOUS
<1>0. LambdaSide /\ Functions /\ TypeOK /\ \A s \in Slot : task[s].state \in {Free, {}, {Executed}, {Released}, {Executed, Released}}
  BY Typed DEF IndInv, Contents
<1>1. ASSUME NEW j \in Job, Schedule(j) PROVE LambdaSide'
  <2>0. PICK s \in Slot :
           /\ task[s].state = Free
           /\ task'[s] = [lambda |-> j, result |-> NoJob, state |-> {}, cancelled |-> FALSE]
           /\ \A x \in Slot : x # s => task'[x] = task[x]
           /\ sched'.pc = "push" /\ sched'.slot = s /\ sched.pc = "idle"
           /\ UNCHANGED <<queue, worker>>
    BY <1>1, Scheduled
  <2>1. /\ task[s].state = Free /\ task'[s].state = {} /\ \A x \in Slot : x # s => task'[x] = task[x]
        /\ sched'.pc = "push" /\ sched'.slot = s /\ sched.pc = "idle"
        /\ UNCHANGED <<queue, worker>>
    BY <2>0
  <2>2. ~Unexecuted(s)
    BY <2>1, Bits DEF Unexecuted
  <2>3. \A x \in Slot : Unexecuted(x)' <=> Unexecuted(x) \/ x = s
    BY <2>1 DEF Unexecuted
  <2>4. /\ \A x \in Slot : ~ToPush(x) /\ (ToPush(x)' <=> x = s)
        /\ \A x \in Slot : Waits(x)' <=> Waits(x)
        /\ \A x \in Slot, w \in Worker : Runs(w, x)' <=> Runs(w, x)
        /\ Distinct' <=> Distinct
    BY <2>1 DEF ToPush, Waits, Queued, Runs, Distinct
  <2> QED
    BY <1>0, <2>2, <2>3, <2>4 DEF LambdaSide
<1>2. ASSUME NEW j \in Job, Get(j) \/ Reset(j) \/ Wait(j) PROVE LambdaSide'
  <2>1. UNCHANGED <<sched, task, queue, worker>>
    BY <1>2 DEF Get, Reset, Wait
  <2> QED
    BY <1>0, <2>1, SameLambdas DEF Unexecuted, ToPush, Runs
<1>3. ASSUME NEW j \in Job, Cancel(j) PROVE LambdaSide'
  <2>1. UNCHANGED <<sched, queue, worker>> /\ \A s \in Slot : task'[s].state = task[s].state
    BY <1>0, <1>3 DEF Cancel, Functions, TaskType, FutureType
  <2> QED
    BY <1>0, <2>1, SameLambdas DEF Unexecuted, ToPush, Runs
<1>4. ASSUME NEW j \in Job, Release(j) PROVE LambdaSide'
  <2>1. PICK s \in Slot : s = future[j].slot
    BY <1>0 DEF Functions, FutureType
  <2>2. /\ UNCHANGED <<sched, queue, worker>> /\ task'[s].state = task[s].state \union {Released}
        /\ \A x \in Slot : x # s => task'[x] = task[x]
    BY <1>0, <1>4, <2>1, TaskSteps DEF Release
  <2>3. Unreleased(s)
    BY <1>4, <2>1 DEF Release, IndInv, ResultSide, Holds
  <2>4. \A x \in Slot : Unexecuted(x)' <=> Unexecuted(x)
    BY <2>2, <2>3, Bits DEF Unexecuted, Unreleased
  <2> QED
    BY <1>0, <2>2, <2>4, SameLambdas DEF ToPush, Runs
<1>5. ASSUME NEW j \in Job, FutureCleansUp(j) PROVE LambdaSide'
  <2>1. PICK s \in Slot : s = future[j].slot
    BY <1>0 DEF Functions, FutureType
  <2>2. /\ UNCHANGED <<sched, queue, worker>> /\ task'[s].state = Free
        /\ \A x \in Slot : x # s => task'[x] = task[x]
    BY <1>0, <1>5, <2>1, TaskSteps DEF FutureCleansUp
  <2>3. Over(s)
    BY <1>5, <2>1 DEF FutureCleansUp, IndInv, CleanSide, FutureCleans
  <2>4. \A x \in Slot : Unexecuted(x)' <=> Unexecuted(x)
    BY <2>2, <2>3, Bits DEF Unexecuted, Over
  <2> QED
    BY <1>0, <2>2, <2>4, SameLambdas DEF ToPush, Runs
<1>6. CASE Rejected \/ Count \/ Join \/ Drained \/ StopWork
  <2>1. UNCHANGED <<task, queue, worker>> /\ sched.pc # "push" /\ sched'.pc # "push"
    BY <1>0, <1>6 DEF Rejected, Count, Join, Drained, StopWork, GotoS, TypeOK
  <2> QED
    BY <1>0, <2>1, SameLambdas DEF Unexecuted, ToPush, Runs
<1>7. CASE Push
  <2>1. PICK s \in Slot, v \in Worker : s = sched.slot /\ v = Target
    BY <1>0, TargetIsWorker DEF Functions
  <2>2. ToPush(s) /\ ~Waits(s) /\ HasRoom(v)
    BY <1>0, <1>7, <2>1 DEF Push, GotoS, ToPush, LambdaSide, IndInv, Counted
  <2>3. /\ queue' = [queue EXCEPT ![v] = Append(@, s)] /\ UNCHANGED <<task, worker>>
        /\ sched'.pc # "push"
    BY <1>0, <1>7, <2>1, <2>2 DEF Push, GotoS, TypeOK
  <2>4. Distinct' /\ \A x \in Slot : Waits(x)' <=> Waits(x) \/ x = s
    BY <1>0, <2>2, <2>3, PushedQueue DEF LambdaSide
  <2>5. /\ \A x \in Slot : ~ToPush(x)' /\ (ToPush(x) => x = s) /\ (Unexecuted(x)' <=> Unexecuted(x))
        /\ \A x \in Slot, w \in Worker : Runs(w, x)' <=> Runs(w, x)
    BY <2>1, <2>3 DEF ToPush, Unexecuted, Runs
  <2> QED
    BY <1>0, <2>2, <2>4, <2>5 DEF LambdaSide
<1>8. CASE Notify \/ NotifyAll
  <2>1. UNCHANGED <<task, queue>> /\ sched.pc # "push" /\ sched'.pc # "push"
    BY <1>0, <1>8 DEF Notify, NotifyAll, GotoS, TypeOK
  <2>2. \A w \in Worker : \/ worker'[w] = worker[w]
                          \/ worker[w].pc = "asleep" /\ worker'[w].pc = "wait"
    BY <1>0, <1>8, Woken DEF Notify, NotifyAll
  <2> QED
    BY <1>0, <2>1, <2>2, SameLambdas DEF Unexecuted, ToPush, Runs
<1>9. ASSUME NEW v \in Worker, Drain(v) PROVE LambdaSide'
  <2>1. PICK s \in Slot : s = Head(queue[v]) /\ Distinct' /\ Waits(s) /\ \A x \in Slot : Waits(x)' <=> Waits(x) /\ x # s
    BY <1>0, <1>9, TakenQueue DEF Drain, LambdaSide
  <2>2. sched.pc = "drain" /\ UNCHANGED <<sched, worker>> /\ task'[s].state = Free /\ \A x \in Slot : x # s => task'[x] = task[x]
    BY <1>9, <2>1, Drains
  <2>3. \A x \in Slot : Unexecuted(x)' <=> Unexecuted(x) /\ x # s
    BY <2>2, Bits DEF Unexecuted
  <2>4. \A x \in Slot : ~ToPush(x) /\ ~ToPush(x)' /\ \A w \in Worker : Runs(w, x)' <=> Runs(w, x)
    BY <2>2 DEF ToPush, Runs
  <2> QED
    BY <1>0, <2>1, <2>3, <2>4 DEF LambdaSide
<1>10. ASSUME NEW w \in Worker, Await(w) \/ Spurious(w) \/ FindsNothing(w) PROVE LambdaSide'
  <2>1. UNCHANGED <<sched, task, queue>>
    BY <1>10 DEF Await, Spurious, FindsNothing
  <2>2. \A x \in Worker : worker'[x] = worker[x] \/ (x = w /\ {worker[x].pc, worker'[x].pc} \subseteq {"wait", "asleep", "pop", "done"})
    BY <1>10, Idles
  <2> QED
    BY <1>0, <2>1, <2>2, SameLambdas DEF Unexecuted, ToPush, Runs
<1>11. ASSUME NEW w \in Worker, Pop(w) PROVE LambdaSide'
  <2>1. PICK v \in Worker : v = worker[w].victim
    BY <1>0 DEF Functions, WorkerType
  <2>2. PICK s \in Slot : s = Head(queue[v]) /\ Distinct' /\ Waits(s) /\ \A x \in Slot : Waits(x)' <=> Waits(x) /\ x # s
    BY <1>0, <1>11, <2>1, TakenQueue DEF Pop, LambdaSide
  <2>3. /\ UNCHANGED <<sched, task>> /\ worker[w].pc = "pop" /\ worker'[w].pc = "execute" /\ worker'[w].slot = s
        /\ \A x \in Worker : x # w => worker'[x] = worker[x]
    BY <1>0, <1>11, <2>1, <2>2 DEF Pop, Functions, WorkerType
  <2>4. /\ \A x \in Slot : (ToPush(x)' <=> ToPush(x)) /\ (Unexecuted(x)' <=> Unexecuted(x))
        /\ \A x \in Slot, u \in Worker : Runs(u, x)' <=> Runs(u, x) \/ (u = w /\ x = s)
    BY <2>3 DEF ToPush, Unexecuted, Runs
  <2> QED
    BY <1>0, <2>2, <2>4 DEF LambdaSide
<1>12. ASSUME NEW w \in Worker, Execute(w) PROVE LambdaSide'
  <2>1. /\ UNCHANGED <<sched, queue>> /\ \A x \in Slot : task'[x].state = task[x].state
        /\ worker[w].pc = "execute" /\ worker'[w].pc = "finish" /\ worker'[w].slot = worker[w].slot
        /\ \A x \in Worker : x # w => worker'[x] = worker[x]
    BY <1>0, <1>12 DEF Execute, Functions, WorkerType, TaskType
  <2> QED
    BY <1>0, <2>1, SameLambdas DEF Unexecuted, ToPush, Runs
<1>13. ASSUME NEW w \in Worker, Finish(w) PROVE LambdaSide'
  <2>1. PICK s \in Slot : s = worker[w].slot
    BY <1>0 DEF Functions, WorkerType
  <2>2. /\ UNCHANGED <<sched, queue>> /\ task'[s].state = task[s].state \union {Executed}
        /\ \A x \in Slot : x # s => task'[x] = task[x]
    BY <1>0, <1>13, <2>1, TaskSteps DEF Finish
  <2>3. worker[w].pc = "finish" /\ worker'[w].pc \in {"cleanUp", "wait"} /\ \A x \in Worker : x # w => worker'[x] = worker[x]
    BY <1>0, <1>13 DEF Finish, Functions, WorkerType, Waiting
  <2>4. Unexecuted(s)
    BY <1>0, <2>1, <2>3 DEF LambdaSide, Runs
  <2>5. \A x \in Slot : Unexecuted(x)' <=> Unexecuted(x) /\ x # s
    BY <2>2, <2>4, Bits DEF Unexecuted
  <2>6. /\ \A x \in Slot : (ToPush(x)' <=> ToPush(x)) /\ (Waits(x)' <=> Waits(x))
        /\ Distinct' <=> Distinct
        /\ \A x \in Slot, u \in Worker : Runs(u, x)' <=> Runs(u, x) /\ u # w
        /\ Runs(w, s)
    BY <2>1, <2>2, <2>3 DEF ToPush, Waits, Queued, Distinct, Runs
  <2>7. \A x \in Slot : Runs(w, x) => x = s
    BY <2>1 DEF Runs
  <2> QED
    BY <1>0, <2>5, <2>6, <2>7 DEF LambdaSide
<1>14. ASSUME NEW w \in Worker, WorkerCleansUp(w) PROVE LambdaSide'
  <2>1. PICK s \in Slot : s = worker[w].slot
    BY <1>0 DEF Functions, WorkerType
  <2>2. /\ UNCHANGED <<sched, queue>> /\ task'[s].state = Free
        /\ \A x \in Slot : x # s => task'[x] = task[x]
    BY <1>0, <1>14, <2>1, TaskSteps DEF WorkerCleansUp
  <2>3. worker[w].pc = "cleanUp" /\ worker'[w].pc = "wait" /\ \A x \in Worker : x # w => worker'[x] = worker[x]
    BY <1>0, <1>14 DEF WorkerCleansUp, Functions, WorkerType, Waiting
  <2>4. Over(s)
    BY <2>1, <2>3 DEF IndInv, CleanSide, WorkerCleans
  <2>5. \A x \in Slot : Unexecuted(x)' <=> Unexecuted(x)
    BY <2>2, <2>4, Bits DEF Unexecuted, Over
  <2> QED
    BY <1>0, <2>2, <2>3, <2>5, SameLambdas DEF ToPush, Runs
<1>15. CASE UNCHANGED vars
  BY <1>0, <1>15, SameLambdas DEF vars, Unexecuted, ToPush, Runs
<1> QED
  BY <1>1, <1>2, <1>3, <1>4, <1>5, <1>6, <1>7, <1>8, <1>9, <1>10, <1>11, <1>12, <1>13, <1>14, <1>15
     DEF Next, FutureSteps, SchedulerSteps, WorkerSteps

-----------------------------------------------------------------------------
(* The results *)

\* A step keeps who has which result.
LEMMA NextResultSide == IndInv /\ [Next]_vars => ResultSide'
<1> SUFFICES ASSUME IndInv, [Next]_vars PROVE ResultSide'
  OBVIOUS
<1>0. ResultSide /\ Functions /\ TypeOK /\ \A s \in Slot : task[s].state \in {Free, {}, {Executed}, {Released}, {Executed, Released}}
  BY Typed DEF IndInv, Contents
<1>1. ASSUME NEW j \in Job, Schedule(j) PROVE ResultSide'
  <2>0. PICK s \in Slot :
           /\ task[s].state = Free
           /\ task'[s] = [lambda |-> j, result |-> NoJob, state |-> {}, cancelled |-> FALSE]
           /\ \A x \in Slot : x # s => task'[x] = task[x]
           /\ sched'.pc = "push" /\ sched'.slot = s /\ sched'.job = j /\ sched.pc = "idle"
           /\ future[j].pc = "none" /\ UNCHANGED future
    BY <1>1, Scheduled
  <2>1. /\ task[s].state = Free /\ task'[s].state = {} /\ \A x \in Slot : x # s => task'[x] = task[x]
        /\ sched'.pc = "push" /\ sched'.slot = s /\ sched'.job = j /\ sched.pc = "idle"
        /\ future[j].pc = "none" /\ UNCHANGED future
    BY <2>0
  <2>2. ~Unreleased(s)
    BY <2>1, Bits DEF Unreleased
  <2>3. \A x \in Slot : Unreleased(x)' <=> Unreleased(x) \/ x = s
    BY <2>1 DEF Unreleased
  <2>4. /\ \A x \in Slot : ~Offered(x) /\ (Offered(x)' <=> x = s)
        /\ \A x \in Slot, i \in Job : Holds(i, x)' <=> Holds(i, x)
    BY <2>1 DEF Offered, Holds, Scheduling
  <2> QED
    BY <1>0, <2>1, <2>2, <2>3, <2>4 DEF ResultSide
<1>2. ASSUME NEW j \in Job, Get(j) \/ Reset(j) \/ Cancel(j) \/ Wait(j) PROVE ResultSide'
  <2>1. /\ UNCHANGED sched /\ \A s \in Slot : task'[s].state = task[s].state
        /\ {future[j].pc, future'[j].pc} \subseteq {"held", "wait", "take", "drop"}
        /\ future'[j].slot = future[j].slot
        /\ \A i \in Job : i # j => future'[i] = future[i]
    BY <1>0, <1>2 DEF Get, Reset, Cancel, Wait, Goto, Functions, TaskType, FutureType
  <2>2. sched.pc \in Scheduling => future'[sched.job].pc = "none"
    BY <1>0, <2>1 DEF ResultSide
  <2> QED
    BY <1>0, <2>1, <2>2, SameResults DEF Unreleased, Offered, Holds
<1>3. ASSUME NEW j \in Job, Release(j) PROVE ResultSide'
  <2>1. PICK s \in Slot : s = future[j].slot
    BY <1>0 DEF Functions, FutureType
  <2>2. /\ UNCHANGED sched /\ task'[s].state = task[s].state \union {Released}
        /\ \A x \in Slot : x # s => task'[x] = task[x]
    BY <1>0, <1>3, <2>1, TaskSteps DEF Release
  <2>3. /\ future[j].pc \in {"take", "drop"} /\ future'[j].pc \in {"none", "cleanUp"}
        /\ \A i \in Job : i # j => future'[i] = future[i]
    BY <1>0, <1>3 DEF Release, Functions, FutureType, NoFuture
  <2>4. Unreleased(s) /\ Holds(j, s)
    BY <1>0, <2>1, <2>3 DEF ResultSide, Holds
  <2>5. \A x \in Slot : Unreleased(x)' <=> Unreleased(x) /\ x # s
    BY <2>2, <2>4, Bits DEF Unreleased
  <2>6. /\ \A x \in Slot : Offered(x)' <=> Offered(x)
        /\ \A x \in Slot, i \in Job : Holds(i, x)' <=> Holds(i, x) /\ i # j
        /\ \A x \in Slot : Holds(j, x) => x = s
    BY <2>1, <2>2, <2>3 DEF Offered, Holds
  <2>7. sched.pc \in Scheduling => sched.job # j
    BY <1>0, <2>3 DEF ResultSide
  <2> QED
    BY <1>0, <2>2, <2>3, <2>4, <2>5, <2>6, <2>7 DEF ResultSide
<1>4. ASSUME NEW j \in Job, FutureCleansUp(j) PROVE ResultSide'
  <2>1. PICK s \in Slot : s = future[j].slot
    BY <1>0 DEF Functions, FutureType
  <2>2. /\ UNCHANGED sched /\ task'[s].state = Free
        /\ \A x \in Slot : x # s => task'[x] = task[x]
    BY <1>0, <1>4, <2>1, TaskSteps DEF FutureCleansUp
  <2>3. /\ future[j].pc = "cleanUp" /\ future'[j].pc = "none"
        /\ \A i \in Job : i # j => future'[i] = future[i]
    BY <1>0, <1>4 DEF FutureCleansUp, Functions, FutureType, NoFuture
  <2>4. Over(s)
    BY <2>1, <2>3 DEF IndInv, CleanSide, FutureCleans
  <2>5. \A x \in Slot : Unreleased(x)' <=> Unreleased(x)
    BY <2>2, <2>4, Bits DEF Unreleased, Over
  <2>6. sched.pc \in Scheduling => future'[sched.job].pc = "none"
    BY <1>0, <2>3 DEF ResultSide
  <2> QED
    BY <1>0, <2>2, <2>3, <2>5, <2>6, SameResults DEF Offered, Holds
<1>5. CASE Rejected \/ Join \/ Drained \/ StopWork
  <2>1. UNCHANGED <<task, future>> /\ {sched.pc, sched'.pc} \cap Scheduling = {}
    BY <1>0, <1>5 DEF Rejected, Join, Drained, StopWork, GotoS, TypeOK, Scheduling
  <2> QED
    BY <1>0, <2>1, SameResults DEF Unreleased, Offered, Holds
<1>6. CASE Push \/ Notify \/ NotifyAll
  <2>1. /\ UNCHANGED <<task, future>> /\ (sched.pc \in Scheduling <=> sched'.pc \in Scheduling)
        /\ sched'.slot = sched.slot /\ sched'.job = sched.job
    BY <1>0, <1>6 DEF Push, Notify, NotifyAll, GotoS, TypeOK, Scheduling
  <2>2. sched.pc \in Scheduling => future[sched.job].pc = "none"
    BY <1>0 DEF ResultSide
  <2> QED
    BY <1>0, <2>1, <2>2, SameResults DEF Unreleased, Offered, Holds
<1>7. CASE Count
  <2>1. PICK s \in Slot, j \in Job : s = sched.slot /\ j = sched.job /\ future[j].pc = "none"
    BY <1>0, <1>7 DEF Count, ResultSide, Scheduling, Functions
  <2>2. /\ UNCHANGED task /\ sched.pc = "count" /\ sched'.pc = "idle"
        /\ future'[j].pc = "held" /\ future'[j].slot = s
        /\ \A i \in Job : i # j => future'[i] = future[i]
    BY <1>0, <1>7, <2>1 DEF Count, Functions
  <2>3. /\ \A x \in Slot : (Unreleased(x)' <=> Unreleased(x)) /\ ~Offered(x)' /\ (Offered(x) <=> x = s)
        /\ \A x \in Slot, i \in Job : Holds(i, x)' <=> Holds(i, x) \/ (i = j /\ x = s)
    BY <2>1, <2>2 DEF Unreleased, Offered, Holds, Scheduling
  <2>4. sched'.pc \notin Scheduling
    BY <2>2 DEF Scheduling
  <2> QED
    BY <1>0, <2>3, <2>4 DEF ResultSide
<1>8. ASSUME NEW v \in Worker, Drain(v) PROVE ResultSide'
  <2>1. PICK s \in Slot : s = Head(queue[v]) /\ Waits(s)
    BY <1>0, <1>8, TakenQueue DEF Drain, LambdaSide, IndInv
  <2>2. /\ UNCHANGED <<sched, future>> /\ task[s].state = {Released} /\ task'[s].state = Free
        /\ \A x \in Slot : x # s => task'[x] = task[x]
    BY <1>8, <2>1, Drains
  <2>3. \A x \in Slot : Unreleased(x)' <=> Unreleased(x)
    BY <2>2, Bits DEF Unreleased
  <2>4. sched.pc \in Scheduling => future[sched.job].pc = "none"
    BY <1>0 DEF ResultSide
  <2> QED
    BY <1>0, <2>2, <2>3, <2>4, SameResults DEF Offered, Holds
<1>9. ASSUME NEW w \in Worker, Await(w) \/ Spurious(w) \/ FindsNothing(w) \/ Pop(w) \/ Execute(w) PROVE ResultSide'
  <2>1. UNCHANGED <<sched, future>> /\ \A s \in Slot : task'[s].state = task[s].state
    BY <1>0, <1>9 DEF Await, Spurious, FindsNothing, Pop, Execute, Functions, TaskType
  <2>2. sched.pc \in Scheduling => future[sched.job].pc = "none"
    BY <1>0 DEF ResultSide
  <2> QED
    BY <1>0, <2>1, <2>2, SameResults DEF Unreleased, Offered, Holds
<1>10. ASSUME NEW w \in Worker, Finish(w) \/ WorkerCleansUp(w) PROVE ResultSide'
  <2>1. PICK s \in Slot : s = worker[w].slot
    BY <1>0 DEF Functions, WorkerType
  <2>2. UNCHANGED <<sched, future>> /\ \A x \in Slot : x # s => task'[x] = task[x]
    BY <1>0, <1>10, <2>1, TaskSteps DEF Finish, WorkerCleansUp
  <2>3. Unreleased(s)' <=> Unreleased(s)
    <3>1. CASE Finish(w)
      <4>1. Unexecuted(s) /\ task'[s].state = task[s].state \union {Executed}
        BY <1>0, <2>1, <3>1, TaskSteps DEF Finish, IndInv, LambdaSide, Runs
      <4> QED
        BY <4>1, Bits DEF Unexecuted, Unreleased
    <3>2. CASE WorkerCleansUp(w)
      <4>1. Over(s) /\ task'[s].state = Free
        BY <1>0, <2>1, <3>2, TaskSteps DEF WorkerCleansUp, IndInv, CleanSide, WorkerCleans
      <4> QED
        BY <4>1, Bits DEF Over, Unreleased
    <3> QED
      BY <1>10, <3>1, <3>2
  <2>4. \A x \in Slot : Unreleased(x)' <=> Unreleased(x)
    BY <2>2, <2>3 DEF Unreleased
  <2>5. sched.pc \in Scheduling => future[sched.job].pc = "none"
    BY <1>0 DEF ResultSide
  <2> QED
    BY <1>0, <2>2, <2>4, <2>5, SameResults DEF Offered, Holds
<1>11. CASE UNCHANGED vars
  BY <1>0, <1>11, SameResults DEF vars, Unreleased, Offered, Holds, ResultSide
<1> QED
  BY <1>1, <1>2, <1>3, <1>4, <1>5, <1>6, <1>7, <1>8, <1>9, <1>10, <1>11
     DEF Next, FutureSteps, SchedulerSteps, WorkerSteps

-----------------------------------------------------------------------------
(* The clean-up *)

\* A step keeps who cleans up.
LEMMA NextCleanSide == IndInv /\ [Next]_vars => CleanSide'
<1> SUFFICES ASSUME IndInv, [Next]_vars PROVE CleanSide'
  OBVIOUS
<1>0. CleanSide /\ Functions /\ TypeOK /\ \A s \in Slot : task[s].state \in {Free, {}, {Executed}, {Released}, {Executed, Released}}
  BY Typed DEF IndInv, Contents
<1>1. ASSUME NEW j \in Job, Schedule(j) PROVE CleanSide'
  <2>0. PICK s \in Slot :
           /\ task[s].state = Free
           /\ task'[s] = [lambda |-> j, result |-> NoJob, state |-> {}, cancelled |-> FALSE]
           /\ \A x \in Slot : x # s => task'[x] = task[x]
           /\ UNCHANGED <<worker, future>>
    BY <1>1, Scheduled
  <2>1. /\ task[s].state = Free /\ task'[s].state = {} /\ \A x \in Slot : x # s => task'[x] = task[x]
        /\ UNCHANGED <<worker, future>>
    BY <2>0
  <2>2. \A x \in Slot : Over(x)' <=> Over(x)
    BY <2>1, Bits DEF Over
  <2> QED
    BY <1>0, <2>1, <2>2, SameCleaning DEF WorkerCleans, FutureCleans
<1>2. ASSUME NEW j \in Job, Get(j) \/ Reset(j) \/ Cancel(j) \/ Wait(j) PROVE CleanSide'
  <2>1. UNCHANGED worker /\ \A s \in Slot : task'[s].state = task[s].state
    BY <1>0, <1>2 DEF Get, Reset, Cancel, Wait, Functions, TaskType, FutureType
  <2>2. /\ future[j].pc # "cleanUp" /\ future'[j].pc # "cleanUp"
        /\ \A i \in Job : i # j => future'[i] = future[i]
    BY <1>0, <1>2 DEF Get, Reset, Cancel, Wait, Goto, Functions, FutureType
  <2> QED
    BY <1>0, <2>1, <2>2, SameCleaning DEF Over, WorkerCleans, FutureCleans
<1>3. ASSUME NEW j \in Job, Release(j) PROVE CleanSide'
  <2>1. PICK s \in Slot : s = future[j].slot
    BY <1>0 DEF Functions, FutureType
  <2>2. /\ UNCHANGED worker /\ task'[s].state = task[s].state \union {Released}
        /\ \A x \in Slot : x # s => task'[x] = task[x]
    BY <1>0, <1>3, <2>1, TaskSteps DEF Release
  <2>3. /\ future[j].pc \in {"take", "drop"} /\ \A i \in Job : i # j => future'[i] = future[i]
        /\ IF Second(s, Released) THEN future'[j].pc = "cleanUp" /\ future'[j].slot = s
                                  ELSE future'[j].pc = "none"
    BY <1>0, <1>3, <2>1 DEF Release, Functions, FutureType, NoFuture
  <2>4. Unreleased(s)
    BY <2>1, <2>3 DEF IndInv, ResultSide, Holds
  <2>5. ~Over(s) /\ (Over(s)' <=> Second(s, Released))
    BY <2>2, <2>4, Bits DEF Over, Unreleased, Second
  <2>6. \A x \in Slot : Over(x)' <=> Over(x) \/ (x = s /\ Second(s, Released))
    BY <2>2, <2>5 DEF Over
  <2>7. /\ \A x \in Slot, w \in Worker : WorkerCleans(w, x)' <=> WorkerCleans(w, x)
        /\ \A x \in Slot, i \in Job : FutureCleans(i, x)' <=> FutureCleans(i, x) \/ (i = j /\ x = s /\ Second(s, Released))
    BY <2>1, <2>2, <2>3 DEF WorkerCleans, FutureCleans
  <2> QED
    BY <1>0, <2>5, <2>6, <2>7 DEF CleanSide
<1>4. ASSUME NEW j \in Job, FutureCleansUp(j) PROVE CleanSide'
  <2>1. PICK s \in Slot : s = future[j].slot
    BY <1>0 DEF Functions, FutureType
  <2>2. /\ UNCHANGED worker /\ task'[s].state = Free
        /\ \A x \in Slot : x # s => task'[x] = task[x]
    BY <1>0, <1>4, <2>1, TaskSteps DEF FutureCleansUp
  <2>3. /\ future[j].pc = "cleanUp" /\ future'[j].pc = "none"
        /\ \A i \in Job : i # j => future'[i] = future[i]
    BY <1>0, <1>4 DEF FutureCleansUp, Functions, FutureType, NoFuture
  <2>4. \A x \in Slot : Over(x)' <=> Over(x) /\ x # s
    BY <2>2, Bits DEF Over
  <2>5. /\ \A x \in Slot, w \in Worker : WorkerCleans(w, x)' <=> WorkerCleans(w, x)
        /\ \A x \in Slot, i \in Job : FutureCleans(i, x)' <=> FutureCleans(i, x) /\ i # j
        /\ FutureCleans(j, s) /\ \A x \in Slot : FutureCleans(j, x) => x = s
    BY <2>1, <2>2, <2>3 DEF WorkerCleans, FutureCleans
  <2> QED
    BY <1>0, <2>4, <2>5 DEF CleanSide
<1>5. CASE Rejected \/ Join \/ Drained \/ StopWork \/ Push
  <2>1. UNCHANGED <<task, future, worker>>
    BY <1>5 DEF Rejected, Join, Drained, StopWork, Push
  <2> QED
    BY <1>0, <2>1, SameCleaning DEF Over, WorkerCleans, FutureCleans
<1>6. CASE Notify \/ NotifyAll
  <2>1. UNCHANGED <<task, future>>
    BY <1>6 DEF Notify, NotifyAll
  <2>2. \A w \in Worker : \/ worker'[w] = worker[w]
                          \/ worker[w].pc = "asleep" /\ worker'[w].pc = "wait"
    BY <1>0, <1>6, Woken DEF Notify, NotifyAll
  <2> QED
    BY <1>0, <2>1, <2>2, SameCleaning DEF Over, WorkerCleans, FutureCleans
<1>7. CASE Count
  <2>1. PICK j \in Job : j = sched.job /\ future[j].pc = "none"
    BY <1>0, <1>7 DEF Count, IndInv, ResultSide, Scheduling, Functions
  <2>2. /\ UNCHANGED <<task, worker>> /\ future'[j].pc = "held"
        /\ \A i \in Job : i # j => future'[i] = future[i]
    BY <1>0, <1>7, <2>1 DEF Count, Functions
  <2> QED
    BY <1>0, <2>1, <2>2, SameCleaning DEF Over, WorkerCleans, FutureCleans
<1>8. ASSUME NEW v \in Worker, Drain(v) PROVE CleanSide'
  <2>1. PICK s \in Slot : s = Head(queue[v]) /\ Waits(s)
    BY <1>0, <1>8, TakenQueue DEF Drain, LambdaSide, IndInv
  <2>2. /\ UNCHANGED <<worker, future>> /\ task[s].state = {Released} /\ task'[s].state = Free
        /\ \A x \in Slot : x # s => task'[x] = task[x]
    BY <1>8, <2>1, Drains
  <2>3. \A x \in Slot : Over(x)' <=> Over(x)
    BY <2>2, Bits DEF Over
  <2> QED
    BY <1>0, <2>2, <2>3, SameCleaning DEF WorkerCleans, FutureCleans
<1>9. ASSUME NEW w \in Worker, Await(w) \/ Spurious(w) \/ FindsNothing(w) PROVE CleanSide'
  <2>1. UNCHANGED <<task, future>>
    BY <1>9 DEF Await, Spurious, FindsNothing
  <2>2. \A x \in Worker : \/ worker'[x] = worker[x]
                          \/ x = w /\ {worker[x].pc, worker'[x].pc} \subseteq {"wait", "asleep", "pop", "done"}
    BY <1>9, Idles
  <2> QED
    BY <1>0, <2>1, <2>2, SameCleaning DEF Over, WorkerCleans, FutureCleans
<1>10. ASSUME NEW w \in Worker, Pop(w) \/ Execute(w) PROVE CleanSide'
  <2>1. /\ UNCHANGED future /\ \A s \in Slot : task'[s].state = task[s].state
        /\ {worker[w].pc, worker'[w].pc} \subseteq {"pop", "execute", "finish"}
        /\ \A x \in Worker : x # w => worker'[x] = worker[x]
    BY <1>0, <1>10 DEF Pop, Execute, Functions, TaskType, WorkerType
  <2> QED
    BY <1>0, <2>1, SameCleaning DEF Over, WorkerCleans, FutureCleans
<1>11. ASSUME NEW w \in Worker, Finish(w) PROVE CleanSide'
  <2>1. PICK s \in Slot : s = worker[w].slot
    BY <1>0 DEF Functions, WorkerType
  <2>2. /\ UNCHANGED future /\ task'[s].state = task[s].state \union {Executed}
        /\ \A x \in Slot : x # s => task'[x] = task[x]
    BY <1>0, <1>11, <2>1, TaskSteps DEF Finish
  <2>3. /\ worker[w].pc = "finish" /\ \A x \in Worker : x # w => worker'[x] = worker[x]
        /\ IF Second(s, Executed) THEN worker'[w].pc = "cleanUp" /\ worker'[w].slot = s
                                  ELSE worker'[w].pc = "wait"
    BY <1>0, <1>11, <2>1 DEF Finish, Functions, WorkerType, Waiting
  <2>4. Unexecuted(s)
    BY <2>1, <2>3 DEF IndInv, LambdaSide, Runs
  <2>5. ~Over(s) /\ (Over(s)' <=> Second(s, Executed))
    BY <2>2, <2>4, Bits DEF Over, Unexecuted, Second
  <2>6. \A x \in Slot : Over(x)' <=> Over(x) \/ (x = s /\ Second(s, Executed))
    BY <2>2, <2>5 DEF Over
  <2>7. /\ \A x \in Slot, j \in Job : FutureCleans(j, x)' <=> FutureCleans(j, x)
        /\ \A x \in Slot, u \in Worker :
             WorkerCleans(u, x)' <=> WorkerCleans(u, x) \/ (u = w /\ x = s /\ Second(s, Executed))
    BY <2>1, <2>2, <2>3 DEF WorkerCleans, FutureCleans
  <2> QED
    BY <1>0, <2>5, <2>6, <2>7 DEF CleanSide
<1>12. ASSUME NEW w \in Worker, WorkerCleansUp(w) PROVE CleanSide'
  <2>1. PICK s \in Slot : s = worker[w].slot
    BY <1>0 DEF Functions, WorkerType
  <2>2. /\ UNCHANGED future /\ task'[s].state = Free
        /\ \A x \in Slot : x # s => task'[x] = task[x]
    BY <1>0, <1>12, <2>1, TaskSteps DEF WorkerCleansUp
  <2>3. /\ worker[w].pc = "cleanUp" /\ worker'[w].pc = "wait"
        /\ \A x \in Worker : x # w => worker'[x] = worker[x]
    BY <1>0, <1>12 DEF WorkerCleansUp, Functions, WorkerType, Waiting
  <2>4. \A x \in Slot : Over(x)' <=> Over(x) /\ x # s
    BY <2>2, Bits DEF Over
  <2>5. /\ \A x \in Slot, j \in Job : FutureCleans(j, x)' <=> FutureCleans(j, x)
        /\ \A x \in Slot, u \in Worker : WorkerCleans(u, x)' <=> WorkerCleans(u, x) /\ u # w
        /\ WorkerCleans(w, s) /\ \A x \in Slot : WorkerCleans(w, x) => x = s
    BY <2>1, <2>2, <2>3 DEF WorkerCleans, FutureCleans
  <2> QED
    BY <1>0, <2>4, <2>5 DEF CleanSide
<1>13. CASE UNCHANGED vars
  BY <1>0, <1>13, SameCleaning DEF vars, Over, WorkerCleans, FutureCleans
<1> QED
  BY <1>1, <1>2, <1>3, <1>4, <1>5, <1>6, <1>7, <1>8, <1>9, <1>10, <1>11, <1>12, <1>13
     DEF Next, FutureSteps, SchedulerSteps, WorkerSteps

-----------------------------------------------------------------------------
(* The contents *)

\* A slot that is free or over is nobody's, but for the clean-up.
LEMMA NobodyHas ==
  ASSUME IndInv, NEW s \in Slot
  PROVE  /\ ~Unexecuted(s) => /\ ~ToPush(s) /\ ~Waits(s)
                              /\ \A w \in Worker : worker[w].pc \in {"execute", "finish"} => worker[w].slot # s
         /\ ~Unreleased(s) => /\ sched.pc \in Scheduling => sched.slot # s
                              /\ \A j \in Job : future[j].pc \in {"held", "wait", "take"} => future[j].slot # s
BY DEF IndInv, LambdaSide, ResultSide, Runs, Offered, Holds

\* What the Futures, and the caller that will have one, are promised.
Promised ==
  /\ sched.pc \in Scheduling => Answers(sched.slot, sched.job)
  /\ \A j \in Job :
       /\ future[j].pc \in {"held", "wait", "take"} => Answers(future[j].slot, j)
       /\ future[j].pc = "take" => task[future[j].slot].state = {Executed}

\* A step keeps what the Futures are promised, when it keeps every answer.
LEMMA KeepsPromises ==
  ASSUME IndInv, UNCHANGED sched,
         \A x \in Slot, j \in Job : Answers(x, j) => Answers(x, j)',
         \A j \in Job : future'[j].pc \in {"held", "wait", "take"} =>
           /\ future'[j] = future[j]
           /\ \A x \in Slot : x = future[j].slot /\ task[x].state = {Executed} => task'[x].state = {Executed}
  PROVE  Promised'
<1>1. Functions /\ ResultSide /\ Contents
  BY Typed DEF IndInv
<1>2. (sched.pc \in Scheduling => Answers(sched.slot, sched.job))'
  <2> SUFFICES ASSUME sched.pc \in Scheduling PROVE Answers(sched.slot, sched.job)'
    OBVIOUS
  <2>1. PICK x \in Slot, j \in Job : x = sched.slot /\ j = sched.job
    BY <1>1 DEF Functions, ResultSide
  <2>2. Answers(x, j)'
    BY <1>1, <2>1 DEF Contents
  <2> QED
    BY <2>1, <2>2 DEF Answers
<1>3. ASSUME NEW j \in Job
      PROVE  (/\ future[j].pc \in {"held", "wait", "take"} => Answers(future[j].slot, j)
              /\ future[j].pc = "take" => task[future[j].slot].state = {Executed})'
  <2>1. PICK x \in Slot : x = future[j].slot
    BY <1>1 DEF Functions, FutureType
  <2>2. future'[j].pc \in {"held", "wait", "take"} => Answers(x, j)' /\ x = future'[j].slot
    BY <1>1, <2>1 DEF Contents
  <2>3. future'[j].pc = "take" => task'[x].state = {Executed}
    BY <1>1, <2>1 DEF Contents
  <2> QED
    BY <2>2, <2>3 DEF Answers
<1> QED
  BY <1>2, <1>3 DEF Promised

\* A step keeps what the slots hold.
LEMMA NextContents == IndInv /\ [Next]_vars => Contents'
<1> SUFFICES ASSUME IndInv, [Next]_vars PROVE Contents'
  OBVIOUS
<1>0. /\ Contents /\ Functions /\ TypeOK /\ LambdaSide /\ ResultSide /\ CleanSide
      /\ NoJob \notin Job
  BY Typed, PoolAssumption DEF IndInv
<1>1. ASSUME NEW j \in Job, Schedule(j) PROVE Contents'
  <2>0. PICK s \in Slot :
           /\ task[s].state = Free
           /\ task'[s] = [lambda |-> j, result |-> NoJob, state |-> {}, cancelled |-> FALSE]
           /\ \A x \in Slot : x # s => task'[x] = task[x]
           /\ sched'.pc = "push" /\ sched'.slot = s /\ sched'.job = j /\ sched.pc = "idle"
           /\ UNCHANGED <<worker, future, queue>>
    BY <1>1, Scheduled
  <2>1. /\ task[s].state = Free /\ task'[s].state = {} /\ \A x \in Slot : x # s => task'[x] = task[x]
        /\ task'[s].lambda = j /\ task'[s].result = NoJob /\ task'[s].cancelled = FALSE
        /\ sched'.pc = "push" /\ sched'.slot = s /\ sched'.job = j /\ sched.pc = "idle"
        /\ UNCHANGED <<worker, future>> /\ \A x \in Slot : Waits(x)' <=> Waits(x)
    BY <2>0 DEF Waits, Queued
  <2>2. ~Unexecuted(s) /\ ~Unreleased(s)
    BY <2>1, Bits DEF Unexecuted, Unreleased
  <2>3. /\ ~Waits(s) /\ \A w \in Worker : worker[w].pc \in {"execute", "finish"} => worker[w].slot # s
        /\ \A i \in Job : future[i].pc \in {"held", "wait", "take"} => future[i].slot # s
    BY <2>2, NobodyHas
  <2> QED
    BY SMTT(30), <1>0, <2>1, <2>3, Bits DEF Contents, Unexecuted, ToPush, Answers, Functions, WorkerType, FutureType
<1>2. ASSUME NEW j \in Job, Get(j) \/ Reset(j) PROVE Contents'
  <2>1. /\ UNCHANGED <<sched, task, queue, worker>> /\ future[j].pc = "held" /\ future'[j].pc \in {"wait", "drop"}
        /\ future'[j].slot = future[j].slot /\ \A i \in Job : i # j => future'[i] = future[i]
    BY <1>0, <1>2 DEF Get, Reset, Goto, Functions, FutureType
  <2> QED
    BY <1>0, <2>1 DEF Contents, Unexecuted, ToPush, Waits, Queued, Answers
<1>3. ASSUME NEW j \in Job, Cancel(j) PROVE Contents'
  <2>1. PICK s \in Slot : s = future[j].slot
    BY <1>0 DEF Functions, FutureType
  <2>2. /\ UNCHANGED <<sched, queue, worker>> /\ \A x \in Slot : x # s => task'[x] = task[x]
        /\ task'[s].state = task[s].state /\ task'[s].lambda = task[s].lambda /\ task'[s].result = task[s].result
    BY <1>0, <1>3, <2>1 DEF Cancel, Functions, TaskType
  <2>3. /\ future[j].pc = "held" /\ future'[j].pc = "drop"
        /\ future'[j].slot = future[j].slot /\ \A i \in Job : i # j => future'[i] = future[i]
    BY <1>0, <1>3 DEF Cancel, Goto, Functions, FutureType
  <2>4. /\ sched.pc \in Scheduling => sched.slot # s
        /\ \A i \in Job : i # j /\ future[i].pc \in {"held", "wait", "take"} => future[i].slot # s
    BY <1>0, <2>1, <2>3 DEF ResultSide, Offered, Holds
  <2> QED
    BY SMTT(30), <1>0, <2>2, <2>3, <2>4 DEF Contents, Unexecuted, ToPush, Waits, Queued, Answers, Functions, WorkerType, FutureType
<1>4. ASSUME NEW j \in Job, Wait(j) PROVE Contents'
  <2>1. PICK s \in Slot : s = future[j].slot
    BY <1>0 DEF Functions, FutureType
  <2>2. /\ UNCHANGED <<sched, task, queue, worker>> /\ future[j].pc = "wait" /\ future'[j].pc = "take"
        /\ future'[j].slot = s /\ \A i \in Job : i # j => future'[i] = future[i]
    BY <1>0, <1>4, <2>1 DEF Wait, Goto, Functions, FutureType
  <2>3. task[s].state = {Executed}
    BY <1>0, <1>4, <2>1, <2>2 DEF Wait, HasRun, ResultSide, Holds, Unreleased
  <2> QED
    BY <1>0, <2>1, <2>2, <2>3 DEF Contents, Unexecuted, ToPush, Waits, Queued, Answers
<1>5. ASSUME NEW j \in Job, Release(j) PROVE Contents'
  <2>1. PICK s \in Slot : s = future[j].slot
    BY <1>0 DEF Functions, FutureType
  <2>2. /\ UNCHANGED <<sched, queue, worker>> /\ task'[s].state = task[s].state \union {Released}
        /\ \A x \in Slot : x # s => task'[x] = task[x]
        /\ task'[s].lambda = task[s].lambda /\ task'[s].result = task[s].result
        /\ task'[s].cancelled = task[s].cancelled
    BY <1>0, <1>5, <2>1, TaskSteps DEF Release
  <2>3. /\ future[j].pc \in {"take", "drop"} /\ future'[j].pc \in {"none", "cleanUp"}
        /\ \A i \in Job : i # j => future'[i] = future[i]
    BY <1>0, <1>5 DEF Release, Functions, FutureType, NoFuture
  <2>4. /\ Unreleased(s)
        /\ \A i \in Job : i # j /\ future[i].pc \in {"held", "wait", "take"} => future[i].slot # s
    BY <1>0, <2>1, <2>3 DEF ResultSide, Holds
  <2>5. task'[s].state \in {{Released}, {Executed, Released}} /\ (Unexecuted(s)' <=> Unexecuted(s))
    BY <2>2, <2>4, Bits DEF Unexecuted, Unreleased
  <2>6. \A x \in Slot : Waits(x)' <=> Waits(x)
    BY <2>2 DEF Waits, Queued
  <2>7. /\ \A x \in Slot : task'[x].state \in {Free, {}, {Executed}, {Released}, {Executed, Released}}
        /\ \A x \in Slot : ~Unexecuted(x)' => task'[x].lambda = NoJob
        /\ \A x \in Slot : task'[x].state = Free => task'[x].result = NoJob
    BY <1>0, <2>2, <2>5, Bits DEF Contents, Unexecuted
  <2>8. \A x \in Slot : /\ task'[x].lambda = task[x].lambda /\ task'[x].result = task[x].result
                        /\ task'[x].cancelled = task[x].cancelled
    BY <2>2
  <2>9. \A i \in Job : future'[i].pc \in {"held", "wait", "take"} =>
          /\ future'[i] = future[i]
          /\ \A x \in Slot : x = future[i].slot /\ task[x].state = {Executed} => task'[x].state = {Executed}
    BY <2>2, <2>3, <2>4
  <2>10. Promised'
    BY <2>2, <2>8, <2>9, KeepsPromises DEF Answers
  <2>11. \A w \in Worker :
           /\ worker'[w].pc = "execute" =>
                task'[worker'[w].slot].lambda # NoJob /\ task'[worker'[w].slot].result = NoJob
           /\ worker'[w].pc = "finish" => task'[worker'[w].slot].lambda = NoJob
    BY <1>0, <2>2, <2>8 DEF Contents, Functions, WorkerType
  <2>12. \A x \in Slot : ToPush(x)' \/ Waits(x)' => task'[x].lambda # NoJob /\ task'[x].result = NoJob
    BY <1>0, <2>2, <2>6, <2>8 DEF Contents, ToPush
  <2> QED
    BY <2>7, <2>10, <2>11, <2>12 DEF Contents, Promised
<1>6. ASSUME NEW s \in Slot, ~Unexecuted(s)', ~Unreleased(s)', ~Waits(s)',
             UNCHANGED sched, sched.pc \in Scheduling => sched.slot # s,
             task'[s].state = Free, task'[s].lambda = NoJob, task'[s].result = NoJob,
             \A x \in Slot : x # s => task'[x] = task[x] /\ (Waits(x)' => Waits(x)),
             \A w \in Worker : worker'[w].pc \in {"execute", "finish"} => worker'[w] = worker[w] /\ worker[w].slot # s,
             \A j \in Job : future'[j].pc \in {"held", "wait", "take"} => future'[j] = future[j] /\ future[j].slot # s
      PROVE  Contents'
  BY SMTT(30), <1>0, <1>6 DEF Contents, Unexecuted, ToPush, Answers, Functions, WorkerType, FutureType, Scheduling
<1>7. ASSUME NEW j \in Job, FutureCleansUp(j) PROVE Contents'
  <2>1. PICK s \in Slot : s = future[j].slot
    BY <1>0 DEF Functions, FutureType
  <2>2. /\ UNCHANGED <<sched, queue, worker>> /\ task'[s].state = Free
        /\ task'[s].lambda = task[s].lambda /\ task'[s].result = NoJob
        /\ \A x \in Slot : x # s => task'[x] = task[x]
    BY <1>0, <1>7, <2>1, TaskSteps DEF FutureCleansUp
  <2>3. /\ future[j].pc = "cleanUp" /\ future'[j].pc = "none"
        /\ \A i \in Job : i # j => future'[i] = future[i]
    BY <1>0, <1>7 DEF FutureCleansUp, Functions, FutureType, NoFuture
  <2>4. Over(s)
    BY <1>0, <2>1, <2>3 DEF CleanSide, FutureCleans
  <2>5. ~Unexecuted(s) /\ ~Unreleased(s) /\ ~Unexecuted(s)' /\ ~Unreleased(s)'
    BY <2>2, <2>4, Bits DEF Over, Unexecuted, Unreleased
  <2>6. task[s].lambda = NoJob /\ \A x \in Slot : Waits(x)' <=> Waits(x)
    BY <1>0, <2>2, <2>5 DEF Contents, Waits, Queued
  <2>7. /\ ~Waits(s) /\ (sched.pc \in Scheduling => sched.slot # s)
        /\ \A w \in Worker : worker[w].pc \in {"execute", "finish"} => worker[w].slot # s
        /\ \A i \in Job : future[i].pc \in {"held", "wait", "take"} => future[i].slot # s
    BY <2>5, NobodyHas
  <2> QED
    BY <1>6, <2>2, <2>3, <2>5, <2>6, <2>7
<1>8. ASSUME NEW w \in Worker, WorkerCleansUp(w) PROVE Contents'
  <2>1. PICK s \in Slot : s = worker[w].slot
    BY <1>0 DEF Functions, WorkerType
  <2>2. /\ UNCHANGED <<sched, queue, future>> /\ task'[s].state = Free
        /\ task'[s].lambda = task[s].lambda /\ task'[s].result = NoJob
        /\ \A x \in Slot : x # s => task'[x] = task[x]
    BY <1>0, <1>8, <2>1, TaskSteps DEF WorkerCleansUp
  <2>3. /\ worker[w].pc = "cleanUp" /\ worker'[w].pc = "wait"
        /\ \A x \in Worker : x # w => worker'[x] = worker[x]
    BY <1>0, <1>8 DEF WorkerCleansUp, Functions, WorkerType, Waiting
  <2>4. Over(s)
    BY <1>0, <2>1, <2>3 DEF CleanSide, WorkerCleans
  <2>5. ~Unexecuted(s) /\ ~Unreleased(s) /\ ~Unexecuted(s)' /\ ~Unreleased(s)'
    BY <2>2, <2>4, Bits DEF Over, Unexecuted, Unreleased
  <2>6. task[s].lambda = NoJob /\ \A x \in Slot : Waits(x)' <=> Waits(x)
    BY <1>0, <2>2, <2>5 DEF Contents, Waits, Queued
  <2>7. /\ ~Waits(s) /\ (sched.pc \in Scheduling => sched.slot # s)
        /\ \A u \in Worker : worker[u].pc \in {"execute", "finish"} => worker[u].slot # s
        /\ \A i \in Job : future[i].pc \in {"held", "wait", "take"} => future[i].slot # s
    BY <2>5, NobodyHas
  <2> QED
    BY <1>6, <2>2, <2>3, <2>5, <2>6, <2>7
<1>9. ASSUME NEW v \in Worker, Drain(v) PROVE Contents'
  <2>1. PICK s \in Slot : s = Head(queue[v]) /\ Waits(s) /\ \A x \in Slot : Waits(x)' <=> Waits(x) /\ x # s
    BY <1>0, <1>9, TakenQueue DEF Drain, LambdaSide
  <2>2. /\ sched.pc = "drain" /\ UNCHANGED <<sched, worker, future>> /\ task[s].state = {Released}
        /\ task'[s].state = Free /\ task'[s].lambda = NoJob /\ task'[s].result = NoJob
        /\ \A x \in Slot : x # s => task'[x] = task[x]
    BY <1>9, <2>1, Drains
  <2>3. ~Unreleased(s) /\ ~Unexecuted(s)' /\ ~Unreleased(s)'
    BY <2>2, Bits DEF Unexecuted, Unreleased
  <2>4. /\ sched.pc \in Scheduling => sched.slot # s
        /\ \A i \in Job : future[i].pc \in {"held", "wait", "take"} => future[i].slot # s
    BY <2>3, NobodyHas
  <2>5. \A u \in Worker : worker[u].pc \in {"execute", "finish"} => worker[u].slot # s
    BY <1>0, <2>1 DEF LambdaSide, Runs
  <2> QED
    BY <1>6, <2>1, <2>2, <2>3, <2>4, <2>5
<1>10. CASE Rejected \/ Join \/ Drained \/ StopWork
  <2>1. UNCHANGED <<task, queue, worker, future>> /\ {sched.pc, sched'.pc} \cap Scheduling = {}
    BY <1>0, <1>10 DEF Rejected, Join, Drained, StopWork, GotoS, TypeOK, Scheduling
  <2>2. sched.pc \notin Scheduling /\ sched'.pc \notin Scheduling
    BY <2>1
  <2>3. \A x \in Slot : /\ ~ToPush(x) /\ ~ToPush(x)' /\ (Waits(x)' <=> Waits(x))
                        /\ (Unexecuted(x)' <=> Unexecuted(x))
    BY <2>1, <2>2 DEF ToPush, Scheduling, Waits, Queued, Unexecuted
  <2> QED
    BY <1>0, <2>1, <2>2, <2>3 DEF Contents, Answers
<1>11. CASE Push
  <2>1. PICK s \in Slot, v \in Worker : s = sched.slot /\ v = Target
    BY <1>0, TargetIsWorker DEF Functions
  <2>2. ToPush(s) /\ ~Waits(s) /\ HasRoom(v)
    BY <1>0, <1>11, <2>1 DEF Push, GotoS, ToPush, LambdaSide, IndInv, Counted
  <2>3. /\ queue' = [queue EXCEPT ![v] = Append(@, s)] /\ UNCHANGED <<task, worker, future>>
        /\ sched.pc = "push" /\ sched'.pc \in {"notify", "count"} /\ sched'.slot = s /\ sched'.job = sched.job
    BY <1>0, <1>11, <2>1, <2>2 DEF Push, GotoS, TypeOK
  <2>4. \A x \in Slot : Waits(x)' => Waits(x) \/ ToPush(x)
    BY ZenonT(30), <1>0, <2>2, <2>3, PushedQueue DEF LambdaSide
  <2> QED
    BY <1>0, <2>1, <2>3, <2>4 DEF Contents, Unexecuted, ToPush, Answers, Scheduling
<1>12. CASE Notify \/ NotifyAll
  <2>1. /\ UNCHANGED <<task, queue, future>> /\ sched'.pc # "push" /\ (sched'.pc \in Scheduling => sched.pc \in Scheduling)
        /\ sched'.slot = sched.slot /\ sched'.job = sched.job
    BY <1>0, <1>12 DEF Notify, NotifyAll, GotoS, TypeOK, Scheduling
  <2>2. \A w \in Worker : \/ worker'[w] = worker[w]
                          \/ worker[w].pc = "asleep" /\ worker'[w].pc = "wait"
    BY <1>0, <1>12, Woken DEF Notify, NotifyAll
  <2> QED
    BY <1>0, <2>1, <2>2 DEF Contents, Unexecuted, ToPush, Waits, Queued, Answers
<1>13. CASE Count
  <2>1. PICK s \in Slot, j \in Job : s = sched.slot /\ j = sched.job
    BY <1>0, <1>13 DEF Count, ResultSide, Scheduling, Functions
  <2>2. /\ UNCHANGED <<task, queue, worker>> /\ sched.pc = "count" /\ sched'.pc = "idle"
        /\ future'[j].pc = "held" /\ future'[j].slot = s
        /\ \A i \in Job : i # j => future'[i] = future[i]
    BY <1>0, <1>13, <2>1 DEF Count, Functions
  <2> QED
    BY <1>0, <2>1, <2>2 DEF Contents, Unexecuted, ToPush, Waits, Queued, Answers, Scheduling
<1>14. ASSUME NEW w \in Worker, Await(w) \/ Spurious(w) \/ FindsNothing(w) PROVE Contents'
  <2>1. UNCHANGED <<sched, task, queue, future>>
    BY <1>14 DEF Await, Spurious, FindsNothing
  <2>2. \A x \in Worker : \/ worker'[x] = worker[x]
                          \/ x = w /\ {worker[x].pc, worker'[x].pc} \subseteq {"wait", "asleep", "pop", "done"}
    BY <1>14, Idles
  <2> QED
    BY <1>0, <2>1, <2>2 DEF Contents, Unexecuted, ToPush, Waits, Queued, Answers
<1>15. ASSUME NEW w \in Worker, Pop(w) PROVE Contents'
  <2>1. PICK v \in Worker : v = worker[w].victim
    BY <1>0 DEF Functions, WorkerType
  <2>2. PICK s \in Slot : s = Head(queue[v]) /\ Waits(s) /\ \A x \in Slot : Waits(x)' <=> Waits(x) /\ x # s
    BY <1>0, <1>15, <2>1, TakenQueue DEF Pop, LambdaSide
  <2>3. /\ UNCHANGED <<sched, task, future>> /\ worker'[w].pc = "execute" /\ worker'[w].slot = s
        /\ \A x \in Worker : x # w => worker'[x] = worker[x]
    BY <1>0, <1>15, <2>1, <2>2 DEF Pop, Functions, WorkerType
  <2> QED
    BY <1>0, <2>2, <2>3 DEF Contents, Unexecuted, ToPush, Answers
<1>16. ASSUME NEW w \in Worker, Execute(w) PROVE Contents'
  <2>1. PICK s \in Slot : s = worker[w].slot
    BY <1>0 DEF Functions, WorkerType
  <2>2. /\ UNCHANGED <<sched, queue, future>> /\ \A x \in Slot : x # s => task'[x] = task[x]
        /\ task'[s].lambda = NoJob /\ task'[s].state = task[s].state /\ task'[s].cancelled = task[s].cancelled
        /\ task'[s].result = IF task[s].cancelled THEN task[s].result ELSE task[s].lambda
    BY <1>0, <1>16, <2>1 DEF Execute, Functions, TaskType
  <2>3. /\ worker[w].pc = "execute" /\ worker'[w].pc = "finish" /\ worker'[w].slot = s
        /\ \A x \in Worker : x # w => worker'[x] = worker[x]
    BY <1>0, <1>16, <2>1 DEF Execute, Functions, WorkerType
  <2>4. /\ Unexecuted(s) /\ ~ToPush(s) /\ ~Waits(s)
        /\ \A x \in Worker : x # w /\ worker[x].pc \in {"execute", "finish"} => worker[x].slot # s
    BY <1>0, <2>1, <2>3 DEF LambdaSide, Runs
  <2>5. task[s].lambda # NoJob /\ task[s].result = NoJob /\ task[s].state # Free
    BY <1>0, <2>1, <2>3, <2>4, Bits DEF Contents, Unexecuted
  <2>6. \A j \in Job, x \in Slot : Answers(x, j) => Answers(x, j)'
    BY <1>0, <2>2, <2>5 DEF Answers
  <2>7. \A x \in Slot : (Waits(x)' <=> Waits(x)) /\ (ToPush(x)' <=> ToPush(x)) /\ (Unexecuted(x)' <=> Unexecuted(x))
    BY <2>2 DEF Waits, Queued, ToPush, Unexecuted
  <2>8. \A x \in Slot : task'[x].state = task[x].state
    BY <2>2
  <2>9. /\ \A x \in Slot : task'[x].state \in {Free, {}, {Executed}, {Released}, {Executed, Released}}
        /\ \A x \in Slot : ~Unexecuted(x)' => task'[x].lambda = NoJob
        /\ \A x \in Slot : task'[x].state = Free => task'[x].result = NoJob
        /\ \A x \in Slot : ToPush(x)' \/ Waits(x)' => task'[x].lambda # NoJob /\ task'[x].result = NoJob
    BY <1>0, <2>2, <2>4, <2>5, <2>7, <2>8 DEF Contents
  <2>10. \A u \in Worker :
       /\ worker'[u].pc = "execute" =>
            task'[worker'[u].slot].lambda # NoJob /\ task'[worker'[u].slot].result = NoJob
       /\ worker'[u].pc = "finish" => task'[worker'[u].slot].lambda = NoJob
    BY <1>0, <2>2, <2>3, <2>4 DEF Contents, Functions, WorkerType
  <2>11. Promised'
    BY <2>2, <2>6, <2>8, KeepsPromises
  <2> QED
    BY <2>9, <2>10, <2>11 DEF Contents, Promised
<1>17. ASSUME NEW w \in Worker, Finish(w) PROVE Contents'
  <2>1. PICK s \in Slot : s = worker[w].slot
    BY <1>0 DEF Functions, WorkerType
  <2>2. /\ UNCHANGED <<sched, queue, future>> /\ task'[s].state = task[s].state \union {Executed}
        /\ \A x \in Slot : x # s => task'[x] = task[x]
        /\ task'[s].lambda = task[s].lambda /\ task'[s].result = task[s].result
        /\ task'[s].cancelled = task[s].cancelled
    BY <1>0, <1>17, <2>1, TaskSteps DEF Finish
  <2>3. worker[w].pc = "finish" /\ worker'[w].pc \in {"cleanUp", "wait"} /\ \A x \in Worker : x # w => worker'[x] = worker[x]
    BY <1>0, <1>17 DEF Finish, Functions, WorkerType, Waiting
  <2>4. Unexecuted(s) /\ task[s].lambda = NoJob
    BY <1>0, <2>1, <2>3 DEF LambdaSide, Runs, Contents
  <2>5. task'[s].state \in {{Executed}, {Executed, Released}} /\ task[s].state # {Executed}
    BY <2>2, <2>4, Bits DEF Unexecuted
  <2>6. \A x \in Slot : (Waits(x)' <=> Waits(x)) /\ (ToPush(x)' <=> ToPush(x)) /\ (x # s => (Unexecuted(x)' <=> Unexecuted(x)))
    BY <2>2 DEF Waits, Queued, ToPush, Unexecuted
  <2>7. \A x \in Slot : /\ task'[x].lambda = task[x].lambda /\ task'[x].result = task[x].result
                        /\ task'[x].cancelled = task[x].cancelled
    BY <2>2
  <2>8. /\ \A x \in Slot : task'[x].state \in {Free, {}, {Executed}, {Released}, {Executed, Released}}
        /\ \A x \in Slot : ~Unexecuted(x)' => task'[x].lambda = NoJob
        /\ \A x \in Slot : task'[x].state = Free => task'[x].result = NoJob
        /\ \A x \in Slot : ToPush(x)' \/ Waits(x)' => task'[x].lambda # NoJob /\ task'[x].result = NoJob
    BY <1>0, <2>2, <2>4, <2>5, <2>6, <2>7, Bits DEF Contents
  <2>9. \A u \in Worker :
       /\ worker'[u].pc = "execute" =>
            task'[worker'[u].slot].lambda # NoJob /\ task'[worker'[u].slot].result = NoJob
       /\ worker'[u].pc = "finish" => task'[worker'[u].slot].lambda = NoJob
    BY <1>0, <2>3, <2>7 DEF Contents, Functions, WorkerType
  <2>10. Promised'
    BY <2>2, <2>5, <2>7, KeepsPromises DEF Answers
  <2> QED
    BY <2>8, <2>9, <2>10 DEF Contents, Promised
<1>18. CASE UNCHANGED vars
  BY <1>0, <1>18 DEF vars, Contents, Unexecuted, ToPush, Waits, Queued, Answers
<1> QED
  BY <1>1, <1>2, <1>3, <1>4, <1>5, <1>7, <1>8, <1>9, <1>10, <1>11, <1>12, <1>13, <1>14, <1>15,
     <1>16, <1>17, <1>18
     DEF Next, FutureSteps, SchedulerSteps, WorkerSteps

-----------------------------------------------------------------------------
(* The count *)

\* Queues hold finitely many slots, and none when they are empty.
LEMMA Queues ==
  ASSUME TypeOK
  PROVE  /\ IsFiniteSet(InQueues) /\ Cardinality(InQueues) \in Nat
         /\ (\A w \in Worker : queue[w] = <<>>) => InQueues = {}
         /\ Cardinality(InQueues) = 0 => \A w \in Worker : queue[w] = <<>>
<1>1. IsFiniteSet(Slot)
  BY PoolAssumption, FS_Interval DEF Slot
<1>2. IsFiniteSet(InQueues)
  BY <1>1, FS_Subset DEF InQueues
<1>3. \A w \in Worker : queue[w] \in Seq(Slot)
  BY DEF TypeOK
<1>4. (\A w \in Worker : queue[w] = <<>>) => InQueues = {}
  BY DEF InQueues, Waits, Queued
<1>5. ASSUME Cardinality(InQueues) = 0, NEW w \in Worker, queue[w] # <<>> PROVE FALSE
  <2>1. queue[w][1] \in Slot /\ 1 \in 1 .. Len(queue[w])
    BY <1>3, <1>5
  <2>2. queue[w][1] \in InQueues
    BY <2>1 DEF InQueues, Waits, Queued
  <2> QED
    BY <1>2, <1>5, <2>2, FS_EmptySet
<1> QED
  BY <1>2, <1>4, <1>5, FS_CardinalityType

\* The count of the queues after a push and after a pop.
LEMMA QueuesAfter ==
  ASSUME TypeOK, NEW s \in Slot
  PROVE  /\ ~Waits(s) /\ (\A x \in Slot : Waits(x)' <=> Waits(x) \/ x = s) =>
              Cardinality(InQueues') = Cardinality(InQueues) + 1
         /\ Waits(s) /\ (\A x \in Slot : Waits(x)' <=> Waits(x) /\ x # s) =>
              Cardinality(InQueues') = Cardinality(InQueues) - 1
<1>1. IsFiniteSet(InQueues)
  BY Queues
<1>2. ASSUME ~Waits(s), \A x \in Slot : Waits(x)' <=> Waits(x) \/ x = s
      PROVE  Cardinality(InQueues') = Cardinality(InQueues) + 1
  <2>1. InQueues' = InQueues \union {s} /\ s \notin InQueues
    BY <1>2 DEF InQueues
  <2> QED
    BY <1>1, <2>1, FS_AddElement
<1>3. ASSUME Waits(s), \A x \in Slot : Waits(x)' <=> Waits(x) /\ x # s
      PROVE  Cardinality(InQueues') = Cardinality(InQueues) - 1
  <2>1. InQueues' = InQueues \ {s} /\ s \in InQueues
    BY <1>3 DEF InQueues
  <2> QED
    BY <1>1, <2>1, FS_RemoveElement
<1> QED
  BY <1>2, <1>3

\* A step keeps the count and the order of the destruction.
LEMMA NextCounted == IndInv /\ [Next]_vars => Counted'
<1> SUFFICES ASSUME IndInv, [Next]_vars PROVE Counted'
  OBVIOUS
<1>0. /\ Counted /\ Functions /\ TypeOK /\ LambdaSide /\ ResultSide
      /\ Cardinality(InQueues) \in Nat /\ QueueSlots \in Nat /\ numTasks \in Int
      /\ \A w \in Worker : queue[w] \in Seq(Slot)
  BY Typed, PoolAssumption, Queues DEF IndInv, TypeOK
<1>1. ASSUME NEW j \in Job, Schedule(j) PROVE Counted'
  <2>1. /\ sched.pc = "idle" /\ sched'.pc = "push" /\ ~stop /\ ~IsFull(sched.thread)
        /\ sched'.thread = (sched.thread + 1) % NumThread
        /\ UNCHANGED <<queue, numTasks, stop, worker, future>>
    BY <1>1, Scheduled
  <2>2. PICK w \in Worker : w = sched.thread
    BY <1>0 DEF Functions
  <2>3. Target' = w
    BY <2>1, <2>2, Numbers, WorkerBefore DEF Target
  <2>4. Len(queue[w]) < QueueSlots - 1
    BY <1>0, <2>1, <2>2 DEF Counted, IsFull
  <2>5. HasRoom(Target)'
    BY <2>1, <2>3, <2>4 DEF HasRoom
  <2>6. InQueues' = InQueues
    BY <2>1 DEF InQueues, Waits, Queued
  <2> QED
    BY <1>0, <2>1, <2>5, <2>6 DEF Counted, Ending
<1>2. ASSUME NEW j \in Job, Get(j) \/ Reset(j) \/ Cancel(j) \/ Wait(j) \/ Release(j) \/ FutureCleansUp(j) PROVE Counted'
  <2>1. UNCHANGED <<sched, queue, numTasks, stop, worker>> /\ future[j].pc # "none"
    BY <1>2 DEF Get, Reset, Cancel, Wait, Release, FutureCleansUp, Goto
  <2>2. InQueues' = InQueues /\ (HasRoom(Target)' <=> HasRoom(Target)) /\ ~stop
    BY <1>0, <2>1 DEF InQueues, Waits, Queued, HasRoom, Target, Counted
  <2> QED
    BY <1>0, <2>1, <2>2 DEF Counted
<1>3. CASE Rejected
  <2>1. UNCHANGED <<queue, numTasks, stop, worker, future>> /\ sched.pc = "idle" /\ sched'.pc = "idle"
    BY <1>0, <1>3 DEF Rejected, TypeOK
  <2>2. InQueues' = InQueues
    BY <2>1 DEF InQueues, Waits, Queued
  <2> QED
    BY <1>0, <2>1, <2>2 DEF Counted, Ending
<1>4. CASE Push
  <2>1. PICK s \in Slot, v \in Worker : s = sched.slot /\ v = Target
    BY <1>0, TargetIsWorker DEF Functions
  <2>2. ToPush(s) /\ ~Waits(s) /\ HasRoom(v)
    BY <1>0, <1>4, <2>1 DEF Push, GotoS, ToPush, LambdaSide, Counted
  <2>3. /\ queue' = [queue EXCEPT ![v] = Append(@, s)] /\ UNCHANGED <<numTasks, stop, worker, future>>
        /\ sched.pc = "push" /\ sched'.pc \in {"notify", "count"}
    BY <1>0, <1>4, <2>1, <2>2 DEF Push, GotoS, TypeOK
  <2>4. /\ \A x \in Slot : Waits(x)' <=> Waits(x) \/ x = s
        /\ Len(queue'[v]) = Len(queue[v]) + 1
        /\ \A w \in Worker : w # v => queue'[w] = queue[w]
    BY <1>0, <2>2, <2>3, PushedQueue DEF LambdaSide
  <2>5. Cardinality(InQueues') = Cardinality(InQueues) + 1
    BY <1>0, <2>2, <2>4, QueuesAfter
  <2>6. \A w \in Worker : Len(queue'[w]) <= QueueSlots - 1
    <3>1. \A w \in Worker : Len(queue[w]) \in Nat
      BY <1>0
    <3>2. Len(queue[v]) < QueueSlots - 1 /\ \A w \in Worker : Len(queue[w]) <= QueueSlots - 1
      BY <1>0, <2>2 DEF HasRoom, Counted
    <3>3. QueueSlots \in Nat
      BY <1>0
    <3> QED
      BY <2>4, <3>1, <3>2, <3>3
  <2>7. numTasks' = Cardinality(InQueues') - 1 /\ ~stop
    BY <1>0, <2>3, <2>5 DEF Counted, Ending
  <2> QED
    BY <1>0, <2>3, <2>6, <2>7 DEF Counted, Ending
<1>5. CASE Notify
  <2>1. /\ UNCHANGED <<queue, numTasks, stop, future>> /\ sched.pc = "notify" /\ sched'.pc = "count"
    BY <1>0, <1>5 DEF Notify, GotoS, TypeOK
  <2>2. InQueues' = InQueues
    BY <2>1 DEF InQueues, Waits, Queued
  <2> QED
    BY <1>0, <2>1, <2>2 DEF Counted, Ending
<1>6. CASE Count
  <2>1. /\ UNCHANGED <<queue, stop, worker>> /\ sched.pc = "count" /\ sched'.pc = "idle"
        /\ numTasks' = numTasks + 1
    BY <1>0, <1>6 DEF Count, TypeOK
  <2>2. InQueues' = InQueues /\ ~stop
    BY <1>0, <2>1 DEF InQueues, Waits, Queued, Counted, Ending
  <2> QED
    BY <1>0, <2>1, <2>2 DEF Counted, Ending
<1>7. CASE NotifyAll
  <2>1. /\ UNCHANGED <<queue, numTasks, stop, future>> /\ sched.pc = "notifyAll" /\ sched'.pc = "join"
    BY <1>0, <1>7 DEF NotifyAll, GotoS, TypeOK
  <2>2. InQueues' = InQueues
    BY <2>1 DEF InQueues, Waits, Queued
  <2> QED
    BY <1>0, <2>1, <2>2 DEF Counted, Ending
<1>8. CASE Join
  <2>1. /\ UNCHANGED <<queue, numTasks, stop, worker, future>> /\ sched.pc = "join"
        /\ sched'.pc = (IF TasksLeft THEN "drain" ELSE "gone") /\ \A w \in Worker : worker[w].pc = "done"
    BY <1>0, <1>8 DEF Join, GotoS, TypeOK
  <2>2. InQueues' = InQueues
    BY <2>1 DEF InQueues, Waits, Queued
  <2>3. ~TasksLeft => \A w \in Worker : queue[w] = <<>>
    BY <1>0, <2>1, Queues DEF TasksLeft, Counted
  <2> QED
    BY <1>0, <2>1, <2>2, <2>3 DEF Counted, Ending
<1>9. ASSUME NEW v \in Worker, Drain(v) PROVE Counted'
  <2>1. /\ UNCHANGED <<sched, stop, worker, future>> /\ sched.pc = "drain" /\ numTasks' = numTasks - 1
        /\ queue[v] # <<>> /\ queue' = [queue EXCEPT ![v] = Tail(@)]
    BY <1>9 DEF Drain
  <2>2. /\ \A w \in Worker : Len(queue'[w]) <= Len(queue[w])
        /\ Head(queue[v]) \in Slot /\ Waits(Head(queue[v]))
        /\ \A x \in Slot : Waits(x)' <=> Waits(x) /\ x # Head(queue[v])
    BY <1>0, <2>1, TakenQueue DEF LambdaSide
  <2>3. Cardinality(InQueues') = Cardinality(InQueues) - 1
    BY <1>0, <2>2, QueuesAfter
  <2>4. \A w \in Worker : Len(queue'[w]) <= QueueSlots - 1
    <3>1. \A w \in Worker : Len(queue'[w]) \in Nat /\ Len(queue[w]) \in Nat
      BY <1>0, <2>1, <2>2, TakenQueue DEF LambdaSide
    <3> QED
      BY <1>0, <2>2, <3>1 DEF Counted
  <2> QED
    BY <1>0, <2>1, <2>3, <2>4 DEF Counted, Ending
<1>10. CASE Drained
  <2>1. /\ UNCHANGED <<queue, numTasks, stop, worker, future>> /\ sched.pc = "drain"
        /\ sched'.pc = "gone" /\ \A w \in Worker : queue[w] = <<>>
    BY <1>0, <1>10 DEF Drained, GotoS, TypeOK
  <2>2. InQueues' = InQueues
    BY <2>1 DEF InQueues, Waits, Queued
  <2> QED
    BY <1>0, <2>1, <2>2 DEF Counted, Ending
<1>11. CASE StopWork
  <2>1. /\ UNCHANGED <<queue, numTasks, worker, future>> /\ sched.pc = "idle" /\ stop' = TRUE
        /\ sched'.pc \in {"join", "notifyAll"} /\ \A j \in Job : future[j].pc = "none"
    BY <1>0, <1>11 DEF StopWork, GotoS, TypeOK, NoFuture
  <2>2. InQueues' = InQueues
    BY <2>1 DEF InQueues, Waits, Queued
  <2> QED
    BY <1>0, <2>1, <2>2 DEF Counted, Ending
<1>12. ASSUME NEW w \in Worker, Await(w) \/ Spurious(w) \/ FindsNothing(w) \/ Execute(w) \/ Finish(w) \/ WorkerCleansUp(w)
       PROVE  Counted'
  <2>1. UNCHANGED <<sched, queue, numTasks, stop, future>> /\ worker[w].pc # "done"
    BY <1>12 DEF Await, Spurious, FindsNothing, Execute, Finish, WorkerCleansUp
  <2>2. InQueues' = InQueues /\ (HasRoom(Target)' <=> HasRoom(Target))
    BY <2>1 DEF InQueues, Waits, Queued, HasRoom, Target
  <2> QED
    BY <1>0, <2>1, <2>2 DEF Counted
<1>13. ASSUME NEW w \in Worker, Pop(w) PROVE Counted'
  <2>1. PICK v \in Worker : v = worker[w].victim
    BY <1>0 DEF Functions, WorkerType
  <2>2. /\ UNCHANGED <<sched, stop, future>> /\ worker[w].pc = "pop" /\ numTasks' = numTasks - 1
        /\ queue[v] # <<>> /\ queue' = [queue EXCEPT ![v] = Tail(@)]
    BY <1>13, <2>1 DEF Pop
  <2>3. /\ \A u \in Worker : Len(queue'[u]) <= Len(queue[u])
        /\ Head(queue[v]) \in Slot /\ Waits(Head(queue[v]))
        /\ \A x \in Slot : Waits(x)' <=> Waits(x) /\ x # Head(queue[v])
        /\ queue' \in [Worker -> Seq(Slot)]
    BY <1>0, <2>2, TakenQueue DEF LambdaSide
  <2>4. Cardinality(InQueues') = Cardinality(InQueues) - 1
    BY <1>0, <2>3, QueuesAfter
  <2>5. \A u \in Worker : Len(queue'[u]) \in Nat /\ Len(queue[u]) \in Nat
    BY <1>0, <2>3
  <2>6. \A u \in Worker : Len(queue'[u]) <= QueueSlots - 1
    BY SMTT(30), <1>0, <2>3, <2>5 DEF Counted
  <2>7. sched.pc = "push" => HasRoom(Target)'
    <3>1. PICK u \in Worker : u = Target /\ u = Target'
      BY <1>0, <2>2, TargetIsWorker DEF Functions, Target
    <3> QED
      BY <1>0, <2>3, <2>5, <3>1 DEF Counted, HasRoom
  <2>8. sched.pc \notin {"drain", "gone"}
    BY <1>0, <2>2 DEF Counted
  <2> QED
    BY <1>0, <2>2, <2>4, <2>6, <2>7, <2>8 DEF Counted, Ending
<1>14. CASE UNCHANGED vars
  BY <1>0, <1>14 DEF vars, Counted, InQueues, Waits, Queued, HasRoom, Target
<1> QED
  BY <1>1, <1>2, <1>3, <1>4, <1>5, <1>6, <1>7, <1>8, <1>9, <1>10, <1>11, <1>12, <1>13, <1>14
     DEF Next, FutureSteps, SchedulerSteps, WorkerSteps

-----------------------------------------------------------------------------
(* The theorems *)

\* The first state satisfies the inductive invariant.
LEMMA InitIndInv == Init => IndInv
<1> SUFFICES ASSUME Init PROVE IndInv
  OBVIOUS
<1>1. TypeOK
  <2>1. \A w \in Worker : Waiting(w) \in WorkerType
    BY Numbers DEF Waiting, WorkerType
  <2>2. NoFuture \in FutureType
    BY Numbers DEF NoFuture, FutureType
  <2>3. [lambda |-> NoJob, result |-> NoJob, state |-> Free, cancelled |-> FALSE] \in TaskType
    BY DEF TaskType, Free
  <2>4. /\ worker \in [Worker -> WorkerType] /\ future \in [Job -> FutureType] /\ task \in [Slot -> TaskType]
        /\ queue \in [Worker -> Seq(Slot)]
    BY <2>1, <2>2, <2>3 DEF Init
  <2>5. lowLatency \in BOOLEAN /\ stop \in BOOLEAN /\ numTasks \in Int
    <3>1. lowLatency \in Latencies /\ stop = FALSE /\ numTasks = 0
      BY DEF Init
    <3>2. lowLatency \in BOOLEAN /\ stop \in BOOLEAN
      BY Zenon, <3>1, PoolAssumption
    <3>3. numTasks \in Int
      BY <3>1
    <3> QED
      BY Zenon, <3>2, <3>3
  <2>6. sched \in [pc : {"idle", "push", "notify", "count", "notifyAll", "join", "drain", "gone"},
                     job : Job \union {NoJob}, slot : Slot, next : Slot, thread : Worker]
    BY Numbers DEF Init
  <2> QED
    BY <2>4, <2>5, <2>6 DEF TypeOK, WorkerType, FutureType, TaskType
<1>2. /\ sched.pc = "idle" /\ stop = FALSE /\ numTasks = 0
      /\ \A s \in Slot : task[s].state = Free /\ task[s].lambda = NoJob /\ task[s].result = NoJob
      /\ \A w \in Worker : worker[w].pc = "wait" /\ queue[w] = <<>>
      /\ \A j \in Job : future[j].pc = "none"
  BY DEF Init, Waiting, NoFuture
<1>3. /\ \A s \in Slot : ~Unexecuted(s) /\ ~Unreleased(s) /\ ~Over(s) /\ ~ToPush(s) /\ ~Offered(s) /\ ~Waits(s)
      /\ \A w \in Worker, s \in Slot : ~Runs(w, s) /\ ~WorkerCleans(w, s)
      /\ \A j \in Job, s \in Slot : ~Holds(j, s) /\ ~FutureCleans(j, s)
      /\ Distinct /\ sched.pc \notin Scheduling
  BY <1>2, Bits DEF Unexecuted, Unreleased, Over, ToPush, Offered, Waits, Queued, Distinct, Runs,
     WorkerCleans, Holds, FutureCleans, Scheduling
<1>4. LambdaSide /\ ResultSide /\ CleanSide
  BY <1>3 DEF LambdaSide, ResultSide, CleanSide
<1>5. Contents
  BY <1>2, <1>3 DEF Contents
<1>6. Counted
  <2>1. Cardinality(InQueues) = 0
    BY <1>1, <1>2, Queues, FS_EmptySet
  <2>2. \A w \in Worker : Len(queue[w]) <= QueueSlots - 1
    BY <1>2, PoolAssumption
  <2>3. numTasks = Cardinality(InQueues) /\ sched.pc \notin {"notify", "count"}
    BY <1>2, <2>1
  <2>4. ~stop /\ sched.pc \notin Ending /\ sched.pc \notin {"drain", "gone", "push"}
    BY <1>2 DEF Ending
  <2> QED
    BY <2>2, <2>3, <2>4 DEF Counted
<1> QED
  BY <1>1, <1>4, <1>5, <1>6 DEF IndInv

\* In every reachable state of the pool the inductive invariant holds.
THEOREM Invariant == Spec => []IndInv
<1>1. IndInv /\ [Next]_vars => IndInv'
  <2> SUFFICES ASSUME IndInv, [Next]_vars PROVE IndInv'
    OBVIOUS
  <2>1. TypeOK' /\ LambdaSide' /\ ResultSide' /\ CleanSide' /\ Contents' /\ Counted'
    BY NextTypeOK, NextLambdaSide, NextResultSide, NextCleanSide, NextContents, NextCounted DEF IndInv
  <2> QED
    BY <2>1 DEF IndInv
<1> QED
  BY <1>1, InitIndInv, PTL DEF Spec

\* The types hold: every variable keeps its type.
THEOREM TypesHold == Spec => []TypeOK
<1>1. IndInv => TypeOK
  BY DEF IndInv
<1> QED
  BY <1>1, Invariant, PTL

\* A Future that is about to take the result of its slot takes that of its own job,
\* though slots are used again and workers may run jobs in any order.
THEOREM ResultsAreOwn == Spec => []OwnResult
<1>1. IndInv => OwnResult
  <2> SUFFICES ASSUME IndInv, NEW j \in Job, future[j].pc = "take" PROVE task[future[j].slot].result = j
    BY DEF OwnResult
  <2>1. PICK s \in Slot : s = future[j].slot
    BY Typed DEF IndInv, Functions, FutureType
  <2>2. Answers(s, j) /\ task[s].state = {Executed}
    BY <2>1 DEF IndInv, Contents
  <2>3. task[s].lambda = NoJob
    BY <2>2, Bits DEF IndInv, Contents, Unexecuted
  <2> QED
    BY <2>1, <2>2, <2>3, PoolAssumption DEF Answers
<1> QED
  BY <1>1, Invariant, PTL

\* Neither side of a slot is released twice (the assertion of Task::finish).
THEOREM SidesRelease == Spec => []ReleasedOnce
<1>1. IndInv => ReleasedOnce
  <2> SUFFICES ASSUME IndInv PROVE ReleasedOnce
    OBVIOUS
  <2>1. ASSUME NEW w \in Worker, worker[w].pc = "finish" PROVE task[worker[w].slot].state \subseteq {Released}
    <3>1. PICK s \in Slot : s = worker[w].slot
      BY Typed DEF IndInv, Functions, WorkerType
    <3>2. Unexecuted(s)
      BY <2>1, <3>1 DEF IndInv, LambdaSide, Runs
    <3> QED
      BY <3>1, <3>2 DEF Unexecuted
  <2>2. ASSUME NEW j \in Job, future[j].pc \in {"take", "drop"} PROVE task[future[j].slot].state \subseteq {Executed}
    <3>1. PICK s \in Slot : s = future[j].slot
      BY Typed DEF IndInv, Functions, FutureType
    <3>2. Unreleased(s)
      BY <2>2, <3>1 DEF IndInv, ResultSide, Holds
    <3> QED
      BY <3>1, <3>2 DEF Unreleased
  <2> QED
    BY <2>1, <2>2 DEF ReleasedOnce
<1> QED
  BY <1>1, Invariant, PTL

\* A lambda is executed once: it is there when a worker executes it, and no two
\* workers ever have the same slot.
THEOREM TasksRunOnce == Spec => []RunsOnce
<1>1. IndInv => RunsOnce
  <2> SUFFICES ASSUME IndInv PROVE RunsOnce
    OBVIOUS
  <2>1. \A w \in Worker : worker[w].pc = "execute" => task[worker[w].slot].lambda # NoJob
    BY DEF IndInv, Contents
  <2>2. ASSUME NEW v \in Worker, NEW w \in Worker, v # w,
               {worker[v].pc, worker[w].pc} \subseteq {"execute", "finish", "cleanUp"}
        PROVE  worker[v].slot # worker[w].slot
    <3>1. PICK s \in Slot : s = worker[v].slot
      BY Typed DEF IndInv, Functions, WorkerType
    <3>2. SUFFICES ASSUME worker[w].slot = s PROVE FALSE
      BY <3>1
    <3>3. (Runs(v, s) \/ WorkerCleans(v, s)) /\ (Runs(w, s) \/ WorkerCleans(w, s))
      BY <2>2, <3>1, <3>2 DEF Runs, WorkerCleans
    <3>4. ~ (Unexecuted(s) /\ Over(s))
      BY Bits DEF Unexecuted, Over
    <3> QED
      BY <2>2, <3>3, <3>4 DEF IndInv, LambdaSide, CleanSide
  <2> QED
    BY <2>1, <2>2 DEF RunsOnce
<1> QED
  BY <1>1, Invariant, PTL

\* A free slot holds neither a lambda nor a result, whoever released it last.
THEOREM FreeSlotsAreEmpty == Spec => []FreeIsEmpty
<1>1. IndInv => FreeIsEmpty
  <2> SUFFICES ASSUME IndInv, NEW s \in Slot, task[s].state = Free
               PROVE  task[s].lambda = NoJob /\ task[s].result = NoJob
    BY DEF FreeIsEmpty
  <2>1. ~Unexecuted(s)
    BY Bits DEF Unexecuted
  <2> QED
    BY <2>1 DEF IndInv, Contents
<1> QED
  BY <1>1, Invariant, PTL

\* When the destructor ends the count is 0, the queues are empty and every slot is free.
THEOREM PoolEndsEmpty == Spec => []LeavesNothing
<1>1. IndInv => LeavesNothing
  <2> SUFFICES ASSUME IndInv, sched.pc = "gone" PROVE LeavesNothing
    BY DEF LeavesNothing
  <2>1. /\ \A w \in Worker : queue[w] = <<>> /\ worker[w].pc = "done"
        /\ \A j \in Job : future[j].pc = "none"
        /\ numTasks = Cardinality(InQueues)
    <3>1. Cardinality(InQueues) \in Nat
      BY Queues DEF IndInv
    <3> QED
      BY <3>1 DEF IndInv, Counted, Ending
  <2>2. InQueues = {} /\ numTasks = 0
    BY <2>1, Queues, FS_EmptySet DEF IndInv
  <2>3. ASSUME NEW s \in Slot PROVE task[s].state = Free
    <3>1. ~Unexecuted(s)
      BY <2>1, <2>2 DEF IndInv, LambdaSide, ToPush, Runs, InQueues
    <3>2. ~Unreleased(s)
      BY <2>1 DEF IndInv, ResultSide, Offered, Scheduling, Holds
    <3>3. ~Over(s)
      BY <2>1 DEF IndInv, CleanSide, WorkerCleans, FutureCleans
    <3> QED
      BY <3>1, <3>2, <3>3 DEF IndInv, Contents, Unexecuted, Unreleased, Over
  <2> QED
    BY <2>1, <2>2, <2>3 DEF LeavesNothing
<1> QED
  BY <1>1, Invariant, PTL

=============================================================================
