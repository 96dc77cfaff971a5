----------------------------- MODULE SceneQueue -----------------------------
(***************************************************************************)
(* SceneCommandQueue of rtx_render: the intrusive queue that carries       *)
(* batches of retained commands from any API thread to the render (CS)     *)
(* thread.  A producer takes a sequence number, makes its batch the head   *)
(* and then links it to the batch that was the head before; until then the *)
(* consumer cannot see past that batch.  A batch is named by its sequence  *)
(* number.  SceneCommands says who pushes and what a drain pops.           *)
(***************************************************************************)
EXTENDS Integers, Sequences

CONSTANTS
  Thread,      \* the API threads
  MaxBatches   \* bound on the number of batches pushed

ASSUME QueueAssumption == MaxBatches \in Nat

VARIABLES
  issued,    \* m_issued
  head,      \* m_head
  tail,      \* m_tail
  next,      \* next[n]: SceneCommandBatch::next
  popped,    \* m_next: a batch that was popped and not applied
  step,      \* step[t]: what thread t does next
  pushing,   \* pushing[t]: the batch t pushes
  previous,  \* previous[t]: what t's exchange returned
  popStep,   \* the step of the popBatch in progress
  before,    \* what its exchange returned
  order      \* the batches in the order of their exchanges (history)

producer == <<issued, step, pushing>>
consumer == <<tail, popped, popStep, before>>
queueVars == <<producer, consumer, head, next, previous, order>>

Stub == 0
None == -1
Batch == 1 .. MaxBatches
Node == Batch \union {Stub}

Goes(t, from, to) == step[t] = from /\ step' = [step EXCEPT ![t] = to]

-----------------------------------------------------------------------------
(* push: the three stores of a producer *)

TakeNumber(t) ==
  /\ issued < MaxBatches
  /\ Goes(t, "idle", "exchange")
  /\ issued' = issued + 1
  /\ pushing' = [pushing EXCEPT ![t] = issued + 1]
  /\ UNCHANGED <<consumer, head, next, previous, order>>

Exchange(t) ==
  /\ Goes(t, "exchange", "link")
  /\ previous' = [previous EXCEPT ![t] = head]
  /\ head' = pushing[t]
  /\ next' = [next EXCEPT ![pushing[t]] = None]
  /\ order' = Append(order, pushing[t])
  /\ UNCHANGED <<issued, pushing, consumer>>

Link(t, to) ==
  /\ Goes(t, "link", to)
  /\ next' = [next EXCEPT ![previous[t]] = pushing[t]]
  /\ pushing' = [pushing EXCEPT ![t] = None] /\ previous' = [previous EXCEPT ![t] = None]
  /\ UNCHANGED <<issued, consumer, head, order>>

\* The batches that push has returned from.
Returned == 1 .. issued \ {pushing[t] : t \in Thread}

-----------------------------------------------------------------------------
(* popBatch *)

\* The batch is taken off the list and waits in m_next.
Takes(n) ==
  /\ popStep' = "found" /\ popped' = tail /\ tail' = n

\* m_tail's next; the stub at the tail is stepped over.
LoadNext ==
  /\ popStep = "load"
  /\ \/ /\ next[tail] # None /\ tail # Stub
        /\ Takes(next[tail])
     \/ /\ next[tail] # None /\ tail = Stub
        /\ tail' = next[tail] /\ UNCHANGED <<popStep, popped>>
     \/ /\ next[tail] = None
        /\ popStep' = IF tail = Stub THEN "nothing" ELSE "testHead"
        /\ UNCHANGED <<tail, popped>>
  /\ UNCHANGED <<producer, before, head, next, previous, order>>

\* Not the last one: a producer is between its two stores.
TestHead ==
  /\ popStep = "testHead"
  /\ popStep' = IF tail # head THEN "nothing" ELSE "pushStub"
  /\ UNCHANGED <<producer, tail, popped, before, head, next, previous, order>>

\* The last one can leave only behind another node: the stub is pushed.
ExchangeStub ==
  /\ popStep = "pushStub" /\ popStep' = "linkStub"
  /\ before' = head /\ head' = Stub
  /\ next' = [next EXCEPT ![Stub] = None]
  /\ UNCHANGED <<producer, tail, popped, previous, order>>

LinkStub ==
  /\ popStep = "linkStub" /\ popStep' = "loadAgain"
  /\ next' = [next EXCEPT ![before] = Stub] /\ before' = None
  /\ UNCHANGED <<producer, tail, popped, head, previous, order>>

TakeAnyway == popStep = "loadAgain" /\ Takes(Stub) /\ UNCHANGED <<producer, before, head, next, previous, order>>
LoadAgain ==
  /\ popStep = "loadAgain"
  /\ IF next[tail] # None THEN Takes(next[tail])
     ELSE popStep' = "nothing" /\ UNCHANGED <<tail, popped>>
  /\ UNCHANGED <<producer, before, head, next, previous, order>>

PopBatch == LoadNext \/ TestHead \/ ExchangeStub \/ LinkStub \/ LoadAgain

-----------------------------------------------------------------------------
QueueInit ==
  /\ issued = 0 /\ head = Stub /\ tail = Stub /\ popped = None
  /\ next = [n \in Node |-> None]
  /\ step = [t \in Thread |-> "idle"]
  /\ pushing = [t \in Thread |-> None] /\ previous = [t \in Thread |-> None]
  /\ popStep = "done" /\ before = None
  /\ order = <<>>

-----------------------------------------------------------------------------
(* The list, for properties *)

\* Node a's successor is b, or a thread is about to store that.
Joined(a, b) ==
  \/ next[a] = b
  \/ \E t \in Thread : step[t] = "link" /\ previous[t] = a /\ pushing[t] = b
  \/ popStep = "linkStub" /\ before = a /\ b = Stub

\* From the consumer's end the list holds the batches of line, in that order; the
\* stub may lie anywhere.
Chain(line) ==
  /\ line # <<>> => tail = line[1] \/ (tail = Stub /\ Joined(Stub, line[1]))
  /\ \A k \in 1 .. Len(line) - 1 :
       \/ Joined(line[k], line[k + 1])
       \/ Joined(line[k], Stub) /\ Joined(Stub, line[k + 1])
=============================================================================
