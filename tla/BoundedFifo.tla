---------------------------- MODULE BoundedFifo ----------------------------
(***************************************************************************)
(* What the command queue of the bridge promises to its two callers: a     *)
(* first-in first-out queue of at most Capacity items, where a push that   *)
(* reports success has stored its item exactly once, a push that reports   *)
(* failure has stored nothing, and a pull returns (and removes) the oldest *)
(* item.  Nothing is said of memory, indices, sleeping or waking: this is  *)
(* the specification that CommandQueue implements.                         *)
(***************************************************************************)
EXTENDS Naturals, Sequences

CONSTANTS Item, Capacity

VARIABLES
  queue,     \* the items stored, oldest first
  pushing,   \* the producer's call: its phase and its item
  pulling    \* the consumer's call: its phase and the item it returns

fifoVars == <<queue, pushing, pulling>>

Idle == [phase |-> "idle"]
Offered(x) == [phase |-> "offered", item |-> x]
Stored == [phase |-> "stored"]
Asked(o) == [phase |-> "asked", op |-> o]
Got(x) == [phase |-> "got", item |-> x]

Init ==
  /\ queue = <<>>
  /\ pushing = Idle
  /\ pulling = Idle

\* A push call starts.
Offer(x) ==
  /\ pushing = Idle
  /\ pushing' = Offered(x)
  /\ UNCHANGED <<queue, pulling>>

\* The item enters the queue, which must have room.
Store ==
  /\ pushing.phase = "offered"
  /\ Len(queue) < Capacity
  /\ queue' = Append(queue, pushing.item)
  /\ pushing' = Stored
  /\ UNCHANGED pulling

\* The call returns success, only after the item was stored ...
PushReturns ==
  /\ pushing = Stored
  /\ pushing' = Idle
  /\ UNCHANGED <<queue, pulling>>

\* ... or failure, only when it was not.
PushFails ==
  /\ pushing.phase = "offered"
  /\ pushing' = Idle
  /\ UNCHANGED <<queue, pulling>>

\* A peek or a pull starts.
Ask(o) ==
  /\ pulling = Idle
  /\ pulling' = Asked(o)
  /\ UNCHANGED <<queue, pushing>>

\* A peek reads the oldest item, a pull also removes it.
Peek ==
  /\ pulling = Asked("peek")
  /\ queue # <<>>
  /\ pulling' = Got(Head(queue))
  /\ UNCHANGED <<queue, pushing>>

Remove ==
  /\ pulling = Asked("pull")
  /\ queue # <<>>
  /\ pulling' = Got(Head(queue))
  /\ queue' = Tail(queue)
  /\ UNCHANGED pushing

PullReturns ==
  /\ pulling.phase = "got"
  /\ pulling' = Idle
  /\ UNCHANGED <<queue, pushing>>

PullTimesOut ==
  /\ pulling.phase = "asked"
  /\ pulling' = Idle
  /\ UNCHANGED <<queue, pushing>>

Next ==
  \/ \E x \in Item : Offer(x)
  \/ Store \/ PushReturns \/ PushFails
  \/ \E o \in {"peek", "pull"} : Ask(o)
  \/ Peek \/ Remove \/ PullReturns \/ PullTimesOut

Spec == Init /\ [][Next]_fifoVars
=============================================================================
