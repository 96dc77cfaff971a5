---------------------------- MODULE AsyncQueries ----------------------------
(***************************************************************************)
(* Asynchronous D3D9 queries.  A query owns a slot of a block that both    *)
(* processes map.  GetData sends a request with a fresh sequence number    *)
(* and returns; the server writes its answer to the slot and then          *)
(* publishes the number, for which later calls of GetData look.  Slots are *)
(* given to the next query as soon as one is destroyed.                    *)
(***************************************************************************)
EXTENDS Integers, SequencesExt

CONSTANTS
  Query, Slot,
  QueueCap,     \* commands on the way
  MaxIssues     \* bound on the Issues of queries

NoSlot == -1
ASSUME QueriesAssumption ==
  /\ Slot \subseteq Nat /\ IsFiniteSet(Slot) /\ IsFiniteSet(Query)
  /\ {QueueCap, MaxIssues} \subseteq Nat \ {0}

VARIABLES
  requests,     \* the client's commands on the way
  bridge,       \* the client's gbBridgeRunning
  exists,       \* the queries the game has
  slot,         \* m_slot
  requestSeq,   \* m_requestSeq, 0 for none
  pendingFlags, \* m_pendingFlags: whether a flush waits for the next request
  result,       \* m_result with m_haveResult: the Issue it is of, or NoResult
  issues,       \* issues[q]: how often q was issued (history)
  asked,        \* queries a flush was asked for, and no answer returned since (history)
  block,        \* the shared slots
  objects,      \* the server's query objects
  answering     \* the server is between its answer and the number: the slot and the number

client == <<exists, slot, requestSeq, pendingFlags, result, issues, asked>>
answers == <<block, objects, answering>>
queryVars == <<client, answers>>

NoResult == [query |-> "none", issue |-> 0]
NoObject == [issue |-> 0, flushed |-> FALSE, done |-> FALSE]
NoAnswer == [slot |-> NoSlot, seq |-> 0]

\* With the bridge off a command is dropped, and a call has no effect any more.
Send(msg) == bridge /\ Len(requests) < QueueCap /\ requests' = Append(requests, msg)

-----------------------------------------------------------------------------
(* The client: Direct3DQuery9_LSS and AsyncQueryResult *)

\* nextSeq: never 0.  2^32 numbers are fresh for longer than any is remembered, so
\* the model takes one that nobody remembers.
Remembered ==
  {0} \union {block[s].answered : s \in Slot} \union {requestSeq[q] : q \in Query}
      \union {requests[k].seq : k \in DOMAIN requests} \union {answering.seq}
NextSeq == Min(1 .. Cardinality(Remembered) \ Remembered)

AnySlot == Slot
Free == Slot \ {slot[q] : q \in Query}

\* Bound of the model.
MayIssue == MapThenSumSet(LAMBDA q : issues[q], Query) < MaxIssues

\* A query that was issued does not come back: another one has another handle.
\* The command that creates the server's object is before all of this query's.
\* Without a free slot GetData is a blocking call.
Create(q) ==
  /\ bridge /\ q \notin exists /\ issues[q] = 0 /\ MayIssue
  /\ exists' = exists \union {q}
  /\ \E s \in IF Free = {} THEN {NoSlot} ELSE Free : slot' = [slot EXCEPT ![q] = s]
  /\ UNCHANGED <<requests, bridge, requestSeq, pendingFlags, result, issues, asked, answers>>

\* The query object goes with its members; its slot can be reused at once.
Destroy(q) ==
  /\ q \in exists
  /\ Send([command |-> "Destroy", query |-> q, seq |-> 0])
  /\ exists' = exists \ {q}
  /\ slot' = [slot EXCEPT ![q] = NoSlot]
  /\ requestSeq' = [requestSeq EXCEPT ![q] = 0]
  /\ pendingFlags' = [pendingFlags EXCEPT ![q] = FALSE]
  /\ result' = [result EXCEPT ![q] = NoResult]
  /\ asked' = asked \ {q}
  /\ UNCHANGED <<bridge, issues, answers>>

\* reset
ResetResult(q) ==
  /\ result' = [result EXCEPT ![q] = NoResult]
  /\ UNCHANGED <<requestSeq, pendingFlags>>
Reset(q) ==
  /\ requestSeq' = [requestSeq EXCEPT ![q] = 0]
  /\ pendingFlags' = [pendingFlags EXCEPT ![q] = FALSE]
  /\ result' = [result EXCEPT ![q] = NoResult]

Issue(q) ==
  /\ q \in exists /\ MayIssue
  /\ Send([command |-> "Issue", query |-> q, issue |-> issues[q] + 1, seq |-> 0])
  /\ issues' = [issues EXCEPT ![q] = @ + 1]
  /\ Reset(q)
  /\ asked' = asked \ {q}
  /\ UNCHANGED <<bridge, exists, slot, answers>>

\* getData.  A completed result is retained until the next Issue.
LatestOnly(q, flush) == flush
Collected(q, flush) == pendingFlags[q] \/ flush
Answered(q) == requestSeq[q] # 0 /\ block[slot[q]].answered = requestSeq[q]
NothingReady(q) == requestSeq[q] = 0 \/ (Answered(q) /\ block[slot[q]].hresult = "S_FALSE")
Asked(q, flush) == IF flush THEN asked \union {q} ELSE asked

Polls(q) == q \in exists /\ slot[q] # NoSlot /\ result[q] = NoResult /\ issues[q] > 0

\* The request is outstanding (S_FALSE), or the bridge is off (D3DERR_DEVICELOST).
PollsInVain(q, flush) ==
  /\ Polls(q)
  /\ \/ requestSeq[q] # 0 /\ ~Answered(q) /\ UNCHANGED requestSeq
     \/ ~bridge /\ NothingReady(q) /\ requestSeq' = [requestSeq EXCEPT ![q] = 0]
  /\ pendingFlags' = [pendingFlags EXCEPT ![q] = Collected(q, flush)]
  /\ asked' = Asked(q, flush)
  /\ UNCHANGED <<requests, bridge, exists, slot, result, issues, answers>>

TakesAnswer(q, flush) ==
  /\ Polls(q) /\ Answered(q) /\ block[slot[q]].hresult # "S_FALSE"
  /\ requestSeq' = [requestSeq EXCEPT ![q] = 0]
  /\ pendingFlags' = [pendingFlags EXCEPT ![q] = Collected(q, flush)]
  /\ result' = [result EXCEPT ![q] = IF block[slot[q]].hresult = "S_OK" THEN block[slot[q]].data ELSE NoResult]
  /\ asked' = asked \ {q}
  /\ UNCHANGED <<requests, bridge, exists, slot, issues, answers>>

\* No request is outstanding, or the answer was that the result is not ready.
SendsRequest(q, flush) ==
  /\ Polls(q) /\ NothingReady(q)
  /\ Send([command |-> "GetData", query |-> q, flush |-> Collected(q, flush), slot |-> slot[q], seq |-> NextSeq])
  /\ requestSeq' = [requestSeq EXCEPT ![q] = NextSeq]
  /\ pendingFlags' = [pendingFlags EXCEPT ![q] = FALSE]
  /\ asked' = Asked(q, flush)
  /\ UNCHANGED <<bridge, exists, slot, result, issues, answers>>

GetData(q, flush) == PollsInVain(q, flush) \/ TakesAnswer(q, flush) \/ SendsRequest(q, flush)

-----------------------------------------------------------------------------
(* The server's command handlers *)

Executes(command) ==
  /\ answering = NoAnswer
  /\ requests # <<>> /\ Head(requests).command = command /\ requests' = Tail(requests)

ServerDestroys ==
  /\ Executes("Destroy")
  /\ objects' = [objects EXCEPT ![Head(requests).query] = NoObject]
  /\ UNCHANGED <<bridge, client, block, answering>>

ServerIssues ==
  /\ Executes("Issue")
  /\ LET q == Head(requests).query IN
       objects' = [objects EXCEPT ![q] = [NoObject EXCEPT !.issue = Head(requests).issue]]
  /\ UNCHANGED <<bridge, client, block, answering>>

\* The answer is in the slot before its number is.  GetData may fail, and does when
\* the server's object could not be created.
ServerAnswers ==
  /\ Executes("GetData")
  /\ LET r == Head(requests)
         object == objects[r.query]
     IN /\ objects' = [objects EXCEPT ![r.query].flushed = @ \/ r.flush]
        /\ \E hresult \in {"failed", IF object.done THEN "S_OK" ELSE "S_FALSE"} :
             block' = [block EXCEPT
               ![r.slot].hresult = hresult,
               ![r.slot].data = IF hresult = "S_OK" THEN [query |-> r.query, issue |-> object.issue] ELSE @]
        /\ answering' = [slot |-> r.slot, seq |-> r.seq]
  /\ UNCHANGED <<bridge, client>>

ServerPublishes ==
  /\ answering # NoAnswer /\ answering' = NoAnswer
  /\ block' = [block EXCEPT ![answering.slot].answered = answering.seq]
  /\ UNCHANGED <<requests, bridge, client, objects>>

QueryHandlers == ServerDestroys \/ ServerIssues \/ ServerAnswers \/ ServerPublishes

\* The GPU finishes a query; it must once the commands before it are flushed.
Completes(q) ==
  /\ objects[q].issue > 0 /\ ~objects[q].done
  /\ objects' = [objects EXCEPT ![q].done = TRUE]
  /\ UNCHANGED <<requests, bridge, client, block, answering>>

-----------------------------------------------------------------------------
None == [q \in Query |-> 0]
NoObjects == [q \in Query |-> NoObject]
FreshBlock == [s \in Slot |-> [answered |-> 0, hresult |-> "S_OK", data |-> NoResult]]
QueryInit ==
  /\ requests = <<>> /\ bridge = TRUE
  /\ exists = {} /\ slot = [q \in Query |-> NoSlot]
  /\ requestSeq = None /\ pendingFlags = [q \in Query |-> FALSE]
  /\ result = [q \in Query |-> NoResult] /\ issues = None /\ asked = {}
  /\ block = FreshBlock /\ objects = NoObjects /\ answering = NoAnswer

\* When the client ends nobody calls a query or reads an answer any more.
QueriesEnd ==
  /\ exists' = {} /\ slot' = [q \in Query |-> NoSlot]
  /\ requestSeq' = None /\ pendingFlags' = [q \in Query |-> FALSE]
  /\ result' = [q \in Query |-> NoResult] /\ issues' = None /\ asked' = {}
  /\ block' = FreshBlock /\ objects' = NoObjects /\ UNCHANGED answering

\* When the server ends its objects go.
ObjectsEnd == objects' = NoObjects /\ answering' = NoAnswer /\ UNCHANGED <<client, block>>

-----------------------------------------------------------------------------
(* Properties *)

\* "A request still queued for this slot is processed before any request of a later
\* owner, so the slot can be reused at once", and an Issue drops the requests before
\* it: a result that GetData returns is of this query and of its latest Issue.
ResultOfLatestIssue ==
  \A q \in Query : result[q] # NoResult => result[q] = [query |-> q, issue |-> issues[q]]
=============================================================================
