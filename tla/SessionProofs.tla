--------------------------- MODULE SessionProofs ----------------------------
(***************************************************************************)
(* The safety of Session, and of the asynchronous queries in it, for every *)
(* set of queries and slots, every queue size and every choice of crashes, *)
(* time limits and policies.                                               *)
(***************************************************************************)
EXTENDS Session, FiniteSetTheorems, WellFoundedInduction, SequenceTheorems, TLAPS

(* The inductive invariant *)

\* A slot has one owner, and a query that is gone has neither slot nor request.
Owners ==
  /\ \A q, r \in Query : q # r /\ slot[q] = slot[r] => slot[q] = NoSlot
  /\ \A q \in Query : q \notin exists => slot[q] = NoSlot
  /\ \A q \in Query : requestSeq[q] # 0 => slot[q] # NoSlot /\ issues[q] > 0

\* A number is in one place of the queue, in one query's m_requestSeq, and not in a
\* slot before it is published.
Numbers ==
  /\ \A q, r \in Query : requestSeq[q] = requestSeq[r] => requestSeq[q] = 0 \/ q = r
  /\ \A i, j \in DOMAIN requests : requests[i].seq = requests[j].seq => requests[i].seq = 0 \/ i = j
  /\ \A i \in DOMAIN requests : requests[i].seq = answering.seq => answering.seq = 0
  /\ \A s \in Slot :
       /\ block[s].answered = answering.seq => answering.seq = 0
       /\ \A i \in DOMAIN requests : block[s].answered = requests[i].seq => requests[i].seq = 0

Touches(k, q) == requests[k].command \in {"Issue", "Destroy"} /\ requests[k].query = q
Uses(k, s) == requests[k].command = "GetData" /\ requests[k].slot = s
Current(q) == [query |-> q, issue |-> issues[q]]
HoldsCurrent(q) == block[slot[q]].hresult = "S_OK" => block[slot[q]].data = Current(q)

\* The request that a query waits for is its last command on the way, and the last
\* that uses its slot.
InQueue ==
  \A q \in Query, k \in DOMAIN requests :
    requestSeq[q] # 0 /\ requests[k].seq = requestSeq[q] =>
      /\ requests[k].query = q /\ Uses(k, slot[q])
      /\ \A i \in DOMAIN requests : i > k => ~Touches(i, q) /\ ~Uses(i, slot[q])

\* From the answer on, the slot holds what the query waits for.
InAnswer ==
  \A q \in Query :
    requestSeq[q] # 0 /\ answering.seq = requestSeq[q] =>
      /\ answering.slot = slot[q] /\ HoldsCurrent(q)
      /\ \A i \in DOMAIN requests : ~Uses(i, slot[q])
InBlock ==
  \A q \in Query :
    requestSeq[q] # 0 /\ block[slot[q]].answered = requestSeq[q] =>
      /\ answering.slot # slot[q] /\ HoldsCurrent(q)
      /\ \A i \in DOMAIN requests : ~Uses(i, slot[q])

\* The server's object is of the latest Issue, when the commands on the way are executed.
Follows(q) ==
  \/ objects[q].issue = issues[q] /\ \A k \in DOMAIN requests : ~Touches(k, q)
  \/ \E k \in DOMAIN requests :
       /\ requests[k].command = "Issue" /\ requests[k].query = q /\ requests[k].issue = issues[q]
       /\ \A i \in DOMAIN requests : i > k => ~Touches(i, q)
ObjectsFollow == \A q \in exists : issues[q] > 0 => Follows(q)

\* The queries are gone when the client ends, unless the server's end ends it; a
\* server that is gone stays so.
Lives ==
  /\ clientAt \in {"start", "syn", "ack", "continue", "running", "calling"} \union Ended
  /\ policy \in BOOLEAN
  /\ clientAt = "start" => serverAt = "none" /\ serverWatch = "none" /\ clientWatch = "none" /\ exists = {}
  /\ serverWatch = "off" => ServerGone
  /\ clientAt \in Ended => ServerGone \/ exists = {}
  /\ ~ServerGone => ObjectsFollow

QueryInv == QueryTypes /\ Owners /\ Numbers /\ InQueue /\ InAnswer /\ InBlock /\ ResultOfLatestIssue

\* With the policy at most one call is under way: on its way to the server or, as its
\* response, back.  The handshake's Ack was taken before.
IsCall(k) == requests[k].command = "Call"
NoCalls == \A k \in DOMAIN requests : ~IsCall(k)
OneCall == \A i, j \in DOMAIN requests : IsCall(i) /\ IsCall(j) => i = j
OnePolicy == \A k \in DOMAIN requests : requests[k].command = "Continue" => requests[k].policy = policy
Exchange ==
  /\ responses \in Seq({"Ack", "Response"}) /\ Len(requests) <= QueueCap
  /\ serverWatch \in {"none", "armed", "off", "done"} /\ clientWatch \in {"none", "armed", "off", "done"}
  /\ serverAt \in Early \union {"continue", "commands", "unregister", "lastAck", "exited", "dead"}
  /\ OnePolicy
  /\ clientAt \in {"start", "syn", "ack", "continue"} => NoCalls
  /\ serverAt \in Early => /\ responses = <<>> /\ NoCalls
                           /\ bridge => clientAt \in {"start", "syn", "ack", "dead"}
  /\ serverAt \in {"continue", "commands"} =>
       /\ policy => OneCall /\ (NoCalls \/ responses = <<>>)
       /\ bridge /\ clientAt \in {"continue", "running"} => responses = <<>> /\ (policy => NoCalls)
       /\ ~policy /\ serverAt = "commands" => ~serverPolicy
  /\ Len(responses) <= IF ServerGone THEN 2 ELSE 1

IndInv == QueryInv /\ Lives /\ Exchange

-----------------------------------------------------------------------------
(* The queue *)

\* A command sent is the last one on the way.  (Send.)
LEMMA AppendRequest ==
  ASSUME requests \in Seq(Request), NEW m \in Request, requests' = Append(requests, m)
  PROVE  /\ requests' \in Seq(Request) /\ Len(requests) \in Nat
         /\ DOMAIN requests = 1 .. Len(requests) /\ DOMAIN requests' = 1 .. Len(requests) + 1
         /\ \A i \in 1 .. Len(requests) : requests'[i] = requests[i]
         /\ requests'[Len(requests) + 1] = m
BY AppendProperties, LenProperties

\* A command executed was the first one on the way.  (Executes.)
LEMMA TakeRequest ==
  ASSUME requests \in Seq(Request), requests # <<>>, requests' = Tail(requests)
  PROVE  /\ requests' \in Seq(Request) /\ Len(requests) \in Nat \ {0}
         /\ DOMAIN requests = 1 .. Len(requests) /\ DOMAIN requests' = 1 .. Len(requests) - 1
         /\ \A i \in 1 .. Len(requests) - 1 : requests'[i] = requests[i + 1]
         /\ Head(requests) = requests[1] /\ Head(requests) \in Request
<1>1. Len(requests) \in Nat \ {0}
  BY EmptySeq
<1>2. Len(Tail(requests)) = Len(requests) - 1
  BY HeadTailProperties
<1>3. Tail(requests) \in Seq(Request)
  BY HeadTailProperties
<1>4. DOMAIN requests = 1 .. Len(requests) /\ DOMAIN requests' = 1 .. Len(requests) - 1
  BY <1>1, <1>2, <1>3, LenProperties
<1>5. Head(requests) = requests[1]
  BY <1>1
<1>6. Head(requests) \in Request
  BY HeadTailProperties
<1> QED
  BY <1>1, <1>2, <1>3, <1>4, <1>5, <1>6, HeadTailProperties

\* Neither a command sent nor one executed that does not touch a query's object matters to it.
LEMMA FollowsAppended ==
  ASSUME NEW m \in Request, NEW q, requests \in Seq(Request), requests' = Append(requests, m),
         ~(m.command \in {"Issue", "Destroy"} /\ m.query = q),
         issues'[q] = issues[q], objects'[q].issue = objects[q].issue, Follows(q)
  PROVE  Follows(q)'
<1> USE AppendRequest
<1>1. \A k \in DOMAIN requests' : Touches(k, q)' => k \in DOMAIN requests /\ Touches(k, q)
  BY DEF Touches
<1>2. CASE objects[q].issue = issues[q] /\ \A k \in DOMAIN requests : ~Touches(k, q)
  BY <1>1, <1>2 DEF Follows
<1>3. ASSUME NEW k \in DOMAIN requests,
             /\ requests[k].command = "Issue" /\ requests[k].query = q /\ requests[k].issue = issues[q]
             /\ \A i \in DOMAIN requests : i > k => ~Touches(i, q)
      PROVE  Follows(q)'
  <2>1. k \in DOMAIN requests' /\ requests'[k] = requests[k]
    OBVIOUS
  <2>2. \A i \in DOMAIN requests' : i > k => ~Touches(i, q)'
    BY <1>1, <1>3
  <2> QED
    BY <1>3, <2>1, <2>2 DEF Follows
<1> QED
  BY <1>2, <1>3 DEF Follows

\* (Executes.)
LEMMA FollowsTaken ==
  ASSUME NEW q, requests \in Seq(Request), requests # <<>>, requests' = Tail(requests),
         ~Touches(1, q), issues'[q] = issues[q], objects'[q].issue = objects[q].issue, Follows(q)
  PROVE  Follows(q)'
<1> USE TakeRequest
<1>1. \A k \in DOMAIN requests' : k + 1 \in DOMAIN requests /\ (Touches(k, q)' => Touches(k + 1, q))
  BY DEF Touches
<1>2. CASE objects[q].issue = issues[q] /\ \A k \in DOMAIN requests : ~Touches(k, q)
  BY <1>1, <1>2 DEF Follows
<1>3. ASSUME NEW k \in DOMAIN requests,
             /\ requests[k].command = "Issue" /\ requests[k].query = q /\ requests[k].issue = issues[q]
             /\ \A i \in DOMAIN requests : i > k => ~Touches(i, q)
      PROVE  Follows(q)'
  <2>1. k # 1
    BY <1>3 DEF Touches
  <2>2. k - 1 \in DOMAIN requests' /\ requests'[k - 1] = requests[k]
    BY <2>1
  <2>3. \A i \in DOMAIN requests' : i > k - 1 => ~Touches(i, q)'
    BY <1>1, <1>3
  <2> QED
    BY <1>3, <2>2, <2>3 DEF Follows
<1> QED
  BY <1>2, <1>3 DEF Follows

\* A finite set of naturals has a least element, which Min chooses.
LEMMA MinLemma ==
  ASSUME NEW S \in SUBSET Nat, S # {}
  PROVE  Min(S) \in S
<1> DEFINE R == {p \in Nat \X Nat : p[1] < p[2]}
<1>1. IsWellFoundedOn(R, Nat)
  BY NatLessThanWellFounded DEF OpToRel
<1>2. PICK x \in S : \A y \in S : <<y, x>> \notin R
  BY <1>1, WFMin
<1>3. ASSUME NEW y \in S PROVE x <= y
  <2> SUFFICES ASSUME y < x PROVE FALSE
    OBVIOUS
  <2>1. <<y, x>> \in Nat \X Nat /\ <<y, x>>[1] = y /\ <<y, x>>[2] = x
    OBVIOUS
  <2>2. <<y, x>> \in R
    BY <2>1
  <2> QED
    BY <1>2, <2>2
<1> QED
  BY <1>3 DEF Min

\* The image of a finite set is finite.
LEMMA FiniteImage ==
  ASSUME NEW S, IsFiniteSet(S), NEW T, NEW f \in [S -> T], \A t \in T : \E x \in S : f[x] = t
  PROVE  IsFiniteSet(T)
<1>1. f \in Surjection(S, T)
  BY DEF Surjection
<1> QED
  BY <1>1, FS_Surjection

\* There is a fresh number, which is not 0.  (nextSeq.)
LEMMA FreshNumber ==
  ASSUME QueryTypes
  PROVE  NextSeq \in Nat \ {0} /\ NextSeq \notin Remembered
<1> DEFINE n == Cardinality(Remembered)
<1>1. IsFiniteSet({block[s].answered : s \in Slot})
  <2> DEFINE f == [s \in Slot |-> block[s].answered]
  <2>2. f \in [Slot -> {block[s].answered : s \in Slot}]
    OBVIOUS
  <2>3. \A t \in {block[s].answered : s \in Slot} : \E x \in Slot : f[x] = t
    OBVIOUS
  <2> HIDE DEF f
  <2> QED
    BY <2>2, <2>3, FiniteImage, QueriesAssumption
<1>2. IsFiniteSet({requestSeq[q] : q \in Query})
  <2> DEFINE f == [q \in Query |-> requestSeq[q]]
  <2>2. f \in [Query -> {requestSeq[q] : q \in Query}]
    OBVIOUS
  <2>3. \A t \in {requestSeq[q] : q \in Query} : \E x \in Query : f[x] = t
    OBVIOUS
  <2> HIDE DEF f
  <2> QED
    BY <2>2, <2>3, FiniteImage, QueriesAssumption
<1>3. IsFiniteSet({requests[k].seq : k \in DOMAIN requests})
  <2> DEFINE f == [k \in DOMAIN requests |-> requests[k].seq]
  <2>1. IsFiniteSet(DOMAIN requests)
    BY LenProperties, FS_Interval DEF QueryTypes
  <2>2. f \in [DOMAIN requests -> {requests[k].seq : k \in DOMAIN requests}]
    OBVIOUS
  <2>3. \A t \in {requests[k].seq : k \in DOMAIN requests} : \E x \in DOMAIN requests : f[x] = t
    OBVIOUS
  <2> HIDE DEF f
  <2> QED
    BY <2>1, <2>2, <2>3, FiniteImage, QueriesAssumption
<1>4. IsFiniteSet(Remembered)
  BY <1>1, <1>2, <1>3, FS_Union, FS_Singleton DEF Remembered
<1>5. n \in Nat
  BY <1>4, FS_CardinalityType
<1>6. 1 .. n \ Remembered # {}
  <2> SUFFICES ASSUME 1 .. n \subseteq Remembered PROVE FALSE
    OBVIOUS
  <2>1. 0 .. n \subseteq Remembered
    BY <1>5 DEF Remembered
  <2>2. Cardinality(0 .. n) = n + 1
    BY <1>5, FS_Interval
  <2> QED
    BY <1>4, <1>5, <2>1, <2>2, FS_Subset
<1>7. Min(1 .. n \ Remembered) \in 1 .. n \ Remembered
  BY <1>5, <1>6, MinLemma
<1> QED
  BY <1>5, <1>7 DEF NextSeq

-----------------------------------------------------------------------------
(* The steps of the queries *)

\* A new query has no request and no result.  (Create.)
LEMMA CreateKeeps ==
  ASSUME NEW q \in Query, QueryInv, Create(q)
  PROVE  QueryInv' /\ (ObjectsFollow => ObjectsFollow')
<1> USE QueriesAssumption DEF QueryInv, Create, answers
<1>1. QueryTypes'
  BY DEF QueryTypes, Free
<1>2. Owners'
  BY DEF QueryTypes, Owners, Free, NoSlot
<1>3. Numbers'
  BY DEF QueryTypes, Numbers
<1>4. InQueue' /\ InAnswer' /\ InBlock'
  <2>1. \A r \in Query : requestSeq[r] # 0 => slot'[r] = slot[r]
    BY DEF QueryTypes, Owners
  <2>2. \A r \in Query : issues[r]' = issues[r] /\ block' = block /\ requests' = requests
    OBVIOUS
  <2> QED
    BY <2>1, <2>2 DEF QueryTypes, InQueue, InAnswer, InBlock, Touches, Uses, HoldsCurrent, Current
<1>5. ResultOfLatestIssue'
  BY DEF ResultOfLatestIssue
<1>6. ObjectsFollow => ObjectsFollow'
  BY DEF ObjectsFollow, Follows, QueryTypes, Touches
<1> QED
  BY <1>1, <1>2, <1>3, <1>4, <1>5, <1>6

\* The last command of a query that goes is its Destroy; its slot is free, and nobody
\* waits for its number.  (Destroy.)
LEMMA DestroyKeeps ==
  ASSUME NEW q \in Query, QueryInv, Destroy(q)
  PROVE  QueryInv' /\ (ObjectsFollow => ObjectsFollow')
<1> DEFINE m == [command |-> "Destroy", query |-> q, seq |-> 0]
<1>1. m \in Request /\ requests \in Seq(Request) /\ requests' = Append(requests, m)
  BY DEF Request, QueryInv, QueryTypes, Destroy, Send
<1>2. /\ m.command = "Destroy" /\ m.query = q /\ m.seq = 0
  OBVIOUS
<1>3. /\ requests' \in Seq(Request) /\ Len(requests) \in Nat
      /\ DOMAIN requests = 1 .. Len(requests) /\ DOMAIN requests' = 1 .. Len(requests) + 1
      /\ \A i \in 1 .. Len(requests) : requests'[i] = requests[i]
      /\ requests'[Len(requests) + 1] = m
  BY <1>1, AppendRequest
<1> HIDE DEF m
<1> USE <1>2, <1>3, QueriesAssumption DEF QueryInv, answers
<1>4. QueryTypes'
  BY DEF QueryTypes, Destroy, NoResult, Result
<1>5. Owners'
  BY DEF QueryTypes, Owners, Destroy, NoSlot
<1>6. Numbers'
  <2>1. \A i \in DOMAIN requests' : requests'[i].seq # 0 => i \in DOMAIN requests /\ requests'[i] = requests[i]
    OBVIOUS
  <2>2. \A r \in Query : requestSeq'[r] # 0 => requestSeq'[r] = requestSeq[r]
    BY DEF QueryTypes, Destroy
  <2>3. block' = block /\ answering' = answering
    BY DEF Destroy
  <2> QED
    BY <2>1, <2>2, <2>3 DEF QueryTypes, Numbers
<1>7. InQueue' /\ InAnswer' /\ InBlock'
  <2>1. \A r \in Query : requestSeq'[r] # 0 =>
          slot'[r] = slot[r] /\ requestSeq[r] = requestSeq'[r] /\ issues'[r] = issues[r] /\ r # q
    BY DEF QueryTypes, Destroy
  <2>2. block' = block /\ answering' = answering
    BY DEF Destroy
  <2>3. InQueue'
    BY <2>1 DEF InQueue, Touches, Uses
  <2>4. InAnswer' /\ InBlock'
    BY <2>1, <2>2 DEF InAnswer, InBlock, Uses, HoldsCurrent, Current
  <2> QED
    BY <2>3, <2>4
<1>8. ResultOfLatestIssue'
  BY DEF ResultOfLatestIssue, QueryTypes, Destroy
<1>9. ObjectsFollow => ObjectsFollow'
  BY <1>1, FollowsAppended DEF ObjectsFollow, QueryTypes, Destroy
<1> QED
  BY <1>4, <1>5, <1>6, <1>7, <1>8, <1>9

\* An Issue drops the query's request and result.  (Issue.)
LEMMA IssueKeeps ==
  ASSUME NEW q \in Query, QueryInv, Issue(q)
  PROVE  QueryInv' /\ (ObjectsFollow => ObjectsFollow')
<1> DEFINE m == [command |-> "Issue", query |-> q, issue |-> issues[q] + 1, seq |-> 0]
<1>1. m \in Request /\ requests \in Seq(Request) /\ requests' = Append(requests, m)
  BY DEF Request, QueryInv, QueryTypes, Issue, Send
<1>2. /\ m.command = "Issue" /\ m.query = q /\ m.seq = 0 /\ m.issue = issues[q] + 1
  OBVIOUS
<1>3. /\ requests' \in Seq(Request) /\ Len(requests) \in Nat
      /\ DOMAIN requests = 1 .. Len(requests) /\ DOMAIN requests' = 1 .. Len(requests) + 1
      /\ \A i \in 1 .. Len(requests) : requests'[i] = requests[i]
      /\ requests'[Len(requests) + 1] = m
  BY <1>1, AppendRequest
<1> HIDE DEF m
<1> USE <1>2, <1>3, QueriesAssumption DEF QueryInv, answers
<1>4. QueryTypes'
  BY DEF QueryTypes, Issue, Reset, NoResult, Result
<1>5. Owners'
  BY DEF QueryTypes, Owners, Issue, Reset
<1>6. Numbers'
  <2>1. \A i \in DOMAIN requests' : requests'[i].seq # 0 => i \in DOMAIN requests /\ requests'[i] = requests[i]
    OBVIOUS
  <2>2. \A r \in Query : requestSeq'[r] # 0 => requestSeq'[r] = requestSeq[r]
    BY DEF QueryTypes, Issue, Reset
  <2>3. block' = block /\ answering' = answering
    BY DEF Issue
  <2> QED
    BY SMTT(30), <2>1, <2>2, <2>3 DEF QueryTypes, Numbers
<1>7. InQueue' /\ InAnswer' /\ InBlock'
  <2>1. \A r \in Query : requestSeq'[r] # 0 =>
          slot'[r] = slot[r] /\ requestSeq[r] = requestSeq'[r] /\ issues'[r] = issues[r] /\ r # q
    BY DEF QueryTypes, Issue, Reset
  <2>2. block' = block /\ answering' = answering
    BY DEF Issue
  <2>3. InQueue'
    BY <2>1 DEF InQueue, Touches, Uses
  <2>4. InAnswer' /\ InBlock'
    BY SMTT(30), <2>1, <2>2 DEF InAnswer, InBlock, Uses, HoldsCurrent, Current
  <2> QED
    BY <2>3, <2>4
<1>8. ResultOfLatestIssue'
  BY DEF ResultOfLatestIssue, QueryTypes, Issue, Reset
<1>9. ObjectsFollow => ObjectsFollow'
  <2> SUFFICES ASSUME ObjectsFollow, NEW r \in exists', issues'[r] > 0 PROVE Follows(r)'
    BY DEF ObjectsFollow
  <2>1. CASE r = q
    <3>1. Len(requests) + 1 \in DOMAIN requests' /\ issues'[r] = issues[r] + 1
      BY <2>1 DEF QueryTypes, Issue
    <3>2. \A i \in DOMAIN requests' : ~(i > Len(requests) + 1)
      OBVIOUS
    <3> QED
      BY <2>1, <3>1, <3>2 DEF Follows
  <2>2. CASE r # q
    BY <1>1, <2>2, FollowsAppended DEF ObjectsFollow, QueryTypes, Issue
  <2> QED
    BY <2>1, <2>2
<1> QED
  BY <1>4, <1>5, <1>6, <1>7, <1>8, <1>9

\* A poll in vain at most forgets a request that was answered S_FALSE.  (getData.)
LEMMA PollsInVainKeeps ==
  ASSUME NEW q \in Query, NEW flush \in BOOLEAN, QueryInv, PollsInVain(q, flush)
  PROVE  QueryInv' /\ (ObjectsFollow => ObjectsFollow')
<1> USE QueriesAssumption DEF QueryInv, answers
<1>1. QueryTypes'
  <2>1. Collected(q, flush) \in BOOLEAN
    BY DEF QueryTypes, Collected
  <2>2. pendingFlags' \in [Query -> BOOLEAN]
    BY <2>1 DEF QueryTypes, PollsInVain
  <2>3. requestSeq' \in [Query -> Nat]
    <3>1. requestSeq' = requestSeq \/ requestSeq' = [requestSeq EXCEPT ![q] = 0]
      BY DEF PollsInVain
    <3>2. requestSeq \in [Query -> Nat] /\ [requestSeq EXCEPT ![q] = 0] \in [Query -> Nat]
      BY DEF QueryTypes
    <3> QED
      BY <3>1, <3>2
  <2> QED
    BY <2>2, <2>3 DEF QueryTypes, PollsInVain
<1>2. \A r \in Query : requestSeq'[r] # 0 => requestSeq'[r] = requestSeq[r]
  BY DEF QueryTypes, PollsInVain
<1>3. UNCHANGED <<requests, exists, slot, result, issues, block, objects, answering>>
  BY DEF PollsInVain
<1>4. Owners' /\ Numbers'
  BY <1>2, <1>3 DEF QueryTypes, Owners, Numbers
<1>5. InQueue' /\ InAnswer' /\ InBlock'
  BY <1>2, <1>3 DEF InQueue, InAnswer, InBlock, Touches, Uses, HoldsCurrent, Current
<1>6. ResultOfLatestIssue'
  BY <1>3 DEF ResultOfLatestIssue
<1>7. ObjectsFollow => ObjectsFollow'
  BY <1>3 DEF ObjectsFollow, Follows, Touches
<1> QED
  BY <1>1, <1>4, <1>5, <1>6, <1>7

\* The answer taken is of the query's latest Issue.  (getData.)
LEMMA TakesAnswerKeeps ==
  ASSUME NEW q \in Query, NEW flush \in BOOLEAN, QueryInv, TakesAnswer(q, flush)
  PROVE  QueryInv' /\ (ObjectsFollow => ObjectsFollow')
<1> USE QueriesAssumption DEF QueryInv, answers
<1>1. block[slot[q]].data \in Result /\ NoResult \in Result
  BY DEF QueryTypes, TakesAnswer, Polls, Result, NoResult
<1>2. QueryTypes'
  <2> DEFINE x == IF block[slot[q]].hresult = "S_OK" THEN block[slot[q]].data ELSE NoResult
  <2>1. x \in Result /\ result' = [result EXCEPT ![q] = x]
    BY <1>1 DEF TakesAnswer
  <2> HIDE DEF x
  <2>2. result' \in [Query -> Result]
    BY <2>1 DEF QueryTypes
  <2>3. Collected(q, flush) \in BOOLEAN
    BY DEF QueryTypes, Collected
  <2>4. pendingFlags' \in [Query -> BOOLEAN]
    BY <2>3 DEF QueryTypes, TakesAnswer
  <2> QED
    BY <2>2, <2>4 DEF QueryTypes, TakesAnswer
<1>3. \A r \in Query : requestSeq'[r] # 0 => requestSeq'[r] = requestSeq[r]
  BY DEF QueryTypes, TakesAnswer
<1>4. UNCHANGED <<requests, exists, slot, issues, block, objects, answering>>
  BY DEF TakesAnswer
<1>5. Owners' /\ Numbers'
  BY <1>3, <1>4 DEF QueryTypes, Owners, Numbers
<1>6. InQueue' /\ InAnswer' /\ InBlock'
  BY <1>3, <1>4 DEF InQueue, InAnswer, InBlock, Touches, Uses, HoldsCurrent, Current
<1>7. ResultOfLatestIssue'
  <2>1. \A r \in Query : r # q => result'[r] = result[r]
    BY DEF QueryTypes, TakesAnswer
  <2>2. result'[q] = IF block[slot[q]].hresult = "S_OK" THEN block[slot[q]].data ELSE NoResult
    BY DEF QueryTypes, TakesAnswer
  <2>3. block[slot[q]].hresult = "S_OK" => block[slot[q]].data = Current(q)
    BY DEF TakesAnswer, Answered, InBlock, HoldsCurrent
  <2> QED
    BY <1>4, <2>1, <2>2, <2>3 DEF ResultOfLatestIssue, Current
<1>8. ObjectsFollow => ObjectsFollow'
  BY <1>4 DEF ObjectsFollow, Follows, Touches
<1> QED
  BY <1>2, <1>5, <1>6, <1>7, <1>8

\* A request has a fresh number, and is the last command on the way.  (getData.)
LEMMA SendsRequestKeeps ==
  ASSUME NEW q \in Query, NEW flush \in BOOLEAN, QueryInv, SendsRequest(q, flush)
  PROVE  QueryInv' /\ (ObjectsFollow => ObjectsFollow')
<1> DEFINE n == NextSeq
<1> DEFINE m == [command |-> "GetData", query |-> q, flush |-> Collected(q, flush), slot |-> slot[q], seq |-> n]
<1>1. n \in Nat \ {0} /\ n \notin Remembered
  BY FreshNumber DEF QueryInv
<1> USE QueriesAssumption
<1>2. m \in Request /\ requests \in Seq(Request) /\ requests' = Append(requests, m)
  BY <1>1 DEF Request, QueryInv, QueryTypes, SendsRequest, Send, Collected, Polls
<1>3. /\ m.command = "GetData" /\ m.query = q /\ m.seq = n /\ m.slot = slot[q]
  OBVIOUS
<1>4. requestSeq' = [requestSeq EXCEPT ![q] = n]
  BY DEF SendsRequest
<1> HIDE DEF m, n
<1>5. /\ requests' \in Seq(Request) /\ Len(requests) \in Nat
      /\ DOMAIN requests = 1 .. Len(requests) /\ DOMAIN requests' = 1 .. Len(requests) + 1
      /\ \A i \in 1 .. Len(requests) : requests'[i] = requests[i]
      /\ requests'[Len(requests) + 1] = m
  BY <1>2, AppendRequest
<1> USE <1>1, <1>3, <1>4, <1>5 DEF QueryInv, answers
<1>6. UNCHANGED <<exists, slot, issues, result, block, objects, answering>>
  BY DEF SendsRequest
<1>7. slot[q] # NoSlot /\ issues[q] > 0 /\ result[q] = NoResult /\ slot[q] \in Slot /\ q \in exists
  BY DEF SendsRequest, Polls, QueryTypes
<1>8. QueryTypes'
  BY <1>6 DEF QueryTypes, SendsRequest
<1>9. Owners'
  BY <1>6, <1>7 DEF QueryTypes, Owners
<1>10. /\ \A i \in DOMAIN requests : requests[i].seq # n
       /\ \A s \in Slot : block[s].answered # n
       /\ answering.seq # n
       /\ \A r \in Query : requestSeq[r] # n
  BY DEF Remembered
<1>11. Numbers'
  <2>1. \A i \in DOMAIN requests' :
          \/ i \in DOMAIN requests /\ requests'[i] = requests[i] /\ requests'[i].seq # n
          \/ i = Len(requests) + 1 /\ requests'[i].seq = n
    BY <1>10
  <2>2. \A r \in Query : IF r = q THEN requestSeq'[r] = n ELSE requestSeq'[r] = requestSeq[r]
    BY DEF QueryTypes
  <2>3. \A i, j \in DOMAIN requests' : requests'[i].seq = requests'[j].seq => requests'[i].seq = 0 \/ i = j
    BY <2>1 DEF Numbers
  <2>4. \A r, t \in Query : requestSeq'[r] = requestSeq'[t] => requestSeq'[r] = 0 \/ r = t
    BY <1>10, <2>2 DEF Numbers
  <2> QED
    BY <1>6, <1>10, <2>1, <2>3, <2>4 DEF Numbers
<1>12. \A r \in Query : r # q /\ requestSeq[r] # 0 => slot[r] # slot[q]
  BY <1>7 DEF Owners
<1>13. InQueue'
  <2> SUFFICES ASSUME NEW r \in Query, NEW k \in DOMAIN requests',
                      requestSeq'[r] # 0, requests'[k].seq = requestSeq'[r]
               PROVE  /\ requests'[k].query = r /\ Uses(k, slot[r])'
                      /\ \A i \in DOMAIN requests' : i > k => ~Touches(i, r)' /\ ~Uses(i, slot[r])'
    BY DEF InQueue
  <2>1. CASE r = q
    <3>1. requestSeq'[r] = n
      BY <2>1 DEF QueryTypes
    <3>2. k \notin DOMAIN requests
      BY <1>10, <3>1
    <3>3. k = Len(requests) + 1
      BY <3>2
    <3> QED
      BY <1>6, <2>1, <3>3 DEF Uses
  <2>2. CASE r # q
    <3>1. requestSeq'[r] = requestSeq[r]
      BY <2>2 DEF QueryTypes
    <3>2. k \in DOMAIN requests
      BY <1>10, <2>2, <3>1
    <3> QED
      BY <1>6, <1>12, <2>2, <3>1, <3>2 DEF InQueue, Uses, Touches
  <2> QED
    BY <2>1, <2>2
<1>14. InAnswer' /\ InBlock'
  <2>1. \A r \in Query : requestSeq'[r] # 0 /\ (answering'.seq = requestSeq'[r] \/ block'[slot'[r]].answered = requestSeq'[r])
          => r # q /\ requestSeq[r] = requestSeq'[r]
    BY <1>6, <1>7, <1>10 DEF QueryTypes
  <2> QED
    BY <1>6, <1>12, <2>1 DEF InAnswer, InBlock, Uses, HoldsCurrent, Current
<1>15. ResultOfLatestIssue'
  BY <1>6 DEF ResultOfLatestIssue
<1>16. ObjectsFollow => ObjectsFollow'
  BY <1>2, <1>6, FollowsAppended DEF ObjectsFollow, QueryTypes
<1> QED
  BY <1>8, <1>9, <1>11, <1>13, <1>14, <1>15, <1>16

\* A command that was executed leaves the others in their order.  (Executes.)
LEMMA TakenInQueue ==
  ASSUME QueryInv, requests # <<>>, requests' = Tail(requests), UNCHANGED client
  PROVE  /\ InQueue'
         /\ \A i \in DOMAIN requests' : i + 1 \in DOMAIN requests /\ requests'[i] = requests[i + 1]
         /\ requests' \in Seq(Request)
         /\ 1 \in DOMAIN requests /\ Head(requests) = requests[1] /\ requests[1] \in Request
<1>1. requests \in Seq(Request)
  BY DEF QueryInv, QueryTypes
<1>2. \A i \in DOMAIN requests' : i + 1 \in DOMAIN requests /\ requests'[i] = requests[i + 1]
  BY <1>1, TakeRequest
<1>3. InQueue'
  <2> SUFFICES ASSUME NEW q \in Query, NEW k \in DOMAIN requests',
                      requestSeq[q] # 0, requests[k + 1].seq = requestSeq[q]
               PROVE  /\ requests[k + 1].query = q /\ Uses(k + 1, slot[q])
                      /\ \A i \in DOMAIN requests' : i > k => ~Touches(i + 1, q) /\ ~Uses(i + 1, slot[q])
    BY <1>2 DEF InQueue, client, Touches, Uses
  <2> QED
    BY <1>1, <1>2, TakeRequest DEF QueryInv, InQueue
<1> QED
  BY <1>1, <1>2, <1>3, TakeRequest

\* Nor does it disturb what waits or was answered, but for the server's objects.  (Executes.)
LEMMA TakenKeeps ==
  ASSUME QueryInv, requests # <<>>, requests' = Tail(requests), UNCHANGED <<bridge, client, block, answering>>,
         objects' \in [Query -> [issue : Nat, flushed : BOOLEAN, done : BOOLEAN]]
  PROVE  QueryInv'
<1>1. UNCHANGED <<exists, slot, requestSeq, pendingFlags, result, issues, bridge, block, answering>>
  BY DEF client
<1>2. /\ InQueue'
      /\ \A i \in DOMAIN requests' : i + 1 \in DOMAIN requests /\ requests'[i] = requests[i + 1]
      /\ requests' \in Seq(Request) /\ DOMAIN requests' \subseteq Nat /\ DOMAIN requests \subseteq Nat
  BY TakenInQueue, TakeRequest DEF QueryInv, QueryTypes
<1>3. QueryTypes' /\ Owners' /\ ResultOfLatestIssue'
  BY <1>1, <1>2 DEF QueryInv, QueryTypes, Owners, ResultOfLatestIssue
<1>4. Numbers'
  <2>1. ASSUME NEW i \in DOMAIN requests', NEW j \in DOMAIN requests', requests'[i].seq = requests'[j].seq
        PROVE  requests'[i].seq = 0 \/ i = j
    <3>1. i \in Nat /\ j \in Nat
      BY <1>2
    <3> QED
      BY <1>2, <2>1, <3>1 DEF QueryInv, Numbers
  <2> QED
    BY <1>1, <1>2, <2>1 DEF QueryInv, Numbers
<1>5. InAnswer' /\ InBlock'
  BY <1>1, <1>2 DEF QueryInv, InAnswer, InBlock, Uses, HoldsCurrent, Current
<1> QED
  BY <1>2, <1>3, <1>4, <1>5 DEF QueryInv

\* A Destroy that the server executes is not of a query that was issued and exists.  (ServerDestroys.)
LEMMA ServerDestroysKeeps ==
  ASSUME QueryInv, ObjectsFollow, ServerDestroys
  PROVE  QueryInv' /\ ObjectsFollow'
<1>1. /\ requests # <<>> /\ requests' = Tail(requests) /\ Head(requests).command = "Destroy"
      /\ objects' = [objects EXCEPT ![Head(requests).query] = NoObject]
      /\ UNCHANGED <<bridge, client, block, answering>>
  BY DEF ServerDestroys, Executes
<1>2. Head(requests) = requests[1] /\ requests[1] \in Request /\ requests \in Seq(Request)
  BY <1>1, TakeRequest DEF QueryInv, QueryTypes
<1>3. PICK q \in Query : Head(requests).query = q /\ Touches(1, q) /\ requests[1].command = "Destroy"
  BY <1>1, <1>2 DEF Request, Touches
<1>4. NoObject \in [issue : Nat, flushed : BOOLEAN, done : BOOLEAN]
  BY DEF NoObject
<1>5. objects' \in [Query -> [issue : Nat, flushed : BOOLEAN, done : BOOLEAN]]
  BY <1>1, <1>4 DEF QueryInv, QueryTypes
<1>6. QueryInv'
  BY <1>1, <1>5, TakenKeeps
<1>7. ObjectsFollow'
  <2> SUFFICES ASSUME NEW r \in exists, issues[r] > 0 PROVE Follows(r)'
    BY <1>1 DEF ObjectsFollow, client
  <2>1. Follows(r) /\ r \in Query /\ issues'[r] = issues[r]
    BY <1>1 DEF ObjectsFollow, client, QueryInv, QueryTypes
  <2>2. CASE r = q
    <3>1. PICK k \in DOMAIN requests :
            /\ requests[k].command = "Issue" /\ requests[k].query = q /\ requests[k].issue = issues[q]
            /\ \A i \in DOMAIN requests : i > k => ~Touches(i, q)
      BY <1>1, <1>2, <1>3, <2>1, <2>2, TakeRequest DEF Follows
    <3>2. k # 1 /\ DOMAIN requests \subseteq Nat
      BY <1>1, <1>2, <1>3, <3>1, TakeRequest
    <3>3. k - 1 \in DOMAIN requests' /\ requests'[k - 1] = requests[k]
      BY <1>1, <1>2, <3>2, TakeRequest
    <3>4. \A i \in DOMAIN requests' : i > k - 1 => ~Touches(i, q)'
      BY <1>1, <1>2, <3>1, TakeRequest DEF Touches
    <3> QED
      BY <1>1, <2>2, <3>1, <3>3, <3>4 DEF Follows, client
  <2>3. CASE r # q
    <3>1. objects'[r] = objects[r] /\ ~Touches(1, r)
      BY <1>1, <1>2, <1>3, <2>1, <2>3 DEF QueryInv, QueryTypes, Touches
    <3> QED
      BY <1>1, <1>2, <2>1, <3>1, FollowsTaken
  <2> QED
    BY <2>2, <2>3
<1> QED
  BY <1>6, <1>7

\* After the last Issue on the way the server's object is of it.  (ServerIssues.)
LEMMA ServerIssuesKeeps ==
  ASSUME QueryInv, ObjectsFollow, ServerIssues
  PROVE  QueryInv' /\ ObjectsFollow'
<1> DEFINE o == [NoObject EXCEPT !.issue = Head(requests).issue]
<1>1. /\ requests # <<>> /\ requests' = Tail(requests) /\ Head(requests).command = "Issue"
      /\ objects' = [objects EXCEPT ![Head(requests).query] = [NoObject EXCEPT !.issue = Head(requests).issue]]
      /\ UNCHANGED <<bridge, client, block, answering>>
  BY DEF ServerIssues, Executes
<1>2. Head(requests) = requests[1] /\ requests[1] \in Request /\ requests \in Seq(Request)
  BY <1>1, TakeRequest DEF QueryInv, QueryTypes
<1>3. PICK q \in Query : Head(requests).query = q /\ Touches(1, q) /\ requests[1].command = "Issue" /\ requests[1].issue \in Nat
  BY <1>1, <1>2 DEF Request, Touches
<1>4. objects' = [objects EXCEPT ![q] = o] /\ o \in [issue : Nat, flushed : BOOLEAN, done : BOOLEAN]
        /\ o.issue = requests[1].issue
  <2>1. NoObject \in [issue : Nat, flushed : BOOLEAN, done : BOOLEAN]
    BY DEF NoObject
  <2> QED
    BY <1>1, <1>2, <1>3, <2>1
<1> HIDE DEF o
<1>5. objects' \in [Query -> [issue : Nat, flushed : BOOLEAN, done : BOOLEAN]] /\ objects'[q].issue = requests[1].issue
  BY <1>3, <1>4 DEF QueryInv, QueryTypes
<1>6. QueryInv'
  BY <1>1, <1>5, TakenKeeps
<1>7. ObjectsFollow'
  <2> SUFFICES ASSUME NEW r \in exists, issues[r] > 0 PROVE Follows(r)'
    BY <1>1 DEF ObjectsFollow, client
  <2>1. Follows(r) /\ r \in Query /\ issues'[r] = issues[r]
    BY <1>1 DEF ObjectsFollow, client, QueryInv, QueryTypes
  <2>2. CASE r = q
    <3>1. PICK k \in DOMAIN requests :
            /\ requests[k].command = "Issue" /\ requests[k].query = q /\ requests[k].issue = issues[q]
            /\ \A i \in DOMAIN requests : i > k => ~Touches(i, q)
      BY <1>1, <1>2, <1>3, <2>1, <2>2, TakeRequest DEF Follows
    <3>2. \A i \in DOMAIN requests' : i > k - 1 => ~Touches(i, q)'
      BY <1>1, <1>2, <3>1, TakeRequest DEF Touches
    <3>3. CASE k = 1
      <4>1. objects'[q].issue = issues'[q] /\ \A i \in DOMAIN requests' : ~Touches(i, q)'
        BY <1>1, <1>2, <1>5, <2>1, <2>2, <3>1, <3>2, <3>3, TakeRequest
      <4> QED
        BY <2>2, <4>1 DEF Follows
    <3>4. CASE k # 1
      <4>1. k - 1 \in DOMAIN requests' /\ requests'[k - 1] = requests[k]
        BY <1>1, <1>2, <3>4, TakeRequest
      <4> QED
        BY <1>1, <2>1, <2>2, <3>1, <3>2, <4>1 DEF Follows
    <3> QED
      BY <3>3, <3>4
  <2>3. CASE r # q
    <3>1. objects'[r] = objects[r] /\ ~Touches(1, r)
      BY <1>1, <1>2, <1>3, <2>1, <2>3 DEF QueryInv, QueryTypes, Touches
    <3> QED
      BY <1>1, <1>2, <2>1, <3>1, FollowsTaken
  <2> QED
    BY <2>2, <2>3
<1> QED
  BY <1>6, <1>7

\* The answer is of the Issue that its query was last given.  (ServerAnswers.)
LEMMA ServerAnswersKeeps ==
  ASSUME QueryInv, ObjectsFollow, ServerAnswers
  PROVE  QueryInv' /\ ObjectsFollow'
<1>1. /\ requests # <<>> /\ requests' = Tail(requests) /\ Head(requests).command = "GetData"
      /\ objects' = [objects EXCEPT ![Head(requests).query].flushed = @ \/ Head(requests).flush]
      /\ answering' = [slot |-> Head(requests).slot, seq |-> Head(requests).seq]
      /\ UNCHANGED <<bridge, client>>
  BY DEF ServerAnswers, Executes
<1>2. /\ requests \in Seq(Request) /\ InQueue'
      /\ \A i \in DOMAIN requests' : i + 1 \in DOMAIN requests /\ requests'[i] = requests[i + 1]
      /\ requests' \in Seq(Request)
      /\ 1 \in DOMAIN requests /\ Head(requests) = requests[1] /\ requests[1] \in Request
      /\ DOMAIN requests \subseteq Nat \ {0} /\ DOMAIN requests' \subseteq Nat \ {0}
  BY <1>1, TakenInQueue, TakeRequest DEF QueryInv, QueryTypes, client
<1>3. /\ requests[1].query \in Query /\ requests[1].slot \in Slot /\ requests[1].seq \in Nat \ {0}
      /\ requests[1].flush \in BOOLEAN /\ Uses(1, requests[1].slot) /\ requests[1].command = "GetData"
  BY <1>1, <1>2 DEF Request, Uses
<1>4. PICK p \in Query, s \in Slot, n \in Nat \ {0} :
        p = requests[1].query /\ s = requests[1].slot /\ n = requests[1].seq /\ Uses(1, s)
  BY <1>3
<1>5. UNCHANGED <<bridge, exists, slot, requestSeq, pendingFlags, result, issues>>
  BY <1>1 DEF client
<1>6. /\ objects' \in [Query -> [issue : Nat, flushed : BOOLEAN, done : BOOLEAN]]
      /\ \A q \in Query : objects'[q].issue = objects[q].issue
  <2>1. PICK b \in BOOLEAN : b = (objects[p].flushed \/ Head(requests).flush)
    BY <1>2, <1>3, <1>4 DEF QueryInv, QueryTypes
  <2>2. objects' = [objects EXCEPT ![p].flushed = b]
    BY <1>1, <1>2, <1>4, <2>1
  <2> QED
    BY ZenonT(40), <2>2 DEF QueryInv, QueryTypes
<1>7. answering' = [slot |-> s, seq |-> n]
  BY <1>1, <1>2, <1>4
<1>8. PICK h \in {"S_OK", "S_FALSE", "failed"} :
        block' = [block EXCEPT ![s].hresult = h,
                               ![s].data = IF h = "S_OK" THEN [query |-> p, issue |-> objects[p].issue] ELSE @]
  BY <1>2, <1>4 DEF ServerAnswers
<1>9. block[s].data \in Result /\ [query |-> p, issue |-> objects[p].issue] \in Result
  BY DEF QueryInv, QueryTypes, Result
<1>10. /\ block' \in [Slot -> [answered : Nat, hresult : {"S_OK", "S_FALSE", "failed"}, data : Result]]
       /\ \A t \in Slot : block'[t].answered = block[t].answered /\ (t # s => block'[t] = block[t])
       /\ block'[s].hresult = h /\ (h = "S_OK" => block'[s].data = [query |-> p, issue |-> objects[p].issue])
  <2> DEFINE d == IF h = "S_OK" THEN [query |-> p, issue |-> objects[p].issue] ELSE block[s].data
  <2>1. d \in Result /\ (h = "S_OK" => d = [query |-> p, issue |-> objects[p].issue])
    BY <1>9
  <2>2. block' = [block EXCEPT ![s].hresult = h, ![s].data = d]
    BY <1>8
  <2> HIDE DEF d
  <2> QED
    BY ZenonT(40), <2>1, <2>2 DEF QueryInv, QueryTypes
<1>11. QueryTypes'
  <2>1. /\ answering' \in [slot : Slot \union {NoSlot}, seq : Nat]
        /\ answering'.slot = s /\ answering'.seq = n /\ s # NoSlot /\ n # 0
    BY <1>7, QueriesAssumption DEF NoSlot
  <2>2. /\ UNCHANGED <<bridge, exists, slot, requestSeq, pendingFlags, result, issues>>
        /\ requests' \in Seq(Request) /\ QueryTypes
    BY <1>2, <1>5 DEF QueryInv
  <2>3. /\ block' \in [Slot -> [answered : Nat, hresult : {"S_OK", "S_FALSE", "failed"}, data : Result]]
        /\ objects' \in [Query -> [issue : Nat, flushed : BOOLEAN, done : BOOLEAN]]
    BY <1>6, <1>10
  <2> QED
    BY <2>1, <2>2, <2>3 DEF QueryTypes
<1>12. Owners' /\ ResultOfLatestIssue'
  BY <1>5 DEF QueryInv, Owners, ResultOfLatestIssue
<1>13. Numbers'
  <2>1. ASSUME NEW i \in DOMAIN requests', NEW j \in DOMAIN requests', requests'[i].seq = requests'[j].seq
        PROVE  requests'[i].seq = 0 \/ i = j
    BY SMTT(30), <1>2, <2>1 DEF QueryInv, Numbers
  <2>2. \A i \in DOMAIN requests' : requests'[i].seq # n
    BY <1>2, <1>4 DEF QueryInv, Numbers
  <2> QED
    BY <1>2, <1>4, <1>5, <1>7, <1>10, <2>1, <2>2 DEF QueryInv, Numbers
<1>14. InAnswer'
  <2> SUFFICES ASSUME NEW q \in Query, requestSeq[q] = n
               PROVE  /\ s = slot[q] /\ HoldsCurrent(q)'
                      /\ \A i \in DOMAIN requests' : ~Uses(i + 1, slot[q])
    BY <1>2, <1>5, <1>7 DEF InAnswer, Uses
  <2>1. /\ p = q /\ s = slot[q] /\ q \in exists /\ issues[q] > 0
        /\ \A i \in DOMAIN requests : i > 1 => ~Touches(i, q) /\ ~Uses(i, slot[q])
    BY <1>2, <1>3, <1>4 DEF QueryInv, InQueue, Uses, Owners
  <2>2. objects[q].issue = issues[q]
    <3>1. ~Touches(1, q)
      BY <1>3 DEF Touches
    <3>2. \A k \in DOMAIN requests : ~(requests[k].command = "Issue" /\ requests[k].query = q)
      BY <1>2, <2>1, <3>1 DEF Touches
    <3> QED
      BY <2>1, <3>2 DEF ObjectsFollow, Follows
  <2>3. HoldsCurrent(q)'
    BY <1>5, <1>10, <2>1, <2>2 DEF HoldsCurrent, Current
  <2> QED
    BY <1>2, <2>1, <2>3
<1>15. InBlock'
  <2> SUFFICES ASSUME NEW q \in Query, requestSeq[q] # 0, block'[slot[q]].answered = requestSeq[q]
               PROVE  /\ s # slot[q] /\ HoldsCurrent(q)'
                      /\ \A i \in DOMAIN requests' : ~Uses(i + 1, slot[q])
    BY <1>2, <1>5, <1>7 DEF InBlock, Uses
  <2>1. slot[q] \in Slot /\ block[slot[q]].answered = requestSeq[q]
    BY <1>10 DEF QueryInv, QueryTypes, Owners
  <2>2. HoldsCurrent(q) /\ \A i \in DOMAIN requests : ~Uses(i, slot[q])
    BY <2>1 DEF QueryInv, InBlock
  <2>3. s # slot[q]
    BY <1>2, <1>4, <2>2
  <2>4. HoldsCurrent(q)'
    BY <1>5, <1>10, <2>1, <2>2, <2>3 DEF HoldsCurrent, Current
  <2> QED
    BY <1>2, <2>2, <2>3, <2>4
<1>16. ObjectsFollow'
  <2> SUFFICES ASSUME NEW r \in exists, issues[r] > 0 PROVE Follows(r)'
    BY <1>5 DEF ObjectsFollow
  <2>1. Follows(r) /\ r \in Query /\ issues'[r] = issues[r]
    BY <1>5 DEF ObjectsFollow, QueryInv, QueryTypes
  <2>2. ~Touches(1, r)
    BY <1>3 DEF Touches
  <2> QED
    BY <1>1, <1>2, <1>6, <2>1, <2>2, FollowsTaken
<1> QED
  BY <1>2, <1>11, <1>12, <1>13, <1>14, <1>15, <1>16 DEF QueryInv

\* The number that is published was the one that was answered.  (ServerPublishes.)
LEMMA ServerPublishesKeeps ==
  ASSUME QueryInv, ObjectsFollow, ServerPublishes
  PROVE  QueryInv' /\ ObjectsFollow'
<1>1. /\ answering # NoAnswer /\ answering' = [slot |-> NoSlot, seq |-> 0]
      /\ block' = [block EXCEPT ![answering.slot].answered = answering.seq]
      /\ UNCHANGED <<requests, bridge, exists, slot, requestSeq, pendingFlags, result, issues, objects>>
  BY DEF ServerPublishes, client, NoAnswer
<1>2. answering.seq \in Nat \ {0} /\ answering.slot \in Slot
  BY <1>1, QueriesAssumption DEF QueryInv, QueryTypes, NoAnswer
<1>3. /\ block' \in [Slot -> [answered : Nat, hresult : {"S_OK", "S_FALSE", "failed"}, data : Result]]
      /\ \A t \in Slot : /\ block'[t].hresult = block[t].hresult /\ block'[t].data = block[t].data
                         /\ block'[t].answered = IF t = answering.slot THEN answering.seq ELSE block[t].answered
  BY ZenonT(40), <1>1, <1>2 DEF QueryInv, QueryTypes
<1>4. QueryTypes'
  BY <1>1, <1>3 DEF QueryInv, QueryTypes
<1>5. Owners' /\ ResultOfLatestIssue' /\ InQueue'
  BY <1>1 DEF QueryInv, Owners, ResultOfLatestIssue, InQueue, Touches, Uses
<1>6. Numbers'
  BY <1>1, <1>2, <1>3 DEF QueryInv, Numbers
<1>7. InAnswer'
  BY <1>1 DEF InAnswer
<1>8. InBlock'
  <2> SUFFICES ASSUME NEW q \in Query, requestSeq[q] # 0, block'[slot[q]].answered = requestSeq[q]
               PROVE  /\ NoSlot # slot[q] /\ HoldsCurrent(q)'
                      /\ \A i \in DOMAIN requests : ~Uses(i, slot[q])
    BY <1>1 DEF InBlock, Uses
  <2>1. slot[q] \in Slot /\ slot[q] # NoSlot
    BY DEF QueryInv, QueryTypes, Owners
  <2>2. HoldsCurrent(q) /\ \A i \in DOMAIN requests : ~Uses(i, slot[q])
    BY <1>3, <2>1 DEF QueryInv, InBlock, InAnswer
  <2> QED
    BY <1>1, <1>3, <2>1, <2>2 DEF HoldsCurrent, Current
<1>9. ObjectsFollow'
  BY <1>1 DEF ObjectsFollow, Follows, Touches
<1> QED
  BY <1>4, <1>5, <1>6, <1>7, <1>8, <1>9 DEF QueryInv

\* The GPU finishes the Issue that the server's object is of.
LEMMA CompletesKeeps ==
  ASSUME NEW q \in Query, QueryInv, Completes(q)
  PROVE  QueryInv' /\ (ObjectsFollow => ObjectsFollow')
<1>1. UNCHANGED <<requests, bridge, exists, slot, requestSeq, pendingFlags, result, issues, block, answering>>
  BY DEF Completes, client
<1>2. /\ objects' \in [Query -> [issue : Nat, flushed : BOOLEAN, done : BOOLEAN]]
      /\ \A r \in Query : objects'[r].issue = objects[r].issue
  BY DEF QueryInv, QueryTypes, Completes
<1>3. QueryTypes'
  BY <1>1, <1>2 DEF QueryInv, QueryTypes
<1>4. Owners' /\ ResultOfLatestIssue' /\ InQueue' /\ Numbers'
  BY <1>1 DEF QueryInv, Owners, ResultOfLatestIssue, InQueue, Touches, Uses, Numbers
<1>5. InAnswer' /\ InBlock'
  BY <1>1 DEF QueryInv, InAnswer, InBlock, Uses, HoldsCurrent, Current
<1>6. ObjectsFollow => ObjectsFollow'
  BY <1>1, <1>2 DEF ObjectsFollow, Follows, Touches, QueryInv, QueryTypes
<1> QED
  BY <1>3, <1>4, <1>5, <1>6 DEF QueryInv

\* When the client ends nothing waits for an answer.  (QueriesEnd.)
LEMMA QueriesEndKeeps ==
  ASSUME QueryInv, QueriesEnd, UNCHANGED <<requests, bridge>>
  PROVE  QueryInv' /\ exists' = {} /\ ObjectsFollow'
<1>1. /\ exists' = {} /\ slot' = [q \in Query |-> NoSlot] /\ requestSeq' = [q \in Query |-> 0]
      /\ pendingFlags' = [q \in Query |-> FALSE]
      /\ result' = [q \in Query |-> NoResult] /\ issues' = [q \in Query |-> 0]
      /\ block' = [s \in Slot |-> [answered |-> 0, hresult |-> "S_OK", data |-> NoResult]]
      /\ objects' = [q \in Query |-> NoObject] /\ answering' = answering
  BY DEF QueriesEnd, FreshBlock, NoObjects, None
<1>2. NoObject \in [issue : Nat, flushed : BOOLEAN, done : BOOLEAN] /\ NoResult \in Result
  BY DEF NoObject, NoResult, Result
<1>3. QueryTypes'
  BY <1>1, <1>2 DEF QueryInv, QueryTypes
<1>4. Owners' /\ ResultOfLatestIssue' /\ InQueue' /\ InAnswer' /\ InBlock'
  BY <1>1 DEF Owners, ResultOfLatestIssue, InQueue, InAnswer, InBlock
<1>5. Numbers'
  BY <1>1 DEF QueryInv, Numbers
<1>6. ObjectsFollow'
  BY <1>1 DEF ObjectsFollow
<1> QED
  BY <1>1, <1>3, <1>4, <1>5, <1>6 DEF QueryInv

\* When the server ends nothing is answered any more.  (ObjectsEnd.)
LEMMA ObjectsEndKeeps ==
  ASSUME QueryInv, ObjectsEnd, UNCHANGED <<requests, bridge>>
  PROVE  QueryInv'
<1>1. /\ objects' = [q \in Query |-> NoObject] /\ answering' = [slot |-> NoSlot, seq |-> 0]
      /\ UNCHANGED <<requests, bridge, exists, slot, requestSeq, pendingFlags, result, issues, block>>
  BY DEF ObjectsEnd, NoObjects, NoAnswer, client
<1>2. NoObject \in [issue : Nat, flushed : BOOLEAN, done : BOOLEAN]
  BY DEF NoObject
<1>3. QueryTypes'
  BY <1>1, <1>2 DEF QueryInv, QueryTypes
<1>4. Owners' /\ ResultOfLatestIssue' /\ InQueue' /\ InAnswer' /\ Numbers'
  BY <1>1 DEF QueryInv, Owners, ResultOfLatestIssue, InQueue, Touches, Uses, InAnswer, Numbers
<1>5. InBlock'
  BY <1>1 DEF QueryInv, Owners, InBlock, Uses, HoldsCurrent, Current
<1> QED
  BY <1>3, <1>4, <1>5 DEF QueryInv

-----------------------------------------------------------------------------
(* The steps of the session *)

\* Steps of the session that leave the queries and their commands alone.
LEMMA StutterKeeps ==
  ASSUME QueryInv, UNCHANGED <<requests, queryVars>>, bridge' \in BOOLEAN
  PROVE  QueryInv' /\ (ObjectsFollow => ObjectsFollow')
<1>1. UNCHANGED <<requests, exists, slot, requestSeq, pendingFlags, result, issues, block, objects, answering>>
  BY DEF queryVars, client, answers
<1>2. QueryTypes'
  BY <1>1 DEF QueryInv, QueryTypes
<1>3. Owners' /\ Numbers' /\ ResultOfLatestIssue'
  BY <1>1 DEF QueryInv, Owners, Numbers, ResultOfLatestIssue
<1>4. InQueue' /\ InAnswer' /\ InBlock'
  BY <1>1 DEF QueryInv, InQueue, InAnswer, InBlock, Touches, Uses, HoldsCurrent, Current
<1>5. ObjectsFollow => ObjectsFollow'
  BY <1>1 DEF ObjectsFollow, Follows, Touches
<1> QED
  BY <1>2, <1>3, <1>4, <1>5 DEF QueryInv

\* A command of the session that is sent.  (Sends.)
LEMMA SentKeeps ==
  ASSUME QueryInv, policy \in BOOLEAN, NEW c \in {"Syn", "Continue", "Call", "Terminate"},
         requests' = Append(requests, Message(c)), UNCHANGED <<bridge, queryVars>>
  PROVE  QueryInv' /\ (ObjectsFollow => ObjectsFollow')
<1> DEFINE m == Message(c)
<1>1. m \in Request /\ m.command = c /\ m.seq = 0
  BY DEF Request, Message
<1>2. /\ requests \in Seq(Request) /\ requests' = Append(requests, m)
      /\ UNCHANGED <<bridge, exists, slot, requestSeq, pendingFlags, result, issues, block, objects, answering>>
  BY DEF QueryInv, QueryTypes, queryVars, client, answers
<1> HIDE DEF m
<1>3. /\ requests' \in Seq(Request) /\ Len(requests) \in Nat
      /\ DOMAIN requests = 1 .. Len(requests) /\ DOMAIN requests' = 1 .. Len(requests) + 1
      /\ \A i \in 1 .. Len(requests) : requests'[i] = requests[i]
      /\ requests'[Len(requests) + 1] = m
  BY <1>1, <1>2, AppendRequest
<1>4. QueryTypes'
  BY <1>2, <1>3 DEF QueryInv, QueryTypes
<1>5. Owners' /\ ResultOfLatestIssue'
  BY <1>2 DEF QueryInv, Owners, ResultOfLatestIssue
<1>6. Numbers'
  <2>1. \A i \in DOMAIN requests' : requests'[i].seq # 0 => i \in DOMAIN requests /\ requests'[i] = requests[i]
    BY <1>1, <1>3
  <2> QED
    BY <1>2, <2>1 DEF QueryInv, QueryTypes, Numbers
<1>7. InQueue' /\ InAnswer' /\ InBlock'
  BY <1>1, <1>2, <1>3 DEF QueryInv, InQueue, InAnswer, InBlock, Touches, Uses, HoldsCurrent, Current
<1>8. ObjectsFollow => ObjectsFollow'
  BY <1>1, <1>2, FollowsAppended DEF ObjectsFollow
<1> QED
  BY <1>4, <1>5, <1>6, <1>7, <1>8 DEF QueryInv

\* A command of the session that is executed.  (waitForCommand, ProcessDeviceCommandQueue.)
LEMMA ExecutedKeeps ==
  ASSUME QueryInv, NEW c \in {"Syn", "Continue", "Call", "Terminate"}, Executes(c), UNCHANGED <<bridge, queryVars>>
  PROVE  QueryInv' /\ (ObjectsFollow => ObjectsFollow')
<1>1. /\ requests # <<>> /\ requests' = Tail(requests) /\ Head(requests).command = c
      /\ UNCHANGED <<bridge, client, block, answering, exists, issues, objects>>
  BY DEF Executes, queryVars, client, answers
<1>2. QueryInv'
  BY <1>1, TakenKeeps DEF QueryInv, QueryTypes
<1>3. \A q : ~Touches(1, q)
  BY <1>1, TakeRequest DEF QueryInv, QueryTypes, Touches
<1>4. ObjectsFollow => ObjectsFollow'
  BY <1>1, <1>3, FollowsTaken DEF ObjectsFollow, QueryInv, QueryTypes
<1> QED
  BY <1>2, <1>4

\* The commands on the way are lost with the memory that both processes had mapped.  (ServerStarts.)
LEMMA ClearedKeeps ==
  ASSUME QueryInv, requests' = <<>>, exists = {}, UNCHANGED <<bridge, queryVars>>
  PROVE  QueryInv' /\ ObjectsFollow'
<1>1. UNCHANGED <<bridge, exists, slot, requestSeq, pendingFlags, result, issues, block, objects, answering>>
  BY DEF queryVars, client, answers
<1>2. requests' \in Seq(Request) /\ DOMAIN requests' = {}
  BY EmptySeq
<1>3. QueryTypes'
  BY <1>1, <1>2 DEF QueryInv, QueryTypes
<1>4. Owners' /\ ResultOfLatestIssue'
  BY <1>1 DEF QueryInv, Owners, ResultOfLatestIssue
<1>5. Numbers' /\ InQueue'
  BY <1>1, <1>2 DEF QueryInv, Numbers, InQueue
<1>6. InAnswer' /\ InBlock'
  BY <1>1, <1>2 DEF QueryInv, Owners, InAnswer, InBlock
<1>7. ObjectsFollow'
  BY <1>1 DEF ObjectsFollow
<1> QED
  BY <1>3, <1>4, <1>5, <1>6, <1>7 DEF QueryInv

\* Every step keeps what the queries promise.
LEMMA NextQueries ==
  ASSUME QueryInv, Lives, [Next]_vars
  PROVE  QueryInv' /\ (ObjectsFollow => ObjectsFollow' \/ ServerGone')
<1>1. CASE UNCHANGED <<requests, queryVars>> /\ bridge' \in BOOLEAN
  BY <1>1, StutterKeeps
<1>2. ASSUME NEW from, NEW c \in {"Syn", "Continue", "Call", "Terminate"}, NEW to, Sends(from, c, to)
      PROVE  QueryInv' /\ (ObjectsFollow => ObjectsFollow')
  <2>1. UNCHANGED <<bridge, queryVars>> /\ bridge \in BOOLEAN
    BY <1>2 DEF Sends, QueryInv, QueryTypes
  <2>2. requests' = Append(requests, Message(c)) \/ UNCHANGED requests
    BY <1>2 DEF Sends, Send
  <2> QED
    BY <2>1, <2>2, StutterKeeps, SentKeeps DEF Lives
<1>3. ASSUME NEW c \in {"Syn", "Continue", "Call", "Terminate"}, Executes(c), UNCHANGED <<bridge, queryVars>>
      PROVE  QueryInv' /\ (ObjectsFollow => ObjectsFollow')
  BY <1>3, ExecutedKeeps
<1>4. CASE Client
  <2>1. CASE Launch \/ Unregister \/ Release
    BY <1>1, <2>1 DEF Launch, Unregister, Release, QueryInv, QueryTypes
  <2>2. ASSUME NEW a, NEW b, NEW c, NEW d, WaitsFor(a, b, c, d) \/ TimesOut(a, c)
        PROVE  QueryInv' /\ (ObjectsFollow => ObjectsFollow')
    BY <2>2, StutterKeeps DEF WaitsFor, TimesOut, QueryInv, QueryTypes
  <2> QED
    BY <1>2, <1>4, <2>1, <2>2 DEF Client, Handshake, CallReturns, Detaches
<1>5. CASE Call \/ Detach \/ TimesOut("ack", "running") \/ TimesOut("calling", "running")
  <2>1. CASE Call
    BY <1>2, <2>1 DEF Call
  <2>2. CASE Detach
    BY <2>2, QueriesEndKeeps DEF Detach
  <2>3. ASSUME NEW a, NEW c, TimesOut(a, c)
        PROVE  QueryInv' /\ (ObjectsFollow => ObjectsFollow')
    BY <2>3, StutterKeeps DEF TimesOut, QueryInv, QueryTypes
  <2> QED
    BY <1>5, <2>1, <2>2, <2>3
<1>6. ASSUME NEW q \in Query, Create(q) \/ Destroy(q) \/ Issue(q) \/ \E flush \in BOOLEAN : Polling(q, flush)
      PROVE  QueryInv' /\ (ObjectsFollow => ObjectsFollow')
  BY <1>6, CreateKeeps, DestroyKeeps, IssueKeeps, PollsInVainKeeps, TakesAnswerKeeps, SendsRequestKeeps
     DEF Polling, GetData
<1>7. CASE Server
  <2>1. CASE ServerStarts
    <3>1. CASE requests' = requests
      BY <1>1, <2>1, <3>1 DEF ServerStarts, QueryInv, QueryTypes
    <3>2. CASE requests' = <<>> /\ ClientGone
      BY <2>1, <3>2, ClearedKeeps DEF ServerStarts, ServerGoes, Lives, ClientGone, ServerGone, Ended
    <3> QED
      BY <2>1, <3>1, <3>2 DEF ServerStarts
  <2>2. CASE TakesSyn \/ TakesContinue \/ HandlesCall \/ Terminates
    BY <1>3, <2>2 DEF TakesSyn, TakesContinue, HandlesCall, Terminates
  <2>3. CASE InitializeD3D \/ WaitFails \/ UnregisterWait
    BY <1>1, <2>3 DEF InitializeD3D, WaitFails, UnregisterWait, QueryInv, QueryTypes
  <2>4. ASSUME NEW a, NEW b, SendsAck(a, b)
        PROVE  QueryInv' /\ (ObjectsFollow => ObjectsFollow')
    BY <2>4, StutterKeeps DEF SendsAck, QueryInv, QueryTypes
  <2>5. CASE HandlesQuery
    <3>1. ObjectsFollow
      BY <2>5 DEF HandlesQuery, Lives, ServerGone
    <3> QED
      BY <2>5, <3>1, ServerDestroysKeeps, ServerIssuesKeeps, ServerAnswersKeeps, ServerPublishesKeeps
         DEF HandlesQuery, QueryHandlers
  <2> QED
    BY <1>7, <2>1, <2>2, <2>3, <2>4, <2>5 DEF Server
<1>8. CASE Callbacks
  BY <1>1, <1>8 DEF Callbacks, ServerExited, EndsGame, ClientExited, ForceQuit, QueryInv, QueryTypes
<1>9. ASSUME NEW q \in Query, Finishes(q)
      PROVE  QueryInv' /\ (ObjectsFollow => ObjectsFollow')
  BY <1>9, CompletesKeeps DEF Finishes
<1>10. CASE ClientCrashes
  BY <1>10, QueriesEndKeeps DEF ClientCrashes
<1>11. CASE ServerCrashes
  BY <1>11, ObjectsEndKeeps DEF ServerCrashes, ServerGone
<1>12. CASE UNCHANGED vars
  BY <1>1, <1>12 DEF vars, QueryInv, QueryTypes
<1> QED
  BY <1>4, <1>5, <1>6, <1>7, <1>8, <1>9, <1>10, <1>11, <1>12 DEF Next, Game

\* A server that is gone does not come back, and the queries go with the client.
LEMMA NextLives ==
  ASSUME QueryInv, Lives, [Next]_vars
  PROVE  Lives'
<1>1. ObjectsFollow => ObjectsFollow' \/ ServerGone'
  BY NextQueries
<1> DEFINE L == /\ clientAt' \in {"start", "syn", "ack", "continue", "running", "calling"} \union Ended
                /\ policy' = policy
                /\ clientAt' = "start" => serverAt' = "none" /\ serverWatch' = "none" /\ clientWatch' = "none" /\ exists' = {}
                /\ serverWatch' = "off" => ServerGone'
                /\ clientAt' \in Ended => ServerGone' \/ exists' = {}
                /\ ServerGone => ServerGone'
<1> SUFFICES L
  BY <1>1 DEF Lives
<1> USE DEF Lives, Ended, ServerGone, ClientGoes, ServerGoes, queryVars, client, clientProcess, serverProcess, Session
<1>2. CASE Client
  <2>1. CASE Launch \/ Unregister \/ Release
    BY <2>1 DEF Launch, Unregister, Release
  <2>2. CASE \/ Sends("syn", "Syn", "ack") \/ Sends("continue", "Continue", "running")
             \/ Sends("terminate", "Terminate", "wait")
    BY <2>2 DEF Sends
  <2>3. CASE \/ WaitsFor("ack", "Ack", "continue", "running") \/ WaitsFor("wait", "Ack", "release", "release")
             \/ CallReturns
    BY <2>3 DEF WaitsFor, CallReturns
  <2>4. CASE TimesOut("terminate", "wait") \/ TimesOut("wait", "release")
    BY <2>4 DEF TimesOut
  <2> QED
    BY <1>2, <2>1, <2>2, <2>3, <2>4 DEF Client, Handshake, Detaches
<1>3. CASE Game
  <2>1. CASE Call \/ TimesOut("ack", "running") \/ TimesOut("calling", "running")
    BY <2>1 DEF Call, Sends, TimesOut
  <2>2. CASE Detach
    BY <2>2 DEF Detach, QueriesEnd
  <2>3. ASSUME NEW q \in Query,
               \/ clientAt = "running" /\ (Create(q) \/ Destroy(q) \/ Issue(q)) /\ UNCHANGED Session
               \/ \E flush \in BOOLEAN : Polling(q, flush)
        PROVE  L
    BY <2>3 DEF Polling
  <2> QED
    BY <1>3, <2>1, <2>2, <2>3 DEF Game
<1>4. CASE Server
  <2>1. CASE ServerStarts \/ TakesSyn \/ InitializeD3D \/ TakesContinue \/ HandlesCall
    BY <2>1 DEF ServerStarts, TakesSyn, InitializeD3D, TakesContinue, HandlesCall
  <2>2. CASE Terminates \/ WaitFails \/ UnregisterWait \/ SendsAck("ack", "continue") \/ SendsAck("lastAck", "exited")
    BY <2>2 DEF Terminates, WaitFails, UnregisterWait, SendsAck
  <2>3. CASE HandlesQuery
    BY <2>3 DEF HandlesQuery, QueryHandlers, ServerDestroys, ServerIssues, ServerAnswers, ServerPublishes
  <2> QED
    BY <1>4, <2>1, <2>2, <2>3 DEF Server
<1>5. CASE Callbacks
  <2>1. CASE ServerExited \/ EndsGame
    BY <2>1 DEF ServerExited, EndsGame, ClientGone
  <2>2. CASE ClientExited \/ ForceQuit
    BY <2>2 DEF ClientExited, ForceQuit
  <2> QED
    BY <1>5, <2>1, <2>2 DEF Callbacks
<1>6. ASSUME NEW q \in Query, Finishes(q) PROVE L
  BY <1>6 DEF Finishes, Completes
<1>7. CASE ClientCrashes
  BY <1>7 DEF ClientCrashes, QueriesEnd
<1>8. CASE ServerCrashes
  BY <1>8 DEF ServerCrashes, ObjectsEnd
<1>9. CASE UNCHANGED vars
  BY <1>9 DEF vars
<1> QED
  BY <1>2, <1>3, <1>4, <1>5, <1>6, <1>7, <1>8, <1>9 DEF Next

\* A command that is no call changes nothing about those on the way.  (Send.)
LEMMA AppendedCalls ==
  ASSUME QueryTypes, NEW m \in Request, Send(m), policy' = policy,
         m.command = "Continue" => m.policy = policy, Exchange
  PROVE  /\ m.command # "Call" => (NoCalls => NoCalls') /\ (OneCall => OneCall')
         /\ NoCalls => OneCall'
         /\ OnePolicy' /\ Len(requests') <= QueueCap
<1>1. requests \in Seq(Request) /\ requests' = Append(requests, m) /\ Len(requests) < QueueCap
  BY DEF QueryTypes, Send
<1>2. /\ requests' \in Seq(Request) /\ Len(requests) \in Nat
      /\ DOMAIN requests = 1 .. Len(requests) /\ DOMAIN requests' = 1 .. Len(requests) + 1
      /\ \A i \in 1 .. Len(requests) : requests'[i] = requests[i]
      /\ requests'[Len(requests) + 1] = m
  BY <1>1, AppendRequest
<1>3. Len(requests') = Len(requests) + 1
  BY <1>1, AppendProperties
<1>4. Len(requests') <= QueueCap
  BY <1>1, <1>2, <1>3, QueriesAssumption
<1>5. OnePolicy'
  BY <1>2 DEF Exchange, OnePolicy
<1>6. m.command # "Call" => (NoCalls => NoCalls') /\ (OneCall => OneCall')
  BY <1>2 DEF NoCalls, OneCall, IsCall
<1>7. NoCalls => OneCall'
  BY <1>2 DEF NoCalls, OneCall, IsCall
<1> QED
  BY <1>4, <1>5, <1>6, <1>7

\* With one call on the way there is none left when it is executed.  (Executes.)
LEMMA TakenCalls ==
  ASSUME QueryTypes, NEW c, Executes(c), policy' = policy, Exchange
  PROVE  /\ NoCalls => NoCalls'
         /\ OneCall => OneCall' /\ (c = "Call" => NoCalls')
         /\ c = "Call" => ~NoCalls
         /\ OnePolicy' /\ Len(requests') <= QueueCap
         /\ c = "Continue" => Head(requests).policy = policy
<1>1. requests \in Seq(Request) /\ requests' = Tail(requests) /\ requests # <<>> /\ Head(requests).command = c
  BY DEF QueryTypes, Executes
<1>2. /\ requests' \in Seq(Request) /\ Len(requests) \in Nat \ {0}
      /\ DOMAIN requests = 1 .. Len(requests) /\ DOMAIN requests' = 1 .. Len(requests) - 1
      /\ \A i \in 1 .. Len(requests) - 1 : requests'[i] = requests[i + 1]
      /\ Head(requests) = requests[1] /\ Head(requests) \in Request
  BY <1>1, TakeRequest
<1>3. Len(requests') = Len(requests) - 1
  BY <1>1, HeadTailProperties
<1>4. Len(requests') <= QueueCap
  BY <1>2, <1>3, QueriesAssumption DEF Exchange
<1>5. OnePolicy' /\ (c = "Continue" => Head(requests).policy = policy)
  BY <1>1, <1>2 DEF Exchange, OnePolicy
<1>6. NoCalls => NoCalls'
  BY <1>2 DEF NoCalls, IsCall
<1>7. OneCall => OneCall'
  <2> SUFFICES ASSUME OneCall, NEW i \in DOMAIN requests', NEW j \in DOMAIN requests', IsCall(i)', IsCall(j)'
               PROVE  i = j
    BY DEF OneCall
  <2>1. i \in Int /\ j \in Int /\ i + 1 \in DOMAIN requests /\ j + 1 \in DOMAIN requests
    BY <1>2
  <2>2. IsCall(i + 1) /\ IsCall(j + 1)
    BY <1>2 DEF IsCall
  <2>3. i + 1 = j + 1
    BY <2>1, <2>2 DEF OneCall
  <2> QED
    BY <2>1, <2>3
<1>8. OneCall /\ c = "Call" => NoCalls'
  <2> SUFFICES ASSUME OneCall, c = "Call", NEW i \in DOMAIN requests', IsCall(i)' PROVE FALSE
    BY DEF NoCalls
  <2>1. IsCall(1) /\ IsCall(i + 1) /\ 1 \in DOMAIN requests /\ i + 1 \in DOMAIN requests /\ i \in Nat \ {0}
    BY <1>1, <1>2 DEF IsCall
  <2> QED
    BY <2>1 DEF OneCall
<1>9. c = "Call" => ~NoCalls
  BY <1>1, <1>2 DEF NoCalls, IsCall
<1> QED
  BY <1>4, <1>5, <1>6, <1>7, <1>8, <1>9

\* A response that is sent or taken.  (SendsAck, HandlesCall, WaitsFor.)
LEMMA Responses ==
  ASSUME NEW rs \in Seq({"Ack", "Response"})
  PROVE  /\ <<>> \in Seq({"Ack", "Response"}) /\ Len(<<>>) = 0 /\ Len(rs) \in Nat
         /\ \A r \in {"Ack", "Response"} : Append(rs, r) \in Seq({"Ack", "Response"}) /\ Len(Append(rs, r)) = Len(rs) + 1
         /\ rs # <<>> => /\ Tail(rs) \in Seq({"Ack", "Response"}) /\ Len(Tail(rs)) = Len(rs) - 1
                         /\ Len(rs) = 1 => Tail(rs) = <<>>
<1>1. rs # <<>> => /\ Tail(rs) \in Seq({"Ack", "Response"}) /\ Len(Tail(rs)) = Len(rs) - 1
  BY HeadTailProperties
<1>2. \A r \in {"Ack", "Response"} : Append(rs, r) \in Seq({"Ack", "Response"}) /\ Len(Append(rs, r)) = Len(rs) + 1
  BY AppendProperties
<1>3. <<>> \in Seq({"Ack", "Response"}) /\ Len(<<>>) = 0 /\ Len(rs) \in Nat
  BY EmptySeq, LenProperties
<1>4. \A t \in Seq({"Ack", "Response"}) : Len(t) = 0 => t = <<>>
  BY EmptySeq
<1>5. rs # <<>> /\ Len(rs) = 1 => Tail(rs) = <<>>
  BY <1>1, <1>4
<1> QED
  BY <1>1, <1>2, <1>3, <1>5

\* Every step keeps the exchange of calls and responses.
LEMMA NextExchange ==
  ASSUME QueryTypes, Lives, Exchange, [Next]_vars
  PROVE  Exchange'
<1> DEFINE Calls == /\ OnePolicy' /\ Len(requests') <= QueueCap
                    /\ NoCalls => NoCalls'
                    /\ OneCall => OneCall'
<1>1. UNCHANGED <<requests, policy>> => Calls
  BY DEF Exchange, OnePolicy, NoCalls, OneCall, IsCall
<1>2. \/ requests' = <<>> /\ NoCalls' /\ OneCall' /\ OnePolicy' /\ Len(requests') <= QueueCap
      \/ requests' # <<>>
  BY EmptySeq, QueriesAssumption DEF NoCalls, OneCall, OnePolicy, IsCall
<1>3. ASSUME NEW m \in Request, Send(m), policy' = policy, m.command \notin {"Call", "Continue"} PROVE Calls
  BY <1>3, AppendedCalls
<1>4. ASSUME NEW c, Executes(c), policy' = policy PROVE Calls
  BY <1>4, TakenCalls
<1>5. \A c \in {"Syn", "Continue", "Call", "Terminate"} :
        Message(c) \in Request /\ Message(c).command = c /\ Message(c).policy = policy
  BY DEF Message, Request, Lives
<1>6. /\ responses \in Seq({"Ack", "Response"}) /\ Len(responses) \in Nat
      /\ policy \in BOOLEAN /\ bridge \in BOOLEAN
  BY Responses DEF Exchange, Lives, QueryTypes
<1> DEFINE Rest ==
      /\ responses' \in Seq({"Ack", "Response"})
      /\ serverWatch' \in {"none", "armed", "off", "done"} /\ clientWatch' \in {"none", "armed", "off", "done"}
      /\ serverAt' \in Early \union {"continue", "commands", "unregister", "lastAck", "exited", "dead"}
      /\ clientAt' \in {"start", "syn", "ack", "continue"} => NoCalls'
      /\ serverAt' \in Early => /\ responses' = <<>> /\ NoCalls'
                                /\ bridge' => clientAt' \in {"start", "syn", "ack", "dead"}
      /\ serverAt' \in {"continue", "commands"} =>
           /\ policy' => OneCall' /\ (NoCalls' \/ responses' = <<>>)
           /\ bridge' /\ clientAt' \in {"continue", "running"} => responses' = <<>> /\ (policy' => NoCalls')
           /\ ~policy' /\ serverAt' = "commands" => ~serverPolicy'
      /\ Len(responses') <= IF ServerGone' THEN 2 ELSE 1
<1> SUFFICES OnePolicy' /\ Len(requests') <= QueueCap /\ Rest
  BY DEF Exchange
<1>7. ASSUME Calls, UNCHANGED <<bridge, Session>> PROVE Rest
  BY <1>7 DEF Exchange, Session, clientProcess, serverProcess, ServerGone
<1> USE DEF Early, ServerGone, ClientGoes, ServerGoes, clientProcess, serverProcess
<1> HIDE DEF Calls
<1>8. CASE Client
  <2>1. CASE Launch \/ Unregister \/ Release
    BY <1>1, <1>6, <2>1 DEF Calls, Launch, Unregister, Release, Exchange, Lives
  <2>2. ASSUME NEW c \in {"Syn", "Continue", "Terminate"}, NEW from, NEW to, Sends(from, c, to),
               <<from, c, to>> \in {<<"syn", "Syn", "ack">>, <<"continue", "Continue", "running">>,
                                    <<"terminate", "Terminate", "wait">>}
        PROVE  OnePolicy' /\ Len(requests') <= QueueCap /\ Rest
    <3>1. Calls
      BY <1>1, <1>5, <2>2, AppendedCalls DEF Calls, Sends
    <3> QED
      BY <1>6, <2>2, <3>1 DEF Calls, Sends, Exchange, Lives
  <2>3. CASE WaitsFor("ack", "Ack", "continue", "running")
    <3>1. Calls /\ UNCHANGED <<requests, policy>>
      BY <1>1, <2>3 DEF WaitsFor
    <3>2. CASE bridge /\ Takes("Ack")
      <4>1. responses # <<>> /\ responses' = Tail(responses)
        BY <3>2 DEF Takes
      <4> QED
        BY <1>6, <2>3, <3>1, <3>2, <4>1, Responses DEF Calls, WaitsFor, Exchange, Lives
    <3>3. CASE ~bridge /\ UNCHANGED responses
      BY <1>6, <2>3, <3>1, <3>3, Responses DEF Calls, WaitsFor, Exchange, Lives
    <3>4. (bridge /\ Takes("Ack")) \/ (~bridge /\ UNCHANGED responses)
      BY <2>3 DEF WaitsFor
    <3> QED
      BY <3>2, <3>3, <3>4
  <2>4. CASE WaitsFor("wait", "Ack", "release", "release")
    BY <1>1, <1>6, <2>4, Responses DEF Calls, WaitsFor, Takes, Exchange, Lives
  <2>5. CASE CallReturns
    BY <1>1, <1>6, <2>5, Responses DEF Calls, CallReturns, WaitsFor, Takes, Exchange, Lives
  <2>6. CASE TimesOut("terminate", "wait") \/ TimesOut("wait", "release")
    BY <1>1, <1>6, <2>6 DEF Calls, TimesOut, Exchange, Lives
  <2> QED
    BY <1>8, <2>1, <2>2, <2>3, <2>4, <2>5, <2>6 DEF Client, Handshake, Detaches
<1>9. CASE Game
  <2>1. CASE Call
    <3>1. CASE requests' = requests
      BY <1>1, <1>6, <2>1, <3>1 DEF Calls, Call, Sends, Exchange, Lives
    <3>2. CASE Send(Message("Call"))
      <4>1. OnePolicy' /\ Len(requests') <= QueueCap /\ (NoCalls => OneCall')
        BY <1>5, <2>1, <3>2, AppendedCalls DEF Call, Sends
      <4> QED
        BY <1>6, <2>1, <3>2, <4>1 DEF Call, Sends, Send, Exchange, Lives
    <3> QED
      BY <2>1, <3>1, <3>2 DEF Call, Sends
  <2>2. CASE Detach
    BY <1>1, <1>6, <2>2 DEF Calls, Detach, Exchange, Lives
  <2>3. CASE TimesOut("ack", "running") \/ TimesOut("calling", "running")
    <3>1. /\ ~bridge' /\ clientAt' = "running" /\ Calls
          /\ UNCHANGED <<requests, policy, responses, serverWatch, serverAt, serverPolicy, clientWatch>>
      BY <1>1, <2>3 DEF TimesOut
    <3> QED
      BY <1>6, <3>1 DEF Calls, Exchange, Lives
  <2>4. ASSUME NEW q \in Query, Create(q) \/ Destroy(q) \/ Issue(q) \/ (\E flush \in BOOLEAN : GetData(q, flush)),
               UNCHANGED Session
        PROVE  OnePolicy' /\ Len(requests') <= QueueCap /\ Rest
    <3>1. UNCHANGED bridge
      BY <2>4 DEF Create, Destroy, Issue, GetData, PollsInVain, TakesAnswer, SendsRequest
    <3>2. UNCHANGED requests \/ \E m \in Request : m.command \notin {"Call", "Continue"} /\ Send(m)
      <4>1. CASE Create(q) \/ \E flush \in BOOLEAN : PollsInVain(q, flush) \/ TakesAnswer(q, flush)
        BY <4>1 DEF Create, PollsInVain, TakesAnswer
      <4>2. CASE Destroy(q)
        <5>1. [command |-> "Destroy", query |-> q, seq |-> 0] \in Request
          BY DEF Request
        <5> QED
          BY <4>2, <5>1 DEF Destroy
      <4>3. CASE Issue(q)
        <5>1. [command |-> "Issue", query |-> q, issue |-> issues[q] + 1, seq |-> 0] \in Request
          BY DEF Request, QueryTypes
        <5> QED
          BY <4>3, <5>1 DEF Issue
      <4>4. ASSUME NEW flush \in BOOLEAN, SendsRequest(q, flush)
            PROVE  \E m \in Request : m.command \notin {"Call", "Continue"} /\ Send(m)
        <5> DEFINE m == [command |-> "GetData", query |-> q, flush |-> Collected(q, flush), slot |-> slot[q], seq |-> NextSeq]
        <5>1. m \in Request /\ m.command = "GetData"
          BY <4>4, FreshNumber DEF Request, QueryTypes, Collected, SendsRequest, Polls
        <5>2. Send(m)
          BY <4>4 DEF SendsRequest
        <5> QED
          BY <5>1, <5>2
      <4> QED
        BY <2>4, <4>1, <4>2, <4>3, <4>4 DEF GetData
    <3>3. Calls
      BY <1>1, <1>3, <2>4, <3>2 DEF Session
    <3> QED
      BY <1>7, <2>4, <3>1, <3>3 DEF Calls
  <2> QED
    BY <1>9, <2>1, <2>2, <2>3, <2>4 DEF Game, Polling
<1>10. CASE Server
  <2>1. CASE ServerStarts
    BY <1>1, <1>2, <1>6, <2>1 DEF Calls, ServerStarts, Exchange, Lives
  <2>2. CASE TakesSyn
    BY <1>4, <1>6, <2>2 DEF Calls, TakesSyn, Exchange, Lives
  <2>3. CASE InitializeD3D \/ WaitFails \/ UnregisterWait
    <3>1. CASE InitializeD3D
      BY <1>1, <1>6, <3>1, Responses DEF Calls, InitializeD3D, Exchange, Lives
    <3>2. CASE WaitFails
      BY <1>1, <1>6, <3>2, Responses DEF Calls, WaitFails, Exchange, Lives
    <3>3. CASE UnregisterWait
      BY <1>1, <1>6, <3>3 DEF Calls, UnregisterWait, Exchange, Lives
    <3> QED
      BY <2>3, <3>1, <3>2, <3>3
  <2>4. CASE SendsAck("ack", "continue") \/ SendsAck("lastAck", "exited")
    <3>1. /\ Calls /\ UNCHANGED <<requests, policy>>
          /\ responses' = responses \/ responses' = Append(responses, "Ack")
      BY <1>1, <2>4 DEF SendsAck
    <3>2. responses' \in Seq({"Ack", "Response"}) /\ Len(responses') <= Len(responses) + 1
      BY <1>6, <3>1, Responses
    <3>3. CASE SendsAck("ack", "continue")
      <4>1. Len(responses) = 0
        BY <3>3, Responses DEF SendsAck, Exchange
      <4>2. NoCalls' /\ OneCall'
        BY <3>1, <3>3 DEF Calls, SendsAck, Exchange, NoCalls, OneCall
      <4> QED
        BY <1>6, <3>1, <3>2, <3>3, <4>1, <4>2 DEF Calls, SendsAck, Exchange, Lives
    <3>4. CASE SendsAck("lastAck", "exited")
      BY <1>6, <3>1, <3>2, <3>4 DEF Calls, SendsAck, Exchange, Lives
    <3> QED
      BY <2>4, <3>3, <3>4
  <2>5. CASE TakesContinue
    <3>1. Head(requests).policy = policy /\ Calls
      BY <1>4, <2>5, TakenCalls DEF TakesContinue
    <3> QED
      BY <1>6, <2>5, <3>1 DEF Calls, TakesContinue, Exchange, Lives
  <2>6. CASE HandlesQuery
    <3>1. \E c : Executes(c) \/ UNCHANGED requests
      BY <2>6 DEF HandlesQuery, QueryHandlers, ServerDestroys, ServerIssues, ServerAnswers, ServerPublishes
    <3>2. UNCHANGED <<bridge, Session>>
      BY <2>6 DEF HandlesQuery, QueryHandlers, ServerDestroys, ServerIssues, ServerAnswers, ServerPublishes, Session
    <3> QED
      BY <1>1, <1>4, <1>7, <3>1, <3>2 DEF Calls, Session
  <2>7. CASE HandlesCall
    <3>1. Calls /\ ~NoCalls /\ (OneCall => NoCalls')
      BY <1>4, <2>7, TakenCalls DEF HandlesCall
    <3> QED
      BY <1>6, <2>7, <3>1, Responses DEF Calls, HandlesCall, Exchange, Lives
  <2>8. CASE Terminates
    BY <1>4, <1>6, <2>8 DEF Calls, Terminates, Exchange, Lives
  <2> QED
    BY <1>10, <2>1, <2>2, <2>3, <2>4, <2>5, <2>6, <2>7, <2>8 DEF Server
<1>11. CASE Callbacks
  BY <1>1, <1>6, <1>11 DEF Calls, Callbacks, ServerExited, EndsGame, ClientExited, ForceQuit, Exchange, Lives
<1>12. ASSUME NEW q \in Query, Finishes(q)
       PROVE  OnePolicy' /\ Len(requests') <= QueueCap /\ Rest
  BY <1>1, <1>7, <1>12 DEF Calls, Finishes, Completes, Session
<1>13. CASE ClientCrashes
  BY <1>1, <1>6, <1>13 DEF Calls, ClientCrashes, Exchange, Lives
<1>14. CASE ServerCrashes
  BY <1>1, <1>6, <1>14 DEF Calls, ServerCrashes, Exchange, Lives
<1>15. CASE UNCHANGED vars
  BY <1>1, <1>7, <1>15 DEF Calls, vars, Session
<1> QED
  BY <1>8, <1>9, <1>10, <1>11, <1>12, <1>13, <1>14, <1>15 DEF Next

-----------------------------------------------------------------------------
(* The theorems *)

\* The first state satisfies the inductive invariant.
LEMMA InitIndInv == Init => IndInv
<1> SUFFICES ASSUME Init PROVE IndInv
  OBVIOUS
<1>1. /\ requests = <<>> /\ bridge = TRUE
      /\ exists = {} /\ slot = [q \in Query |-> NoSlot]
      /\ requestSeq = [q \in Query |-> 0] /\ pendingFlags = [q \in Query |-> FALSE]
      /\ result = [q \in Query |-> NoResult] /\ issues = [q \in Query |-> 0]
      /\ block = [s \in Slot |-> [answered |-> 0, hresult |-> "S_OK", data |-> NoResult]]
      /\ objects = [q \in Query |-> NoObject] /\ answering = [slot |-> NoSlot, seq |-> 0]
  BY DEF Init, QueryInit, None, FreshBlock, NoObjects, NoAnswer
<1>2. NoObject \in [issue : Nat, flushed : BOOLEAN, done : BOOLEAN] /\ NoResult \in Result
  BY DEF NoObject, NoResult, Result
<1>3. requests \in Seq(Request) /\ DOMAIN requests = {} /\ Len(requests) = 0
  BY <1>1, EmptySeq
<1>4. QueryTypes
  BY <1>1, <1>2, <1>3 DEF QueryTypes
<1>5. Owners /\ Numbers /\ InQueue /\ InAnswer /\ InBlock /\ ResultOfLatestIssue
  BY <1>1, <1>3 DEF Owners, Numbers, InQueue, InAnswer, InBlock, ResultOfLatestIssue
<1>6. ObjectsFollow
  BY <1>1 DEF ObjectsFollow
<1>7. Lives
  BY <1>1, <1>6 DEF Init, Lives, Ended, ServerGone
<1>8. Exchange
  <2>1. responses \in Seq({"Ack", "Response"}) /\ Len(responses) = 0
    BY EmptySeq DEF Init
  <2> QED
    BY <1>1, <1>3, <2>1, QueriesAssumption
       DEF Init, Exchange, Early, NoCalls, OneCall, OnePolicy, ServerGone, IsCall
<1> QED
  BY <1>4, <1>5, <1>7, <1>8 DEF IndInv, QueryInv

\* Every step keeps it.
LEMMA NextIndInv == IndInv /\ [Next]_vars => IndInv'
BY NextQueries, NextLives, NextExchange DEF IndInv, QueryInv

\* A step keeps the types of the options: the server's policy comes with a Continue.
LEMMA NextOptions == ASSUME QueryTypes, OptionTypes, [Next]_vars PROVE OptionTypes'
<1>1. ASSUME UNCHANGED <<serverBridge, serverPolicy, moduleLoaded>>, asked' \subseteq Query,
             doneProcessing' \in BOOLEAN, infiniteRetries' \in BOOLEAN
      PROVE  OptionTypes'
  BY <1>1 DEF OptionTypes
<1>2. asked \subseteq Query /\ doneProcessing \in BOOLEAN /\ infiniteRetries \in BOOLEAN
  BY DEF OptionTypes
<1>3. CASE Client
  BY <1>1, <1>2, <1>3
     DEF Client, Handshake, Launch, Sends, WaitsFor, CallReturns, Detaches, Unregister, TimesOut,
         Release, queryVars, client, serverProcess
<1>4. CASE Game
  <2>1. CASE Call \/ TimesOut("ack", "running") \/ TimesOut("calling", "running")
    BY <1>1, <1>2, <2>1 DEF Call, Sends, TimesOut, queryVars, client, serverProcess
  <2>2. CASE Detach
    BY <1>1, <1>2, <2>2 DEF Detach, QueriesEnd, serverProcess
  <2>3. ASSUME NEW q \in Query, Create(q) \/ Destroy(q) \/ Issue(q), UNCHANGED Session
        PROVE  OptionTypes'
    <3>1. asked' \subseteq asked
      BY <2>3 DEF Create, Destroy, Issue
    <3> QED
      BY <1>1, <1>2, <2>3, <3>1 DEF Session, clientProcess, serverProcess
  <2>4. ASSUME NEW q \in Query, NEW flush \in BOOLEAN, Polling(q, flush) PROVE OptionTypes'
    <3>1. asked' \subseteq asked \union {q}
      BY <2>4 DEF Polling, GetData, PollsInVain, TakesAnswer, SendsRequest, Asked
    <3> QED
      BY <1>1, <1>2, <2>4, <3>1 DEF Polling, Session, clientProcess, serverProcess
  <2> QED
    BY <1>4, <2>1, <2>2, <2>3, <2>4 DEF Game
<1>5. CASE Server
  <2>1. UNCHANGED <<asked, doneProcessing, infiniteRetries>> /\ serverBridge' = serverBridge
    BY <1>5 DEF Server, ServerStarts, TakesSyn, InitializeD3D, SendsAck, TakesContinue, HandlesQuery,
                QueryHandlers, ServerDestroys, ServerIssues, ServerAnswers, ServerPublishes,
                HandlesCall, Terminates, WaitFails, UnregisterWait, queryVars, client, clientProcess,
                serverProcess
  <2>2. CASE TakesContinue
    <3>1. requests # <<>> /\ Head(requests).command = "Continue" /\ requests' = Tail(requests)
      BY <2>2 DEF TakesContinue, Executes
    <3>2. Head(requests) \in Request
      BY <3>1, TakeRequest DEF QueryTypes
    <3>3. Head(requests).policy \in BOOLEAN
      BY <3>1, <3>2 DEF Request
    <3> QED
      BY <2>1, <2>2, <3>3 DEF TakesContinue, OptionTypes
  <2>3. CASE InitializeD3D
    <3>1. moduleLoaded' \in BOOLEAN /\ serverPolicy' = serverPolicy
      BY <2>3 DEF InitializeD3D
    <3> QED
      BY <2>1, <3>1 DEF OptionTypes
  <2>4. CASE UNCHANGED <<serverPolicy, moduleLoaded>>
    BY <1>1, <1>2, <2>1, <2>4
  <2> QED
    BY <1>5, <2>2, <2>3, <2>4
       DEF Server, ServerStarts, TakesSyn, SendsAck, HandlesQuery, HandlesCall, Terminates, WaitFails,
           UnregisterWait, serverProcess
<1>6. CASE Callbacks
  BY <1>6 DEF Callbacks, ServerExited, EndsGame, ClientExited, ForceQuit, OptionTypes, queryVars, client,
              clientProcess, serverProcess
<1>7. ASSUME NEW q \in Query, Finishes(q) PROVE OptionTypes'
  BY <1>1, <1>2, <1>7 DEF Finishes, Completes, Session, client, clientProcess, serverProcess
<1>8. CASE ClientCrashes
  BY <1>1, <1>2, <1>8 DEF ClientCrashes, QueriesEnd, serverProcess
<1>9. CASE ServerCrashes
  BY <1>1, <1>2, <1>9 DEF ServerCrashes, ObjectsEnd, client, clientProcess
<1>10. CASE UNCHANGED vars
  BY <1>1, <1>2, <1>10 DEF vars, queryVars, client, clientProcess, serverProcess
<1> QED
  BY <1>3, <1>4, <1>5, <1>6, <1>7, <1>8, <1>9, <1>10 DEF Next

\* The types of every variable in every run of the two processes, with at most one
\* owner of a slot and at most two responses on the way.  (AsyncQueryResult, Commands.)
THEOREM TypesHold == Spec => []TypeOK
<1>1. Init => OptionTypes
  BY DEF Init, QueryInit, OptionTypes
<1>2. IndInv => QueryTypes
  BY DEF IndInv, QueryInv
<1>3. IndInv /\ OptionTypes /\ [Next]_vars => OptionTypes'
  BY <1>2, NextOptions
<1>4. IndInv /\ OptionTypes => TypeOK
  <2> SUFFICES ASSUME IndInv, OptionTypes PROVE TypeOK
    OBVIOUS
  <2>1. QueryTypes /\ Owners /\ Lives /\ Exchange
    BY DEF IndInv, QueryInv
  <2>2. ProcessTypes
    BY <2>1 DEF Lives, Exchange, ProcessTypes
  <2>3. Len(responses) <= 2 /\ Len(requests) <= QueueCap
    <3>1. responses \in Seq({"Ack", "Response"}) /\ Len(requests) <= QueueCap
      BY <2>1 DEF Exchange
    <3>2. Len(responses) \in Nat /\ Len(responses) <= IF ServerGone THEN 2 ELSE 1
      BY <2>1, <3>1 DEF Exchange
    <3> QED
      BY <3>1, <3>2
  <2> QED
    BY <2>1, <2>2, <2>3 DEF Owners, TypeOK
<1> QED
  BY <1>1, <1>3, <1>4, InitIndInv, NextIndInv, PTL DEF Spec

\* Whatever slots are reused, requests overtaken by an Issue or a Destroy, and processes
\* ended or killed, GetData returns a result of the query's own latest Issue.
\* (Direct3DQuery9_LSS::GetData, AsyncQueryResult::getData.)
THEOREM ResultsAreCurrent == Spec => []ResultOfLatestIssue
<1>1. IndInv => ResultOfLatestIssue
  BY DEF IndInv, QueryInv
<1> QED
  BY <1>1, InitIndInv, NextIndInv, PTL DEF Spec
=============================================================================
