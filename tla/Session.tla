------------------------------ MODULE Session -------------------------------
(***************************************************************************)
(* The life of the two processes: the client launches the server, the two  *)
(* shake hands (Syn, Ack, Continue), the game calls, and the client        *)
(* detaches (Terminate, Ack) or either process crashes.  Each watches the  *)
(* other's process with an exit callback on a thread of its own.  The      *)
(* game's calls are blocking ones and those of AsyncQueries.               *)
(***************************************************************************)
EXTENDS AsyncQueries

VARIABLES
  clientAt,       \* where the client's thread is; "dead" if the process was killed or crashed
  doneProcessing, \* the client's state is DoneProcessing
  infiniteRetries,\* the client's option; the server's waits are always infinite
  serverWatch,    \* the client's exit callback for the server
  policy,         \* whether calls get a response: the client's option
  responses,      \* the server's commands on the way
  serverAt,       \* where the server's main thread is
  serverBridge,   \* the server's gbBridgeRunning
  serverPolicy,   \* its option, until the client's is adopted
  moduleLoaded,   \* ghModule
  clientWatch     \* the server's exit callback for the client

clientProcess == <<clientAt, doneProcessing, infiniteRetries, serverWatch, policy>>
serverProcess == <<serverAt, serverBridge, serverPolicy, moduleLoaded, clientWatch>>
vars == <<requests, bridge, queryVars, responses, clientProcess, serverProcess>>

Message(command) == [command |-> command, policy |-> policy, seq |-> 0]
Takes(response) ==
  responses # <<>> /\ Head(responses) = response /\ responses' = Tail(responses)

ClientGone == clientAt \in {"exited", "dead"}
ServerGone == serverAt \in {"exited", "dead"}
ClientGoes(from, to) == clientAt = from /\ clientAt' = to
ServerGoes(from, to) == serverAt = from /\ serverAt' = to

-----------------------------------------------------------------------------
(* The client *)

\* InitServer; a server that cannot be launched ends the game.
Launch ==
  /\ \/ ClientGoes("start", "syn") /\ serverAt' = "start" /\ serverWatch' = "armed"
     \/ ClientGoes("start", "dead") /\ UNCHANGED <<serverAt, serverWatch>>
  /\ UNCHANGED <<requests, bridge, queryVars, responses, doneProcessing, infiniteRetries, policy,
                 serverBridge, serverPolicy, moduleLoaded, clientWatch>>

Sends(from, command, to) ==
  /\ ClientGoes(from, to)
  /\ Send(Message(command)) \/ (~bridge /\ UNCHANGED requests)
  /\ UNCHANGED <<bridge, queryVars, responses, doneProcessing, infiniteRetries, serverWatch,
                 policy, serverProcess>>

\* waitForCommand, which fails at once when the bridge is off.
WaitsOnly(from, response, to, failed) ==
  /\ ClientGoes(from, to) /\ bridge /\ Takes(response)
  /\ UNCHANGED <<requests, bridge, queryVars, doneProcessing, infiniteRetries, serverWatch,
                 policy, serverProcess>>
WaitsFor(from, response, to, failed) ==
  /\ \/ ClientGoes(from, to) /\ bridge /\ Takes(response)
     \/ ClientGoes(from, failed) /\ ~bridge /\ UNCHANGED responses
  /\ UNCHANGED <<requests, bridge, queryVars, doneProcessing, infiniteRetries, serverWatch,
                 policy, serverProcess>>

\* A time limit; a handshake or a response that is missing turns the bridge off.
TimesOut(from, to) ==
  /\ bridge /\ ~infiniteRetries
  /\ ClientGoes(from, to)
  /\ bridge' = (from = "wait")
  /\ UNCHANGED <<requests, queryVars, responses, doneProcessing, infiniteRetries, serverWatch,
                 policy, serverProcess>>

Handshake ==
  \/ Launch
  \/ Sends("syn", "Syn", "ack")
  \/ WaitsFor("ack", "Ack", "continue", "running")
  \/ Sends("continue", "Continue", "running")

\* A call waits for its response if the policy says so.
Call == Sends("running", "Call", IF policy THEN "calling" ELSE "running")
CallReturns == WaitsFor("calling", "Response", "running", "running")

\* RemixDetach; retries are infinite while the game's window is without the focus.
Detach ==
  /\ ClientGoes("running", "unregister") /\ doneProcessing' = TRUE
  /\ infiniteRetries' \in BOOLEAN
  /\ QueriesEnd
  /\ UNCHANGED <<requests, bridge, responses, serverWatch, policy, serverProcess>>

\* UnregisterWaitEx waits for a callback that runs.
Unregister ==
  /\ ClientGoes("unregister", "terminate")
  /\ serverWatch # "off" /\ serverWatch' = "none"
  /\ UNCHANGED <<requests, bridge, queryVars, responses, doneProcessing, infiniteRetries, policy, serverProcess>>

\* The server has three seconds to end before it is killed.
Release ==
  /\ ClientGoes("release", "exited")
  /\ serverAt' = IF serverAt = "exited" THEN "exited" ELSE "dead"
  /\ UNCHANGED <<requests, bridge, queryVars, responses, doneProcessing, infiniteRetries,
                 serverWatch, policy, serverBridge, serverPolicy, moduleLoaded, clientWatch>>

Detaches ==
  \/ Unregister
  \/ Sends("terminate", "Terminate", "wait")
  \/ WaitsFor("wait", "Ack", "release", "release")
  \/ TimesOut("terminate", "wait") \/ TimesOut("wait", "release")
  \/ Release

\* OnServerExited: the bridge is turned off; a game that was not ending is ended.
ServerExited ==
  /\ ~ClientGone /\ serverWatch = "armed" /\ ServerGone
  /\ serverWatch' = "off" /\ bridge' = FALSE
  /\ UNCHANGED <<requests, queryVars, responses, clientAt, doneProcessing, infiniteRetries, policy, serverProcess>>

EndsGame ==
  /\ ~ClientGone /\ serverWatch = "off" /\ serverWatch' = "done"
  /\ clientAt' = IF doneProcessing THEN clientAt ELSE "dead"
  /\ UNCHANGED <<requests, bridge, queryVars, responses, doneProcessing, infiniteRetries, policy, serverProcess>>

ClientCrashes ==
  /\ ~ClientGone /\ clientAt' = "dead"
  /\ QueriesEnd
  /\ UNCHANGED <<requests, bridge, responses, doneProcessing, infiniteRetries,
                 serverWatch, policy, serverProcess>>

-----------------------------------------------------------------------------
(* The server *)

\* Shared memory lives as long as a process that has it mapped.
ServerStarts ==
  /\ ServerGoes("start", "syn")
  /\ requests' = IF ClientGone THEN <<>> ELSE requests
  /\ UNCHANGED <<bridge, queryVars, responses, clientProcess, serverBridge, serverPolicy,
                 moduleLoaded, clientWatch>>

TakesSyn ==
  /\ ServerGoes("syn", "init") /\ Executes("Syn")
  /\ clientWatch' = "armed"
  /\ UNCHANGED <<bridge, queryVars, responses, clientProcess, serverBridge, serverPolicy, moduleLoaded>>

InitializeD3D ==
  /\ serverAt = "init" /\ serverAt' \in {"ack", "exited"}
  /\ moduleLoaded' \in {TRUE, serverAt' = "ack"}
  /\ UNCHANGED <<requests, bridge, queryVars, responses, clientProcess, serverBridge,
                 serverPolicy, clientWatch>>

SendsAck(from, to) ==
  /\ ServerGoes(from, to)
  /\ responses' = IF serverBridge THEN Append(responses, "Ack") ELSE responses
  /\ UNCHANGED <<requests, bridge, queryVars, clientProcess, serverBridge, serverPolicy,
                 moduleLoaded, clientWatch>>

\* The server adopts the client's policy.
TakesContinue ==
  /\ ServerGoes("continue", "commands") /\ Executes("Continue")
  /\ serverPolicy' = Head(requests).policy
  /\ UNCHANGED <<bridge, queryVars, responses, clientProcess, serverBridge, moduleLoaded, clientWatch>>

HandlesQuery == serverAt = "commands" /\ QueryHandlers /\ UNCHANGED <<responses, clientProcess, serverProcess>>

HandlesCall ==
  /\ serverAt = "commands" /\ Executes("Call")
  /\ responses' = IF serverPolicy THEN Append(responses, "Response") ELSE responses
  /\ UNCHANGED <<bridge, queryVars, clientProcess, serverProcess>>

Terminates ==
  /\ ServerGoes("commands", "unregister") /\ Executes("Terminate")
  /\ UNCHANGED <<bridge, queryVars, responses, clientProcess, serverBridge, serverPolicy,
                 moduleLoaded, clientWatch>>

\* Every wait for a command fails when the bridge is off.
WaitFails ==
  /\ ~serverBridge /\ answering = NoAnswer
  /\ ServerGoes("syn", "exited") \/ ServerGoes("continue", "exited") \/ ServerGoes("commands", "unregister")
  /\ UNCHANGED <<requests, bridge, queryVars, responses, clientProcess, serverBridge,
                 serverPolicy, moduleLoaded, clientWatch>>

UnregisterWait ==
  /\ ServerGoes("unregister", "lastAck")
  /\ clientWatch # "off" /\ clientWatch' = "none"
  /\ UNCHANGED <<requests, bridge, queryVars, responses, clientProcess, serverBridge,
                 serverPolicy, moduleLoaded>>

Server ==
  \/ ServerStarts \/ TakesSyn \/ InitializeD3D \/ SendsAck("ack", "continue") \/ TakesContinue
  \/ HandlesQuery \/ HandlesCall \/ Terminates \/ WaitFails \/ UnregisterWait
  \/ SendsAck("lastAck", "exited")

\* OnClientExited: the bridge is turned off, and as the module is never unloaded the
\* process is killed when its time to end is over.
ClientExited ==
  /\ ~ServerGone /\ clientWatch = "armed" /\ ClientGone
  /\ clientWatch' = "off" /\ serverBridge' = FALSE
  /\ UNCHANGED <<requests, bridge, queryVars, responses, clientProcess, serverAt, serverPolicy, moduleLoaded>>

ForceQuit ==
  /\ ~ServerGone /\ clientWatch = "off" /\ clientWatch' = "done"
  /\ serverAt' = IF moduleLoaded THEN "dead" ELSE serverAt
  /\ UNCHANGED <<requests, bridge, queryVars, responses, clientProcess, serverBridge,
                 serverPolicy, moduleLoaded>>

ServerCrashes ==
  /\ serverAt # "none" /\ ~ServerGone /\ serverAt' = "dead"
  /\ ObjectsEnd
  /\ UNCHANGED <<requests, bridge, responses, clientProcess, serverBridge,
                 serverPolicy, moduleLoaded, clientWatch>>

-----------------------------------------------------------------------------
Init ==
  /\ QueryInit
  /\ clientAt = "start" /\ doneProcessing = FALSE /\ infiniteRetries = FALSE
  /\ serverWatch = "none" /\ policy \in BOOLEAN /\ responses = <<>>
  /\ serverAt = "none" /\ serverBridge = TRUE /\ serverPolicy = ~policy
  /\ moduleLoaded = FALSE /\ clientWatch = "none"

Session == <<responses, clientProcess, serverProcess>>
Polling(q, flush) == clientAt = "running" /\ GetData(q, flush) /\ UNCHANGED Session
Finishes(q) == serverAt = "commands" /\ Completes(q) /\ UNCHANGED Session

Game ==
  \/ Call \/ Detach
  \/ TimesOut("ack", "running") \/ TimesOut("calling", "running")
  \/ \E q \in Query :
       \/ clientAt = "running" /\ (Create(q) \/ Destroy(q) \/ Issue(q)) /\ UNCHANGED Session
       \/ \E flush \in BOOLEAN : Polling(q, flush)

Client == Handshake \/ CallReturns \/ Detaches
Callbacks == ServerExited \/ EndsGame \/ ClientExited \/ ForceQuit

Next ==
  \/ Client \/ Game \/ Server \/ Callbacks
  \/ \E q \in Query : Finishes(q)
  \/ ClientCrashes \/ ServerCrashes
Spec == Init /\ [][Next]_vars

\* Both processes go on, with the exit callbacks and the time limits of the detach;
\* a game polls its queries again and again (a poll waits for room in the queue),
\* and the GPU finishes what was flushed to it.
FairSpec ==
  /\ Spec
  /\ WF_vars(Client) /\ WF_vars(Server) /\ WF_vars(Callbacks)
  /\ SF_vars(\E q \in Query : Polling(q, FALSE))
  /\ WF_vars(\E q \in Query : objects[q].flushed /\ Finishes(q))

-----------------------------------------------------------------------------
(* Properties *)

\* The commands on the way, of the queries and of the session, and the queries.
Request ==
  [command : {"Destroy"}, query : Query, seq : {0}]
    \union [command : {"Issue"}, query : Query, issue : Nat, seq : {0}]
    \union [command : {"GetData"}, query : Query, flush : BOOLEAN, slot : Slot, seq : Nat \ {0}]
    \union [command : {"Syn", "Continue", "Call", "Terminate"}, policy : BOOLEAN, seq : {0}]
Result == [query : Query \union {"none"}, issue : Nat]
QueryTypes ==
  /\ requests \in Seq(Request) /\ bridge \in BOOLEAN
  /\ exists \subseteq Query /\ slot \in [Query -> Slot \union {NoSlot}]
  /\ requestSeq \in [Query -> Nat] /\ pendingFlags \in [Query -> BOOLEAN]
  /\ result \in [Query -> Result] /\ issues \in [Query -> Nat]
  /\ block \in [Slot -> [answered : Nat, hresult : {"S_OK", "S_FALSE", "failed"}, data : Result]]
  /\ objects \in [Query -> [issue : Nat, flushed : BOOLEAN, done : BOOLEAN]]
  /\ answering \in [slot : Slot \union {NoSlot}, seq : Nat]
  /\ answering.slot = NoSlot <=> answering.seq = 0

\* Where the two processes are, and each one's watch on the other.
Ended == {"unregister", "terminate", "wait", "release", "exited", "dead"}
Early == {"none", "start", "syn", "init", "ack"}
ProcessTypes ==
  /\ clientAt \in {"start", "syn", "ack", "continue", "running", "calling"} \union Ended
  /\ serverAt \in Early \union {"continue", "commands", "unregister", "lastAck", "exited", "dead"}
  /\ serverWatch \in {"none", "armed", "off", "done"} /\ clientWatch \in {"none", "armed", "off", "done"}
  /\ responses \in Seq({"Ack", "Response"}) /\ policy \in BOOLEAN

\* The processes' options, and what is kept for their end.
OptionTypes ==
  /\ asked \subseteq Query /\ doneProcessing \in BOOLEAN /\ infiniteRetries \in BOOLEAN
  /\ serverBridge \in BOOLEAN /\ serverPolicy \in BOOLEAN /\ moduleLoaded \in BOOLEAN

\* Every variable has its type; a slot has at most one owner, and the two queues
\* keep to their lengths: two responses are never exceeded.
TypeOK ==
  /\ QueryTypes /\ ProcessTypes /\ OptionTypes
  /\ \A q, r \in Query : q # r /\ slot[q] = slot[r] => slot[q] = NoSlot
  /\ Len(responses) <= 2 /\ Len(requests) <= QueueCap

\* "The client process has unexpectedly exited, shutting down server as well": the
\* server ends, unless it still waits for a Syn that was never sent or is lost (this
\* wait has no time limit).  RemixDetach returns whatever becomes of the server,
\* unless its retries are infinite and the server dies after the callback is gone.
NeverConnects == serverAt = "none" \/ (serverAt = "syn" /\ requests = <<>>)
WaitsForDead == infiniteRetries /\ serverWatch = "none" /\ ServerGone
ProcessesEnd ==
  clientAt \in {"unregister", "terminate", "wait", "release", "dead"} ~>
    \/ clientAt = "exited"
    \/ clientAt = "dead" /\ (ServerGone \/ NeverConnects)
    \/ clientAt \in {"terminate", "wait"} /\ WaitsForDead

\* Without time limits every call returns, as both sides have one policy and send
\* and await the same responses; and a query that a flush was asked for, once, gets
\* an answer when it is polled, unless the device is lost.
Waiting == clientAt = "calling" \/ (clientAt = "running" /\ bridge /\ asked # {})
CallsAnswered == Waiting ~> ~Waiting
=============================================================================
