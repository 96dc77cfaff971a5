--------------------------- MODULE PresentPacing ---------------------------
(***************************************************************************)
(* How far the game may run ahead of the server, and the destruction of a  *)
(* window that presents are queued for (syncOnPresent,                     *)
(* waitForPendingPresents, Direct3DSwapChain9_LSS::Present, windowMsg; the *)
(* Present commands of the server).  The semaphore starts with             *)
(* Frames credits: a Present sends its command and then takes one credit,  *)
(* the server returns one when it has presented.  WM_DESTROY marks the     *)
(* window and collects every credit before it lets the window go.  Both    *)
(* hold gPresentMutex from their first step to their last, so at most one  *)
(* client call is past "idle".                                             *)
(***************************************************************************)
EXTENDS Naturals, Sequences

CONSTANTS
  Window,           \* the game's windows
  NoWindow,         \* none of them
  Frames,           \* presentSemaphoreMaxFrames
  QueueCap,         \* headers the command queue holds
  RetryOptions,     \* the values the option infiniteRetries may have
  MaxRetries        \* commandRetries

ASSUME PacingAssumption ==
  /\ NoWindow \notin Window
  /\ Frames \in Nat /\ MaxRetries \in Nat
  /\ QueueCap \in Nat \ {0}
  /\ RetryOptions \subseteq BOOLEAN

VARIABLES
  infiniteRetries,  \* the option: waits that time out are not counted
  credits,   \* the count of the "Present" semaphore
  phase,     \* the step of the client call that holds gPresentMutex
  window,    \* ... and its window
  retries,   \* numRetries of syncOnPresent
  acquired,  \* acquiredCredits of waitForPendingPresents
  closing,   \* windows marked in gSwapChainMap
  gone,      \* windows whose WM_DESTROY found nothing left to wait for
  queued,    \* Present commands sent and not taken by the server: their windows
  server,    \* the window the server presents to, if any
  running    \* gbBridgeRunning of the client

client == <<phase, window, retries, acquired, closing, gone>>
vars == <<infiniteRetries, credits, client, queued, server, running>>

CreditLimit == Frames
MaxCredits == Frames + 1

\* ReleaseSemaphore: all or nothing.
Returned(n) == IF credits + n <= MaxCredits THEN credits + n ELSE credits

-----------------------------------------------------------------------------
(* Direct3DSwapChain9_LSS::Present *)

IgnoresClosing(w) ==
  /\ phase = "idle" /\ running
  /\ Len(queued) < QueueCap /\ queued' = Append(queued, w)
  /\ phase' = "present" /\ window' = w /\ retries' = 0
  /\ UNCHANGED <<credits, acquired, closing, gone, server, running>>

\* A closing window is refused; otherwise the command goes out, and then the
\* call waits for a credit.
Present(w) ==
  /\ phase = "idle" /\ w \notin closing /\ running
  /\ Len(queued) < QueueCap /\ queued' = Append(queued, w)
  /\ phase' = "present" /\ window' = w /\ retries' = 0
  /\ UNCHANGED <<credits, acquired, closing, gone, server, running>>

-----------------------------------------------------------------------------
(* syncOnPresent *)

\* A Present returns whatever syncOnPresent says; WM_DESTROY goes on to the next
\* credit, or gives back what it has after the last one or a failure.
LastCredit == acquired' = Frames
AfterSync(ok) ==
  /\ acquired' = IF ok /\ phase = "collect" THEN acquired + 1 ELSE acquired
  /\ phase' = IF phase = "present" THEN "idle"
              ELSE IF ok /\ ~LastCredit THEN "collect" ELSE "return"
  /\ retries' = 0

TakeNothing ==
  /\ phase \in {"present", "collect"} /\ running
  /\ credits' = credits - 1
  /\ AfterSync(infiniteRetries \/ retries < MaxRetries)
  /\ UNCHANGED <<window, closing, gone, queued, server, running>>

\* The test that follows the loop takes the last attempt for a failure.
TakeCredit ==
  /\ phase \in {"present", "collect"} /\ running
  /\ credits > 0 /\ credits' = credits - 1
  /\ AfterSync(infiniteRetries \/ retries < MaxRetries)
  /\ UNCHANGED <<window, closing, gone, queued, server, running>>

TimesOut ==
  /\ phase \in {"present", "collect"} /\ running
  /\ credits = 0 /\ ~infiniteRetries
  /\ IF retries < MaxRetries
     THEN retries' = retries + 1 /\ UNCHANGED <<phase, acquired>>
     ELSE AfterSync(FALSE)
  /\ UNCHANGED <<credits, window, closing, gone, queued, server, running>>

\* The bridge went off: no credit is taken, or the one just taken is not counted.
Abort ==
  /\ phase \in {"present", "collect"} /\ ~running
  /\ AfterSync(FALSE)
  /\ \/ UNCHANGED credits
     \/ credits > 0 /\ credits' = credits - 1
  /\ UNCHANGED <<window, closing, gone, queued, server, running>>

-----------------------------------------------------------------------------
(* windowMsg(WM_DESTROY) and waitForPendingPresents *)

Destroy(w) ==
  /\ phase = "idle" /\ w \notin gone
  /\ closing' = closing \union {w}
  /\ window' = w /\ acquired' = 0 /\ retries' = 0
  /\ phase' = IF running /\ Frames > 0 THEN "collect" ELSE "idle"
  /\ gone' = IF running /\ Frames = 0 THEN gone \union {w} ELSE gone
  /\ UNCHANGED <<credits, queued, server, running>>

KeepsCredits ==
  /\ phase = "return" /\ phase' = "idle"
  /\ gone' = IF acquired = Frames THEN gone \union {window} ELSE gone
  /\ UNCHANGED <<credits, window, retries, acquired, closing, queued, server, running>>

\* The credits go back for the other swap chains.
GiveBack ==
  /\ phase = "return" /\ phase' = "idle"
  /\ credits' = IF acquired > 0 THEN Returned(acquired) ELSE credits
  /\ gone' = IF acquired = Frames THEN gone \union {window} ELSE gone
  /\ UNCHANGED <<window, retries, acquired, closing, queued, server, running>>

Client == UNCHANGED infiniteRetries /\ (TakeCredit \/ TimesOut \/ Abort \/ GiveBack)

-----------------------------------------------------------------------------
(* The server's thread *)

Execute ==
  /\ server = NoWindow /\ queued # <<>>
  /\ server' = Head(queued) /\ queued' = Tail(queued)
  /\ UNCHANGED <<credits, client, running>>

ReturnCredit ==
  /\ server # NoWindow /\ server' = NoWindow
  /\ credits' = Returned(1)
  /\ UNCHANGED <<client, queued, running>>

Server == UNCHANGED infiniteRetries /\ (Execute \/ ReturnCredit)

\* The client turns its bridge off (a failed push, the server's exit callback).
Stop ==
  /\ running /\ running' = FALSE
  /\ UNCHANGED <<credits, client, queued, server>>

-----------------------------------------------------------------------------
Init ==
  /\ infiniteRetries \in RetryOptions
  /\ credits = Frames
  /\ phase = "idle" /\ window = NoWindow /\ retries = 0 /\ acquired = 0
  /\ closing = {} /\ gone = {}
  /\ queued = <<>> /\ server = NoWindow /\ running = TRUE

Next ==
  \/ UNCHANGED infiniteRetries /\ ((\E w \in Window : Present(w) \/ Destroy(w)) \/ Stop)
  \/ Client \/ Server
Spec == Init /\ [][Next]_vars

\* A call that has begun goes on.  Only where its waits never give up must the
\* server keep processing commands; otherwise it may hang.
FairSpec == Spec /\ WF_vars(Client) /\ WF_vars(infiniteRetries /\ Server)

-----------------------------------------------------------------------------
(* Properties *)

\* Every variable has its type.
TypeOK ==
  /\ infiniteRetries \in BOOLEAN
  /\ credits \in 0 .. MaxCredits
  /\ phase \in {"idle", "present", "collect", "return"}
  /\ window \in Window \union {NoWindow} /\ server \in Window \union {NoWindow}
  /\ retries \in 0 .. MaxRetries /\ acquired \in 0 .. Frames
  /\ closing \subseteq Window /\ gone \subseteq Window
  /\ queued \in Seq(Window)
  /\ running \in BOOLEAN

\* Every present the server still owes a credit for.
Pending == Len(queued) + (IF server = NoWindow THEN 0 ELSE 1)
\* The credits a WM_DESTROY in progress has collected.
Collected == IF phase \in {"collect", "return"} THEN acquired ELSE 0

\* Where waits do not give up, no credit is lost and none is granted twice while
\* the bridge runs, in whatever order presents complete and are waited for: what the semaphore, the server and
\* a collecting WM_DESTROY hold is the allowance, and one more while a Present
\* has sent its command and not taken its credit yet.
CreditsAccounted ==
  infiniteRetries /\ running =>
    credits + Pending + Collected = Frames + (IF phase = "present" THEN 1 ELSE 0)

\* "WM_DESTROY marks the window closing and waits for queued presents": the
\* server never presents to a window whose WM_DESTROY has found them finished
\* (again where waits do not give up: a Present that gave up took no credit).
GoneStaysQuiet ==
  infiniteRetries => \A w \in gone : server # w /\ \A k \in DOMAIN queued : queued[k] # w

\* What a WM_DESTROY knows: its window is marked, it collects no more than the
\* allowance, and when it has the allowance no present is left anywhere (if waits
\* do not give up).
Teardown ==
  /\ gone \subseteq closing
  /\ phase \in {"collect", "return"} => window \in closing
  /\ phase = "collect" => acquired < Frames
  /\ infiniteRetries /\ phase = "return" /\ acquired = Frames => Pending = 0

\* The inductive invariant.
IndInv == TypeOK /\ CreditsAccounted /\ Teardown /\ GoneStaysQuiet

\* Presents and WM_DESTROY return: a window's destruction never hangs on credits.
CallsReturn == (phase # "idle") ~> (phase = "idle")

\* "A completed present lost a run-ahead credit", "Present pacing granted an extra
\* run-ahead credit": with nothing in progress the semaphore is at its allowance.
AllowanceRestored == running /\ phase = "idle" /\ Pending = 0 => credits = Frames
=============================================================================
