------------------------ MODULE PresentPacingProofs ------------------------
(***************************************************************************)
(* The safety of PresentPacing for every allowance, every set of windows,  *)
(* every queue and both values of infiniteRetries.                        *)
(***************************************************************************)
EXTENDS PresentPacing, TLAPS

\* A send adds one command to the queue, at its end; the server takes the first.
LEMMA QueueLemma ==
  ASSUME NEW q \in Seq(Window), NEW w \in Window
  PROVE  /\ Append(q, w) \in Seq(Window) /\ Len(Append(q, w)) = Len(q) + 1
         /\ \A k \in DOMAIN Append(q, w) :
              (k \in DOMAIN q /\ Append(q, w)[k] = q[k]) \/ Append(q, w)[k] = w
         /\ q # <<>> => /\ Head(q) \in Window /\ Head(q) = q[1] /\ 1 \in DOMAIN q
                        /\ Tail(q) \in Seq(Window) /\ Len(Tail(q)) = Len(q) - 1
                        /\ \A k \in DOMAIN Tail(q) : k + 1 \in DOMAIN q /\ Tail(q)[k] = q[k + 1]
         /\ Len(q) \in Nat /\ (Len(q) = 0 <=> q = <<>>)
OBVIOUS

\* The first state satisfies the inductive invariant.
LEMMA InitIndInv == Init => IndInv
BY PacingAssumption
   DEF Init, IndInv, TypeOK, CreditsAccounted, Teardown, GoneStaysQuiet, Pending, Collected, MaxCredits

\* The number of presents a step leaves pending, and that it is a number.
LEMMA PendingLemma ==
  ASSUME TypeOK
  PROVE  /\ Pending \in Nat /\ (Pending = 0 <=> queued = <<>> /\ server = NoWindow)
         /\ \A w \in Window : Present(w) => Pending' = Pending + 1
         /\ Execute => Pending' = Pending
         /\ ReturnCredit => Pending' = Pending - 1 /\ Pending >= 1
<1> USE PacingAssumption DEF TypeOK, Pending
<1>1. Pending \in Nat /\ (Pending = 0 <=> queued = <<>> /\ server = NoWindow)
  OBVIOUS
<1>2. ASSUME NEW w \in Window, Present(w) PROVE Pending' = Pending + 1
  BY <1>2 DEF Present
<1>3. ASSUME Execute PROVE Pending' = Pending
  <2>1. Len(queued') = Len(queued) - 1 /\ Len(queued) \in Nat
    BY <1>3, QueueLemma DEF Execute
  <2>2. server = NoWindow /\ server' # NoWindow
    BY <1>3, QueueLemma DEF Execute
  <2> QED
    BY <2>1, <2>2
<1>4. ASSUME ReturnCredit PROVE Pending' = Pending - 1 /\ Pending >= 1
  BY <1>4 DEF ReturnCredit, client
<1> QED
  BY <1>1, <1>2, <1>3, <1>4

\* Every step keeps the types and accounts for the credits.
LEMMA NextCredits ==
  ASSUME TypeOK, CreditsAccounted, Teardown, Next
  PROVE  TypeOK' /\ CreditsAccounted'
<1>0. infiniteRetries' = infiniteRetries
  BY DEF Next, Client, Server
<1> USE <1>0, PacingAssumption, PendingLemma DEF TypeOK, CreditsAccounted, Teardown, Collected, MaxCredits
<1>1. ASSUME NEW w \in Window, Present(w) PROVE TypeOK' /\ CreditsAccounted'
  <2>1. Pending' = Pending + 1 /\ Pending \in Nat
    BY <1>1
  <2>2. queued' \in Seq(Window)
    BY <1>1 DEF Present
  <2> QED
    BY <1>1, <2>1, <2>2 DEF Present
<1>2. ASSUME NEW w \in Window, Destroy(w) PROVE TypeOK' /\ CreditsAccounted'
  BY <1>2 DEF Destroy, Pending
<1>3. CASE TakeCredit
  <2>1. Pending' = Pending /\ Pending \in Nat
    BY <1>3 DEF TakeCredit, Pending
  <2> QED
    BY <1>3, <2>1 DEF TakeCredit, AfterSync, LastCredit
<1>4. CASE TimesOut
  <2>1. Pending' = Pending /\ Pending \in Nat
    BY <1>4 DEF TimesOut, Pending
  <2> QED
    BY <1>4, <2>1 DEF TimesOut, AfterSync, LastCredit
<1>5. CASE Abort
  <2>1. Pending' = Pending /\ Pending \in Nat
    BY <1>5 DEF Abort, Pending
  <2> QED
    BY <1>5, <2>1 DEF Abort, AfterSync
<1>6. CASE GiveBack
  <2>1. Pending' = Pending /\ Pending \in Nat
    BY <1>6 DEF GiveBack, Pending
  <2> QED
    BY <1>6, <2>1 DEF GiveBack, Returned
<1>7. CASE Execute
  <2>1. Pending' = Pending /\ Pending \in Nat
    BY <1>7
  <2>2. server' \in Window /\ queued' \in Seq(Window)
    BY <1>7 DEF Execute
  <2> QED
    BY <1>7, <2>1, <2>2 DEF Execute, client
<1>8. CASE ReturnCredit
  <2>1. Pending' = Pending - 1 /\ Pending >= 1 /\ Pending \in Nat
    BY <1>8
  <2> QED
    BY <1>8, <2>1 DEF ReturnCredit, Returned, client
<1>9. CASE Stop
  BY <1>9 DEF Stop, client
<1> HIDE DEF TypeOK, CreditsAccounted, Teardown, Collected, MaxCredits
<1> QED
  BY <1>1, <1>2, <1>3, <1>4, <1>5, <1>6, <1>7, <1>8, <1>9 DEF Next, Client, Server

\* Every step keeps what a WM_DESTROY knows.
LEMMA NextTeardown ==
  ASSUME TypeOK, CreditsAccounted, Teardown, Next
  PROVE  Teardown'
<1>0. infiniteRetries' = infiniteRetries
  BY DEF Next, Client, Server
<1> USE <1>0, PacingAssumption, PendingLemma DEF TypeOK, CreditsAccounted, Teardown, Collected
<1>1. ASSUME NEW w \in Window, Present(w) PROVE Teardown'
  BY <1>1 DEF Present
<1>2. ASSUME NEW w \in Window, Destroy(w) PROVE Teardown'
  BY <1>2 DEF Destroy
<1>3. CASE TakeCredit
  <2>1. Pending' = Pending /\ Pending \in Nat
    BY <1>3 DEF TakeCredit, Pending
  <2> QED
    BY <1>3, <2>1 DEF TakeCredit, AfterSync, LastCredit
<1>4. CASE TimesOut
  <2>1. Pending' = Pending /\ Pending \in Nat
    BY <1>4 DEF TimesOut, Pending
  <2> QED
    BY <1>4, <2>1 DEF TimesOut, AfterSync, LastCredit
<1>5. CASE Abort
  BY <1>5 DEF Abort, AfterSync
<1>6. CASE GiveBack
  BY <1>6 DEF GiveBack
<1>7. CASE Execute
  BY <1>7 DEF Execute, client
<1>8. CASE ReturnCredit
  BY <1>8 DEF ReturnCredit, client
<1>9. CASE Stop
  BY <1>9 DEF Stop, client, Pending
<1> HIDE DEF TypeOK, CreditsAccounted, Teardown, Collected
<1> QED
  BY <1>1, <1>2, <1>3, <1>4, <1>5, <1>6, <1>7, <1>8, <1>9 DEF Next, Client, Server

\* No step sends or shows a present to a window that is gone.
LEMMA NextQuiet == ASSUME IndInv, Next PROVE GoneStaysQuiet'
<1>0. infiniteRetries' = infiniteRetries
  BY DEF Next, Client, Server
<1> SUFFICES ASSUME infiniteRetries PROVE GoneStaysQuiet'
  BY <1>0 DEF GoneStaysQuiet
<1> USE <1>0, PacingAssumption DEF IndInv, TypeOK, Teardown, GoneStaysQuiet
<1>1. ASSUME NEW w \in Window, Present(w) PROVE GoneStaysQuiet'
  <2>1. \A k \in DOMAIN queued' : (k \in DOMAIN queued /\ queued'[k] = queued[k]) \/ queued'[k] = w
    BY <1>1, QueueLemma DEF Present
  <2>2. gone' = gone /\ server' = server /\ w \notin gone
    BY <1>1 DEF Present
  <2> QED
    BY <2>1, <2>2
<1>2. ASSUME NEW w \in Window, Destroy(w) PROVE GoneStaysQuiet'
  <2>1. CASE running /\ Frames = 0
    <3>1. Pending = 0
      BY <1>2, <2>1, PendingLemma DEF Destroy, CreditsAccounted, Collected
    <3>2. queued = <<>> /\ server = NoWindow
      BY <3>1, PendingLemma
    <3> QED
      BY <1>2, <3>2 DEF Destroy
  <2>2. CASE ~(running /\ Frames = 0)
    BY <1>2, <2>2 DEF Destroy
  <2> QED
    BY <2>1, <2>2
<1>3. CASE TakeCredit \/ TimesOut \/ Abort
  BY <1>3 DEF TakeCredit, TimesOut, Abort
<1>4. CASE GiveBack
  <2>1. CASE acquired = Frames
    <3>1. queued = <<>> /\ server = NoWindow
      BY <1>4, <2>1, PendingLemma DEF GiveBack
    <3>2. queued' = <<>> /\ server' = NoWindow
      BY <1>4, <3>1 DEF GiveBack
    <3> QED
      BY <1>4, <3>2 DEF GiveBack
  <2>2. CASE acquired # Frames
    BY <1>4, <2>2 DEF GiveBack
  <2> QED
    BY <2>1, <2>2
<1>5. CASE Execute
  <2>1. queued # <<>> /\ server' = Head(queued) /\ queued' = Tail(queued) /\ gone' = gone
    BY <1>5 DEF Execute, client
  <2>2. server' = queued[1] /\ 1 \in DOMAIN queued
    BY <2>1, QueueLemma
  <2>3. \A k \in DOMAIN queued' : k + 1 \in DOMAIN queued /\ queued'[k] = queued[k + 1]
    BY <2>1
  <2> QED
    BY <2>1, <2>2, <2>3
<1>6. CASE ReturnCredit
  BY <1>6 DEF ReturnCredit, client
<1>7. CASE Stop
  BY <1>7 DEF Stop, client
<1> HIDE DEF IndInv, TypeOK, Teardown, GoneStaysQuiet
<1> QED
  BY <1>1, <1>2, <1>3, <1>4, <1>5, <1>6, <1>7 DEF Next, Client, Server

-----------------------------------------------------------------------------
\* The inductive invariant holds in every reachable state.
THEOREM IndInvariant == Spec => []IndInv
<1>1. IndInv /\ [Next]_vars => IndInv'
  <2> SUFFICES ASSUME IndInv, [Next]_vars PROVE IndInv'
    OBVIOUS
  <2>1. CASE Next
    BY <2>1, NextCredits, NextTeardown, NextQuiet DEF IndInv
  <2>2. CASE UNCHANGED vars
    BY <2>2 DEF vars, client, IndInv, TypeOK, CreditsAccounted, Teardown, GoneStaysQuiet,
                Pending, Collected, MaxCredits
  <2> QED
    BY <2>1, <2>2
<1> QED
  BY <1>1, InitIndInv, PTL DEF Spec

\* Every variable keeps its type: WM_DESTROY never collects more than the allowance,
\* and the semaphore stays within its limits.
THEOREM TypeCorrect == Spec => []TypeOK
<1>1. IndInv => TypeOK
  BY DEF IndInv
<1> QED
  BY <1>1, IndInvariant, PTL

\* No credit is lost or granted twice, for every allowance and whatever order
\* presents complete in.
THEOREM CreditsKept == Spec => []CreditsAccounted
<1>1. IndInv => CreditsAccounted
  BY DEF IndInv
<1> QED
  BY <1>1, IndInvariant, PTL

\* The server never presents to a window that WM_DESTROY has let go.
THEOREM WindowsStayQuiet == Spec => []GoneStaysQuiet
<1>1. IndInv => GoneStaysQuiet
  BY DEF IndInv
<1> QED
  BY <1>1, IndInvariant, PTL
=============================================================================
