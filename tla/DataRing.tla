------------------------------ MODULE DataRing ------------------------------
(***************************************************************************)
(* The data ring of a device-bridge channel: the words that hold the       *)
(* arguments of the commands, written by one process (Command, DataWriter) *)
(* and read by the other (get_data), and the shared fields that keep the   *)
(* writer off words that are not read yet: serverDataPos,                  *)
(* serverResetPosRequired, clientDataExpectedPos and the data semaphore.   *)
(*                                                                         *)
(* A command is a sequence of writes.  A write is n single words           *)
(* (send_data, send_many), or a blob: a size word and n - 1 words that     *)
(* stay together (send_data of an object, begin_data_blob).  Headers       *)
(* travel in the command queue, here a FIFO, which CommandQueue            *)
(* implements.  Every access to a shared field is a step of its own.       *)
(***************************************************************************)
EXTENDS Integers, Sequences

CONSTANTS
  Size,        \* words in the ring (get_total_size)
  MaxItem,     \* s_maxItemWords
  Workload,    \* what a channel may carry: commands (records of writes and
               \* streamable), and wrapAtOnce, whether the two stores of
               \* noteReadWrap count as one step
  HeaderCap,   \* headers the command queue holds
  Impatient    \* whether a wait for space may reach its time limit

\* A write, as the header of this module describes it, and a command.
Item == [blob : BOOLEAN, words : 1 .. Size]
Command == [writes : Seq(Item), streamable : BOOLEAN]

ASSUME RingAssumption ==
  /\ Size \in Nat \ {0, 1}
  /\ MaxItem \in Nat \ {0} /\ HeaderCap \in Nat \ {0}
  /\ Workload # {} /\ Impatient \in BOOLEAN
  /\ \A l \in Workload : l.wrapAtOnce \in BOOLEAN /\ l.commands \subseteq Command

\* Larger items of a streamable command travel in pieces (sendStreamedItem), and
\* "two items and a skipped ring tail" fit: an item is a sixteenth of the ring.
ASSUME StreamAssumption ==
  \A l \in Workload : \A c \in l.commands : c.streamable =>
    /\ 2 * MaxItem + 2 <= Size
    /\ \A k \in 1 .. Len(c.writes) : c.writes[k].words <= MaxItem + 1

VARIABLES
  load,          \* what this channel carries
  wpc, wpos,     \* the writer's step and its m_pos
  start,         \* s_curBatchStartPos
  cmd, at,       \* the command being written and its next write
  headerPushed,  \* s_streamHeaderPushed
  lapBehind,     \* what syncDataQueue read of the flag,
  serverCount,   \* ... and of the reader's position
  again,         \* the second test of syncDataQueue is over
  resetRequired, serverPos, expectedPos, semaphore,  \* the shared fields
  headers,       \* the command queue
  unread,        \* the ring: words written and not read yet
  rpc, rpos,     \* the reader's step and its m_pos
  reads,         \* what the handler has yet to read of its command
  streamed, ended, readEnd,  \* s_readStreamed, s_readEnded, s_readEnd
  held           \* words of its command the handler has pointers to

writer == <<wpc, wpos, start, cmd, at, headerPushed, lapBehind, serverCount, again>>
reader == <<rpc, rpos, reads, streamed, ended, readEnd, held>>
fields == <<resetRequired, serverPos, expectedPos, semaphore>>
vars == <<load, writer, fields, headers, unread, reader>>

Pos == 0 .. Size - 1

-----------------------------------------------------------------------------
(* Positions (CircularQueue, CircularBuffer) *)

\* Where the bytes of a blob start whose size word is at p (ensure_space).
BlobStart(p, w) ==
  LET q == (p + 1) % Size IN IF q + w.words - 1 >= Size THEN 0 ELSE q

BlobWords(p, w) == BlobStart(p, w) .. BlobStart(p, w) + w.words - 2

WordsOf(p, w) ==
  IF w.blob THEN {p} \union BlobWords(p, w)
            ELSE {(p + k) % Size : k \in 0 .. w.words - 1}

AfterNoWrap(p, w) == p + w.words
After(p, w) ==
  IF w.blob THEN BlobStart(p, w) + w.words - 1 ELSE (p + w.words) % Size

-----------------------------------------------------------------------------
(* What syncDataQueue computes for the next write *)

W == cmd.writes[at]
Written == IF wpos >= start THEN wpos - start ELSE wpos + Size - start
BatchWrapped == wpos < start
LastWord == wpos + W.words - 1

\* A blob restarts at the ring's start when it would end on or after its last
\* word; single words go on there.
Wraps == IF W.blob THEN wpos + W.words >= Size ELSE LastWord >= Size
EndsAtQueueEnd == ~W.blob /\ LastWord + 1 = Size
ExpectedEnd ==
  IF ~Wraps THEN LastWord ELSE IF W.blob THEN W.words - 1 ELSE LastWord - Size

\* No wait can make these writes safe: the reader reads nothing of a batch
\* whose header is not pushed.  The program exits.
ReachesBatchStart ==
  IF BatchWrapped THEN Wraps \/ ExpectedEnd >= start ELSE Wraps /\ ExpectedEnd >= start
NeverFits == W.words + Written > Size

\* The overwrite condition without the case of a reader at the batch's start.
SameLapOnly(server) ==
  /\ ExpectedEnd >= server
  /\ start < server \/ (start > server /\ ExpectedEnd < start)
WouldOverwrite(server) ==
  /\ ExpectedEnd >= server
  /\ \/ start < server
     \/ start > server /\ ExpectedEnd < start
     \/ start <= server /\ (Wraps \/ lapBehind)

-----------------------------------------------------------------------------
(* The writer *)

GotoW(from, to) == wpc = from /\ wpc' = to
Push(h) == Len(headers) < HeaderCap /\ headers' = Append(headers, h)

\* Command's constructor: a batch starts at the current position.
Begin(c) ==
  /\ GotoW("idle", "next")
  /\ start' = wpos
  /\ cmd' = c /\ at' = 1
  /\ headerPushed' = FALSE
  /\ UNCHANGED <<wpos, lapBehind, serverCount, again, fields, headers, unread, reader>>

\* The header of a command carries what its handler will read; a chunk's adds
\* nothing to that.
Header(isStreamed, isEnd) ==
  [reads |-> IF headerPushed THEN <<>> ELSE cmd.writes,
   streamed |-> isStreamed, end |-> isEnd, offset |-> wpos]

\* prepareWrite: a streamable command that would pass one item is published as
\* far as it is written (publishLocked).
NeverPublishes == FALSE
NeedsPublish == cmd.streamable /\ Written # 0 /\ Written + W.words > MaxItem
Publish ==
  /\ wpc = "next" /\ at <= Len(cmd.writes) /\ NeedsPublish
  /\ Push(Header(TRUE, FALSE))
  /\ headerPushed' = TRUE
  /\ start' = wpos
  /\ UNCHANGED <<wpc, wpos, cmd, at, lapBehind, serverCount, again, fields, unread, reader>>

\* syncDataQueue reads the flag, then the position.
ReadFlag ==
  /\ GotoW("next", "position")
  /\ at <= Len(cmd.writes) /\ ~NeedsPublish
  /\ lapBehind' = resetRequired
  /\ UNCHANGED <<wpos, start, cmd, at, headerPushed, serverCount, again, fields, headers,
                 unread, reader>>

AfterWaits == IF Wraps \/ EndsAtQueueEnd THEN "setFlag" ELSE "write"
ReadPosition ==
  /\ wpc = "position"
  /\ serverCount' = serverPos
  /\ again' = ~(Wraps /\ lapBehind)
  /\ wpc' = IF ReachesBatchStart THEN "exit"
            ELSE IF (Wraps /\ lapBehind) \/ WouldOverwrite(serverPos) THEN "overwrite"
            ELSE AfterWaits
  /\ UNCHANGED <<wpos, start, cmd, at, headerPushed, lapBehind, fields, headers, unread, reader>>

\* handleOverwriteCondition: announce the position, poll the flag and the
\* reader's position between short waits, withdraw the announcement.
Announce ==
  /\ GotoW("overwrite", IF NeverFits THEN "exit" ELSE "testFlag")
  /\ expectedPos' = start - 1
  /\ UNCHANGED <<wpos, start, cmd, at, headerPushed, lapBehind, serverCount, again,
                 resetRequired, serverPos, semaphore, headers, unread, reader>>

TestFlag ==
  /\ GotoW("testFlag", IF ~BatchWrapped /\ resetRequired THEN "wait" ELSE "testPos")
  /\ UNCHANGED <<wpos, start, cmd, at, headerPushed, lapBehind, serverCount, again, fields,
                 headers, unread, reader>>

TestPos ==
  /\ GotoW("testPos", IF serverPos > start - 1 THEN "withdraw" ELSE "wait")
  /\ UNCHANGED <<wpos, start, cmd, at, headerPushed, lapBehind, serverCount, again, fields,
                 headers, unread, reader>>

\* The semaphore, or the poll interval, ends the short wait; the whole wait has
\* a time limit, after which the writer logs an error and writes.
Waits ==
  /\ wpc = "wait"
  /\ wpc' \in {"testFlag"} \union (IF Impatient THEN {"withdraw"} ELSE {})
  /\ semaphore' = 0
  /\ UNCHANGED <<wpos, start, cmd, at, headerPushed, lapBehind, serverCount, again,
                 resetRequired, serverPos, expectedPos, headers, unread, reader>>

\* The second test of syncDataQueue goes by the position read before the wait.
Withdraw ==
  /\ GotoW("withdraw", IF ~again /\ WouldOverwrite(serverCount) THEN "overwrite"
                       ELSE AfterWaits)
  /\ again' = TRUE
  /\ expectedPos' = -1
  /\ UNCHANGED <<wpos, start, cmd, at, headerPushed, lapBehind, serverCount, resetRequired,
                 serverPos, semaphore, headers, unread, reader>>

SetFlag ==
  /\ GotoW("setFlag", "write")
  /\ resetRequired' = TRUE
  /\ UNCHANGED <<wpos, start, cmd, at, headerPushed, lapBehind, serverCount, again, serverPos,
                 expectedPos, semaphore, headers, unread, reader>>

Write ==
  /\ GotoW("write", "next")
  /\ unread' = unread \union WordsOf(wpos, W)
  /\ wpos' = After(wpos, W)
  /\ at' = at + 1
  /\ UNCHANGED <<start, cmd, headerPushed, lapBehind, serverCount, again, fields, headers, reader>>

\* Command's destructor: the header, or the last chunk's.
Finish ==
  /\ GotoW("next", "idle")
  /\ at > Len(cmd.writes)
  /\ Push(Header(headerPushed, headerPushed))
  /\ start' = -1
  /\ UNCHANGED <<wpos, cmd, at, headerPushed, lapBehind, serverCount, again, fields, unread, reader>>

Writer ==
  /\ UNCHANGED load
  /\ \/ Publish \/ ReadFlag \/ ReadPosition \/ Announce \/ TestFlag \/ TestPos \/ Waits
     \/ Withdraw \/ SetFlag \/ Write \/ Finish

-----------------------------------------------------------------------------
(* The reader *)

GotoR(from, to) == rpc = from /\ rpc' = to

\* waitForCommand, pop_front, beginReadCommand
Receive ==
  /\ GotoR("idle", "read")
  /\ headers # <<>> /\ headers' = Tail(headers)
  /\ LET h == Head(headers) IN
       /\ reads' = h.reads /\ readEnd' = h.offset
       /\ streamed' = h.streamed /\ ended' = ~h.streamed
  /\ UNCHANGED <<writer, fields, unread, rpos, held>>

\* One get_data: a word of a write, or a whole blob.
R == Head(reads)
Unit == IF R.blob THEN R ELSE [R EXCEPT !.words = 1]
ReadsAhead == FALSE
AllPublishedRead == streamed /\ rpos = readEnd
Pull ==
  /\ rpc = "read" /\ reads # <<>> /\ ~AllPublishedRead
  /\ unread' = unread \ WordsOf(rpos, Unit)
  /\ rpos' = After(rpos, Unit)
  /\ rpc' = IF After(rpos, Unit) < rpos THEN "wrapPos" ELSE "read"
  /\ reads' = IF R = Unit THEN Tail(reads)
              ELSE <<[R EXCEPT !.words = @ - 1]>> \o Tail(reads)
  \* A streamed command's blobs are copied (keepItem), others are used in place.
  /\ held' = IF R.blob /\ ~streamed THEN held \union BlobWords(rpos, R) ELSE held
  /\ UNCHANGED <<writer, fields, headers, streamed, ended, readEnd>>

\* noteReadWrap: position 0 is published before the flag is cleared.
FlagNotCleared ==
  /\ GotoR("wrapPos", "read")
  /\ serverPos' = 0
  /\ UNCHANGED <<writer, resetRequired, expectedPos, semaphore, headers, unread, rpos, reads,
                 streamed, ended, readEnd, held>>
WrapPos ==
  /\ GotoR("wrapPos", IF load.wrapAtOnce THEN "read" ELSE "wrapFlag")
  /\ serverPos' = 0
  /\ resetRequired' = IF load.wrapAtOnce THEN FALSE ELSE resetRequired
  /\ UNCHANGED <<writer, expectedPos, semaphore, headers, unread, rpos, reads, streamed, ended,
                 readEnd, held>>

WrapFlag ==
  /\ GotoR("wrapFlag", "read")
  /\ resetRequired' = FALSE
  /\ UNCHANGED <<writer, serverPos, expectedPos, semaphore, headers, unread, rpos, reads,
                 streamed, ended, readEnd, held>>

\* All that is published of a streamed command is read, or the command is read
\* (awaitDataSlow, readNextChunk, endReadCommand): out of step, or release.
ReadMore == streamed /\ ~ended
Release ==
  /\ rpc = "read" /\ (reads = <<>> \/ AllPublishedRead)
  /\ rpc' = IF rpos = readEnd /\ (reads = <<>> \/ ~ended) THEN "release" ELSE "outOfStep"
  /\ held' = IF reads = <<>> /\ ~ReadMore THEN {} ELSE held
  /\ UNCHANGED <<writer, fields, headers, unread, rpos, reads, streamed, ended, readEnd>>

\* releaseReadData: publish the position; signal a writer that waits for it.
AfterRelease == IF ReadMore THEN "chunk" ELSE "idle"
ReleasePos ==
  /\ GotoR("release", "testExpected")
  /\ serverPos' = rpos
  /\ UNCHANGED <<writer, resetRequired, expectedPos, semaphore, headers, unread, rpos, reads,
                 streamed, ended, readEnd, held>>

TestExpected ==
  /\ GotoR("testExpected",
       IF expectedPos # -1 /\ rpos > expectedPos THEN "testReset" ELSE AfterRelease)
  /\ UNCHANGED <<writer, fields, headers, unread, rpos, reads, streamed, ended, readEnd, held>>

TestReset ==
  /\ GotoR("testReset", IF resetRequired THEN AfterRelease ELSE "clearExpected")
  /\ UNCHANGED <<writer, fields, headers, unread, rpos, reads, streamed, ended, readEnd, held>>

ClearExpected ==
  /\ GotoR("clearExpected", "signal")
  /\ expectedPos' = -1
  /\ UNCHANGED <<writer, resetRequired, serverPos, semaphore, headers, unread, rpos, reads,
                 streamed, ended, readEnd, held>>

Signal ==
  /\ GotoR("signal", AfterRelease)
  /\ semaphore' = 1
  /\ UNCHANGED <<writer, resetRequired, serverPos, expectedPos, headers, unread, rpos, reads,
                 streamed, ended, readEnd, held>>

\* readNextChunk: the next chunk header.
NextChunk ==
  /\ GotoR("chunk", "read")
  /\ headers # <<>> /\ headers' = Tail(headers)
  /\ readEnd' = Head(headers).offset
  /\ ended' = Head(headers).end
  /\ UNCHANGED <<writer, fields, unread, rpos, reads, streamed, held>>

Reader ==
  /\ UNCHANGED load
  /\ \/ Receive \/ Pull \/ WrapPos \/ WrapFlag \/ Release \/ ReleasePos \/ TestExpected
     \/ TestReset \/ ClearExpected \/ Signal \/ NextChunk

-----------------------------------------------------------------------------
NoCommand == [writes |-> <<>>, streamable |-> FALSE]

\* Bridge::init sets the position of a device bridge to 0.
Init ==
  /\ load \in Workload
  /\ wpc = "idle" /\ wpos = 0 /\ start = -1 /\ cmd = NoCommand /\ at = 1
  /\ headerPushed = FALSE /\ lapBehind = FALSE /\ serverCount = 0 /\ again = FALSE
  /\ resetRequired = FALSE /\ serverPos = 0 /\ expectedPos = -1 /\ semaphore = 0
  /\ headers = <<>> /\ unread = {}
  /\ rpc = "idle" /\ rpos = 0 /\ reads = <<>>
  /\ streamed = FALSE /\ ended = TRUE /\ readEnd = 0 /\ held = {}

Next == (\E c \in load.commands : Begin(c) /\ UNCHANGED load) \/ Writer \/ Reader
Spec == Init /\ [][Next]_vars

\* The reader's thread runs, and so does a writer inside a command.
FairSpec == Spec /\ WF_vars(Reader) /\ WF_vars(Writer)

-----------------------------------------------------------------------------
(* Properties *)

\* What a header in the command queue says of the ring.
HeaderType == [reads : Seq(Item), streamed : BOOLEAN, end : BOOLEAN, offset : Pos]

\* Where the writer is within a write.
Deciding == {"overwrite", "testFlag", "testPos", "wait", "withdraw", "setFlag"}
InWrite == {"position", "write"} \union Deciding

\* The two ends' steps, and what they write and read.
Contents ==
  /\ load \in Workload
  /\ wpc \in {"idle", "next", "exit"} \union InWrite
  /\ rpc \in {"idle", "read", "wrapPos", "wrapFlag", "release", "testExpected", "testReset",
              "clearExpected", "signal", "chunk", "outOfStep"}
  /\ cmd \in Command /\ at \in 1 .. Len(cmd.writes) + 1
  /\ headers \in Seq(HeaderType) /\ reads \in Seq(Item)

\* Their positions in the ring, the shared fields, and the words and the flags
\* either of them keeps.
Positions ==
  /\ wpos \in Pos /\ rpos \in Pos /\ start \in Pos \union {-1}
  /\ serverPos \in Pos /\ serverCount \in Pos /\ readEnd \in Pos
  /\ expectedPos \in -1 .. Size - 2
  /\ semaphore \in {0, 1} /\ unread \subseteq Pos /\ held \subseteq Pos
  /\ {headerPushed, lapBehind, again, resetRequired, streamed, ended} \subseteq BOOLEAN

\* Every variable has its type: positions and fields stay within the ring, the
\* command queue carries well-formed headers, and neither end's next write or
\* read is past the end of its command.
TypeOK == Contents /\ Positions

\* "The writer protects unread data": a word is never written while the reader
\* has not read what it held, whichever lap the two are on.
UnreadProtected == wpc = "write" => WordsOf(wpos, W) \intersect unread = {}

\* The reader reads words that are written and only those of its command: it
\* derives the positions from the sizes alone, and meets the published end.
ReaderInStep ==
  /\ rpc # "outOfStep"
  /\ rpc = "read" /\ reads # <<>> /\ ~AllPublishedRead =>
       WordsOf(rpos, Unit) \subseteq unread

\* A streamed command never runs out of buffer, however much data it carries.
StreamsAlwaysFit == cmd.streamable => wpc # "exit"

\* "The pointer stays valid until the command's data has been read to its end."
PointersValid ==
  reads # <<>> /\ wpc = "write" => WordsOf(wpos, W) \intersect held = {}

\* A command that was begun is sent: the writer never waits forever for space
\* that the reader has released.
EveryCommandSent == (wpc # "idle") ~> (wpc = "idle")
=============================================================================
