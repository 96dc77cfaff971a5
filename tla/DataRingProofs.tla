--------------------------- MODULE DataRingProofs ---------------------------
(***************************************************************************)
(* The safety of DataRing, for every size of the ring, every set of        *)
(* commands and every capacity of the command queue.                       *)
(***************************************************************************)
EXTENDS DataRing, TLAPS

-----------------------------------------------------------------------------
(* Types *)

Types ==
  /\ Positions
  /\ load \in Workload
  /\ wpc \in {"idle", "next", "exit"} \union InWrite
  /\ rpc \in {"idle", "read", "wrapPos", "wrapFlag", "release", "testExpected", "testReset",
              "clearExpected", "signal", "chunk", "outOfStep"}
  /\ cmd \in Command /\ at \in 1 .. Len(cmd.writes) + 1
  /\ cmd.streamable =>
       /\ 2 * MaxItem + 2 <= Size
       /\ \A k \in 1 .. Len(cmd.writes) : cmd.writes[k].words <= MaxItem + 1
  /\ wpc # "idle" => start \in Pos
  /\ wpc \in InWrite => at <= Len(cmd.writes)
  /\ headers \in Seq(HeaderType) /\ reads \in Seq(Item)

-----------------------------------------------------------------------------
(* The writer's own positions *)

\* A write passes the ring's last word.
Laps(x, i) == x + i.words >= Size

\* A streamable command's unpublished part is at most two items and a skipped tail.
Small ==
  cmd.streamable =>
    /\ wpc # "exit"
    /\ wpc # "idle" => Written <= 2 * MaxItem + 1
    /\ wpc \in InWrite => Written = 0 \/ Written + W.words <= MaxItem

-----------------------------------------------------------------------------
(* The inductive invariant *)

\* The items that are written and not read, and those that the commands begun have
\* still to write, are q[r], q[r + 1], ...; the item at w is the first not written.
\* Item k is at p[k], in the lap l[k] of the ring.  The reader's published position
\* is in lap s.

Before(p, l, i, k) == l[i] < l[k] \/ (l[i] = l[k] /\ p[i] < p[k])

\* The items lie one behind the other, between the reader's published position and
\* one length of the ring after it.
Lies(q, p, l, r, w, s) ==
  /\ \A k \in r .. w - 1 :
       /\ p[k + 1] = After(p[k], q[k])
       /\ Laps(p[k], q[k]) => l[k + 1] = l[k] + 1
       /\ ~Laps(p[k], q[k]) => l[k + 1] = l[k]
       /\ q[k].blob /\ Laps(p[k], q[k]) => p[k + 1] < p[k]
  /\ \A i, k \in r .. w : i < k => Before(p, l, i, k)
  /\ s < l[r] \/ (s = l[r] /\ serverPos <= p[r])
  /\ l[w] <= s \/ (l[w] = s + 1 /\ p[w] <= serverPos)

\* They go from the reader to the writer, and their words are the unread ones.
Path(q, p, l, r, w, s) ==
  /\ Lies(q, p, l, r, w, s)
  /\ p[r] = rpos /\ p[w] = wpos
  /\ unread = UNION {WordsOf(p[k], q[k]) : k \in r .. w - 1}

\* The reader's position is in the published lap until it publishes its wrap; the
\* flag says that the writer is a lap ahead.
Ahead == wpc = "write" /\ Laps(wpos, W)
Room(l, r, w, s) ==
  /\ l[r] = IF rpc = "wrapPos" THEN s + 1 ELSE s
  /\ resetRequired = TRUE <=> (l[w] = s + 1 \/ rpc = "wrapFlag" \/ Ahead)
  /\ rpc = "wrapFlag" => l[w] = s /\ ~Ahead /\ ~load.wrapAtOnce

\* Header j ends at item b[j]; up to it, the handlers read as far as item d[j], and
\* o[j] says that more chunks follow.  The reader took h headers of n.
Link(q, p, b, d, o, i, j, g) ==
  /\ g.offset = p[b[j]]
  /\ o[j] = TRUE <=> g.streamed /\ ~g.end
  /\ d[j] = d[i] + Len(g.reads)
  /\ \A k \in 1 .. Len(g.reads) : q[d[i] + k - 1] = g.reads[k]
  /\ o[i] = TRUE => g.streamed /\ g.reads = <<>>
  /\ o[i] = FALSE => ~g.end
  /\ g.streamed => \A k \in b[i] .. b[j] - 1 : p[k] # p[b[j]]
Chunks(q, p, b, d, o, r, w, h, n) ==
  /\ n = h + Len(headers)
  /\ r <= b[h] /\ b[n] <= w
  /\ \A i, j \in h .. n : i <= j => b[i] <= b[j] /\ d[i] <= d[j]
  /\ \A j \in h .. n : b[j] <= d[j] /\ (o[j] = FALSE => b[j] = d[j])
  /\ \A j \in 1 .. Len(headers) : Link(q, p, b, d, o, h + j - 1, h + j, headers[j])

\* What the reader knows of the command it reads.
Reading(q, p, b, d, o, r, h) ==
  /\ readEnd = p[b[h]]
  /\ o[h] = TRUE <=> ReadMore
  /\ d[h] = r + Len(reads)
  /\ \A k \in 1 .. Len(reads) : q[r + k - 1] = reads[k]
  /\ rpc \notin {"read", "wrapPos", "wrapFlag"} => r = b[h]
  /\ rpc = "idle" => ~ReadMore
  /\ rpc = "chunk" => ReadMore
  /\ rpc # "outOfStep"
  /\ streamed => \A i \in r .. b[h] - 1 : p[i] # p[b[h]]

\* What the writer has of its command is sent up to the batch's start.
Writing(q, p, l, b, d, o, w, n) ==
  /\ wpc = "idle" => b[n] = w /\ o[n] = FALSE
  /\ wpc # "idle" =>
       /\ start = p[b[n]]
       /\ o[n] = TRUE <=> headerPushed
       /\ headerPushed => cmd.streamable /\ d[n] + at = w + Len(cmd.writes) + 1
       /\ ~headerPushed => d[n] + at = w + 1
       /\ \A k \in 1 .. Len(cmd.writes) : k >= at \/ ~headerPushed => q[w + k - at] = cmd.writes[k]
       /\ cmd.streamable => l[w] = l[b[n]] \/ wpos < start

\* What the writer knows when it decides that it may write.
Reached(l, b, n, s) ==
  /\ l[b[n]] = s /\ serverPos = start
  /\ BatchWrapped \/ ~resetRequired
Fits(l, w, s) ==
  /\ Laps(wpos, W) => l[w] = s /\ After(wpos, W) <= serverPos
  /\ ~Laps(wpos, W) /\ l[w] = s + 1 => wpos + W.words <= serverPos
Decides(l, b, w, n, s) ==
  /\ wpc \in {"position"} \union Deciding => lapBehind \/ ~resetRequired
  /\ wpc \in {"write"} \union Deciding => ~ReachesBatchStart
  /\ wpc = "testPos" => BatchWrapped \/ ~resetRequired
  /\ wpc = "withdraw" => Reached(l, b, n, s)
  /\ wpc = "setFlag" => Laps(wpos, W) /\ (Wraps => ~resetRequired)
  /\ wpc \in {"setFlag", "write"} => Fits(l, w, s)

Safe(q, p, l, b, d, o, r, w, h, n, s) ==
  /\ r <= w /\ h <= n
  /\ Path(q, p, l, r, w, s)
  /\ Room(l, r, w, s)
  /\ Chunks(q, p, b, d, o, r, w, h, n)
  /\ Reading(q, p, b, d, o, r, h)
  /\ Writing(q, p, l, b, d, o, w, n)
  /\ Decides(l, b, w, n, s)

Witnessed ==
  \E q \in [Nat -> Item], p \in [Nat -> Pos], l, b, d \in [Nat -> Nat], o \in [Nat -> BOOLEAN],
     r, w, h, n, s \in Nat : Safe(q, p, l, b, d, o, r, w, h, n, s)

IndInv == Types /\ Small /\ Witnessed

\* The runs in which the protocol does what it is for: no wait for space is given up,
\* and where the two stores of noteReadWrap are apart, no single word ends at the
\* ring's last word.
Calm == ~Impatient /\ (wpc = "setFlag" => load.wrapAtOnce \/ ~EndsAtQueueEnd)

-----------------------------------------------------------------------------
(* Positions and words *)

\* The remainders taken of numbers below twice the ring's size.
LEMMA Remainder ==
  ASSUME NEW y \in 0 .. 2 * Size - 1
  PROVE  /\ y < Size => y % Size = y
         /\ y >= Size => y % Size = y - Size
<1>1. Size \in Nat \ {0}
  BY RingAssumption
<1>2. CASE y < Size
  BY <1>1, <1>2
<1>3. CASE y >= Size
  <2>1. PICK z \in 0 .. Size - 1 : z = y - Size
    BY <1>1, <1>3
  <2>2. z % Size = z
    BY <1>1
  <2>3. (z + Size) % Size = z % Size
    BY <1>1
  <2> QED
    BY <1>1, <1>3, <2>1, <2>2, <2>3
<1> QED
  BY <1>1, <1>2, <1>3

\* Where the bytes of a blob start.
LEMMA BlobStarts ==
  ASSUME NEW x \in Pos, NEW i \in Item
  PROVE  /\ ~Laps(x, i) => BlobStart(x, i) = x + 1
         /\ Laps(x, i) => BlobStart(x, i) = 0
<1>0. Size \in Nat \ {0, 1}
  BY RingAssumption
<1>1. i.words \in 1 .. Size /\ x \in 0 .. Size - 1
  BY DEF Item, Pos
<1>2. x + 1 < Size => (x + 1) % Size = x + 1
  BY <1>0, <1>1, Remainder
<1>3. x + 1 >= Size => (x + 1) % Size = 0
  BY <1>0, <1>1, Remainder
<1> QED
  BY <1>0, <1>1, <1>2, <1>3 DEF BlobStart, Laps

\* Where a write ends.
LEMMA AfterIs ==
  ASSUME NEW x \in Pos, NEW i \in Item
  PROVE  /\ After(x, i) \in Pos
         /\ ~Laps(x, i) => After(x, i) = x + i.words
         /\ Laps(x, i) /\ ~i.blob => After(x, i) = x + i.words - Size
         /\ Laps(x, i) /\ i.blob => After(x, i) = i.words - 1
<1>0. Size \in Nat \ {0, 1}
  BY RingAssumption
<1>1. i.words \in 1 .. Size /\ x \in 0 .. Size - 1
  BY DEF Item, Pos
<1>2. x + i.words \in 0 .. 2 * Size - 1
  BY <1>0, <1>1
<1>3. CASE i.blob
  BY <1>0, <1>1, <1>3, BlobStarts DEF After, Pos, Laps
<1>4. CASE ~i.blob
  <2>1. After(x, i) = (x + i.words) % Size
    BY <1>4 DEF After
  <2> QED
    BY <1>0, <1>1, <1>2, <1>4, <2>1, Remainder, SMTT(30) DEF Pos, Laps
<1> QED
  BY <1>3, <1>4

\* Which words a write takes.
LEMMA WordsAre ==
  ASSUME NEW x \in Pos, NEW i \in Item, NEW y
  PROVE  y \in WordsOf(x, i) <=>
           /\ y \in Pos
           /\ ~Laps(x, i) => x <= y /\ y < x + i.words
           /\ Laps(x, i) /\ i.blob => y = x \/ y < i.words - 1
           /\ Laps(x, i) /\ ~i.blob => x <= y \/ y < x + i.words - Size
<1>0. Size \in Nat \ {0, 1}
  BY RingAssumption
<1>1. i.words \in 1 .. Size /\ x \in 0 .. Size - 1
  BY DEF Item, Pos
<1>2. CASE i.blob
  <2>1. WordsOf(x, i) = {x} \union BlobStart(x, i) .. BlobStart(x, i) + i.words - 2
    BY <1>2 DEF WordsOf, BlobWords
  <2> QED
    BY <1>0, <1>1, <1>2, <2>1, BlobStarts DEF Pos, Laps
<1>3. CASE ~i.blob
  <2>1. y \in WordsOf(x, i) <=> \E k \in 0 .. i.words - 1 : y = (x + k) % Size
    BY <1>3 DEF WordsOf
  <2>2. \A k \in 0 .. i.words - 1 :
          /\ x + k < Size => (x + k) % Size = x + k
          /\ x + k >= Size => (x + k) % Size = x + k - Size
    BY <1>0, <1>1, Remainder
  <2>3. ASSUME NEW k \in 0 .. i.words - 1, y = (x + k) % Size
        PROVE  /\ y \in Pos
               /\ ~Laps(x, i) => x <= y /\ y < x + i.words
               /\ Laps(x, i) => x <= y \/ y < x + i.words - Size
    BY <1>0, <1>1, <2>2, <2>3 DEF Pos, Laps
  <2>4. ASSUME y \in Pos, x <= y, y < x + i.words
        PROVE  \E k \in 0 .. i.words - 1 : y = (x + k) % Size
    <3>1. y - x \in 0 .. i.words - 1 /\ y < Size /\ y \in Nat
      BY <1>0, <1>1, <2>4 DEF Pos
    <3>2. PICK k \in 0 .. i.words - 1 : k = y - x
      BY <3>1
    <3>3. x + k = y
      BY <1>1, <3>1, <3>2
    <3> QED
      BY <3>1, <3>3, <2>2
  <2>5. ASSUME y \in Pos, y < x + i.words - Size
        PROVE  \E k \in 0 .. i.words - 1 : y = (x + k) % Size
    <3>1. y + Size - x \in 0 .. i.words - 1 /\ y \in Nat
      BY <1>0, <1>1, <2>5 DEF Pos
    <3>2. PICK k \in 0 .. i.words - 1 : k = y + Size - x
      BY <3>1
    <3>3. x + k >= Size /\ x + k - Size = y
      BY <1>0, <1>1, <3>1, <3>2
    <3> QED
      BY <3>3, <2>2
  <2>6. y \in Pos /\ x <= y /\ Laps(x, i) => y < x + i.words
    BY <1>0, <1>1 DEF Pos, Laps
  <2> QED
    BY <1>3, <2>1, <2>3, <2>4, <2>5, <2>6
<1> QED
  BY <1>2, <1>3

\* A write of several single words is read word by word.
Splits(x, i, f, g) ==
  /\ After(After(x, f), g) = After(x, i)
  /\ Laps(x, f) <=> After(x, f) = 0
  /\ Laps(x, i) <=> Laps(x, f) \/ Laps(After(x, f), g)
  /\ ~ (Laps(x, f) /\ Laps(After(x, f), g))
  /\ WordsOf(x, f) = {x}
  /\ WordsOf(After(x, f), g) = WordsOf(x, i) \ {x}

\* What is left of a write after its first word is the write without that word.
LEMMA FirstWord ==
  ASSUME NEW x \in Pos, NEW i \in Item, ~i.blob, i.words # 1,
         NEW f \in Item, ~f.blob, f.words = 1,
         NEW g \in Item, ~g.blob, g.words = i.words - 1
  PROVE  Splits(x, i, f, g)
<1>0. Size \in Nat \ {0, 1}
  BY RingAssumption
<1>1. i.words \in 2 .. Size /\ x \in 0 .. Size - 1
  BY <1>0 DEF Item, Pos
<1>2. f.words = 1 /\ ~f.blob /\ g.words = i.words - 1 /\ ~g.blob
  OBVIOUS
<1>3. PICK a \in Pos : a = After(x, f)
  BY AfterIs
<1>4. /\ x + 1 < Size => a = x + 1
      /\ x + 1 >= Size => a = x + 1 - Size
  <2>1. /\ ~Laps(x, f) => a = x + f.words
        /\ Laps(x, f) => a = x + f.words - Size
    BY <1>2, <1>3, AfterIs
  <2> QED
    BY <1>0, <1>1, <1>2, <2>1 DEF Laps
<1>5. a \in 0 .. Size - 1
  BY DEF Pos
<1>6. /\ Laps(x, f) <=> After(x, f) = 0
      /\ Laps(x, i) <=> Laps(x, f) \/ Laps(a, g)
      /\ ~ (Laps(x, f) /\ Laps(a, g))
  BY <1>0, <1>1, <1>2, <1>3, <1>4 DEF Laps
<1>7. After(a, g) = After(x, i)
  <2>1. /\ Laps(a, g) => After(a, g) = a + g.words - Size
        /\ ~Laps(a, g) => After(a, g) = a + g.words
    BY <1>2, AfterIs
  <2>2. /\ Laps(x, i) => After(x, i) = x + i.words - Size
        /\ ~Laps(x, i) => After(x, i) = x + i.words
    BY AfterIs
  <2> QED
    BY <1>0, <1>1, <1>2, <1>4, <1>5, <2>1, <2>2 DEF Laps
<1>8. \A y : y \in WordsOf(x, f) <=> y = x
  <2> SUFFICES ASSUME NEW y PROVE y \in WordsOf(x, f) <=> y = x
    OBVIOUS
  <2>1. y \in WordsOf(x, f) <=>
           /\ y \in Pos
           /\ ~Laps(x, f) => x <= y /\ y < x + f.words
           /\ Laps(x, f) /\ f.blob => y = x \/ y < f.words - 1
           /\ Laps(x, f) /\ ~f.blob => x <= y \/ y < x + f.words - Size
    BY WordsAre
  <2> QED
    BY <1>0, <1>1, <1>2, <2>1 DEF Pos, Laps
<1>9. \A y : y \in WordsOf(a, g) <=> y \in WordsOf(x, i) \ {x}
  <2> SUFFICES ASSUME NEW y PROVE y \in WordsOf(a, g) <=> y \in WordsOf(x, i) \ {x}
    OBVIOUS
  <2>1. y \in WordsOf(a, g) <=>
           /\ y \in Pos
           /\ ~Laps(a, g) => a <= y /\ y < a + g.words
           /\ Laps(a, g) /\ g.blob => y = a \/ y < g.words - 1
           /\ Laps(a, g) /\ ~g.blob => a <= y \/ y < a + g.words - Size
    BY WordsAre
  <2>2. y \in WordsOf(x, i) <=>
           /\ y \in Pos
           /\ ~Laps(x, i) => x <= y /\ y < x + i.words
           /\ Laps(x, i) /\ i.blob => y = x \/ y < i.words - 1
           /\ Laps(x, i) /\ ~i.blob => x <= y \/ y < x + i.words - Size
    BY WordsAre
  <2> QED
    BY <1>0, <1>1, <1>2, <1>4, <1>5, <2>1, <2>2 DEF Pos, Laps
<1> QED
  BY <1>3, <1>6, <1>7, <1>8, <1>9 DEF Splits

-----------------------------------------------------------------------------
(* The types *)

\* The fields of items, commands and headers.
LEMMA ItemsAre ==
  /\ \A i \in Item : i.words \in 1 .. Size /\ i.blob \in BOOLEAN
  /\ \A i \in Item : [i EXCEPT !.words = 1] \in Item
  /\ \A i \in Item : i.words # 1 => [i EXCEPT !.words = i.words - 1] \in Item
  /\ \A c \in Command : c.writes \in Seq(Item) /\ c.streamable \in BOOLEAN
  /\ \A g \in HeaderType : /\ g.reads \in Seq(Item) /\ g.offset \in Pos
                           /\ g.streamed \in BOOLEAN /\ g.end \in BOOLEAN
BY RingAssumption DEF Item, Command, HeaderType

\* The elements of a sequence.
LEMMA Lengths ==
  /\ \A x \in Seq(Item) : /\ Len(x) \in Nat /\ (Len(x) = 0 => x = <<>>)
                            /\ \A k \in 1 .. Len(x) : x[k] \in Item
  /\ \A x \in Seq(HeaderType) : Len(x) \in Nat /\ \A k \in 1 .. Len(x) : x[k] \in HeaderType
OBVIOUS

\* The rest of a sequence.
LEMMA Tails ==
  ASSUME NEW T, NEW x \in Seq(T), x # <<>>
  PROVE  /\ Len(Tail(x)) \in Nat /\ Len(x) = Len(Tail(x)) + 1
         /\ Head(x) = x[1] /\ Tail(x) \in Seq(T)
         /\ \A j \in 1 .. Len(Tail(x)) : Tail(x)[j] = x[j + 1]
OBVIOUS

\* A sequence with another first element.
LEMMA Shrinks ==
  ASSUME NEW T, NEW x \in Seq(T), x # <<>>, NEW g \in T
  PROVE  /\ Len(<<g>> \o Tail(x)) = Len(x)
         /\ (<<g>> \o Tail(x))[1] = g
         /\ \A j \in 2 .. Len(x) : (<<g>> \o Tail(x))[j] = x[j]
OBVIOUS

\* A header that is pushed, and the item that is written or read next.
LEMMA NextItems ==
  ASSUME Types
  PROVE  /\ at <= Len(cmd.writes) => W \in Item
         /\ reads # <<>> =>
              /\ R \in Item /\ Unit \in Item /\ Tail(reads) \in Seq(Item)
              /\ Len(reads) >= 1 /\ R = reads[1]
              /\ R.blob \/ R.words = 1 => Unit = R
              /\ ~R.blob => Unit = [R EXCEPT !.words = 1]
              /\ R # Unit => /\ ~R.blob /\ R.words # 1
                             /\ [R EXCEPT !.words = R.words - 1] \in Item
         /\ \A v \in BOOLEAN, e \in BOOLEAN : Header(v, e) \in HeaderType
         /\ headers # <<>> => Head(headers) \in HeaderType /\ Tail(headers) \in Seq(HeaderType)
<1>1. at <= Len(cmd.writes) => W \in Item
  <2>1. cmd.writes \in Seq(Item) /\ at \in 1 .. Len(cmd.writes) + 1
    BY ItemsAre DEF Types
  <2>2. Len(cmd.writes) \in Nat
    BY <2>1
  <2> QED
    BY <2>1, <2>2 DEF W
<1>2. ASSUME reads # <<>>
      PROVE  /\ R \in Item /\ Unit \in Item /\ Tail(reads) \in Seq(Item)
             /\ Len(reads) >= 1 /\ R = reads[1]
             /\ R.blob \/ R.words = 1 => Unit = R
             /\ ~R.blob => Unit = [R EXCEPT !.words = 1]
             /\ R # Unit => /\ ~R.blob /\ R.words # 1
                            /\ [R EXCEPT !.words = R.words - 1] \in Item
  <2>1. reads \in Seq(Item) /\ Len(reads) \in Nat /\ Len(reads) >= 1
    BY <1>2 DEF Types
  <2>2. R \in Item /\ Tail(reads) \in Seq(Item) /\ R = reads[1]
    BY <1>2, <2>1 DEF R
  <2>3. R.words = 1 => [R EXCEPT !.words = 1] = R
    BY <2>2 DEF Item
  <2>4. R.blob => Unit = R
    BY DEF Unit
  <2>5. ~R.blob => Unit = [R EXCEPT !.words = 1]
    BY DEF Unit
  <2>6. Unit \in Item
    BY <2>2, <2>4, <2>5, ItemsAre
  <2>7. R # Unit => ~R.blob /\ R.words # 1
    BY <2>3, <2>4, <2>5
  <2>8. R # Unit => [R EXCEPT !.words = R.words - 1] \in Item
    BY <2>2, <2>7, ItemsAre
  <2> QED
    BY <2>1, <2>2, <2>3, <2>4, <2>5, <2>6, <2>7, <2>8
<1>3. ASSUME NEW v \in BOOLEAN, NEW e \in BOOLEAN PROVE Header(v, e) \in HeaderType
  <2>1. cmd.writes \in Seq(Item) /\ wpos \in Pos
    BY ItemsAre DEF Types, Positions
  <2>2. (IF headerPushed THEN <<>> ELSE cmd.writes) \in Seq(Item)
    BY <2>1
  <2> QED
    BY <1>3, <2>1, <2>2 DEF Header, HeaderType
<1>4. headers # <<>> => Head(headers) \in HeaderType /\ Tail(headers) \in Seq(HeaderType)
  BY DEF Types
<1> QED
  BY <1>1, <1>2, <1>3, <1>4

\* The types hold at the start.
LEMMA InitTypes == Init => Types
<1> SUFFICES ASSUME Init PROVE Types
  OBVIOUS
<1>1. Size \in Nat \ {0, 1}
  BY RingAssumption
<1>2. Positions
  <2>1. 0 \in Pos /\ -1 \in -1 .. Size - 2
    BY <1>1 DEF Pos
  <2>2. {headerPushed, lapBehind, again, resetRequired, streamed, ended} \subseteq BOOLEAN
    BY DEF Init
  <2> QED
    BY <2>1, <2>2 DEF Init, Positions
<1>3. cmd \in Command /\ at \in 1 .. Len(cmd.writes) + 1 /\ ~cmd.streamable
  BY DEF Init, NoCommand, Command
<1>4. headers \in Seq(HeaderType) /\ reads \in Seq(Item)
  BY DEF Init
<1>5. load \in Workload /\ wpc = "idle" /\ rpc = "idle"
  BY DEF Init
<1>6. wpc \notin InWrite
  BY <1>5 DEF InWrite, Deciding
<1> QED
  BY <1>2, <1>3, <1>4, <1>5, <1>6 DEF Types

\* The writer's steps, but for those that write or send.
LEMMA WriterTypes ==
  ASSUME Types, UNCHANGED load,
         ReadFlag \/ ReadPosition \/ Announce \/ TestFlag \/ TestPos \/ Waits \/ Withdraw \/ SetFlag
  PROVE  Types'
<1>0. Size \in Nat \ {0, 1}
  BY RingAssumption
<1>1. /\ UNCHANGED <<wpos, rpos, start, serverPos, readEnd, unread, held, cmd, at, headers, reads,
                     headerPushed, streamed, ended, rpc>>
      /\ wpc' \in InWrite \union {"exit"} /\ wpc \in {"next"} \union InWrite
      /\ wpc' \in InWrite => at <= Len(cmd.writes)
  BY DEF Types, ReadFlag, ReadPosition, Announce, TestFlag, TestPos, Waits, Withdraw, SetFlag, AfterWaits,
         GotoW, writer, reader, fields, InWrite, Deciding
<1>2. /\ serverCount' \in {serverCount, serverPos}
      /\ expectedPos' \in {expectedPos, -1, start - 1}
      /\ semaphore' \in {semaphore, 0}
  BY DEF ReadFlag, ReadPosition, Announce, TestFlag, TestPos, Waits, Withdraw, SetFlag, writer, reader, fields
<1>3. lapBehind' \in BOOLEAN /\ again' \in BOOLEAN /\ resetRequired' \in BOOLEAN
  BY DEF Types, Positions, ReadFlag, ReadPosition, Announce, TestFlag, TestPos, Waits, Withdraw, SetFlag,
         writer, reader, fields
<1>4. start \in Pos
  BY <1>1 DEF Types, InWrite, Deciding
<1>5. expectedPos' \in -1 .. Size - 2
  BY <1>0, <1>2, <1>4, SMTT(30) DEF Types, Positions, Pos
<1>6. Positions'
  BY <1>1, <1>2, <1>3, <1>5 DEF Types, Positions, Pos
<1> QED
  BY <1>1, <1>4, <1>6 DEF Types

\* The writer's steps that begin, write or send.
LEMMA SendTypes ==
  ASSUME Types,
         \/ \E c \in load.commands : Begin(c) /\ UNCHANGED load
         \/ UNCHANGED load /\ (Publish \/ Write \/ Finish)
  PROVE  Types'
<1>0. Size \in Nat \ {0, 1} /\ load' = load
  BY RingAssumption
<1>1. ASSUME NEW c \in load.commands, Begin(c), UNCHANGED load PROVE Types'
  <2>1. /\ c \in Command
        /\ c.streamable =>
             /\ 2 * MaxItem + 2 <= Size
             /\ \A k \in 1 .. Len(c.writes) : c.writes[k].words <= MaxItem + 1
    BY RingAssumption, StreamAssumption DEF Types, Command, Item
  <2>2. /\ cmd' = c /\ at' = 1 /\ start' = wpos /\ headerPushed' = FALSE
        /\ wpc' = "next"
        /\ UNCHANGED <<wpos, rpos, serverPos, serverCount, expectedPos, semaphore, readEnd, unread, held,
                       headers, reads, lapBehind, again, resetRequired, streamed, ended, rpc, load>>
    BY <1>1 DEF Begin, GotoW, reader, fields
  <2>3. start' \in Pos
    BY <2>2 DEF Types, Positions
  <2>4. Positions'
    BY <2>2, <2>3 DEF Types, Positions
  <2>5. at' \in 1 .. Len(cmd'.writes) + 1
    BY <2>1, <2>2, ItemsAre
  <2>6. wpc' \notin InWrite
    BY <2>2 DEF InWrite, Deciding
  <2> QED
    BY <2>1, <2>2, <2>3, <2>4, <2>5, <2>6 DEF Types
<1>2. ASSUME NEW v \in BOOLEAN, NEW e \in BOOLEAN, Push(Header(v, e)) PROVE headers' \in Seq(HeaderType)
  BY <1>2, NextItems DEF Push, Types
<1>3. ASSUME Publish, UNCHANGED load PROVE Types'
  <2>1. headers' \in Seq(HeaderType)
    BY <1>2, <1>3 DEF Publish
  <2>2. /\ headerPushed' = TRUE /\ start' = wpos /\ wpc = "next"
        /\ UNCHANGED <<wpc, wpos, rpos, serverPos, serverCount, expectedPos, semaphore, readEnd, unread,
                       held, cmd, at, reads, lapBehind, again, resetRequired, streamed, ended, rpc, load>>
    BY <1>3 DEF Publish, reader, fields
  <2>3. Positions'
    BY <2>2 DEF Types, Positions
  <2>4. start' \in Pos
    BY <2>2 DEF Types, Positions
  <2> QED
    BY <2>1, <2>2, <2>3, <2>4 DEF Types
<1>4. ASSUME Write, UNCHANGED load PROVE Types'
  <2>1. /\ wpc = "write" /\ wpc' = "next" /\ wpos' = After(wpos, W) /\ at' = at + 1
        /\ unread' = unread \union WordsOf(wpos, W)
        /\ UNCHANGED <<rpos, start, serverPos, serverCount, expectedPos, semaphore, readEnd, held, headers,
                       cmd, reads, headerPushed, lapBehind, again, resetRequired, streamed, ended, rpc, load>>
    BY <1>4 DEF Write, GotoW, reader, fields
  <2>2. at <= Len(cmd.writes) /\ wpos \in Pos
    BY <2>1 DEF Types, Positions, InWrite, Deciding
  <2>3. W \in Item
    BY <2>2, NextItems
  <2>4. wpos' \in Pos
    BY <2>1, <2>2, <2>3, AfterIs
  <2>5. unread' \subseteq Pos
    BY <2>1, <2>2, <2>3, WordsAre DEF Types, Positions
  <2>6. Positions'
    BY <2>1, <2>4, <2>5 DEF Types, Positions
  <2>7. at' \in 1 .. Len(cmd'.writes) + 1
    BY <2>1, <2>2, ItemsAre DEF Types
  <2>8. wpc' \notin InWrite /\ start' \in Pos
    BY <2>1 DEF InWrite, Deciding, Types
  <2> QED
    BY <2>1, <2>6, <2>7, <2>8 DEF Types
<1>5. ASSUME Finish, UNCHANGED load PROVE Types'
  <2>1. headers' \in Seq(HeaderType)
    BY <1>2, <1>5 DEF Finish, Types, Positions
  <2>2. /\ start' = -1 /\ wpc' = "idle"
        /\ UNCHANGED <<wpos, rpos, serverPos, serverCount, expectedPos, semaphore, readEnd, unread, held,
                       cmd, at, reads, headerPushed, lapBehind, again, resetRequired, streamed, ended, rpc,
                       load>>
    BY <1>5 DEF Finish, GotoW, reader, fields
  <2>3. Positions'
    BY <2>2 DEF Types, Positions
  <2>4. wpc' \notin InWrite
    BY <2>2 DEF InWrite, Deciding
  <2> QED
    BY <2>1, <2>2, <2>3, <2>4 DEF Types
<1> QED
  BY <1>1, <1>3, <1>4, <1>5

\* The reader's steps.
LEMMA ReaderTypes == ASSUME Types, Reader PROVE Types'
<1>0. Size \in Nat \ {0, 1}
  BY RingAssumption
<1>1. UNCHANGED <<load, writer, wpc, wpos, start, cmd, at, headerPushed, lapBehind, serverCount, again>>
  BY DEF Reader, Receive, Pull, WrapPos, WrapFlag, Release, ReleasePos, TestExpected, TestReset,
         ClearExpected, Signal, NextChunk, writer
<1>2. CASE Receive \/ NextChunk
  <2>1. Head(headers) \in HeaderType /\ Tail(headers) \in Seq(HeaderType)
    BY <1>2, NextItems DEF Receive, NextChunk
  <2>2. /\ headers' = Tail(headers) /\ readEnd' = Head(headers).offset /\ rpc' = "read"
        /\ UNCHANGED <<rpos, serverPos, expectedPos, semaphore, resetRequired, unread, held>>
    BY <1>2 DEF Receive, NextChunk, GotoR, fields
  <2>3. readEnd' \in Pos
    BY <2>1, <2>2, ItemsAre
  <2>4. streamed' \in BOOLEAN /\ ended' \in BOOLEAN
    BY <1>2, <2>1, ItemsAre DEF Receive, NextChunk, Types, Positions
  <2>5. reads' \in Seq(Item)
    BY <1>2, <2>1, ItemsAre DEF Receive, NextChunk, Types
  <2>6. Positions'
    BY <1>1, <2>2, <2>3, <2>4 DEF Types, Positions
  <2> QED
    BY <1>1, <2>1, <2>2, <2>5, <2>6 DEF Types
<1>3. CASE Pull
  <2>1. /\ reads # <<>>
        /\ unread' = unread \ WordsOf(rpos, Unit) /\ rpos' = After(rpos, Unit)
        /\ rpc' \in {"wrapPos", "read"}
        /\ reads' = IF R = Unit THEN Tail(reads) ELSE <<[R EXCEPT !.words = R.words - 1]>> \o Tail(reads)
        /\ held' = IF R.blob /\ ~streamed THEN held \union BlobWords(rpos, R) ELSE held
        /\ UNCHANGED <<serverPos, expectedPos, semaphore, resetRequired, headers, streamed, ended, readEnd>>
    BY <1>3 DEF Pull, fields
  <2>2. R \in Item /\ Unit \in Item /\ Tail(reads) \in Seq(Item) /\ rpos \in Pos
    BY <2>1, NextItems DEF Types, Positions
  <2>3. reads' \in Seq(Item)
    <3>1. CASE R = Unit
      BY <2>1, <2>2, <3>1
    <3>2. CASE R # Unit
      <4>1. PICK i \in Item : i = [R EXCEPT !.words = R.words - 1]
        BY <2>1, <3>2, NextItems
      <4>2. reads' = <<i>> \o Tail(reads)
        BY <2>1, <3>2, <4>1
      <4> QED
        BY <2>2, <4>2
    <3> QED
      BY <3>1, <3>2
  <2>4. rpos' \in Pos
    BY <2>1, <2>2, AfterIs
  <2>5. held' \subseteq Pos
    <3>1. R.blob => BlobWords(rpos, R) \subseteq WordsOf(rpos, R)
      BY DEF WordsOf
    <3>2. WordsOf(rpos, R) \subseteq Pos
      BY <2>2, WordsAre
    <3> QED
      BY <2>1, <3>1, <3>2 DEF Types, Positions
  <2>6. Positions'
    BY <1>1, <2>1, <2>4, <2>5 DEF Types, Positions
  <2> QED
    BY <1>1, <2>1, <2>3, <2>6 DEF Types
<1>4. CASE Release \/ TestExpected \/ TestReset
  <2>1. /\ UNCHANGED <<rpos, serverPos, expectedPos, semaphore, resetRequired, unread, readEnd, headers,
                       reads, streamed, ended>>
        /\ held' \in {held, {}}
        /\ rpc' \in {"release", "outOfStep", "testReset", "chunk", "idle", "clearExpected"}
    BY <1>4 DEF Release, TestExpected, TestReset, GotoR, AfterRelease, fields
  <2>2. Positions'
    BY <1>1, <2>1 DEF Types, Positions
  <2> QED
    BY <1>1, <2>1, <2>2 DEF Types
<1>5. CASE WrapPos \/ WrapFlag \/ ReleasePos \/ ClearExpected \/ Signal
  <2>1. /\ UNCHANGED <<rpos, unread, readEnd, headers, reads, streamed, ended, held>>
        /\ serverPos' \in {serverPos, 0, rpos} /\ expectedPos' \in {expectedPos, -1}
        /\ semaphore' \in {semaphore, 1}
        /\ rpc' \in {"read", "wrapFlag", "testExpected", "signal", "chunk", "idle"}
    BY <1>5 DEF WrapPos, WrapFlag, ReleasePos, ClearExpected, Signal, GotoR, AfterRelease
  <2>2. resetRequired' \in BOOLEAN
    BY <1>5 DEF WrapPos, WrapFlag, ReleasePos, ClearExpected, Signal, Types, Positions
  <2>3. serverPos' \in Pos /\ expectedPos' \in -1 .. Size - 2 /\ semaphore' \in {0, 1}
    BY <1>0, <2>1, SMTT(30) DEF Types, Positions, Pos
  <2>4. Positions'
    BY <1>1, <2>1, <2>2, <2>3 DEF Types, Positions
  <2> QED
    BY <1>1, <2>1, <2>4 DEF Types
<1> QED
  BY <1>2, <1>3, <1>4, <1>5 DEF Reader

\* Each step keeps the types.
LEMMA StepTypes == ASSUME Types, [Next]_vars PROVE Types'
<1>1. ASSUME UNCHANGED vars PROVE Types'
  BY <1>1 DEF Types, Positions, vars, writer, reader, fields
<1>2. CASE Writer
  BY <1>2, WriterTypes, SendTypes DEF Writer
<1>3. CASE Reader
  BY <1>3, ReaderTypes
<1>4. CASE \E c \in load.commands : Begin(c) /\ UNCHANGED load
  BY <1>4, SendTypes
<1> QED
  BY <1>1, <1>2, <1>3, <1>4 DEF Next

-----------------------------------------------------------------------------
(* A streamable command's unpublished part *)

\* The numbers that syncDataQueue goes by.
LEMMA Numbers ==
  ASSUME Types, wpc \in InWrite
  PROVE  /\ Size \in Nat \ {0, 1} /\ MaxItem \in Nat \ {0}
         /\ wpos \in 0 .. Size - 1 /\ start \in 0 .. Size - 1 /\ W.words \in 1 .. Size
         /\ W \in Item /\ W.blob \in BOOLEAN
         /\ wpos >= start => Written = wpos - start
         /\ wpos < start => Written = wpos + Size - start
         /\ ~Wraps => ExpectedEnd = wpos + W.words - 1
         /\ Wraps /\ W.blob => ExpectedEnd = W.words - 1
         /\ Wraps /\ ~W.blob => ExpectedEnd = wpos + W.words - 1 - Size
         /\ W.blob => (Wraps <=> wpos + W.words >= Size)
         /\ ~W.blob => (Wraps <=> wpos + W.words - 1 >= Size)
         /\ EndsAtQueueEnd <=> ~W.blob /\ wpos + W.words = Size
         /\ Laps(wpos, W) <=> Wraps \/ EndsAtQueueEnd
         /\ Laps(wpos, W) <=> wpos + W.words >= Size
         /\ cmd.streamable => 2 * MaxItem + 2 <= Size /\ W.words <= MaxItem + 1
<1>1. /\ Size \in Nat \ {0, 1} /\ MaxItem \in Nat \ {0}
      /\ wpos \in 0 .. Size - 1 /\ start \in 0 .. Size - 1
  BY RingAssumption DEF Types, Positions, Pos, InWrite, Deciding
<1>2. at \in 1 .. Len(cmd.writes)
  BY ItemsAre DEF Types
<1>3. W \in Item
  BY <1>2, NextItems
<1>4. W.words \in 1 .. Size /\ W.blob \in BOOLEAN
  BY <1>3, ItemsAre
<1>5. cmd.streamable => 2 * MaxItem + 2 <= Size /\ W.words <= MaxItem + 1
  BY <1>2 DEF Types, W
<1>6. /\ wpos >= start => Written = wpos - start
      /\ wpos < start => Written = wpos + Size - start
  BY <1>1 DEF Written
<1>7. /\ W.blob => (Wraps <=> wpos + W.words >= Size)
      /\ ~W.blob => (Wraps <=> wpos + W.words - 1 >= Size)
  BY DEF Wraps, LastWord
<1>8. /\ ~Wraps => ExpectedEnd = wpos + W.words - 1
      /\ Wraps /\ W.blob => ExpectedEnd = W.words - 1
      /\ Wraps /\ ~W.blob => ExpectedEnd = wpos + W.words - 1 - Size
  <2>1. LastWord = wpos + W.words - 1
    BY DEF LastWord
  <2>2. /\ ~Wraps => ExpectedEnd = LastWord
        /\ Wraps /\ W.blob => ExpectedEnd = W.words - 1
        /\ Wraps /\ ~W.blob => ExpectedEnd = LastWord - Size
    BY Zenon DEF ExpectedEnd
  <2> QED
    BY <1>1, <1>4, <2>1, <2>2
<1>9. EndsAtQueueEnd <=> ~W.blob /\ wpos + W.words = Size
  <2>1. EndsAtQueueEnd <=> ~W.blob /\ wpos + W.words - 1 + 1 = Size
    BY DEF EndsAtQueueEnd, LastWord
  <2> QED
    BY <1>1, <1>4, <2>1
<1>10. Laps(wpos, W) <=> Wraps \/ EndsAtQueueEnd
  BY <1>1, <1>4, <1>7, <1>9 DEF Laps
<1> QED
  BY <1>1, <1>3, <1>4, <1>5, <1>6, <1>7, <1>8, <1>9, <1>10 DEF Laps

\* What is not published, after a step.
LEMMA WrittenAfter ==
  ASSUME NEW x \in 0 .. Size - 1, NEW y \in 0 .. Size - 1, wpos' = x, start' = y
  PROVE  /\ x >= y => Written' = x - y
         /\ x < y => Written' = x + Size - y
<1>1. Size \in Nat
  BY RingAssumption
<1>2. Written' = IF x >= y THEN x - y ELSE x + Size - y
  BY DEF Written
<1> QED
  BY <1>1, <1>2

\* A streamable command's item always fits, and leaves what fits.
LEMMA ItemFits ==
  ASSUME Types, wpc \in InWrite, cmd.streamable,
         Written <= 2 * MaxItem + 1, Written = 0 \/ Written + W.words <= MaxItem
  PROVE  /\ ~ReachesBatchStart /\ ~NeverFits
         /\ After(wpos, W) >= start => After(wpos, W) - start <= 2 * MaxItem + 1
         /\ After(wpos, W) < start => After(wpos, W) + Size - start <= 2 * MaxItem + 1
<1> USE Numbers
<1>1. W.words <= MaxItem + 1 /\ 2 * MaxItem + 2 <= Size
  OBVIOUS
<1>2. Written + W.words <= MaxItem + 1 /\ Written >= 0
  BY <1>1
<1>3. ~NeverFits
  BY <1>1, <1>2 DEF NeverFits
<1>4. CASE wpos >= start
  <2>1. ~BatchWrapped
    BY <1>4 DEF BatchWrapped
  <2>2. wpos - start + W.words <= MaxItem + 1
    BY <1>2, <1>4
  <2>3. Wraps => ExpectedEnd < start
    <3>1. CASE Wraps /\ W.blob
      BY <1>1, <2>2, <3>1, <1>4
    <3>2. CASE Wraps /\ ~W.blob
      BY <1>1, <2>2, <3>2, <1>4
    <3> QED
      BY <3>1, <3>2
  <2>4. ~ReachesBatchStart
    BY <2>1, <2>3 DEF ReachesBatchStart
  <2>5. After(wpos, W) >= start => After(wpos, W) - start <= 2 * MaxItem + 1
    BY <1>1, <1>4, <2>2, AfterIs DEF Laps, Pos
  <2>6. After(wpos, W) < start => After(wpos, W) + Size - start <= 2 * MaxItem + 1
    BY <1>1, <1>4, <2>2, AfterIs DEF Laps, Pos
  <2> QED
    BY <1>3, <2>4, <2>5, <2>6
<1>5. CASE wpos < start
  <2>1. BatchWrapped
    BY <1>5 DEF BatchWrapped
  <2>2. wpos + Size - start + W.words <= MaxItem + 1
    BY <1>2, <1>5
  <2>3. wpos + W.words < start
    BY <1>1, <2>2, <1>5
  <2>4. ~Wraps /\ ~Laps(wpos, W) /\ ExpectedEnd < start
    BY <2>3
  <2>5. ~ReachesBatchStart
    BY <2>1, <2>4 DEF ReachesBatchStart
  <2>6. After(wpos, W) = wpos + W.words
    BY <2>4, AfterIs DEF Pos
  <2> QED
    BY <1>1, <1>3, <1>5, <2>2, <2>3, <2>5, <2>6
<1> QED
  BY <1>4, <1>5

\* No command is begun.
LEMMA InitSmall == Init => Small
BY DEF Init, NoCommand, Small

\* Each step keeps the unpublished part small; none ends the program.
LEMMA StepSmall == ASSUME Types, Small, [Next]_vars PROVE Small'
<1>0. /\ Size \in Nat \ {0, 1} /\ MaxItem \in Nat \ {0} /\ wpos \in 0 .. Size - 1
      /\ Types'
  BY RingAssumption, StepTypes DEF Types, Positions, Pos
<1>1. ASSUME UNCHANGED writer PROVE Small'
  <2>1. Written' = Written /\ W' = W /\ wpc' = wpc /\ cmd' = cmd
    BY <1>1 DEF writer, Written, W
  <2> QED
    BY <2>1 DEF Small
<1>2. ASSUME wpc' = "next", start' = wpos', start' \in 0 .. Size - 1 PROVE Small'
  <2>1. Written' = 0
    <3>1. PICK x \in 0 .. Size - 1 : x = wpos'
      BY <1>2
    <3> QED
      BY <1>0, <1>2, <3>1, WrittenAfter
  <2>2. cmd'.streamable => 0 <= 2 * MaxItem + 1
    BY <1>0
  <2> QED
    BY <1>2, <2>1, <2>2 DEF Small, InWrite, Deciding
<1>3. ASSUME NEW c \in load.commands, Begin(c) PROVE Small'
  BY <1>0, <1>2, <1>3 DEF Begin, GotoW
<1>4. CASE Publish
  BY <1>0, <1>2, <1>4 DEF Publish
<1>5. CASE ReadFlag
  <2>1. /\ wpc = "next" /\ wpc' = "position" /\ ~NeedsPublish
        /\ UNCHANGED <<wpos, start, cmd, at>>
    BY <1>5 DEF ReadFlag, GotoW
  <2>2. Written' = Written /\ W' = W
    BY <2>1 DEF Written, W
  <2>3. wpc' \in InWrite
    BY <2>1 DEF InWrite, Deciding
  <2>4. Written' \in Nat /\ W'.words \in Nat
    <3>1. /\ wpos' \in 0 .. Size - 1 /\ start' \in 0 .. Size - 1
          /\ at' \in 1 .. Len(cmd'.writes) /\ cmd' \in Command
      BY <1>0, <2>3 DEF Types, Positions, Pos, InWrite, Deciding
    <3>2. W' \in Item
      BY <3>1, ItemsAre DEF W
    <3>3. Written' \in Nat
      <4>1. PICK x \in 0 .. Size - 1 : x = wpos'
        BY <3>1
      <4>2. PICK y \in 0 .. Size - 1 : y = start'
        BY <3>1
      <4> QED
        BY <1>0, <4>1, <4>2, WrittenAfter
    <3> QED
      BY <3>2, <3>3, ItemsAre
  <2>5. cmd.streamable => Written = 0 \/ Written + W.words <= MaxItem
    BY <1>0, <2>1, <2>2, <2>4 DEF NeedsPublish
  <2> QED
    BY <2>1, <2>2, <2>5 DEF Small
<1>6. ASSUME wpc \in InWrite, UNCHANGED <<wpos, start, cmd, at>>, wpc' \in InWrite PROVE Small'
  <2>1. Written' = Written /\ W' = W
    BY <1>6 DEF Written, W
  <2> QED
    BY <1>6, <2>1 DEF Small, InWrite, Deciding
<1>7. wpc \in InWrite /\ cmd.streamable => ~ReachesBatchStart /\ ~NeverFits
  BY ItemFits DEF Small, InWrite, Deciding
<1>8. CASE ReadPosition \/ Announce
  <2>1. wpc \in InWrite /\ UNCHANGED <<wpos, start, cmd, at>>
    BY <1>8 DEF ReadPosition, Announce, GotoW, InWrite, Deciding
  <2>2. cmd.streamable => wpc' \in InWrite
    BY <1>7, <1>8, <2>1 DEF ReadPosition, Announce, GotoW, AfterWaits, InWrite, Deciding
  <2> QED
    BY <1>6, <2>1, <2>2 DEF Small
<1>9. CASE TestFlag \/ TestPos \/ Waits \/ Withdraw \/ SetFlag
  <2>1. wpc \in InWrite /\ UNCHANGED <<wpos, start, cmd, at>> /\ wpc' \in InWrite
    BY <1>9 DEF TestFlag, TestPos, Waits, Withdraw, SetFlag, GotoW, AfterWaits, InWrite, Deciding
  <2> QED
    BY <1>6, <2>1
<1>10. CASE Write
  <2>1. /\ wpc = "write" /\ wpc' = "next" /\ wpos' = After(wpos, W)
        /\ UNCHANGED <<start, cmd>>
    BY <1>10 DEF Write, GotoW
  <2>2. wpc \in InWrite /\ wpc' \notin InWrite /\ start' \in 0 .. Size - 1 /\ wpos' \in 0 .. Size - 1
    BY <1>0, <2>1 DEF InWrite, Deciding, Types, Positions, Pos
  <2>3. cmd.streamable =>
          /\ After(wpos, W) >= start => After(wpos, W) - start <= 2 * MaxItem + 1
          /\ After(wpos, W) < start => After(wpos, W) + Size - start <= 2 * MaxItem + 1
    BY <2>1, <2>2, ItemFits DEF Small
  <2>4. cmd.streamable => Written' <= 2 * MaxItem + 1
    <3>1. PICK x \in 0 .. Size - 1 : x = wpos'
      BY <2>2
    <3>2. PICK y \in 0 .. Size - 1 : y = start'
      BY <2>2
    <3> QED
      BY <1>0, <2>1, <2>3, <3>1, <3>2, WrittenAfter
  <2> QED
    BY <2>1, <2>2, <2>4 DEF Small
<1>11. CASE Finish
  BY <1>11 DEF Finish, GotoW, Small, InWrite, Deciding
<1>12. CASE Writer
  BY <1>4, <1>5, <1>8, <1>9, <1>10, <1>11, <1>12 DEF Writer
<1>13. CASE Reader
  <2>1. UNCHANGED writer
    BY <1>13 DEF Reader, Receive, Pull, WrapPos, WrapFlag, Release, ReleasePos, TestExpected, TestReset,
           ClearExpected, Signal, NextChunk
  <2> QED
    BY <1>1, <2>1
<1>14. CASE UNCHANGED vars
  BY <1>1, <1>14 DEF vars
<1> QED
  BY <1>3, <1>12, <1>13, <1>14 DEF Next

-----------------------------------------------------------------------------
(* The order of the items in the ring *)

\* A word of an item is in the item's lap, or in the next.
LEMMA WordLap ==
  ASSUME NEW x \in Pos, NEW i \in Item, NEW y \in WordsOf(x, i)
  PROVE  /\ y \in Pos
         /\ x <= y \/ (Laps(x, i) /\ y < After(x, i))
         /\ ~Laps(x, i) => x <= y /\ y < After(x, i)
<1>1. /\ Size \in Nat \ {0, 1} /\ i.words \in 1 .. Size /\ x \in 0 .. Size - 1
  BY RingAssumption, ItemsAre DEF Pos
<1>2. /\ y \in Pos
      /\ ~Laps(x, i) => x <= y /\ y < x + i.words
      /\ Laps(x, i) /\ i.blob => y = x \/ y < i.words - 1
      /\ Laps(x, i) /\ ~i.blob => x <= y \/ y < x + i.words - Size
  BY WordsAre
<1>3. /\ ~Laps(x, i) => After(x, i) = x + i.words
      /\ Laps(x, i) /\ ~i.blob => After(x, i) = x + i.words - Size
      /\ Laps(x, i) /\ i.blob => After(x, i) = i.words - 1
  BY AfterIs
<1>4. x <= x
  BY <1>1
<1> QED
  BY <1>2, <1>3, <1>4

\* The items' order, in numbers.
Ordered(p, l, r, w, s) ==
  /\ \A k \in r .. w :
       /\ l[k] \in {s, s + 1} /\ p[k] \in Nat
       /\ l[k] = s => serverPos <= p[k]
       /\ l[k] = s + 1 => p[k] <= serverPos
  /\ \A i, k \in r .. w : i <= k => l[i] <= l[k] /\ (l[i] = l[k] => p[i] <= p[k])
  /\ \A i, k \in r .. w : i < k /\ l[i] = l[k] => p[i] < p[k]

\* The order of neighbours is that of any two items, and no item leaves the two laps.
LEMMA Order ==
  ASSUME serverPos \in Pos, NEW q \in [Nat -> Item], NEW p \in [Nat -> Pos], NEW l \in [Nat -> Nat],
         NEW r \in Nat, NEW w \in Nat, NEW s \in Nat, r <= w, Lies(q, p, l, r, w, s)
  PROVE  Ordered(p, l, r, w, s)
<1>1. serverPos \in Nat /\ \A k \in r .. w : p[k] \in Nat /\ l[k] \in Nat
  BY DEF Pos
<1>2. \A i, k \in r .. w : i < k => l[i] < l[k] \/ (l[i] = l[k] /\ p[i] < p[k])
  BY DEF Lies, Before
<1>3. /\ s < l[r] \/ (s = l[r] /\ serverPos <= p[r])
      /\ l[w] <= s \/ (l[w] = s + 1 /\ p[w] <= serverPos)
  BY DEF Lies
<1>4. ASSUME NEW i \in r .. w, NEW k \in r .. w, i <= k
      PROVE  /\ l[i] <= l[k] /\ (l[i] = l[k] => p[i] <= p[k])
             /\ i < k /\ l[i] = l[k] => p[i] < p[k]
  <2>1. CASE i = k
    BY <1>1, <2>1
  <2>2. CASE i < k
    BY <1>1, <1>2, <2>2
  <2> QED
    BY <1>4, <2>1, <2>2
<1>5. ASSUME NEW k \in r .. w
      PROVE  /\ l[k] \in {s, s + 1}
             /\ l[k] = s => serverPos <= p[k]
             /\ l[k] = s + 1 => p[k] <= serverPos
  <2>1. r \in r .. w /\ w \in r .. w /\ r <= k /\ k <= w
    OBVIOUS
  <2>2. l[k] <= l[w] /\ (l[k] = l[w] => p[k] <= p[w])
    BY <1>4, <2>1
  <2>3. l[r] <= l[k] /\ (l[k] = l[r] => p[r] <= p[k])
    BY <1>4, <2>1
  <2> QED
    BY <1>1, <1>3, <2>1, <2>2, <2>3
<1> QED
  BY <1>1, <1>4, <1>5 DEF Ordered

\* No item takes a word of another.
LEMMA ItemsApart ==
  ASSUME serverPos \in Pos, NEW q \in [Nat -> Item], NEW p \in [Nat -> Pos], NEW l \in [Nat -> Nat],
         NEW r \in Nat, NEW w \in Nat, NEW s \in Nat, r <= w, Lies(q, p, l, r, w, s),
         NEW i \in r .. w - 1, NEW k \in r .. w - 1, i < k
  PROVE  WordsOf(p[i], q[i]) \intersect WordsOf(p[k], q[k]) = {}
<1> SUFFICES ASSUME NEW y \in WordsOf(p[i], q[i]), y \in WordsOf(p[k], q[k]) PROVE FALSE
  OBVIOUS
<1>1. /\ i \in r .. w /\ i + 1 \in r .. w /\ k \in r .. w /\ k + 1 \in r .. w
      /\ i \in Nat /\ k \in Nat /\ i + 1 \in Nat /\ k + 1 \in Nat /\ i + 1 <= k
  OBVIOUS
<1>2. /\ q[i] \in Item /\ p[i] \in Pos /\ q[k] \in Item /\ p[k] \in Pos /\ serverPos \in Nat
      /\ l[i] \in Nat /\ l[k] \in Nat /\ l[i + 1] \in Nat /\ l[k + 1] \in Nat
      /\ p[i + 1] \in Nat /\ p[k + 1] \in Nat /\ p[i] \in Nat /\ p[k] \in Nat
  BY <1>1 DEF Pos
<1>3. /\ Laps(p[i], q[i]) => l[i + 1] = l[i] + 1
      /\ ~Laps(p[i], q[i]) => l[i + 1] = l[i]
      /\ p[i + 1] = After(p[i], q[i])
  BY DEF Lies
<1>4. /\ Laps(p[k], q[k]) => l[k + 1] = l[k] + 1
      /\ ~Laps(p[k], q[k]) => l[k + 1] = l[k]
      /\ p[k + 1] = After(p[k], q[k])
  BY DEF Lies
<1>5. Ordered(p, l, r, w, s)
  BY Order
<1>6. /\ l[i] \in {s, s + 1} /\ (l[i] = s => serverPos <= p[i])
      /\ l[k + 1] \in {s, s + 1} /\ (l[k + 1] = s + 1 => p[k + 1] <= serverPos)
      /\ l[i + 1] <= l[k] /\ (l[i + 1] = l[k] => p[i + 1] <= p[k])
  BY <1>1, <1>5 DEF Ordered
<1>7. /\ y \in Nat
      /\ p[i] <= y \/ (l[i + 1] = l[i] + 1 /\ y < p[i + 1])
      /\ l[i + 1] = l[i] => p[i] <= y /\ y < p[i + 1]
      /\ l[i + 1] = l[i] \/ l[i + 1] = l[i] + 1
  <2>1. /\ y \in Pos
        /\ p[i] <= y \/ (Laps(p[i], q[i]) /\ y < After(p[i], q[i]))
        /\ ~Laps(p[i], q[i]) => p[i] <= y /\ y < After(p[i], q[i])
    BY <1>2, WordLap
  <2> QED
    BY <1>2, <1>3, <2>1 DEF Pos
<1>8. /\ p[k] <= y \/ (l[k + 1] = l[k] + 1 /\ y < p[k + 1])
      /\ l[k + 1] = l[k] => p[k] <= y /\ y < p[k + 1]
      /\ l[k + 1] = l[k] \/ l[k + 1] = l[k] + 1
  <2>1. /\ y \in Pos
        /\ p[k] <= y \/ (Laps(p[k], q[k]) /\ y < After(p[k], q[k]))
        /\ ~Laps(p[k], q[k]) => p[k] <= y /\ y < After(p[k], q[k])
    BY <1>2, WordLap
  <2> QED
    BY <1>2, <1>4, <2>1 DEF Pos
<1> QED
  BY <1>2, <1>6, <1>7, <1>8

-----------------------------------------------------------------------------
(* The writer decides *)

\* Where the batch starts.
Batch(l, b, w, n, s) ==
  /\ start \in Nat /\ wpos \in Nat /\ serverPos \in Nat
  /\ l[b[n]] \in {s, s + 1} /\ l[w] \in {s, s + 1}
  /\ l[b[n]] = s => serverPos <= start
  /\ l[b[n]] = s + 1 => start <= serverPos
  /\ l[b[n]] <= l[w] /\ (l[b[n]] = l[w] => start <= wpos)
  /\ l[w] = s => serverPos <= wpos
  /\ l[w] = s + 1 => wpos <= serverPos

\* The batch is between the reader's published position and the writer.
LEMMA BatchStarts ==
  ASSUME Types, wpc # "idle",
         NEW q \in [Nat -> Item], NEW p \in [Nat -> Pos], NEW l \in [Nat -> Nat], NEW b \in [Nat -> Nat],
         NEW d \in [Nat -> Nat], NEW o \in [Nat -> BOOLEAN],
         NEW r \in Nat, NEW w \in Nat, NEW h \in Nat, NEW n \in Nat, NEW s \in Nat,
         Safe(q, p, l, b, d, o, r, w, h, n, s)
  PROVE  b[n] \in r .. w /\ Batch(l, b, w, n, s)
<1>1. /\ start \in Nat /\ wpos \in Nat /\ serverPos \in Pos /\ serverPos \in Nat
      /\ start = p[b[n]] /\ wpos = p[w]
  BY DEF Types, Positions, Pos, Safe, Path, Writing
<1>2. Ordered(p, l, r, w, s)
  BY <1>1, Order DEF Safe, Path
<1>3. b[n] \in r .. w
  <2>1. h \in h .. n /\ n \in h .. n
    BY DEF Safe
  <2>2. b[h] <= b[n] /\ r <= b[h] /\ b[n] <= w /\ b[h] \in Nat /\ b[n] \in Nat
    BY <2>1 DEF Safe, Chunks
  <2> QED
    BY <2>2
<1>4. w \in r .. w /\ b[n] <= w
  BY <1>3
<1> QED
  BY <1>1, <1>2, <1>3, <1>4 DEF Ordered, Batch

\* A write may go on when syncDataQueue finds no reason to wait.
LEMMA NoWaitFits ==
  ASSUME Types, wpc \in InWrite,
         NEW l \in [Nat -> Nat], NEW b \in [Nat -> Nat], NEW w \in Nat, NEW n \in Nat, NEW s \in Nat,
         Batch(l, b, w, n, s), ~ReachesBatchStart, ~ (Wraps /\ lapBehind), ~WouldOverwrite(serverPos),
         lapBehind \/ l[w] = s
  PROVE  Fits(l, w, s)
<1> USE Numbers
<1>1. /\ start \in Nat /\ wpos \in Nat /\ serverPos \in Nat /\ l[w] \in Nat /\ l[b[n]] \in Nat
      /\ l[b[n]] \in {s, s + 1} /\ l[w] \in {s, s + 1}
      /\ l[b[n]] = s => serverPos <= start
      /\ l[b[n]] = s + 1 => start <= serverPos
      /\ l[b[n]] <= l[w] /\ (l[b[n]] = l[w] => start <= wpos)
      /\ l[w] = s + 1 => wpos <= serverPos
  BY DEF Batch
<1>2. /\ wpos >= start /\ Wraps => ExpectedEnd < start
      /\ wpos < start => ~Wraps /\ ExpectedEnd < start
  <2>1. ExpectedEnd \in Nat
    OBVIOUS
  <2> QED
    BY <1>1, <2>1 DEF ReachesBatchStart, BatchWrapped
<1>3. \/ ExpectedEnd < serverPos
      \/ /\ ~ (start < serverPos)
         /\ ~ (start > serverPos /\ ExpectedEnd < start)
         /\ ~ (start <= serverPos /\ (Wraps \/ lapBehind))
  <2>1. ExpectedEnd \in Nat
    OBVIOUS
  <2> QED
    BY <1>1, <2>1 DEF WouldOverwrite
<1>4. /\ Laps(wpos, W) /\ W.blob => After(wpos, W) = W.words - 1
      /\ Laps(wpos, W) /\ ~W.blob => After(wpos, W) = wpos + W.words - Size
      /\ After(wpos, W) \in Nat
  BY AfterIs DEF Pos
<1>5. CASE Wraps
  <2>1. l[w] = s /\ ~lapBehind
    BY <1>5
  <2>2. start >= serverPos /\ wpos >= start
    BY <1>1, <2>1
  <2>3. ExpectedEnd < serverPos
    BY <1>1, <1>2, <1>3, <1>5, <2>2
  <2>4. After(wpos, W) <= ExpectedEnd + 1
    <3>1. CASE W.blob
      BY <1>4, <1>5, <3>1
    <3>2. CASE ~W.blob
      BY <1>4, <1>5, <3>2
    <3> QED
      BY <3>1, <3>2
  <2> QED
    BY <1>1, <1>4, <1>5, <2>1, <2>3, <2>4 DEF Fits
<1>6. CASE EndsAtQueueEnd
  <2>1. After(wpos, W) = 0
    BY <1>4, <1>6
  <2>2. ExpectedEnd = Size - 1 /\ ~Wraps
    BY <1>6
  <2>3. serverPos <= Size - 1
    BY DEF Types, Positions, Pos
  <2>4. start <= Size - 1 /\ wpos >= start
    BY <1>1, <1>2, <2>2
  <2>5. ~ (start < serverPos) /\ ~ (start <= serverPos /\ lapBehind)
    BY <1>1, <1>3, <2>2, <2>3
  <2>6. l[w] = s
    BY <1>1, <2>4, <2>5
  <2> QED
    BY <1>1, <1>6, <2>1, <2>6 DEF Fits
<1>7. CASE ~Laps(wpos, W)
  <2>1. ASSUME l[w] = s + 1 PROVE wpos + W.words <= serverPos
    <3>1. ExpectedEnd = wpos + W.words - 1
      BY <1>7
    <3>2. ExpectedEnd < serverPos
      BY <1>1, <1>2, <1>3, <2>1, <3>1
    <3> QED
      BY <1>1, <3>1, <3>2
  <2> QED
    BY <1>7, <2>1 DEF Fits
<1> QED
  BY <1>5, <1>6, <1>7

\* And after a wait for the reader to reach the batch's start.
LEMMA ReachedFits ==
  ASSUME Types, wpc \in InWrite,
         NEW l \in [Nat -> Nat], NEW b \in [Nat -> Nat], NEW w \in Nat, NEW n \in Nat, NEW s \in Nat,
         Batch(l, b, w, n, s), ~ReachesBatchStart, Reached(l, b, n, s),
         ~resetRequired => l[w] = s
  PROVE  Fits(l, w, s) /\ (Wraps => ~resetRequired)
<1> USE Numbers
<1>1. /\ start \in Nat /\ wpos \in Nat /\ l[w] \in Nat
      /\ l[b[n]] = s /\ serverPos = start
      /\ l[w] \in {s, s + 1} /\ (l[b[n]] = l[w] => start <= wpos)
      /\ wpos < start \/ ~resetRequired
  BY DEF Batch, Reached, BatchWrapped
<1>2. /\ wpos >= start /\ Wraps => ExpectedEnd < start
      /\ wpos < start => ~Wraps /\ ExpectedEnd < start
  <2>1. ExpectedEnd \in Nat
    OBVIOUS
  <2> QED
    BY <1>1, <2>1 DEF ReachesBatchStart, BatchWrapped
<1>3. /\ Laps(wpos, W) /\ W.blob => After(wpos, W) = W.words - 1
      /\ Laps(wpos, W) /\ ~W.blob => After(wpos, W) = wpos + W.words - Size
      /\ After(wpos, W) \in Nat
  BY AfterIs DEF Pos
<1>4. CASE Wraps
  <2>1. After(wpos, W) <= ExpectedEnd + 1
    <3>1. CASE W.blob
      BY <1>3, <1>4, <3>1
    <3>2. CASE ~W.blob
      BY <1>3, <1>4, <3>2
    <3> QED
      BY <3>1, <3>2
  <2> QED
    BY <1>1, <1>2, <1>3, <1>4, <2>1 DEF Fits
<1>5. CASE EndsAtQueueEnd
  <2>1. After(wpos, W) = 0
    BY <1>3, <1>5
  <2>2. ExpectedEnd = Size - 1 /\ ~Wraps
    BY <1>5
  <2>3. l[w] = s
    BY <1>1, <1>2, <2>2
  <2> QED
    BY <1>1, <1>5, <2>1, <2>2, <2>3 DEF Fits
<1>6. CASE ~Laps(wpos, W)
  <2>1. ExpectedEnd = wpos + W.words - 1
    BY <1>6
  <2> QED
    BY <1>1, <1>2, <1>6, <2>1 DEF Fits
<1> QED
  BY <1>4, <1>5, <1>6

-----------------------------------------------------------------------------
(* The writer's steps *)

\* A step that moves neither side keeps the items' path.
LEMMA PathKept ==
  ASSUME NEW q, NEW p, NEW l, NEW r, NEW w, NEW s, Path(q, p, l, r, w, s),
         UNCHANGED <<rpos, wpos, unread, serverPos>>
  PROVE  Path(q, p, l, r, w, s)'
BY DEF Path, Lies

\* A step that takes and sends no header keeps the chunks.
LEMMA ChunksKept ==
  ASSUME NEW q, NEW p, NEW b, NEW d, NEW o, NEW r, NEW w, NEW h, NEW n, UNCHANGED headers,
         Chunks(q, p, b, d, o, r, w, h, n)
  PROVE  Chunks(q, p, b, d, o, r, w, h, n)'
BY DEF Chunks

\* A writer's step keeps what the reader knows.
LEMMA ReadingKept ==
  ASSUME NEW q, NEW p, NEW b, NEW d, NEW o, NEW r, NEW h, UNCHANGED reader,
         Reading(q, p, b, d, o, r, h)
  PROVE  Reading(q, p, b, d, o, r, h)'
BY DEF Reading, ReadMore, reader

\* A step that leaves the command alone keeps what the writer knows of it.
LEMMA WritingKept ==
  ASSUME NEW q, NEW p, NEW l, NEW b, NEW d, NEW o, NEW w, NEW n,
         wpc = "idle" <=> wpc' = "idle", UNCHANGED <<wpos, start, cmd, at, headerPushed>>,
         Writing(q, p, l, b, d, o, w, n)
  PROVE  Writing(q, p, l, b, d, o, w, n)'
BY DEF Writing

\* The numbers stay while the writer decides.
LEMMA NumbersKept ==
  ASSUME UNCHANGED <<wpos, start, cmd, at>>
  PROVE  /\ W' = W /\ Wraps' = Wraps /\ EndsAtQueueEnd' = EndsAtQueueEnd
         /\ ExpectedEnd' = ExpectedEnd /\ BatchWrapped' = BatchWrapped
         /\ ReachesBatchStart' = ReachesBatchStart
         /\ Laps(wpos, W)' = Laps(wpos, W)
         /\ serverPos' = serverPos =>
              \A l, b, w, n, s : Fits(l, w, s)' = Fits(l, w, s)
<1>1. W' = W
  BY DEF W
<1>2. Wraps' = Wraps /\ EndsAtQueueEnd' = EndsAtQueueEnd /\ LastWord' = LastWord
  BY <1>1 DEF Wraps, EndsAtQueueEnd, LastWord
<1>3. ExpectedEnd' = ExpectedEnd /\ BatchWrapped' = BatchWrapped
  BY <1>1, <1>2 DEF ExpectedEnd, BatchWrapped
<1>4. ReachesBatchStart' = ReachesBatchStart
  BY <1>2, <1>3 DEF ReachesBatchStart
<1>5. Laps(wpos, W)' = Laps(wpos, W)
  BY <1>1 DEF Laps
<1>6. serverPos' = serverPos => \A l, b, w, n, s : Fits(l, w, s)' = Fits(l, w, s)
  BY <1>1, <1>5 DEF Fits
<1> QED
  BY <1>1, <1>2, <1>3, <1>4, <1>5, <1>6

\* The steps of syncDataQueue and handleOverwriteCondition: what they conclude holds.
LEMMA DecideSafe ==
  ASSUME Types, Calm,
         NEW q \in [Nat -> Item], NEW p \in [Nat -> Pos], NEW l \in [Nat -> Nat], NEW b \in [Nat -> Nat],
         NEW d \in [Nat -> Nat], NEW o \in [Nat -> BOOLEAN],
         NEW r \in Nat, NEW w \in Nat, NEW h \in Nat, NEW n \in Nat, NEW s \in Nat,
         Safe(q, p, l, b, d, o, r, w, h, n, s),
         ReadFlag \/ ReadPosition \/ Announce \/ TestFlag \/ TestPos \/ Waits \/ Withdraw \/ SetFlag,
         UNCHANGED load
  PROVE  Witnessed'
<1> SUFFICES Safe(q, p, l, b, d, o, r, w, h, n, s)'
  BY Zenon DEF Witnessed
<1>1. /\ UNCHANGED <<wpos, start, cmd, at, headerPushed, serverPos, headers, unread, reader, rpc, rpos>>
      /\ wpc \in InWrite \/ (wpc = "next" /\ at <= Len(cmd.writes))
      /\ wpc' \in InWrite \union {"exit"}
  BY DEF ReadFlag, ReadPosition, Announce, TestFlag, TestPos, Waits, Withdraw, SetFlag, GotoW,
         AfterWaits, InWrite, Deciding, fields, reader
<1>2. wpc # "idle" /\ wpc' # "idle"
  BY <1>1 DEF InWrite, Deciding
<1>3. Path(q, p, l, r, w, s)'
  BY <1>1, PathKept DEF Safe
<1>4. Chunks(q, p, b, d, o, r, w, h, n)'
  BY <1>1, ChunksKept DEF Safe
<1>5. Reading(q, p, b, d, o, r, h)'
  BY <1>1, ReadingKept DEF Safe
<1>6. Writing(q, p, l, b, d, o, w, n)'
  BY <1>1, <1>2, WritingKept DEF Safe
<1>7. Batch(l, b, w, n, s)
  BY <1>2, BatchStarts
<1>8. /\ l[w] \in Nat /\ l[b[n]] \in Nat /\ l[w] \in {s, s + 1} /\ l[b[n]] \in {s, s + 1}
      /\ resetRequired = FALSE => l[w] = s
  BY <1>7 DEF Batch, Safe, Room
<1>9. /\ W' = W /\ Wraps' = Wraps /\ EndsAtQueueEnd' = EndsAtQueueEnd
      /\ ExpectedEnd' = ExpectedEnd /\ BatchWrapped' = BatchWrapped
      /\ ReachesBatchStart' = ReachesBatchStart
      /\ Laps(wpos, W)' = Laps(wpos, W)
      /\ Fits(l, w, s)' = Fits(l, w, s)
  BY <1>1, NumbersKept
<1>10. resetRequired \in BOOLEAN /\ lapBehind \in BOOLEAN
  BY DEF Types, Positions
<1>11. wpc \in InWrite => (Laps(wpos, W) <=> Wraps \/ EndsAtQueueEnd)
  BY Numbers
<1>12. /\ wpc' = "write" /\ wpc # "setFlag" => ~Laps(wpos, W)
       /\ wpc # "write"
  BY <1>1, <1>11 DEF ReadFlag, ReadPosition, Announce, TestFlag, TestPos, Waits, Withdraw, SetFlag, GotoW,
         AfterWaits, InWrite, Deciding
<1>13. ASSUME wpc # "setFlag", UNCHANGED resetRequired PROVE Room(l, r, w, s)'
  <2>1. ~Ahead /\ ~Ahead'
    BY <1>9, <1>12, <1>13 DEF Ahead
  <2> QED
    BY <1>1, <1>13, <2>1 DEF Safe, Room
<1>14. ASSUME wpc = "setFlag", SetFlag PROVE Safe(q, p, l, b, d, o, r, w, h, n, s)'
  <2>1. /\ resetRequired' = TRUE /\ wpc' = "write" /\ wpc \in InWrite /\ wpc \in Deciding
    BY <1>14 DEF SetFlag, GotoW, InWrite, Deciding
  <2>2. /\ Laps(wpos, W) /\ (Wraps => ~resetRequired) /\ Fits(l, w, s) /\ ~ReachesBatchStart
    BY <1>14, <2>1 DEF Safe, Decides
  <2>3. Ahead'
    BY <1>9, <2>1, <2>2 DEF Ahead
  <2>4. rpc # "wrapFlag"
    <3>1. SUFFICES ASSUME rpc = "wrapFlag" PROVE FALSE
      OBVIOUS
    <3>2. ~load.wrapAtOnce /\ resetRequired
      BY <3>1 DEF Safe, Room
    <3>3. EndsAtQueueEnd
      BY <1>11, <2>1, <2>2, <3>2
    <3> QED
      BY <1>14, <3>2, <3>3 DEF Calm
  <2>5. Room(l, r, w, s)'
    BY <1>1, <2>1, <2>3, <2>4 DEF Safe, Room
  <2>6. Decides(l, b, w, n, s)'
    BY <1>9, <2>1, <2>2 DEF Decides, Deciding
  <2> QED
    BY <1>3, <1>4, <1>5, <1>6, <2>5, <2>6 DEF Safe
<1>15. CASE ReadFlag
  <2>1. /\ wpc = "next" /\ wpc' = "position" /\ lapBehind' = resetRequired /\ UNCHANGED resetRequired
    BY <1>15 DEF ReadFlag, GotoW, fields
  <2>2. Decides(l, b, w, n, s)'
    BY <1>10, <2>1 DEF Decides, Deciding
  <2>3. Room(l, r, w, s)'
    BY <1>13, <2>1
  <2> QED
    BY <1>3, <1>4, <1>5, <1>6, <2>2, <2>3 DEF Safe
<1>16. CASE ReadPosition
  <2>1. /\ wpc = "position" /\ wpc \in InWrite /\ UNCHANGED <<resetRequired, lapBehind>>
        /\ wpc' \in {"exit", "overwrite", "setFlag", "write"}
        /\ wpc' # "exit" => ~ReachesBatchStart
        /\ wpc' \in {"setFlag", "write"} => ~ (Wraps /\ lapBehind) /\ ~WouldOverwrite(serverPos)
        /\ wpc' = "setFlag" => Wraps \/ EndsAtQueueEnd
    BY <1>16 DEF ReadPosition, AfterWaits, fields, InWrite
  <2>2. lapBehind \/ ~resetRequired
    BY <2>1 DEF Safe, Decides
  <2>3. wpc' \in {"setFlag", "write"} => Fits(l, w, s)
    BY <1>7, <1>8, <1>10, <2>1, <2>2, NoWaitFits
  <2>4. Decides(l, b, w, n, s)'
    BY <1>9, <1>11, <2>1, <2>2, <2>3 DEF Decides, Deciding
  <2>5. Room(l, r, w, s)'
    BY <1>13, <2>1
  <2> QED
    BY <1>3, <1>4, <1>5, <1>6, <2>4, <2>5 DEF Safe
<1>17. CASE Announce \/ TestFlag \/ TestPos \/ Waits
  <2>1. /\ wpc \in Deciding /\ UNCHANGED <<resetRequired, lapBehind>> /\ wpc # "setFlag"
        /\ wpc' \in {"exit", "testFlag", "wait", "testPos", "withdraw"}
        /\ wpc' = "testPos" => BatchWrapped \/ ~resetRequired
        /\ wpc' = "withdraw" => wpc = "testPos" /\ serverPos > start - 1
    BY <1>10, <1>17 DEF Announce, TestFlag, TestPos, Waits, GotoW, fields, Deciding, Calm
  <2>2. (lapBehind \/ ~resetRequired) /\ ~ReachesBatchStart
    BY <2>1 DEF Safe, Decides
  <2>3. wpc' = "withdraw" => Reached(l, b, n, s)
    <3>1. SUFFICES ASSUME wpc' = "withdraw" PROVE Reached(l, b, n, s)
      OBVIOUS
    <3>2. /\ start \in Nat /\ wpos \in Nat /\ serverPos \in Nat
          /\ l[b[n]] = s => serverPos <= start
          /\ l[b[n]] <= l[w] /\ (l[b[n]] = l[w] => start <= wpos)
      BY <1>7 DEF Batch
    <3>3. wpos < start \/ ~resetRequired
      BY <2>1, <3>1 DEF Safe, Decides, BatchWrapped
    <3>4. l[b[n]] = s
      BY <1>8, <1>10, <3>2, <3>3
    <3>5. serverPos = start
      BY <2>1, <3>1, <3>2, <3>4
    <3> QED
      BY <3>3, <3>4, <3>5 DEF Reached, BatchWrapped
  <2>4. Reached(l, b, n, s)' = Reached(l, b, n, s)
    BY <1>1, <1>9, <2>1 DEF Reached
  <2>5. Decides(l, b, w, n, s)'
    BY <1>9, <2>1, <2>2, <2>3, <2>4 DEF Decides, Deciding
  <2>6. Room(l, r, w, s)'
    BY <1>13, <2>1
  <2> QED
    BY <1>3, <1>4, <1>5, <1>6, <2>5, <2>6 DEF Safe
<1>18. CASE Withdraw
  <2>1. /\ wpc = "withdraw" /\ wpc \in Deciding /\ wpc \in InWrite /\ UNCHANGED <<resetRequired, lapBehind>>
        /\ wpc' \in {"overwrite", "setFlag", "write"}
        /\ wpc' = "setFlag" => Wraps \/ EndsAtQueueEnd
    BY <1>18 DEF Withdraw, GotoW, AfterWaits, Deciding, InWrite
  <2>2. (lapBehind \/ ~resetRequired) /\ ~ReachesBatchStart /\ Reached(l, b, n, s)
    BY <2>1 DEF Safe, Decides
  <2>3. Fits(l, w, s) /\ (Wraps => ~resetRequired)
    BY <1>7, <1>8, <1>10, <2>1, <2>2, ReachedFits
  <2>4. Decides(l, b, w, n, s)'
    BY <1>9, <1>11, <2>1, <2>2, <2>3 DEF Decides, Deciding
  <2>5. Room(l, r, w, s)'
    BY <1>13, <2>1
  <2> QED
    BY <1>3, <1>4, <1>5, <1>6, <2>4, <2>5 DEF Safe
<1> QED
  BY <1>14, <1>15, <1>16, <1>17, <1>18 DEF SetFlag, GotoW

\* The headers are about the items from the one they end at to the last they declare.
LEMMA ChunksAgree ==
  ASSUME Types,
         NEW q \in [Nat -> Item], NEW p \in [Nat -> Pos], NEW b \in [Nat -> Nat],
         NEW d \in [Nat -> Nat], NEW o \in [Nat -> BOOLEAN],
         NEW r \in Nat, NEW w \in Nat, NEW h \in Nat, NEW n \in Nat,
         Chunks(q, p, b, d, o, r, w, h, n),
         NEW u \in [Nat -> Item], NEW v \in [Nat -> Pos], NEW x \in Nat, NEW y \in Nat,
         \A k \in d[h] .. d[n] - 1 : u[k] = q[k],
         \A k \in b[h] .. b[n] : v[k] = p[k],
         x <= b[h], b[n] <= y, UNCHANGED headers
  PROVE  Chunks(u, v, b, d, o, x, y, h, n)'
<1>1. /\ Len(headers) \in Nat /\ n = h + Len(headers) /\ h <= n
      /\ \A j \in 1 .. Len(headers) : /\ j \in Nat /\ j >= 1 /\ h + j <= n
                                      /\ Len(headers[j].reads) \in Nat
  <2>1. Len(headers) \in Nat /\ \A j \in 1 .. Len(headers) : headers[j] \in HeaderType
    BY Lengths DEF Types
  <2>2. n = h + Len(headers)
    BY DEF Chunks
  <2>3. \A j \in 1 .. Len(headers) : Len(headers[j].reads) \in Nat
    BY <2>1, ItemsAre, Lengths
  <2>4. \A m \in Nat : n = h + m => h <= n /\ \A j \in 1 .. m : j \in Nat /\ j >= 1 /\ h + j <= n
    OBVIOUS
  <2> QED
    BY <2>1, <2>2, <2>3, <2>4
<1>2. \A j \in h .. n : b[h] <= b[j] /\ b[j] <= b[n] /\ d[h] <= d[j] /\ d[j] <= d[n]
  <2>1. \A i, j \in h .. n : i <= j => b[i] <= b[j] /\ d[i] <= d[j]
    BY DEF Chunks
  <2>2. h \in h .. n /\ n \in h .. n
    BY <1>1
  <2> QED
    BY <2>1, <2>2
<1>3. ASSUME NEW j \in Nat, j >= 1, h + j <= n
      PROVE  /\ v[b[h + j]] = p[b[h + j]]
             /\ \A i \in b[h + j - 1] .. b[h + j] - 1 : v[i] = p[i]
             /\ \A m \in Nat : d[h + j] = d[h + j - 1] + m =>
                  \A k \in 1 .. m : u[d[h + j - 1] + k - 1] = q[d[h + j - 1] + k - 1]
  <2>1. h + j \in h .. n /\ h + j - 1 \in h .. n /\ h + j - 1 <= h + j
    BY <1>3
  <2>2. /\ b[h] <= b[h + j] /\ b[h + j] <= b[n] /\ b[h] <= b[h + j - 1]
        /\ d[h] <= d[h + j - 1] /\ d[h + j] <= d[n]
    BY <1>2, <2>1
  <2>3. /\ b[h] \in Nat /\ b[n] \in Nat /\ b[h + j] \in Nat /\ b[h + j - 1] \in Nat
        /\ d[h] \in Nat /\ d[n] \in Nat /\ d[h + j] \in Nat /\ d[h + j - 1] \in Nat
    BY <2>1
  <2>4. /\ \A i \in b[h + j - 1] .. b[h + j] - 1 : i \in b[h] .. b[n]
        /\ b[h + j] \in b[h] .. b[n]
    BY <2>2, <2>3
  <2>5. ASSUME NEW m \in Nat, d[h + j] = d[h + j - 1] + m, NEW k \in 1 .. m
        PROVE  d[h + j - 1] + k - 1 \in d[h] .. d[n] - 1
    BY <2>2, <2>3, <2>5
  <2> QED
    BY <2>4, <2>5
<1>4. ASSUME NEW j \in 1 .. Len(headers) PROVE Link(u, v, b, d, o, h + j - 1, h + j, headers[j])
  <2>1. Link(q, p, b, d, o, h + j - 1, h + j, headers[j])
    BY DEF Chunks
  <2>2. j \in Nat /\ j >= 1 /\ h + j <= n /\ Len(headers[j].reads) \in Nat
    BY <1>1
  <2>3. PICK m \in Nat : m = Len(headers[j].reads)
    BY <2>2
  <2>4. d[h + j] = d[h + j - 1] + m
    BY <2>1, <2>3 DEF Link
  <2>5. /\ v[b[h + j]] = p[b[h + j]]
        /\ \A i \in b[h + j - 1] .. b[h + j] - 1 : v[i] = p[i]
        /\ \A k \in 1 .. m : u[d[h + j - 1] + k - 1] = q[d[h + j - 1] + k - 1]
    BY <1>3, <2>2, <2>4
  <2> QED
    BY <2>1, <2>3, <2>5 DEF Link
<1>5. /\ \A i, j \in h .. n : i <= j => b[i] <= b[j] /\ d[i] <= d[j]
      /\ \A j \in h .. n : b[j] <= d[j] /\ (o[j] = FALSE => b[j] = d[j])
  BY DEF Chunks
<1>6. Chunks(u, v, b, d, o, x, y, h, n)
  BY <1>1, <1>4, <1>5 DEF Chunks
<1> QED
  BY <1>6, ChunksKept

\* The path is about the items that are written.
LEMMA PathAgree ==
  ASSUME NEW q \in [Nat -> Item], NEW p, NEW l, NEW r \in Nat, NEW w \in Nat, NEW s,
         Path(q, p, l, r, w, s),
         NEW u \in [Nat -> Item], \A k \in r .. w - 1 : u[k] = q[k],
         UNCHANGED <<rpos, wpos, unread, serverPos>>
  PROVE  Path(u, p, l, r, w, s)'
<1>1. Lies(u, p, l, r, w, s)'
  BY DEF Path, Lies
<1>2. {WordsOf(p[k], u[k]) : k \in r .. w - 1} = {WordsOf(p[k], q[k]) : k \in r .. w - 1}
  OBVIOUS
<1> QED
  BY <1>1, <1>2 DEF Path

\* Command's constructor: the items of a command come next.
LEMMA BeginSafe ==
  ASSUME Types,
         NEW q \in [Nat -> Item], NEW p \in [Nat -> Pos], NEW l \in [Nat -> Nat], NEW b \in [Nat -> Nat],
         NEW d \in [Nat -> Nat], NEW o \in [Nat -> BOOLEAN],
         NEW r \in Nat, NEW w \in Nat, NEW h \in Nat, NEW n \in Nat, NEW s \in Nat,
         Safe(q, p, l, b, d, o, r, w, h, n, s),
         NEW c \in load.commands, Begin(c), UNCHANGED load
  PROVE  Witnessed'
<1>1. /\ wpc = "idle" /\ wpc' = "next" /\ start' = wpos /\ cmd' = c /\ at' = 1 /\ headerPushed' = FALSE
      /\ UNCHANGED <<wpos, resetRequired, serverPos, headers, unread, reader, rpc, rpos, reads>>
  BY DEF Begin, GotoW, fields, reader
<1>2. c.writes \in Seq(Item)
  <2>1. c \in Command
    BY RingAssumption DEF Types, Command, Item
  <2> QED
    BY <2>1, ItemsAre
<1>3. Len(c.writes) \in Nat /\ \A k \in 1 .. Len(c.writes) : c.writes[k] \in Item
  BY <1>2, Lengths
<1>4. b[n] = w /\ o[n] = FALSE /\ d[n] = w
  <2>1. b[n] = w /\ o[n] = FALSE
    BY <1>1 DEF Safe, Writing
  <2>2. n \in h .. n
    BY DEF Safe
  <2> QED
    BY <2>1, <2>2 DEF Safe, Chunks
<1> DEFINE u == [k \in Nat |-> IF k \in w .. w + Len(c.writes) - 1 THEN c.writes[k - w + 1] ELSE q[k]]
<1>5. u \in [Nat -> Item]
  <2>1. \A m \in Nat : \A k \in w .. w + m - 1 : k - w + 1 \in 1 .. m
    OBVIOUS
  <2>2. \A k \in w .. w + Len(c.writes) - 1 : c.writes[k - w + 1] \in Item
    BY <1>3, <2>1
  <2> QED
    BY <2>2
<1>6. \A k \in Nat : k < w => u[k] = q[k]
  BY <1>3
<1>7. \A k \in 1 .. Len(c.writes) : u[w + k - 1] = c.writes[k]
  <2> SUFFICES ASSUME NEW k \in 1 .. Len(c.writes) PROVE u[w + k - 1] = c.writes[k]
    OBVIOUS
  <2>1. \A m \in Nat : k \in 1 .. m =>
          w + k - 1 \in w .. w + m - 1 /\ w + k - 1 \in Nat /\ (w + k - 1) - w + 1 = k
    OBVIOUS
  <2> QED
    BY <1>3, <2>1
<1> HIDE DEF u
<1>8. Path(u, p, l, r, w, s)'
  <2>1. \A k \in r .. w - 1 : u[k] = q[k]
    BY <1>6
  <2> QED
    BY <1>1, <1>5, <2>1, PathAgree DEF Safe
<1>9. d[h] \in Nat /\ d[h] <= d[n] /\ d[h] = r + Len(reads) /\ Len(reads) \in Nat
  <2>1. h \in h .. n /\ n \in h .. n /\ h <= n
    BY DEF Safe
  <2>2. d[h] <= d[n]
    BY <2>1 DEF Safe, Chunks
  <2>3. d[h] = r + Len(reads)
    BY DEF Safe, Reading
  <2>4. Len(reads) \in Nat
    BY Lengths DEF Types
  <2> QED
    BY <2>2, <2>3, <2>4
<1>10. Chunks(u, p, b, d, o, r, w, h, n)'
  <2>1. \A k \in d[h] .. d[n] - 1 : u[k] = q[k]
    <3>1. d[h] \in Nat
      OBVIOUS
    <3>2. \A k \in d[h] .. d[n] - 1 : k \in Nat /\ k < w
      BY <1>4, <3>1
    <3> QED
      BY <1>6, <3>2
  <2>2. Chunks(q, p, b, d, o, r, w, h, n) /\ r <= b[h] /\ b[n] <= w
    BY DEF Safe, Chunks
  <2> QED
    BY <1>1, <1>5, <2>1, <2>2, ChunksAgree
<1>11. Reading(u, p, b, d, o, r, h)'
  <2>1. \A k \in 1 .. Len(reads) : r + k - 1 \in Nat /\ r + k - 1 < w
    BY <1>4, <1>9
  <2>2. \A k \in 1 .. Len(reads) : u[r + k - 1] = q[r + k - 1]
    BY <1>6, <2>1
  <2>3. Reading(q, p, b, d, o, r, h)'
    BY <1>1, ReadingKept DEF Safe
  <2> QED
    BY <1>1, <2>2, <2>3 DEF Reading
<1>12. Writing(u, p, l, b, d, o, w, n)'
  BY <1>1, <1>4, <1>7 DEF Writing, Safe, Path
<1>13. Room(l, r, w, s)' /\ Decides(l, b, w, n, s)'
  <2>1. ~Ahead /\ ~Ahead'
    BY <1>1 DEF Ahead
  <2> QED
    BY <1>1, <2>1 DEF Safe, Room, Decides, Deciding
<1>14. Safe(u, p, l, b, d, o, r, w, h, n, s)'
  BY <1>8, <1>10, <1>11, <1>12, <1>13 DEF Safe
<1> QED
  BY <1>5, <1>14, Zenon DEF Witnessed

\* A streamable command's batch does not come round to its start.
LEMMA StreamEnds ==
  ASSUME Types, Small, wpc \in InWrite, cmd.streamable, wpos < start \/ Laps(wpos, W)
  PROVE  After(wpos, W) < start
<1> USE Numbers
<1>1. W.words <= MaxItem + 1 /\ 2 * MaxItem + 2 <= Size
  OBVIOUS
<1>2. Written + W.words <= MaxItem + 1 /\ Written >= 0
  <2>1. Written = 0 \/ Written + W.words <= MaxItem
    BY DEF Small
  <2> QED
    BY <1>1, <2>1
<1>3. /\ ~Laps(wpos, W) => After(wpos, W) = wpos + W.words
      /\ Laps(wpos, W) /\ ~W.blob => After(wpos, W) = wpos + W.words - Size
      /\ Laps(wpos, W) /\ W.blob => After(wpos, W) = W.words - 1
  BY AfterIs DEF Pos
<1>4. CASE wpos < start
  <2>1. wpos + Size - start + W.words <= MaxItem + 1
    BY <1>2, <1>4
  <2>2. ~Laps(wpos, W) /\ wpos + W.words < start
    BY <1>1, <2>1
  <2> QED
    BY <1>3, <2>2
<1>5. CASE wpos >= start /\ Laps(wpos, W)
  <2>1. wpos - start + W.words <= MaxItem + 1 /\ wpos + W.words >= Size
    BY <1>2, <1>5
  <2>2. /\ wpos + W.words - Size < start
        /\ W.words - 1 < start
    BY <1>1, <2>1
  <2>3. CASE W.blob
    BY <1>3, <1>5, <2>2, <2>3
  <2>4. CASE ~W.blob
    BY <1>3, <1>5, <2>2, <2>4
  <2> QED
    BY <2>3, <2>4
<1> QED
  BY <1>4, <1>5

\* A blob that goes to the ring's start ends before it.
LEMMA BlobEnds ==
  ASSUME Types, wpc \in InWrite, ~ReachesBatchStart, W.blob, Laps(wpos, W)
  PROVE  After(wpos, W) < wpos
<1> USE Numbers
<1>1. Wraps /\ ExpectedEnd = W.words - 1
  OBVIOUS
<1>2. ~BatchWrapped /\ ExpectedEnd < start
  BY <1>1 DEF ReachesBatchStart
<1>3. wpos >= start
  BY <1>2 DEF BatchWrapped
<1>4. After(wpos, W) = W.words - 1
  BY AfterIs DEF Pos
<1> QED
  BY <1>1, <1>2, <1>3, <1>4

\* The next write goes behind the items that are written.
Grows(q, p, l, v, m, r, w, s) ==
  /\ q[w] = W /\ p[w] = wpos /\ W \in Item
  /\ v[w + 1] = After(wpos, W)
  /\ Laps(wpos, W) => m[w + 1] = l[w] + 1 /\ l[w] = s
  /\ ~Laps(wpos, W) => m[w + 1] = l[w]
  /\ \A k \in Nat : k <= w => v[k] = p[k] /\ m[k] = l[k]
  /\ Lies(q, v, m, r, w + 1, s)

\* There is room for it: it ends at or before the reader's published position.
LEMMA NextWrite ==
  ASSUME Types,
         NEW q \in [Nat -> Item], NEW p \in [Nat -> Pos], NEW l \in [Nat -> Nat], NEW b \in [Nat -> Nat],
         NEW d \in [Nat -> Nat], NEW o \in [Nat -> BOOLEAN],
         NEW r \in Nat, NEW w \in Nat, NEW h \in Nat, NEW n \in Nat, NEW s \in Nat,
         Safe(q, p, l, b, d, o, r, w, h, n, s), wpc = "write"
  PROVE  \E v \in [Nat -> Pos], m \in [Nat -> Nat] : Grows(q, p, l, v, m, r, w, s)
<1>1. wpc = "write"
  OBVIOUS
<1>2. wpc \in InWrite /\ wpc # "idle"
  BY <1>1 DEF InWrite, Deciding
<1>3. Batch(l, b, w, n, s) /\ b[n] \in r .. w
  BY <1>2, BatchStarts
<1>4. ~ReachesBatchStart /\ Fits(l, w, s)
  BY <1>1 DEF Safe, Decides
<1>5. at \in 1 .. Len(cmd.writes) /\ at \in Nat /\ Len(cmd.writes) \in Nat
  <2>1. Len(cmd.writes) \in Nat
    BY ItemsAre, Lengths DEF Types
  <2>2. at \in 1 .. Len(cmd.writes) + 1 /\ at <= Len(cmd.writes)
    BY <1>2 DEF Types
  <2>3. \A m \in Nat : at \in 1 .. m + 1 /\ at <= m => at \in 1 .. m /\ at \in Nat
    OBVIOUS
  <2> QED
    BY <2>1, <2>2, <2>3
<1>6. q[w] = W /\ p[w] = wpos /\ W \in Item /\ wpos \in Pos
  <2>1. Writing(q, p, l, b, d, o, w, n)
    BY DEF Safe
  <2>2. w + at - at = w /\ at >= at
    BY <1>5
  <2>3. q[w + at - at] = cmd.writes[at]
    BY <1>2, <1>5, <2>1, <2>2 DEF Writing
  <2> QED
    BY <1>2, <2>2, <2>3, Numbers DEF W, Safe, Path, Types, Positions
<1>7. After(wpos, W) \in Pos /\ After(wpos, W) \in Nat
  BY <1>6, AfterIs DEF Pos
<1>8. /\ ~Laps(wpos, W) => After(wpos, W) > wpos /\ After(wpos, W) = wpos + W.words
      /\ Laps(wpos, W) => l[w] = s /\ After(wpos, W) <= serverPos
      /\ ~Laps(wpos, W) /\ l[w] = s + 1 => After(wpos, W) <= serverPos
      /\ W.blob /\ Laps(wpos, W) => After(wpos, W) < wpos
  <2>1. wpos \in Nat /\ W.words \in Nat /\ W.words >= 1
    BY <1>2, Numbers
  <2>2. ~Laps(wpos, W) => After(wpos, W) = wpos + W.words
    BY <1>6, AfterIs
  <2> QED
    BY <1>2, <1>4, <2>1, <2>2, BlobEnds DEF Fits
<1>9. PICK v \in [Nat -> Pos], m \in [Nat -> Nat] :
        /\ v[w + 1] = After(wpos, W)
        /\ Laps(wpos, W) => m[w + 1] = l[w] + 1
        /\ ~Laps(wpos, W) => m[w + 1] = l[w]
        /\ \A k \in Nat : k <= w => v[k] = p[k] /\ m[k] = l[k]
  <2> DEFINE v == [p EXCEPT ![w + 1] = After(wpos, W)]
             m == [l EXCEPT ![w + 1] = IF Laps(wpos, W) THEN l[w] + 1 ELSE l[w]]
  <2>1. v \in [Nat -> Pos] /\ m \in [Nat -> Nat]
    BY <1>7
  <2>2. v[w + 1] = After(wpos, W) /\ m[w + 1] = IF Laps(wpos, W) THEN l[w] + 1 ELSE l[w]
    BY <1>7
  <2>3. \A k \in Nat : k <= w => v[k] = p[k] /\ m[k] = l[k]
    OBVIOUS
  <2> HIDE DEF v, m
  <2> QED
    BY <2>1, <2>2, <2>3
<1>10. r <= w /\ h <= n /\ l[w] \in Nat /\ w + 1 \in Nat /\ p[w] \in Nat /\ wpos \in Nat
  BY <1>6 DEF Safe, Pos
<1>11. Lies(q, p, l, r, w, s) /\ Ordered(p, l, r, w, s)
  BY Order DEF Safe, Path, Types, Positions
<1>12. Lies(q, v, m, r, w + 1, s)
  <2>1. ASSUME NEW k \in r .. w
        PROVE  /\ v[k + 1] = After(v[k], q[k])
               /\ Laps(v[k], q[k]) => m[k + 1] = m[k] + 1
               /\ ~Laps(v[k], q[k]) => m[k + 1] = m[k]
               /\ q[k].blob /\ Laps(v[k], q[k]) => v[k + 1] < v[k]
    <3>1. CASE k < w
      <4>1. k \in r .. w - 1 /\ k \in Nat /\ k <= w /\ k + 1 \in Nat /\ k + 1 <= w
        BY <1>10, <3>1
      <4>2. v[k] = p[k] /\ m[k] = l[k] /\ v[k + 1] = p[k + 1] /\ m[k + 1] = l[k + 1]
        BY <1>9, <4>1
      <4> QED
        BY <1>11, <4>1, <4>2 DEF Lies
    <3>2. CASE k = w
      <4>1. v[k] = wpos /\ m[k] = l[w] /\ q[k] = W
        BY <1>6, <1>9, <1>10, <3>2
      <4> QED
        BY <1>8, <1>9, <3>2, <4>1
    <3> QED
      BY <1>10, <3>1, <3>2
  <2>2. ASSUME NEW i \in r .. w + 1, NEW k \in r .. w + 1, i < k
        PROVE  Before(v, m, i, k)
    <3>1. i \in Nat /\ i <= w /\ i \in r .. w /\ v[i] = p[i] /\ m[i] = l[i]
      BY <1>9, <1>10, <2>2
    <3>2. CASE k <= w
      <4>1. k \in r .. w /\ k \in Nat /\ v[k] = p[k] /\ m[k] = l[k]
        BY <1>9, <1>10, <3>2
      <4> QED
        BY <1>11, <2>2, <3>1, <4>1 DEF Lies, Before
    <3>3. CASE k = w + 1
      <4>1. w \in r .. w /\ l[i] <= l[w] /\ (l[i] = l[w] => p[i] <= p[w]) /\ l[i] \in Nat /\ p[i] \in Nat
        BY <1>10, <1>11, <3>1 DEF Ordered
      <4> QED
        BY <1>6, <1>7, <1>8, <1>9, <1>10, <3>1, <3>3, <4>1 DEF Before
    <3> QED
      BY <1>10, <3>2, <3>3
  <2>3. s < m[r] \/ (s = m[r] /\ serverPos <= v[r])
    BY <1>9, <1>10, <1>11 DEF Lies
  <2>4. m[w + 1] <= s \/ (m[w + 1] = s + 1 /\ v[w + 1] <= serverPos)
    <3>1. l[w] \in {s, s + 1}
      BY <1>3 DEF Batch
    <3> QED
      BY <1>8, <1>9, <1>10, <3>1
  <2>5. w + 1 - 1 = w
    OBVIOUS
  <2> QED
    BY <2>1, <2>2, <2>3, <2>4, <2>5 DEF Lies
<1>13. Grows(q, p, l, v, m, r, w, s)
  BY <1>6, <1>8, <1>9, <1>12 DEF Grows
<1> QED
  BY <1>13

\* The write: the next item is one of the unread ones.
LEMMA WriteSafe ==
  ASSUME Types, Small, Types',
         NEW q \in [Nat -> Item], NEW p \in [Nat -> Pos], NEW l \in [Nat -> Nat], NEW b \in [Nat -> Nat],
         NEW d \in [Nat -> Nat], NEW o \in [Nat -> BOOLEAN],
         NEW r \in Nat, NEW w \in Nat, NEW h \in Nat, NEW n \in Nat, NEW s \in Nat,
         Safe(q, p, l, b, d, o, r, w, h, n, s),
         Write, UNCHANGED load
  PROVE  Witnessed'
<1>1. /\ wpc = "write" /\ wpc' = "next" /\ wpos' = After(wpos, W) /\ at' = at + 1
      /\ unread' = unread \union WordsOf(wpos, W)
      /\ UNCHANGED <<start, cmd, headerPushed, resetRequired, serverPos, headers, reader, rpc, rpos>>
  BY DEF Write, GotoW, fields, reader
<1>2. wpc \in InWrite /\ wpc # "idle"
  BY <1>1 DEF InWrite, Deciding
<1>3. at \in 1 .. Len(cmd.writes) /\ at \in Nat /\ Len(cmd.writes) \in Nat
  <2>1. Len(cmd.writes) \in Nat
    BY ItemsAre, Lengths DEF Types
  <2>2. at \in 1 .. Len(cmd.writes) + 1 /\ at <= Len(cmd.writes)
    BY <1>2 DEF Types
  <2>3. \A m \in Nat : at \in 1 .. m + 1 /\ at <= m => at \in 1 .. m /\ at \in Nat
    OBVIOUS
  <2> QED
    BY <2>1, <2>2, <2>3
<1>4. PICK v \in [Nat -> Pos], m \in [Nat -> Nat] : Grows(q, p, l, v, m, r, w, s)
  BY <1>1, NextWrite
<1>5. /\ q[w] = W /\ p[w] = wpos /\ W \in Item /\ wpos \in Pos
      /\ Laps(wpos, W) => l[w] = s
  BY <1>4 DEF Grows, Types, Positions
<1>6. /\ v[w + 1] = After(wpos, W)
      /\ Laps(wpos, W) => m[w + 1] = l[w] + 1
      /\ ~Laps(wpos, W) => m[w + 1] = l[w]
      /\ \A k \in Nat : k <= w => v[k] = p[k] /\ m[k] = l[k]
  BY <1>4 DEF Grows
<1>7. r <= w /\ h <= n /\ l[w] \in Nat /\ w + 1 \in Nat /\ p[w] \in Nat /\ wpos \in Nat
  BY <1>5 DEF Safe, Pos
<1>8. Lies(q, v, m, r, w + 1, s)
  BY <1>4 DEF Grows
<1>9. Path(q, v, m, r, w + 1, s)'
  <2>1. v[r] = rpos' /\ v[w + 1] = wpos'
    BY <1>1, <1>6, <1>7 DEF Safe, Path
  <2>2. unread' = UNION {WordsOf(v[k], q[k]) : k \in r .. w}
    <3>1. \A k \in r .. w - 1 : v[k] = p[k] /\ k \in r .. w
      BY <1>6, <1>7
    <3>2. v[w] = wpos /\ w \in r .. w /\ q[w] = W
      BY <1>5, <1>6, <1>7
    <3>3. \A k \in r .. w : k = w \/ k \in r .. w - 1
      BY <1>7
    <3>4. unread = UNION {WordsOf(p[k], q[k]) : k \in r .. w - 1}
      BY DEF Safe, Path
    <3> QED
      BY <1>1, <3>1, <3>2, <3>3, <3>4
  <2>3. w + 1 - 1 = w
    OBVIOUS
  <2>4. Lies(q, v, m, r, w + 1, s)'
    BY <1>1, <1>8 DEF Lies
  <2> QED
    BY <2>1, <2>2, <2>3, <2>4 DEF Path
<1>10. Room(m, r, w + 1, s)'
  <2>1. m[r] = l[r] /\ ~Ahead'
    BY <1>1, <1>6, <1>7 DEF Ahead
  <2>2. Ahead <=> Laps(wpos, W)
    BY <1>1 DEF Ahead
  <2>3. Room(l, r, w, s)
    BY DEF Safe
  <2>4. CASE Laps(wpos, W)
    <3>1. m[w + 1] = s + 1
      BY <1>5, <1>6, <2>4
    <3> QED
      BY <1>1, <2>1, <2>2, <2>3, <2>4, <3>1 DEF Room
  <2>5. CASE ~Laps(wpos, W)
    <3>1. m[w + 1] = l[w]
      BY <1>6, <2>5
    <3> QED
      BY <1>1, <2>1, <2>2, <2>3, <2>5, <3>1 DEF Room
  <2> QED
    BY <2>4, <2>5
<1>11. /\ b[h] \in Nat /\ b[h] <= b[n] /\ b[n] <= w /\ b[n] \in Nat /\ r <= b[h]
  <2>1. h \in h .. n /\ n \in h .. n /\ h <= n
    BY <1>7
  <2> QED
    BY <2>1 DEF Safe, Chunks
<1>12. Chunks(q, v, b, d, o, r, w + 1, h, n)'
  <2>1. \A k \in b[h] .. b[n] : v[k] = p[k]
    <3>1. \A k \in b[h] .. b[n] : k \in Nat /\ k <= w
      BY <1>11
    <3> QED
      BY <1>6, <3>1
  <2>2. Chunks(q, p, b, d, o, r, w, h, n) /\ b[n] <= w + 1
    BY <1>11 DEF Safe
  <2> QED
    BY <1>1, <1>6, <1>7, <1>11, <2>1, <2>2, ChunksAgree
<1>13. Reading(q, v, b, d, o, r, h)'
  <2>1. Reading(q, p, b, d, o, r, h)'
    BY <1>1, ReadingKept DEF Safe
  <2>2. v[b[h]] = p[b[h]] /\ \A i \in r .. b[h] - 1 : v[i] = p[i]
    <3>1. \A i \in r .. b[h] - 1 : i \in Nat /\ i <= w
      BY <1>11
    <3> QED
      BY <1>6, <1>11, <3>1
  <2> QED
    BY <2>1, <2>2 DEF Reading
<1>14. Writing(q, v, m, b, d, o, w + 1, n)'
  <2>1. Writing(q, p, l, b, d, o, w, n)
    BY DEF Safe
  <2>2. v[b[n]] = p[b[n]] /\ m[b[n]] = l[b[n]] /\ l[b[n]] \in Nat
    BY <1>6, <1>11
  <2>3. /\ headerPushed' => cmd'.streamable /\ d[n] + at' = (w + 1) + Len(cmd'.writes) + 1
        /\ ~headerPushed' => d[n] + at' = (w + 1) + 1
    <3>1. PICK x \in Nat : x = Len(cmd.writes)
      BY <1>3
    <3>2. d[n] \in Nat
      OBVIOUS
    <3>3. /\ headerPushed => cmd.streamable /\ d[n] + at = w + x + 1
          /\ ~headerPushed => d[n] + at = w + 1
      BY <1>2, <2>1, <3>1 DEF Writing
    <3>4. /\ headerPushed => d[n] + (at + 1) = (w + 1) + x + 1
          /\ ~headerPushed => d[n] + (at + 1) = (w + 1) + 1
      <4>1. PICK y \in Nat : y = d[n]
        BY <3>2
      <4>2. PICK z \in Nat : z = at
        BY <1>3
      <4>3. /\ y + z = w + x + 1 => y + (z + 1) = (w + 1) + x + 1
            /\ y + z = w + 1 => y + (z + 1) = (w + 1) + 1
        OBVIOUS
      <4> QED
        BY <3>3, <4>1, <4>2, <4>3
    <3> QED
      BY <1>1, <3>1, <3>3, <3>4
  <2>4. ASSUME NEW k \in 1 .. Len(cmd.writes), k >= at + 1 \/ ~headerPushed
        PROVE  q[w + 1 + k - (at + 1)] = cmd.writes[k]
    <3>1. k \in Nat
      BY <1>3
    <3>2. w + 1 + k - (at + 1) = w + k - at /\ (k >= at + 1 => k >= at)
      BY <1>3, <3>1
    <3> QED
      BY <1>2, <2>1, <2>4, <3>2 DEF Writing
  <2>5. cmd.streamable => m[w + 1] = m[b[n]] \/ After(wpos, W) < start
    <3>1. cmd.streamable /\ (wpos < start \/ Laps(wpos, W)) => After(wpos, W) < start
      BY <1>2, StreamEnds
    <3>2. cmd.streamable => l[w] = l[b[n]] \/ wpos < start
      BY <1>2, <2>1 DEF Writing
    <3> QED
      BY <1>6, <2>2, <3>1, <3>2
  <2> QED
    BY <1>1, <1>2, <2>1, <2>2, <2>3, <2>4, <2>5 DEF Writing
<1>15. Decides(l, b, w + 1, n, s)' /\ Decides(m, b, w + 1, n, s)'
  BY <1>1 DEF Decides, Deciding
<1>16. Safe(q, v, m, b, d, o, r, w + 1, h, n, s)'
  BY <1>7, <1>9, <1>10, <1>12, <1>13, <1>14, <1>15 DEF Safe
<1> QED
  BY <1>7, <1>16, Zenon DEF Witnessed

\* Two items of a streamed chunk do not start where it ends.
LEMMA ChunkEnds ==
  ASSUME Types, wpc # "idle", cmd.streamable,
         NEW q \in [Nat -> Item], NEW p \in [Nat -> Pos], NEW l \in [Nat -> Nat], NEW b \in [Nat -> Nat],
         NEW d \in [Nat -> Nat], NEW o \in [Nat -> BOOLEAN],
         NEW r \in Nat, NEW w \in Nat, NEW h \in Nat, NEW n \in Nat, NEW s \in Nat,
         Safe(q, p, l, b, d, o, r, w, h, n, s), NEW i \in b[n] .. w - 1
  PROVE  p[i] # p[w]
<1>1. Batch(l, b, w, n, s) /\ b[n] \in r .. w
  BY BatchStarts
<1>2. b[n] \in Nat /\ i \in Nat /\ i \in r .. w /\ w \in r .. w /\ i < w /\ b[n] <= i
  BY <1>1
<1>3. Ordered(p, l, r, w, s)
  BY Order DEF Safe, Path, Types, Positions
<1>4. /\ l[i] \in {s, s + 1} /\ l[i] <= l[w] /\ (l[i] = l[w] => p[i] < p[w])
      /\ l[b[n]] <= l[i] /\ (l[b[n]] = l[i] => p[b[n]] <= p[i])
      /\ p[i] \in Nat /\ p[w] \in Nat
  BY <1>1, <1>2, <1>3 DEF Ordered
<1>5. /\ l[w] = l[b[n]] \/ wpos < start
      /\ start = p[b[n]] /\ wpos = p[w]
  BY DEF Safe, Writing, Path
<1>6. /\ l[w] \in {s, s + 1} /\ l[b[n]] \in {s, s + 1} /\ start \in Nat
      /\ l[b[n]] = l[w] => start <= wpos
  BY <1>1 DEF Batch
<1> QED
  BY <1>4, <1>5, <1>6

\* The header says where the batch ends, and what its handler will read.
Pushed(q, p, b, d, o, r, w, h, n) ==
  \E b2 \in [Nat -> Nat], d2 \in [Nat -> Nat], o2 \in [Nat -> BOOLEAN] :
    /\ Chunks(q, p, b2, d2, o2, r, w, h, n + 1)'
    /\ \A j \in Nat : j <= n => b2[j] = b[j] /\ d2[j] = d[j] /\ o2[j] = o[j]
    /\ b2[n + 1] = w /\ (o2[n + 1] = TRUE <=> wpc' = "next")
    /\ d2[n + 1] + at = w + Len(cmd.writes) + 1

\* With the next header, the headers still describe the items.
LEMMA PushChunk ==
  ASSUME Types,
         NEW q \in [Nat -> Item], NEW p \in [Nat -> Pos], NEW l \in [Nat -> Nat], NEW b \in [Nat -> Nat],
         NEW d \in [Nat -> Nat], NEW o \in [Nat -> BOOLEAN],
         NEW r \in Nat, NEW w \in Nat, NEW h \in Nat, NEW n \in Nat, NEW s \in Nat,
         Safe(q, p, l, b, d, o, r, w, h, n, s), Publish \/ Finish
  PROVE  Pushed(q, p, b, d, o, r, w, h, n)
<1>0. PICK v \in BOOLEAN, e \in BOOLEAN :
        \/ Publish /\ v = TRUE /\ e = FALSE
        \/ Finish /\ v = headerPushed /\ e = headerPushed
  BY DEF Types, Positions
<1>1. /\ wpc # "idle" /\ Push(Header(v, e))
      /\ wpc' = "next" <=> v /\ ~e
      /\ headerPushed => v
      /\ e => headerPushed
      /\ v /\ ~headerPushed => cmd.streamable
  <2>1. CASE Publish /\ v = TRUE /\ e = FALSE
    BY <2>1 DEF Publish, NeedsPublish
  <2>2. CASE Finish /\ v = headerPushed /\ e = headerPushed
    BY <2>2 DEF Finish, GotoW
  <2> QED
    BY <1>0, <2>1, <2>2
<1>2. v => cmd.streamable
  BY <1>1 DEF Safe, Writing
<1> DEFINE g == Header(v, e)
<1>3. /\ g.reads = IF headerPushed THEN <<>> ELSE cmd.writes
      /\ g.streamed = v /\ g.end = e /\ g.offset = wpos
  BY DEF Header
<1>4. g \in HeaderType
  BY NextItems
<1>5. headers' = Append(headers, g) /\ headers \in Seq(HeaderType) /\ Len(headers) \in Nat
  BY <1>1, Lengths DEF Push, Types
<1> HIDE DEF g
<1>6. /\ Len(headers') = Len(headers) + 1 /\ headers'[Len(headers) + 1] = g
      /\ \A j \in 1 .. Len(headers) : headers'[j] = headers[j]
  BY <1>4, <1>5
<1>7. PICK m \in Nat : m = Len(headers)
  BY <1>5
<1>8. PICK z \in Nat : z = Len(cmd.writes)
  BY ItemsAre, Lengths DEF Types
<1>9. PICK a \in 1 .. z + 1 : a = at
  BY <1>8 DEF Types
<1>10. PICK x \in Nat : x = Len(g.reads) /\ x = IF headerPushed THEN 0 ELSE z
  BY <1>3, <1>8
<1>11. Chunks(q, p, b, d, o, r, w, h, n) /\ Writing(q, p, l, b, d, o, w, n) /\ p[w] = wpos
  BY DEF Safe, Path
<1>12. /\ n = h + m /\ h + m = n /\ n + 1 \in Nat /\ n + 1 = h + (m + 1)
       /\ r <= b[h] /\ b[n] <= w
  <2>1. n = h + m
    BY <1>7, <1>11 DEF Chunks
  <2>2. r <= b[h] /\ b[n] <= w
    BY <1>11 DEF Chunks
  <2> QED
    BY <2>1, <2>2
<1>13. PICK y \in Nat : y = d[n]
  OBVIOUS
<1>14. /\ headerPushed => y + a = w + z + 1
       /\ ~headerPushed => y + a = w + 1
  BY <1>1, <1>8, <1>9, <1>11, <1>13 DEF Writing
<1>15. y + x + a = w + z + 1 /\ w <= y + x /\ (a > z => w = y + x)
  <2>1. CASE headerPushed
    <3>1. x = 0
      BY <1>10, <2>1
    <3>2. y + a = w + z + 1
      BY <1>14, <2>1
    <3> QED
      BY <3>1, <3>2
  <2>2. CASE ~headerPushed
    <3>1. x = z
      BY <1>10, <2>2
    <3>2. y + a = w + 1
      BY <1>14, <2>2
    <3> QED
      BY <3>1, <3>2
  <2> QED
    BY <2>1, <2>2
<1>16. PICK b2 \in [Nat -> Nat] : b2[n + 1] = w /\ \A j \in Nat : j <= n => b2[j] = b[j]
  <2> DEFINE x2 == [b EXCEPT ![n + 1] = w]
  <2>1. x2 \in [Nat -> Nat] /\ x2[n + 1] = w /\ \A j \in Nat : j <= n => x2[j] = b[j]
    OBVIOUS
  <2> HIDE DEF x2
  <2> QED
    BY <2>1
<1>17. PICK d2 \in [Nat -> Nat] : d2[n + 1] = y + x /\ \A j \in Nat : j <= n => d2[j] = d[j]
  <2> DEFINE x2 == [d EXCEPT ![n + 1] = y + x]
  <2>1. y + x \in Nat /\ n + 1 \in Nat
    OBVIOUS
  <2>2. x2 \in [Nat -> Nat] /\ x2[n + 1] = y + x /\ \A j \in Nat : j <= n => x2[j] = d[j]
    BY <2>1
  <2> HIDE DEF x2
  <2> QED
    BY <2>2
<1>18. PICK o2 \in [Nat -> BOOLEAN] :
         (o2[n + 1] = TRUE <=> v /\ ~e) /\ \A j \in Nat : j <= n => o2[j] = o[j]
  <2> DEFINE x2 == [o EXCEPT ![n + 1] = v /\ ~e]
  <2>1. x2 \in [Nat -> BOOLEAN] /\ \A j \in Nat : j <= n => x2[j] = o[j]
    OBVIOUS
  <2>2. n + 1 \in Nat
    OBVIOUS
  <2>3. x2[n + 1] = (v /\ ~e)
    BY <2>2
  <2> HIDE DEF x2
  <2>4. x2[n + 1] = TRUE <=> v /\ ~e
    BY <2>3
  <2> QED
    BY <2>1, <2>4
<1>19. (v /\ ~e) \/ a > z
  <2>1. (v /\ ~e) \/ at > Len(cmd.writes)
    BY <1>0 DEF Finish
  <2> QED
    BY <1>8, <1>9, <2>1
<1>20. /\ \A i, j \in h .. n : i <= j => b[i] <= b[j] /\ d[i] <= d[j]
       /\ \A j \in h .. n : b[j] <= d[j] /\ (o[j] = FALSE => b[j] = d[j])
       /\ \A j \in h .. n : b[j] <= w /\ d[j] <= y + x /\ b[j] \in Nat /\ d[j] \in Nat
  <2>1. /\ \A i, j \in h .. n : i <= j => b[i] <= b[j] /\ d[i] <= d[j]
        /\ \A j \in h .. n : b[j] <= d[j] /\ (o[j] = FALSE => b[j] = d[j])
    BY <1>11 DEF Chunks
  <2>2. ASSUME NEW j \in h .. n
        PROVE  b[j] <= w /\ d[j] <= y + x /\ b[j] \in Nat /\ d[j] \in Nat
    <3>1. n \in h .. n /\ j <= n /\ j \in Nat
      BY <1>12
    <3>2. b[j] <= b[n] /\ d[j] <= d[n] /\ b[j] \in Nat /\ d[j] \in Nat /\ b[n] \in Nat /\ d[n] \in Nat
      BY <2>1, <3>1
    <3> QED
      BY <1>12, <1>13, <3>2, SMTT(30)
  <2> QED
    BY <2>1, <2>2
<1>21. \A j \in h .. n + 1 : j \in h .. n \/ j = n + 1
  OBVIOUS
<1>22. \A j \in h .. n : b2[j] = b[j] /\ d2[j] = d[j] /\ o2[j] = o[j]
  <2>1. \A j \in h .. n : j \in Nat /\ j <= n
    OBVIOUS
  <2> QED
    BY <1>16, <1>17, <1>18, <2>1
<1>23. \A i, j \in h .. n + 1 : i <= j => b2[i] <= b2[j] /\ d2[i] <= d2[j]
  <2> SUFFICES ASSUME NEW i \in h .. n + 1, NEW j \in h .. n + 1, i <= j
               PROVE  b2[i] <= b2[j] /\ d2[i] <= d2[j]
    OBVIOUS
  <2>1. CASE i \in h .. n /\ j \in h .. n
    BY <1>20, <1>22, <2>1
  <2>2. CASE i \in h .. n /\ j = n + 1
    BY <1>16, <1>17, <1>20, <1>22, <2>2
  <2>3. CASE i = n + 1
    <3>1. j = n + 1
      BY <2>3
    <3>2. w <= w /\ y + x <= y + x
      OBVIOUS
    <3> QED
      BY <1>16, <1>17, <2>3, <3>1, <3>2
  <2> QED
    BY <1>21, <2>1, <2>2, <2>3
<1>24. \A j \in h .. n + 1 : b2[j] <= d2[j] /\ (o2[j] = FALSE => b2[j] = d2[j])
  <2> SUFFICES ASSUME NEW j \in h .. n + 1
               PROVE  b2[j] <= d2[j] /\ (o2[j] = FALSE => b2[j] = d2[j])
    OBVIOUS
  <2>1. CASE j \in h .. n
    BY <1>20, <1>22, <2>1
  <2>2. CASE j = n + 1
    <3>1. o2[j] = FALSE => a > z
      BY <1>18, <1>19, <2>2
    <3> QED
      BY <1>15, <1>16, <1>17, <2>2, <3>1
  <2> QED
    BY <1>21, <2>1, <2>2
<1>25. ASSUME NEW j \in 1 .. m PROVE Link(q, p, b2, d2, o2, h + j - 1, h + j, headers'[j])
  <2>1. j \in 1 .. Len(headers) /\ headers'[j] = headers[j]
    BY <1>6, <1>7
  <2>2. h + j \in h .. n /\ h + j - 1 \in h .. n
    BY <1>12
  <2>3. /\ b2[h + j] = b[h + j] /\ d2[h + j] = d[h + j] /\ o2[h + j] = o[h + j]
        /\ b2[h + j - 1] = b[h + j - 1] /\ d2[h + j - 1] = d[h + j - 1] /\ o2[h + j - 1] = o[h + j - 1]
    BY <1>22, <2>2
  <2>4. Link(q, p, b, d, o, h + j - 1, h + j, headers[j])
    BY <1>11, <2>1 DEF Chunks
  <2> QED
    BY <2>1, <2>3, <2>4 DEF Link
<1>26. Link(q, p, b2, d2, o2, n, n + 1, headers'[m + 1])
  <2>1. headers'[m + 1] = g
    BY <1>6, <1>7
  <2>2. b2[n] = b[n] /\ d2[n] = y /\ o2[n] = o[n]
    BY <1>12, <1>13, <1>16, <1>17, <1>18
  <2>3. o[n] = TRUE <=> headerPushed
    BY <1>1, <1>11 DEF Writing
  <2>4. ASSUME NEW k \in 1 .. x PROVE q[y + k - 1] = g.reads[k]
    <3>1. ~headerPushed /\ x = z
      BY <1>10
    <3>2. y + k - 1 = w + k - a /\ k \in 1 .. z
      BY <1>14, <3>1
    <3>3. q[w + k - at] = cmd.writes[k]
      BY <1>1, <1>8, <1>11, <3>1, <3>2 DEF Writing
    <3> QED
      BY <1>3, <1>9, <3>1, <3>2, <3>3
  <2>5. headerPushed => g.reads = <<>>
    BY <1>3
  <2>6. v => \A i \in b[n] .. w - 1 : p[i] # p[w]
    BY <1>1, <1>2, ChunkEnds
  <2>7. o[n] \in BOOLEAN
    OBVIOUS
  <2> QED
    BY <1>1, <1>3, <1>10, <1>11, <1>16, <1>17, <1>18, <2>1, <2>2, <2>3, <2>4, <2>5, <2>6, <2>7 DEF Link
<1>27. Chunks(q, p, b2, d2, o2, r, w, h, n + 1)'
  <2>1. Len(headers') = m + 1 /\ n + 1 = h + (m + 1)
    BY <1>6, <1>7, <1>12
  <2>2. r <= b2[h] /\ b2[n + 1] <= w
    <3>1. h \in h .. n
      BY <1>12
    <3> QED
      BY <1>12, <1>16, <1>22, <3>1
  <2>3. \A j \in 1 .. m + 1 : j \in 1 .. m \/ (j = m + 1 /\ h + j = n + 1 /\ h + j - 1 = n)
    BY <1>12
  <2>4. ASSUME NEW j \in 1 .. m + 1 PROVE Link(q, p, b2, d2, o2, h + j - 1, h + j, headers'[j])
    <3>1. CASE j \in 1 .. m
      BY <1>25, <3>1
    <3>2. CASE j = m + 1 /\ h + j = n + 1 /\ h + j - 1 = n
      BY <1>26, <3>2
    <3> QED
      BY <2>3, <3>1, <3>2
  <2> QED
    BY <1>23, <1>24, <2>1, <2>2, <2>4 DEF Chunks
<1>28. d2[n + 1] + at = w + Len(cmd.writes) + 1
  BY <1>8, <1>9, <1>15, <1>17
<1>29. /\ \A j \in Nat : j <= n => b2[j] = b[j] /\ d2[j] = d[j] /\ o2[j] = o[j]
       /\ b2[n + 1] = w /\ (o2[n + 1] = TRUE <=> wpc' = "next")
  BY <1>1, <1>16, <1>17, <1>18
<1> QED
  BY <1>27, <1>28, <1>29, Zenon DEF Pushed

\* A chunk's header, or the command's, is sent.
LEMMA PushSafe ==
  ASSUME Types,
         NEW q \in [Nat -> Item], NEW p \in [Nat -> Pos], NEW l \in [Nat -> Nat], NEW b \in [Nat -> Nat],
         NEW d \in [Nat -> Nat], NEW o \in [Nat -> BOOLEAN],
         NEW r \in Nat, NEW w \in Nat, NEW h \in Nat, NEW n \in Nat, NEW s \in Nat,
         Safe(q, p, l, b, d, o, r, w, h, n, s), Publish \/ Finish, UNCHANGED load
  PROVE  Witnessed'
<1>1. PICK b2 \in [Nat -> Nat], d2 \in [Nat -> Nat], o2 \in [Nat -> BOOLEAN] :
           /\ Chunks(q, p, b2, d2, o2, r, w, h, n + 1)'
           /\ \A j \in Nat : j <= n => b2[j] = b[j] /\ d2[j] = d[j] /\ o2[j] = o[j]
           /\ b2[n + 1] = w /\ (o2[n + 1] = TRUE <=> wpc' = "next")
           /\ d2[n + 1] + at = w + Len(cmd.writes) + 1
  <2>1. Pushed(q, p, b, d, o, r, w, h, n)
    BY PushChunk
  <2> QED
    BY <2>1, Zenon DEF Pushed
<1>2. /\ UNCHANGED <<wpos, unread, serverPos, rpos, rpc, resetRequired, cmd, at, reader>>
      /\ wpc = "next" /\ wpc' \in {"idle", "next"}
  BY DEF Publish, Finish, GotoW, fields, reader
<1>3. Path(q, p, l, r, w, s)'
  BY <1>2, PathKept DEF Safe
<1>4. Room(l, r, w, s)' /\ Decides(l, b2, w, n + 1, s)'
  <2>1. ~Ahead /\ ~Ahead'
    BY <1>2 DEF Ahead
  <2> QED
    BY <1>2, <2>1 DEF Safe, Room, Decides, Deciding
<1>5. Reading(q, p, b2, d2, o2, r, h)'
  <2>1. b2[h] = b[h] /\ d2[h] = d[h] /\ o2[h] = o[h]
    BY <1>1 DEF Safe
  <2>2. Reading(q, p, b, d, o, r, h)'
    BY <1>2, ReadingKept DEF Safe
  <2> QED
    BY <2>1, <2>2 DEF Reading
<1>6. Writing(q, p, l, b2, d2, o2, w, n + 1)'
  <2>1. Writing(q, p, l, b, d, o, w, n) /\ p[w] = wpos
    BY DEF Safe, Path
  <2>2. CASE Publish
    <3>1. /\ wpc' = "next" /\ start' = wpos /\ headerPushed' = TRUE /\ cmd.streamable
      BY <2>2 DEF Publish, NeedsPublish, Finish, GotoW
    <3>2. \A k \in 1 .. Len(cmd.writes) : k >= at => q[w + k - at] = cmd.writes[k]
      BY <1>2, <2>1 DEF Writing
    <3>3. o2[n + 1] = TRUE /\ start' = p[b2[n + 1]] /\ l[w] = l[b2[n + 1]]
      BY <1>1, <2>1, <3>1
    <3> QED
      BY <1>1, <1>2, <3>1, <3>2, <3>3 DEF Writing
  <2>3. CASE Finish
    <3>1. wpc' = "idle"
      BY <2>3 DEF Finish, Publish, GotoW
    <3>2. o2[n + 1] \in BOOLEAN
      OBVIOUS
    <3>3. o2[n + 1] = FALSE
      BY <1>1, <3>1, <3>2
    <3> QED
      BY <1>1, <3>1, <3>3 DEF Writing
  <2> QED
    BY <2>2, <2>3
<1>7. r <= w /\ h <= n + 1
  BY DEF Safe
<1>8. Safe(q, p, l, b2, d2, o2, r, w, h, n + 1, s)'
  BY <1>1, <1>3, <1>4, <1>5, <1>6, <1>7 DEF Safe
<1>9. n + 1 \in Nat
  OBVIOUS
<1> QED
  BY <1>8, <1>9, Zenon DEF Witnessed

-----------------------------------------------------------------------------
(* The reader's steps *)

\* A reader's step that moves no shared field keeps what the writer knows.
LEMMA DecidesKept ==
  ASSUME NEW l, NEW b, NEW w, NEW n, NEW s, Decides(l, b, w, n, s), UNCHANGED writer,
         serverPos' = serverPos, resetRequired' => resetRequired
  PROVE  Decides(l, b, w, n, s)'
<1>1. UNCHANGED <<wpc, wpos, start, cmd, at, lapBehind>>
  BY DEF writer
<1>2. /\ Wraps' = Wraps /\ BatchWrapped' = BatchWrapped /\ ReachesBatchStart' = ReachesBatchStart
      /\ Laps(wpos, W)' = Laps(wpos, W) /\ Fits(l, w, s)' = Fits(l, w, s)
  BY <1>1, NumbersKept
<1>3. Reached(l, b, n, s) => Reached(l, b, n, s)'
  BY <1>1, <1>2 DEF Reached
<1> QED
  BY <1>1, <1>2, <1>3 DEF Decides

\* A reader's step changes nothing of what is written next.
LEMMA AheadKept == ASSUME UNCHANGED writer PROVE Ahead' = Ahead
<1>1. UNCHANGED <<wpc, wpos, start, cmd, at>>
  BY DEF writer
<1>2. Laps(wpos, W)' = Laps(wpos, W)
  BY <1>1, NumbersKept
<1> QED
  BY <1>1, <1>2 DEF Ahead

\* A reader's step keeps what the writer has of its command.
LEMMA WritingStays ==
  ASSUME NEW q, NEW p, NEW l, NEW b, NEW d, NEW o, NEW w, NEW n, UNCHANGED writer,
         Writing(q, p, l, b, d, o, w, n)
  PROVE  Writing(q, p, l, b, d, o, w, n)'
BY WritingKept DEF writer

\* Where the reader is among the items.
Among(p, l, b, d, r, w, h, n, s) ==
  /\ Ordered(p, l, r, w, s)
  /\ h \in h .. n /\ r \in r .. w /\ w \in r .. w
  /\ r <= b[h] /\ b[h] <= b[n] /\ b[n] <= w /\ b[h] <= d[h] /\ d[h] <= d[n]
  /\ b[h] \in Nat /\ d[h] \in Nat /\ b[n] \in Nat /\ d[n] \in Nat
  /\ b[h] \in r .. w /\ b[n] \in r .. w

\* The reader, the ends of the headers and the writer are in this order.
LEMMA ReaderAmong ==
  ASSUME Types,
         NEW q \in [Nat -> Item], NEW p \in [Nat -> Pos], NEW l \in [Nat -> Nat], NEW b \in [Nat -> Nat],
         NEW d \in [Nat -> Nat], NEW o \in [Nat -> BOOLEAN],
         NEW r \in Nat, NEW w \in Nat, NEW h \in Nat, NEW n \in Nat, NEW s \in Nat,
         Safe(q, p, l, b, d, o, r, w, h, n, s)
  PROVE  Among(p, l, b, d, r, w, h, n, s)
<1>1. Ordered(p, l, r, w, s)
  BY Order DEF Safe, Path, Types, Positions
<1>2. h \in h .. n /\ n \in h .. n /\ h <= n /\ r <= w
  BY DEF Safe
<1>3. /\ r <= b[h] /\ b[h] <= b[n] /\ b[n] <= w /\ b[h] <= d[h] /\ d[h] <= d[n]
  BY <1>2 DEF Safe, Chunks
<1>4. b[h] \in Nat /\ d[h] \in Nat /\ b[n] \in Nat /\ d[n] \in Nat
  OBVIOUS
<1> QED
  BY <1>1, <1>2, <1>3, <1>4 DEF Among

\* The next header: a command's first, or the next chunk's.
LEMMA TakeSafe ==
  ASSUME Types,
         NEW q \in [Nat -> Item], NEW p \in [Nat -> Pos], NEW l \in [Nat -> Nat], NEW b \in [Nat -> Nat],
         NEW d \in [Nat -> Nat], NEW o \in [Nat -> BOOLEAN],
         NEW r \in Nat, NEW w \in Nat, NEW h \in Nat, NEW n \in Nat, NEW s \in Nat,
         Safe(q, p, l, b, d, o, r, w, h, n, s), Receive \/ NextChunk, UNCHANGED load
  PROVE  Witnessed'
<1>1. /\ UNCHANGED <<writer, wpos, resetRequired, serverPos, unread, rpos>>
      /\ rpc \in {"idle", "chunk"} /\ rpc' = "read"
      /\ headers # <<>> /\ headers' = Tail(headers)
  BY DEF Receive, NextChunk, GotoR, fields, writer
<1>2. headers \in Seq(HeaderType) /\ Len(headers) \in Nat
  BY Lengths DEF Types
<1>3. PICK m \in Nat : m = Len(headers')
  BY <1>1, <1>2, Tails
<1>4. /\ Len(headers) = m + 1 /\ Head(headers) = headers[1]
      /\ \A j \in 1 .. m : headers'[j] = headers[j + 1]
  BY <1>1, <1>2, <1>3, Tails
<1>5. Among(p, l, b, d, r, w, h, n, s)
  BY ReaderAmong
<1>6. Chunks(q, p, b, d, o, r, w, h, n) /\ Reading(q, p, b, d, o, r, h)
  BY DEF Safe
<1>7. n = h + (m + 1) /\ h + 1 \in Nat /\ h + 1 <= n /\ h + 1 \in h .. n
  <2>1. n = h + (m + 1)
    BY <1>4, <1>6 DEF Chunks
  <2> QED
    BY <2>1
<1>8. /\ \A i, j \in h .. n : i <= j => b[i] <= b[j] /\ d[i] <= d[j]
      /\ \A j \in h .. n : b[j] <= d[j] /\ (o[j] = FALSE => b[j] = d[j])
  BY <1>6 DEF Chunks
<1>9. \A j \in 1 .. m + 1 : Link(q, p, b, d, o, h + j - 1, h + j, headers[j])
  BY <1>4, <1>6 DEF Chunks
<1> DEFINE g == headers[1]
<1>10. /\ g.offset = p[b[h + 1]]
       /\ o[h + 1] = TRUE <=> g.streamed /\ ~g.end
       /\ d[h + 1] = d[h] + Len(g.reads)
       /\ \A k \in 1 .. Len(g.reads) : q[d[h] + k - 1] = g.reads[k]
       /\ o[h] = TRUE => g.streamed /\ g.reads = <<>>
       /\ o[h] = FALSE => ~g.end
       /\ g.streamed => \A i \in b[h] .. b[h + 1] - 1 : p[i] # p[b[h + 1]]
  <2>1. 1 \in 1 .. m + 1 /\ h + 1 - 1 = h
    OBVIOUS
  <2>2. Link(q, p, b, d, o, h, h + 1, headers[1])
    BY <1>9, <2>1
  <2> QED
    BY <2>2 DEF Link
<1>11. r = b[h] /\ (rpc = "idle" => ~ReadMore) /\ (rpc = "chunk" => ReadMore)
       /\ (o[h] = TRUE <=> ReadMore) /\ d[h] = r + Len(reads)
  BY <1>1, <1>6 DEF Reading
<1>12. Chunks(q, p, b, d, o, r, w, h + 1, n)'
  <2>1. r <= b[h + 1] /\ b[n] <= w
    <3>1. b[h] <= b[h + 1] /\ b[h + 1] \in Nat
      <4>1. h \in h .. n /\ h <= h + 1
        BY <1>7
      <4> QED
        BY <1>7, <1>8, <4>1
    <3> QED
      BY <1>5, <3>1 DEF Among
  <2>2. n = (h + 1) + m
    BY <1>7
  <2>3. \A j \in h + 1 .. n : j \in h .. n
    OBVIOUS
  <2>4. ASSUME NEW j \in 1 .. m
        PROVE  Link(q, p, b, d, o, (h + 1) + j - 1, (h + 1) + j, headers'[j])
    <3>1. j + 1 \in 1 .. m + 1 /\ h + (j + 1) = (h + 1) + j /\ h + (j + 1) - 1 = (h + 1) + j - 1
      OBVIOUS
    <3>2. headers'[j] = headers[j + 1]
      BY <1>4
    <3> QED
      BY <1>9, <3>1, <3>2
  <2> QED
    BY <1>3, <1>8, <2>1, <2>2, <2>3, <2>4 DEF Chunks
<1>13. Reading(q, p, b, d, o, r, h + 1)'
  <2>1. CASE Receive
    <3>1. /\ reads' = g.reads /\ readEnd' = g.offset /\ streamed' = g.streamed
          /\ ended' = ~g.streamed /\ rpc = "idle"
      BY <1>4, <2>1 DEF Receive, GotoR
    <3>2. o[h] = FALSE
      BY <1>11, <3>1
    <3>3. ~g.end /\ d[h] = r
      BY <1>8, <1>10, <1>11, <1>7, <1>5, <3>2 DEF Among
    <3>4. ReadMore' <=> g.streamed
      BY <3>1 DEF ReadMore
    <3> QED
      BY <1>1, <1>10, <1>11, <3>1, <3>3, <3>4 DEF Reading
  <2>2. CASE NextChunk
    <3>1. /\ readEnd' = g.offset /\ ended' = g.end /\ UNCHANGED <<reads, streamed>> /\ rpc = "chunk"
      BY <1>4, <2>2 DEF NextChunk, GotoR
    <3>2. o[h] = TRUE /\ streamed
      BY <1>11, <3>1 DEF ReadMore
    <3>3. g.streamed /\ g.reads = <<>>
      BY <1>10, <3>2
    <3>4. d[h + 1] = d[h]
      BY <1>5, <1>10, <3>3 DEF Among
    <3>5. \A k \in 1 .. Len(reads) : q[r + k - 1] = reads[k]
      BY <1>6 DEF Reading
    <3>6. ReadMore' <=> ~g.end
      BY <3>1, <3>2 DEF ReadMore
    <3> QED
      BY <1>1, <1>10, <1>11, <3>1, <3>3, <3>4, <3>5, <3>6 DEF Reading
  <2> QED
    BY <2>1, <2>2
<1>14. Path(q, p, l, r, w, s)' /\ Writing(q, p, l, b, d, o, w, n)'
  BY <1>1, PathKept, WritingStays DEF Safe
<1>15. Room(l, r, w, s)' /\ Decides(l, b, w, n, s)'
  <2>1. Decides(l, b, w, n, s)' /\ Ahead' = Ahead
    BY <1>1, AheadKept, DecidesKept DEF Safe
  <2> QED
    BY <1>1, <2>1 DEF Safe, Room
<1>16. Safe(q, p, l, b, d, o, r, w, h + 1, n, s)'
  BY <1>7, <1>12, <1>13, <1>14, <1>15 DEF Safe
<1> QED
  BY <1>7, <1>16, Zenon DEF Witnessed

\* noteReadWrap: the reader's published position enters the lap its words are in.
LEMMA WrapSafe ==
  ASSUME Types,
         NEW q \in [Nat -> Item], NEW p \in [Nat -> Pos], NEW l \in [Nat -> Nat], NEW b \in [Nat -> Nat],
         NEW d \in [Nat -> Nat], NEW o \in [Nat -> BOOLEAN],
         NEW r \in Nat, NEW w \in Nat, NEW h \in Nat, NEW n \in Nat, NEW s \in Nat,
         Safe(q, p, l, b, d, o, r, w, h, n, s), WrapPos, UNCHANGED load
  PROVE  Witnessed'
<1>1. /\ UNCHANGED <<writer, wpc, wpos, start, cmd, at, lapBehind, unread, rpos, headers, reads, readEnd,
                     streamed, ended>>
      /\ rpc = "wrapPos" /\ serverPos' = 0 /\ resetRequired \in BOOLEAN
      /\ load.wrapAtOnce => rpc' = "read" /\ resetRequired' = FALSE
      /\ ~load.wrapAtOnce => rpc' = "wrapFlag" /\ resetRequired' = resetRequired
  BY DEF WrapPos, GotoR, writer, Types, Positions
<1>2. Among(p, l, b, d, r, w, h, n, s)
  BY ReaderAmong
<1>3. /\ l[r] = s + 1 /\ Room(l, r, w, s)
      /\ Decides(l, b, w, n, s) /\ Lies(q, p, l, r, w, s)
  BY <1>1 DEF Safe, Room, Path
<1>4. /\ l[w] = s + 1 /\ l[b[n]] = s + 1
  <2>1. /\ l[w] \in {s, s + 1} /\ l[b[n]] \in {s, s + 1}
        /\ l[r] <= l[w] /\ l[r] <= l[b[n]]
    <3>1. /\ r \in r .. w /\ w \in r .. w /\ b[n] \in r .. w /\ r <= w /\ r <= b[n]
      BY <1>2 DEF Among
    <3> QED
      BY <1>2, <3>1 DEF Among, Ordered
  <2> QED
    BY <1>3, <2>1
<1>5. wpc \in {"setFlag", "write"} => ~Laps(wpos, W)
  BY <1>3, <1>4 DEF Decides, Fits
<1>6. ~Ahead /\ ~Ahead'
  BY <1>1, <1>5, AheadKept DEF Ahead
<1>7. Path(q, p, l, r, w, s + 1)'
  <2>1. \A k \in Nat : p[k] \in Nat
    BY DEF Pos
  <2>2. Lies(q, p, l, r, w, s + 1)'
    <3>1. s + 1 = l[r] /\ 0 <= p[r] /\ l[w] <= s + 1
      BY <1>3, <1>4, <2>1
    <3>2. serverPos' <= p[r]
      BY <1>1, <3>1
    <3> QED
      BY <1>3, <3>1, <3>2 DEF Lies
  <2> QED
    BY <1>1, <2>2 DEF Safe, Path
<1>8. Room(l, r, w, s + 1)'
  <2>1. resetRequired
    BY <1>3, <1>4 DEF Room
  <2>2. l[w] # s + 1 + 1 /\ l[r] = s + 1
    BY <1>3, <1>4
  <2> QED
    BY <1>1, <1>4, <1>6, <2>1, <2>2 DEF Room
<1>9. Decides(l, b, w, n, s + 1)'
  <2>1. /\ Wraps' = Wraps /\ BatchWrapped' = BatchWrapped /\ ReachesBatchStart' = ReachesBatchStart
        /\ Laps(wpos, W)' = Laps(wpos, W)
    BY <1>1, NumbersKept
  <2>2. resetRequired' => resetRequired
    BY <1>1
  <2>3. wpc # "withdraw"
    <3>1. l[b[n]] # s
      BY <1>4
    <3> QED
      BY <1>3, <3>1 DEF Decides, Reached
  <2>4. wpc \in {"setFlag", "write"} => Fits(l, w, s + 1)'
    <3>1. l[w] # s + 1 + 1
      BY <1>4
    <3> QED
      BY <1>5, <2>1, <3>1 DEF Fits
  <2> QED
    BY <1>1, <1>3, <2>1, <2>2, <2>3, <2>4 DEF Decides
<1>10. Chunks(q, p, b, d, o, r, w, h, n)' /\ Writing(q, p, l, b, d, o, w, n)'
  BY <1>1, ChunksKept, WritingStays DEF Safe
<1>11. Reading(q, p, b, d, o, r, h)'
  BY <1>1 DEF Safe, Reading, ReadMore
<1>12. Safe(q, p, l, b, d, o, r, w, h, n, s + 1)'
  BY <1>7, <1>8, <1>9, <1>10, <1>11 DEF Safe
<1>13. s + 1 \in Nat
  OBVIOUS
<1> QED
  BY <1>12, <1>13, Zenon DEF Witnessed

\* The second store of noteReadWrap, and the steps of releaseReadData.
LEMMA ReleaseSafe ==
  ASSUME Types,
         NEW q \in [Nat -> Item], NEW p \in [Nat -> Pos], NEW l \in [Nat -> Nat], NEW b \in [Nat -> Nat],
         NEW d \in [Nat -> Nat], NEW o \in [Nat -> BOOLEAN],
         NEW r \in Nat, NEW w \in Nat, NEW h \in Nat, NEW n \in Nat, NEW s \in Nat,
         Safe(q, p, l, b, d, o, r, w, h, n, s),
         WrapFlag \/ Release \/ ReleasePos \/ TestExpected \/ TestReset \/ ClearExpected \/ Signal,
         UNCHANGED load
  PROVE  Witnessed'
<1> SUFFICES Safe(q, p, l, b, d, o, r, w, h, n, s)'
  BY Zenon DEF Witnessed
<1>1. /\ UNCHANGED <<writer, wpc, wpos, start, cmd, at, lapBehind, unread, rpos, headers, reads, readEnd,
                     streamed, ended>>
      /\ rpc # "wrapPos" /\ rpc' # "wrapPos" /\ rpc' # "wrapFlag"
  BY DEF WrapFlag, Release, ReleasePos, TestExpected, TestReset, ClearExpected, Signal, GotoR,
         AfterRelease, fields, writer
<1>2. Among(p, l, b, d, r, w, h, n, s)
  BY ReaderAmong
<1>3. /\ Room(l, r, w, s) /\ Lies(q, p, l, r, w, s) /\ p[r] = rpos /\ p[w] = wpos
      /\ Reading(q, p, b, d, o, r, h) /\ Chunks(q, p, b, d, o, r, w, h, n)
      /\ Writing(q, p, l, b, d, o, w, n) /\ Decides(l, b, w, n, s)
  BY DEF Safe, Path
<1>4. Ahead' = Ahead /\ Chunks(q, p, b, d, o, r, w, h, n)' /\ Writing(q, p, l, b, d, o, w, n)'
  BY <1>1, <1>3, ChunksKept, WritingStays, AheadKept
<1>5. ASSUME serverPos' = serverPos PROVE Path(q, p, l, r, w, s)'
  BY <1>1, <1>5, PathKept DEF Safe
<1>6. CASE WrapFlag
  <2>1. rpc = "wrapFlag" /\ rpc' = "read" /\ resetRequired' = FALSE /\ serverPos' = serverPos
    BY <1>6 DEF WrapFlag, GotoR
  <2>2. Room(l, r, w, s)'
    <3>1. l[w] # s + 1
      BY <1>3, <2>1 DEF Room
    <3> QED
      BY <1>1, <1>3, <1>4, <2>1, <3>1 DEF Room
  <2>3. Decides(l, b, w, n, s)'
    BY <1>1, <1>3, <2>1, DecidesKept
  <2>4. Reading(q, p, b, d, o, r, h)'
    BY <1>1, <1>3, <2>1 DEF Reading, ReadMore
  <2> QED
    BY <1>4, <1>5, <2>1, <2>2, <2>3, <2>4 DEF Safe
<1>7. ASSUME rpc # "wrapFlag", resetRequired' = resetRequired PROVE Room(l, r, w, s)'
  BY <1>1, <1>3, <1>4, <1>7 DEF Room
<1>8. CASE Release
  <2>1. /\ rpc = "read" /\ serverPos' = serverPos /\ resetRequired' = resetRequired
        /\ reads = <<>> \/ (streamed /\ rpos = readEnd)
        /\ rpc' = IF rpos = readEnd /\ (reads = <<>> \/ ~ended) THEN "release" ELSE "outOfStep"
    BY <1>8 DEF Release, AllPublishedRead, fields
  <2>2. r = b[h]
    <3>1. CASE reads = <<>>
      <4>1. d[h] = r
        BY <1>3, <3>1 DEF Reading
      <4> QED
        BY <1>2, <4>1 DEF Among
    <3>2. CASE streamed /\ rpos = readEnd
      <4>1. \A i \in r .. b[h] - 1 : p[i] # p[b[h]]
        BY <1>3, <3>2 DEF Reading
      <4>2. p[r] = p[b[h]]
        BY <1>3, <3>2 DEF Reading
      <4>3. r <= b[h] /\ b[h] \in Nat
        BY <1>2 DEF Among
      <4>4. r # b[h] => r \in r .. b[h] - 1
        BY <4>3, SMTT(30)
      <4> QED
        BY <4>1, <4>2, <4>4
    <3> QED
      BY <2>1, <3>1, <3>2
  <2>3. rpos = readEnd
    BY <1>3, <2>2 DEF Reading
  <2>4. reads = <<>> \/ ~ended
    <3> SUFFICES ASSUME ended PROVE reads = <<>>
      OBVIOUS
    <3>1. o[h] = FALSE
      BY <1>3 DEF Reading, ReadMore
    <3>2. b[h] = d[h]
      BY <1>2, <1>3, <3>1 DEF Chunks, Among
    <3>3. PICK m \in Nat : m = Len(reads)
      BY Lengths DEF Types
    <3>4. r = r + m
      BY <1>3, <2>2, <3>2, <3>3 DEF Reading
    <3>5. m = 0
      BY <3>4
    <3> QED
      BY <3>3, <3>5, Lengths DEF Types
  <2>5. rpc' = "release"
    BY <2>1, <2>3, <2>4
  <2>6. Reading(q, p, b, d, o, r, h)'
    BY <1>1, <1>3, <2>2, <2>5 DEF Reading, ReadMore
  <2>7. Decides(l, b, w, n, s)'
    BY <1>1, <1>3, <2>1, DecidesKept
  <2> QED
    BY <1>4, <1>5, <1>7, <2>1, <2>6, <2>7 DEF Safe
<1>9. CASE ReleasePos
  <2>1. rpc = "release" /\ rpc' = "testExpected" /\ serverPos' = rpos /\ resetRequired' = resetRequired
    BY <1>9 DEF ReleasePos, GotoR
  <2>2. /\ l[r] = s /\ serverPos <= p[r] /\ serverPos \in Nat /\ p[r] \in Nat /\ p[w] \in Nat
        /\ l[w] <= s \/ (l[w] = s + 1 /\ p[w] <= serverPos)
    BY <1>3, <2>1 DEF Room, Lies, Types, Positions, Pos
  <2>3. Lies(q, p, l, r, w, s)'
    <3>1. /\ s < l[r] \/ (s = l[r] /\ serverPos' <= p[r])
          /\ l[w] <= s \/ (l[w] = s + 1 /\ p[w] <= serverPos')
      BY <1>3, <2>1, <2>2
    <3> QED
      BY <1>3, <3>1 DEF Lies
  <2>4. Path(q, p, l, r, w, s)'
    BY <1>1, <1>3, <2>3 DEF Safe, Path
  <2>5. Reading(q, p, b, d, o, r, h)'
    BY <1>1, <1>3, <2>1 DEF Reading, ReadMore
  <2>6. Decides(l, b, w, n, s)'
    <3>1. /\ Wraps' = Wraps /\ BatchWrapped' = BatchWrapped /\ ReachesBatchStart' = ReachesBatchStart
          /\ Laps(wpos, W)' = Laps(wpos, W) /\ W' = W
      BY <1>1, NumbersKept
    <3>2. ASSUME wpc = "withdraw" PROVE Reached(l, b, n, s)'
      <4>1. Reached(l, b, n, s) /\ start = p[b[n]]
        BY <1>3, <3>2 DEF Decides, Writing
      <4>2. r = b[n]
        <5>1. /\ l[r] = s /\ l[b[n]] = s /\ p[b[n]] = serverPos
          BY <2>2, <4>1 DEF Reached
        <5>2. r < b[n] => p[r] < p[b[n]]
          BY <1>2, <5>1 DEF Among, Ordered
        <5>3. r <= b[n] /\ r \in Nat /\ b[n] \in Nat
          BY <1>2 DEF Among
        <5> QED
          BY <2>2, <5>1, <5>2, <5>3
      <4> QED
        BY <1>1, <1>3, <2>1, <3>1, <4>1, <4>2 DEF Reached
    <3>3. ASSUME Fits(l, w, s), wpc \in {"setFlag", "write"} PROVE Fits(l, w, s)'
      <4>1. PICK x \in Nat : x = serverPos
        BY <2>2
      <4>2. PICK y \in Nat : y = p[r]
        BY <2>2
      <4>3. x <= y /\ serverPos' = y
        BY <1>3, <2>1, <2>2, <4>1, <4>2
      <4>4. After(wpos, W) \in Nat /\ wpos + W.words \in Nat
        <5>1. wpc \in InWrite
          BY <3>3 DEF InWrite, Deciding
        <5>2. W \in Item /\ wpos \in Pos /\ wpos \in 0 .. Size - 1 /\ W.words \in 1 .. Size /\ Size \in Nat
          BY <5>1, Numbers DEF Pos
        <5>3. After(wpos, W) \in Pos
          BY <5>2, AfterIs
        <5>4. \A x2 \in 0 .. Size - 1, y2 \in 1 .. Size : x2 + y2 \in Nat
          BY <5>2
        <5> QED
          BY <5>2, <5>3, <5>4 DEF Pos
      <4>5. /\ Laps(wpos, W) => l[w] = s /\ After(wpos, W) <= y
            /\ ~Laps(wpos, W) /\ l[w] = s + 1 => wpos + W.words <= y
        BY <3>3, <4>1, <4>3, <4>4 DEF Fits
      <4> QED
        BY <1>1, <3>1, <4>3, <4>5 DEF Fits
    <3> QED
      BY <1>1, <1>3, <2>1, <3>1, <3>2, <3>3 DEF Decides
  <2> QED
    BY <1>4, <1>7, <2>1, <2>4, <2>5, <2>6 DEF Safe
<1>10. CASE TestExpected \/ TestReset \/ ClearExpected \/ Signal
  <2>1. /\ rpc \in {"testExpected", "testReset", "clearExpected", "signal"}
        /\ rpc' \in {"testReset", "clearExpected", "signal", AfterRelease}
        /\ serverPos' = serverPos /\ resetRequired' = resetRequired
    BY <1>10 DEF TestExpected, TestReset, ClearExpected, Signal, GotoR, fields
  <2>2. Reading(q, p, b, d, o, r, h)'
    BY <1>1, <1>3, <2>1 DEF Reading, ReadMore, AfterRelease
  <2>3. Decides(l, b, w, n, s)'
    BY <1>1, <1>3, <2>1, DecidesKept
  <2> QED
    BY <1>4, <1>5, <1>7, <2>1, <2>2, <2>3 DEF Safe
<1> QED
  BY <1>6, <1>8, <1>9, <1>10

\* get_data reads an item that is written, and notices when it passes the ring's end.
Pulls(q, p, l, b, d, r, w, h, s) ==
  /\ r < b[h] /\ r < w /\ r < d[h]
  /\ q[r] = R /\ p[r] = rpos /\ l[r] = s
  /\ Laps(rpos, Unit) <=> After(rpos, Unit) < rpos
  /\ WordsOf(rpos, Unit) \subseteq WordsOf(rpos, R)

\* The next read finds the item that was written for it.
LEMMA PullAt ==
  ASSUME Types,
         NEW q \in [Nat -> Item], NEW p \in [Nat -> Pos], NEW l \in [Nat -> Nat], NEW b \in [Nat -> Nat],
         NEW d \in [Nat -> Nat], NEW o \in [Nat -> BOOLEAN],
         NEW r \in Nat, NEW w \in Nat, NEW h \in Nat, NEW n \in Nat, NEW s \in Nat,
         Safe(q, p, l, b, d, o, r, w, h, n, s), rpc = "read", reads # <<>>, ~AllPublishedRead
  PROVE  Pulls(q, p, l, b, d, r, w, h, s)
<1>1. Among(p, l, b, d, r, w, h, n, s)
  BY ReaderAmong
<1>2. /\ R \in Item /\ Unit \in Item /\ Len(reads) >= 1 /\ R = reads[1]
      /\ R.blob \/ R.words = 1 => Unit = R
      /\ ~R.blob => Unit = [R EXCEPT !.words = 1]
      /\ R # Unit => ~R.blob /\ R.words # 1 /\ [R EXCEPT !.words = R.words - 1] \in Item
  BY NextItems
<1>3. PICK m \in Nat : m = Len(reads) /\ m >= 1
  BY <1>2, Lengths DEF Types
<1>4. Reading(q, p, b, d, o, r, h) /\ p[r] = rpos /\ l[r] = s
  BY DEF Safe, Path, Room
<1>5. d[h] = r + m /\ q[r] = R
  <2>1. 1 \in 1 .. Len(reads) /\ r + 1 - 1 = r
    BY <1>3
  <2> QED
    BY <1>2, <1>3, <1>4, <2>1 DEF Reading
<1>6. r < d[h]
  BY <1>3, <1>5
<1>7. r # b[h]
  <2>1. CASE streamed
    BY <1>4, <2>1 DEF Reading, AllPublishedRead
  <2>2. CASE ~streamed
    <3>1. o[h] = FALSE
      BY <1>4, <2>2 DEF Reading, ReadMore
    <3>2. b[h] = d[h]
      BY <1>1, <3>1 DEF Among, Safe, Chunks
    <3> QED
      BY <1>6, <3>2
  <2> QED
    BY <2>1, <2>2
<1>8. r < b[h] /\ r < w
  <2>1. r <= b[h] /\ b[h] <= b[n] /\ b[n] <= w /\ b[h] \in Nat /\ b[n] \in Nat
    BY <1>1 DEF Among
  <2>2. \A x, y \in Nat : r <= x /\ r # x /\ x <= y /\ y <= w => r < x /\ r < w
    OBVIOUS
  <2> QED
    BY <1>7, <2>1, <2>2
<1>9. rpos \in Pos /\ rpos \in Nat /\ Size \in Nat \ {0, 1} /\ rpos <= Size - 1
  BY RingAssumption DEF Types, Positions, Pos
<1>10. Laps(rpos, Unit) <=> After(rpos, Unit) < rpos
  <2>1. /\ After(rpos, Unit) \in Pos /\ After(rpos, Unit) \in Nat
        /\ ~Laps(rpos, Unit) => After(rpos, Unit) = rpos + Unit.words
        /\ Laps(rpos, Unit) /\ ~Unit.blob => After(rpos, Unit) = rpos + Unit.words - Size
    BY <1>2, <1>9, AfterIs DEF Pos
  <2>2. Unit.words \in 1 .. Size /\ Unit.blob \in BOOLEAN
    BY <1>2, ItemsAre
  <2>3. CASE ~Laps(rpos, Unit)
    <3>1. \A x \in 0 .. Size - 1, y \in 1 .. Size : ~ (x + y < x)
      BY <1>9
    <3>2. rpos \in 0 .. Size - 1
      BY <1>9
    <3> QED
      BY <2>1, <2>2, <2>3, <3>1, <3>2
  <2>4. CASE Laps(rpos, Unit) /\ R.blob
    <3>1. Unit = R
      BY <1>2, <2>4
    <3>2. r \in r .. w - 1
      BY <1>8
    <3>3. p[r + 1] = After(p[r], q[r]) /\ p[r + 1] < p[r]
      BY <1>4, <1>5, <2>4, <3>1, <3>2 DEF Safe, Path, Lies
    <3> QED
      BY <1>4, <1>5, <2>4, <3>1, <3>3
  <2>5. CASE Laps(rpos, Unit) /\ ~R.blob
    <3>1. Unit.words = 1 /\ ~Unit.blob
      BY <1>2, <2>5 DEF Item
    <3>2. rpos + 1 >= Size
      BY <2>5, <3>1 DEF Laps
    <3> QED
      BY <1>9, <2>1, <2>5, <3>1, <3>2
  <2> QED
    BY <2>3, <2>4, <2>5
<1>11. WordsOf(rpos, Unit) \subseteq WordsOf(rpos, R)
  <2>1. CASE R = Unit
    BY <2>1
  <2>2. CASE R # Unit
    <3>1. /\ ~R.blob /\ R.words # 1 /\ [R EXCEPT !.words = R.words - 1] \in Item
          /\ Unit = [R EXCEPT !.words = 1]
      BY <1>2, <2>2
    <3>2. PICK g \in Item : g = [R EXCEPT !.words = R.words - 1]
      BY <3>1
    <3>3. ~Unit.blob /\ Unit.words = 1 /\ ~g.blob /\ g.words = R.words - 1
      BY <1>2, <3>1, <3>2 DEF Item
    <3>4. Splits(rpos, R, Unit, g)
      BY <1>2, <1>9, <3>1, <3>3, FirstWord
    <3>5. rpos \in WordsOf(rpos, R)
      <4>1. R.words \in 1 .. Size
        BY <1>2, ItemsAre
      <4>2. /\ ~Laps(rpos, R) => rpos <= rpos /\ rpos < rpos + R.words
            /\ Laps(rpos, R) => rpos <= rpos
        <5>1. \A x \in Nat, y \in 1 .. Size : x <= x /\ x < x + y
          BY <1>9
        <5> QED
          BY <1>9, <4>1, <5>1
      <4> QED
        BY <1>2, <1>9, <3>1, <4>2, WordsAre
    <3> QED
      BY <3>4, <3>5 DEF Splits
  <2> QED
    BY <2>1, <2>2
<1> QED
  BY <1>4, <1>5, <1>6, <1>8, <1>10, <1>11 DEF Pulls

\* An item is read to its end.
LEMMA PullWhole ==
  ASSUME Types,
         NEW q \in [Nat -> Item], NEW p \in [Nat -> Pos], NEW l \in [Nat -> Nat], NEW b \in [Nat -> Nat],
         NEW d \in [Nat -> Nat], NEW o \in [Nat -> BOOLEAN],
         NEW r \in Nat, NEW w \in Nat, NEW h \in Nat, NEW n \in Nat, NEW s \in Nat,
         Safe(q, p, l, b, d, o, r, w, h, n, s), Pull, R = Unit, UNCHANGED load
  PROVE  Witnessed'
<1>1. /\ rpc = "read" /\ reads # <<>> /\ ~AllPublishedRead
      /\ unread' = unread \ WordsOf(rpos, R) /\ rpos' = After(rpos, R)
      /\ rpc' = IF After(rpos, R) < rpos THEN "wrapPos" ELSE "read"
      /\ reads' = Tail(reads)
      /\ UNCHANGED <<writer, wpos, resetRequired, serverPos, headers, streamed, ended, readEnd>>
  BY DEF Pull, fields, writer
<1>2. /\ r < b[h] /\ r < w /\ r < d[h]
      /\ q[r] = R /\ p[r] = rpos /\ l[r] = s
      /\ Laps(rpos, R) <=> After(rpos, R) < rpos
  <2>1. Pulls(q, p, l, b, d, r, w, h, s)
    BY <1>1, PullAt
  <2> QED
    BY <2>1 DEF Pulls
<1>3. Among(p, l, b, d, r, w, h, n, s)
  BY ReaderAmong
<1>4. /\ Room(l, r, w, s) /\ Lies(q, p, l, r, w, s) /\ p[w] = wpos
      /\ unread = UNION {WordsOf(p[k], q[k]) : k \in r .. w - 1}
      /\ Reading(q, p, b, d, o, r, h) /\ Chunks(q, p, b, d, o, r, w, h, n)
      /\ Writing(q, p, l, b, d, o, w, n) /\ Decides(l, b, w, n, s)
  BY DEF Safe, Path
<1>5. /\ r + 1 \in Nat /\ r + 1 <= w /\ r + 1 \in r .. w /\ r \in r .. w - 1 /\ r + 1 <= b[h]
  BY <1>2, <1>3 DEF Among
<1>6. /\ p[r + 1] = rpos'
      /\ Laps(rpos, R) => l[r + 1] = s + 1
      /\ ~Laps(rpos, R) => l[r + 1] = s
  BY <1>1, <1>2, <1>4, <1>5 DEF Lies
<1>7. Lies(q, p, l, r + 1, w, s)
  <2>1. s < l[r + 1] \/ (s = l[r + 1] /\ serverPos <= p[r + 1])
    BY <1>3, <1>5 DEF Among, Ordered
  <2>2. /\ \A k \in r + 1 .. w - 1 : k \in r .. w - 1
        /\ \A k \in r + 1 .. w : k \in r .. w
    OBVIOUS
  <2> QED
    BY <1>4, <2>1, <2>2 DEF Lies
<1>8. unread' = UNION {WordsOf(p[k], q[k]) : k \in r + 1 .. w - 1}
  <2>1. \A k \in r .. w - 1 : k = r \/ k \in r + 1 .. w - 1
    OBVIOUS
  <2>2. \A k \in r + 1 .. w - 1 : k \in r .. w - 1 /\ r < k
    OBVIOUS
  <2>3. ASSUME NEW k \in r + 1 .. w - 1
        PROVE  WordsOf(p[r], q[r]) \intersect WordsOf(p[k], q[k]) = {}
    <3>1. serverPos \in Pos /\ r <= w /\ k \in r .. w - 1 /\ r < k
      BY <1>5, <2>2 DEF Types, Positions
    <3> QED
      BY <1>4, <1>5, <3>1, ItemsApart
  <2>4. \A y : y \in unread <=> y \in WordsOf(p[r], q[r]) \/ \E k \in r + 1 .. w - 1 : y \in WordsOf(p[k], q[k])
    BY <1>4, <1>5, <2>1, <2>2
  <2>5. \A y : y \in unread' <=> y \in unread /\ y \notin WordsOf(p[r], q[r])
    BY <1>1, <1>2
  <2> QED
    BY <2>3, <2>4, <2>5
<1>9. Path(q, p, l, r + 1, w, s)'
  <2>1. Lies(q, p, l, r + 1, w, s)'
    BY <1>1, <1>7 DEF Lies
  <2> QED
    BY <1>1, <1>4, <1>6, <1>8, <2>1 DEF Path
<1>10. Room(l, r + 1, w, s)'
  <2>1. Ahead' = Ahead
    BY <1>1, AheadKept
  <2>2. l[r + 1] = IF rpc' = "wrapPos" THEN s + 1 ELSE s
    BY <1>1, <1>2, <1>6
  <2>3. rpc # "wrapFlag" /\ rpc' # "wrapFlag"
    BY <1>1
  <2> QED
    BY <1>1, <1>4, <2>1, <2>2, <2>3 DEF Room
<1>11. Chunks(q, p, b, d, o, r + 1, w, h, n)'
  <2>1. Chunks(q, p, b, d, o, r, w, h, n)'
    BY <1>1, <1>4, ChunksKept
  <2> QED
    BY <1>5, <2>1 DEF Chunks
<1>12. Reading(q, p, b, d, o, r + 1, h)'
  <2>1. PICK m \in Nat : Len(reads) = m + 1 /\ Len(reads') = m /\ \A k \in 1 .. m : reads'[k] = reads[k + 1]
    BY <1>1, Tails DEF Types
  <2>2. d[h] = (r + 1) + m
    <3>1. d[h] = r + (m + 1)
      BY <1>4, <2>1 DEF Reading
    <3> QED
      BY <3>1
  <2>3. ASSUME NEW k \in 1 .. m PROVE q[(r + 1) + k - 1] = reads'[k]
    <3>1. k + 1 \in 1 .. m + 1 /\ r + (k + 1) - 1 = (r + 1) + k - 1
      OBVIOUS
    <3>2. q[r + (k + 1) - 1] = reads[k + 1]
      BY <1>4, <2>1, <3>1 DEF Reading
    <3> QED
      BY <2>1, <3>1, <3>2
  <2>4. \A i \in r + 1 .. b[h] - 1 : i \in r .. b[h] - 1
    BY <1>3 DEF Among
  <2>5. rpc' \in {"read", "wrapPos"}
    BY <1>1
  <2>6. \A k \in 1 .. Len(reads') : q[(r + 1) + k - 1] = reads'[k]
    BY <2>1, <2>3
  <2>7. ReadMore' = ReadMore
    BY <1>1 DEF ReadMore
  <2>8. d[h] = (r + 1) + Len(reads')
    BY <2>1, <2>2
  <2> QED
    BY <1>1, <1>4, <2>4, <2>5, <2>6, <2>7, <2>8 DEF Reading
<1>13. Writing(q, p, l, b, d, o, w, n)' /\ Decides(l, b, w, n, s)'
  BY <1>1, <1>4, WritingStays, DecidesKept
<1>14. Safe(q, p, l, b, d, o, r + 1, w, h, n, s)'
  BY <1>5, <1>9, <1>10, <1>11, <1>12, <1>13 DEF Safe
<1> QED
  BY <1>5, <1>14, Zenon DEF Witnessed

\* A position that is not the reader's.
LEMMA Behind ==
  ASSUME NEW r \in Nat, NEW w \in Nat, NEW x \in Nat, NEW y \in Nat, NEW z \in Nat,
         r < w, r < y, x >= 1, x >= z \/ y + z = w + 1
  PROVE  w + x - z \in Nat /\ w + x - z # r
OBVIOUS

\* One of several single words is read: the item shrinks.
LEMMA PullWord ==
  ASSUME Types,
         NEW q \in [Nat -> Item], NEW p \in [Nat -> Pos], NEW l \in [Nat -> Nat], NEW b \in [Nat -> Nat],
         NEW d \in [Nat -> Nat], NEW o \in [Nat -> BOOLEAN],
         NEW r \in Nat, NEW w \in Nat, NEW h \in Nat, NEW n \in Nat, NEW s \in Nat,
         Safe(q, p, l, b, d, o, r, w, h, n, s), Pull, R # Unit, UNCHANGED load
  PROVE  Witnessed'
<1>1. PICK g \in Item : g = [R EXCEPT !.words = @ - 1]
  BY NextItems DEF Pull
<1>2. /\ rpc = "read" /\ reads # <<>> /\ ~AllPublishedRead
      /\ unread' = unread \ WordsOf(rpos, Unit) /\ rpos' = After(rpos, Unit)
      /\ rpc' = IF After(rpos, Unit) < rpos THEN "wrapPos" ELSE "read"
      /\ reads' = <<g>> \o Tail(reads)
      /\ UNCHANGED <<writer, wpos, resetRequired, serverPos, headers, streamed, ended, readEnd>>
  BY <1>1 DEF Pull, fields, writer
<1>3. /\ R \in Item /\ Unit \in Item /\ ~R.blob /\ R.words # 1
      /\ ~Unit.blob /\ Unit.words = 1 /\ ~g.blob /\ g.words = R.words - 1
  <2>1. /\ R \in Item /\ Unit \in Item /\ ~R.blob /\ R.words # 1
        /\ Unit = [R EXCEPT !.words = 1]
    BY <1>2, NextItems
  <2> QED
    BY <1>1, <2>1 DEF Item
<1>4. /\ r < b[h] /\ r < w /\ r < d[h]
      /\ q[r] = R /\ p[r] = rpos /\ l[r] = s
      /\ Laps(rpos, Unit) <=> After(rpos, Unit) < rpos
  <2>1. Pulls(q, p, l, b, d, r, w, h, s)
    BY <1>2, PullAt
  <2> QED
    BY <2>1 DEF Pulls
<1>5. Among(p, l, b, d, r, w, h, n, s)
  BY ReaderAmong
<1>6. /\ Room(l, r, w, s) /\ Lies(q, p, l, r, w, s) /\ p[w] = wpos
      /\ unread = UNION {WordsOf(p[k], q[k]) : k \in r .. w - 1}
      /\ Reading(q, p, b, d, o, r, h) /\ Chunks(q, p, b, d, o, r, w, h, n)
      /\ Writing(q, p, l, b, d, o, w, n) /\ Decides(l, b, w, n, s)
      /\ r <= w /\ h <= n
  BY DEF Safe, Path
<1>7. rpos \in Pos /\ rpos \in Nat /\ serverPos \in Pos /\ serverPos \in Nat /\ Size \in Nat \ {0, 1}
  BY RingAssumption DEF Types, Positions, Pos
<1>8. Splits(rpos, R, Unit, g)
  BY <1>3, <1>7, FirstWord
<1>9. PICK a \in Pos : a = After(rpos, Unit)
  BY <1>3, <1>7, AfterIs
<1>10. /\ Laps(rpos, Unit) => a = 0 /\ a < rpos
       /\ ~Laps(rpos, Unit) => a = rpos + 1
       /\ a \in Nat
  <2>1. ~Laps(rpos, Unit) => a = rpos + Unit.words
    BY <1>3, <1>7, <1>9, AfterIs
  <2> QED
    BY <1>3, <1>4, <1>8, <1>9, <2>1 DEF Splits, Pos
<1>11. PICK u \in [Nat -> Item] : u[r] = g /\ \A k \in Nat : k # r => u[k] = q[k]
  <2> DEFINE u == [q EXCEPT ![r] = g]
  <2>1. u \in [Nat -> Item] /\ u[r] = g /\ \A k \in Nat : k # r => u[k] = q[k]
    OBVIOUS
  <2> QED
    BY <2>1
<1>12. PICK v \in [Nat -> Pos] : v[r] = a /\ \A k \in Nat : k # r => v[k] = p[k]
  <2> DEFINE v == [p EXCEPT ![r] = a]
  <2>1. v \in [Nat -> Pos] /\ v[r] = a /\ \A k \in Nat : k # r => v[k] = p[k]
    OBVIOUS
  <2> QED
    BY <2>1
<1>13. PICK m \in [Nat -> Nat] :
         /\ Laps(rpos, Unit) => m[r] = s + 1
         /\ ~Laps(rpos, Unit) => m[r] = s
         /\ \A k \in Nat : k # r => m[k] = l[k]
  <2> DEFINE m == [l EXCEPT ![r] = IF Laps(rpos, Unit) THEN s + 1 ELSE s]
  <2>1. m \in [Nat -> Nat] /\ \A k \in Nat : k # r => m[k] = l[k]
    OBVIOUS
  <2>2. m[r] = IF Laps(rpos, Unit) THEN s + 1 ELSE s
    OBVIOUS
  <2> HIDE DEF m
  <2>3. /\ Laps(rpos, Unit) => m[r] = s + 1
        /\ ~Laps(rpos, Unit) => m[r] = s
    BY <2>2
  <2> QED
    BY <2>1, <2>3
<1>14. /\ r + 1 \in Nat /\ r + 1 <= w /\ r + 1 \in r .. w /\ r \in r .. w - 1 /\ r + 1 # r /\ r \in r .. w
       /\ w # r /\ w \in r .. w
  BY <1>4
<1>15. /\ p[r + 1] = After(rpos, R)
       /\ Laps(rpos, R) => l[r + 1] = s + 1
       /\ ~Laps(rpos, R) => l[r + 1] = s
  BY <1>4, <1>6, <1>14 DEF Lies
<1>16. /\ p[r + 1] = After(a, g)
       /\ Laps(a, g) => l[r + 1] = m[r] + 1
       /\ ~Laps(a, g) => l[r + 1] = m[r]
  <2>1. /\ After(a, g) = After(rpos, R)
        /\ Laps(rpos, R) <=> Laps(rpos, Unit) \/ Laps(a, g)
        /\ ~ (Laps(rpos, Unit) /\ Laps(a, g))
    BY <1>8, <1>9 DEF Splits
  <2> QED
    BY <1>13, <1>15, <2>1
<1>17. m[r] < l[r + 1] \/ (m[r] = l[r + 1] /\ a < p[r + 1])
  <2>1. CASE Laps(a, g)
    BY <1>16, <2>1
  <2>2. CASE ~Laps(a, g)
    <3>1. After(a, g) = a + g.words /\ g.words \in 1 .. Size
      BY <2>2, AfterIs, ItemsAre
    <3>2. \A x \in Nat, y \in 1 .. Size : x < x + y
      BY <1>7
    <3> QED
      BY <1>10, <1>16, <2>2, <3>1, <3>2
  <2> QED
    BY <2>1, <2>2
<1>18. Ordered(p, l, r, w, s) /\ r <= b[h] /\ b[h] <= b[n] /\ b[n] <= w /\ b[h] <= d[h] /\ d[h] <= d[n]
       /\ b[h] \in Nat /\ d[h] \in Nat /\ b[n] \in Nat /\ d[n] \in Nat
  BY <1>5 DEF Among
<1>19. Lies(u, v, m, r, w, s)
  <2>1. ASSUME NEW k \in r .. w - 1
        PROVE  /\ v[k + 1] = After(v[k], u[k])
               /\ Laps(v[k], u[k]) => m[k + 1] = m[k] + 1
               /\ ~Laps(v[k], u[k]) => m[k + 1] = m[k]
               /\ u[k].blob /\ Laps(v[k], u[k]) => v[k + 1] < v[k]
    <3>1. CASE k = r
      <4>1. v[k] = a /\ u[k] = g /\ v[k + 1] = p[r + 1] /\ m[k + 1] = l[r + 1]
        BY <1>11, <1>12, <1>13, <1>14, <3>1
      <4> QED
        BY <1>3, <1>16, <3>1, <4>1
    <3>2. CASE k # r
      <4>1. k \in Nat /\ k + 1 \in Nat /\ k + 1 # r
        BY <3>2
      <4>2. v[k] = p[k] /\ u[k] = q[k] /\ m[k] = l[k] /\ v[k + 1] = p[k + 1] /\ m[k + 1] = l[k + 1]
        BY <1>11, <1>12, <1>13, <3>2, <4>1
      <4> QED
        BY <1>6, <4>2 DEF Lies
    <3> QED
      BY <3>1, <3>2
  <2>2. ASSUME NEW i \in r .. w, NEW k \in r .. w, i < k
        PROVE  Before(v, m, i, k)
    <3>1. k \in Nat /\ k # r /\ v[k] = p[k] /\ m[k] = l[k] /\ r + 1 <= k
      BY <1>12, <1>13, <2>2
    <3>2. CASE i = r
      <4>1. l[r + 1] <= l[k] /\ (l[r + 1] = l[k] => p[r + 1] <= p[k]) /\ p[r + 1] \in Nat /\ p[k] \in Nat
        BY <1>14, <1>18, <3>1 DEF Ordered
      <4>2. v[i] = a /\ m[i] = m[r] /\ m[r] \in Nat /\ l[r + 1] \in Nat /\ l[k] \in Nat
        BY <1>12, <1>14, <3>1, <3>2
      <4>3. PICK x1 \in Nat, x2 \in Nat, x3 \in Nat : x1 = m[r] /\ x2 = l[r + 1] /\ x3 = l[k]
        BY <4>2
      <4>4. PICK y1 \in Nat, y2 \in Nat, y3 \in Nat : y1 = a /\ y2 = p[r + 1] /\ y3 = p[k]
        BY <1>10, <4>1
      <4>5. /\ x1 < x2 \/ (x1 = x2 /\ y1 < y2)
            /\ x2 <= x3 /\ (x2 = x3 => y2 <= y3)
        BY <1>17, <4>1, <4>3, <4>4
      <4>6. x1 < x3 \/ (x1 = x3 /\ y1 < y3)
        BY <4>5
      <4> QED
        BY <3>1, <4>2, <4>3, <4>4, <4>6 DEF Before
    <3>3. CASE i # r
      <4>1. i \in Nat /\ v[i] = p[i] /\ m[i] = l[i]
        BY <1>12, <1>13, <3>3
      <4> QED
        BY <1>6, <2>2, <3>1, <4>1 DEF Lies, Before
    <3> QED
      BY <3>2, <3>3
  <2>3. s < m[r] \/ (s = m[r] /\ serverPos <= v[r])
    <3>1. serverPos <= rpos
      BY <1>4, <1>14, <1>18 DEF Ordered
    <3> QED
      BY <1>7, <1>10, <1>12, <1>13, <3>1
  <2>4. m[w] <= s \/ (m[w] = s + 1 /\ v[w] <= serverPos)
    BY <1>6, <1>12, <1>13, <1>14 DEF Lies
  <2> QED
    BY <2>1, <2>2, <2>3, <2>4 DEF Lies
<1>20. unread' = UNION {WordsOf(v[k], u[k]) : k \in r .. w - 1}
  <2>1. \A k \in r .. w - 1 : k = r \/ (k \in r .. w - 1 /\ r < k)
    OBVIOUS
  <2>2. \A k \in r .. w - 1 : r < k => v[k] = p[k] /\ u[k] = q[k]
    BY <1>11, <1>12
  <2>3. ASSUME NEW k \in r .. w - 1, r < k
        PROVE  WordsOf(p[r], q[r]) \intersect WordsOf(p[k], q[k]) = {}
    BY <1>6, <1>7, <1>14, <2>3, ItemsApart
  <2>4. WordsOf(v[r], u[r]) = WordsOf(p[r], q[r]) \ {rpos} /\ WordsOf(rpos, Unit) = {rpos}
    BY <1>4, <1>8, <1>9, <1>11, <1>12 DEF Splits
  <2>5. \A y : y \in unread <=> \/ y \in WordsOf(p[r], q[r])
                                \/ \E k \in r .. w - 1 : r < k /\ y \in WordsOf(p[k], q[k])
    BY <1>6, <1>14, <2>1
  <2>6. \A y : y \in unread' <=> y \in unread /\ y # rpos
    BY <1>2, <2>4
  <2>7. rpos \in WordsOf(p[r], q[r])
    <3>1. WordsOf(rpos, Unit) \subseteq WordsOf(rpos, R)
      <4>1. Pulls(q, p, l, b, d, r, w, h, s)
        BY <1>2, PullAt
      <4> QED
        BY <4>1 DEF Pulls
    <3> QED
      BY <1>4, <2>4, <3>1
  <2>8. ASSUME NEW y PROVE y \in unread' <=> \E k \in r .. w - 1 : y \in WordsOf(v[k], u[k])
    <3>1. y \in unread' <=> \/ y \in WordsOf(v[r], u[r])
                            \/ \E k \in r .. w - 1 : r < k /\ y \in WordsOf(p[k], q[k])
      BY <2>3, <2>4, <2>5, <2>6, <2>7
    <3> QED
      BY <1>14, <2>1, <2>2, <3>1
  <2> QED
    BY <2>8
<1>21. Path(u, v, m, r, w, s)'
  <2>1. Lies(u, v, m, r, w, s)'
    BY <1>2, <1>19 DEF Lies
  <2>2. v[r] = rpos' /\ v[w] = wpos'
    BY <1>2, <1>6, <1>9, <1>12, <1>14
  <2> QED
    BY <1>20, <2>1, <2>2 DEF Path
<1>22. Room(m, r, w, s)'
  <2>1. Ahead' = Ahead
    BY <1>2, AheadKept
  <2>2. m[r] = IF rpc' = "wrapPos" THEN s + 1 ELSE s
    BY <1>2, <1>4, <1>13
  <2>3. rpc # "wrapFlag" /\ rpc' # "wrapFlag"
    BY <1>2
  <2>4. m[w] = l[w]
    BY <1>13, <1>14
  <2> QED
    BY <1>2, <1>6, <2>1, <2>2, <2>3, <2>4 DEF Room
<1>23. b[h] # r /\ b[n] # r /\ r < b[n] /\ r < d[n]
  BY <1>4, <1>18
<1>24. Chunks(u, v, b, d, o, r, w, h, n)'
  <2>1. \A k \in d[h] .. d[n] - 1 : u[k] = q[k]
    <3>1. \A k \in d[h] .. d[n] - 1 : k \in Nat /\ k # r
      BY <1>4, <1>18
    <3> QED
      BY <1>11, <3>1
  <2>2. \A k \in b[h] .. b[n] : v[k] = p[k]
    <3>1. \A k \in b[h] .. b[n] : k \in Nat /\ k # r
      BY <1>4, <1>18
    <3> QED
      BY <1>12, <3>1
  <2> QED
    BY <1>2, <1>6, <1>18, <2>1, <2>2, ChunksAgree
<1>25. Reading(u, v, b, d, o, r, h)'
  <2>1. PICK e \in Nat : Len(reads) = e + 1 /\ Len(Tail(reads)) = e
    BY <1>2, Tails DEF Types
  <2>2. /\ Len(reads') = e + 1 /\ reads'[1] = g
        /\ \A k \in 2 .. e + 1 : reads'[k] = reads[k]
    BY <1>2, <2>1, Shrinks DEF Types
  <2>3. d[h] = r + (e + 1)
    BY <1>6, <2>1 DEF Reading
  <2>4. ASSUME NEW k \in 1 .. e + 1 PROVE u[r + k - 1] = reads'[k]
    <3>1. CASE k = 1
      <4>1. r + k - 1 = r
        BY <3>1
      <4> QED
        BY <1>11, <2>2, <3>1, <4>1
    <3>2. CASE k # 1
      <4>1. k \in 2 .. e + 1 /\ r + k - 1 \in Nat /\ r + k - 1 # r
        BY <3>2
      <4>2. q[r + k - 1] = reads[k]
        BY <1>6, <2>1 DEF Reading
      <4> QED
        BY <1>11, <2>2, <4>1, <4>2
    <3> QED
      BY <3>1, <3>2
  <2>5. v[b[h]] = p[b[h]]
    BY <1>12, <1>18, <1>23
  <2>6. ASSUME streamed, NEW i \in r .. b[h] - 1 PROVE v[i] # v[b[h]]
    <3>1. b[h] \in r .. w /\ i \in Nat /\ r < b[h]
      BY <1>4, <1>18
    <3>2. CASE i = r
      <4>1. m[r] < m[b[h]] \/ (m[r] = m[b[h]] /\ v[r] < v[b[h]])
        BY <1>14, <1>19, <3>1 DEF Lies, Before
      <4>2. /\ m[b[h]] = l[b[h]] /\ l[b[h]] \in {s, s + 1} /\ p[b[h]] \in Nat
            /\ l[b[h]] = s + 1 => p[b[h]] <= serverPos
            /\ serverPos <= rpos
        BY <1>4, <1>13, <1>14, <1>18, <1>23, <3>1 DEF Ordered
      <4>3. m[r] = s => rpos < a
        BY <1>7, <1>10, <1>13
      <4>4. m[r] \in {s, s + 1} /\ v[r] = a
        BY <1>12, <1>13
      <4> QED
        BY <1>7, <1>10, <2>5, <3>2, <4>1, <4>2, <4>3, <4>4
    <3>3. CASE i # r
      <4>1. v[i] = p[i]
        BY <1>12, <3>1, <3>3
      <4> QED
        BY <1>6, <2>5, <2>6, <4>1 DEF Reading
    <3> QED
      BY <3>2, <3>3
  <2>7. rpc' \in {"read", "wrapPos"}
    BY <1>2
  <2>8. ReadMore' = ReadMore
    BY <1>2 DEF ReadMore
  <2>9. d[h] = r + Len(reads') /\ \A k \in 1 .. Len(reads') : u[r + k - 1] = reads'[k]
    BY <2>2, <2>3, <2>4
  <2> QED
    BY <1>2, <1>6, <2>5, <2>6, <2>7, <2>8, <2>9 DEF Reading
<1>26. m[b[n]] = l[b[n]] /\ m[w] = l[w] /\ v[b[n]] = p[b[n]]
  BY <1>12, <1>13, <1>14, <1>18, <1>23
<1>27. Writing(u, v, m, b, d, o, w, n)'
  <2>1. ASSUME wpc # "idle", NEW k \in 1 .. Len(cmd.writes), k >= at \/ ~headerPushed
        PROVE  u[w + k - at] = cmd.writes[k]
    <3>1. PICK e \in Nat : e = Len(cmd.writes)
      BY ItemsAre, Lengths DEF Types
    <3>2. PICK z \in Nat : z = at
      <4>1. at \in 1 .. e + 1
        BY <3>1 DEF Types
      <4> QED
        BY <4>1
    <3>3. k \in 1 .. e
      BY <3>1
    <3>4. PICK y \in Nat : y = d[n] /\ r < y
      BY <1>18, <1>23
    <3>5. k >= z \/ y + z = w + 1
      BY <1>6, <2>1, <3>2, <3>4 DEF Writing
    <3>6. w + k - z \in Nat /\ w + k - z # r
      <4>1. PICK x \in Nat : x = k /\ x >= 1
        BY <3>1, <3>3
      <4>2. r < w /\ (x >= z \/ y + z = w + 1) /\ r < y
        BY <1>4, <3>4, <3>5, <4>1
      <4> QED
        BY <4>1, <4>2, Behind
    <3>7. q[w + k - at] = cmd.writes[k]
      BY <1>6, <2>1 DEF Writing
    <3> QED
      BY <1>11, <3>2, <3>6, <3>7
  <2>2. Writing(u, v, m, b, d, o, w, n)
    BY <1>6, <1>26, <2>1 DEF Writing
  <2> QED
    BY <1>2, <2>2, WritingStays
<1>28. Decides(m, b, w, n, s)'
  <2>1. Decides(m, b, w, n, s)
    BY <1>6, <1>26 DEF Decides, Reached, Fits
  <2> QED
    BY <1>2, <2>1, DecidesKept
<1>29. Safe(u, v, m, b, d, o, r, w, h, n, s)'
  BY <1>6, <1>21, <1>22, <1>24, <1>25, <1>27, <1>28 DEF Safe
<1> QED
  BY <1>29, Zenon DEF Witnessed

-----------------------------------------------------------------------------
(* The invariant *)

\* Nothing is written and nothing declared.
LEMMA InitSafe == Init => Witnessed
<1> SUFFICES ASSUME Init PROVE Witnessed
  OBVIOUS
<1>1. Size \in Nat \ {0, 1} /\ 0 \in Pos
  BY RingAssumption DEF Pos
<1>2. PICK g \in Item : TRUE
  <2>1. 1 \in 1 .. Size
    BY <1>1
  <2>2. [blob |-> FALSE, words |-> 1] \in Item
    BY <2>1 DEF Item
  <2> QED
    BY <2>2
<1>3. PICK q \in [Nat -> Item] : TRUE
  <2>1. [k \in Nat |-> g] \in [Nat -> Item]
    OBVIOUS
  <2> QED
    BY <2>1
<1>4. PICK p \in [Nat -> Pos] : p[0] = 0
  <2>1. [k \in Nat |-> 0] \in [Nat -> Pos] /\ [k \in Nat |-> 0][0] = 0
    BY <1>1
  <2> QED
    BY <2>1
<1>5. PICK l \in [Nat -> Nat] : l[0] = 0
  <2>1. [k \in Nat |-> 0] \in [Nat -> Nat] /\ [k \in Nat |-> 0][0] = 0
    OBVIOUS
  <2> QED
    BY <2>1
<1>6. PICK o \in [Nat -> BOOLEAN] : o[0] = FALSE
  <2>1. [k \in Nat |-> FALSE] \in [Nat -> BOOLEAN] /\ [k \in Nat |-> FALSE][0] = FALSE
    OBVIOUS
  <2> QED
    BY <2>1, Zenon
<1>7. /\ 0 .. 0 - 1 = {} /\ 1 .. 0 = {}
      /\ \A k \in 0 .. 0 : k = 0
  OBVIOUS
<1>8. Path(q, p, l, 0, 0, 0)
  <2>1. Lies(q, p, l, 0, 0, 0)
    BY <1>4, <1>5, <1>7 DEF Init, Lies
  <2> QED
    BY <1>4, <1>7, <2>1 DEF Init, Path
<1>9. Room(l, 0, 0, 0)
  BY <1>5 DEF Init, Room, Ahead
<1>10. Chunks(q, p, l, l, o, 0, 0, 0, 0)
  BY <1>5, <1>7 DEF Init, Chunks
<1>11. Reading(q, p, l, l, o, 0, 0)
  BY <1>4, <1>5, <1>6, <1>7 DEF Init, Reading, ReadMore
<1>12. Writing(q, p, l, l, l, o, 0, 0)
  BY <1>5, <1>6 DEF Init, Writing
<1>13. Decides(l, l, 0, 0, 0)
  BY DEF Init, Decides, Deciding
<1>14. Safe(q, p, l, l, l, o, 0, 0, 0, 0, 0)
  BY <1>8, <1>9, <1>10, <1>11, <1>12, <1>13 DEF Safe
<1> QED
  BY <1>14, Zenon DEF Witnessed

\* Each step of a calm run keeps the two sides together.
LEMMA StepSafe == ASSUME Types, Small, Witnessed, Calm, [Next]_vars PROVE Witnessed'
<1>1. PICK q \in [Nat -> Item], p \in [Nat -> Pos], l \in [Nat -> Nat], b \in [Nat -> Nat],
           d \in [Nat -> Nat], o \in [Nat -> BOOLEAN],
           r \in Nat, w \in Nat, h \in Nat, n \in Nat, s \in Nat :
        Safe(q, p, l, b, d, o, r, w, h, n, s)
  BY Zenon DEF Witnessed
<1>2. ASSUME NEW c \in load.commands, Begin(c), UNCHANGED load PROVE Witnessed'
  BY <1>1, <1>2, BeginSafe
<1>3. CASE Writer
  <2>1. UNCHANGED load
    BY <1>3 DEF Writer
  <2>2. CASE Publish \/ Finish
    BY <1>1, <2>1, <2>2, PushSafe
  <2>3. CASE ReadFlag \/ ReadPosition \/ Announce \/ TestFlag \/ TestPos \/ Waits \/ Withdraw \/ SetFlag
    BY <1>1, <2>1, <2>3, DecideSafe
  <2>4. CASE Write
    <3>1. Types'
      BY StepTypes
    <3> QED
      BY <1>1, <2>1, <2>4, <3>1, WriteSafe
  <2> QED
    BY <1>3, <2>2, <2>3, <2>4 DEF Writer
<1>4. CASE Reader
  <2>1. UNCHANGED load
    BY <1>4 DEF Reader
  <2>2. CASE Receive \/ NextChunk
    BY <1>1, <2>1, <2>2, TakeSafe
  <2>3. CASE Pull
    <3>1. CASE R = Unit
      BY <1>1, <2>1, <2>3, <3>1, PullWhole
    <3>2. CASE R # Unit
      BY <1>1, <2>1, <2>3, <3>2, PullWord
    <3> QED
      BY <3>1, <3>2
  <2>4. CASE WrapPos
    BY <1>1, <2>1, <2>4, WrapSafe
  <2>5. CASE WrapFlag \/ Release \/ ReleasePos \/ TestExpected \/ TestReset \/ ClearExpected \/ Signal
    BY <1>1, <2>1, <2>5, ReleaseSafe
  <2> QED
    BY <1>4, <2>2, <2>3, <2>4, <2>5 DEF Reader
<1>5. CASE UNCHANGED vars
  <2>1. UNCHANGED <<load, writer, reader, headers, unread, resetRequired, serverPos>>
    BY <1>5 DEF vars, fields
  <2>2. UNCHANGED <<wpos, rpos, rpc>>
    BY <2>1 DEF writer, reader
  <2>3. Path(q, p, l, r, w, s)' /\ Chunks(q, p, b, d, o, r, w, h, n)'
    BY <1>1, <2>1, <2>2, PathKept, ChunksKept DEF Safe
  <2>4. Reading(q, p, b, d, o, r, h)' /\ Writing(q, p, l, b, d, o, w, n)' /\ Decides(l, b, w, n, s)'
    BY <1>1, <2>1, ReadingKept, WritingStays, DecidesKept DEF Safe
  <2>5. Room(l, r, w, s)'
    <3>1. Ahead' = Ahead
      BY <2>1, AheadKept
    <3> QED
      BY <1>1, <2>1, <2>2, <3>1 DEF Safe, Room
  <2>6. Safe(q, p, l, b, d, o, r, w, h, n, s)'
    BY <1>1, <2>3, <2>4, <2>5 DEF Safe
  <2> QED
    BY <2>6, Zenon DEF Witnessed
<1> QED
  BY <1>2, <1>3, <1>4, <1>5 DEF Next

\* What a run keeps, as long as it is calm.
LEMMA StepKeeps == IndInv /\ Calm /\ [Next]_vars => IndInv'
BY StepTypes, StepSmall, StepSafe DEF IndInv

\* The invariant holds at the start.
LEMMA InitKeeps == Init => IndInv
BY InitTypes, InitSmall, InitSafe DEF IndInv

\* No write takes a word that is not read yet.
LEMMA Protects == IndInv => UnreadProtected
<1> SUFFICES ASSUME IndInv, wpc = "write", NEW y \in WordsOf(wpos, W), y \in unread PROVE FALSE
  BY DEF UnreadProtected
<1>1. Types
  BY DEF IndInv
<1>2. PICK q \in [Nat -> Item], p \in [Nat -> Pos], l \in [Nat -> Nat], b \in [Nat -> Nat],
           d \in [Nat -> Nat], o \in [Nat -> BOOLEAN],
           r \in Nat, w \in Nat, h \in Nat, n \in Nat, s \in Nat :
        Safe(q, p, l, b, d, o, r, w, h, n, s)
  BY Zenon DEF IndInv, Witnessed
<1>3. PICK v \in [Nat -> Pos], m \in [Nat -> Nat] : Grows(q, p, l, v, m, r, w, s)
  BY <1>1, <1>2, NextWrite
<1>4. r <= w /\ unread = UNION {WordsOf(p[k], q[k]) : k \in r .. w - 1}
  BY <1>2 DEF Safe, Path
<1>5. PICK i \in r .. w - 1 : y \in WordsOf(p[i], q[i])
  BY <1>4
<1>6. PICK x \in Nat : x = w + 1
  OBVIOUS
<1>7. i \in r .. x - 1 /\ w \in r .. x - 1 /\ i < w /\ i \in Nat /\ i <= w /\ r <= x
  BY <1>4, <1>6
<1>8. v[i] = p[i] /\ v[w] = wpos /\ q[w] = W
  BY <1>3, <1>7 DEF Grows
<1>9. serverPos \in Pos /\ Lies(q, v, m, r, x, s)
  BY <1>1, <1>3, <1>6 DEF Types, Positions, Grows
<1>10. WordsOf(v[i], q[i]) \intersect WordsOf(v[w], q[w]) = {}
  BY <1>7, <1>9, ItemsApart
<1> QED
  BY <1>5, <1>8, <1>10

\* The handler reads a word that is written, and meets the ends it is told of.
LEMMA InStep == IndInv => ReaderInStep
<1> SUFFICES ASSUME IndInv PROVE ReaderInStep
  OBVIOUS
<1>1. Types
  BY DEF IndInv
<1>2. PICK q \in [Nat -> Item], p \in [Nat -> Pos], l \in [Nat -> Nat], b \in [Nat -> Nat],
           d \in [Nat -> Nat], o \in [Nat -> BOOLEAN],
           r \in Nat, w \in Nat, h \in Nat, n \in Nat, s \in Nat :
        Safe(q, p, l, b, d, o, r, w, h, n, s)
  BY Zenon DEF IndInv, Witnessed
<1>3. rpc # "outOfStep"
  BY <1>2 DEF Safe, Reading
<1>4. ASSUME rpc = "read", reads # <<>>, ~AllPublishedRead
      PROVE  WordsOf(rpos, Unit) \subseteq unread
  <2>1. Pulls(q, p, l, b, d, r, w, h, s)
    BY <1>1, <1>2, <1>4, PullAt
  <2>2. unread = UNION {WordsOf(p[k], q[k]) : k \in r .. w - 1} /\ r \in r .. w - 1
    BY <1>2, <2>1 DEF Safe, Path, Pulls
  <2> QED
    BY <2>1, <2>2 DEF Pulls
<1> QED
  BY <1>3, <1>4 DEF ReaderInStep

-----------------------------------------------------------------------------
(* The theorems *)

\* The types hold: every variable keeps its type.
THEOREM TypesHold == Spec => []TypeOK
<1>1. Types /\ [Next]_vars => Types'
  BY StepTypes
<1>2. Types => TypeOK
  BY DEF Types, TypeOK, Contents
<1> QED
  BY <1>1, <1>2, InitTypes, PTL DEF Spec

\* A streamable command never ends the program for want of space, however much data
\* it carries: what is not published is at most two items and a skipped tail.
THEOREM StreamsFit == Spec => []StreamsAlwaysFit
<1>1. Types /\ Small /\ [Next]_vars => Types' /\ Small'
  BY StepTypes, StepSmall
<1>2. Small => StreamsAlwaysFit
  BY DEF Small, StreamsAlwaysFit
<1> QED
  BY <1>1, <1>2, InitTypes, InitSmall, PTL DEF Spec

\* The writer protects unread data: syncDataQueue and handleOverwriteCondition let no
\* write take a word that the reader has not read, in any interleaving of their steps
\* with the reader's stores, if no wait is given up and no single word that ends at the
\* ring's last word meets the two stores of noteReadWrap.
THEOREM UnreadIsProtected == Spec /\ []Calm => []UnreadProtected
<1>1. IndInv /\ Calm /\ [Next]_vars => IndInv'
  BY StepKeeps
<1> QED
  BY <1>1, InitKeeps, Protects, PTL DEF Spec

\* The two sides agree on every position, though no header carries one but its end:
\* what get_data reads is written and not read yet, and a command's, or a chunk's, data
\* ends where its header says; in the same runs.
THEOREM ReaderStaysInStep == Spec /\ []Calm => []ReaderInStep
<1>1. IndInv /\ Calm /\ [Next]_vars => IndInv'
  BY StepKeeps
<1> QED
  BY <1>1, InitKeeps, InStep, PTL DEF Spec
=============================================================================
