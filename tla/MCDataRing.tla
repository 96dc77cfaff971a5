----------------------------- MODULE MCDataRing -----------------------------
(***************************************************************************)
(* DataRing for TLC: a ring of a few words, so that commands start, end    *)
(* and wrap at every position of it, and both ends lap each other.         *)
(***************************************************************************)
EXTENDS DataRing

Words(n) == [blob |-> FALSE, words |-> n]
Blob(n) == [blob |-> TRUE, words |-> n + 1]
Plain(ws) == [writes |-> ws, streamable |-> FALSE]
Streamable(ws) == [writes |-> ws, streamable |-> TRUE]

\* A UID alone, with two words, with an object: they end and wrap everywhere.
ShortCommands ==
  {Plain(<<Words(1)>>), Plain(<<Words(1), Words(2)>>), Plain(<<Words(1), Blob(1)>>)}

\* Every command ends its single words before the last word of a ring of 10:
\* only its object meets the end.
ObjectCommands == {Plain(<<Words(1), Blob(2)>>)}

\* A Present without rectangles, and one whose two rectangles the handler uses in
\* place while it reads the words after them.
Presents ==
  {Plain(<<Words(1), Blob(0), Blob(0), Words(1)>>), Plain(<<Words(1), Blob(1), Blob(1), Words(1)>>)}

\* A command within one item, and one of several items, streamed in chunks,
\* which is larger than a ring of 10.
StreamedCommands ==
  {Streamable(<<Words(1), Words(1)>>),
   Streamable(<<Words(1), Blob(2), Words(2), Blob(2), Words(2), Blob(2)>>)}

Carries(commands, wrapAtOnce) == [commands |-> commands, wrapAtOnce |-> wrapAtOnce]

\* The two stores of a reader's wrap stay apart where no single word ends at the
\* last word of the ring.
SafeWorkloads ==
  {Carries(ShortCommands, TRUE), Carries(ObjectCommands, FALSE), Carries(StreamedCommands, TRUE)}
ShortApart == {Carries(ShortCommands, FALSE)}
PresentsAtOnce == {Carries(Presents, TRUE)}
=============================================================================
