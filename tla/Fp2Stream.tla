----------------------------- MODULE Fp2Stream -----------------------------
(***************************************************************************)
(* One direction of a socket between two FILE2 objects of                  *)
(* kan96xx/plugin/file2.c: the write buffer of the one, the socket, and    *)
(* the read buffer of the other.  Both descriptors block.                  *)
(*                                                                         *)
(* A byte is the number of the fp2fputc call that wrote it.  readBuf holds *)
(* the bytes from readpos to readsize, writeBuf those up to writepos that  *)
(* write(2) has not taken yet.  A read(2) that fails is tried again by     *)
(* fp2fgetc and changes nothing.  The string mode (fd = -1), the log and   *)
(* the watch files are left out.                                           *)
(***************************************************************************)
EXTENDS Naturals, Sequences, SequencesExt

CONSTANTS
  Limit,         \* FILE2BSIZE, the size of both buffers
  TmpSize,       \* TMP00SIZE, what fp2clearReadBuf reads at a time
  SocketSize,    \* what the socket holds
  MaxPut         \* bound of the model: bytes written

ASSUME StreamAssumption ==
  /\ Limit \in Nat \ {0} /\ TmpSize \in Nat \ {0} /\ SocketSize \in Nat \ {0}
  /\ MaxPut \in Nat

VARIABLES
  writeBuf,
  wpc,           \* "ready", or in write(2): "flushing" (fp2fflush), "closing" (fp2fclose)
  writerOpen,    \* FALSE once the writer's descriptor has been closed
  socket,        \* bytes in the socket
  readBuf,
  rpc,           \* "idle", "reading" (fp2select has returned 1), "clearing"
  readerOpen,    \* FALSE once the reader is gone
  put,           \* bytes written so far
  cut,           \* TRUE once a signal handler has cut a write(2) short
  got,           \* the byte last read
  old            \* the last byte that had arrived when fp2clearReadBuf was called

writerVars == <<writeBuf, wpc, writerOpen, put, cut>>
readerVars == <<readBuf, rpc, readerOpen, got, old>>
vars == <<writerVars, socket, readerVars>>

StreamTypeOK ==
  /\ writeBuf \in Seq(Nat) /\ Len(writeBuf) <= Limit
  /\ wpc \in {"ready", "flushing", "closing"}
  /\ writerOpen \in BOOLEAN
  /\ socket \in Seq(Nat) /\ Len(socket) <= SocketSize
  /\ readBuf \in Seq(Nat) /\ Len(readBuf) < Limit
  /\ rpc \in {"idle", "reading", "clearing"}
  /\ readerOpen \in BOOLEAN
  /\ put \in Nat /\ got \in Nat /\ old \in Nat
  /\ cut \in BOOLEAN

\* fp2open on both sides.
Init ==
  /\ writeBuf = <<>> /\ wpc = "ready" /\ writerOpen = TRUE
  /\ socket = <<>>
  /\ readBuf = <<>> /\ rpc = "idle" /\ readerOpen = TRUE
  /\ put = 0 /\ got = 0 /\ old = 0
  /\ cut = FALSE

Least(m, n) == IF m < n THEN m ELSE n
Dropped(s, n) == SubSeq(s, n + 1, Len(s))
Taken(s, n) == SubSeq(s, 1, n)

----------------------------------------------------------------------------
(***************************************************************************)
(* The writer.  Nothing marks a FILE2 whose descriptor is closed: it goes  *)
(* on taking bytes.                                                        *)
(***************************************************************************)

\* Mutant: a full buffer is flushed before the byte is stored.
fp2fputcDropping ==
  /\ wpc = "ready" /\ put < MaxPut
  /\ put' = put + 1
  /\ IF Len(writeBuf) + 1 < Limit
       THEN writeBuf' = Append(writeBuf, put + 1) /\ UNCHANGED wpc
       ELSE wpc' = "flushing" /\ UNCHANGED writeBuf
  /\ UNCHANGED <<writerOpen, cut, socket, readerVars>>

\* Mutant: it is flushed when the next byte finds no room.
fp2fputcLate ==
  /\ wpc = "ready" /\ put < MaxPut
  /\ put' = put + 1
  /\ writeBuf' = Append(writeBuf, put + 1)
  /\ wpc' = IF Len(writeBuf) < Limit THEN "ready" ELSE "flushing"
  /\ UNCHANGED <<writerOpen, cut, socket, readerVars>>

\* A full buffer is flushed at once.
fp2fputc ==
  /\ wpc = "ready" /\ put < MaxPut
  /\ put' = put + 1
  /\ writeBuf' = Append(writeBuf, put + 1)
  /\ wpc' = IF Len(writeBuf) + 1 < Limit THEN "ready" ELSE "flushing"
  /\ UNCHANGED <<writerOpen, cut, socket, readerVars>>

fp2fflush ==
  /\ wpc = "ready" /\ writeBuf # <<>>
  /\ wpc' = "flushing"
  /\ UNCHANGED <<writeBuf, writerOpen, put, cut, socket, readerVars>>

fp2fclose ==
  /\ wpc = "ready" /\ writerOpen
  /\ IF writeBuf = <<>>
       THEN writerOpen' = FALSE /\ UNCHANGED wpc
       ELSE wpc' = "closing" /\ UNCHANGED writerOpen
  /\ UNCHANGED <<writeBuf, put, cut, socket, readerVars>>

\* Mutant: writepos stays where it was.
WriteReturnsKeeping ==
  /\ UNCHANGED writeBuf
  /\ wpc' = "ready"
  /\ writerOpen' = (writerOpen /\ wpc = "flushing")

\* write(2) has returned: writepos = 0, whatever it returned.
WriteReturns ==
  /\ writeBuf' = <<>>
  /\ wpc' = "ready"
  /\ writerOpen' = (writerOpen /\ wpc = "flushing")

Writing == wpc # "ready" /\ writerOpen

\* The socket takes as much as there is room for, and write(2) waits for more room.
WriteSome ==
  /\ Writing /\ readerOpen
  /\ \E n \in 1 .. Least(Len(writeBuf), SocketSize - Len(socket)) :
       /\ socket' = socket \o Taken(writeBuf, n)
       /\ IF n = Len(writeBuf) THEN WriteReturns
          ELSE writeBuf' = Dropped(writeBuf, n) /\ UNCHANGED <<wpc, writerOpen>>
  /\ UNCHANGED <<put, cut, readerVars>>

\* A handled signal, such as SIGUSR1 while the engine replies (OxCritical = 1), makes
\* write(2) return when it has taken something: the rest of the buffer is forgotten.
WriteIsCut ==
  /\ Writing /\ readerOpen
  /\ \E n \in 1 .. Least(Len(writeBuf) - 1, SocketSize - Len(socket)) :
       socket' = socket \o Taken(writeBuf, n)
  /\ WriteReturns
  /\ cut' = TRUE
  /\ UNCHANGED <<put, readerVars>>

\* EPIPE: fp2fflush closes the descriptor.
WriteToGoneReader ==
  /\ Writing /\ ~readerOpen
  /\ writeBuf' = <<>> /\ wpc' = "ready" /\ writerOpen' = FALSE
  /\ UNCHANGED <<put, cut, socket, readerVars>>

\* EBADF, as long as the number of the descriptor is not in use again.
WriteToClosed ==
  /\ wpc # "ready" /\ ~writerOpen
  /\ WriteReturns
  /\ UNCHANGED <<put, cut, socket, readerVars>>

----------------------------------------------------------------------------
(***************************************************************************)
(* The reader: fp2select, then fp2fgetc as often as the message is long.   *)
(***************************************************************************)

\* Mutant: only the socket is looked at.
ReadableSocketOnly == socket # <<>> \/ ~writerOpen

\* fp2select returns 1 for a byte in the buffer, in the socket, or its end.
Readable == readBuf # <<>> \/ socket # <<>> \/ ~writerOpen

fp2select ==
  /\ readerOpen /\ rpc = "idle" /\ Readable
  /\ rpc' = "reading"
  /\ UNCHANGED <<readBuf, readerOpen, got, old, socket, writerVars>>

\* The next byte; an empty buffer is filled first.  At the end of the stream -1.
fp2fgetc ==
  /\ readerOpen /\ rpc = "reading"
  /\ \/ /\ readBuf # <<>>
        /\ got' = Head(readBuf) /\ readBuf' = Tail(readBuf)
        /\ UNCHANGED socket
        /\ rpc' \in {"idle", "reading"}
     \/ /\ readBuf = <<>> /\ socket # <<>>
        /\ LET n == Least(Limit, Len(socket))
           IN  readBuf' = Tail(Taken(socket, n)) /\ socket' = Dropped(socket, n)
        /\ got' = Head(socket)
        /\ rpc' \in {"idle", "reading"}
     \/ /\ readBuf = <<>> /\ socket = <<>> /\ ~writerOpen
        /\ rpc' = "idle"
        /\ UNCHANGED <<got, readBuf, socket>>
  /\ UNCHANGED <<readerOpen, old, writerVars>>

fp2clearReadBuf ==
  /\ readerOpen /\ rpc = "idle"
  /\ rpc' = "clearing"
  /\ old' = IF readBuf \o socket = <<>> THEN old ELSE Last(readBuf \o socket)
  /\ readBuf' = <<>>
  /\ UNCHANGED <<readerOpen, got, socket, writerVars>>

\* Mutant: one read(2) and no more.
ClearOnce ==
  /\ readerOpen /\ rpc = "clearing" /\ socket # <<>>
  /\ socket' = Dropped(socket, Least(TmpSize, Len(socket)))
  /\ rpc' = "idle"
  /\ UNCHANGED <<readBuf, readerOpen, got, old, writerVars>>

\* One round of its loop, which ends when read(2) has returned less than TmpSize.
ClearSome ==
  /\ readerOpen /\ rpc = "clearing" /\ socket # <<>>
  /\ socket' = Dropped(socket, Least(TmpSize, Len(socket)))
  /\ rpc' = IF Len(socket) < TmpSize THEN "idle" ELSE "clearing"
  /\ UNCHANGED <<readBuf, readerOpen, got, old, writerVars>>

\* select(2) finds nothing, or read(2) the end of the stream.
ClearNothing ==
  /\ readerOpen /\ rpc = "clearing" /\ socket = <<>>
  /\ rpc' = "idle"
  /\ UNCHANGED <<readBuf, readerOpen, got, old, socket, writerVars>>

ReaderGone ==
  /\ readerOpen
  /\ readerOpen' = FALSE
  /\ socket' = <<>> /\ readBuf' = <<>>
  /\ UNCHANGED <<rpc, got, old, writerVars>>

----------------------------------------------------------------------------
Write == WriteSome \/ WriteIsCut \/ WriteToGoneReader \/ WriteToClosed

Clear == ClearSome \/ ClearNothing

Next ==
  \/ fp2fputc \/ fp2fflush \/ fp2fclose \/ Write
  \/ fp2select \/ fp2fgetc \/ fp2clearReadBuf \/ Clear \/ ReaderGone

Spec == Init /\ [][Next]_vars

\* The reader reads what fp2select shows it (nullserver, oxGet).  The writer need not
\* write; a write(2) in progress is the kernel's.
FairSpec == Spec /\ WF_vars(Write) /\ WF_vars(fp2select) /\ WF_vars(fp2fgetc) /\ WF_vars(Clear)

----------------------------------------------------------------------------
UnderWay == readBuf \o socket \o writeBuf

(***************************************************************************)
(* Read buffer, socket and write buffer hold the bytes in the order they   *)
(* were written, none of them twice and none that has been read.           *)
(***************************************************************************)
StreamOrder ==
  /\ \A i, j \in 1 .. Len(UnderWay) : i < j => UnderWay[i] < UnderWay[j]
  /\ \A i \in 1 .. Len(UnderWay) : got < UnderWay[i] /\ UnderWay[i] <= put
  /\ old <= put

(***************************************************************************)
(* After fp2clearReadBuf no byte is read that had arrived when it was      *)
(* called, however much there was and whatever arrived meanwhile.          *)
(***************************************************************************)
ClearedIsGone == [][got' # got => got' > old]_vars

(***************************************************************************)
(* What has arrived is read, or cleared: fp2select does not leave a reader *)
(* waiting at the socket for what is already in his buffer.                *)
(***************************************************************************)
ArrivedIsRead ==
  \A k \in 1 .. MaxPut :
    Contains(readBuf \o socket, k) ~> ~Contains(readBuf \o socket, k)

(***************************************************************************)
(* The two buffers and the socket are one queue of bytes: while both ends  *)
(* are there and no write(2) has been cut short, only fp2clearReadBuf      *)
(* loses any, and the oldest.                                              *)
(***************************************************************************)
Queue == INSTANCE ByteQueue WITH
  queue <- UnderWay, open <- writerOpen /\ readerOpen /\ ~cut, given <- put, taken <- got

IsQueue == Queue!Spec

=============================================================================
