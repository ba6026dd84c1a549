-------------------------- MODULE Fp2Stream_proofs --------------------------
(***************************************************************************)
(* Theorems about a FILE2 stream, for every size of its buffers and of the *)
(* socket, and their proofs.                                               *)
(***************************************************************************)
EXTENDS Fp2Stream, SequenceTheorems, TLAPS

----------------------------------------------------------------------------
(***************************************************************************)
(* Sequences.  What write(2) has taken and what it has left are a whole;   *)
(* what an action does to a part it does to the whole.                     *)
(***************************************************************************)
LEMMA LeastOf ==
  ASSUME NEW m \in Nat, NEW n \in Nat
  PROVE  /\ Least(m, n) \in Nat /\ Least(m, n) <= m /\ Least(m, n) <= n
         /\ m > 0 /\ n > 0 => Least(m, n) > 0
BY DEF Least

LEMMA Parts ==
  ASSUME NEW s \in Seq(Nat), NEW n \in 0 .. Len(s)
  PROVE  /\ Taken(s, n) \in Seq(Nat) /\ Len(Taken(s, n)) = n
         /\ \A i \in 1 .. n : Taken(s, n)[i] = s[i]
         /\ Dropped(s, n) \in Seq(Nat) /\ Len(Dropped(s, n)) = Len(s) - n
         /\ \A i \in 1 .. Len(s) - n : Dropped(s, n)[i] = s[n + i]
<1>0. n \in Int /\ Len(s) \in Nat
  BY LenProperties
<1>1. \A i \in 1 .. n : s[i] \in Nat
  BY <1>0, ElementOfSeq
<1>2. \A i \in n + 1 .. Len(s) : s[i] \in Nat
  BY <1>0, ElementOfSeq
<1>3. /\ Taken(s, n) \in Seq(Nat) /\ Len(Taken(s, n)) = n
      /\ \A i \in 1 .. n : Taken(s, n)[i] = s[i]
  <2>1. /\ SubSeq(s, 1, n) \in Seq(Nat)
        /\ Len(SubSeq(s, 1, n)) = IF 1 <= n THEN n - 1 + 1 ELSE 0
        /\ \A i \in 1 .. n - 1 + 1 : SubSeq(s, 1, n)[i] = s[1 + i - 1]
    BY <1>0, <1>1, SubSeqProperties
  <2> QED BY <1>0, <2>1 DEF Taken
<1>4. /\ Dropped(s, n) \in Seq(Nat) /\ Len(Dropped(s, n)) = Len(s) - n
      /\ \A i \in 1 .. Len(s) - n : Dropped(s, n)[i] = s[n + i]
  <2> DEFINE m == n + 1
             k == Len(s)
  <2>1. m \in Int /\ k \in Int /\ \A i \in m .. k : s[i] \in Nat
    BY <1>0, <1>2
  <2> HIDE DEF m, k
  <2>2. /\ SubSeq(s, m, k) \in Seq(Nat)
        /\ Len(SubSeq(s, m, k)) = IF m <= k THEN k - m + 1 ELSE 0
        /\ \A i \in 1 .. k - m + 1 : SubSeq(s, m, k)[i] = s[m + i - 1]
    BY <2>1, SubSeqProperties
  <2>3. Dropped(s, n) \in Seq(Nat) /\ Len(Dropped(s, n)) = Len(s) - n
    BY <1>0, <2>2 DEF Dropped, m, k
  <2>4. ASSUME NEW i \in 1 .. Len(s) - n PROVE Dropped(s, n)[i] = s[n + i]
    <3>1. i \in 1 .. k - m + 1 /\ m + i - 1 = n + i
      BY <1>0 DEF m, k
    <3>2. SubSeq(s, m, k)[i] = s[m + i - 1]
      BY <2>2, <3>1
    <3> QED BY <3>1, <3>2 DEF Dropped, m, k
  <2> QED BY <2>3, <2>4
<1> QED BY <1>3, <1>4

LEMMA Whole ==
  ASSUME NEW s \in Seq(Nat), NEW n \in 0 .. Len(s)
  PROVE  Taken(s, n) \o Dropped(s, n) = s
<1>0. Len(s) \in Nat
  BY LenProperties
<1>1. SubSeq(s, 1, n) \o SubSeq(s, n + 1, Len(s)) = SubSeq(s, 1, Len(s))
  <2>1. 1 \in 1 .. Len(s) + 1 /\ n \in 1 - 1 .. Len(s) /\ Len(s) \in n .. Len(s)
    BY <1>0
  <2> QED BY <2>1, ConcatAdjacentSubSeq
<1> QED BY <1>1, SubSeqFull DEF Taken, Dropped

\* Two sequences put together come apart where they meet.
LEMMA Apart ==
  ASSUME NEW s \in Seq(Nat), NEW t \in Seq(Nat)
  PROVE  Taken(s \o t, Len(s)) = s /\ Dropped(s \o t, Len(s)) = t
<1>0. Len(s) \in Nat /\ Len(t) \in Nat
  BY LenProperties
<1>1. /\ s \o t \in Seq(Nat) /\ Len(s \o t) = Len(s) + Len(t)
      /\ \A i \in 1 .. Len(s) + Len(t) :
            (s \o t)[i] = IF i <= Len(s) THEN s[i] ELSE t[i - Len(s)]
  BY ConcatProperties
<1>2. Len(s) \in 0 .. Len(s \o t)
  BY <1>0, <1>1
<1>3. Taken(s \o t, Len(s)) = s
  <2>1. /\ Taken(s \o t, Len(s)) \in Seq(Nat) /\ Len(Taken(s \o t, Len(s))) = Len(s)
        /\ \A i \in 1 .. Len(s) : Taken(s \o t, Len(s))[i] = (s \o t)[i]
    BY <1>1, <1>2, Parts
  <2>2. \A i \in 1 .. Len(s) : (s \o t)[i] = s[i]
    BY <1>0, <1>1
  <2> QED BY <2>1, <2>2, SeqEqual
<1>4. Dropped(s \o t, Len(s)) = t
  <2>1. /\ Dropped(s \o t, Len(s)) \in Seq(Nat)
        /\ Len(Dropped(s \o t, Len(s))) = Len(s \o t) - Len(s)
        /\ \A i \in 1 .. Len(s \o t) - Len(s) : Dropped(s \o t, Len(s))[i] = (s \o t)[Len(s) + i]
    BY <1>1, <1>2, Parts
  <2>2. \A i \in 1 .. Len(t) : (s \o t)[Len(s) + i] = t[i]
    BY <1>0, <1>1
  <2>3. Len(s \o t) - Len(s) = Len(t)
    BY <1>0, <1>1
  <2> QED BY <2>1, <2>2, <2>3, SeqEqual
<1> QED BY <1>3, <1>4

LEMMA Associative ==
  ASSUME NEW s \in Seq(Nat), NEW t \in Seq(Nat), NEW u \in Seq(Nat)
  PROVE  (s \o t) \o u = s \o (t \o u)
BY ConcatAssociative

LEMMA DropConcat ==
  ASSUME NEW s \in Seq(Nat), NEW t \in Seq(Nat), NEW n \in 0 .. Len(s)
  PROVE  Dropped(s, n) \o t = Dropped(s \o t, n)
<1> DEFINE T == Taken(s, n)
           D == Dropped(s, n)
<1>1. T \in Seq(Nat) /\ D \in Seq(Nat) /\ Len(T) = n
  BY Parts
<1>2. D \o t \in Seq(Nat)
  BY <1>1, ConcatProperties
<1>3. s \o t = T \o (D \o t)
  <2>1. T \o D = s
    BY Whole
  <2> HIDE DEF T, D
  <2>2. (T \o D) \o t = T \o (D \o t)
    BY <1>1, ConcatAssociative
  <2> QED BY <2>1, <2>2
<1> HIDE DEF T, D
<1>4. Dropped(T \o (D \o t), Len(T)) = D \o t
  BY <1>1, <1>2, Apart
<1> QED BY <1>1, <1>3, <1>4 DEF D

LEMMA TailIsDropped ==
  ASSUME NEW s \in Seq(Nat), s # <<>>
  PROVE  Tail(s) = Dropped(s, 1) /\ Head(s) = s[1] /\ 1 \in 0 .. Len(s)
<1>1. Len(s) \in Nat \ {0}
  BY EmptySeq
<1>2. Tail(s) = SubSeq(s, 2, Len(s))
  BY TailIsSubSeq
<1> QED BY <1>1, <1>2 DEF Dropped

LEMMA TailConcat ==
  ASSUME NEW s \in Seq(Nat), NEW t \in Seq(Nat), s # <<>>
  PROVE  s \o t # <<>> /\ Tail(s) \o t = Tail(s \o t) /\ Head(s \o t) = Head(s)
<1>1. Len(s) \in Nat \ {0} /\ Len(t) \in Nat
  BY EmptySeq, LenProperties
<1>2. /\ s \o t \in Seq(Nat) /\ Len(s \o t) = Len(s) + Len(t)
      /\ (s \o t)[1] = s[1]
  BY <1>1, ConcatProperties
<1>3. s \o t # <<>>
  BY <1>1, <1>2, EmptySeq
<1>4. Tail(s \o t) = Dropped(s \o t, 1) /\ Head(s \o t) = (s \o t)[1]
  BY <1>2, <1>3, TailIsDropped
<1>5. Tail(s) = Dropped(s, 1) /\ Head(s) = s[1] /\ 1 \in 0 .. Len(s)
  BY TailIsDropped
<1>6. Dropped(s, 1) \o t = Dropped(s \o t, 1)
  BY <1>5, DropConcat
<1> QED BY <1>2, <1>3, <1>4, <1>5, <1>6

\* What write(2) takes goes from the write buffer to the socket.
LEMMA Moved ==
  ASSUME NEW a \in Seq(Nat), NEW b \in Seq(Nat), NEW c \in Seq(Nat), NEW n \in 0 .. Len(c)
  PROVE  (a \o (b \o Taken(c, n))) \o Dropped(c, n) = (a \o b) \o c
<1> DEFINE T == Taken(c, n)
           D == Dropped(c, n)
           ab == a \o b
<1>1. T \in Seq(Nat) /\ D \in Seq(Nat) /\ T \o D = c
  BY Parts, Whole
<1>2. ab \in Seq(Nat)
  BY ConcatProperties
<1>t. T \in Seq(Nat) /\ D \in Seq(Nat)
  BY <1>1
<1> HIDE DEF T, D
<1>3. ab \o T = a \o (b \o T)
  BY <1>t, Associative
<1> HIDE DEF ab
<1>4. (ab \o T) \o D = ab \o (T \o D)
  BY <1>t, <1>2, Associative
<1>5. (a \o (b \o T)) \o D = ab \o c
  BY <1>1, <1>3, <1>4
<1> QED BY <1>5 DEF T, D, ab

LEMMA Transfer ==
  ASSUME NEW a \in Seq(Nat), NEW b \in Seq(Nat), NEW c \in Seq(Nat), NEW n \in 0 .. Len(c)
  PROVE  /\ a \o (b \o Taken(c, n)) \in Seq(Nat)
         /\ Len(a \o (b \o Taken(c, n))) \in 0 .. Len((a \o b) \o c)
         /\ a \o (b \o Taken(c, n)) = Taken((a \o b) \o c, Len(a \o (b \o Taken(c, n))))
<1> DEFINE p == a \o (b \o Taken(c, n))
           D == Dropped(c, n)
<1>1. Taken(c, n) \in Seq(Nat) /\ D \in Seq(Nat)
  BY Parts
<1>2. b \o Taken(c, n) \in Seq(Nat)
  BY <1>1, ConcatProperties
<1>3. p \in Seq(Nat)
  BY <1>2, ConcatProperties
<1>4. p \o D = (a \o b) \o c
  BY Moved, ZenonT(60)
<1> HIDE DEF p, D
<1>5. Taken(p \o D, Len(p)) = p /\ Len(p \o D) = Len(p) + Len(D)
  BY <1>1, <1>3, Apart, ConcatProperties
<1>6. Len(p) \in Nat /\ Len(D) \in Nat
  BY <1>1, <1>3, LenProperties
<1>7. Len(p) \in 0 .. Len((a \o b) \o c) /\ p = Taken((a \o b) \o c, Len(p))
  BY <1>4, <1>5, <1>6
<1> QED BY <1>3, <1>7 DEF p

\* A read(2) fills an empty buffer and the first byte is taken at once.
LEMMA Fill ==
  ASSUME NEW b \in Seq(Nat), b # <<>>, NEW n \in 1 .. Len(b)
  PROVE  /\ Taken(b, n) # <<>>
         /\ Tail(Taken(b, n)) \o Dropped(b, n) = Tail(b)
<1>1. Len(b) \in Nat /\ n \in 0 .. Len(b) /\ n > 0
  BY LenProperties
<1>2. /\ Taken(b, n) \in Seq(Nat) /\ Len(Taken(b, n)) = n
      /\ Dropped(b, n) \in Seq(Nat)
  BY <1>1, Parts
<1>3. Taken(b, n) \o Dropped(b, n) = b
  BY <1>1, Whole
<1>4. Taken(b, n) # <<>>
  BY <1>1, <1>2, EmptySeq
<1> QED BY <1>2, <1>3, <1>4, TailConcat

LEMMA AppendConcat ==
  ASSUME NEW s \in Seq(Nat), NEW t \in Seq(Nat), NEW e \in Nat
  PROVE  s \o Append(t, e) = Append(s \o t, e)
<1>1. <<e>> \in Seq(Nat) /\ s \o t \in Seq(Nat)
  BY ConcatProperties
<1>2. Append(t, e) = t \o <<e>> /\ Append(s \o t, e) = (s \o t) \o <<e>>
  BY <1>1, AppendIsConcat
<1> QED BY <1>1, <1>2, ConcatAssociative

----------------------------------------------------------------------------
(***************************************************************************)
(* The buffers.                                                            *)
(***************************************************************************)

\* A write buffer that is full is flushed before the next call, and the read buffer
\* stays empty while fp2clearReadBuf empties the socket.
BufferInvariant ==
  /\ StreamTypeOK
  /\ wpc = "ready" => Len(writeBuf) < Limit
  /\ rpc = "clearing" => readBuf = <<>>

LEMMA BufferInit == Init => BufferInvariant
<1> SUFFICES ASSUME Init PROVE BufferInvariant
  OBVIOUS
<1>1. <<>> \in Seq(Nat) /\ Len(<<>>) = 0
  BY EmptySeq
<1>2. cut \in BOOLEAN /\ writerOpen \in BOOLEAN /\ readerOpen \in BOOLEAN
  BY DEF Init
<1>3. /\ writeBuf = <<>> /\ wpc = "ready" /\ socket = <<>> /\ readBuf = <<>> /\ rpc = "idle"
      /\ put = 0 /\ got = 0 /\ old = 0
  BY DEF Init
<1> QED BY <1>1, <1>2, <1>3, StreamAssumption DEF BufferInvariant, StreamTypeOK

LEMMA BufferWriter ==
  ASSUME BufferInvariant, fp2fputc \/ fp2fflush \/ fp2fclose \/ Write
  PROVE  BufferInvariant'
<1> USE DEF BufferInvariant, StreamTypeOK, readerVars
<1>l. Len(writeBuf) \in Nat /\ Len(socket) \in Nat /\ SocketSize \in Nat /\ Limit \in Nat /\ 0 < Limit
  BY StreamAssumption, LenProperties
<1>e. <<>> \in Seq(Nat) /\ Len(<<>>) = 0
  BY EmptySeq
<1>1. CASE fp2fputc
  <2>1. /\ writeBuf' \in Seq(Nat) /\ Len(writeBuf') = Len(writeBuf) + 1 /\ put' \in Nat
        /\ wpc' = IF Len(writeBuf) + 1 < Limit THEN "ready" ELSE "flushing"
        /\ Len(writeBuf) < Limit
        /\ UNCHANGED <<writerOpen, cut, socket, readBuf, rpc, readerOpen, got, old>>
    BY <1>1, AppendProperties DEF fp2fputc
  <2>2. Len(writeBuf') <= Limit /\ wpc' \in {"ready", "flushing", "closing"}
        /\ (wpc' = "ready" => Len(writeBuf') < Limit)
    BY <1>l, <2>1
  <2> QED BY <2>1, <2>2
<1>2. CASE fp2fflush
  BY <1>2 DEF fp2fflush
<1>3. CASE fp2fclose
  BY <1>3 DEF fp2fclose
<1>4. CASE WriteSome
  <2>1. PICK n \in 1 .. Least(Len(writeBuf), SocketSize - Len(socket)) :
          /\ socket' = socket \o Taken(writeBuf, n)
          /\ IF n = Len(writeBuf) THEN WriteReturns
             ELSE writeBuf' = Dropped(writeBuf, n) /\ UNCHANGED <<wpc, writerOpen>>
    BY <1>4 DEF WriteSome
  <2>2. n \in 0 .. Len(writeBuf) /\ n <= SocketSize - Len(socket)
    BY <1>l, <2>1 DEF Least
  <2>3. Taken(writeBuf, n) \in Seq(Nat) /\ Len(Taken(writeBuf, n)) = n
        /\ Dropped(writeBuf, n) \in Seq(Nat) /\ Len(Dropped(writeBuf, n)) = Len(writeBuf) - n
    BY <2>2, Parts
  <2>4. socket' \in Seq(Nat) /\ Len(socket') = Len(socket) + n
    BY <2>1, <2>3, ConcatProperties
  <2>5. Len(socket') <= SocketSize
    BY <1>l, <2>2, <2>4
  <2>6. wpc # "ready" /\ UNCHANGED <<put, cut, readBuf, rpc, readerOpen, got, old>>
    BY <1>4 DEF WriteSome, Writing
  <2>7. writeBuf' \in Seq(Nat) /\ Len(writeBuf') <= Limit /\ writerOpen' \in BOOLEAN
        /\ wpc' \in {"ready", "flushing", "closing"}
        /\ (wpc' = "ready" => Len(writeBuf') < Limit)
    <3>1. CASE n = Len(writeBuf)
      <4>1. writeBuf' \in Seq(Nat) /\ Len(writeBuf') = 0
            /\ wpc' = "ready" /\ writerOpen' \in BOOLEAN
        BY <1>e, <2>1, <3>1 DEF WriteReturns
      <4> QED BY <1>l, <4>1
    <3>2. CASE n # Len(writeBuf)
      <4>1. writeBuf' \in Seq(Nat) /\ Len(writeBuf') = Len(writeBuf) - n
            /\ UNCHANGED <<wpc, writerOpen>>
        BY <2>1, <2>3, <3>2
      <4> QED BY <1>l, <2>2, <2>6, <4>1
    <3> QED BY <3>1, <3>2
  <2> QED BY <2>4, <2>5, <2>6, <2>7
<1>5. CASE WriteIsCut
  <2>1. PICK n \in 1 .. Least(Len(writeBuf) - 1, SocketSize - Len(socket)) :
          socket' = socket \o Taken(writeBuf, n)
    BY <1>5 DEF WriteIsCut
  <2>2. n \in 0 .. Len(writeBuf) /\ n <= SocketSize - Len(socket)
    BY <1>l, <2>1 DEF Least
  <2>3. Taken(writeBuf, n) \in Seq(Nat) /\ Len(Taken(writeBuf, n)) = n
    BY <2>2, Parts
  <2>4. socket' \in Seq(Nat) /\ Len(socket') = Len(socket) + n
    BY <2>1, <2>3, ConcatProperties
  <2>5. Len(socket') <= SocketSize
    BY <1>l, <2>2, <2>4
  <2>6. cut' = TRUE /\ UNCHANGED <<put, readBuf, rpc, readerOpen, got, old>>
    BY <1>5 DEF WriteIsCut
  <2>7. writeBuf' = <<>> /\ wpc' = "ready" /\ writerOpen' \in BOOLEAN
    BY <1>5 DEF WriteIsCut, WriteReturns
  <2> QED BY <1>l, <1>e, <2>4, <2>5, <2>6, <2>7
<1>6. CASE WriteToGoneReader
  <2>1. writeBuf' \in Seq(Nat) /\ Len(writeBuf') = 0
    BY <1>e, <1>6 DEF WriteToGoneReader
  <2>2. /\ wpc' = "ready" /\ writerOpen' \in BOOLEAN
        /\ UNCHANGED <<put, cut, socket, readBuf, rpc, readerOpen, got, old>>
    BY <1>6 DEF WriteToGoneReader
  <2> QED BY <1>l, <2>1, <2>2
<1>7. CASE WriteToClosed
  BY <1>l, <1>e, <1>7 DEF WriteToClosed, WriteReturns
<1> QED
  BY <1>1, <1>2, <1>3, <1>4, <1>5, <1>6, <1>7 DEF Write

LEMMA BufferReader ==
  ASSUME BufferInvariant, fp2select \/ fp2fgetc \/ fp2clearReadBuf \/ Clear \/ ReaderGone
  PROVE  BufferInvariant'
<1> USE DEF BufferInvariant, StreamTypeOK, writerVars
<1>l. Len(socket) \in Nat /\ SocketSize \in Nat /\ Limit \in Nat /\ 0 < Limit
      /\ TmpSize \in Nat /\ 0 < TmpSize /\ Len(readBuf) \in Nat
  BY StreamAssumption, LenProperties
<1>e. <<>> \in Seq(Nat) /\ Len(<<>>) = 0
  BY EmptySeq
<1>d. ASSUME NEW n \in 0 .. Len(socket)
      PROVE  Dropped(socket, n) \in Seq(Nat) /\ Len(Dropped(socket, n)) <= SocketSize
  <2>1. Dropped(socket, n) \in Seq(Nat) /\ Len(Dropped(socket, n)) = Len(socket) - n
    BY Parts
  <2> QED BY <1>l, <2>1
<1>1. CASE fp2select
  BY <1>1 DEF fp2select
<1>2. CASE fp2fgetc
  <2>1. CASE readBuf # <<>>
    <3>1. got' = Head(readBuf) /\ readBuf' = Tail(readBuf) /\ rpc' \in {"idle", "reading"}
          /\ UNCHANGED <<socket, readerOpen, old, writeBuf, wpc, writerOpen, put, cut>>
      BY <1>2, <2>1 DEF fp2fgetc
    <3>2. got' \in Nat /\ readBuf' \in Seq(Nat) /\ Len(readBuf') = Len(readBuf) - 1
      BY <2>1, <3>1, HeadTailProperties
    <3>3. Len(readBuf') < Limit
      BY <1>l, <3>2
    <3> QED BY <3>1, <3>2, <3>3
  <2>2. CASE readBuf = <<>> /\ socket # <<>>
    <3> DEFINE n == Least(Limit, Len(socket))
    <3>1. got' = Head(socket) /\ readBuf' = Tail(Taken(socket, n)) /\ socket' = Dropped(socket, n)
          /\ rpc' \in {"idle", "reading"}
          /\ UNCHANGED <<readerOpen, old, writeBuf, wpc, writerOpen, put, cut>>
      BY <1>2, <2>2 DEF fp2fgetc
    <3>2. Len(socket) > 0
      BY <2>2, EmptySeq
    <3>3. n \in 1 .. Len(socket) /\ n <= Limit /\ n \in 0 .. Len(socket)
      BY <1>l, <3>2 DEF Least
    <3> HIDE DEF n
    <3>4. Taken(socket, n) \in Seq(Nat) /\ Len(Taken(socket, n)) = n
      BY <3>3, Parts
    <3>5. Taken(socket, n) # <<>>
      BY <2>2, <3>3, Fill
    <3>6. readBuf' \in Seq(Nat) /\ Len(readBuf') = n - 1
      BY <3>1, <3>4, <3>5, HeadTailProperties
    <3>7. Len(readBuf') < Limit
      BY <1>l, <3>3, <3>6
    <3>8. got' \in Nat
      BY <2>2, <3>1, HeadTailProperties
    <3>9. socket' \in Seq(Nat) /\ Len(socket') <= SocketSize
      BY <1>d, <3>1, <3>3
    <3> QED BY <3>1, <3>6, <3>7, <3>8, <3>9
  <2>3. CASE readBuf = <<>> /\ socket = <<>>
    BY <1>2, <2>3 DEF fp2fgetc
  <2> QED BY <2>1, <2>2, <2>3
<1>3. CASE fp2clearReadBuf
  <2>1. old' \in Nat
    <3>1. CASE readBuf \o socket = <<>>
      BY <1>3, <3>1 DEF fp2clearReadBuf
    <3>2. CASE readBuf \o socket # <<>>
      <4> DEFINE s == readBuf \o socket
      <4>1. s \in Seq(Nat)
        BY ConcatProperties
      <4> HIDE DEF s
      <4>2. Len(s) \in 1 .. Len(s)
        BY <3>2, <4>1, EmptySeq DEF s
      <4>3. s[Len(s)] \in Nat
        BY <4>1, <4>2, ElementOfSeq
      <4> QED BY <1>3, <3>2, <4>3 DEF fp2clearReadBuf, Last, s
    <3> QED BY <3>1, <3>2
  <2> QED BY <1>l, <1>e, <1>3, <2>1 DEF fp2clearReadBuf
<1>4. CASE ClearSome
  <2>1. Least(TmpSize, Len(socket)) \in 0 .. Len(socket)
    BY <1>l DEF Least
  <2>2. socket' \in Seq(Nat) /\ Len(socket') <= SocketSize
    BY <1>d, <1>4, <2>1 DEF ClearSome
  <2> QED BY <1>4, <2>2 DEF ClearSome
<1>5. CASE ClearNothing
  BY <1>5 DEF ClearNothing
<1>6. CASE ReaderGone
  <2>1. socket' \in Seq(Nat) /\ Len(socket') = 0 /\ readBuf' \in Seq(Nat) /\ Len(readBuf') = 0
        /\ readBuf' = <<>>
    BY <1>e, <1>6 DEF ReaderGone
  <2>2. readerOpen' \in BOOLEAN /\ UNCHANGED <<rpc, got, old, writeBuf, wpc, writerOpen, put, cut>>
    BY <1>6 DEF ReaderGone
  <2> QED BY <1>l, <2>1, <2>2
<1> QED
  BY <1>1, <1>2, <1>3, <1>4, <1>5, <1>6 DEF Clear

LEMMA BufferStep == BufferInvariant /\ [Next]_vars => BufferInvariant'
<1>1. BufferInvariant /\ UNCHANGED vars => BufferInvariant'
  BY DEF BufferInvariant, StreamTypeOK, vars, writerVars, readerVars
<1> QED
  BY <1>1, BufferWriter, BufferReader DEF Next

(***************************************************************************)
(* Every buffer stays within its size, the write buffer and the socket at  *)
(* most full, the read buffer never full after a byte has been taken.      *)
(***************************************************************************)
THEOREM StreamTypeCorrect == Spec => []StreamTypeOK
<1>1. BufferInvariant => StreamTypeOK
  BY DEF BufferInvariant
<1> QED
  BY <1>1, BufferInit, BufferStep, PTL DEF Spec

----------------------------------------------------------------------------
(***************************************************************************)
(* The queue.  Each step is one of four as UnderWay sees it.               *)
(***************************************************************************)
Open == writerOpen /\ readerOpen /\ ~cut

Gives ==
  /\ UnderWay' = Append(UnderWay, put + 1) /\ put' = put + 1
  /\ UNCHANGED <<got, Open>>

Takes ==
  /\ UnderWay # <<>>
  /\ UnderWay' = Tail(UnderWay) /\ got' = Head(UnderWay)
  /\ UNCHANGED <<put, Open>>

\* Nothing may be dropped: such a step does not touch the queue.
Drops ==
  /\ \E n \in 0 .. Len(UnderWay) : UnderWay' = Dropped(UnderWay, n)
  /\ Open' => Open
  /\ UNCHANGED <<put, got>>

Loses ==
  /\ ~Open'
  /\ \E n \in 0 .. Len(UnderWay) : UnderWay' = Taken(UnderWay, n)
  /\ UNCHANGED <<put, got>>

QueueStep == Gives \/ Takes \/ Drops \/ Loses

LEMMA UnderWayType ==
  ASSUME BufferInvariant
  PROVE  /\ UnderWay \in Seq(Nat) /\ readBuf \o socket \in Seq(Nat)
         /\ Len(readBuf \o socket) \in 0 .. Len(UnderWay)
<1>1. readBuf \in Seq(Nat) /\ socket \in Seq(Nat) /\ writeBuf \in Seq(Nat)
  BY DEF BufferInvariant, StreamTypeOK
<1>2. readBuf \o socket \in Seq(Nat)
  BY <1>1, ConcatProperties
<1> DEFINE s == readBuf \o socket
<1>3. s \in Seq(Nat)
  BY <1>2
<1> HIDE DEF s
<1>4. s \o writeBuf \in Seq(Nat) /\ Len(s \o writeBuf) = Len(s) + Len(writeBuf)
  BY <1>1, <1>3, ConcatProperties
<1>5. Len(s) \in Nat /\ Len(writeBuf) \in Nat
  BY <1>1, <1>3, LenProperties
<1>6. Len(s) \in 0 .. Len(s \o writeBuf)
  BY <1>4, <1>5
<1> QED BY <1>2, <1>4, <1>6 DEF UnderWay, s

\* A step that leaves the bytes where they are.
LEMMA KeepsQueue ==
  ASSUME BufferInvariant, UnderWay' = UnderWay, Open' => Open, UNCHANGED <<put, got>>
  PROVE  Drops
<1>1. UnderWay \in Seq(Nat)
  BY UnderWayType
<1>2. 0 \in 0 .. Len(UnderWay)
  BY <1>1, LenProperties
<1>3. SubSeq(UnderWay, 1, Len(UnderWay)) = UnderWay
  BY <1>1, SubSeqFull
<1>4. Dropped(UnderWay, 0) = UnderWay
  BY <1>3 DEF Dropped
<1> QED BY <1>2, <1>4 DEF Drops

LEMMA WriterSteps ==
  ASSUME BufferInvariant, fp2fputc \/ fp2fflush \/ fp2fclose \/ Write
  PROVE  QueueStep
<1>t. /\ readBuf \in Seq(Nat) /\ socket \in Seq(Nat) /\ writeBuf \in Seq(Nat)
      /\ put \in Nat /\ put + 1 \in Nat
  BY DEF BufferInvariant, StreamTypeOK
<1>u. UnderWay \in Seq(Nat) /\ readBuf \o socket \in Seq(Nat)
      /\ Len(readBuf \o socket) \in 0 .. Len(UnderWay)
  BY UnderWayType
<1>b. writerOpen \in BOOLEAN /\ readerOpen \in BOOLEAN /\ cut \in BOOLEAN
  BY DEF BufferInvariant, StreamTypeOK
<1>r. UNCHANGED <<readBuf, readerOpen, got>>
  BY DEF fp2fputc, fp2fflush, fp2fclose, Write, WriteSome, WriteIsCut, WriteToGoneReader,
         WriteToClosed, readerVars
<1>1. CASE fp2fputc
  <2>1. writeBuf' = Append(writeBuf, put + 1) /\ put' = put + 1
        /\ UNCHANGED <<socket, writerOpen, cut>>
    BY <1>1 DEF fp2fputc
  <2>2. (readBuf \o socket) \o Append(writeBuf, put + 1) = Append((readBuf \o socket) \o writeBuf, put + 1)
    BY <1>t, <1>u, AppendConcat
  <2> QED BY <1>r, <2>1, <2>2 DEF UnderWay, Open, Gives, QueueStep
<1>2. CASE fp2fflush \/ fp2fclose
  <2>1. UNCHANGED <<socket, writeBuf, put, cut>> /\ (writerOpen' => writerOpen)
    BY <1>b, <1>2 DEF fp2fflush, fp2fclose
  <2>2. UnderWay' = UnderWay /\ (Open' => Open)
    BY <1>r, <2>1 DEF UnderWay, Open
  <2> QED BY <1>r, <2>1, <2>2, KeepsQueue DEF QueueStep
<1>3. CASE WriteSome
  <2>1. PICK n \in 1 .. Least(Len(writeBuf), SocketSize - Len(socket)) :
          /\ socket' = socket \o Taken(writeBuf, n)
          /\ IF n = Len(writeBuf) THEN WriteReturns
             ELSE writeBuf' = Dropped(writeBuf, n) /\ UNCHANGED <<wpc, writerOpen>>
    BY <1>3 DEF WriteSome
  <2>2. Len(writeBuf) \in Nat /\ Len(socket) \in Nat /\ SocketSize \in Nat
    BY <1>t, LenProperties, StreamAssumption
  <2>3. n \in 0 .. Len(writeBuf)
    BY <2>1, <2>2 DEF Least
  <2>4. writeBuf' = Dropped(writeBuf, n)
    <3>1. CASE n = Len(writeBuf)
      <4>1. writeBuf' = <<>>
        BY <2>1, <3>1 DEF WriteReturns
      <4>2. Dropped(writeBuf, n) = <<>>
        BY <2>2, <3>1, SubSeqEmpty DEF Dropped
      <4> QED BY <4>1, <4>2
    <3>2. CASE n # Len(writeBuf)
      BY <2>1, <3>2
    <3> QED BY <3>1, <3>2
  <2>5. writerOpen' => writerOpen
    BY <1>b, <2>1 DEF WriteReturns
  <2>6. (readBuf \o (socket \o Taken(writeBuf, n))) \o Dropped(writeBuf, n)
          = (readBuf \o socket) \o writeBuf
    BY <1>t, <2>3, Moved, ZenonT(60)
  <2>7. UnderWay' = UnderWay
    BY <1>r, <2>1, <2>4, <2>6 DEF UnderWay
  <2>8. (Open' => Open) /\ UNCHANGED put
    BY <1>3, <1>r, <2>5 DEF Open, WriteSome
  <2> QED BY <1>r, <2>7, <2>8, KeepsQueue DEF QueueStep
<1>4. CASE WriteIsCut
  <2>1. PICK n \in 1 .. Least(Len(writeBuf) - 1, SocketSize - Len(socket)) :
          socket' = socket \o Taken(writeBuf, n)
    BY <1>4 DEF WriteIsCut
  <2>2. Len(writeBuf) \in Nat /\ Len(socket) \in Nat /\ SocketSize \in Nat
    BY <1>t, LenProperties, StreamAssumption
  <2>3. n \in 0 .. Len(writeBuf)
    BY <2>1, <2>2 DEF Least
  <2>4. writeBuf' = <<>> /\ cut' = TRUE /\ UNCHANGED put
    BY <1>4 DEF WriteIsCut, WriteReturns
  <2> DEFINE s == readBuf \o (socket \o Taken(writeBuf, n))
  <2>5. /\ s \in Seq(Nat)
        /\ Len(s) \in 0 .. Len((readBuf \o socket) \o writeBuf)
        /\ s = Taken((readBuf \o socket) \o writeBuf, Len(s))
    BY <1>t, <2>3, Transfer
  <2>6. UnderWay' = s \o <<>>
    BY <1>r, <2>1, <2>4 DEF UnderWay
  <2> HIDE DEF s
  <2>7. s \o <<>> = s
    BY <2>5, ConcatEmptySeq
  <2>8. Len(s) \in 0 .. Len(UnderWay) /\ UnderWay' = Taken(UnderWay, Len(s))
    BY <2>5, <2>6, <2>7 DEF UnderWay
  <2>9. ~Open'
    BY <2>4 DEF Open
  <2> QED BY <1>r, <2>4, <2>8, <2>9 DEF Loses, QueueStep
<1>5. CASE WriteToGoneReader \/ WriteToClosed
  <2>1. /\ writeBuf' = <<>> /\ ~Open' /\ UNCHANGED <<put, socket>>
    BY <1>b, <1>5, <1>r DEF WriteToGoneReader, WriteToClosed, WriteReturns, Open
  <2> DEFINE s == readBuf \o socket
  <2>2. s \in Seq(Nat) /\ UnderWay = s \o writeBuf
    BY <1>u DEF UnderWay
  <2>3. UnderWay' = s \o <<>>
    BY <1>r, <2>1 DEF UnderWay
  <2> HIDE DEF s
  <2>4. Taken(s \o writeBuf, Len(s)) = s /\ s \o <<>> = s
    BY <1>t, <2>2, Apart, ConcatEmptySeq
  <2>5. UnderWay' = Taken(UnderWay, Len(s)) /\ Len(s) \in 0 .. Len(UnderWay)
    BY <1>u, <2>2, <2>3, <2>4 DEF s
  <2> QED BY <1>r, <2>1, <2>5 DEF Loses, QueueStep
<1> QED
  BY <1>1, <1>2, <1>3, <1>4, <1>5 DEF Write

LEMMA ReaderSteps ==
  ASSUME BufferInvariant, fp2select \/ fp2fgetc \/ fp2clearReadBuf \/ Clear \/ ReaderGone
  PROVE  QueueStep
<1>t. readBuf \in Seq(Nat) /\ socket \in Seq(Nat) /\ writeBuf \in Seq(Nat)
  BY DEF BufferInvariant, StreamTypeOK
<1>u. UnderWay \in Seq(Nat) /\ readBuf \o socket \in Seq(Nat)
      /\ Len(readBuf \o socket) \in 0 .. Len(UnderWay)
  BY UnderWayType
<1>e. <<>> \o socket = socket
  BY <1>t, ConcatEmptySeq
<1>l. Len(socket) \in Nat /\ Len(readBuf) \in Nat /\ Limit \in Nat /\ 0 < Limit
      /\ TmpSize \in Nat /\ 0 < TmpSize
  BY <1>t, LenProperties, StreamAssumption
<1>w. UNCHANGED <<writeBuf, writerOpen, put, cut>>
  BY DEF fp2select, fp2fgetc, fp2clearReadBuf, Clear, ClearSome, ClearNothing, ReaderGone,
         writerVars
<1>1. CASE fp2select \/ ClearNothing
  <2>1. UNCHANGED <<readBuf, socket, readerOpen, got>>
    BY <1>1 DEF fp2select, ClearNothing
  <2>2. UnderWay' = UnderWay /\ (Open' => Open)
    BY <1>w, <2>1 DEF UnderWay, Open
  <2> QED BY <1>w, <2>1, <2>2, KeepsQueue DEF QueueStep
<1>2. CASE fp2fgetc
  <2>o. Open' = Open
    BY <1>2, <1>w DEF fp2fgetc, Open
  <2>1. CASE readBuf # <<>>
    <3>1. got' = Head(readBuf) /\ readBuf' = Tail(readBuf) /\ UNCHANGED socket
      BY <1>2, <2>1 DEF fp2fgetc
    <3> DEFINE s == readBuf \o socket
    <3>2. s # <<>> /\ Tail(readBuf) \o socket = Tail(s) /\ Head(s) = Head(readBuf)
      BY <1>t, <2>1, TailConcat
    <3>3. s \in Seq(Nat)
      BY <1>u
    <3>4. UnderWay = s \o writeBuf /\ UnderWay' = Tail(s) \o writeBuf
      BY <1>w, <3>1, <3>2 DEF UnderWay
    <3> HIDE DEF s
    <3>5. s \o writeBuf # <<>> /\ Tail(s) \o writeBuf = Tail(s \o writeBuf)
          /\ Head(s \o writeBuf) = Head(s)
      BY <1>t, <3>2, <3>3, TailConcat
    <3> QED BY <1>w, <2>o, <3>1, <3>2, <3>4, <3>5 DEF Takes, QueueStep
  <2>2. CASE readBuf = <<>> /\ socket # <<>>
    <3> DEFINE n == Least(Limit, Len(socket))
    <3>1. got' = Head(socket) /\ readBuf' = Tail(Taken(socket, n)) /\ socket' = Dropped(socket, n)
      BY <1>2, <2>2 DEF fp2fgetc
    <3>2. Len(socket) > 0
      BY <2>2, EmptySeq, <1>t
    <3>3. n \in 1 .. Len(socket)
      BY <1>l, <3>2 DEF Least
    <3> HIDE DEF n
    <3>4. Tail(Taken(socket, n)) \o Dropped(socket, n) = Tail(socket)
      BY <1>t, <2>2, <3>3, Fill
    <3>5. UnderWay' = Tail(socket) \o writeBuf /\ UnderWay = socket \o writeBuf
      BY <1>e, <1>w, <2>2, <3>1, <3>4 DEF UnderWay
    <3>6. socket \o writeBuf # <<>> /\ Tail(socket) \o writeBuf = Tail(socket \o writeBuf)
          /\ Head(socket \o writeBuf) = Head(socket)
      BY <1>t, <2>2, TailConcat
    <3> QED BY <1>w, <2>o, <3>1, <3>5, <3>6 DEF Takes, QueueStep
  <2>3. CASE readBuf = <<>> /\ socket = <<>>
    <3>1. UNCHANGED <<got, readBuf, socket>>
      BY <1>2, <2>3 DEF fp2fgetc
    <3>2. UnderWay' = UnderWay
      BY <1>w, <3>1 DEF UnderWay
    <3> QED BY <1>w, <2>o, <3>1, <3>2, KeepsQueue DEF QueueStep
  <2> QED BY <2>1, <2>2, <2>3
<1>3. CASE fp2clearReadBuf
  <2>1. readBuf' = <<>> /\ UNCHANGED <<socket, readerOpen, got>>
    BY <1>3 DEF fp2clearReadBuf
  <2>2. UnderWay' = socket \o writeBuf
    BY <1>e, <1>w, <2>1 DEF UnderWay
  <2> DEFINE s == socket \o writeBuf
  <2>3. s \in Seq(Nat) /\ UnderWay = readBuf \o s
    BY <1>t, ConcatProperties, Associative DEF UnderWay
  <2> HIDE DEF s
  <2>4. Dropped(readBuf \o s, Len(readBuf)) = s /\ Len(readBuf \o s) = Len(readBuf) + Len(s)
    BY <1>t, <2>3, Apart, ConcatProperties
  <2>5. Len(s) \in Nat
    BY <2>3, LenProperties
  <2>6. Len(readBuf) \in 0 .. Len(UnderWay) /\ UnderWay' = Dropped(UnderWay, Len(readBuf))
    BY <1>l, <2>2, <2>3, <2>4, <2>5 DEF s
  <2>7. Open' => Open
    BY <1>w, <2>1 DEF Open
  <2> QED BY <1>w, <2>1, <2>6, <2>7 DEF Drops, QueueStep
<1>4. CASE ClearSome
  <2> DEFINE n == Least(TmpSize, Len(socket))
  <2>1. socket' = Dropped(socket, n) /\ UNCHANGED <<readBuf, readerOpen, got>> /\ rpc = "clearing"
    BY <1>4 DEF ClearSome
  <2>2. n \in 0 .. Len(socket)
    BY <1>l DEF Least
  <2>3. readBuf = <<>>
    BY <2>1 DEF BufferInvariant
  <2> HIDE DEF n
  <2>4. Dropped(socket, n) \in Seq(Nat)
    BY <1>t, <2>2, Parts
  <2>5. UnderWay = socket \o writeBuf /\ UnderWay' = Dropped(socket, n) \o writeBuf
    BY <1>e, <1>w, <2>1, <2>3, <2>4, ConcatEmptySeq DEF UnderWay
  <2>6. Dropped(socket, n) \o writeBuf = Dropped(socket \o writeBuf, n)
    BY <1>t, <2>2, DropConcat
  <2>7. Len(socket \o writeBuf) = Len(socket) + Len(writeBuf) /\ Len(writeBuf) \in Nat
    BY <1>t, ConcatProperties, LenProperties
  <2>8. n \in 0 .. Len(UnderWay) /\ UnderWay' = Dropped(UnderWay, n)
    BY <1>l, <2>2, <2>5, <2>6, <2>7
  <2>9. Open' => Open
    BY <1>w, <2>1 DEF Open
  <2> QED BY <1>w, <2>1, <2>8, <2>9 DEF Drops, QueueStep
<1>5. CASE ReaderGone
  <2>1. readBuf' = <<>> /\ socket' = <<>> /\ ~Open' /\ UNCHANGED got
    BY <1>5 DEF ReaderGone, Open
  <2> DEFINE s == readBuf \o socket
  <2>2. s \in Seq(Nat) /\ UnderWay = s \o writeBuf
    BY <1>u DEF UnderWay
  <2>3. <<>> \o <<>> = <<>> /\ <<>> \o writeBuf = writeBuf
    BY <1>t, EmptySeq, ConcatEmptySeq
  <2>4. UnderWay' = writeBuf
    BY <1>w, <2>1, <2>3 DEF UnderWay
  <2> HIDE DEF s
  <2>5. Dropped(s \o writeBuf, Len(s)) = writeBuf
    BY <1>t, <2>2, Apart
  <2>6. UnderWay' = Dropped(UnderWay, Len(s)) /\ Len(s) \in 0 .. Len(UnderWay)
    BY <1>u, <2>2, <2>4, <2>5 DEF s
  <2> QED BY <1>w, <2>1, <2>6 DEF Drops, QueueStep
<1> QED
  BY <1>1, <1>2, <1>3, <1>4, <1>5 DEF Clear

LEMMA Steps == BufferInvariant /\ [Next]_vars => QueueStep
<1>1. ASSUME BufferInvariant, UNCHANGED vars PROVE QueueStep
  <2>1. UnderWay' = UnderWay /\ (Open' => Open) /\ UNCHANGED <<put, got>>
    BY <1>1 DEF vars, writerVars, readerVars, UnderWay, Open
  <2> QED BY <1>1, <2>1, KeepsQueue DEF QueueStep
<1> QED
  BY <1>1, WriterSteps, ReaderSteps DEF Next

(***************************************************************************)
(* The two buffers and the socket are one queue of bytes, which loses its  *)
(* newest only when an end is gone or a signal has cut a write short.      *)
(***************************************************************************)
THEOREM StreamIsQueue == Spec => IsQueue
<1>1. Init => Queue!Init
  <2>1. (<<>> \o <<>>) \o <<>> = <<>>
    <3>1. <<>> \in Seq(Nat)
      BY EmptySeq
    <3> QED BY <3>1, ConcatEmptySeq
  <2>2. Init => UnderWay = <<>>
    BY <2>1 DEF Init, UnderWay
  <2> QED BY <2>2 DEF Init, Queue!Init
<1>2. BufferInvariant /\ [Next]_vars => [Queue!Next]_(Queue!queueVars)
  <2> SUFFICES ASSUME BufferInvariant, [Next]_vars
               PROVE  [Queue!Next]_(Queue!queueVars)
    OBVIOUS
  <2>1. UnderWay \in Seq(Nat) /\ Len(UnderWay) \in Nat
    BY UnderWayType, LenProperties
  <2>2. SubSeq(UnderWay, 1, Len(UnderWay)) = UnderWay
    BY <2>1, SubSeqFull
  <2>3. CASE Gives
    BY <2>3 DEF Gives, Open, Queue!Give, Queue!Next
  <2>4. CASE Takes
    BY <2>4 DEF Takes, Open, Queue!Take, Queue!Next
  <2>5. CASE Drops
    <3>1. PICK n \in 0 .. Len(UnderWay) : UnderWay' = SubSeq(UnderWay, n + 1, Len(UnderWay))
      BY <2>5 DEF Drops, Dropped
    <3>2. CASE Open' # Open
      <4>1. (writerOpen /\ readerOpen /\ ~cut)' = FALSE
        BY <2>5, <3>2 DEF Drops, Open
      <4> QED BY <2>5, <3>1, <4>1 DEF Drops, Queue!EndIsGone, Queue!Without, Queue!Next
    <3>3. CASE Open' = Open /\ n = 0
      <4>1. UnderWay' = UnderWay
        BY <2>2, <3>1, <3>3
      <4> QED BY <2>5, <3>3, <4>1 DEF Drops, Open, Queue!queueVars
    <3>4. CASE Open' = Open /\ n # 0
      <4>1. n \in 1 .. Len(UnderWay)
        BY <2>1, <3>4
      <4> QED BY <2>5, <3>1, <3>4, <4>1
              DEF Drops, Open, Queue!GiveUpOldest, Queue!Without, Queue!Next
    <3> QED BY <3>2, <3>3, <3>4
  <2>6. CASE Loses
    <3>1. PICK n \in 0 .. Len(UnderWay) : UnderWay' = SubSeq(UnderWay, 1, n)
      BY <2>6 DEF Loses, Taken
    <3>2. (writerOpen /\ readerOpen /\ ~cut)' = FALSE /\ UNCHANGED <<put, got>>
      BY <2>6 DEF Loses, Open
    <3>3. CASE n = Len(UnderWay)
      <4>1. UnderWay' = Queue!Without(0) /\ 0 \in 0 .. Len(UnderWay)
        BY <2>1, <3>1, <3>3 DEF Queue!Without
      <4> QED BY <3>2, <4>1 DEF Queue!EndIsGone, Queue!Next
    <3>4. CASE n # Len(UnderWay)
      <4>1. n \in 0 .. Len(UnderWay) - 1
        BY <2>1, <3>4
      <4> QED BY <3>1, <3>2, <4>1 DEF Queue!LoseNewest, Queue!Next
    <3> QED BY <3>3, <3>4
  <2> QED BY <2>3, <2>4, <2>5, <2>6, Steps DEF QueueStep
<1> QED
  BY <1>1, <1>2, BufferInit, BufferStep, PTL DEF Spec, IsQueue, Queue!Spec

----------------------------------------------------------------------------
(***************************************************************************)
(* Order.                                                                  *)
(***************************************************************************)
Above(s, b) == \A i \in 1 .. Len(s) : b < s[i]

\* s ascends, from above g to at most p.
Line(s, g, p) ==
  /\ \A i, j \in 1 .. Len(s) : i < j => s[i] < s[j]
  /\ Above(s, g)
  /\ \A i \in 1 .. Len(s) : s[i] <= p

LEMMA LineParts ==
  ASSUME NEW s \in Seq(Nat), NEW g \in Nat, NEW p \in Nat, Line(s, g, p),
         NEW n \in 0 .. Len(s)
  PROVE  Line(Taken(s, n), g, p) /\ Line(Dropped(s, n), g, p)
<1>1. Len(s) \in Nat /\ \A i \in 1 .. Len(s) : s[i] \in Nat
  BY LenProperties, ElementOfSeq
<1>2. Line(Taken(s, n), g, p)
  <2>1. Len(Taken(s, n)) = n /\ \A i \in 1 .. n : Taken(s, n)[i] = s[i]
    BY Parts
  <2>2. \A i \in 1 .. n : i \in 1 .. Len(s)
    BY <1>1
  <2>3. \A i, j \in 1 .. n : i < j => Taken(s, n)[i] < Taken(s, n)[j]
    BY <2>1, <2>2 DEF Line
  <2>4. \A i \in 1 .. n : g < Taken(s, n)[i] /\ Taken(s, n)[i] <= p
    BY <2>1, <2>2 DEF Line, Above
  <2> QED BY <2>1, <2>3, <2>4 DEF Line, Above
<1>3. Line(Dropped(s, n), g, p)
  <2>1. /\ Len(Dropped(s, n)) = Len(s) - n
        /\ \A i \in 1 .. Len(s) - n : Dropped(s, n)[i] = s[n + i]
    BY Parts
  <2>2. \A i \in 1 .. Len(s) - n : n + i \in 1 .. Len(s)
    BY <1>1
  <2>3. \A i, j \in 1 .. Len(s) - n : i < j => n + i < n + j
    BY <1>1
  <2> QED BY <2>1, <2>2, <2>3 DEF Line, Above
<1> QED BY <1>2, <1>3

LEMMA LineTail ==
  ASSUME NEW s \in Seq(Nat), NEW g \in Nat, NEW p \in Nat, Line(s, g, p), s # <<>>
  PROVE  Line(Tail(s), Head(s), p) /\ Head(s) \in Nat /\ g < Head(s)
<1>1. Len(s) \in Nat \ {0} /\ \A i \in 1 .. Len(s) : s[i] \in Nat
  BY EmptySeq, ElementOfSeq
<1>2. Tail(s) = Dropped(s, 1) /\ Head(s) = s[1] /\ 1 \in 0 .. Len(s)
  BY TailIsDropped
<1>3. /\ Len(Tail(s)) = Len(s) - 1
      /\ \A i \in 1 .. Len(s) - 1 : Tail(s)[i] = s[1 + i]
  BY <1>2, Parts
<1>4. Line(Tail(s), g, p)
  BY <1>2, LineParts
<1>5. \A i \in 1 .. Len(s) - 1 : 1 + i \in 1 .. Len(s) /\ 1 < 1 + i
  BY <1>1
<1>6. Above(Tail(s), Head(s))
  BY <1>1, <1>2, <1>3, <1>5 DEF Line, Above
<1>7. 1 \in 1 .. Len(s)
  BY <1>1
<1> QED BY <1>1, <1>2, <1>4, <1>6, <1>7 DEF Line, Above

LEMMA LineAppend ==
  ASSUME NEW s \in Seq(Nat), NEW g \in Nat, NEW p \in Nat, Line(s, g, p), g <= p
  PROVE  Line(Append(s, p + 1), g, p + 1)
<1>1. Len(s) \in Nat /\ \A i \in 1 .. Len(s) : s[i] \in Nat
  BY LenProperties, ElementOfSeq
<1> DEFINE t == Append(s, p + 1)
<1>2. /\ Len(t) = Len(s) + 1
      /\ \A i \in 1 .. Len(s) : t[i] = s[i]
      /\ t[Len(s) + 1] = p + 1
  BY AppendProperties
<1> HIDE DEF t
<1>n. Len(s) \in Nat /\ Len(t) = Len(s) + 1
  BY <1>1, <1>2
<1>3. \A i \in 1 .. Len(t) : g < t[i] /\ t[i] <= p + 1
  <2> SUFFICES ASSUME NEW i \in 1 .. Len(t) PROVE g < t[i] /\ t[i] <= p + 1
    OBVIOUS
  <2>1. CASE i \in 1 .. Len(s)
    BY <1>1, <1>2, <2>1 DEF Line, Above
  <2>2. CASE i = Len(s) + 1
    BY <1>2, <2>2
  <2> QED BY <1>1, <1>2, <2>1, <2>2
<1>4. \A i, j \in 1 .. Len(t) : i < j => t[i] < t[j]
  <2> SUFFICES ASSUME NEW i \in 1 .. Len(t), NEW j \in 1 .. Len(t), i < j PROVE t[i] < t[j]
    OBVIOUS
  <2>1. i \in 1 .. Len(s)
    BY <1>n
  <2>2. CASE j \in 1 .. Len(s)
    BY <1>2, <2>1, <2>2 DEF Line
  <2>3. CASE j = Len(s) + 1
    <3>1. s[i] <= p /\ s[i] \in Nat
      BY <1>1, <2>1 DEF Line
    <3> QED BY <1>2, <2>1, <2>3, <3>1
  <2>4. j \in 1 .. Len(s) \/ j = Len(s) + 1
    BY <1>n
  <2> QED BY <2>2, <2>3, <2>4
<1> QED BY <1>3, <1>4 DEF Line, Above, t

\* The queue keeps its order, and a step gives it no byte that is older than b.
LEMMA OrderStep ==
  ASSUME BufferInvariant, QueueStep, got <= put, Line(UnderWay, got, put)
  PROVE  Line(UnderWay, got, put)' /\ got' <= put' /\ got' \in Nat
<1>1. UnderWay \in Seq(Nat) /\ got \in Nat /\ put \in Nat
  BY UnderWayType DEF BufferInvariant, StreamTypeOK
<1>2. CASE Gives
  BY <1>1, <1>2, LineAppend DEF Gives
<1>3. CASE Takes
  <2>1. UnderWay # <<>> /\ UnderWay' = Tail(UnderWay) /\ got' = Head(UnderWay) /\ put' = put
    BY <1>3 DEF Takes
  <2>2. Line(Tail(UnderWay), Head(UnderWay), put) /\ Head(UnderWay) \in Nat
    BY <1>1, <2>1, LineTail
  <2>3. Head(UnderWay) = UnderWay[1] /\ 1 \in 1 .. Len(UnderWay)
    BY <1>1, <2>1, TailIsDropped, EmptySeq
  <2>4. Head(UnderWay) <= put
    BY <2>3 DEF Line
  <2> QED BY <2>1, <2>2, <2>4
<1>4. CASE Drops \/ Loses
  <2>1. UNCHANGED <<put, got>>
    BY <1>4 DEF Drops, Loses
  <2>2. PICK n \in 0 .. Len(UnderWay) :
          UnderWay' = Dropped(UnderWay, n) \/ UnderWay' = Taken(UnderWay, n)
    BY <1>4 DEF Drops, Loses
  <2>3. Line(UnderWay', got, put)
    BY <1>1, <2>2, LineParts
  <2> QED BY <1>1, <2>1, <2>3
<1> QED BY <1>2, <1>3, <1>4 DEF QueueStep

LEMMA AboveStep ==
  ASSUME BufferInvariant, QueueStep, NEW b \in Nat, b <= put,
         \A i \in 1 .. Len(UnderWay) : UnderWay[i] <= put,
         \A i, j \in 1 .. Len(UnderWay) : i < j => UnderWay[i] < UnderWay[j],
         Above(UnderWay, b)
  PROVE  Above(UnderWay', b)
<1>1. UnderWay \in Seq(Nat) /\ put \in Nat
  BY UnderWayType DEF BufferInvariant, StreamTypeOK
<1>2. Line(UnderWay, b, put)
  BY DEF Line
<1>3. CASE Gives
  <2>1. Line(Append(UnderWay, put + 1), b, put + 1)
    BY <1>1, <1>2, LineAppend
  <2> QED BY <1>3, <2>1 DEF Gives, Line
<1>4. CASE Takes
  <2>1. UnderWay # <<>> /\ UnderWay' = Tail(UnderWay)
    BY <1>4 DEF Takes
  <2>2. Tail(UnderWay) = Dropped(UnderWay, 1) /\ 1 \in 0 .. Len(UnderWay)
    BY <1>1, <2>1, TailIsDropped
  <2>3. Line(Dropped(UnderWay, 1), b, put)
    BY <1>1, <1>2, <2>2, LineParts
  <2> QED BY <2>1, <2>2, <2>3 DEF Line
<1>5. CASE Drops \/ Loses
  <2>1. PICK n \in 0 .. Len(UnderWay) :
          UnderWay' = Dropped(UnderWay, n) \/ UnderWay' = Taken(UnderWay, n)
    BY <1>5 DEF Drops, Loses
  <2>2. Line(UnderWay', b, put)
    BY <1>1, <1>2, <2>1, LineParts
  <2> QED BY <2>2 DEF Line
<1> QED BY <1>3, <1>4, <1>5 DEF QueueStep

(***************************************************************************)
(* While the reader does not clear, every byte under way is newer than     *)
(* what the last fp2clearReadBuf found; while it does, those in the write  *)
(* buffer are.                                                             *)
(***************************************************************************)
ClearInvariant ==
  /\ rpc # "clearing" => Above(UnderWay, old)
  /\ Above(writeBuf, old)

StreamInvariant ==
  /\ BufferInvariant
  /\ got <= put /\ Line(UnderWay, got, put)
  /\ old <= put
  /\ ClearInvariant

\* What stands in the write buffer stands in the queue behind the other two.
LEMMA WriteBufLast ==
  ASSUME BufferInvariant
  PROVE  \A k \in 1 .. Len(writeBuf) :
           /\ Len(readBuf \o socket) + k \in 1 .. Len(UnderWay)
           /\ UnderWay[Len(readBuf \o socket) + k] = writeBuf[k]
<1>1. writeBuf \in Seq(Nat) /\ readBuf \o socket \in Seq(Nat)
  BY UnderWayType DEF BufferInvariant, StreamTypeOK
<1> DEFINE s == readBuf \o socket
<1>2. s \in Seq(Nat)
  BY <1>1
<1> HIDE DEF s
<1>3. /\ Len(s \o writeBuf) = Len(s) + Len(writeBuf)
      /\ \A i \in 1 .. Len(s) + Len(writeBuf) :
            (s \o writeBuf)[i] = IF i <= Len(s) THEN s[i] ELSE writeBuf[i - Len(s)]
  BY <1>1, <1>2, ConcatProperties
<1>4. Len(s) \in Nat /\ Len(writeBuf) \in Nat
  BY <1>1, <1>2, LenProperties
<1>5. \A k \in 1 .. Len(writeBuf) :
        Len(s) + k \in 1 .. Len(s \o writeBuf) /\ (s \o writeBuf)[Len(s) + k] = writeBuf[k]
  BY <1>3, <1>4
<1> QED BY <1>5 DEF s, UnderWay

LEMMA StreamInit == Init => StreamInvariant
<1> SUFFICES ASSUME Init PROVE StreamInvariant
  OBVIOUS
<1>1. BufferInvariant
  BY BufferInit
<1>2. /\ readBuf = <<>> /\ socket = <<>> /\ writeBuf = <<>>
      /\ got = 0 /\ put = 0 /\ old = 0
  BY DEF Init
<1>3. UnderWay = <<>>
  <2>1. <<>> \in Seq(Nat)
    BY EmptySeq
  <2>2. (<<>> \o <<>>) \o <<>> = <<>>
    BY <2>1, ConcatEmptySeq
  <2> QED BY <1>2, <2>2 DEF UnderWay
<1>4. Len(<<>>) = 0
  BY EmptySeq
<1>5. Line(UnderWay, got, put) /\ ClearInvariant
  BY <1>2, <1>3, <1>4 DEF Line, Above, ClearInvariant
<1> QED BY <1>1, <1>2, <1>5 DEF StreamInvariant

\* The bytes a step of the writer leaves in the write buffer were there or are new.
LEMMA WriteBufStep ==
  ASSUME StreamInvariant, fp2fputc \/ fp2fflush \/ fp2fclose \/ Write
  PROVE  Above(writeBuf', old)
<1>1. writeBuf \in Seq(Nat) /\ put \in Nat /\ old \in Nat /\ old <= put /\ socket \in Seq(Nat)
  BY DEF StreamInvariant, BufferInvariant, StreamTypeOK
<1>2. Above(writeBuf, old) /\ Len(writeBuf) \in Nat /\ \A i \in 1 .. Len(writeBuf) : writeBuf[i] \in Nat
  BY <1>1, LenProperties, ElementOfSeq DEF StreamInvariant, ClearInvariant
<1>3. CASE fp2fputc
  <2>1. writeBuf' = Append(writeBuf, put + 1)
    BY <1>3 DEF fp2fputc
  <2>2. /\ Len(writeBuf') = Len(writeBuf) + 1
        /\ \A i \in 1 .. Len(writeBuf) : writeBuf'[i] = writeBuf[i]
        /\ writeBuf'[Len(writeBuf) + 1] = put + 1
    BY <1>1, <2>1, AppendProperties
  <2> SUFFICES ASSUME NEW i \in 1 .. Len(writeBuf') PROVE old < writeBuf'[i]
    BY DEF Above
  <2>3. CASE i \in 1 .. Len(writeBuf)
    BY <1>2, <2>2, <2>3 DEF Above
  <2>4. CASE i = Len(writeBuf) + 1
    BY <1>1, <2>2, <2>4
  <2>5. i \in 1 .. Len(writeBuf) \/ i = Len(writeBuf) + 1
    BY <1>2, <2>2
  <2> QED BY <2>3, <2>4, <2>5
<1>4. CASE UNCHANGED writeBuf
  BY <1>2, <1>4
<1>5. CASE writeBuf' = <<>>
  BY <1>5, EmptySeq DEF Above
<1>6. CASE WriteSome
  <2>1. PICK n \in 1 .. Least(Len(writeBuf), SocketSize - Len(socket)) :
          writeBuf' = <<>> \/ writeBuf' = Dropped(writeBuf, n)
    BY <1>6 DEF WriteSome, WriteReturns
  <2>2. Len(socket) \in Nat /\ SocketSize \in Nat
    BY <1>1, LenProperties, StreamAssumption
  <2>3. n \in 0 .. Len(writeBuf)
    BY <1>2, <2>1, <2>2 DEF Least
  <2>4. CASE writeBuf' = Dropped(writeBuf, n)
    <3>1. /\ Len(writeBuf') = Len(writeBuf) - n
          /\ \A i \in 1 .. Len(writeBuf) - n : writeBuf'[i] = writeBuf[n + i]
      BY <1>1, <2>3, <2>4, Parts
    <3>2. \A i \in 1 .. Len(writeBuf) - n : n + i \in 1 .. Len(writeBuf)
      BY <1>2, <2>3
    <3> QED BY <1>2, <3>1, <3>2 DEF Above
  <2> QED BY <1>5, <2>1, <2>4
<1> QED
  BY <1>3, <1>4, <1>5, <1>6
  DEF fp2fflush, fp2fclose, Write, WriteIsCut, WriteToGoneReader, WriteToClosed, WriteReturns

LEMMA OldArrived ==
  ASSUME StreamInvariant, fp2clearReadBuf
  PROVE  old' <= put /\ Above(writeBuf, old')
<1>1. /\ UnderWay \in Seq(Nat) /\ readBuf \o socket \in Seq(Nat)
      /\ writeBuf \in Seq(Nat) /\ put \in Nat /\ old <= put /\ Above(writeBuf, old)
  BY UnderWayType DEF StreamInvariant, BufferInvariant, StreamTypeOK, ClearInvariant
<1> DEFINE s == readBuf \o socket
<1>2. s \in Seq(Nat) /\ UnderWay = s \o writeBuf
  BY <1>1 DEF UnderWay
<1>3. old' = IF s = <<>> THEN old ELSE s[Len(s)]
  BY DEF fp2clearReadBuf, Last
<1>4. \A k \in 1 .. Len(writeBuf) :
        Len(s) + k \in 1 .. Len(UnderWay) /\ UnderWay[Len(s) + k] = writeBuf[k]
  BY WriteBufLast DEF StreamInvariant
<1> HIDE DEF s
<1>5. CASE s # <<>>
  <2>1. Len(s) \in Nat \ {0} /\ Len(writeBuf) \in Nat
    BY <1>1, <1>2, <1>5, EmptySeq, LenProperties
  <2>2. Len(s \o writeBuf) = Len(s) + Len(writeBuf) /\ (s \o writeBuf)[Len(s)] = s[Len(s)]
    BY <1>1, <1>2, <2>1, ConcatProperties
  <2>3. Len(s) \in 1 .. Len(UnderWay) /\ UnderWay[Len(s)] = old'
    BY <1>2, <1>3, <1>5, <2>1, <2>2
  <2>4. old' <= put
    BY <2>3 DEF StreamInvariant, Line
  <2>5. \A k \in 1 .. Len(writeBuf) : Len(s) < Len(s) + k
    BY <2>1
  <2>6. \A k \in 1 .. Len(writeBuf) : UnderWay[Len(s)] < UnderWay[Len(s) + k]
    BY <1>4, <2>3, <2>5 DEF StreamInvariant, Line
  <2> QED BY <1>4, <2>3, <2>4, <2>6 DEF Above
<1> QED BY <1>1, <1>3, <1>5

\* What is left when fp2clearReadBuf returns came out of the write buffer since.
LEMMA ClearStep ==
  ASSUME StreamInvariant, [Next]_vars
  PROVE  ClearInvariant' /\ (old <= put)'
<1>t. /\ readBuf \in Seq(Nat) /\ socket \in Seq(Nat) /\ writeBuf \in Seq(Nat)
      /\ put \in Nat /\ old \in Nat /\ old <= put /\ BufferInvariant
  BY DEF StreamInvariant, BufferInvariant, StreamTypeOK
<1>q. QueueStep
  BY <1>t, Steps
<1>k. rpc # "clearing" => Above(UnderWay', old)
  <2> SUFFICES ASSUME rpc # "clearing" PROVE Above(UnderWay', old)
    OBVIOUS
  <2>1. Above(UnderWay, old) /\ Line(UnderWay, got, put)
    BY DEF StreamInvariant, ClearInvariant
  <2> QED BY <1>t, <1>q, <2>1, AboveStep DEF Line
<1>1. CASE fp2fputc \/ fp2fflush \/ fp2fclose \/ Write
  <2>1. UNCHANGED <<rpc, old>> /\ (put' = put \/ put' = put + 1)
    BY <1>1 DEF fp2fputc, fp2fflush, fp2fclose, Write, WriteSome, WriteIsCut, WriteToGoneReader,
                WriteToClosed, readerVars
  <2>2. Above(writeBuf', old)
    BY <1>1, WriteBufStep
  <2>3. old' <= put'
    BY <1>t, <2>1
  <2> QED BY <1>k, <2>1, <2>2, <2>3 DEF ClearInvariant, Above
<1>2. CASE fp2select \/ fp2fgetc
  <2>1. rpc # "clearing" /\ UNCHANGED <<old, writeBuf, put>>
    BY <1>2 DEF fp2select, fp2fgetc, writerVars
  <2> QED BY <1>k, <1>t, <2>1 DEF StreamInvariant, ClearInvariant, Above
<1>3. CASE fp2clearReadBuf
  <2>1. rpc' = "clearing" /\ UNCHANGED <<writeBuf, put>>
    BY <1>3 DEF fp2clearReadBuf, writerVars
  <2>2. old' <= put /\ Above(writeBuf, old')
    BY <1>3, OldArrived
  <2> QED BY <2>1, <2>2 DEF ClearInvariant, Above
<1>4. CASE Clear \/ ReaderGone
  <2>1. UNCHANGED <<old, writeBuf, put>>
    BY <1>4 DEF Clear, ClearSome, ClearNothing, ReaderGone, writerVars
  <2>2. Above(writeBuf, old) /\ <<>> \in Seq(Nat)
    BY EmptySeq DEF StreamInvariant, ClearInvariant
  <2>3. (<<>> \o <<>>) \o writeBuf = writeBuf
    <3>1. <<>> \o <<>> = <<>> /\ <<>> \o writeBuf = writeBuf
      BY <1>t, <2>2, ConcatEmptySeq
    <3> QED BY <3>1
  <2>4. rpc' # "clearing" \/ ReaderGone => readBuf' = <<>> /\ socket' = <<>>
    <3>1. CASE ClearSome
      <4>1. Len(socket) \in Nat /\ TmpSize \in Nat
        BY <1>t, LenProperties, StreamAssumption
      <4>2. ASSUME rpc' # "clearing" PROVE socket' = <<>>
        <5>1. socket' = Dropped(socket, Len(socket))
          BY <3>1, <4>1, <4>2 DEF ClearSome, Least
        <5>2. SubSeq(socket, Len(socket) + 1, Len(socket)) = <<>>
          BY <4>1, SubSeqEmpty
        <5> QED BY <5>1, <5>2 DEF Dropped
      <4>3. readBuf' = <<>>
        BY <1>t, <3>1 DEF ClearSome, BufferInvariant
      <4>4. ~ReaderGone
        BY <3>1 DEF ClearSome, ReaderGone
      <4> QED BY <4>2, <4>3, <4>4
    <3>2. CASE ClearNothing
      BY <1>t, <3>2 DEF ClearNothing, BufferInvariant
    <3>3. CASE ReaderGone
      BY <3>3 DEF ReaderGone
    <3> QED BY <1>4, <3>1, <3>2, <3>3 DEF Clear
  <2>5. rpc' # "clearing" => UnderWay' = writeBuf
    BY <2>1, <2>3, <2>4 DEF UnderWay
  <2> QED BY <1>t, <2>1, <2>2, <2>5 DEF ClearInvariant, Above
<1>5. CASE UNCHANGED vars
  <2>1. UNCHANGED <<rpc, old, writeBuf, put, UnderWay>>
    BY <1>5 DEF vars, writerVars, readerVars, UnderWay
  <2> QED BY <1>t, <2>1 DEF StreamInvariant, ClearInvariant, Above
<1> QED BY <1>1, <1>2, <1>3, <1>4, <1>5 DEF Next

LEMMA StreamStep == StreamInvariant /\ [Next]_vars => StreamInvariant'
<1> SUFFICES ASSUME StreamInvariant, [Next]_vars PROVE StreamInvariant'
  OBVIOUS
<1>1. BufferInvariant /\ got <= put /\ Line(UnderWay, got, put)
  BY DEF StreamInvariant
<1>2. BufferInvariant' /\ QueueStep
  BY <1>1, BufferStep, Steps
<1>3. Line(UnderWay, got, put)' /\ got' <= put'
  BY <1>1, <1>2, OrderStep
<1> QED BY <1>2, <1>3, ClearStep DEF StreamInvariant

(***************************************************************************)
(* Read buffer, socket and write buffer hold the bytes in the order they   *)
(* were written, none twice and none that has been read, also when signals *)
(* cut writes short.                                                       *)
(***************************************************************************)
THEOREM StreamInOrder == Spec => []StreamOrder
<1>1. StreamInvariant => StreamOrder
  BY DEF StreamInvariant, StreamOrder, Line, Above
<1> QED
  BY <1>1, StreamInit, StreamStep, PTL DEF Spec

(***************************************************************************)
(* After fp2clearReadBuf no byte is read that had arrived when it was      *)
(* called, whatever the sizes of socket and buffers and whatever arrives   *)
(* while the socket is emptied.                                            *)
(***************************************************************************)
THEOREM ClearedStaysGone == Spec => ClearedIsGone
<1>1. StreamInvariant /\ [Next]_vars => [got' # got => got' > old]_vars
  <2> SUFFICES ASSUME StreamInvariant, Next, got' # got PROVE got' > old
    BY DEF vars, readerVars
  <2>1. fp2fgetc
    BY DEF Next, fp2fputc, fp2fflush, fp2fclose, Write, WriteSome, WriteIsCut, WriteToGoneReader,
           WriteToClosed, fp2select, fp2clearReadBuf, Clear, ClearSome, ClearNothing, ReaderGone,
           readerVars
  <2>2. Above(UnderWay, old) /\ BufferInvariant /\ old \in Nat
    BY <2>1 DEF fp2fgetc, StreamInvariant, ClearInvariant, BufferInvariant, StreamTypeOK
  <2>3. Takes
    BY <2>2, Steps DEF QueueStep, Gives, Drops, Loses
  <2>4. UnderWay \in Seq(Nat) /\ UnderWay # <<>> /\ got' = Head(UnderWay)
    BY <2>2, <2>3, UnderWayType DEF Takes
  <2>5. Head(UnderWay) = UnderWay[1] /\ Len(UnderWay) \in Nat \ {0}
    BY <2>4, TailIsDropped, EmptySeq
  <2>6. 1 \in 1 .. Len(UnderWay)
    BY <2>5
  <2>7. old < UnderWay[1] /\ UnderWay[1] \in Nat
    BY <2>2, <2>4, <2>6, ElementOfSeq DEF Above
  <2> QED BY <2>2, <2>4, <2>5, <2>7
<1> QED
  BY <1>1, StreamInit, StreamStep, PTL DEF Spec, ClearedIsGone

=============================================================================
