----------------------------- MODULE ByteQueue -----------------------------
(***************************************************************************)
(* What a FILE2 stream promises to the two processes at its ends: a queue  *)
(* of bytes.  Bytes are numbered in the order they are given.  The reader  *)
(* may give up the oldest bytes (fp2clearReadBuf); the newest are lost     *)
(* only by what breaks the queue.  What is taken is in order.              *)
(***************************************************************************)
EXTENDS Naturals, Sequences

VARIABLES
  queue,         \* bytes given and not yet taken
  open,          \* FALSE once an end is gone or a signal has cut a write short
  given,         \* number of bytes given
  taken          \* the byte last taken

queueVars == <<queue, open, given, taken>>

Init ==
  /\ queue = <<>> /\ open = TRUE
  /\ given = 0 /\ taken = 0

Give ==
  /\ given' = given + 1
  /\ queue' = Append(queue, given + 1)
  /\ UNCHANGED <<open, taken>>

Take ==
  /\ queue # <<>>
  /\ queue' = Tail(queue)
  /\ taken' = Head(queue)
  /\ UNCHANGED <<open, given>>

\* The n oldest are given up; none when n = 0.
Without(n) == SubSeq(queue, n + 1, Len(queue))

GiveUpOldest ==
  /\ \E n \in 1 .. Len(queue) : queue' = Without(n)
  /\ UNCHANGED <<open, given, taken>>

EndIsGone ==
  /\ open' = FALSE
  /\ \E n \in 0 .. Len(queue) : queue' = Without(n)
  /\ UNCHANGED <<given, taken>>

LoseNewest ==
  /\ open' = FALSE
  /\ \E n \in 0 .. Len(queue) - 1 : queue' = SubSeq(queue, 1, n)
  /\ UNCHANGED <<given, taken>>

Next == Give \/ Take \/ GiveUpOldest \/ EndIsGone \/ LoseNewest

Spec == Init /\ [][Next]_queueVars

=============================================================================
