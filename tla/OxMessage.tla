----------------------------- MODULE OxMessage -----------------------------
(***************************************************************************)
(* OX messages as they lie on a data channel, and what the two readers of  *)
(* kan96xx/plugin/oxmisc.c make of them.                                   *)
(*                                                                         *)
(* Every OX message starts with a header of HeaderBytes bytes: the message *)
(* tag and, because UseOXPacketSerial is 1, a serial number.  The body of  *)
(* an OX_COMMAND is one int32, the body of an OX_DATA is a CMO of any      *)
(* length, and an OX_SYNC_BALL has no body.  The contents of a CMO are     *)
(* left out; its length is kept, because oxWaitSyncBall depends on it.     *)
(***************************************************************************)
EXTENDS Integers, Sequences

CONSTANT BodyBytes     \* the lengths in bytes that the body of an OX_DATA may have

ASSUME BodyBytesAssumption == BodyBytes \subseteq Nat

HeaderBytes == 8

Tags == {"OX_COMMAND", "OX_DATA", "OX_SYNC_BALL"}

\* The function ids nullserverCommand tells apart by their control flow.  "other"
\* stands for those that only work on the operand stack.
Functions == {"executeString", "popCMO", "shutdown", "other"}

\* id numbers the requests of the client, in the order it makes them, and is
\* carried by the reply to a pop.  whole is FALSE while the writer has sent the
\* header of the message and not yet its body.
Message == [t : Tags, f : Functions \cup {"none"}, id : Nat, len : Nat, whole : BOOLEAN]

Command(f, id) ==
  [t |-> "OX_COMMAND", f |-> f, id |-> id, len |-> 4, whole |-> TRUE]

Data(id, len) ==
  [t |-> "OX_DATA", f |-> "none", id |-> id, len |-> len, whole |-> TRUE]

SyncBall ==
  [t |-> "OX_SYNC_BALL", f |-> "none", id |-> 0, len |-> 0, whole |-> TRUE]

Bytes(m) == HeaderBytes + m.len

----------------------------------------------------------------------------
(***************************************************************************)
(* A reader that knows nothing of the body in front of it takes it for     *)
(* headers, HeaderBytes at a time; the last of them may reach into the     *)
(* next message.  The skew of a reader is the number of bytes of the next  *)
(* message it has taken in that way (0 when it stands at its first byte).  *)
(* Spill(skew, m) is the skew after the message m has been read so.        *)
(***************************************************************************)
Skew == 0 .. HeaderBytes - 1

\* Mutant: the bytes of the next message are not counted from its beginning.
SpillUnreduced(skew, m) == Bytes(m) - skew

Spill(skew, m) == (skew - Bytes(m)) % HeaderBytes

\* oxWaitSyncBall returns when it reads the header of a ball.
FoundBall(skew, m) == skew = 0 /\ m.t = "OX_SYNC_BALL"

\* The skew of oxWaitSyncBall after a message that is not the ball it looks for.
\* The body of an OX_COMMAND is read.  Half a header ahead, the tag of a ball
\* arrives in the place of the serial number: the serial number of the ball is
\* then read too, and the loop goes on.
WaitSpill(skew, m) ==
  CASE skew = 0 /\ m.t = "OX_COMMAND"             -> 0
    [] skew = 4 /\ m.t = "OX_SYNC_BALL"           -> 0
    [] OTHER                                      -> Spill(skew, m)

=============================================================================
