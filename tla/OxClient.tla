------------------------------ MODULE OxClient ------------------------------
(***************************************************************************)
(* The client side of an OX session: oxReq and oxGet of                    *)
(* kan96xx/plugin/oxmisc2.c, the raw oxpushcmd of KoxPushCMD, and the two  *)
(* calls a user's reset is made of.  The user is free to make any call     *)
(* whenever the code lets him.                                             *)
(*                                                                         *)
(* A call that is answered with an error leaves the client object as it    *)
(* was: errorOxmisc2 jumps out of the call before the copy of the client   *)
(* it works on is written back, so dstate never becomes DSTATE_ERROR, nor  *)
(* stays DSTATE_WAIT_OX_DATA.                                              *)
(***************************************************************************)
EXTENDS OxChannels

CONSTANTS
  MaxReq,        \* bound of the model: requests on the data channel
  MaxReset,      \* bound of the model: resets
  UserBall,      \* TRUE: the user may send an OX_SYNC_BALL of his own
  ClientFaultyCMO  \* TRUE: a reply may be one that the CMO parser rejects

ASSUME ClientAssumption ==
  /\ MaxReq \in Nat /\ MaxReset \in Nat
  /\ UserBall \in BOOLEAN /\ ClientFaultyCMO \in BOOLEAN

VARIABLES
  dstate,        \* "DSTATE_ANY" or "DSTATE_FIRST_SYNC"
  skewC,         \* the client has read this many bytes into Head(toClient)
  nreq,          \* requests made
  nreset,        \* resets made
  base,          \* requests made when the last handshake of a reset was completed
  last           \* the request that the last answer the client took answers

clientVars == <<dstate, skewC, nreq, nreset, base, last>>

ClientTypeOK ==
  /\ dstate \in {"DSTATE_ANY", "DSTATE_FIRST_SYNC"}
  /\ skewC \in Skew
  /\ nreq \in Nat
  /\ nreset \in Nat
  /\ base \in Nat
  /\ last \in Nat

ClientInit ==
  /\ dstate = "DSTATE_ANY"
  /\ skewC = 0
  /\ nreq = 0
  /\ nreset = 0
  /\ base = 0
  /\ last = 0

----------------------------------------------------------------------------
(***************************************************************************)
(* Requests.                                                               *)
(***************************************************************************)

\* oxReq and oxpushcmo: nothing is sent while a reset is under way.
ReadyToSend == connected /\ dstate = "DSTATE_ANY" /\ nreq < MaxReq

\* A user who finds the stream full waits, or resets.
Send(messages) ==
  /\ HasRoom(toEngine, Len(messages))
  /\ toEngine' = toEngine \o messages
  /\ nreq' = nreq + 1
  /\ UNCHANGED <<toClient, control, connected, engineAlive, signalVars,
                 dstate, skewC, nreset, base, last>>

\* SM_executeStringByLocalParser sends its operand and the command, SM_popCMO,
\* SM_shutdown and the others the command alone.
RequestCommand ==
  /\ ReadyToSend
  /\ \E f \in Functions \ {"executeString"} : Send(<<Command(f, nreq + 1)>>)

RequestExecution ==
  /\ ReadyToSend
  /\ \E n \in BodyBytes :
       Send(<<Data(nreq + 1, n), Command("executeString", nreq + 1)>>)

PushCMO ==
  /\ ReadyToSend
  /\ \E n \in BodyBytes : Send(<<Data(nreq + 1, n)>>)

\* KoxPushCMD does not look at dstate.
PushCMD ==
  /\ connected
  /\ nreq < MaxReq
  /\ \E f \in Functions : Send(<<Command(f, nreq + 1)>>)

\* SM_sync_ball of oxReq: "We do not expect the sync ball."
SendSyncBall ==
  /\ UserBall
  /\ ReadyToSend
  /\ Send(<<SyncBall>>)

\* SM_control_reset_connection of oxReq.
ResetConnection ==
  /\ connected
  /\ nreset < MaxReset
  /\ control' = Append(control, "SM_control_reset_connection")
  /\ dstate' = "DSTATE_FIRST_SYNC"
  /\ nreset' = nreset + 1
  /\ UNCHANGED <<toEngine, toClient, connected, engineAlive, signalVars,
                 skewC, nreq, base, last>>

\* SM_control_kill of oxReq: what it does to dstate is not undone by anything.
KillServer ==
  /\ connected
  /\ "SM_control_kill" \notin {control[i] : i \in 1 .. Len(control)}
  /\ control' = Append(control, "SM_control_kill")
  /\ dstate' = "DSTATE_ANY"
  /\ UNCHANGED <<toEngine, toClient, connected, engineAlive, signalVars,
                 skewC, nreq, nreset, base, last>>

\* oxCloseClient: both sockets are closed; what has not been read is lost.
CloseClient ==
  /\ connected
  /\ connected' = FALSE
  /\ toClient' = <<>>
  /\ UNCHANGED <<toEngine, control, engineAlive, signalVars, clientVars>>

----------------------------------------------------------------------------
(***************************************************************************)
(* oxGet.  A message is read when all of it has been sent.                 *)
(***************************************************************************)
Arrived == connected /\ toClient # <<>> /\ Head(toClient).whole

\* Mutant: data is handed to the user in the resetting state too.
GetDataAlways ==
  /\ Arrived
  /\ skewC = 0
  /\ Head(toClient).t = "OX_DATA"
  /\ toClient' = Tail(toClient)
  /\ last' = Head(toClient).id
  /\ UNCHANGED <<toEngine, control, connected, engineAlive, signalVars, dstate, skewC, nreq, nreset, base>>

\* DSTATE_ANY, in step with the messages.  A reply whose body is rejected, or has an
\* unknown tag and is taken for a null object, is left half read.
GetData ==
  /\ Arrived
  /\ dstate = "DSTATE_ANY" /\ skewC = 0
  /\ Head(toClient).t = "OX_DATA"
  /\ toClient' = Tail(toClient)
  /\ \/ /\ last' = Head(toClient).id
        /\ UNCHANGED skewC
     \/ /\ ClientFaultyCMO
        /\ skewC' \in Skew
        /\ last' \in {last, Head(toClient).id}
  /\ UNCHANGED <<toEngine, control, connected, engineAlive, signalVars, dstate, nreq, nreset, base>>

\* A ball that no reset of the client waits for: it is not answered.
GetStrayBall ==
  /\ Arrived
  /\ dstate = "DSTATE_ANY" /\ skewC = 0
  /\ Head(toClient).t = "OX_SYNC_BALL"
  /\ toClient' = Tail(toClient)
  /\ UNCHANGED <<toEngine, control, connected, engineAlive, signalVars, clientVars>>

\* "oxGet: cannot handle this tag.", once for every header's worth of the message.
GetGarbage ==
  /\ Arrived
  /\ dstate = "DSTATE_ANY" /\ skewC # 0
  /\ toClient' = Tail(toClient)
  /\ skewC' = Spill(skewC, Head(toClient))
  /\ UNCHANGED <<toEngine, control, connected, engineAlive, signalVars, dstate, nreq, nreset, base, last>>

\* DSTATE_FIRST_SYNC: one message read by oxWaitSyncBall.
GetDiscard ==
  /\ Arrived
  /\ dstate = "DSTATE_FIRST_SYNC"
  /\ ~FoundBall(skewC, Head(toClient))
  /\ toClient' = Tail(toClient)
  /\ skewC' = WaitSpill(skewC, Head(toClient))
  /\ UNCHANGED <<toEngine, control, connected, engineAlive, signalVars, dstate, nreq, nreset, base, last>>

\* Mutant: the ball is not thrown back.
GetSyncBallOnly ==
  /\ Arrived
  /\ dstate = "DSTATE_FIRST_SYNC"
  /\ FoundBall(skewC, Head(toClient))
  /\ toClient' = Tail(toClient)
  /\ dstate' = "DSTATE_ANY"
  /\ base' = nreq
  /\ UNCHANGED <<toEngine, control, connected, engineAlive, signalVars, skewC, nreq, nreset, last>>

\* DSTATE_FIRST_SYNC: the ball is there; it is thrown back.
GetSyncBall ==
  /\ Arrived
  /\ dstate = "DSTATE_FIRST_SYNC"
  /\ FoundBall(skewC, Head(toClient))
  /\ HasRoom(toEngine, 1)
  /\ toClient' = Tail(toClient)
  /\ toEngine' = Append(toEngine, SyncBall)
  /\ dstate' = "DSTATE_ANY"
  /\ base' = nreq
  /\ UNCHANGED <<control, connected, engineAlive, signalVars, skewC, nreq, nreset, last>>

\* Requests and closing are the user's; reading what has arrived is the library's.
ClientRequest ==
  \/ RequestCommand \/ RequestExecution \/ PushCMO \/ PushCMD \/ SendSyncBall
  \/ ResetConnection \/ KillServer \/ CloseClient

ClientGet == GetData \/ GetStrayBall \/ GetGarbage \/ GetDiscard \/ GetSyncBall

ClientNext == ClientRequest \/ ClientGet

=============================================================================
