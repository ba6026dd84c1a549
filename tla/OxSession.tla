------------------------------ MODULE OxSession ------------------------------
(***************************************************************************)
(* One session of a client with an OX server: the engine, the control      *)
(* server and the client over the channels they share.                     *)
(***************************************************************************)
EXTENDS OxEngine, OxControlServer, OxClient

vars == <<channelVars, signalVars, engineAlive, engineVars, cs, clientVars>>

Init ==
  /\ ChannelsInit
  /\ EngineInit
  /\ ControlServerInit
  /\ ClientInit

\* oxWaitSyncBall returns at the end of the stream ("Your peer seems to be dead."),
\* which comes when both processes that hold the socket are gone; oxGet then goes on
\* as if it had read a ball.
GetEndOfStream ==
  /\ connected
  /\ dstate = "DSTATE_FIRST_SYNC"
  /\ ~engineAlive /\ cs = "dead"
  /\ toClient # <<>> => ~Head(toClient).whole
  /\ toClient' = <<>>
  /\ toEngine' = Append(toEngine, SyncBall)
  /\ dstate' = "DSTATE_ANY"
  /\ base' = nreq
  /\ UNCHANGED <<control, connected, engineAlive, signalVars, engineVars, cs,
                 skewC, nreq, nreset, last>>

EngineMoves == EngineNext /\ UNCHANGED <<cs, clientVars>>
ControlServerMoves == ControlServerNext /\ UNCHANGED <<engineVars, clientVars>>
ClientMoves == ClientNext /\ UNCHANGED <<engineVars, cs>>

Next == EngineMoves \/ ControlServerMoves \/ ClientMoves \/ GetEndOfStream

Spec == Init /\ [][Next]_vars

----------------------------------------------------------------------------
(***************************************************************************)
(* Fairness.  The two processes of the server run; the kernel delivers     *)
(* signals; a computation ends.  The client library reads what the user's  *)
(* reset waits for (oxreset calls oxGet at once); apart from that the user *)
(* need not do anything.                                                   *)
(***************************************************************************)
ServerFairness ==
  /\ WF_vars((EngineStep \/ Deliver) /\ UNCHANGED <<cs, clientVars>>)
  /\ WF_vars(ControlServerMoves)

ResetFairness ==
  /\ WF_vars((GetDiscard \/ GetSyncBall) /\ UNCHANGED <<engineVars, cs>>)
  /\ WF_vars(GetEndOfStream)

ComputationEnds == WF_vars((ExecuteReturns \/ ExecuteJumps) /\ UNCHANGED <<cs, clientVars>>)

FairSpec == Spec /\ ServerFairness /\ ResetFairness /\ ComputationEnds

----------------------------------------------------------------------------
TypeOK ==
  /\ ChannelsTypeOK
  /\ EngineTypeOK
  /\ ControlServerTypeOK
  /\ ClientTypeOK

\* Points of the engine at which a message is partly read or partly written, or at
\* which the handshake of a reset is under way.
InMessage == {"body", "dispatch", "reply", "throw", "wait", "synced"}

(***************************************************************************)
(* The jump of controlResetHandler never leaves a message half read or     *)
(* half written, nor a handshake half done: OxCritical is set throughout.  *)
(***************************************************************************)
NoTornMessage == [][pc' = "cjump" => pc \notin InMessage]_vars

(***************************************************************************)
(* After the handshake of a reset the client never takes an answer to a    *)
(* request made before it, however much was still under way in the two     *)
(* streams (control.tex: the subsequent request correctly corresponds to   *)
(* the response).                                                          *)
(***************************************************************************)
AnswersAreFresh == [][last' # last => last' > base]_vars

(***************************************************************************)
(* The session keeps the promise of ResetProtocol: in particular answers   *)
(* come in the order of the requests, and none while a reset is under way. *)
(***************************************************************************)
Promise == INSTANCE ResetProtocol WITH
             resetting <- (dstate = "DSTATE_FIRST_SYNC"),
             asked <- nreq, givenUp <- base, answered <- last

KeepsPromise == Promise!Spec

(***************************************************************************)
(* The engine is deaf to SIGUSR1 only while the reset it has already been  *)
(* told of is noted in OxInterruptFlag, and in three short windows: during *)
(* the test of the old action at label aaa, and from the clearing of the   *)
(* flag to label aaa.  The signal stays in the mask only until AfterJump.  *)
(***************************************************************************)
DeafOnlyWhenTold ==
  engineAlive =>
    /\ sigBlocked => pc = "cjump"
    /\ sigAction = "SIG_IGN" => OxInterruptFlag \/ pc \in {"ign", "uncrit", "aaa"}

(***************************************************************************)
(* An OX_SYNC_BALL is under way only while the engine waits for one, and   *)
(* never in both directions: when the client takes it the stream to the    *)
(* client is empty, and what follows it to the engine is of the new epoch  *)
(* (control.tex: after reading it, each stream is empty).  Outside a       *)
(* handshake nothing in the streams is older than the last reset.  Only a  *)
(* client whose server has ended can leave this order.                     *)
(***************************************************************************)
IsBall(m) == m.t = "OX_SYNC_BALL"

\* Nothing in the stream is a ball, or was sent, or answers what was sent, before
\* the last reset.
Fresh(stream) == \A i \in 1 .. Len(stream) : ~IsBall(stream[i]) /\ stream[i].id > base

NoBallUnderWay ==
  /\ pc # "wait"
  /\ Fresh(toEngine) /\ Fresh(toClient)
  /\ pc = "dispatch" => cmd.id > base

BallToClient ==
  /\ pc = "wait"
  /\ toClient # <<>>
  /\ \A i \in 1 .. Len(toClient) :
        IF i = Len(toClient) THEN IsBall(toClient[i])
                             ELSE ~IsBall(toClient[i]) /\ toClient[i].id > base
  /\ ~HasBall(toEngine)

BallToEngine ==
  /\ pc = "wait"
  /\ toClient = <<>>
  /\ \A i, j \in 1 .. Len(toEngine) :
        i < j /\ IsBall(toEngine[i]) => ~IsBall(toEngine[j]) /\ toEngine[j].id > base

ServerGone == ~engineAlive /\ toClient = <<>>

BallInvariant == NoBallUnderWay \/ BallToClient \/ BallToEngine \/ ServerGone

(***************************************************************************)
(* Requests are answered in the order they were made: the answers under    *)
(* way to the client, the command the engine works on and the commands     *)
(* under way to it are one ascending line, behind the answer last taken.   *)
(***************************************************************************)
OrderInvariant ==
  /\ base <= nreq /\ last <= nreq
  /\ ~connected => toClient = <<>>
  /\ \A i \in 1 .. Len(toClient) :
        /\ toClient[i].id <= nreq
        /\ ~IsBall(toClient[i]) =>
              /\ last < toClient[i].id
              /\ \A j \in 1 .. i - 1 : toClient[j].id < toClient[i].id
  /\ pc = "dispatch" =>
        /\ last < cmd.id /\ cmd.id <= nreq
        /\ \A i \in 1 .. Len(toClient) : toClient[i].id < cmd.id
  /\ \A k \in 1 .. Len(toEngine) : toEngine[k].t = "OX_COMMAND" =>
        /\ last < toEngine[k].id /\ toEngine[k].id <= nreq
        /\ \A i \in 1 .. Len(toClient) : toClient[i].id < toEngine[k].id
        /\ pc = "dispatch" => cmd.id < toEngine[k].id
        /\ \A j \in 1 .. k - 1 : toEngine[j].t = "OX_COMMAND" => toEngine[j].id < toEngine[k].id

----------------------------------------------------------------------------
(***************************************************************************)
(* Liveness.                                                               *)
(***************************************************************************)

(***************************************************************************)
(* A handshake that the engine has begun and the client is ready for is    *)
(* completed on the side of the engine, whatever messages were in the      *)
(* streams, as long as they keep the readers in step.                      *)
(***************************************************************************)
HandshakeCompletes ==
  (pc = "wait" /\ dstate = "DSTATE_FIRST_SYNC" /\ HasBall(toClient))
    ~> (pc # "wait" \/ ~engineAlive)

(***************************************************************************)
(* A reset of the client that the handler has noted ends: the ball comes   *)
(* through and the client is in the usual state again, also when the       *)
(* signal interrupted a computation, a read or a reply, and when the user  *)
(* has sent balls of his own.  Not covered are the resets noted between    *)
(* the test of the flag and fp2select, and those noted in a handshake.     *)
(***************************************************************************)
ResetCompletes ==
  (OxInterruptFlag /\ dstate = "DSTATE_FIRST_SYNC" /\ pc \notin {"gap", "select", "wait", "synced"})
    ~> (dstate = "DSTATE_ANY" \/ ~connected \/ ~engineAlive)

(***************************************************************************)
(* A server whose client has closed the session, or has asked for its end, *)
(* ends: no engine is left behind.                                         *)
(***************************************************************************)
NoOrphan ==
  (~connected \/ \E i \in 1 .. Len(control) : control[i] = "SM_control_kill")
    ~> (~engineAlive /\ cs = "dead")

=============================================================================
