-------------------------- MODULE OxSession_proofs --------------------------
(***************************************************************************)
(* Theorems about the session, for every value of the constants, and their *)
(* proofs.                                                                 *)
(***************************************************************************)
EXTENDS OxSession, TLAPS

----------------------------------------------------------------------------
(***************************************************************************)
(* Messages and readers.                                                   *)
(***************************************************************************)

\* What the operators of OxMessage build is a message.
LEMMA MessageTypes ==
  /\ \A f \in Functions, id \in Nat : Command(f, id) \in Message
  /\ \A id \in Nat, n \in BodyBytes : Data(id, n) \in Message
  /\ \A id \in Nat, n \in BodyBytes : [Data(id, n) EXCEPT !.whole = FALSE] \in Message
  /\ SyncBall \in Message
  /\ NoCommand \in Message
BY BodyBytesAssumption DEF Command, Data, SyncBall, NoCommand, Message, Functions, Tags

\* A reader that has taken a message for headers stands less than a header ahead.
LEMMA SpillType ==
  ASSUME NEW skew \in Skew, NEW m \in Message
  PROVE  Spill(skew, m) \in Skew /\ WaitSpill(skew, m) \in Skew
<1>1. Spill(skew, m) \in Skew
  <2>1. skew - (8 + m.len) \in Int
    BY DEF Skew, HeaderBytes, Message
  <2>2. \A d \in Int : d % 8 \in 0 .. 7
    OBVIOUS
  <2> QED BY <2>1, <2>2 DEF Skew, HeaderBytes, Spill, Bytes
<1>2. WaitSpill(skew, m) \in Skew
  BY <1>1 DEF WaitSpill, Skew, HeaderBytes
<1> QED BY <1>1, <1>2

----------------------------------------------------------------------------
(***************************************************************************)
(* Type correctness.                                                       *)
(***************************************************************************)
LEMMA TypeInit == Init => TypeOK
<1> USE DEF Skew, HeaderBytes, Points
<1>1. NoCommand \in Message /\ 0 \in Skew
  BY MessageTypes
<1> SUFFICES ASSUME Init PROVE TypeOK
  OBVIOUS
<1>2. ChannelsTypeOK
  <2>1. toEngine = <<>> /\ toClient = <<>> /\ control = <<>> /\ sigAction = "SIG_DFL"
    BY DEF Init, ChannelsInit
  <2>2. connected \in BOOLEAN /\ engineAlive \in BOOLEAN /\ sigBlocked \in BOOLEAN
        /\ sigPending \in BOOLEAN
    BY DEF Init, ChannelsInit
  <2> QED BY <2>1, <2>2 DEF ChannelsTypeOK
<1>3. EngineTypeOK
  BY <1>1 DEF Init, EngineInit, EngineTypeOK
<1>4. ControlServerTypeOK /\ ClientTypeOK
  BY <1>1 DEF Init, ControlServerInit, ClientInit, ControlServerTypeOK, ClientTypeOK
<1> QED
  BY <1>2, <1>3, <1>4 DEF TypeOK

LEMMA TypeEngine == TypeOK /\ EngineMoves => TypeOK'
<1> SUFFICES ASSUME TypeOK, EngineMoves PROVE TypeOK'
  OBVIOUS
<1> USE DEF TypeOK, ChannelsTypeOK, EngineTypeOK, ControlServerTypeOK, ClientTypeOK, Goto,
            channelVars, signalVars, engineVars, clientVars, Points, Write
<1> UNCHANGED <<cs, clientVars>>
  BY DEF EngineMoves
<1>1. CASE StartServer
  BY <1>1 DEF StartServer
<1>2. CASE InstallAtChildEnv
  BY <1>2 DEF InstallAtChildEnv, InstallHandler
<1>3. CASE IgnoreForTest
  BY <1>3 DEF IgnoreForTest, IgnoreSignal
<1>4. CASE InstallAfterTest
  BY <1>4 DEF InstallAfterTest, InstallHandler
<1>5. CASE AfterJump
  BY <1>5 DEF AfterJump, InstallHandler
<1>6. CASE BeginHandshake
  <2>1. toEngine' \in Seq(Message)
    BY <1>6 DEF BeginHandshake, ClearReadBuf
  <2>2. skewE' \in Skew
    BY <1>6, SplitsAssumption DEF BeginHandshake, ClearReadBuf
  <2> QED BY <1>6, <2>1, <2>2 DEF BeginHandshake
<1>7. CASE ThrowSyncBall
  BY <1>7, MessageTypes DEF ThrowSyncBall
<1>8. CASE WaitSyncBall
  <2>1. CASE EndOfInput /\ UNCHANGED <<toEngine, skewE>>
    BY <1>8, <2>1 DEF WaitSyncBall
  <2>2. CASE toEngine # <<>> /\ toEngine' = Tail(toEngine)
    <3>1. Head(toEngine) \in Message /\ Tail(toEngine) \in Seq(Message)
      BY <2>2
    <3>2. 0 \in Skew /\ WaitSpill(skewE, Head(toEngine)) \in Skew
      BY <3>1, SpillType DEF Skew, HeaderBytes
    <3> QED BY <1>8, <2>2, <3>1, <3>2 DEF WaitSyncBall
  <2> QED BY <1>8, <2>1, <2>2 DEF WaitSyncBall
<1>9. CASE ClearFlag
  BY <1>9 DEF ClearFlag
<1>10. CASE EndHandshake
  BY <1>10 DEF EndHandshake
<1>11. CASE PassFlagTest
  BY <1>11 DEF PassFlagTest
<1>12. CASE LeaveCritical
  BY <1>12 DEF LeaveCritical
<1>13. CASE Select
  BY <1>13 DEF Select
<1>14. CASE ReadHeader
  <2>1. toEngine' \in Seq(Message)
    <3>1. toEngine # <<>> => Tail(toEngine) \in Seq(Message)
      OBVIOUS
    <3> QED BY <1>14, <3>1 DEF ReadHeader
  <2>2. skewE' \in Skew
    BY <1>14, SpillType DEF ReadHeader
  <2>3. pc' \in Points
    BY <1>14 DEF ReadHeader
  <2> QED BY <1>14, <2>1, <2>2, <2>3 DEF ReadHeader
<1>15. CASE ReadBody
  BY <1>15 DEF ReadBody
<1>16. CASE Execute
  BY <1>16 DEF Execute
<1>17. CASE ExecuteReturns
  BY <1>17 DEF ExecuteReturns
<1>18. CASE ExecuteJumps
  BY <1>18 DEF ExecuteJumps
<1>19. CASE InstallAfterExecute
  BY <1>19 DEF InstallAfterExecute, InstallHandler
<1>20. CASE SendReplyHeader
  <2>1. cmd.id \in Nat
    BY DEF Message
  <2>2. toClient' \in Seq(Message)
    <3>1. PICK n \in BodyBytes : Write(Append(toClient, [Data(cmd.id, n) EXCEPT !.whole = FALSE]))
      BY <1>20 DEF SendReplyHeader
    <3>2. [Data(cmd.id, n) EXCEPT !.whole = FALSE] \in Message
      BY <2>1, MessageTypes
    <3> QED BY <3>1, <3>2
  <2> QED BY <1>20, <2>2 DEF SendReplyHeader
<1>21. CASE SendReplyBody
  <2>1. [toClient EXCEPT ![Len(toClient)].whole = TRUE] \in Seq(Message)
    <3>1. \A m \in Message : [m EXCEPT !.whole = TRUE] \in Message
      BY DEF Message
    <3> DEFINE k == Len(toClient)
               new == [i \in 1 .. k |-> IF i = k THEN [toClient[i] EXCEPT !.whole = TRUE]
                                                ELSE toClient[i]]
    <3>2. new \in Seq(Message)
      BY <3>1
    <3>3. [toClient EXCEPT ![k].whole = TRUE] = new
      <4>1. DOMAIN toClient = 1 .. k /\ toClient = [i \in 1 .. k |-> toClient[i]]
        OBVIOUS
      <4> QED BY <4>1, Zenon
    <3> QED BY <3>2, <3>3
  <2>2. toClient' \in Seq(Message)
    BY <1>21, <2>1 DEF SendReplyBody
  <2> QED BY <1>21, <2>2 DEF SendReplyBody
<1>22. CASE Shutdown
  <2>1. engineAlive' \in BOOLEAN
    BY <1>22 DEF Shutdown
  <2>2. UNCHANGED <<channelVars, signalVars, engineVars>>
    BY <1>22 DEF Shutdown
  <2> QED BY <2>1, <2>2
<1>23. CASE OtherCommand
  BY <1>23 DEF OtherCommand
<1>24. CASE KilledBySignal
  <2>1. engineAlive' \in BOOLEAN
    BY <1>24 DEF KilledBySignal
  <2>2. UNCHANGED <<channelVars, signalVars, engineVars>>
    BY <1>24 DEF KilledBySignal
  <2> QED BY <2>1, <2>2
<1>25. CASE controlResetHandler
  BY <1>25 DEF controlResetHandler
<1> QED
  BY <1>1, <1>2, <1>3, <1>4, <1>5, <1>6, <1>7, <1>8, <1>9, <1>10, <1>11, <1>12, <1>13, <1>14,
     <1>15, <1>16, <1>17, <1>18, <1>19, <1>20, <1>21, <1>22, <1>23, <1>24, <1>25
  DEF EngineMoves, EngineNext, EngineStep, Handshake, Loop, Dispatch, Deliver

LEMMA TypeControlServer == TypeOK /\ ControlServerMoves => TypeOK'
<1> SUFFICES ASSUME TypeOK, ControlServerMoves PROVE TypeOK'
  OBVIOUS
<1> USE DEF TypeOK, ChannelsTypeOK, EngineTypeOK, ControlServerTypeOK, ClientTypeOK,
            channelVars, signalVars, engineVars, clientVars
<1> UNCHANGED <<engineVars, clientVars>>
  BY DEF ControlServerMoves
<1>1. CASE ForwardReset
  <2>1. sigPending' \in BOOLEAN
    BY <1>1 DEF ForwardReset, RaiseSignal
  <2>2. control' \in Seq(ControlRequests)
    BY <1>1 DEF ForwardReset
  <2> QED BY <1>1, <2>1, <2>2 DEF ForwardReset, RaiseSignal
<1>2. CASE ReadKill
  BY <1>2 DEF ReadKill
<1>3. CASE myServerExit
  BY <1>3 DEF myServerExit
<1> QED
  BY <1>1, <1>2, <1>3 DEF ControlServerMoves, ControlServerNext

\* The messages of a request carry its number; a command is the last of them.
LEMMA RequestShape ==
  ASSUME TypeOK, RequestCommand \/ RequestExecution \/ PushCMO \/ PushCMD
  PROVE  \E messages \in Seq(Message) :
            /\ Send(messages)
            /\ \A i \in 1 .. Len(messages) :
                  /\ ~IsBall(messages[i])
                  /\ messages[i].id = nreq + 1
                  /\ messages[i].t = "OX_COMMAND" => i = Len(messages)
<1>n. nreq + 1 \in Nat
  BY DEF TypeOK, ClientTypeOK
<1>c. \A f \in Functions :
        /\ Command(f, nreq + 1) \in Message /\ Command(f, nreq + 1).id = nreq + 1
        /\ ~IsBall(Command(f, nreq + 1))
  BY <1>n, MessageTypes DEF Command, IsBall
<1>d. \A n \in BodyBytes :
        /\ Data(nreq + 1, n) \in Message /\ Data(nreq + 1, n).id = nreq + 1
        /\ ~IsBall(Data(nreq + 1, n)) /\ Data(nreq + 1, n).t # "OX_COMMAND"
  BY <1>n, MessageTypes DEF Data, IsBall
<1>1. CASE RequestCommand \/ PushCMD
  <2>1. PICK f \in Functions : Send(<<Command(f, nreq + 1)>>)
    BY <1>1 DEF RequestCommand, PushCMD
  <2> DEFINE ms == <<Command(f, nreq + 1)>>
  <2>2. ms \in Seq(Message) /\ Len(ms) = 1 /\ ms[1] = Command(f, nreq + 1)
    BY <1>c
  <2> HIDE DEF ms
  <2>3. \A i \in 1 .. Len(ms) : i = 1
    BY <2>2
  <2>4. Send(ms)
    BY <2>1 DEF ms
  <2> QED BY <1>c, <2>2, <2>3, <2>4
<1>2. CASE RequestExecution
  <2>1. PICK n \in BodyBytes : Send(<<Data(nreq + 1, n), Command("executeString", nreq + 1)>>)
    BY <1>2 DEF RequestExecution
  <2> DEFINE ms == <<Data(nreq + 1, n), Command("executeString", nreq + 1)>>
  <2>2. "executeString" \in Functions
    BY DEF Functions
  <2>3. /\ ms \in Seq(Message) /\ Len(ms) = 2
        /\ ms[1] = Data(nreq + 1, n) /\ ms[2] = Command("executeString", nreq + 1)
    BY <1>c, <1>d, <2>2
  <2> HIDE DEF ms
  <2>4. \A i \in 1 .. Len(ms) : i = 1 \/ i = 2
    BY <2>3
  <2>5. Send(ms)
    BY <2>1 DEF ms
  <2> QED BY <1>c, <1>d, <2>2, <2>3, <2>4, <2>5
<1>3. CASE PushCMO
  <2>1. PICK n \in BodyBytes : Send(<<Data(nreq + 1, n)>>)
    BY <1>3 DEF PushCMO
  <2> DEFINE ms == <<Data(nreq + 1, n)>>
  <2>2. ms \in Seq(Message) /\ Len(ms) = 1 /\ ms[1] = Data(nreq + 1, n)
    BY <1>d
  <2> HIDE DEF ms
  <2>3. \A i \in 1 .. Len(ms) : i = 1
    BY <2>2
  <2>4. Send(ms)
    BY <2>1 DEF ms
  <2> QED BY <1>d, <2>2, <2>3, <2>4
<1> QED
  BY <1>1, <1>2, <1>3

\* What the client sends, whatever the request, is a sequence of messages.
LEMMA TypeSend ==
  ASSUME TypeOK, NEW messages \in Seq(Message), Send(messages), UNCHANGED <<engineVars, cs>>
  PROVE  TypeOK'
<1>1. toEngine' \in Seq(Message)
  BY DEF Send, TypeOK, ChannelsTypeOK
<1> QED
  BY <1>1 DEF Send, TypeOK, ChannelsTypeOK, EngineTypeOK, ControlServerTypeOK, ClientTypeOK,
              engineVars, signalVars

LEMMA TypeClient == TypeOK /\ ClientMoves => TypeOK'
<1> SUFFICES ASSUME TypeOK, ClientMoves PROVE TypeOK'
  OBVIOUS
<1>u. UNCHANGED <<engineVars, cs>>
  BY DEF ClientMoves
<1>h. toClient # <<>> => Head(toClient) \in Message /\ Tail(toClient) \in Seq(Message)
  BY DEF TypeOK, ChannelsTypeOK
<1>1. CASE RequestCommand \/ RequestExecution \/ PushCMO \/ PushCMD
  BY <1>u, <1>1, RequestShape, TypeSend
<1>5. CASE SendSyncBall
  <2>1. Send(<<SyncBall>>) /\ <<SyncBall>> \in Seq(Message)
    BY <1>5, MessageTypes DEF SendSyncBall
  <2> QED BY <1>u, <2>1, TypeSend
<1> USE DEF TypeOK, ChannelsTypeOK, EngineTypeOK, ControlServerTypeOK, ClientTypeOK,
            channelVars, signalVars, engineVars, clientVars
<1>6. CASE ResetConnection
  BY <1>6, <1>u DEF ResetConnection, ControlRequests
<1>7. CASE KillServer
  BY <1>7, <1>u DEF KillServer, ControlRequests
<1>8. CASE CloseClient
  <2>1. connected' \in BOOLEAN
    BY <1>8 DEF CloseClient
  <2>2. toClient' \in Seq(Message)
    BY <1>8 DEF CloseClient
  <2> QED BY <1>8, <1>u, <2>1, <2>2 DEF CloseClient
<1>9. CASE GetData
  <2>1. Head(toClient).id \in Nat
    BY <1>9, <1>h DEF GetData, Arrived, Message
  <2>2. last' \in Nat /\ skewC' \in Skew
    BY <1>9, <2>1 DEF GetData
  <2> QED BY <1>9, <1>u, <1>h, <2>2 DEF GetData, Arrived
<1>10. CASE GetStrayBall
  BY <1>10, <1>u, <1>h DEF GetStrayBall, Arrived
<1>11. CASE GetGarbage
  BY <1>11, <1>u, <1>h, SpillType DEF GetGarbage, Arrived
<1>12. CASE GetDiscard
  BY <1>12, <1>u, <1>h, SpillType DEF GetDiscard, Arrived
<1>13. CASE GetSyncBall
  <2>1. toEngine' \in Seq(Message)
    BY <1>13, MessageTypes DEF GetSyncBall
  <2> QED BY <1>13, <1>u, <1>h, <2>1 DEF GetSyncBall, Arrived
<1> QED
  BY <1>1, <1>5, <1>6, <1>7, <1>8, <1>9, <1>10, <1>11, <1>12, <1>13
  DEF ClientMoves, ClientNext, ClientRequest, ClientGet

(***************************************************************************)
(* Every variable of the session keeps its type.                           *)
(***************************************************************************)
THEOREM TypeCorrect == Spec => []TypeOK
<1>1. TypeOK /\ [Next]_vars => TypeOK'
  <2> SUFFICES ASSUME TypeOK, [Next]_vars PROVE TypeOK'
    OBVIOUS
  <2>1. CASE GetEndOfStream
    <3>1. toEngine' \in Seq(Message) /\ toClient' \in Seq(Message)
      BY <2>1, MessageTypes DEF GetEndOfStream, TypeOK, ChannelsTypeOK
    <3> QED BY <2>1, <3>1 DEF GetEndOfStream, TypeOK, ChannelsTypeOK, EngineTypeOK,
               ControlServerTypeOK, ClientTypeOK, signalVars, engineVars
  <2>2. CASE UNCHANGED vars
    BY <2>2 DEF vars, TypeOK, ChannelsTypeOK, EngineTypeOK, ControlServerTypeOK,
       ClientTypeOK, channelVars, signalVars, engineVars, clientVars
  <2> QED
    BY <2>1, <2>2, TypeEngine, TypeControlServer, TypeClient DEF Next
<1> QED
  BY <1>1, TypeInit, PTL DEF Spec

----------------------------------------------------------------------------
(***************************************************************************)
(* The jump of the handler.                                                *)
(***************************************************************************)

\* OxCritical is set wherever a message is under way, and before a header is read.
CriticalOK == pc \in InMessage \cup {"read"} => OxCritical

\* A step of the engine keeps CriticalOK and does not jump out of a message.
LEMMA CriticalEngine ==
  ASSUME CriticalOK, EngineNext
  PROVE  CriticalOK' /\ (pc' = "cjump" => pc \notin InMessage)
<1> USE DEF CriticalOK, InMessage, Runs, Goto, engineVars
<1>1. CASE StartServer \/ InstallAtChildEnv \/ IgnoreForTest \/ InstallAfterTest \/ AfterJump
  BY <1>1 DEF StartServer, InstallAtChildEnv, IgnoreForTest, InstallAfterTest, AfterJump
<1>2. CASE BeginHandshake
  BY <1>2 DEF BeginHandshake
<1>3. CASE ThrowSyncBall \/ WaitSyncBall \/ ClearFlag
  BY <1>3 DEF ThrowSyncBall, WaitSyncBall, ClearFlag
<1>4. CASE EndHandshake \/ PassFlagTest \/ LeaveCritical \/ Select
  BY <1>4 DEF EndHandshake, PassFlagTest, LeaveCritical, Select
<1>5. CASE ReadHeader \/ ReadBody
  BY <1>5 DEF ReadHeader, ReadBody
<1>6. CASE Execute \/ ExecuteReturns \/ ExecuteJumps \/ InstallAfterExecute
  BY <1>6 DEF Execute, ExecuteReturns, ExecuteJumps, InstallAfterExecute
<1>7. CASE SendReplyHeader \/ SendReplyBody \/ OtherCommand
  BY <1>7 DEF SendReplyHeader, SendReplyBody, OtherCommand
<1>8. CASE Shutdown \/ KilledBySignal
  BY <1>8 DEF Shutdown, KilledBySignal
<1>9. CASE controlResetHandler
  BY <1>9 DEF controlResetHandler
<1> QED
  BY <1>1, <1>2, <1>3, <1>4, <1>5, <1>6, <1>7, <1>8, <1>9
  DEF EngineNext, EngineStep, Handshake, Loop, Dispatch, Deliver

LEMMA CriticalStep ==
  ASSUME CriticalOK, [Next]_vars
  PROVE  CriticalOK' /\ (pc' = "cjump" /\ pc \in InMessage => UNCHANGED vars)
<1>1. CASE EngineMoves
  BY <1>1, CriticalEngine DEF EngineMoves
<1>2. CASE UNCHANGED engineVars
  BY <1>2 DEF engineVars, CriticalOK, InMessage
<1> QED
  BY <1>1, <1>2 DEF Next, vars, ControlServerMoves, ClientMoves, GetEndOfStream, engineVars

(***************************************************************************)
(* The jump of controlResetHandler leaves no message half read or half     *)
(* written and no handshake half done.                                     *)
(***************************************************************************)
THEOREM JumpIsSafe == Spec => NoTornMessage
<1>1. Init => CriticalOK
  BY DEF Init, EngineInit, CriticalOK, InMessage
<1>2. CriticalOK /\ [Next]_vars => CriticalOK'
  BY CriticalStep
<1>3. CriticalOK /\ [Next]_vars => [pc' = "cjump" => pc \notin InMessage]_vars
  BY CriticalStep
<1> QED
  BY <1>1, <1>2, <1>3, PTL DEF Spec, NoTornMessage

----------------------------------------------------------------------------
(***************************************************************************)
(* SIGUSR1 is ignored or blocked.                                          *)
(***************************************************************************)
LEMMA DeafEngine ==
  ASSUME DeafOnlyWhenTold, EngineNext
  PROVE  DeafOnlyWhenTold'
<1> USE DEF DeafOnlyWhenTold, Runs, Goto, engineVars, signalVars
<1>1. CASE StartServer \/ InstallAtChildEnv \/ IgnoreForTest
  BY <1>1 DEF StartServer, InstallAtChildEnv, IgnoreForTest, InstallHandler, IgnoreSignal
<1>2. CASE InstallAfterTest \/ AfterJump \/ InstallAfterExecute
  BY <1>2 DEF InstallAfterTest, AfterJump, InstallAfterExecute, InstallHandler
<1>3. CASE BeginHandshake \/ ThrowSyncBall \/ WaitSyncBall \/ ClearFlag
  BY <1>3 DEF BeginHandshake, ThrowSyncBall, WaitSyncBall, ClearFlag
<1>4. CASE EndHandshake \/ PassFlagTest \/ LeaveCritical \/ Select
  BY <1>4 DEF EndHandshake, PassFlagTest, LeaveCritical, Select
<1>5. CASE ReadHeader \/ ReadBody
  BY <1>5 DEF ReadHeader, ReadBody
<1>6. CASE Execute \/ ExecuteReturns \/ ExecuteJumps
  BY <1>6 DEF Execute, ExecuteReturns, ExecuteJumps
<1>7. CASE SendReplyHeader \/ SendReplyBody \/ OtherCommand
  BY <1>7 DEF SendReplyHeader, SendReplyBody, OtherCommand
<1>8. CASE Shutdown \/ KilledBySignal
  BY <1>8 DEF Shutdown, KilledBySignal
<1>9. CASE controlResetHandler
  BY <1>9 DEF controlResetHandler
<1> QED
  BY <1>1, <1>2, <1>3, <1>4, <1>5, <1>6, <1>7, <1>8, <1>9
  DEF EngineNext, EngineStep, Handshake, Loop, Dispatch, Deliver

(***************************************************************************)
(* The engine is deaf to SIGUSR1 only while a reset is noted, and in the   *)
(* windows the invariant names.                                            *)
(***************************************************************************)
THEOREM DeafOnly == Spec => []DeafOnlyWhenTold
<1>1. Init => DeafOnlyWhenTold
  BY DEF Init, ChannelsInit, DeafOnlyWhenTold
<1>2. DeafOnlyWhenTold /\ [Next]_vars => DeafOnlyWhenTold'
  <2> SUFFICES ASSUME DeafOnlyWhenTold, [Next]_vars PROVE DeafOnlyWhenTold'
    OBVIOUS
  <2>1. CASE EngineMoves
    BY <2>1, DeafEngine DEF EngineMoves
  <2>2. CASE ControlServerMoves
    <3>1. UNCHANGED <<pc, OxInterruptFlag, sigAction, sigBlocked>>
      BY <2>2 DEF ControlServerMoves, ControlServerNext, ForwardReset, ReadKill,
         myServerExit, RaiseSignal, signalVars, engineVars
    <3>2. engineAlive' => engineAlive
      BY <2>2 DEF ControlServerMoves, ControlServerNext, ForwardReset, ReadKill, myServerExit
    <3> QED BY <3>1, <3>2 DEF DeafOnlyWhenTold
  <2>3. CASE ClientMoves \/ GetEndOfStream \/ UNCHANGED vars
    <3>1. UNCHANGED <<pc, OxInterruptFlag, sigAction, sigBlocked, engineAlive>>
      BY <2>3 DEF ClientMoves, ClientNext, ClientRequest, ClientGet, RequestCommand,
         RequestExecution, PushCMO, PushCMD, SendSyncBall, Send, ResetConnection, KillServer,
         CloseClient, GetData, GetStrayBall, GetGarbage, GetDiscard, GetSyncBall,
         GetEndOfStream, vars, signalVars, engineVars
    <3> QED BY <3>1 DEF DeafOnlyWhenTold
  <2> QED BY <2>1, <2>2, <2>3 DEF Next
<1> QED
  BY <1>1, <1>2, PTL DEF Spec

----------------------------------------------------------------------------
(***************************************************************************)
(* Streams: what the operations on a stream do to its elements.            *)
(***************************************************************************)
LEMMA TailOfStream ==
  ASSUME NEW s \in Seq(Message), s # <<>>
  PROVE  /\ Tail(s) \in Seq(Message)
         /\ Len(s) \in Nat /\ Len(s) >= 1 /\ Len(Tail(s)) = Len(s) - 1
         /\ Head(s) = s[1] /\ Head(s) \in Message
         /\ \A i \in 1 .. Len(Tail(s)) : i + 1 \in 2 .. Len(s) /\ Tail(s)[i] = s[i + 1]
OBVIOUS

LEMMA AppendToStream ==
  ASSUME NEW s \in Seq(Message), NEW m \in Message
  PROVE  /\ Append(s, m) \in Seq(Message)
         /\ Append(s, m) # <<>>
         /\ Len(s) \in Nat /\ Len(Append(s, m)) = Len(s) + 1
         /\ Append(s, m)[Len(s) + 1] = m
         /\ \A i \in 1 .. Len(s) : Append(s, m)[i] = s[i]
OBVIOUS

\* Completing the last message changes nothing that identifies a message.
LEMMA BodyOfLast ==
  ASSUME NEW s \in Seq(Message)
  PROVE  LET r == [s EXCEPT ![Len(s)].whole = TRUE]
         IN  /\ Len(r) = Len(s)
             /\ \A i \in 1 .. Len(s) : r[i].t = s[i].t /\ r[i].id = s[i].id
<1> DEFINE k == Len(s)
           r == [i \in 1 .. k |-> IF i = k THEN [s[i] EXCEPT !.whole = TRUE] ELSE s[i]]
<1>1. [s EXCEPT ![k].whole = TRUE] = r
  <2>1. DOMAIN s = 1 .. k /\ s = [i \in 1 .. k |-> s[i]]
    OBVIOUS
  <2> QED BY <2>1, Zenon
<1>2. Len(r) = k
  OBVIOUS
<1>3. \A i \in 1 .. k : r[i].t = s[i].t /\ r[i].id = s[i].id
  BY DEF Message
<1> QED
  BY <1>1, <1>2, <1>3

LEMMA JoinStreams ==
  ASSUME NEW s \in Seq(Message), NEW t \in Seq(Message)
  PROVE  /\ s \o t \in Seq(Message)
         /\ Len(s) \in Nat /\ Len(t) \in Nat /\ Len(s \o t) = Len(s) + Len(t)
         /\ \A i \in 1 .. Len(s) : (s \o t)[i] = s[i]
         /\ \A i \in Len(s) + 1 .. Len(s) + Len(t) :
              i - Len(s) \in 1 .. Len(t) /\ (s \o t)[i] = t[i - Len(s)]
OBVIOUS

LEMMA RestOfStream ==
  ASSUME NEW s \in Seq(Message), NEW n \in 0 .. Len(s)
  PROVE  /\ SubSeq(s, n + 1, Len(s)) \in Seq(Message)
         /\ Len(SubSeq(s, n + 1, Len(s))) = Len(s) - n
         /\ \A i \in 1 .. Len(s) - n : n + i \in 1 .. Len(s) /\ SubSeq(s, n + 1, Len(s))[i] = s[n + i]
OBVIOUS

----------------------------------------------------------------------------
(***************************************************************************)
(* The balls.  BallInvariant is inductive together with the type           *)
(* invariant, CriticalOK and two conjuncts of OrderInvariant, as long as   *)
(* the user sends no ball of his own.                                      *)
(***************************************************************************)
Closed == base <= nreq /\ last <= nreq /\ (~connected => toClient = <<>>)

\* A step that leaves the streams alone, and begins no handshake and no command.
LEMMA BallFrame ==
  ASSUME BallInvariant, UNCHANGED <<toEngine, toClient, base>>, pc = "wait" <=> pc' = "wait",
         pc' = "dispatch" => pc = "dispatch" /\ cmd' = cmd, engineAlive' => engineAlive
  PROVE  BallInvariant'
<1>1. CASE NoBallUnderWay
  BY <1>1 DEF BallInvariant, NoBallUnderWay, Fresh, IsBall
<1>2. CASE BallToClient
  BY <1>2 DEF BallInvariant, BallToClient, IsBall, HasBall
<1>3. CASE BallToEngine
  BY <1>3 DEF BallInvariant, BallToEngine, IsBall
<1>4. CASE ServerGone
  BY <1>4 DEF BallInvariant, ServerGone
<1> QED
  BY <1>1, <1>2, <1>3, <1>4 DEF BallInvariant

\* Reading a stream that is fresh leaves it fresh.
LEMMA FreshTail ==
  ASSUME NEW s \in Seq(Message), s # <<>>, Fresh(s)
  PROVE  Fresh(Tail(s)) /\ ~IsBall(Head(s)) /\ Head(s).id > base
BY TailOfStream DEF Fresh

LEMMA BallQuietEngine ==
  ASSUME TypeOK, CriticalOK, BallInvariant, EngineNext, UNCHANGED <<cs, clientVars>>,
         ~BeginHandshake, ~ThrowSyncBall, ~WaitSyncBall, ~ReadHeader, ~ReadBody,
         ~SendReplyHeader, ~SendReplyBody
  PROVE  BallInvariant'
<1> USE DEF Runs, Goto, engineVars, channelVars, clientVars
<1>0. UNCHANGED base
  OBVIOUS
<1>1. CASE StartServer \/ InstallAtChildEnv \/ IgnoreForTest \/ InstallAfterTest \/ AfterJump
  BY <1>0, <1>1, BallFrame DEF StartServer, InstallAtChildEnv, IgnoreForTest, InstallAfterTest, AfterJump
<1>2. CASE ClearFlag \/ EndHandshake \/ PassFlagTest \/ LeaveCritical \/ Select
  BY <1>0, <1>2, BallFrame DEF ClearFlag, EndHandshake, PassFlagTest, LeaveCritical, Select
<1>3. CASE Execute \/ ExecuteReturns \/ ExecuteJumps \/ InstallAfterExecute \/ OtherCommand
  BY <1>0, <1>3, BallFrame DEF Execute, ExecuteReturns, ExecuteJumps, InstallAfterExecute, OtherCommand
<1>4. CASE Shutdown \/ KilledBySignal
  <2>1. UNCHANGED <<toEngine, toClient, pc, cmd>> /\ ~engineAlive'
    BY <1>4 DEF Shutdown, KilledBySignal
  <2> QED BY <1>0, <2>1, BallFrame
<1>5. CASE controlResetHandler
  <2>1. UNCHANGED <<toEngine, toClient, cmd, engineAlive>>
    BY <1>5 DEF controlResetHandler
  <2>2. pc' = pc \/ (pc' = "cjump" /\ pc # "wait")
    BY <1>5 DEF controlResetHandler, CriticalOK, InMessage
  <2> QED BY <1>0, <2>1, <2>2, BallFrame
<1> QED
  BY <1>1, <1>2, <1>3, <1>4, <1>5
  DEF EngineNext, EngineStep, Handshake, Loop, Dispatch, Deliver

LEMMA BallEngine ==
  ASSUME TypeOK, CriticalOK, Closed, BallInvariant, EngineNext, UNCHANGED <<cs, clientVars>>
  PROVE  BallInvariant'
<1> USE DEF Runs, Goto
<1>t. /\ toEngine \in Seq(Message) /\ toClient \in Seq(Message) /\ cmd \in Message
      /\ base \in Nat /\ UNCHANGED base
  BY DEF TypeOK, ChannelsTypeOK, EngineTypeOK, ClientTypeOK, clientVars
<1>g. engineAlive => ~ServerGone
  BY DEF ServerGone
<1>1. CASE BeginHandshake
  <2>1. NoBallUnderWay
    BY <1>1, <1>g DEF BeginHandshake, BallInvariant, BallToClient, BallToEngine
  <2>2. PICK n \in 0 .. Len(toEngine) : toEngine' = SubSeq(toEngine, n + 1, Len(toEngine))
    BY <1>1 DEF BeginHandshake, ClearReadBuf
  <2>3. Fresh(toEngine)'
    BY <1>t, <2>1, <2>2, RestOfStream DEF NoBallUnderWay, Fresh
  <2>4. Fresh(toClient)'
    BY <1>1, <1>t, <2>1 DEF BeginHandshake, NoBallUnderWay, Fresh
  <2> QED BY <1>1, <2>3, <2>4 DEF BeginHandshake, BallInvariant, NoBallUnderWay
<1>2. CASE ThrowSyncBall
  <2>1. NoBallUnderWay
    BY <1>2, <1>g DEF ThrowSyncBall, BallInvariant, BallToClient, BallToEngine
  <2>2. CASE connected
    <3>1. toClient' = Append(toClient, SyncBall)
      BY <1>2, <2>2 DEF ThrowSyncBall, Write
    <3>2. SyncBall \in Message /\ IsBall(SyncBall)
      BY MessageTypes DEF IsBall, SyncBall
    <3>3. ~HasBall(toEngine)'
      BY <1>2, <2>1 DEF ThrowSyncBall, NoBallUnderWay, Fresh, HasBall, IsBall
    <3>4. \A i \in 1 .. Len(toClient') :
             IF i = Len(toClient') THEN IsBall(toClient'[i])
                                   ELSE ~IsBall(toClient'[i]) /\ toClient'[i].id > base
      BY <1>t, <2>1, <3>1, <3>2, AppendToStream DEF NoBallUnderWay, Fresh
    <3>5. toClient' # <<>>
      BY <1>t, <3>1, <3>2, AppendToStream
    <3> QED BY <1>2, <1>t, <3>3, <3>4, <3>5 DEF ThrowSyncBall, BallInvariant, BallToClient, IsBall
  <2>3. CASE ~connected
    BY <1>2, <2>1, <2>3 DEF ThrowSyncBall, Write, Closed, BallInvariant, BallToEngine,
       NoBallUnderWay, Fresh
  <2> QED BY <2>2, <2>3
<1>3. CASE WaitSyncBall
  <2>1. toClient' = toClient /\ pc = "wait" /\ pc' \in {"wait", "synced"}
    BY <1>3 DEF WaitSyncBall
  <2>2. CASE toEngine = <<>>
    <3>1. ~connected /\ toEngine' = <<>> /\ pc' = "synced"
      BY <1>3, <2>2 DEF WaitSyncBall, EndOfInput
    <3> QED BY <2>1, <3>1 DEF Closed, BallInvariant, NoBallUnderWay, Fresh
  <2>3. CASE toEngine # <<>>
    <3>1. toEngine' = Tail(toEngine)
      BY <1>3, <2>3 DEF WaitSyncBall, EndOfInput
    <3>2. CASE BallToClient
      <4>1. ~IsBall(Head(toEngine)) /\ ~HasBall(Tail(toEngine))
        BY <1>t, <2>3, <3>2, TailOfStream DEF BallToClient, HasBall, IsBall
      <4>2. pc' = "wait"
        BY <1>3, <2>3, <4>1 DEF WaitSyncBall, FoundBall, IsBall, EndOfInput
      <4> QED BY <1>t, <2>1, <3>1, <3>2, <4>1, <4>2 DEF BallInvariant, BallToClient, HasBall, IsBall
    <3>3. CASE BallToEngine
      <4>1. \A i, j \in 1 .. Len(Tail(toEngine)) :
              i < j /\ IsBall(Tail(toEngine)[i]) => ~IsBall(Tail(toEngine)[j]) /\ Tail(toEngine)[j].id > base
        <5> TAKE i, j \in 1 .. Len(Tail(toEngine))
        <5>1. /\ i + 1 \in 1 .. Len(toEngine) /\ Tail(toEngine)[i] = toEngine[i + 1]
              /\ j + 1 \in 1 .. Len(toEngine) /\ Tail(toEngine)[j] = toEngine[j + 1]
              /\ i < j => i + 1 < j + 1
          BY <1>t, <2>3, TailOfStream
        <5> QED BY <3>3, <5>1 DEF BallToEngine
      <4>2. CASE pc' = "wait"
        BY <1>t, <2>1, <3>1, <3>3, <4>1, <4>2 DEF BallInvariant, BallToEngine, IsBall
      <4>3. CASE pc' = "synced"
        <5>1. IsBall(Head(toEngine))
          BY <1>3, <2>3, <4>3 DEF WaitSyncBall, FoundBall, IsBall, EndOfInput
        <5>2. Fresh(Tail(toEngine))
          BY <1>t, <2>3, <3>3, <5>1, TailOfStream DEF BallToEngine, Fresh
        <5> QED BY <1>t, <2>1, <3>1, <3>3, <4>3, <5>2 DEF BallInvariant, NoBallUnderWay, BallToEngine, Fresh, IsBall
      <4> QED BY <2>1, <4>2, <4>3
    <3> QED BY <2>1, <3>2, <3>3, <1>g, <1>3 DEF BallInvariant, NoBallUnderWay, WaitSyncBall
  <2> QED BY <2>2, <2>3
<1>4. CASE ReadHeader
  <2>1. NoBallUnderWay
    BY <1>4, <1>g DEF ReadHeader, BallInvariant, BallToClient, BallToEngine
  <2>2. toEngine' = toEngine \/ (toEngine # <<>> /\ toEngine' = Tail(toEngine))
    BY <1>4 DEF ReadHeader
  <2>3. Fresh(toEngine)'
    BY <1>t, <2>1, <2>2, FreshTail DEF NoBallUnderWay, Fresh
  <2> QED BY <1>4, <1>t, <2>1, <2>3 DEF ReadHeader, BallInvariant, NoBallUnderWay, Fresh
<1>5. CASE ReadBody
  <2>1. NoBallUnderWay
    BY <1>5, <1>g DEF ReadBody, BallInvariant, BallToClient, BallToEngine
  <2>2. Fresh(Tail(toEngine)) /\ Head(toEngine).id > base
    BY <1>5, <1>t, <2>1, FreshTail DEF ReadBody, NoBallUnderWay
  <2>3. pc' # "wait" /\ (pc' = "dispatch" => cmd' = Head(toEngine))
    BY <1>5 DEF ReadBody
  <2> QED BY <1>5, <1>t, <2>1, <2>2, <2>3 DEF ReadBody, BallInvariant, NoBallUnderWay, Fresh
<1>6. CASE SendReplyHeader
  <2>1. NoBallUnderWay /\ cmd.id > base
    BY <1>6, <1>g DEF SendReplyHeader, BallInvariant, BallToClient, BallToEngine, NoBallUnderWay
  <2>2. PICK n \in BodyBytes : Write(Append(toClient, [Data(cmd.id, n) EXCEPT !.whole = FALSE]))
    BY <1>6 DEF SendReplyHeader
  <2> DEFINE m == [Data(cmd.id, n) EXCEPT !.whole = FALSE]
  <2>3. m \in Message /\ ~IsBall(m) /\ m.id = cmd.id
    <3>1. cmd.id \in Nat
      BY <1>t DEF Message
    <3> QED BY <3>1, MessageTypes DEF IsBall, Data
  <2>4. Fresh(toClient)'
    <3>1. toClient' = Append(toClient, m) \/ toClient' = toClient
      BY <2>2 DEF Write
    <3> HIDE DEF m
    <3> QED BY <1>t, <2>1, <2>3, <3>1, AppendToStream DEF NoBallUnderWay, Fresh
  <2> QED BY <1>6, <1>t, <2>1, <2>4 DEF SendReplyHeader, BallInvariant, NoBallUnderWay, Fresh
<1>7. CASE SendReplyBody
  <2>1. NoBallUnderWay
    BY <1>7, <1>g DEF SendReplyBody, BallInvariant, BallToClient, BallToEngine
  <2>2. /\ Len(toClient') = Len(toClient)
        /\ \A i \in 1 .. Len(toClient) : toClient'[i].t = toClient[i].t /\ toClient'[i].id = toClient[i].id
    BY <1>7, <1>t, BodyOfLast DEF SendReplyBody, Write
  <2>3. Fresh(toClient)'
    BY <1>t, <2>1, <2>2 DEF NoBallUnderWay, Fresh, IsBall
  <2> QED BY <1>7, <1>t, <2>1, <2>3 DEF SendReplyBody, BallInvariant, NoBallUnderWay, Fresh
<1> QED
  BY <1>1, <1>2, <1>3, <1>4, <1>5, <1>6, <1>7, BallQuietEngine

LEMMA BallControlServer ==
  ASSUME BallInvariant, ControlServerMoves
  PROVE  BallInvariant'
BY BallFrame DEF ControlServerMoves, ControlServerNext, ForwardReset, ReadKill, myServerExit,
   channelVars, engineVars, clientVars

LEMMA BallRequest ==
  ASSUME TypeOK, Closed, BallInvariant, UNCHANGED engineVars,
         RequestCommand \/ RequestExecution \/ PushCMO \/ PushCMD
  PROVE  BallInvariant'
<1>1. PICK ms \in Seq(Message) :
         /\ Send(ms)
         /\ \A i \in 1 .. Len(ms) : ~IsBall(ms[i]) /\ ms[i].id = nreq + 1
  BY RequestShape
<1>2. /\ toEngine \in Seq(Message) /\ toEngine' = toEngine \o ms /\ toClient' = toClient
      /\ UNCHANGED <<base, pc, cmd, engineAlive>>
  BY <1>1 DEF Send, TypeOK, ChannelsTypeOK, engineVars
<1>3. base < nreq + 1
  BY DEF Closed, TypeOK, ClientTypeOK
<1>4. \A i \in 1 .. Len(toEngine') :
         \/ i \in 1 .. Len(toEngine) /\ toEngine'[i] = toEngine[i]
         \/ i > Len(toEngine) /\ ~IsBall(toEngine'[i]) /\ toEngine'[i].id > base
  <2> TAKE i \in 1 .. Len(toEngine')
  <2>1. CASE i <= Len(toEngine)
    BY <1>2, <2>1, JoinStreams
  <2>2. CASE i > Len(toEngine)
    BY <1>1, <1>2, <1>3, <2>2, JoinStreams
  <2> QED BY <1>2, <2>1, <2>2, JoinStreams
<1>5. CASE NoBallUnderWay
  BY <1>2, <1>4, <1>5 DEF BallInvariant, NoBallUnderWay, Fresh, IsBall
<1>6. CASE BallToClient
  BY <1>2, <1>4, <1>6 DEF BallInvariant, BallToClient, HasBall, IsBall
<1>7. CASE BallToEngine
  <2>1. \A i, j \in 1 .. Len(toEngine') :
          i < j /\ IsBall(toEngine'[i]) => ~IsBall(toEngine'[j]) /\ toEngine'[j].id > base
    BY <1>2, <1>4, <1>7 DEF BallToEngine
  <2> QED BY <1>2, <1>7, <2>1 DEF BallInvariant, BallToEngine, IsBall
<1>8. CASE ServerGone
  BY <1>2, <1>8 DEF BallInvariant, ServerGone
<1> QED
  BY <1>5, <1>6, <1>7, <1>8 DEF BallInvariant

\* Taking the first message of the stream to the client.  Whether the message is a
\* ball or not, the client is not the one that answers it here.
LEMMA BallTake ==
  ASSUME TypeOK, BallInvariant, toClient # <<>>, toClient' = Tail(toClient),
         UNCHANGED <<toEngine, base, pc, cmd, engineAlive>>
  PROVE  BallInvariant'
<1>t. toClient \in Seq(Message)
  BY DEF TypeOK, ChannelsTypeOK
<1>1. CASE NoBallUnderWay
  <2>1. Fresh(toClient)'
    BY <1>t, <1>1, FreshTail DEF NoBallUnderWay, Fresh
  <2> QED BY <1>1, <2>1 DEF BallInvariant, NoBallUnderWay, Fresh
<1>2. CASE BallToClient
  <2>1. CASE Len(toClient) = 1
    <3>1. toClient' = <<>>
      BY <1>t, <2>1
    <3> QED BY <1>2, <3>1 DEF BallInvariant, BallToClient, BallToEngine, HasBall, IsBall
  <2>2. CASE Len(toClient) # 1
    <3>1. toClient' # <<>>
      <4>1. Len(toClient') # 0
        BY <1>t, <2>2, TailOfStream
      <4> QED BY <4>1
    <3>2. \A i \in 1 .. Len(toClient') :
             IF i = Len(toClient') THEN IsBall(toClient'[i])
                                   ELSE ~IsBall(toClient'[i]) /\ toClient'[i].id > base
      BY <1>t, <1>2, TailOfStream DEF BallToClient
    <3> QED BY <1>2, <3>1, <3>2 DEF BallInvariant, BallToClient, HasBall, IsBall
  <2> QED BY <2>1, <2>2
<1> QED
  BY <1>1, <1>2 DEF BallInvariant, BallToEngine, ServerGone

LEMMA BallClient ==
  ASSUME ~UserBall, TypeOK, Closed, BallInvariant, ClientMoves
  PROVE  BallInvariant'
<1>u. UNCHANGED <<pc, cmd>> /\ UNCHANGED engineVars
  BY DEF ClientMoves, engineVars
<1>t. toClient \in Seq(Message) /\ toEngine \in Seq(Message)
  BY DEF TypeOK, ChannelsTypeOK
<1>1. CASE RequestCommand \/ RequestExecution \/ PushCMO \/ PushCMD
  BY <1>u, <1>1, BallRequest
<1>2. CASE ResetConnection \/ KillServer
  BY <1>u, <1>2, BallFrame DEF ResetConnection, KillServer
<1>3. CASE CloseClient
  <2>1. toClient' = <<>> /\ UNCHANGED <<toEngine, base, engineAlive>>
    BY <1>3 DEF CloseClient, clientVars
  <2> QED BY <1>u, <2>1 DEF BallInvariant, NoBallUnderWay, BallToClient, BallToEngine, ServerGone,
             Fresh, HasBall, IsBall
<1>4. CASE GetData \/ GetStrayBall \/ GetGarbage \/ GetDiscard
  BY <1>u, <1>4, BallTake DEF GetData, GetStrayBall, GetGarbage, GetDiscard, Arrived, clientVars
<1>5. CASE GetSyncBall
  <2>1. /\ toClient # <<>> /\ IsBall(Head(toClient)) /\ toClient' = Tail(toClient)
        /\ toEngine' = Append(toEngine, SyncBall) /\ UNCHANGED engineAlive
    BY <1>5 DEF GetSyncBall, Arrived, FoundBall, IsBall
  <2>2. BallToClient
    BY <1>t, <2>1, FreshTail DEF BallInvariant, NoBallUnderWay, BallToEngine, ServerGone
  <2>3. toClient' = <<>>
    BY <1>t, <2>1, <2>2, TailOfStream DEF BallToClient
  <2>4. \A i, j \in 1 .. Len(toEngine') : i < j => ~IsBall(toEngine'[i])
    BY <1>t, <2>1, <2>2, MessageTypes, AppendToStream DEF BallToClient, HasBall, IsBall
  <2> QED BY <1>u, <2>2, <2>3, <2>4 DEF BallInvariant, BallToClient, BallToEngine, IsBall
<1> QED
  BY <1>1, <1>2, <1>3, <1>4, <1>5 DEF ClientMoves, ClientNext, ClientRequest, ClientGet, SendSyncBall

----------------------------------------------------------------------------
(***************************************************************************)
(* The order of the answers.                                               *)
(***************************************************************************)

\* OrderInvariant by its conjuncts.
AnswersAscend ==
  \A i \in 1 .. Len(toClient) :
     /\ toClient[i].id <= nreq
     /\ ~IsBall(toClient[i]) =>
           /\ last < toClient[i].id
           /\ \A j \in 1 .. i - 1 : toClient[j].id < toClient[i].id

CommandNext ==
  pc = "dispatch" =>
     /\ last < cmd.id /\ cmd.id <= nreq
     /\ \A i \in 1 .. Len(toClient) : toClient[i].id < cmd.id

CommandsAscend ==
  \A k \in 1 .. Len(toEngine) : toEngine[k].t = "OX_COMMAND" =>
     /\ last < toEngine[k].id /\ toEngine[k].id <= nreq
     /\ \A i \in 1 .. Len(toClient) : toClient[i].id < toEngine[k].id
     /\ pc = "dispatch" => cmd.id < toEngine[k].id
     /\ \A j \in 1 .. k - 1 : toEngine[j].t = "OX_COMMAND" => toEngine[j].id < toEngine[k].id

LEMMA OrderParts == OrderInvariant <=> Closed /\ AnswersAscend /\ CommandNext /\ CommandsAscend
BY DEF OrderInvariant, Closed, AnswersAscend, CommandNext, CommandsAscend

\* A step that sends nothing and begins no command: a message of either stream may
\* go, the first of the stream to the client only if it is not an answer.
LEMMA OrderLoses ==
  ASSUME TypeOK, OrderInvariant,
         NEW a \in 0 .. Len(toEngine), toEngine' = SubSeq(toEngine, a + 1, Len(toEngine)),
         NEW b \in 0 .. Len(toClient), toClient' = SubSeq(toClient, b + 1, Len(toClient)),
         UNCHANGED <<base, nreq, last>>, UNCHANGED connected \/ toClient' = <<>>,
         pc' = "dispatch" => pc = "dispatch" /\ cmd' = cmd
  PROVE  OrderInvariant'
<1>t. toClient \in Seq(Message) /\ toEngine \in Seq(Message) /\ Len(toClient) \in Nat /\ Len(toEngine) \in Nat
  BY DEF TypeOK, ChannelsTypeOK
<1>1. Closed /\ AnswersAscend /\ CommandNext /\ CommandsAscend
  BY OrderParts
<1>2. /\ Len(toEngine') = Len(toEngine) - a
      /\ \A i \in 1 .. Len(toEngine) - a : a + i \in 1 .. Len(toEngine) /\ toEngine'[i] = toEngine[a + i]
  BY <1>t, RestOfStream
<1>3. /\ Len(toClient') = Len(toClient) - b
      /\ \A i \in 1 .. Len(toClient) - b : b + i \in 1 .. Len(toClient) /\ toClient'[i] = toClient[b + i]
  BY <1>t, RestOfStream
<1>4. Closed'
  <2>1. toClient = <<>> => toClient' = <<>>
    BY <1>t, <1>3
  <2> QED BY <1>1, <2>1 DEF Closed
<1>5. AnswersAscend'
  <2> SUFFICES ASSUME NEW i \in 1 .. Len(toClient')
               PROVE  /\ toClient'[i].id <= nreq
                      /\ ~IsBall(toClient'[i]) =>
                           /\ last < toClient'[i].id
                           /\ \A j \in 1 .. i - 1 : toClient'[j].id < toClient'[i].id
    BY DEF AnswersAscend, IsBall
  <2>1. /\ b + i \in 1 .. Len(toClient) /\ toClient'[i] = toClient[b + i]
        /\ \A j \in 1 .. i - 1 : b + j \in 1 .. (b + i) - 1 /\ toClient'[j] = toClient[b + j]
    BY <1>t, <1>3
  <2>2. /\ toClient[b + i].id <= nreq
        /\ ~IsBall(toClient[b + i]) =>
             /\ last < toClient[b + i].id
             /\ \A j \in 1 .. (b + i) - 1 : toClient[j].id < toClient[b + i].id
    BY <1>1, <2>1 DEF AnswersAscend
  <2> QED BY <2>1, <2>2
<1>6. CommandNext'
  BY <1>t, <1>1, <1>3 DEF CommandNext
<1>7. CommandsAscend'
  <2> SUFFICES ASSUME NEW k \in 1 .. Len(toEngine'), toEngine'[k].t = "OX_COMMAND"
               PROVE  /\ last < toEngine'[k].id /\ toEngine'[k].id <= nreq
                      /\ \A i \in 1 .. Len(toClient') : toClient'[i].id < toEngine'[k].id
                      /\ pc' = "dispatch" => cmd'.id < toEngine'[k].id
                      /\ \A j \in 1 .. k - 1 : toEngine'[j].t = "OX_COMMAND" => toEngine'[j].id < toEngine'[k].id
    BY DEF CommandsAscend
  <2>1. /\ a + k \in 1 .. Len(toEngine) /\ toEngine'[k] = toEngine[a + k]
        /\ \A j \in 1 .. k - 1 : a + j \in 1 .. (a + k) - 1 /\ toEngine'[j] = toEngine[a + j]
    <3> DEFINE n == Len(toEngine)
    <3>1. n \in Nat /\ a \in 0 .. n /\ k \in 1 .. n - a
      BY <1>t, <1>2
    <3>2. \A j \in 1 .. k - 1 : j \in 1 .. n - a /\ a + j \in 1 .. (a + k) - 1
      <4> HIDE DEF n
      <4> QED BY <3>1
    <3>3. \A i \in 1 .. n - a : a + i \in 1 .. n /\ toEngine'[i] = toEngine[a + i]
      BY <1>2
    <3> HIDE DEF n
    <3>4. a + k \in 1 .. n /\ toEngine'[k] = toEngine[a + k]
      BY <3>1, <3>3
    <3>5. \A j \in 1 .. k - 1 : a + j \in 1 .. (a + k) - 1 /\ toEngine'[j] = toEngine[a + j]
      BY <3>2, <3>3
    <3> QED BY <3>4, <3>5 DEF n
  <2>2. /\ last < toEngine[a + k].id /\ toEngine[a + k].id <= nreq
        /\ \A i \in 1 .. Len(toClient) : toClient[i].id < toEngine[a + k].id
        /\ pc = "dispatch" => cmd.id < toEngine[a + k].id
        /\ \A j \in 1 .. (a + k) - 1 : toEngine[j].t = "OX_COMMAND" => toEngine[j].id < toEngine[a + k].id
    BY <1>1, <2>1 DEF CommandsAscend
  <2> QED BY <1>3, <2>1, <2>2
<1> QED
  <2>1. OrderInvariant' <=> Closed' /\ AnswersAscend' /\ CommandNext' /\ CommandsAscend'
    BY OrderParts, PTL
  <2> QED BY <2>1, <1>4, <1>5, <1>6, <1>7

\* The two streams a step may leave: all of it, and what follows its first message.
LEMMA PartsOfStream ==
  ASSUME NEW s \in Seq(Message)
  PROVE  /\ 0 \in 0 .. Len(s) /\ s = SubSeq(s, 0 + 1, Len(s))
         /\ s # <<>> => 1 \in 0 .. Len(s) /\ Tail(s) = SubSeq(s, 1 + 1, Len(s))
<1>1. Len(s) \in Nat
  OBVIOUS
<1>2. s = SubSeq(s, 1, Len(s))
  BY <1>1
<1>3. s # <<>> => Len(s) >= 1
  BY <1>1
<1>4. s # <<>> => Tail(s) = SubSeq(s, 2, Len(s))
  BY <1>1, <1>3
<1> QED BY <1>1, <1>2, <1>3, <1>4

\* OrderLoses for a step that takes at most one message from each stream.
LEMMA OrderTakes ==
  ASSUME TypeOK, OrderInvariant,
         toEngine' = toEngine \/ (toEngine # <<>> /\ toEngine' = Tail(toEngine)),
         toClient' = toClient \/ (toClient # <<>> /\ toClient' = Tail(toClient)),
         UNCHANGED <<base, nreq, last, connected>>,
         pc' = "dispatch" => pc = "dispatch" /\ cmd' = cmd
  PROVE  OrderInvariant'
<1>t. toClient \in Seq(Message) /\ toEngine \in Seq(Message)
  BY DEF TypeOK, ChannelsTypeOK
<1>1. PICK a \in 0 .. Len(toEngine) : toEngine' = SubSeq(toEngine, a + 1, Len(toEngine))
  BY <1>t, PartsOfStream
<1>2. PICK b \in 0 .. Len(toClient) : toClient' = SubSeq(toClient, b + 1, Len(toClient))
  BY <1>t, PartsOfStream
<1> QED
  BY <1>1, <1>2, OrderLoses

\* The engine reads a command: what was first of the commands under way is in work.
LEMMA OrderReadBody ==
  ASSUME TypeOK, OrderInvariant, ReadBody, UNCHANGED <<cs, clientVars>>
  PROVE  OrderInvariant'
<1> USE DEF Runs, Goto
<1>t. toClient \in Seq(Message) /\ toEngine \in Seq(Message) /\ toEngine # <<>>
  BY DEF ReadBody, TypeOK, ChannelsTypeOK
<1>u. /\ toClient' = toClient /\ toEngine' = Tail(toEngine)
      /\ UNCHANGED <<base, nreq, last, connected>>
  BY DEF ReadBody, clientVars
<1>1. CASE pc' # "dispatch"
  BY <1>t, <1>u, <1>1, OrderTakes
<1>2. CASE pc' = "dispatch"
  <2>1. cmd' = Head(toEngine) /\ Head(toEngine).t = "OX_COMMAND"
    BY <1>2 DEF ReadBody
  <2>2. Closed /\ AnswersAscend /\ CommandNext /\ CommandsAscend
    BY OrderParts
  <2>3. /\ Len(toEngine) \in Nat /\ Len(toEngine) >= 1 /\ Len(toEngine') = Len(toEngine) - 1
        /\ Head(toEngine) = toEngine[1]
        /\ \A i \in 1 .. Len(toEngine') : i + 1 \in 2 .. Len(toEngine) /\ toEngine'[i] = toEngine[i + 1]
    BY <1>t, <1>u, TailOfStream
  <2>4. CommandNext'
    BY <1>u, <2>1, <2>2, <2>3 DEF CommandNext, CommandsAscend
  <2>5. CommandsAscend'
    <3> SUFFICES ASSUME NEW k \in 1 .. Len(toEngine'), toEngine'[k].t = "OX_COMMAND"
                 PROVE  /\ last < toEngine'[k].id /\ toEngine'[k].id <= nreq
                        /\ \A i \in 1 .. Len(toClient) : toClient[i].id < toEngine'[k].id
                        /\ cmd'.id < toEngine'[k].id
                        /\ \A j \in 1 .. k - 1 : toEngine'[j].t = "OX_COMMAND" => toEngine'[j].id < toEngine'[k].id
      BY <1>u, <1>2 DEF CommandsAscend
    <3>1. k + 1 \in 2 .. Len(toEngine) /\ toEngine'[k] = toEngine[k + 1]
      BY <2>3
    <3>2. \A j \in 1 .. k - 1 : j + 1 \in 1 .. (k + 1) - 1 /\ toEngine'[j] = toEngine[j + 1]
      <4> TAKE j \in 1 .. k - 1
      <4>1. j \in 1 .. Len(toEngine')
        BY <2>3
      <4> QED BY <2>3, <4>1
    <3>3. /\ last < toEngine[k + 1].id /\ toEngine[k + 1].id <= nreq
          /\ \A i \in 1 .. Len(toClient) : toClient[i].id < toEngine[k + 1].id
          /\ \A j \in 1 .. (k + 1) - 1 : toEngine[j].t = "OX_COMMAND" => toEngine[j].id < toEngine[k + 1].id
      BY <2>2, <2>3, <3>1 DEF CommandsAscend
    <3>4. 1 \in 1 .. (k + 1) - 1
      BY <2>3
    <3> QED BY <2>1, <2>3, <3>1, <3>2, <3>3, <3>4
  <2>6. Closed' /\ AnswersAscend'
    BY <1>u, <2>2 DEF Closed, AnswersAscend, IsBall
  <2> QED
    <3>1. OrderInvariant' <=> Closed' /\ AnswersAscend' /\ CommandNext' /\ CommandsAscend'
      BY OrderParts, PTL
    <3> QED BY <3>1, <2>4, <2>5, <2>6
<1> QED BY <1>1, <1>2

\* The engine appends a ball, or the header of the answer to the command in work.
LEMMA OrderAppends ==
  ASSUME TypeOK, OrderInvariant, NEW m \in Message,
         IF IsBall(m) THEN m.id = 0 ELSE pc = "dispatch" /\ m.id = cmd.id,
         toClient' = IF connected THEN Append(toClient, m) ELSE toClient,
         pc' # "dispatch", UNCHANGED <<toEngine, base, nreq, last, connected>>
  PROVE  OrderInvariant'
<1>t. toClient \in Seq(Message) /\ nreq \in Nat /\ last \in Nat
  BY DEF TypeOK, ChannelsTypeOK, ClientTypeOK
<1>1. Closed /\ AnswersAscend /\ CommandNext /\ CommandsAscend
  BY OrderParts
<1>2. CASE ~connected
  <2>1. Closed' /\ AnswersAscend' /\ CommandNext' /\ CommandsAscend'
    BY <1>1, <1>2 DEF Closed, AnswersAscend, CommandNext, CommandsAscend, IsBall
  <2>2. OrderInvariant' <=> Closed' /\ AnswersAscend' /\ CommandNext' /\ CommandsAscend'
    BY OrderParts, PTL
  <2> QED BY <2>1, <2>2
<1>3. CASE connected
  <2>1. toClient' = Append(toClient, m)
    BY <1>3
  <2>2. /\ Len(toClient) \in Nat /\ Len(toClient') = Len(toClient) + 1
        /\ toClient'[Len(toClient) + 1] = m
        /\ \A i \in 1 .. Len(toClient) : toClient'[i] = toClient[i]
    BY <1>t, <2>1, AppendToStream
  <2>3. \A i \in 1 .. Len(toClient') : i \in 1 .. Len(toClient) \/ i = Len(toClient) + 1
    BY <2>2
  <2>4. AnswersAscend'
    <3> SUFFICES ASSUME NEW i \in 1 .. Len(toClient')
                 PROVE  /\ toClient'[i].id <= nreq
                        /\ ~IsBall(toClient'[i]) =>
                             /\ last < toClient'[i].id
                             /\ \A j \in 1 .. i - 1 : toClient'[j].id < toClient'[i].id
      BY DEF AnswersAscend, IsBall
    <3>1. CASE i \in 1 .. Len(toClient)
      <4>1. \A j \in 1 .. i - 1 : toClient'[j] = toClient[j]
        BY <2>2, <3>1
      <4> QED BY <1>1, <2>2, <3>1, <4>1 DEF AnswersAscend
    <3>2. CASE i = Len(toClient) + 1
      <4>1. \A j \in 1 .. i - 1 : j \in 1 .. Len(toClient) /\ toClient'[j] = toClient[j]
        BY <2>2, <3>2
      <4>2. toClient'[i] = m
        BY <2>2, <3>2
      <4>3. CASE IsBall(m)
        BY <1>t, <4>2, <4>3
      <4>4. CASE ~IsBall(m)
        BY <1>1, <4>1, <4>2, <4>4 DEF CommandNext
      <4> QED BY <4>3, <4>4
    <3> QED BY <2>3, <3>1, <3>2
  <2>5. CommandsAscend'
    <3> SUFFICES ASSUME NEW k \in 1 .. Len(toEngine), toEngine[k].t = "OX_COMMAND"
                 PROVE  /\ last < toEngine[k].id /\ toEngine[k].id <= nreq
                        /\ \A i \in 1 .. Len(toClient') : toClient'[i].id < toEngine[k].id
                        /\ \A j \in 1 .. k - 1 : toEngine[j].t = "OX_COMMAND" => toEngine[j].id < toEngine[k].id
      BY DEF CommandsAscend
    <3>1. /\ last < toEngine[k].id /\ toEngine[k].id <= nreq
          /\ \A i \in 1 .. Len(toClient) : toClient[i].id < toEngine[k].id
          /\ pc = "dispatch" => cmd.id < toEngine[k].id
          /\ \A j \in 1 .. k - 1 : toEngine[j].t = "OX_COMMAND" => toEngine[j].id < toEngine[k].id
      BY <1>1 DEF CommandsAscend
    <3>2. toEngine[k].id \in Nat
      <4>1. toEngine[k] \in Message
        BY DEF TypeOK, ChannelsTypeOK
      <4> QED BY <4>1 DEF Message
    <3>3. m.id < toEngine[k].id
      BY <1>t, <3>1, <3>2
    <3> QED BY <2>2, <2>3, <3>1, <3>3
  <2>6. Closed' /\ CommandNext'
    BY <1>1, <1>3 DEF Closed, CommandNext
  <2>7. OrderInvariant' <=> Closed' /\ AnswersAscend' /\ CommandNext' /\ CommandsAscend'
    BY OrderParts, PTL
  <2> QED BY <2>4, <2>5, <2>6, <2>7
<1> QED BY <1>2, <1>3

LEMMA OrderEngine ==
  ASSUME TypeOK, OrderInvariant, EngineNext, UNCHANGED <<cs, clientVars>>
  PROVE  OrderInvariant'
<1> USE DEF Runs, Goto, Write, engineVars, channelVars
<1>t. /\ toClient \in Seq(Message) /\ toEngine \in Seq(Message)
      /\ UNCHANGED <<base, nreq, last>>
  BY DEF TypeOK, ChannelsTypeOK, clientVars
<1>1. CASE StartServer \/ InstallAtChildEnv \/ IgnoreForTest \/ InstallAfterTest \/ AfterJump
  BY <1>t, <1>1, OrderTakes DEF StartServer, InstallAtChildEnv, IgnoreForTest, InstallAfterTest, AfterJump
<1>2. CASE ClearFlag \/ EndHandshake \/ PassFlagTest \/ LeaveCritical \/ Select
  BY <1>t, <1>2, OrderTakes DEF ClearFlag, EndHandshake, PassFlagTest, LeaveCritical, Select
<1>3. CASE Execute \/ ExecuteReturns \/ ExecuteJumps \/ InstallAfterExecute \/ OtherCommand
  BY <1>t, <1>3, OrderTakes DEF Execute, ExecuteReturns, ExecuteJumps, InstallAfterExecute, OtherCommand
<1>4. CASE Shutdown \/ Deliver
  BY <1>t, <1>4, OrderTakes DEF Shutdown, Deliver, KilledBySignal, controlResetHandler
<1>5. CASE WaitSyncBall \/ ReadHeader
  BY <1>t, <1>5, OrderTakes DEF WaitSyncBall, ReadHeader
<1>6. CASE BeginHandshake
  <2>1. PICK n \in 0 .. Len(toEngine) : toEngine' = SubSeq(toEngine, n + 1, Len(toEngine))
    BY <1>6 DEF BeginHandshake, ClearReadBuf
  <2>2. 0 \in 0 .. Len(toClient) /\ toClient' = SubSeq(toClient, 0 + 1, Len(toClient))
    BY <1>t, <1>6, PartsOfStream DEF BeginHandshake
  <2> QED BY <1>t, <1>6, <2>1, <2>2, OrderLoses DEF BeginHandshake
<1>7. CASE ReadBody
  BY <1>7, OrderReadBody
<1>8. CASE ThrowSyncBall
  <2>1. SyncBall \in Message /\ IsBall(SyncBall) /\ SyncBall.id = 0
    BY MessageTypes DEF SyncBall, IsBall
  <2> QED BY <1>t, <1>8, <2>1, OrderAppends DEF ThrowSyncBall
<1>9. CASE SendReplyHeader
  <2>1. cmd.id \in Nat
    BY DEF TypeOK, EngineTypeOK, Message
  <2>2. PICK n \in BodyBytes : Write(Append(toClient, [Data(cmd.id, n) EXCEPT !.whole = FALSE]))
    BY <1>9 DEF SendReplyHeader
  <2> DEFINE m == [Data(cmd.id, n) EXCEPT !.whole = FALSE]
  <2>3. m \in Message /\ ~IsBall(m) /\ m.id = cmd.id
    BY <2>1, MessageTypes DEF IsBall, Data
  <2>4. toClient' = IF connected THEN Append(toClient, m) ELSE toClient
    BY <2>2
  <2> HIDE DEF m
  <2>5. pc = "dispatch" /\ pc' # "dispatch" /\ UNCHANGED <<toEngine, connected>>
    BY <1>9 DEF SendReplyHeader
  <2> QED BY <1>t, <2>3, <2>4, <2>5, OrderAppends
<1>10. CASE SendReplyBody
  <2>1. /\ Len(toClient') = Len(toClient)
        /\ \A i \in 1 .. Len(toClient) : toClient'[i].t = toClient[i].t /\ toClient'[i].id = toClient[i].id
    BY <1>10, <1>t, BodyOfLast DEF SendReplyBody
  <2>2. UNCHANGED <<toEngine, connected>> /\ pc' # "dispatch" /\ pc # "dispatch"
    BY <1>10 DEF SendReplyBody
  <2>3. Closed /\ AnswersAscend /\ CommandNext /\ CommandsAscend
    BY OrderParts
  <2>4. Closed' /\ CommandNext'
    BY <1>10, <1>t, <2>2, <2>3 DEF SendReplyBody, Closed, CommandNext
  <2>5. AnswersAscend'
    <3> SUFFICES ASSUME NEW i \in 1 .. Len(toClient)
                 PROVE  /\ toClient'[i].id <= nreq
                        /\ ~IsBall(toClient'[i]) =>
                             /\ last < toClient'[i].id
                             /\ \A j \in 1 .. i - 1 : toClient'[j].id < toClient'[i].id
      BY <1>t, <2>1 DEF AnswersAscend, IsBall
    <3>1. \A j \in 1 .. i - 1 : j \in 1 .. Len(toClient)
      BY <1>t
    <3> QED BY <2>1, <2>3, <3>1 DEF AnswersAscend, IsBall
  <2>6. CommandsAscend'
    BY <1>t, <2>1, <2>2, <2>3 DEF CommandsAscend
  <2>7. OrderInvariant' <=> Closed' /\ AnswersAscend' /\ CommandNext' /\ CommandsAscend'
    BY OrderParts, PTL
  <2> QED BY <2>4, <2>5, <2>6, <2>7
<1> QED
  BY <1>1, <1>2, <1>3, <1>4, <1>5, <1>6, <1>7, <1>8, <1>9, <1>10
  DEF EngineNext, EngineStep, Handshake, Loop, Dispatch

\* The client makes a request: its number is beyond every number under way.
LEMMA OrderRequest ==
  ASSUME TypeOK, OrderInvariant, NEW ms \in Seq(Message), Send(ms),
         \A i \in 1 .. Len(ms) : ms[i].t = "OX_COMMAND" => i = Len(ms) /\ ms[i].id = nreq + 1,
         UNCHANGED <<pc, cmd>>
  PROVE  OrderInvariant'
<1>t. /\ toClient \in Seq(Message) /\ toEngine \in Seq(Message)
      /\ nreq \in Nat /\ last \in Nat /\ base \in Nat
  BY DEF TypeOK, ChannelsTypeOK, ClientTypeOK
<1>m. /\ \A i \in 1 .. Len(toClient) : toClient[i].id \in Nat
      /\ \A i \in 1 .. Len(toEngine) : toEngine[i].id \in Nat
      /\ cmd.id \in Nat
  <2>1. /\ \A i \in 1 .. Len(toClient) : toClient[i] \in Message
        /\ \A i \in 1 .. Len(toEngine) : toEngine[i] \in Message
    BY <1>t
  <2>2. cmd \in Message
    BY DEF TypeOK, EngineTypeOK
  <2> QED BY <2>1, <2>2 DEF Message
<1>u. /\ toEngine' = toEngine \o ms /\ nreq' = nreq + 1
      /\ UNCHANGED <<toClient, connected, base, last, pc, cmd>>
  BY DEF Send
<1>1. Closed /\ AnswersAscend /\ CommandNext /\ CommandsAscend
  BY OrderParts
<1>2. Closed' /\ AnswersAscend' /\ CommandNext'
  <2>1. Closed'
    BY <1>t, <1>u, <1>1 DEF Closed
  <2>2. AnswersAscend'
    BY <1>t, <1>m, <1>u, <1>1 DEF AnswersAscend, IsBall
  <2>3. CommandNext'
    BY <1>t, <1>m, <1>u, <1>1 DEF CommandNext
  <2> QED BY <2>1, <2>2, <2>3
<1>3. /\ last < nreq + 1
      /\ \A i \in 1 .. Len(toClient) : toClient[i].id < nreq + 1
      /\ pc = "dispatch" => cmd.id < nreq + 1
      /\ \A k \in 1 .. Len(toEngine) : toEngine[k].t = "OX_COMMAND" => toEngine[k].id < nreq + 1
  <2>0. \A x \in Nat : x <= nreq => x < nreq + 1
    BY <1>t
  <2>1. last < nreq + 1
    BY <1>t, <1>1, <2>0 DEF Closed
  <2>2. \A i \in 1 .. Len(toClient) : toClient[i].id < nreq + 1
    BY <1>m, <1>1, <2>0 DEF AnswersAscend
  <2>3. pc = "dispatch" => cmd.id < nreq + 1
    BY <1>m, <1>1, <2>0 DEF CommandNext
  <2>4. \A k \in 1 .. Len(toEngine) : toEngine[k].t = "OX_COMMAND" => toEngine[k].id < nreq + 1
    BY <1>m, <1>1, <2>0 DEF CommandsAscend
  <2> QED BY <2>1, <2>2, <2>3, <2>4
<1>4. /\ Len(toEngine) \in Nat /\ Len(ms) \in Nat /\ Len(toEngine') = Len(toEngine) + Len(ms)
      /\ \A k \in 1 .. Len(toEngine) : toEngine'[k] = toEngine[k]
      /\ \A k \in Len(toEngine) + 1 .. Len(toEngine) + Len(ms) :
            k - Len(toEngine) \in 1 .. Len(ms) /\ toEngine'[k] = ms[k - Len(toEngine)]
  BY <1>t, <1>u, JoinStreams
<1>5. CommandsAscend'
  <2> SUFFICES ASSUME NEW k \in 1 .. Len(toEngine'), toEngine'[k].t = "OX_COMMAND"
               PROVE  /\ last < toEngine'[k].id /\ toEngine'[k].id <= nreq + 1
                      /\ \A i \in 1 .. Len(toClient) : toClient[i].id < toEngine'[k].id
                      /\ pc = "dispatch" => cmd.id < toEngine'[k].id
                      /\ \A j \in 1 .. k - 1 : toEngine'[j].t = "OX_COMMAND" => toEngine'[j].id < toEngine'[k].id
    BY <1>u DEF CommandsAscend
  <2>1. CASE k <= Len(toEngine)
    <3>1. k \in 1 .. Len(toEngine)
      BY <1>4, <2>1
    <3>2. \A j \in 1 .. k - 1 : j \in 1 .. Len(toEngine)
      BY <1>4, <3>1
    <3>3. toEngine'[k] = toEngine[k] /\ \A j \in 1 .. k - 1 : toEngine'[j] = toEngine[j]
      BY <1>4, <3>1, <3>2
    <3>4. toEngine[k].id \in Nat
      BY <1>m, <3>1
    <3>5. /\ last < toEngine[k].id /\ toEngine[k].id <= nreq
          /\ \A i \in 1 .. Len(toClient) : toClient[i].id < toEngine[k].id
          /\ pc = "dispatch" => cmd.id < toEngine[k].id
          /\ \A j \in 1 .. k - 1 : toEngine[j].t = "OX_COMMAND" => toEngine[j].id < toEngine[k].id
      BY <1>1, <3>1, <3>3 DEF CommandsAscend
    <3>6. toEngine[k].id <= nreq + 1
      BY <1>t, <3>4, <3>5
    <3> QED BY <3>3, <3>5, <3>6
  <2>2. CASE k > Len(toEngine)
    <3>1. k \in Len(toEngine) + 1 .. Len(toEngine) + Len(ms)
      BY <1>4, <2>2
    <3>2. /\ k - Len(toEngine) = Len(ms) /\ toEngine'[k].id = nreq + 1
      BY <1>4, <3>1
    <3>3. \A j \in 1 .. k - 1 : toEngine'[j].t = "OX_COMMAND" => toEngine'[j].id < nreq + 1
      <4> TAKE j \in 1 .. k - 1
      <4>1. CASE j \in 1 .. Len(toEngine)
        BY <1>3, <1>4, <4>1
      <4>2. CASE j > Len(toEngine)
        <5>1. j \in Len(toEngine) + 1 .. Len(toEngine) + Len(ms) /\ j - Len(toEngine) # Len(ms)
          BY <1>4, <3>1, <3>2, <4>2
        <5> QED BY <1>4, <5>1
      <4> QED BY <1>4, <3>1, <4>1, <4>2
    <3> QED BY <1>t, <1>3, <3>2, <3>3
  <2> QED BY <1>4, <2>1, <2>2
<1> QED
  <2>1. OrderInvariant' <=> Closed' /\ AnswersAscend' /\ CommandNext' /\ CommandsAscend'
    BY OrderParts, PTL
  <2> QED BY <1>2, <1>5, <2>1

\* The client takes the answer at the head of its stream.
LEMMA OrderTakesAnswer ==
  ASSUME TypeOK, OrderInvariant, toClient # <<>>, ~IsBall(Head(toClient)),
         toClient' = Tail(toClient), last' = Head(toClient).id,
         UNCHANGED <<toEngine, base, nreq, connected, pc, cmd>>
  PROVE  OrderInvariant'
<1>t. toClient \in Seq(Message) /\ connected \in BOOLEAN
  BY DEF TypeOK, ChannelsTypeOK
<1>1. Closed /\ AnswersAscend /\ CommandNext /\ CommandsAscend
  BY OrderParts
<1>2. /\ Len(toClient) \in Nat /\ Len(toClient) >= 1 /\ Len(toClient') = Len(toClient) - 1
      /\ last' = toClient[1].id /\ ~IsBall(toClient[1])
      /\ \A i \in 1 .. Len(toClient') : i + 1 \in 2 .. Len(toClient) /\ toClient'[i] = toClient[i + 1]
  BY <1>t, TailOfStream
<1>3. Closed'
  BY <1>1, <1>2 DEF Closed, AnswersAscend
<1>4. AnswersAscend'
  <2> SUFFICES ASSUME NEW i \in 1 .. Len(toClient')
               PROVE  /\ toClient'[i].id <= nreq
                      /\ ~IsBall(toClient'[i]) =>
                           /\ last' < toClient'[i].id
                           /\ \A j \in 1 .. i - 1 : toClient'[j].id < toClient'[i].id
    BY DEF AnswersAscend, IsBall
  <2>1. i + 1 \in 2 .. Len(toClient) /\ toClient'[i] = toClient[i + 1] /\ 1 \in 1 .. (i + 1) - 1
    BY <1>2
  <2>2. \A j \in 1 .. i - 1 : j + 1 \in 1 .. (i + 1) - 1 /\ toClient'[j] = toClient[j + 1]
    <3> TAKE j \in 1 .. i - 1
    <3>1. j \in 1 .. Len(toClient')
      BY <1>2
    <3> QED BY <1>2, <3>1
  <2>3. /\ toClient[i + 1].id <= nreq
        /\ ~IsBall(toClient[i + 1]) => \A j \in 1 .. (i + 1) - 1 : toClient[j].id < toClient[i + 1].id
    BY <1>1, <1>2, <2>1 DEF AnswersAscend
  <2> QED BY <1>2, <2>1, <2>2, <2>3
<1>5. CommandNext' /\ CommandsAscend'
  <2>1. 1 \in 1 .. Len(toClient)
    BY <1>2
  <2>2. CommandNext'
    BY <1>1, <1>2, <2>1 DEF CommandNext
  <2>3. CommandsAscend'
    BY <1>1, <1>2, <2>1 DEF CommandsAscend
  <2> QED BY <2>2, <2>3
<1> QED
  <2>1. OrderInvariant' <=> Closed' /\ AnswersAscend' /\ CommandNext' /\ CommandsAscend'
    BY OrderParts, PTL
  <2> QED BY <1>3, <1>4, <1>5, <2>1

\* The client completes a reset: it takes the first n messages of its stream and
\* answers with a ball.
LEMMA OrderCompletes ==
  ASSUME TypeOK, OrderInvariant, connected,
         toClient' = <<>> \/ (toClient # <<>> /\ toClient' = Tail(toClient)),
         toEngine' = Append(toEngine, SyncBall), base' = nreq,
         UNCHANGED <<connected, nreq, last, pc, cmd>>
  PROVE  OrderInvariant'
<1>t. toClient \in Seq(Message) /\ toEngine \in Seq(Message) /\ nreq \in Nat
  BY DEF TypeOK, ChannelsTypeOK, ClientTypeOK
<1>1. Closed /\ AnswersAscend /\ CommandNext /\ CommandsAscend
  BY OrderParts
<1>2. PICK b \in 0 .. 1 :
        /\ \A i \in 1 .. Len(toClient') : b + i \in 1 .. Len(toClient) /\ toClient'[i] = toClient[b + i]
        /\ Len(toClient') \in Nat
  <2>1. CASE toClient' = <<>>
    BY <2>1
  <2>2. CASE toClient # <<>> /\ toClient' = Tail(toClient)
    <3>1. \A i \in 1 .. Len(toClient') : 1 + i \in 1 .. Len(toClient) /\ toClient'[i] = toClient[1 + i]
      BY <1>t, <2>2, TailOfStream
    <3>2. Len(toClient') \in Nat
      BY <1>t, <2>2, TailOfStream
    <3> QED BY <3>1, <3>2
  <2> QED BY <2>1, <2>2
<1>3. /\ Len(toEngine) \in Nat /\ Len(toEngine') = Len(toEngine) + 1
      /\ toEngine'[Len(toEngine) + 1] = SyncBall
      /\ \A i \in 1 .. Len(toEngine) : toEngine'[i] = toEngine[i]
  BY <1>t, MessageTypes, AppendToStream
<1>4. Closed'
  BY <1>t, <1>1 DEF Closed
<1>5. AnswersAscend'
  <2> SUFFICES ASSUME NEW i \in 1 .. Len(toClient')
               PROVE  /\ toClient'[i].id <= nreq
                      /\ ~IsBall(toClient'[i]) =>
                           /\ last < toClient'[i].id
                           /\ \A j \in 1 .. i - 1 : toClient'[j].id < toClient'[i].id
    BY DEF AnswersAscend, IsBall
  <2>1. b + i \in 1 .. Len(toClient) /\ toClient'[i] = toClient[b + i]
    BY <1>2
  <2>2. \A j \in 1 .. i - 1 : b + j \in 1 .. (b + i) - 1 /\ toClient'[j] = toClient[b + j]
    <3> TAKE j \in 1 .. i - 1
    <3>1. j \in 1 .. Len(toClient')
      BY <1>2
    <3>2. toClient'[j] = toClient[b + j]
      BY <1>2, <3>1
    <3> QED BY <3>2
  <2>3. /\ toClient[b + i].id <= nreq
        /\ ~IsBall(toClient[b + i]) =>
              /\ last < toClient[b + i].id
              /\ \A j \in 1 .. (b + i) - 1 : toClient[j].id < toClient[b + i].id
    BY <1>1, <2>1 DEF AnswersAscend
  <2> QED BY <2>1, <2>2, <2>3
<1>6. CommandNext'
  BY <1>1, <1>2 DEF CommandNext
<1>7. CommandsAscend'
  <2> SUFFICES ASSUME NEW k \in 1 .. Len(toEngine'), toEngine'[k].t = "OX_COMMAND"
               PROVE  /\ last < toEngine'[k].id /\ toEngine'[k].id <= nreq
                      /\ \A i \in 1 .. Len(toClient') : toClient'[i].id < toEngine'[k].id
                      /\ pc = "dispatch" => cmd.id < toEngine'[k].id
                      /\ \A j \in 1 .. k - 1 : toEngine'[j].t = "OX_COMMAND" => toEngine'[j].id < toEngine'[k].id
    BY DEF CommandsAscend
  <2>1. k \in 1 .. Len(toEngine)
    BY <1>3 DEF SyncBall
  <2>2. toEngine'[k] = toEngine[k] /\ \A j \in 1 .. k - 1 : toEngine'[j] = toEngine[j]
    BY <1>3, <2>1
  <2>3. /\ last < toEngine[k].id /\ toEngine[k].id <= nreq
        /\ \A i \in 1 .. Len(toClient) : toClient[i].id < toEngine[k].id
        /\ pc = "dispatch" => cmd.id < toEngine[k].id
        /\ \A j \in 1 .. k - 1 : toEngine[j].t = "OX_COMMAND" => toEngine[j].id < toEngine[k].id
    BY <1>1, <2>1, <2>2 DEF CommandsAscend
  <2> QED BY <1>2, <2>2, <2>3
<1> QED
  <2>1. OrderInvariant' <=> Closed' /\ AnswersAscend' /\ CommandNext' /\ CommandsAscend'
    BY OrderParts, PTL
  <2> QED BY <1>4, <1>5, <1>6, <1>7, <2>1

LEMMA OrderClient ==
  ASSUME TypeOK, OrderInvariant, ClientMoves
  PROVE  OrderInvariant'
<1>u. UNCHANGED <<pc, cmd>>
  BY DEF ClientMoves, engineVars
<1>t. toClient \in Seq(Message) /\ toEngine \in Seq(Message)
  BY DEF TypeOK, ChannelsTypeOK
<1>1. CASE RequestCommand \/ RequestExecution \/ PushCMO \/ PushCMD
  BY <1>u, <1>1, RequestShape, OrderRequest
<1>2. CASE SendSyncBall
  <2> DEFINE ms == <<SyncBall>>
  <2>1. Send(ms)
    BY <1>2 DEF SendSyncBall
  <2>2. ms \in Seq(Message) /\ Len(ms) = 1 /\ ms[1] = SyncBall
    BY MessageTypes
  <2> HIDE DEF ms
  <2>3. \A i \in 1 .. Len(ms) : ms[i].t # "OX_COMMAND"
    BY <2>2 DEF SyncBall
  <2> QED BY <1>u, <2>1, <2>2, <2>3, OrderRequest
<1>3. CASE ResetConnection \/ KillServer
  BY <1>u, <1>3, OrderTakes DEF ResetConnection, KillServer
<1>4. CASE CloseClient
  <2>1. toClient' = <<>> /\ UNCHANGED <<toEngine, base, nreq, last>>
    BY <1>4 DEF CloseClient, clientVars
  <2>2. Len(toClient) \in 0 .. Len(toClient) /\ toClient' = SubSeq(toClient, Len(toClient) + 1, Len(toClient))
    BY <1>t, <2>1
  <2>3. 0 \in 0 .. Len(toEngine) /\ toEngine' = SubSeq(toEngine, 0 + 1, Len(toEngine))
    BY <1>t, <2>1, PartsOfStream
  <2> QED BY <1>u, <2>1, <2>2, <2>3, OrderLoses
<1>5. CASE GetStrayBall \/ GetGarbage \/ GetDiscard
  BY <1>u, <1>5, OrderTakes DEF GetStrayBall, GetGarbage, GetDiscard, Arrived, clientVars
<1>6. CASE GetData
  <2>1. /\ toClient # <<>> /\ toClient' = Tail(toClient)
        /\ UNCHANGED <<toEngine, base, nreq, connected>>
    BY <1>6 DEF GetData, Arrived
  <2>2. CASE last' = Head(toClient).id
    BY <1>u, <1>6, <2>1, <2>2, OrderTakesAnswer DEF GetData, IsBall
  <2>3. CASE last' = last
    BY <1>u, <2>1, <2>3, OrderTakes
  <2> QED BY <1>6, <2>2, <2>3 DEF GetData
<1>7. CASE GetSyncBall
  BY <1>u, <1>7, OrderCompletes DEF GetSyncBall, Arrived
<1> QED
  BY <1>1, <1>2, <1>3, <1>4, <1>5, <1>6, <1>7 DEF ClientMoves, ClientNext, ClientRequest, ClientGet

\* OrderInvariant is inductive with the type invariant.
LEMMA OrderStep ==
  ASSUME TypeOK, OrderInvariant, [Next]_vars
  PROVE  OrderInvariant'
<1>1. CASE EngineMoves
  BY <1>1, OrderEngine DEF EngineMoves
<1>2. CASE ControlServerMoves
  BY <1>2, OrderTakes DEF ControlServerMoves, ControlServerNext, ForwardReset, ReadKill,
     myServerExit, channelVars, engineVars, clientVars
<1>3. CASE ClientMoves
  BY <1>3, OrderClient
<1>4. CASE GetEndOfStream
  BY <1>4, OrderCompletes DEF GetEndOfStream, engineVars
<1>5. CASE UNCHANGED vars
  BY <1>5, OrderTakes DEF vars, channelVars, engineVars, clientVars
<1> QED
  BY <1>1, <1>2, <1>3, <1>4, <1>5 DEF Next

(***************************************************************************)
(* The answers under way, the command in work and the commands under way   *)
(* are always one ascending line behind the answer last taken.             *)
(***************************************************************************)
THEOREM RequestsInOrder == Spec => []OrderInvariant
<1>1. Init => OrderInvariant
  BY DEF Init, ChannelsInit, EngineInit, ClientInit, OrderInvariant, IsBall
<1>2. TypeOK /\ OrderInvariant /\ [Next]_vars => OrderInvariant'
  BY OrderStep
<1> QED
  BY <1>1, <1>2, TypeCorrect, PTL DEF Spec

----------------------------------------------------------------------------
(***************************************************************************)
(* What a reset promises, for a user who sends no ball of his own.         *)
(***************************************************************************)

LEMMA BallStep ==
  ASSUME ~UserBall, TypeOK, CriticalOK, OrderInvariant, BallInvariant, [Next]_vars
  PROVE  BallInvariant'
<1>c. Closed
  BY OrderParts
<1>1. CASE EngineMoves
  BY <1>c, <1>1, BallEngine DEF EngineMoves
<1>2. CASE ControlServerMoves
  BY <1>2, BallControlServer
<1>3. CASE ClientMoves
  BY <1>c, <1>3, BallClient
<1>4. CASE GetEndOfStream
  BY <1>4 DEF GetEndOfStream, BallInvariant, ServerGone
<1>5. CASE UNCHANGED vars
  BY <1>5, BallFrame DEF vars, channelVars, engineVars, clientVars
<1> QED
  BY <1>1, <1>2, <1>3, <1>4, <1>5 DEF Next

\* The inductive invariant of the reset protocol.
ResetInvariant == TypeOK /\ CriticalOK /\ OrderInvariant /\ BallInvariant

LEMMA ResetInvariantHolds == ASSUME ~UserBall PROVE Spec => []ResetInvariant
<1>1. Init => CriticalOK /\ BallInvariant
  BY DEF Init, ChannelsInit, EngineInit, CriticalOK, InMessage, BallInvariant, NoBallUnderWay, Fresh
<1>2. TypeOK /\ OrderInvariant /\ CriticalOK /\ BallInvariant /\ [Next]_vars => CriticalOK' /\ BallInvariant'
  BY CriticalStep, BallStep
<1>3. Spec => [](CriticalOK /\ BallInvariant)
  BY <1>1, <1>2, TypeCorrect, RequestsInOrder, PTL DEF Spec
<1> QED
  BY <1>3, TypeCorrect, RequestsInOrder, PTL DEF ResetInvariant

(***************************************************************************)
(* A ball is under way only while the engine waits for one, never in both  *)
(* directions, and nothing older than the last reset outlives it.          *)
(***************************************************************************)
THEOREM BallsInOrder == ASSUME ~UserBall PROVE Spec => []BallInvariant
BY ResetInvariantHolds, PTL DEF ResetInvariant

\* The answer the client takes is to a request after the last reset and after the
\* last answer.
LEMMA AnswerTaken ==
  ASSUME ResetInvariant, GetData, last' # last
  PROVE  last' \in Nat /\ last' > base /\ last' > last /\ last' <= nreq
<1>1. /\ toClient \in Seq(Message) /\ toClient # <<>> /\ ~IsBall(Head(toClient))
      /\ last' = Head(toClient).id
  BY DEF ResetInvariant, TypeOK, ChannelsTypeOK, GetData, Arrived, IsBall
<1>2. /\ 1 \in 1 .. Len(toClient) /\ Head(toClient) = toClient[1] /\ Head(toClient) \in Message
  BY <1>1, TailOfStream
<1>3. last' \in Nat /\ last \in Nat /\ base \in Nat
  BY <1>1, <1>2 DEF Message, ResetInvariant, TypeOK, ClientTypeOK
<1>4. last' > last /\ last' <= nreq
  BY <1>1, <1>2, <1>3, OrderParts DEF ResetInvariant, AnswersAscend
<1>5. last' > base
  <2>1. CASE NoBallUnderWay
    BY <1>1, <1>2, <1>3, <2>1 DEF NoBallUnderWay, Fresh
  <2>2. CASE BallToClient
    BY <1>1, <1>2, <1>3, <2>2 DEF BallToClient
  <2> QED BY <1>1, <2>1, <2>2 DEF ResetInvariant, BallInvariant, BallToEngine, ServerGone
<1> QED
  BY <1>3, <1>4, <1>5

(***************************************************************************)
(* After a reset the client never takes an answer to a request made before *)
(* it: the refinement maps every step of the session to a step of          *)
(* ResetProtocol or to none.                                               *)
(***************************************************************************)
LEMMA PromiseStep ==
  ASSUME ResetInvariant, [Next]_vars
  PROVE  [Promise!Next]_(Promise!promise) /\ (last' # last => last' > base)
<1> USE DEF Promise!promise
<1>n. nreq \in Nat /\ base \in Nat /\ last \in Nat
  BY DEF ResetInvariant, TypeOK, ClientTypeOK
<1>1. CASE UNCHANGED <<dstate, nreq, base, last>>
  BY <1>1
<1>2. CASE RequestCommand \/ RequestExecution \/ PushCMO \/ PushCMD \/ SendSyncBall
  <2>1. nreq' = nreq + 1 /\ UNCHANGED <<dstate, base, last>>
    BY <1>2 DEF RequestCommand, RequestExecution, PushCMO, PushCMD, SendSyncBall, Send
  <2> QED BY <2>1 DEF Promise!Next, Promise!Ask
<1>3. CASE ResetConnection
  BY <1>3 DEF ResetConnection, Promise!Next, Promise!Reset
<1>4. CASE KillServer
  BY <1>4 DEF KillServer, Promise!Next, Promise!Kill
<1>5. CASE GetData
  <2>1. UNCHANGED <<dstate, nreq, base>> /\ dstate = "DSTATE_ANY"
    BY <1>5 DEF GetData
  <2>2. CASE last' = last
    BY <2>1, <2>2
  <2>3. CASE last' # last
    <3>1. last' \in Nat /\ last' > base /\ last' > last /\ last' <= nreq
      BY <1>5, <2>3, AnswerTaken
    <3>2. last' \in base + 1 .. nreq
      BY <1>n, <3>1
    <3> QED BY <2>1, <3>1, <3>2 DEF Promise!Next, Promise!Answer
  <2> QED BY <2>2, <2>3
<1>6. CASE GetSyncBall \/ GetEndOfStream
  <2>1. /\ dstate = "DSTATE_FIRST_SYNC" /\ dstate' = "DSTATE_ANY" /\ base' = nreq
        /\ UNCHANGED <<nreq, last>>
    BY <1>6 DEF GetSyncBall, GetEndOfStream
  <2> QED BY <2>1 DEF Promise!Next, Promise!CompleteReset
<1>7. CASE EngineMoves \/ ControlServerMoves \/ CloseClient \/ GetStrayBall \/ GetGarbage \/ GetDiscard
  <2>1. UNCHANGED <<dstate, nreq, base, last>>
    BY <1>7 DEF EngineMoves, ControlServerMoves, CloseClient, GetStrayBall, GetGarbage, GetDiscard, clientVars
  <2> QED BY <2>1
<1> QED
  BY <1>1, <1>2, <1>3, <1>4, <1>5, <1>6, <1>7
  DEF Next, vars, clientVars, ClientMoves, ClientNext, ClientRequest, ClientGet

(***************************************************************************)
(* After the handshake of a reset the client never takes an answer to a    *)
(* request made before it.                                                 *)
(***************************************************************************)
THEOREM FreshAnswers == ASSUME ~UserBall PROVE Spec => AnswersAreFresh
<1>1. ResetInvariant /\ [Next]_vars => [last' # last => last' > base]_vars
  BY PromiseStep
<1> QED
  BY <1>1, ResetInvariantHolds, PTL DEF Spec, AnswersAreFresh

(***************************************************************************)
(* The session implements ResetProtocol.                                   *)
(***************************************************************************)
THEOREM PromiseKept == ASSUME ~UserBall PROVE Spec => KeepsPromise
<1>1. Init => Promise!Init
  BY DEF Init, ClientInit, Promise!Init
<1>2. ResetInvariant /\ [Next]_vars => [Promise!Next]_(Promise!promise)
  BY PromiseStep
<1> QED
  BY <1>1, <1>2, ResetInvariantHolds, PTL DEF Spec, KeepsPromise, Promise!Spec

=============================================================================
