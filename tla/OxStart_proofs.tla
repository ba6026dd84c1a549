---------------------------- MODULE OxStart_proofs ----------------------------
(***************************************************************************)
(* Proofs about OxStart, for any number of calls of the client.            *)
(***************************************************************************)
EXTENDS OxStart, TLAPS

StreamsOf(S) == [Channels -> [Descriptors -> Seq(S)]]
SentBy(pass) == {pass, "rest", "order"}

LEMMA Constants == Descriptors \subseteq Nat /\ Conns \subseteq Descriptors /\ 0 \in Descriptors /\ 1 \in Conns
  BY MaxCallsAssumption DEF Descriptors, Conns

LEMMA NobodyQueued == ASSUME NEW b, b = [c \in Channels |-> <<>>] PROVE b \in [Channels -> Seq(Conns)]
<1>1. <<>> \in Seq(Conns)
  OBVIOUS
<1> QED BY <1>1, Zenon

----------------------------------------------------------------------------
(***************************************************************************)
(* Streams of tokens of a set S.                                           *)
(***************************************************************************)
LEMMA StreamChanged ==
  ASSUME NEW S, NEW s \in StreamsOf(S), NEW c \in Channels, NEW k \in Descriptors, NEW x \in Seq(S)
  PROVE  [s EXCEPT ![c][k] = x] \in StreamsOf(S)
  BY DEF StreamsOf

LEMMA StreamSent ==
  ASSUME NEW S, NEW s \in StreamsOf(S), NEW c \in Channels, NEW k \in Descriptors, NEW t \in S
  PROVE  Sent(s, c, k, t) \in StreamsOf(S)
<1>1. s[c][k] \in Seq(S)
  BY DEF StreamsOf
<1>2. Append(s[c][k], t) \in Seq(S)
  BY <1>1
<1> QED BY <1>2, StreamChanged DEF Sent

LEMMA OneTaken ==
  ASSUME NEW S, "rest" \in S, NEW s \in Seq(S)
  PROVE  /\ ByteTaken(s) \in Seq(S) /\ TailOf(s) \in Seq(S)
         /\ \A asked : PassTaken(s, asked) \in Seq(S)
<1>1. CASE s = <<>>
  BY <1>1 DEF ByteTaken, TailOf, PassTaken
<1>2. CASE s # <<>>
  <2>1. Tail(s) \in Seq(S) /\ <<"rest">> \in Seq(S)
    BY <1>2
  <2>2. <<"rest">> \o Tail(s) \in Seq(S)
    BY <2>1
  <2> QED BY <1>2, <2>1, <2>2 DEF ByteTaken, TailOf, PassTaken
<1> QED BY <1>1, <1>2

LEMMA StreamTaken ==
  ASSUME NEW S, "rest" \in S, NEW s \in StreamsOf(S), NEW c \in Channels, NEW k \in Descriptors
  PROVE  /\ [s EXCEPT ![c][k] = ByteTaken(@)] \in StreamsOf(S)
         /\ \A asked : [s EXCEPT ![c][k] = PassTaken(@, asked)] \in StreamsOf(S)
<1>1. s[c][k] \in Seq(S)
  BY DEF StreamsOf
<1>2. ByteTaken(s[c][k]) \in Seq(S) /\ \A asked : PassTaken(s[c][k], asked) \in Seq(S)
  BY <1>1, OneTaken
<1> QED BY <1>2, StreamChanged

LEMMA OfferedIsSent ==
  ASSUME NEW S, NEW s \in StreamsOf(S), NEW c \in Channels, NEW k \in Descriptors, NEW pass,
         Offers(s[c][k], pass)
  PROVE  \E sent \in S : Begins(sent, pass)
<1>1. s[c][k] \in Seq(S) /\ s[c][k] # <<>> /\ Begins(Head(s[c][k]), pass)
  BY DEF StreamsOf, Offers
<1>2. Head(s[c][k]) \in S
  BY <1>1
<1> QED BY <1>1, <1>2

LEMMA OwnIsSent ==
  ASSUME NEW own \in Passwords, NEW asked \in Passwords \ {"none"},
         NEW sent \in SentBy(own), Begins(sent, asked)
  PROVE  Begins(own, asked) /\ (sent = asked => own = asked)
  BY DEF SentBy, Begins, Longer, Passwords

----------------------------------------------------------------------------
(***************************************************************************)
(* The invariant.  Which points of a call belong to which direction, and   *)
(* where the alarm is armed; and for passwords: each side sends only its   *)
(* own, connections have the numbers of past calls, and a connection that  *)
(* the client has closed does not come back.                               *)
(***************************************************************************)
Direction ==
  /\ cpc \in {"acceptControl", "acceptData", "readPassControl", "readPassData"} => reverse
  /\ cpc \in {"connectControl", "connectData", "sendPassControl", "sendPassData"} => ~reverse /\ calls > 0
  /\ cpc \in {"sendPassControl", "sendPassData", "readPassControl", "readPassData"} => clientPass # "none"
  /\ spc \in {"connectControl", "connectData"} => reverse
  /\ spc \in {"openControl", "acceptControl", "openData", "acceptData", "readPassControl",
              "readPassData"} => ~reverse
  /\ spc \in SingleServer => epc = "none"
  /\ spc \in ForkedServer => epc # "none"

AlarmOnlyConnecting == alarm = "armed" => cpc \in Connecting \cup {"null"}

OwnPasswords == toC \in StreamsOf(SentBy(serverPass)) /\ toS \in StreamsOf(SentBy(clientPass))

\* The last call whose data connection has been made.
LastMade == IF cpc \in {"connectControl", "connectData"} THEN calls - 1 ELSE calls

Numbered ==
  ~reverse => srv["data"] \in 0 .. LastMade /\ backlog["data"] \in Seq(0 .. LastMade)

Checked ==
  /\ reverse /\ cpc \in Exchanging \cup {"client"} => clientPass = "none" \/ Begins(serverPass, clientPass)
  /\ ~reverse /\ (spc = "fork" \/ epc # "none") =>
       serverPass \in {"none", clientPass} \/ <<"data", srv["data"]>> \notin opened

Base == StartTypeOK /\ Direction /\ AlarmOnlyConnecting
StartInvariant == Base /\ OwnPasswords /\ Numbered /\ Checked

LEMMA InitInvariant == Init => StartInvariant
<1> SUFFICES ASSUME Init PROVE StartInvariant
  OBVIOUS
<1> USE DEF Init
<1>1. StartTypeOK
  <2>1. toC \in [Channels -> [Descriptors -> Seq(Tokens)]] /\ toS \in [Channels -> [Descriptors -> Seq(Tokens)]]
    OBVIOUS
  <2>2. backlog \in [Channels -> Seq(Conns)] /\ cli \in [Channels -> Descriptors]
        /\ srv \in [Channels -> Descriptors] /\ held \in [Channels -> SUBSET {"ox", "child"}]
    BY Constants
  <2>3. opened \subseteq Channels \X Conns /\ listening \subseteq Channels
    OBVIOUS
  <2>4. calls \in 0 .. MaxCalls
    BY MaxCallsAssumption
  <2>5. reverse \in BOOLEAN /\ serverPass \in Passwords /\ clientPass \in Passwords
    BY DEF Passwords
  <2> QED BY <2>1, <2>2, <2>3, <2>4, <2>5 DEF StartTypeOK, SingleServer
<1>2. Direction /\ AlarmOnlyConnecting /\ Checked
  BY DEF Direction, AlarmOnlyConnecting, Checked, SingleServer, ForkedServer, Exchanging
<1>3. OwnPasswords
  BY DEF OwnPasswords, StreamsOf
<1>4. Numbered
  BY DEF Numbered, Channels, LastMade
<1> QED BY <1>1, <1>2, <1>3, <1>4 DEF StartInvariant, Base

----------------------------------------------------------------------------
(***************************************************************************)
(* Types, directions and the alarm.                                        *)
(***************************************************************************)
LEMMA BaseClient ==
  ASSUME Base, Call \/ ClientStep \/ cancelConnection \/ ClientExits
  PROVE  Base'
<1> USE DEF Base, Direction, AlarmOnlyConnecting, Connecting, Exchanging, options, clientVars,
        socketVars, serverVars
<1>0. /\ StartTypeOK /\ toC \in StreamsOf(Tokens) /\ toS \in StreamsOf(Tokens)
      /\ cli \in [Channels -> Descriptors] /\ opened \subseteq Channels \X Conns /\ "rest" \in Tokens /\ "order" \in Tokens
      /\ "control" \in Channels /\ "data" \in Channels
  BY DEF StartTypeOK, StreamsOf, Tokens, Channels
<1>1. CASE Call
  <2>1. calls' \in 0 .. MaxCalls /\ cli' \in [Channels -> Descriptors]
    BY <1>1, Constants, MaxCallsAssumption DEF Call, StartTypeOK
  <2> QED BY <1>1, <2>1 DEF Call, StartTypeOK
<1>2. ASSUME NEW c \in Channels, Accept(c)
      PROVE  /\ cli' \in [Channels -> Descriptors] /\ opened' \subseteq Channels \X Conns
             /\ listening' \subseteq Channels /\ backlog' \in [Channels -> Seq(Conns)]
  <2>1. CASE backlog[c] # <<>> /\ AcceptFirst(c)
    <3>1. Head(backlog[c]) \in Conns
      BY <2>1 DEF StartTypeOK
    <3>2. backlog' \in [Channels -> Seq(Conns)] /\ listening' \subseteq Channels
      BY <2>1 DEF AcceptFirst, StartTypeOK
    <3>3. \/ cli' = [cli EXCEPT ![c] = Head(backlog[c])] /\ opened' = opened \cup {<<c, Head(backlog[c])>>}
          \/ UNCHANGED <<cli, opened>>
      BY <1>2 DEF Accept
    <3>4. Head(backlog[c]) \in Descriptors /\ <<c, Head(backlog[c])>> \in Channels \X Conns
      BY <3>1, Constants
    <3>5. cli' \in [Channels -> Descriptors]
      BY <1>0, <3>3, <3>4
    <3>6. opened' \subseteq Channels \X Conns
      BY <1>0, <3>3, <3>4
    <3> QED BY <3>2, <3>5, <3>6
  <2>2. CASE UNCHANGED <<cli, opened, socketVars>>
    BY <2>2 DEF StartTypeOK
  <2> QED BY <1>2, <2>1, <2>2 DEF Accept
<1>3. CASE AcceptControl
  BY <1>0, <1>2, <1>3 DEF AcceptControl, StartTypeOK
<1>4. CASE AcceptData
  BY <1>0, <1>2, <1>4 DEF AcceptData, AfterSockets, ReturnsNull, StartTypeOK
<1>5. ASSUME NEW c \in Channels, ConnectTo(c), calls \in Conns
      PROVE  /\ cli' \in [Channels -> Descriptors] /\ opened' \subseteq Channels \X Conns
             /\ listening' \subseteq Channels /\ backlog' \in [Channels -> Seq(Conns)]
  <2>1. CASE c \in listening
    <3>1. Append(backlog[c], calls) \in Seq(Conns)
      BY <1>5 DEF StartTypeOK
    <3>2. backlog' \in [Channels -> Seq(Conns)] /\ listening' \subseteq Channels
      BY <1>5, <2>1, <3>1 DEF ConnectTo, Connect, StartTypeOK
    <3>3. calls \in Descriptors /\ <<c, calls>> \in Channels \X Conns
      BY <1>5, Constants
    <3>4. cli' \in [Channels -> Descriptors]
      BY <1>0, <1>5, <2>1, <3>3 DEF ConnectTo
    <3>5. opened' \subseteq Channels \X Conns
      BY <1>0, <1>5, <2>1, <3>3 DEF ConnectTo
    <3> QED BY <3>2, <3>4, <3>5
  <2>2. CASE c \notin listening
    BY <1>5, <2>2 DEF ConnectTo, StartTypeOK
  <2> QED BY <2>1, <2>2
<1>6. cpc \in {"connectControl", "connectData"} => calls \in Conns
  BY MaxCallsAssumption DEF Conns, StartTypeOK
<1>7. CASE ConnectControl
  BY <1>0, <1>5, <1>6, <1>7 DEF ConnectControl, StartTypeOK
<1>8. CASE ConnectData
  BY <1>0, <1>5, <1>6, <1>8 DEF ConnectData, AfterSockets, ReturnsNull, StartTypeOK
<1>9. ASSUME NEW c \in Channels, NEW pc, NEW next, SendPass(c, pc, next),
             <<pc, next>> \in {<<"sendPassControl", "sendPassData">>, <<"sendPassData", "orderControl">>}
      PROVE  Base'
  <2>1. clientPass \in Tokens
    BY <1>9 DEF SendPass, StartTypeOK, Passwords, Tokens
  <2>2. toS' \in StreamsOf(Tokens)
    BY <1>0, <1>9, <2>1, StreamSent DEF SendPass
  <2> QED BY <1>0, <1>9, <2>2 DEF SendPass, StartTypeOK, StreamsOf
<1>10. ASSUME NEW c \in Channels, NEW pc, NEW next, ReadPass(c, pc, next),
             <<pc, next>> \in {<<"readPassControl", "readPassData">>, <<"readPassData", "orderControl">>}
       PROVE  Base'
  <2>1. toC' \in StreamsOf(Tokens)
    BY <1>0, <1>10, StreamTaken DEF ReadPass
  <2>2. opened' \subseteq Channels \X Conns
    BY <1>10 DEF ReadPass, StartTypeOK
  <2> QED BY <1>0, <1>10, <2>1, <2>2 DEF ReadPass, ReturnsNull, StartTypeOK, StreamsOf
<1>11. ASSUME NEW c \in Channels, NEW pc, NEW next, oxSetByteOrder(c, pc, next),
             <<pc, next>> \in {<<"orderControl", "orderData">>, <<"orderData", "client">>}
       PROVE  Base'
  <2>1. toC' \in StreamsOf(Tokens) /\ toS' \in StreamsOf(Tokens)
    BY <1>0, <1>11, StreamTaken, StreamSent DEF oxSetByteOrder
  <2> QED BY <1>0, <1>11, <2>1 DEF oxSetByteOrder, StartTypeOK, StreamsOf
<1>12. CASE cancelConnection \/ errorKan1
  BY <1>12 DEF cancelConnection, errorKan1, StartTypeOK
<1>13. CASE ClientExits
  <2>1. (backlog' = [k \in Channels |-> <<>>] /\ listening' = {}) \/ UNCHANGED <<backlog, listening>>
    BY <1>13 DEF ClientExits
  <2>2. backlog' \in [Channels -> Seq(Conns)]
    BY <2>1, NobodyQueued DEF StartTypeOK
  <2>3. listening' \subseteq Channels
    BY <2>1 DEF StartTypeOK
  <2> QED BY <1>13, <2>2, <2>3 DEF ClientExits, StartTypeOK
<1> QED BY <1>0, <1>1, <1>3, <1>4, <1>7, <1>8, <1>9, <1>10, <1>11, <1>12, <1>13 DEF ClientStep

LEMMA BaseServer ==
  ASSUME Base, ServerStep \/ ServerGone \/ ForkedStep
  PROVE  Base'
<1> USE DEF Base, Direction, AlarmOnlyConnecting, ForkedServer, options, clientVars, socketVars, serverVars
<1>0. /\ StartTypeOK /\ toC \in StreamsOf(Tokens) /\ toS \in StreamsOf(Tokens)
      /\ srv \in [Channels -> Descriptors] /\ "rest" \in Tokens /\ "order" \in Tokens
      /\ held \in [Channels -> SUBSET {"ox", "child"}]
      /\ backlog \in [Channels -> Seq(Conns)] /\ listening \subseteq Channels
      /\ "control" \in Channels /\ "data" \in Channels
  BY DEF StartTypeOK, StreamsOf, Tokens, Channels
<1>1. CASE FindServer
  BY <1>0, <1>1 DEF FindServer, StartTypeOK, SingleServer
<1>2. ASSUME NEW c \in Channels, NEW pc, NEW next, ServerConnects(c, pc, next),
             <<pc, next>> \in {<<"connectControl", "connectData">>, <<"connectData", "fork">>}
      PROVE  Base'
  <2>1. CASE c \in listening
    <3>1. Append(backlog[c], 1) \in Seq(Conns) /\ 1 \in Descriptors
      BY <1>0, Constants
    <3>2. backlog' \in [Channels -> Seq(Conns)] /\ UNCHANGED listening
      BY <1>0, <1>2, <2>1, <3>1 DEF ServerConnects, Connect
    <3>3. srv' = [srv EXCEPT ![c] = 1] /\ held' = [held EXCEPT ![c] = {"ox"}]
      BY <1>2, <2>1 DEF ServerConnects
    <3>4. srv' \in [Channels -> Descriptors] /\ held' \in [Channels -> SUBSET {"ox", "child"}]
      BY <1>0, <3>1, <3>3
    <3>5. \A d \in Channels : srv'[d] = 0 => held'[d] = {}
      BY <1>0, <3>3 DEF StartTypeOK
    <3>6. toC' = IF serverPass = "none" THEN toC ELSE Sent(toC, c, 1, serverPass)
      BY <1>2, <2>1 DEF ServerConnects
    <3>7. serverPass # "none" => serverPass \in Tokens
      BY DEF StartTypeOK, Passwords, Tokens
    <3>8. toC' \in StreamsOf(Tokens)
      BY <1>0, <3>1, <3>6, <3>7, StreamSent
    <3> QED BY <1>0, <1>2, <3>2, <3>4, <3>5, <3>8 DEF ServerConnects, StartTypeOK, StreamsOf, SingleServer
  <2>2. CASE c \notin listening
    BY <1>0, <1>2, <2>2 DEF ServerConnects, StartTypeOK, SingleServer
  <2> QED BY <2>1, <2>2
<1>3. ASSUME NEW c \in Channels, NEW pc, NEW next, socketOpen(c, pc, next),
             <<pc, next>> \in {<<"openControl", "acceptControl">>, <<"openData", "acceptData">>}
      PROVE  Base'
  BY <1>0, <1>3 DEF socketOpen, StartTypeOK, SingleServer
<1>4. ASSUME NEW c \in Channels, NEW pc, NEW next, socketAccept(c, pc, next),
             <<pc, next>> \in {<<"acceptControl", "openData">>, <<"acceptData", "fork">>,
                              <<"acceptData", "readPassControl">>}
      PROVE  Base'
  <2>1. Head(backlog[c]) \in Conns
    BY <1>0, <1>4 DEF socketAccept
  <2>2. Head(backlog[c]) \in Descriptors /\ Head(backlog[c]) # 0
    BY <2>1 DEF Conns, Descriptors
  <2>3. srv' \in [Channels -> Descriptors] /\ held' \in [Channels -> SUBSET {"ox", "child"}]
    BY <1>0, <1>4, <2>2 DEF socketAccept
  <2>4. \A d \in Channels : srv'[d] = 0 => held'[d] = {}
    BY <1>0, <1>4, <2>2 DEF socketAccept, StartTypeOK
  <2>5. backlog' \in [Channels -> Seq(Conns)] /\ listening' \subseteq Channels
    BY <1>0, <1>4 DEF socketAccept, AcceptFirst
  <2> QED BY <1>0, <1>4, <2>3, <2>4, <2>5 DEF socketAccept, StartTypeOK, SingleServer
<1>5. ASSUME NEW c \in Channels, NEW pc, NEW next, ServerReadsPass(c, pc, next),
             <<pc, next>> \in {<<"readPassControl", "readPassData">>, <<"readPassData", "fork">>}
      PROVE  Base'
  <2>1. toS' \in StreamsOf(Tokens)
    BY <1>0, <1>5, StreamTaken DEF ServerReadsPass
  <2> QED BY <1>0, <1>5, <2>1 DEF ServerReadsPass, StartTypeOK, StreamsOf, SingleServer
<1>6. CASE ServerGone
  <2>1. (backlog' = [k \in Channels |-> <<>>] /\ listening' = {}) \/ UNCHANGED <<backlog, listening>>
    BY <1>6 DEF ServerGone
  <2>2. backlog' \in [Channels -> Seq(Conns)]
    BY <1>0, <2>1, NobodyQueued
  <2>3. listening' \subseteq Channels
    BY <1>0, <2>1
  <2> QED BY <1>0, <1>6, <2>2, <2>3 DEF ServerGone, StartTypeOK, SingleServer
<1>7. CASE Fork
  <2>1. held' \in [Channels -> SUBSET {"ox", "child"}]
    BY <1>0, <1>7 DEF Fork
  <2>2. \A d \in Channels : srv'[d] = 0 => held'[d] = {}
    BY <1>0, <1>7 DEF Fork, StartTypeOK
  <2> QED BY <1>0, <1>7, <2>1, <2>2 DEF Fork, StartTypeOK, SingleServer
<1>8. ASSUME NEW c \in Channels, Told(c)
      PROVE  toC' \in StreamsOf(Tokens)
  BY <1>0, <1>8, StreamSent DEF Told
<1>9. ASSUME NEW c \in Channels, Heard(c)
      PROVE  toS' \in StreamsOf(Tokens)
  BY <1>0, <1>9, StreamTaken DEF Heard
<1>10. CASE ControlTells
  BY <1>0, <1>8, <1>10 DEF ControlTells, StartTypeOK, StreamsOf, SingleServer
<1>11. CASE ControlHears
  BY <1>0, <1>9, <1>11 DEF ControlHears, StartTypeOK, StreamsOf, SingleServer
<1>12. CASE myServerExit
  BY <1>0, <1>12 DEF myServerExit, StartTypeOK, SingleServer
<1>13. CASE Exec
  BY <1>0, <1>13 DEF Exec, StartTypeOK, SingleServer
<1>14. CASE errorToStartEngine
  BY <1>0, <1>14 DEF errorToStartEngine, StartTypeOK, SingleServer
<1>15. CASE EngineTells
  BY <1>0, <1>8, <1>15 DEF EngineTells, StartTypeOK, StreamsOf, SingleServer
<1>16. CASE EngineHears
  BY <1>0, <1>9, <1>16 DEF EngineHears, StartTypeOK, StreamsOf, SingleServer
<1>17. CASE ServerStep
  <2> USE <1>0
  <2>1. CASE ServerConnects("control", "connectControl", "connectData")
             \/ ServerConnects("data", "connectData", "fork")
    BY <1>2, <2>1
  <2>2. CASE socketOpen("control", "openControl", "acceptControl")
             \/ socketOpen("data", "openData", "acceptData")
    BY <1>3, <2>2
  <2>3. CASE socketAccept("control", "acceptControl", "openData")
    BY <1>4, <2>3
  <2>4. CASE socketAccept("data", "acceptData", IF serverPass = "none" THEN "fork" ELSE "readPassControl")
    <3>1. socketAccept("data", "acceptData", "fork") \/ socketAccept("data", "acceptData", "readPassControl")
      BY <2>4
    <3> QED BY <1>4, <3>1
  <2>5. CASE ServerReadsPass("control", "readPassControl", "readPassData")
             \/ ServerReadsPass("data", "readPassData", "fork")
    BY <1>5, <2>5
  <2> QED BY <1>1, <1>6, <1>7, <1>17, <2>1, <2>2, <2>3, <2>4, <2>5 DEF ServerStep, Refuse
<1> QED BY <1>6, <1>10, <1>11, <1>12, <1>13, <1>14, <1>15, <1>16, <1>17 DEF ForkedStep

LEMMA BaseInductive == Base /\ [Next]_vars => Base'
<1>1. ASSUME Base, UNCHANGED vars PROVE Base'
  BY <1>1 DEF Base, StartTypeOK, Direction, AlarmOnlyConnecting, vars, options, clientVars, socketVars,
              serverVars
<1> QED BY <1>1, BaseClient, BaseServer DEF Next

\* Every variable of the start-up keeps its type, for any number of calls: in particular who
\* holds a channel open has one.
THEOREM StartTypeCorrect == Spec => []StartTypeOK
<1>1. Init => Base
  BY InitInvariant DEF StartInvariant
<1>2. Base => StartTypeOK
  BY DEF Base
<1> QED BY <1>1, <1>2, BaseInductive, PTL DEF Spec

\* Whoever gets control back from a call finds no alarm armed: a call that ends with a client
\* takes it back itself, one that ends with NULL has it taken back by the error that its
\* caller makes.  The interval between the two remains, and the invariant names it.
THEOREM AlarmIsSafe == Spec => []AlarmIsTakenBack
<1>1. Init => Base
  BY InitInvariant DEF StartInvariant
<1>2. Base => AlarmIsTakenBack
  BY DEF Base, AlarmOnlyConnecting, AlarmIsTakenBack, Connecting, Exchanging
<1> QED BY <1>1, <1>2, BaseInductive, PTL DEF Spec

----------------------------------------------------------------------------
(***************************************************************************)
(* Passwords.                                                              *)
(***************************************************************************)
LEMMA OwnPasswordsInductive ==
  ASSUME Base, OwnPasswords, [Next]_vars
  PROVE  OwnPasswords'
<1> DEFINE C == SentBy(serverPass)
           S == SentBy(clientPass)
<1> USE DEF options, clientVars, socketVars, serverVars
<1>0. /\ toC \in StreamsOf(C) /\ toS \in StreamsOf(S)
      /\ "rest" \in C /\ "rest" \in S /\ "order" \in C /\ "order" \in S
      /\ serverPass \in C /\ clientPass \in S
      /\ cli \in [Channels -> Descriptors] /\ srv \in [Channels -> Descriptors] /\ 1 \in Descriptors
      /\ "control" \in Channels /\ "data" \in Channels
  BY Constants DEF OwnPasswords, SentBy, Base, StartTypeOK, Channels
<1>1. UNCHANGED <<serverPass, clientPass>>
  BY DEF Next, vars, Call, ClientStep, AcceptControl, AcceptData, ConnectControl, ConnectData, SendPass,
     ReadPass, oxSetByteOrder, errorKan1, cancelConnection, ClientExits,
     ServerStep, FindServer, ServerConnects,
     socketOpen, socketAccept, ServerReadsPass, ServerGone, Refuse, Fork, ForkedStep, ControlTells,
     ControlHears, myServerExit, Exec, errorToStartEngine, EngineTells, EngineHears
<1> SUFFICES toC' \in StreamsOf(C) /\ toS' \in StreamsOf(S)
  BY <1>1 DEF OwnPasswords, SentBy
<1> HIDE DEF C, S
<1>2. CASE UNCHANGED <<toC, toS>>
  BY <1>0, <1>2
<1>3. ASSUME NEW c \in Channels, NEW pc, NEW next, SendPass(c, pc, next)
      PROVE  toC' \in StreamsOf(C) /\ toS' \in StreamsOf(S)
  BY <1>0, <1>3, StreamSent DEF SendPass
<1>4. ASSUME NEW c \in Channels, NEW pc, NEW next, ReadPass(c, pc, next)
      PROVE  toC' \in StreamsOf(C) /\ toS' \in StreamsOf(S)
  BY <1>0, <1>4, StreamTaken DEF ReadPass
<1>5. ASSUME NEW c \in Channels, NEW pc, NEW next, oxSetByteOrder(c, pc, next)
      PROVE  toC' \in StreamsOf(C) /\ toS' \in StreamsOf(S)
  BY <1>0, <1>5, StreamTaken, StreamSent DEF oxSetByteOrder
<1>6. ASSUME NEW c \in Channels, NEW pc, NEW next, ServerConnects(c, pc, next)
      PROVE  toC' \in StreamsOf(C) /\ toS' \in StreamsOf(S)
  <2>1. toC' = toC \/ toC' = Sent(toC, c, 1, serverPass)
    BY <1>6 DEF ServerConnects
  <2>2. UNCHANGED toS
    BY <1>6 DEF ServerConnects
  <2> QED BY <1>0, <2>1, <2>2, StreamSent
<1>7. ASSUME NEW c \in Channels, NEW pc, NEW next, ServerReadsPass(c, pc, next)
      PROVE  toC' \in StreamsOf(C) /\ toS' \in StreamsOf(S)
  BY <1>0, <1>7, StreamTaken DEF ServerReadsPass
<1>8. ASSUME NEW c \in Channels, Told(c)
      PROVE  toC' \in StreamsOf(C)
  BY <1>0, <1>8, StreamSent DEF Told
<1>9. ASSUME NEW c \in Channels, Heard(c)
      PROVE  toS' \in StreamsOf(S)
  BY <1>0, <1>9, StreamTaken DEF Heard
<1>10. CASE ClientStep
  <2>1. CASE AcceptControl \/ AcceptData \/ ConnectControl \/ ConnectData
    BY <1>2, <2>1 DEF AcceptControl, AcceptData, ConnectControl, ConnectData
  <2>2. CASE errorKan1
    BY <1>2, <2>2 DEF errorKan1
  <2> QED BY <1>0, <1>3, <1>4, <1>5, <1>10, <2>1, <2>2 DEF ClientStep
<1>11. CASE ServerStep
  <2>1. CASE FindServer \/ Refuse \/ Fork
    BY <1>2, <2>1 DEF FindServer, Refuse, ServerGone, Fork
  <2>2. ASSUME NEW c, NEW pc, NEW next, socketOpen(c, pc, next) \/ socketAccept(c, pc, next)
        PROVE  UNCHANGED <<toC, toS>>
    BY <2>2 DEF socketOpen, socketAccept
  <2> QED BY <1>0, <1>2, <1>6, <1>7, <1>11, <2>1, <2>2 DEF ServerStep
<1>12. CASE ForkedStep
  <2>1. CASE ControlTells \/ EngineTells
    BY <1>0, <1>8, <2>1 DEF ControlTells, EngineTells
  <2>2. CASE ControlHears \/ EngineHears
    BY <1>0, <1>9, <2>2 DEF ControlHears, EngineHears
  <2>3. CASE myServerExit \/ Exec \/ errorToStartEngine
    BY <1>2, <2>3 DEF myServerExit, Exec, errorToStartEngine
  <2> QED BY <1>12, <2>1, <2>2, <2>3 DEF ForkedStep
<1>13. CASE Call \/ cancelConnection \/ ClientExits \/ ServerGone \/ UNCHANGED vars
  BY <1>2, <1>13 DEF Call, cancelConnection, ClientExits, ServerGone, vars
<1> QED BY <1>10, <1>11, <1>12, <1>13 DEF Next

LEMMA Members ==
  ASSUME NEW S
  PROVE  <<>> \in Seq(S) /\ \A s \in Seq(S) : s # <<>> => Head(s) \in S
  OBVIOUS

LEMMA MoreNumbers ==
  ASSUME NEW m \in Nat, NEW n \in Nat, m <= n
  PROVE  0 .. m \subseteq 0 .. n /\ Seq(0 .. m) \subseteq Seq(0 .. n)
<1>1. 0 .. m \subseteq 0 .. n
  OBVIOUS
<1>2. ASSUME NEW s \in Seq(0 .. m) PROVE s \in Seq(0 .. n)
  BY <1>1
<1> QED BY <1>1, <1>2

LEMMA NumberedInductive ==
  ASSUME Base, Numbered, [Next]_vars
  PROVE  Numbered'
<1> USE DEF options, clientVars, socketVars, serverVars
<1>0. /\ calls \in Nat /\ (cpc \in {"connectControl", "connectData"} => calls > 0)
      /\ LastMade \in Nat /\ LastMade <= calls
      /\ "data" \in Channels /\ "control" \in Channels
      /\ backlog \in [Channels -> Seq(Conns)] /\ srv \in [Channels -> Descriptors]
  BY MaxCallsAssumption DEF Base, Direction, StartTypeOK, LastMade, Channels
<1>1. SUFFICES ASSUME ~reverse, ~reverse'
      PROVE  srv'["data"] \in 0 .. LastMade' /\ backlog'["data"] \in Seq(0 .. LastMade')
  <2>1. reverse' = reverse
    BY DEF Next, vars, Call, ClientStep, AcceptControl, AcceptData, ConnectControl, ConnectData, SendPass,
       ReadPass, oxSetByteOrder, errorKan1, cancelConnection, ClientExits,
     ServerStep, FindServer, ServerConnects,
       socketOpen, socketAccept, ServerReadsPass, ServerGone, Refuse, Fork, ForkedStep, ControlTells,
       ControlHears, myServerExit, Exec, errorToStartEngine, EngineTells, EngineHears
  <2> QED BY <2>1 DEF Numbered
<1>2. srv["data"] \in 0 .. LastMade /\ backlog["data"] \in Seq(0 .. LastMade)
  BY <1>1 DEF Numbered
<1>3. CASE srv' = srv /\ backlog' = backlog /\ LastMade' \in Nat /\ LastMade <= LastMade'
  BY <1>0, <1>2, <1>3, MoreNumbers
<1>4. CASE Call
  <2>1. LastMade' = calls
    BY <1>0, <1>1, <1>4 DEF Call, LastMade
  <2> QED BY <1>0, <1>3, <1>4, <2>1 DEF Call
<1>5. CASE ConnectControl
  <2>1. LastMade' = LastMade /\ srv' = srv
    BY <1>5 DEF ConnectControl, LastMade
  <2>2. backlog'["data"] = backlog["data"]
    BY <1>0, <1>5 DEF ConnectControl, ConnectTo, Connect
  <2> QED BY <1>2, <2>1, <2>2
<1>6. CASE ConnectData
  <2>1. cpc' \notin {"connectControl", "connectData"} /\ UNCHANGED <<calls, srv>>
    BY <1>6 DEF ConnectData, AfterSockets, ReturnsNull
  <2>2. LastMade' = calls
    BY <2>1 DEF LastMade
  <2>3. backlog["data"] \in Seq(0 .. calls) /\ srv["data"] \in 0 .. calls
    BY <1>0, <1>2, MoreNumbers
  <2>4. backlog'["data"] = backlog["data"] \/ backlog'["data"] = Append(backlog["data"], calls)
    BY <1>0, <1>6 DEF ConnectData, ConnectTo, Connect
  <2>5. calls \in 0 .. calls
    BY <1>0
  <2>6. Append(backlog["data"], calls) \in Seq(0 .. calls)
    BY <2>3, <2>5
  <2> QED BY <2>1, <2>2, <2>3, <2>4, <2>6
<1>7. CASE ClientStep /\ ~ConnectControl /\ ~ConnectData
  <2>1. CASE AcceptControl \/ AcceptData
    BY <1>1, <2>1 DEF Base, Direction, AcceptControl, AcceptData
  <2>2. CASE ~AcceptControl /\ ~AcceptData
    <3>1. UNCHANGED <<calls, srv, backlog>>
      BY <1>7, <2>2 DEF ClientStep, SendPass, ReadPass, oxSetByteOrder, errorKan1
    <3>2. cpc \notin {"connectControl", "connectData"} /\ cpc' \notin {"connectControl", "connectData"}
      BY <1>7, <2>2 DEF ClientStep, SendPass, ReadPass, oxSetByteOrder, ReturnsNull, errorKan1
    <3> QED BY <1>2, <3>1, <3>2 DEF LastMade
  <2> QED BY <2>1, <2>2
<1>8. CASE cancelConnection \/ ClientExits
  <2>1. cpc' \notin {"connectControl", "connectData"} /\ UNCHANGED <<calls, srv, backlog>>
    BY <1>1, <1>8 DEF cancelConnection, ClientExits
  <2> QED BY <1>0, <1>3, <2>1 DEF LastMade
<1>9. CASE UNCHANGED <<cpc, calls>> /\ srv' = srv /\ backlog'["data"] \in {<<>>, backlog["data"]}
  <2>1. LastMade' = LastMade
    BY <1>9 DEF LastMade
  <2>2. backlog'["data"] \in Seq(0 .. LastMade)
    BY <1>2, <1>9, Members
  <2> QED BY <1>2, <1>9, <2>1, <2>2
<1>10. ASSUME NEW pc, NEW next, socketAccept("data", pc, next)
       PROVE  srv'["data"] \in 0 .. LastMade' /\ backlog'["data"] \in Seq(0 .. LastMade')
  <2>1. Head(backlog["data"]) \in 0 .. LastMade
    BY <1>2, <1>10, Members DEF socketAccept
  <2>2. srv'["data"] = Head(backlog["data"]) /\ backlog'["data"] = <<>> /\ UNCHANGED <<cpc, calls>>
    BY <1>0, <1>10 DEF socketAccept, AcceptFirst
  <2>3. LastMade' = LastMade /\ <<>> \in Seq(0 .. LastMade)
    BY <2>2, Members DEF LastMade
  <2> QED BY <2>1, <2>2, <2>3
<1>11. ASSUME NEW pc, NEW next, socketAccept("control", pc, next)
       PROVE  srv'["data"] \in 0 .. LastMade' /\ backlog'["data"] \in Seq(0 .. LastMade')
  <2>1. srv'["data"] = srv["data"] /\ backlog'["data"] = backlog["data"] /\ UNCHANGED <<cpc, calls>>
    BY <1>0, <1>11 DEF socketAccept, AcceptFirst
  <2> QED BY <1>2, <2>1 DEF LastMade
<1>12. ASSUME NEW c, NEW pc, NEW next, ServerConnects(c, pc, next), pc \in {"connectControl", "connectData"}
       PROVE  FALSE
  BY <1>1, <1>12 DEF ServerConnects, Base, Direction
<1>13. CASE ServerGone
  BY <1>0, <1>1, <1>9, <1>13 DEF ServerGone
<1>14. CASE ServerStep
  <2>1. CASE FindServer \/ Fork
    BY <1>9, <2>1 DEF FindServer, Fork
  <2>2. ASSUME NEW c, NEW pc, NEW next, socketOpen(c, pc, next) \/ ServerReadsPass(c, pc, next)
        PROVE  UNCHANGED <<cpc, calls, srv, backlog>>
    BY <2>2 DEF socketOpen, ServerReadsPass
  <2> QED BY <1>9, <1>10, <1>11, <1>12, <1>13, <1>14, <2>1, <2>2 DEF ServerStep, Refuse
<1>15. CASE ForkedStep
  BY <1>9, <1>15 DEF ForkedStep, ControlTells, ControlHears, myServerExit, Exec, errorToStartEngine,
     EngineTells, EngineHears
<1>16. CASE UNCHANGED vars
  BY <1>9, <1>16 DEF vars
<1> QED BY <1>4, <1>5, <1>6, <1>7, <1>8, <1>13, <1>14, <1>15, <1>16 DEF Next

LEMMA CheckedInductive ==
  ASSUME Base, OwnPasswords, Numbered, Checked, [Next]_vars
  PROVE  Checked'
<1> USE DEF options, clientVars, socketVars, serverVars
<1>0. /\ "data" \in Channels /\ "control" \in Channels
      /\ toC \in StreamsOf(SentBy(serverPass)) /\ toS \in StreamsOf(SentBy(clientPass))
      /\ cli \in [Channels -> Descriptors] /\ srv \in [Channels -> Descriptors]
      /\ serverPass \in Passwords /\ clientPass \in Passwords
  BY DEF Base, StartTypeOK, OwnPasswords, Channels
<1>1. UNCHANGED <<reverse, serverPass, clientPass>>
  BY DEF Next, vars, Call, ClientStep, AcceptControl, AcceptData, ConnectControl, ConnectData, SendPass,
     ReadPass, oxSetByteOrder, errorKan1, cancelConnection, ClientExits,
     ServerStep, FindServer, ServerConnects,
     socketOpen, socketAccept, ServerReadsPass, ServerGone, Refuse, Fork, ForkedStep, ControlTells,
     ControlHears, myServerExit, Exec, errorToStartEngine, EngineTells, EngineHears
<1>2. (reverse /\ cpc \in Exchanging \cup {"client"} =>
         clientPass = "none" \/ Begins(serverPass, clientPass))'
  <2> SUFFICES ASSUME reverse, cpc' \in Exchanging \cup {"client"}
               PROVE  clientPass = "none" \/ Begins(serverPass, clientPass)
    BY <1>1
  <2>1. CASE UNCHANGED cpc
    BY <2>1 DEF Checked
  <2>2. CASE AcceptData
    BY <2>2 DEF AcceptData, AfterSockets, ReturnsNull, Exchanging
  <2>3. ASSUME NEW c \in Channels, NEW pc, NEW next, ReadPass(c, pc, next), cpc' # "null",
               pc \in {"readPassControl", "readPassData"}
        PROVE  clientPass = "none" \/ Begins(serverPass, clientPass)
    <3>1. Offers(toC[c][cli[c]], clientPass)
      BY <2>3 DEF ReadPass, ReturnsNull
    <3>2. PICK sent \in SentBy(serverPass) : Begins(sent, clientPass)
      BY <1>0, <3>1, OfferedIsSent
    <3>3. clientPass # "none"
      BY <2>3 DEF ReadPass, Base, Direction
    <3> QED BY <1>0, <3>2, <3>3, OwnIsSent
  <2>4. ASSUME NEW c \in Channels, NEW pc, NEW next, oxSetByteOrder(c, pc, next), pc \in Exchanging
        PROVE  clientPass = "none" \/ Begins(serverPass, clientPass)
    BY <2>4 DEF oxSetByteOrder, Checked
  <2>5. ASSUME NEW c \in Channels, NEW pc, NEW next, SendPass(c, pc, next),
               pc \in {"sendPassControl", "sendPassData"}
        PROVE  FALSE
    BY <2>5 DEF SendPass, Base, Direction
  <2>6. CASE ClientStep
    <3>1. CASE ConnectControl \/ ConnectData \/ AcceptControl
      BY <3>1 DEF ConnectControl, ConnectData, AcceptControl, Base, Direction, Exchanging
    <3>2. CASE ReadPass("control", "readPassControl", "readPassData")
               \/ ReadPass("data", "readPassData", "orderControl")
      BY <1>0, <2>3, <3>2 DEF Exchanging
    <3>3. CASE errorKan1
      BY <3>3 DEF errorKan1, Exchanging
    <3> QED BY <1>0, <2>2, <2>4, <2>5, <2>6, <3>1, <3>2, <3>3 DEF ClientStep, Exchanging
  <2>7. CASE Call \/ cancelConnection \/ ClientExits
    BY <2>7 DEF Call, cancelConnection, ClientExits, Exchanging
  <2>8. CASE ServerStep \/ ServerGone \/ ForkedStep \/ UNCHANGED vars
    BY <2>1, <2>8 DEF vars, ServerStep, FindServer, ServerConnects,
     socketOpen, socketAccept, ServerReadsPass, ServerGone, Refuse, Fork, ForkedStep, ControlTells,
     ControlHears, myServerExit, Exec, errorToStartEngine, EngineTells, EngineHears
  <2> QED BY <2>6, <2>7, <2>8 DEF Next
<1>3. (~reverse /\ (spc = "fork" \/ epc # "none") =>
         serverPass \in {"none", clientPass} \/ <<"data", srv["data"]>> \notin opened)'
  <2> SUFFICES ASSUME ~reverse, spc' = "fork" \/ epc' # "none"
               PROVE  serverPass \in {"none", clientPass} \/ <<"data", srv'["data"]>> \notin opened'
    BY <1>1
  <2>1. CASE /\ spc = "fork" \/ epc # "none"
             /\ UNCHANGED srv /\ opened' \subseteq opened
    BY <2>1 DEF Checked
  <2>2. CASE ConnectData
    <3>1. calls # srv["data"] /\ calls \in Nat
      BY <2>2 DEF ConnectData, Numbered, LastMade, Base, StartTypeOK
    <3>2. opened' \subseteq opened \cup {<<"data", calls>>} /\ UNCHANGED <<srv, spc, epc>>
      BY <2>2 DEF ConnectData, ConnectTo
    <3>3. <<"data", srv["data"]>> \in opened' => <<"data", srv["data"]>> \in opened
      BY <3>1, <3>2
    <3> QED BY <3>2, <3>3 DEF Checked
  <2>3. CASE ConnectControl
    <3>1. opened' \subseteq opened \cup {<<"control", calls>>} /\ UNCHANGED <<srv, spc, epc>>
      BY <2>3 DEF ConnectControl, ConnectTo
    <3>2. <<"data", srv["data"]>> \in opened' => <<"data", srv["data"]>> \in opened
      BY <3>1
    <3> QED BY <3>1, <3>2 DEF Checked
  <2>4. CASE (Call \/ ClientStep \/ cancelConnection \/ ClientExits) /\ ~ConnectControl /\ ~ConnectData
    <3>1. ~AcceptControl /\ ~AcceptData
      BY DEF AcceptControl, AcceptData, Base, Direction
    <3>2. UNCHANGED <<srv, spc, epc>> /\ opened' \subseteq opened
      BY <2>4, <3>1 DEF Call, ClientStep, SendPass, ReadPass, oxSetByteOrder, errorKan1, cancelConnection,
         ClientExits
    <3> QED BY <2>1, <3>2
  <2>5. CASE ServerReadsPass("data", "readPassData", "fork")
    <3>1. CASE Matches("data", toS["data"][srv["data"]])
      <4>1. toS["data"][srv["data"]] \in Seq(SentBy(clientPass)) /\ toS["data"][srv["data"]] # <<>>
            /\ Head(toS["data"][srv["data"]]) = serverPass
        BY <1>0, <3>1 DEF Matches, StreamsOf
      <4>2. serverPass \in SentBy(clientPass)
        BY <4>1
      <4> QED BY <1>0, <4>2 DEF SentBy, Passwords
    <3>2. CASE toS["data"][srv["data"]] = <<>>
      <4>1. ~ClientEnds("data", srv["data"])
        BY <2>5, <3>2 DEF ServerReadsPass, ServerCanRead
      <4> QED BY <2>5, <4>1 DEF ServerReadsPass, ClientEnds
    <3>3. CASE spc' = "refusing"
      BY <2>5, <3>3 DEF ServerReadsPass, Base, Direction, SingleServer
    <3> QED BY <2>5, <3>1, <3>2, <3>3 DEF ServerReadsPass
  <2>6. CASE ServerReadsPass("control", "readPassControl", "readPassData")
    BY <2>6 DEF ServerReadsPass, Base, Direction, SingleServer
  <2>7. ASSUME NEW next, socketAccept("data", "acceptData", next),
               next = IF serverPass = "none" THEN "fork" ELSE "readPassControl"
        PROVE  serverPass = "none"
    BY <2>7 DEF socketAccept, Base, Direction, SingleServer
  <2>8. CASE \/ FindServer \/ socketOpen("control", "openControl", "acceptControl")
             \/ socketAccept("control", "acceptControl", "openData")
             \/ socketOpen("data", "openData", "acceptData")
             \/ ServerGone
    BY <2>8 DEF FindServer, socketOpen, socketAccept, ServerGone, Base, Direction, SingleServer
  <2>9. CASE Fork
    BY <2>1, <2>9 DEF Fork
  <2>10. ASSUME NEW c, NEW pc, NEW next, ServerConnects(c, pc, next), pc \in {"connectControl", "connectData"}
         PROVE  FALSE
    BY <2>10 DEF ServerConnects, Base, Direction
  <2>11. CASE ServerStep
    BY <2>5, <2>6, <2>7, <2>8, <2>9, <2>10, <2>11 DEF ServerStep, Refuse
  <2>12. CASE ForkedStep
    <3>1. UNCHANGED <<srv, opened>>
      BY <2>12 DEF ForkedStep, ControlTells, ControlHears, myServerExit, Exec, errorToStartEngine,
         EngineTells, EngineHears
    <3>2. spc \in ForkedServer \/ epc # "none"
      BY <2>12 DEF ForkedStep, ControlTells, ControlHears, myServerExit, Exec, errorToStartEngine,
         EngineTells, EngineHears, ForkedServer
    <3>3. epc # "none"
      BY <3>2 DEF Base, Direction
    <3> QED BY <2>1, <3>1, <3>3
  <2>13. CASE UNCHANGED vars
    BY <2>1, <2>13 DEF vars
  <2> QED BY <2>2, <2>3, <2>4, <2>8, <2>11, <2>12, <2>13 DEF Next
<1> QED BY <1>2, <1>3 DEF Checked

\* Who asks for a password gets no session with a peer that has sent none or one that does not
\* begin with it, however often the client calls, nor does a listening server with one that has
\* sent another: a connection whose password was never sent has been closed by the client and
\* none of its later calls opens it again.
THEOREM WrongPasswordRefused == Spec => []RefusesWrongPassword
<1>1. Init => StartInvariant
  BY InitInvariant
<1>2. StartInvariant /\ [Next]_vars => StartInvariant'
  BY BaseInductive, OwnPasswordsInductive, NumberedInductive, CheckedInductive DEF StartInvariant
<1>3. StartInvariant => RefusesWrongPassword
  BY DEF StartInvariant, Checked, RefusesWrongPassword
<1> QED BY <1>1, <1>2, <1>3, PTL DEF Spec

=============================================================================
