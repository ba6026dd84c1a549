------------------------- MODULE OxStartStreams_proofs -------------------------
(***************************************************************************)
(* Proofs about OxStart: what is under way on a connection that client and *)
(* server share, for any number of calls of the client.                    *)
(***************************************************************************)
EXTENDS OxStart_proofs, SequenceTheorems

Late == {"sendPassControl", "sendPassData", "readPassControl", "readPassData",
         "orderControl", "orderData", "client"}
Live == Connecting \cup Exchanging \cup {"client"}

----------------------------------------------------------------------------
(***************************************************************************)
(* The invariant, first who has which connection.                          *)
(***************************************************************************)
\* What the client has of the current call is open.
ClientEnd ==
  /\ cpc \in {"acceptControl", "connectControl"} => cli["control"] = 0
  /\ cpc \in {"acceptControl", "connectControl", "acceptData", "connectData"} => cli["data"] = 0
  /\ \A c \in Channels : cpc \in Late => cli[c] # 0
  /\ \A c \in Channels : cpc \in Live /\ cli[c] # 0 => <<c, cli[c]>> \in opened

\* What the server has is held by the processes that need it.
ServerEnd ==
  /\ spc \in {"find", "connectControl", "openControl", "acceptControl"} => srv["control"] = 0
  /\ spc \in {"find", "connectControl", "openControl", "acceptControl", "connectData", "openData",
              "acceptData"} => srv["data"] = 0
  /\ \A c \in Channels : spc # "gone" /\ srv[c] # 0 => "ox" \in held[c]
  /\ epc \in {"exec", "failed", "tell", "await", "running"} /\ srv["data"] # 0 => "child" \in held["data"]

\* Who waits, waits at a socket that listens.
QueuedListening == \A c \in Channels : backlog[c] # <<>> => c \in listening

\* With -reverse there is one connection, which the server has from the first.
ReverseQueue ==
  reverse => \A c \in Channels :
    /\ srv[c] \in {0, 1} /\ cli[c] \in {0, srv[c]}
    /\ backlog[c] # <<>> => backlog[c] = <<1>> /\ srv[c] = 1 /\ cli[c] = 0
    /\ srv[c] = 0 => backlog[c] = <<>> /\ toC[c][1] = <<>> /\ toS[c][1] = <<>>

\* Without it every call makes new connections.
Made(c) ==
  IF cpc = "connectControl" \/ (c = "data" /\ cpc = "connectData") THEN calls - 1 ELSE calls

Unused ==
  ~reverse => \A c \in Channels : \A k \in Conns : k > Made(c) =>
    /\ srv[c] # k /\ cli[c] # k /\ ~Queued(c, k)
    /\ toC[c][k] = <<>> /\ toS[c][k] = <<>>

\* A server opens the data socket when it has closed the control socket: of the calls that
\* connect to both only one reaches it, and it is the first at the data socket.
Straddling ==
  ~reverse =>
    /\ "control" \in listening => spc = "acceptControl"
    /\ "data" \in listening => spc = "acceptData"
    /\ cpc = "connectData" /\ cli["control"] # 0 /\ spc # "gone" =>
         spc \in {"acceptControl", "openData", "acceptData"} /\ backlog["data"] = <<>>
    /\ cpc \in Late /\ spc # "gone" =>
         \/ spc = "acceptData" /\ backlog["data"] = <<cli["data"]>>
         \/ srv["data"] = cli["data"]

Connected == ClientEnd /\ ServerEnd /\ QueuedListening /\ ReverseQueue /\ Unused /\ Straddling

----------------------------------------------------------------------------
(***************************************************************************)
(* Then what is under way, from how far both sides are.                    *)
(***************************************************************************)
\* 1: the client's password exchange is behind it, 2: the byte order too.
ClientPhase(c, k) ==
  IF cli[c] # k THEN 0
  ELSE IF c = "control"
    THEN CASE cpc \in {"orderData", "client"} -> 2
           [] cpc \in {"sendPassData", "readPassData", "orderControl"} -> 1
           [] OTHER -> 0
    ELSE CASE cpc = "client" -> 2
           [] cpc \in {"orderControl", "orderData"} -> 1
           [] OTHER -> 0

\* 1: the server's password exchange is behind it, 2: it has told its byte order, 3: heard.
ServerPhase(c, k) ==
  IF srv[c] # k THEN 0
  ELSE IF c = "control"
    THEN CASE spc = "serving" -> 3
           [] spc = "await" -> 2
           [] spc \in {"readPassData", "fork", "tell"} -> 1
           [] OTHER -> 0
    ELSE CASE epc = "running" -> 3
           [] epc = "await" -> 2
           [] epc \in {"exec", "failed", "tell", "gone"} \/ (spc = "fork" /\ epc = "none") -> 1
           [] OTHER -> 0

\* A password, if there is one, and a byte order.
Fits(p, o) ==
  IF p /\ serverPass # "none"
    THEN IF o THEN <<serverPass, "order">> ELSE <<serverPass>>
    ELSE IF o THEN <<"order">> ELSE <<>>

ToClientOK(cp, sp, s) ==
  /\ cp = 2 => sp >= 2
  /\ s = Fits(reverse /\ cp < 1, sp >= 2 /\ cp < 2)

ToServerOK(cp, sp, s) ==
  /\ sp = 3 => cp = 2
  /\ ~reverse /\ serverPass # "none" /\ sp >= 1 => cp >= 1
  /\ s = Fits(~reverse /\ cp >= 1 /\ sp < 1, cp = 2 /\ sp < 3)

\* The connection of a call under way, or of a client object, or one that waits for a client
\* with -reverse, that the server has not closed.
Joined(c, k) ==
  /\ (cpc \in Live /\ cli[c] = k) \/ (reverse /\ Queued(c, k))
  /\ spc # "refusing" /\ ServerEnds(c, k)

\* On the way to the client a listening server has only byte orders.
ToClient ==
  Agreed \/ ~reverse => \A c \in Channels, k \in Conns :
    Joined(c, k) => ToClientOK(ClientPhase(c, k), ServerPhase(c, k), toC[c][k])

ToServer ==
  Agreed => \A c \in Channels, k \in Conns :
    Joined(c, k) => ToServerOK(ClientPhase(c, k), ServerPhase(c, k), toS[c][k])

StreamsInvariant == StartInvariant /\ Connected /\ ToClient /\ ToServer

----------------------------------------------------------------------------
LEMMA InitStreams == Init => Connected /\ ToClient /\ ToServer
<1> SUFFICES ASSUME Init PROVE Connected /\ ToClient /\ ToServer
  OBVIOUS
<1>1. /\ cpc = "idle" /\ spc = "find" /\ epc = "none"
      /\ \A c \in Channels : cli[c] = 0 /\ srv[c] = 0 /\ backlog[c] = <<>> /\ held[c] = {}
      /\ \A c \in Channels : \A k \in Descriptors : toC[c][k] = <<>> /\ toS[c][k] = <<>>
      /\ "control" \in Channels /\ "data" \in Channels
      /\ ~reverse => listening = {}
  BY DEF Init, Channels
<1>2. cpc \notin Live /\ cpc \notin Late
  BY <1>1 DEF Live, Late, Connecting, Exchanging
<1>3. ClientEnd /\ ServerEnd /\ QueuedListening /\ Straddling
  BY <1>1, <1>2 DEF ClientEnd, ServerEnd, QueuedListening, Straddling
<1>4. ReverseQueue
  BY <1>1, Constants DEF ReverseQueue
<1>5. \A c \in Channels : \A k \in Conns : ~Queued(c, k) /\ k \in Descriptors /\ k # 0
  BY <1>1, MaxCallsAssumption DEF Queued, Contains, Conns, Descriptors
<1>6. Unused
  BY <1>1, <1>5 DEF Unused
<1>7. \A c \in Channels : \A k \in Conns : ~Joined(c, k)
  BY <1>1, <1>2, <1>5 DEF Joined
<1> QED BY <1>3, <1>4, <1>6, <1>7 DEF Connected, ToClient, ToServer

----------------------------------------------------------------------------
(***************************************************************************)
(* Who changes what.                                                       *)
(***************************************************************************)
LEMMA ByClient ==
  ASSUME Call \/ ClientStep \/ cancelConnection \/ ClientExits
  PROVE  UNCHANGED <<reverse, serverPass, clientPass, spc, epc, srv, held>>
  BY DEF options, serverVars, Call, ClientStep, AcceptControl, AcceptData, ConnectControl, ConnectData,
     SendPass, ReadPass, oxSetByteOrder, errorKan1, cancelConnection, ClientExits

LEMMA ByServer ==
  ASSUME ServerStep \/ ServerGone \/ ForkedStep
  PROVE  UNCHANGED <<reverse, serverPass, clientPass, cpc, calls, alarm, cli, opened>>
  BY DEF options, clientVars, ServerStep, FindServer, ServerConnects, socketOpen, socketAccept,
     ServerReadsPass, ServerGone, Refuse, Fork, ForkedStep, ControlTells, ControlHears, myServerExit, Exec,
     errorToStartEngine, EngineTells, EngineHears

LEMMA Types ==
  ASSUME Base
  PROVE  /\ cli \in [Channels -> Descriptors] /\ srv \in [Channels -> Descriptors]
         /\ opened \subseteq Channels \X Conns /\ listening \subseteq Channels
         /\ backlog \in [Channels -> Seq(Conns)] /\ held \in [Channels -> SUBSET {"ox", "child"}]
         /\ toC \in [Channels -> [Descriptors -> Seq(Tokens)]]
         /\ toS \in [Channels -> [Descriptors -> Seq(Tokens)]]
         /\ serverPass \in Passwords /\ clientPass \in Passwords /\ reverse \in BOOLEAN
         /\ calls \in Nat /\ calls <= MaxCalls
         /\ Channels = {"control", "data"}
         /\ \A c \in Channels : srv[c] = 0 => held[c] = {}
<1>1. StartTypeOK
  BY DEF Base
<1>2. calls \in Nat /\ calls <= MaxCalls
  BY <1>1, MaxCallsAssumption DEF StartTypeOK
<1>3. /\ cli \in [Channels -> Descriptors] /\ srv \in [Channels -> Descriptors]
      /\ opened \subseteq Channels \X Conns /\ listening \subseteq Channels
      /\ backlog \in [Channels -> Seq(Conns)] /\ held \in [Channels -> SUBSET {"ox", "child"}]
      /\ serverPass \in Passwords /\ clientPass \in Passwords /\ reverse \in BOOLEAN
      /\ \A c \in Channels : srv[c] = 0 => held[c] = {}
  BY <1>1 DEF StartTypeOK
<1>4. /\ toC \in [Channels -> [Descriptors -> Seq(Tokens)]]
      /\ toS \in [Channels -> [Descriptors -> Seq(Tokens)]]
  BY <1>1 DEF StartTypeOK
<1> QED BY <1>2, <1>3, <1>4 DEF Channels

\* Streams s with one changed, to x: the stream k of channel c.
LEMMA OneStream ==
  ASSUME NEW S, NEW s \in StreamsOf(S), NEW t, NEW c, NEW k, NEW x, t = [s EXCEPT ![c][k] = x]
  PROVE  /\ c \in Channels /\ k \in Descriptors => t[c][k] = x
         /\ \A d \in Channels : \A j \in Descriptors : d # c \/ j # k => t[d][j] = s[d][j]
<1>1. ASSUME NEW d \in Channels, d # c
      PROVE  t[d] = s[d]
  BY <1>1 DEF StreamsOf
<1>2. ASSUME c \in Channels
      PROVE  t[c] = [s[c] EXCEPT ![k] = x] /\ s[c] \in [Descriptors -> Seq(S)]
  BY <1>2 DEF StreamsOf
<1>3. ASSUME c \in Channels, k \in Descriptors
      PROVE  t[c][k] = x
  BY <1>2, <1>3
<1>4. ASSUME NEW d \in Channels, NEW j \in Descriptors, d # c \/ j # k
      PROVE  t[d][j] = s[d][j]
  BY <1>1, <1>2, <1>4
<1> QED BY <1>3, <1>4

LEMMA ThisStream ==
  ASSUME NEW S, NEW s \in StreamsOf(S), NEW t, NEW c \in Channels, NEW k \in Descriptors, NEW x,
         t = [s EXCEPT ![c][k] = x]
  PROVE  t[c][k] = x
<1>1. t[c] = [s[c] EXCEPT ![k] = x] /\ s[c] \in [Descriptors -> Seq(S)]
  BY DEF StreamsOf
<1> QED BY <1>1

LEMMA ClientEndInductive ==
  ASSUME Base, ClientEnd, [Next]_vars
  PROVE  ClientEnd'
<1> USE DEF Connecting, Exchanging, Live, Late
<1>0. /\ cli \in [Channels -> Descriptors] /\ backlog \in [Channels -> Seq(Conns)] /\ calls \in Nat
      /\ Channels = {"control", "data"}
  BY Types
<1>1. CASE Call
  <2>1. cli' = [c \in Channels |-> 0] /\ cpc' \in {"acceptControl", "connectControl"}
    BY <1>1 DEF Call
  <2>2. \A c \in Channels : cli'[c] = 0
    BY <2>1
  <2> QED BY <1>0, <2>1, <2>2 DEF ClientEnd
<1>2. ASSUME NEW c \in Channels, Accept(c), cli[c] = 0
      PROVE  /\ cli'[c] # 0 => <<c, cli'[c]>> \in opened'
             /\ \A d \in Channels \ {c} : cli'[d] = cli[d]
             /\ opened \subseteq opened'
  <2>1. CASE cli' = [cli EXCEPT ![c] = Head(backlog[c])] /\ opened' = opened \cup {<<c, Head(backlog[c])>>}
    BY <1>0, <2>1
  <2>2. CASE UNCHANGED <<cli, opened>>
    BY <1>2, <2>2
  <2> QED BY <1>2, <2>1, <2>2 DEF Accept
<1>3. ASSUME NEW c \in Channels, ConnectTo(c), cli[c] = 0
      PROVE  /\ cli'[c] # 0 => <<c, cli'[c]>> \in opened'
             /\ \A d \in Channels \ {c} : cli'[d] = cli[d]
             /\ opened \subseteq opened'
  BY <1>0, <1>3 DEF ConnectTo
<1>4. CASE AcceptControl
  <2>1. cpc = "acceptControl" /\ cpc' = "acceptData" /\ Accept("control")
    BY <1>4 DEF AcceptControl
  <2> QED BY <1>0, <1>2, <2>1 DEF ClientEnd
<1>5. CASE ConnectControl
  <2>1. cpc = "connectControl" /\ cpc' = "connectData" /\ ConnectTo("control")
    BY <1>5 DEF ConnectControl
  <2> QED BY <1>0, <1>3, <2>1 DEF ClientEnd
<1>6. ASSUME NEW withPass, AfterSockets(withPass), withPass \in {"readPassControl", "sendPassControl"}
      PROVE  \/ cpc' = "null"
             \/ cpc' \in Late /\ cli'["control"] # 0 /\ cli'["data"] # 0
  BY <1>6 DEF AfterSockets, ReturnsNull
<1>7. CASE AcceptData
  <2>1. cpc = "acceptData" /\ Accept("data") /\ AfterSockets("readPassControl")
    BY <1>7 DEF AcceptData
  <2>2. \A c \in Channels : cli'[c] # 0 => <<c, cli'[c]>> \in opened'
    BY <1>0, <1>2, <2>1 DEF ClientEnd
  <2> QED BY <1>0, <1>6, <2>1, <2>2 DEF ClientEnd
<1>8. CASE ConnectData
  <2>1. cpc = "connectData" /\ ConnectTo("data") /\ AfterSockets("sendPassControl")
    BY <1>8 DEF ConnectData
  <2>2. \A c \in Channels : cli'[c] # 0 => <<c, cli'[c]>> \in opened'
    BY <1>0, <1>3, <2>1 DEF ClientEnd
  <2> QED BY <1>0, <1>6, <2>1, <2>2 DEF ClientEnd
<1>9. CASE cpc \in Late /\ UNCHANGED cli /\ (cpc' = "null" \/ (cpc' \in Late /\ UNCHANGED opened))
  BY <1>0, <1>9 DEF ClientEnd
<1>10. CASE \/ SendPass("control", "sendPassControl", "sendPassData")
            \/ SendPass("data", "sendPassData", "orderControl")
            \/ ReadPass("control", "readPassControl", "readPassData")
            \/ ReadPass("data", "readPassData", "orderControl")
            \/ oxSetByteOrder("control", "orderControl", "orderData")
            \/ oxSetByteOrder("data", "orderData", "client")
  BY <1>9, <1>10 DEF SendPass, ReadPass, oxSetByteOrder, ReturnsNull
<1>11. CASE cancelConnection \/ ClientExits \/ errorKan1
  BY <1>11 DEF cancelConnection, ClientExits, errorKan1, ClientEnd
<1>12. CASE UNCHANGED <<cpc, cli, opened>>
  BY <1>12 DEF ClientEnd
<1> QED BY <1>1, <1>4, <1>5, <1>7, <1>8, <1>10, <1>11, <1>12, ByServer DEF Next, ClientStep, vars, clientVars

LEMMA ServerEndInductive ==
  ASSUME Base, ServerEnd, [Next]_vars
  PROVE  ServerEnd'
<1>0. /\ srv \in [Channels -> Descriptors] /\ held \in [Channels -> SUBSET {"ox", "child"}]
      /\ Channels = {"control", "data"} /\ (spc \in SingleServer => epc = "none")
      /\ (spc \in ForkedServer => epc # "none")
  BY Types DEF Base, Direction
<1>1. CASE UNCHANGED <<spc, epc, srv, held>>
  BY <1>1 DEF ServerEnd
<1>2. CASE FindServer
  BY <1>2 DEF FindServer, ServerEnd, serverVars
<1>3. ASSUME NEW c \in Channels, NEW pc, NEW next, ServerConnects(c, pc, next),
             <<c, pc, next>> \in {<<"control", "connectControl", "connectData">>, <<"data", "connectData", "fork">>}
      PROVE  ServerEnd'
  <2>1. UNCHANGED epc /\ spc = pc /\ spc' = next /\ epc = "none"
    BY <1>0, <1>3 DEF ServerConnects, SingleServer
  <2>2. \/ srv' = [srv EXCEPT ![c] = 1] /\ held' = [held EXCEPT ![c] = {"ox"}]
        \/ UNCHANGED <<srv, held>>
    BY <1>3 DEF ServerConnects
  <2>3. \A d \in Channels : srv'[d] # 0 => "ox" \in held'[d]
    BY <1>0, <1>3, <2>1, <2>2 DEF ServerEnd
  <2>4. c = "control" => srv'["data"] = srv["data"]
    BY <1>0, <2>2
  <2> QED BY <1>0, <1>3, <2>1, <2>3, <2>4 DEF ServerEnd
<1>4. ASSUME NEW c \in Channels, NEW pc, NEW next, socketAccept(c, pc, next),
             <<c, pc, next>> \in {<<"control", "acceptControl", "openData">>, <<"data", "acceptData", "fork">>,
                                 <<"data", "acceptData", "readPassControl">>}
      PROVE  ServerEnd'
  <2>1. UNCHANGED epc /\ spc = pc /\ spc' = next /\ epc = "none"
    BY <1>0, <1>4 DEF socketAccept, SingleServer
  <2>2. srv' = [srv EXCEPT ![c] = Head(backlog[c])] /\ held' = [held EXCEPT ![c] = {"ox"}]
    BY <1>4 DEF socketAccept
  <2>3. \A d \in Channels : srv'[d] # 0 => "ox" \in held'[d]
    BY <1>0, <1>4, <2>1, <2>2 DEF ServerEnd
  <2>4. c = "control" => srv'["data"] = srv["data"]
    BY <1>0, <2>2
  <2> QED BY <1>0, <1>4, <2>1, <2>3, <2>4 DEF ServerEnd
<1>5. CASE /\ UNCHANGED <<epc, srv, held>>
           /\ <<spc, spc'>> \in {<<"openControl", "acceptControl">>, <<"openData", "acceptData">>,
                <<"readPassControl", "readPassData">>, <<"readPassData", "fork">>,
                <<"readPassControl", "refusing">>, <<"readPassData", "refusing">>}
  BY <1>5 DEF ServerEnd
<1>6. CASE ServerGone
  BY <1>0, <1>6 DEF ServerGone, ServerEnd
<1>7. CASE Fork
  BY <1>0, <1>7 DEF Fork, ServerEnd, serverVars
<1>8. CASE ForkedStep
  BY <1>0, <1>8 DEF ForkedStep, ControlTells, ControlHears, myServerExit, Exec, errorToStartEngine, EngineTells,
     EngineHears, ServerEnd, ForkedServer
<1>9. CASE ServerStep
  <2>1. CASE socketOpen("control", "openControl", "acceptControl") \/ socketOpen("data", "openData", "acceptData")
    BY <1>5, <2>1 DEF socketOpen
  <2>2. CASE ServerReadsPass("control", "readPassControl", "readPassData")
             \/ ServerReadsPass("data", "readPassData", "fork")
    BY <1>5, <2>2 DEF ServerReadsPass
  <2>3. CASE socketAccept("data", "acceptData", IF serverPass = "none" THEN "fork" ELSE "readPassControl")
    BY <1>0, <1>4, <2>3
  <2> QED BY <1>0, <1>2, <1>3, <1>4, <1>6, <1>7, <1>9, <2>1, <2>2, <2>3 DEF ServerStep, Refuse
<1> QED BY <1>1, <1>6, <1>8, <1>9, ByClient DEF Next, vars, serverVars
----------------------------------------------------------------------------
(***************************************************************************)
(* Who waits at the sockets.                                               *)
(***************************************************************************)
\* What a step does to the sockets.
LEMMA SocketStep ==
  ASSUME Base, [Next]_vars
  PROVE  \/ UNCHANGED <<backlog, listening>>
         \/ \E c \in Channels : AcceptFirst(c)
         \/ \E c \in listening, k \in Nat : Connect(c, k)
         \/ \E c \in Channels : UNCHANGED backlog /\ listening' = listening \cup {c}
         \/ backlog' = [c \in Channels |-> <<>>] /\ listening' = {}
<1> USE DEF socketVars
<1>0. Channels = {"control", "data"} /\ calls \in Nat
  BY Types
<1>1. CASE Call \/ cancelConnection \/ ForkedStep \/ UNCHANGED vars
  BY <1>1 DEF Call, cancelConnection, ForkedStep, ControlTells, ControlHears, myServerExit, Exec,
     errorToStartEngine, EngineTells, EngineHears, vars
<1>2. CASE ClientExits \/ ServerGone
  BY <1>2 DEF ClientExits, ServerGone
<1>3. CASE ClientStep
  <2>1. CASE AcceptControl \/ AcceptData
    BY <1>0, <2>1 DEF AcceptControl, AcceptData, Accept
  <2>2. CASE ConnectControl \/ ConnectData
    BY <1>0, <2>2 DEF ConnectControl, ConnectData, ConnectTo
  <2> QED BY <1>3, <2>1, <2>2 DEF ClientStep, SendPass, ReadPass, oxSetByteOrder, errorKan1
<1>4. CASE ServerStep
  <2>1. ASSUME NEW c \in Channels, NEW pc, NEW next, ServerConnects(c, pc, next)
        PROVE  UNCHANGED <<backlog, listening>> \/ \E d \in listening, k \in Nat : Connect(d, k)
    BY <2>1 DEF ServerConnects
  <2>2. ASSUME NEW c \in Channels, NEW pc, NEW next, socketAccept(c, pc, next)
        PROVE  AcceptFirst(c)
    BY <2>2 DEF socketAccept
  <2>3. ASSUME NEW c \in Channels, NEW pc, NEW next, socketOpen(c, pc, next)
        PROVE  UNCHANGED backlog /\ listening' = listening \cup {c}
    BY <2>3 DEF socketOpen
  <2>4. CASE FindServer \/ Fork
    BY <2>4 DEF FindServer, Fork
  <2>5. ASSUME NEW c \in Channels, NEW pc, NEW next, ServerReadsPass(c, pc, next)
        PROVE  UNCHANGED <<backlog, listening>>
    BY <2>5 DEF ServerReadsPass
  <2> QED BY <1>0, <1>2, <1>4, <2>1, <2>2, <2>3, <2>4, <2>5 DEF ServerStep, Refuse
<1> QED BY <1>1, <1>2, <1>3, <1>4 DEF Next

LEMMA QueuedListeningInductive ==
  ASSUME Base, QueuedListening, [Next]_vars
  PROVE  QueuedListening'
<1>0. backlog \in [Channels -> Seq(Conns)]
  BY Types
<1>1. ASSUME NEW c \in Channels, AcceptFirst(c)
      PROVE  QueuedListening'
  BY <1>0, <1>1 DEF AcceptFirst, QueuedListening
<1>2. ASSUME NEW c \in listening, NEW k \in Nat, Connect(c, k)
      PROVE  QueuedListening'
  <2>1. \A d \in Channels : backlog'[d] = backlog[d] \/ d = c
    BY <1>0, <1>2 DEF Connect
  <2> QED BY <1>2, <2>1 DEF Connect, QueuedListening
<1>3. CASE \/ UNCHANGED <<backlog, listening>>
           \/ \E c \in Channels : UNCHANGED backlog /\ listening' = listening \cup {c}
  BY <1>3 DEF QueuedListening
<1>4. CASE backlog' = [c \in Channels |-> <<>>]
  BY <1>4 DEF QueuedListening
<1> QED BY <1>1, <1>2, <1>3, <1>4, SocketStep

LEMMA QueuedAt ==
  ASSUME NEW s \in Seq(Conns), NEW k, Contains(s, k)
  PROVE  s # <<>> /\ k \in Conns /\ \A h : s = <<h>> => k = h
  BY DEF Contains

----------------------------------------------------------------------------
(***************************************************************************)
(* Connection 1 of a server with -reverse.                                 *)
(***************************************************************************)
LEMMA ReverseQueueInductive ==
  ASSUME Base, ClientEnd, ServerEnd, ReverseQueue, [Next]_vars
  PROVE  ReverseQueue'
<1>0. /\ cli \in [Channels -> Descriptors] /\ srv \in [Channels -> Descriptors]
      /\ backlog \in [Channels -> Seq(Conns)]
      /\ toC \in [Channels -> [Descriptors -> Seq(Tokens)]]
      /\ toS \in [Channels -> [Descriptors -> Seq(Tokens)]]
      /\ Channels = {"control", "data"} /\ 1 \in Conns /\ 1 \in Descriptors /\ 0 \in Descriptors
  BY Types, Constants
<1>1. UNCHANGED reverse
  BY ByClient, ByServer DEF Next, vars, options
<1> SUFFICES ASSUME reverse, NEW d \in Channels
             PROVE  /\ srv'[d] \in {0, 1} /\ cli'[d] \in {0, srv'[d]}
                    /\ backlog'[d] # <<>> => backlog'[d] = <<1>> /\ srv'[d] = 1 /\ cli'[d] = 0
                    /\ srv'[d] = 0 => backlog'[d] = <<>> /\ toC'[d][1] = <<>> /\ toS'[d][1] = <<>>
  BY <1>1 DEF ReverseQueue
<1>2. /\ srv[d] \in {0, 1} /\ cli[d] \in {0, srv[d]}
      /\ backlog[d] # <<>> => backlog[d] = <<1>> /\ srv[d] = 1 /\ cli[d] = 0
      /\ srv[d] = 0 => backlog[d] = <<>> /\ toC[d][1] = <<>> /\ toS[d][1] = <<>>
  BY DEF ReverseQueue
<1>3. CASE UNCHANGED <<srv, backlog>> /\ cli'[d] \in {0, cli[d]} /\ (srv[d] = 0 => toC'[d][1] = toC[d][1] /\ toS'[d][1] = toS[d][1])
  BY <1>2, <1>3
<1>4. CASE Call
  BY <1>0, <1>3, <1>4 DEF Call, socketVars, serverVars
<1>5. ASSUME NEW c \in Channels, Accept(c), UNCHANGED <<srv, toC, toS>>
      PROVE  /\ srv'[d] \in {0, 1} /\ cli'[d] \in {0, srv'[d]}
             /\ backlog'[d] # <<>> => backlog'[d] = <<1>> /\ srv'[d] = 1 /\ cli'[d] = 0
             /\ srv'[d] = 0 => backlog'[d] = <<>> /\ toC'[d][1] = <<>> /\ toS'[d][1] = <<>>
  <2>1. CASE UNCHANGED <<cli, backlog>>
    BY <1>2, <1>5, <2>1
  <2>2. CASE backlog[c] # <<>> /\ cli' = [cli EXCEPT ![c] = Head(backlog[c])] /\ backlog' = [backlog EXCEPT ![c] = <<>>]
    <3>1. CASE d = c
      <4>1. backlog[d] = <<1>> /\ srv[d] = 1
        BY <1>2, <2>2, <3>1
      <4>2. cli'[d] = 1 /\ backlog'[d] = <<>>
        BY <1>0, <2>2, <3>1, <4>1
      <4> QED BY <1>5, <4>1, <4>2
    <3>2. CASE d # c
      BY <1>0, <1>2, <1>5, <2>2, <3>2
    <3> QED BY <3>1, <3>2
  <2> QED BY <1>5, <2>1, <2>2 DEF Accept, AcceptFirst, socketVars
<1>6. CASE AcceptControl \/ AcceptData
  BY <1>0, <1>5, <1>6 DEF AcceptControl, AcceptData, serverVars
<1>7. CASE ConnectControl \/ ConnectData \/ \E c, pc, next : SendPass(c, pc, next) /\ pc \in {"sendPassControl", "sendPassData"}
  BY <1>7 DEF ConnectControl, ConnectData, SendPass, Base, Direction
<1>8. ASSUME NEW c \in Channels, NEW pc, NEW next, ReadPass(c, pc, next) \/ oxSetByteOrder(c, pc, next),
             cpc \in Late
      PROVE  UNCHANGED <<srv, backlog, cli>> /\ (srv[d] = 0 => toC'[d][1] = toC[d][1] /\ toS'[d][1] = toS[d][1])
  <2>1. cli[c] = 1 /\ srv[c] = 1
    BY <1>8 DEF ClientEnd, ReverseQueue
  <2>2. UNCHANGED <<srv, backlog, cli>>
    BY <1>8 DEF ReadPass, oxSetByteOrder, serverVars, socketVars
  <2>3. d # c => toC'[d] = toC[d] /\ toS'[d] = toS[d]
    BY <1>0, <1>8 DEF ReadPass, oxSetByteOrder, Sent
  <2> QED BY <2>1, <2>2, <2>3
<1>9. CASE ClientStep
  <2>1. CASE \/ ReadPass("control", "readPassControl", "readPassData")
             \/ ReadPass("data", "readPassData", "orderControl")
             \/ oxSetByteOrder("control", "orderControl", "orderData")
             \/ oxSetByteOrder("data", "orderData", "client")
    <3>1. cpc \in Late
      BY <2>1 DEF ReadPass, oxSetByteOrder, Late
    <3> QED BY <1>0, <1>3, <1>8, <2>1, <3>1
  <2>2. CASE errorKan1
    BY <1>3, <2>2 DEF errorKan1, serverVars, socketVars
  <2> QED BY <1>6, <1>7, <1>9, <2>1, <2>2 DEF ClientStep
<1>10. CASE cancelConnection \/ ClientExits
  <2>1. UNCHANGED <<srv, cli, toC, toS>> /\ (UNCHANGED backlog \/ backlog' = [c \in Channels |-> <<>>])
    BY <1>10 DEF cancelConnection, ClientExits, serverVars, socketVars
  <2> QED BY <1>2, <2>1
<1>11. ASSUME NEW c \in Channels, NEW pc, NEW next, ServerConnects(c, pc, next),
              <<c, pc>> \in {<<"control", "connectControl">>, <<"data", "connectData">>}
       PROVE  /\ srv'[d] \in {0, 1} /\ cli'[d] \in {0, srv'[d]}
              /\ backlog'[d] # <<>> => backlog'[d] = <<1>> /\ srv'[d] = 1 /\ cli'[d] = 0
              /\ srv'[d] = 0 => backlog'[d] = <<>> /\ toC'[d][1] = <<>> /\ toS'[d][1] = <<>>
  <2>1. srv[c] = 0 /\ UNCHANGED <<cli, toS>>
    BY <1>11 DEF ServerConnects, ServerEnd, clientVars
  <2>2. CASE c \in listening
    <3>1. /\ srv' = [srv EXCEPT ![c] = 1] /\ backlog' = [backlog EXCEPT ![c] = Append(@, 1)]
          /\ toC' = IF serverPass = "none" THEN toC ELSE Sent(toC, c, 1, serverPass)
      BY <1>11, <2>2 DEF ServerConnects, Connect
    <3>2. CASE d = c
      <4>1. backlog[c] = <<>> /\ cli[c] = 0
        BY <1>2, <2>1, <3>2
      <4>2. backlog'[c] = Append(<<>>, 1) /\ srv'[c] = 1
        BY <1>0, <3>1, <4>1
      <4>3. Append(<<>>, 1) = <<1>>
        OBVIOUS
      <4> QED BY <2>1, <3>2, <4>1, <4>2, <4>3
    <3>3. CASE d # c
      <4>1. srv'[d] = srv[d] /\ backlog'[d] = backlog[d] /\ toC'[d] = toC[d]
        BY <1>0, <3>1, <3>3 DEF Sent
      <4> QED BY <1>2, <2>1, <4>1
    <3> QED BY <3>2, <3>3
  <2>3. CASE c \notin listening
    BY <1>2, <1>11, <2>1, <2>3 DEF ServerConnects, socketVars
  <2> QED BY <2>2, <2>3
<1>12. CASE ServerGone
  BY <1>3, <1>12 DEF ServerGone, clientVars, socketVars
<1>13. CASE ServerStep
  <2>1. CASE FindServer \/ Fork
    BY <1>3, <2>1 DEF FindServer, Fork, clientVars, socketVars
  <2>2. ASSUME NEW c, NEW pc, NEW next, socketOpen(c, pc, next) \/ socketAccept(c, pc, next) \/ ServerReadsPass(c, pc, next),
               pc \in {"openControl", "acceptControl", "openData", "acceptData", "readPassControl", "readPassData"}
        PROVE  FALSE
    BY <2>2 DEF socketOpen, socketAccept, ServerReadsPass, Base, Direction
  <2> QED BY <1>0, <1>11, <1>12, <1>13, <2>1, <2>2 DEF ServerStep, Refuse
<1>14. ASSUME NEW c \in Channels, Told(c), UNCHANGED <<srv, backlog, cli, toS>>
       PROVE  srv[d] = 0 => toC'[d][1] = toC[d][1] /\ toS'[d][1] = toS[d][1]
  BY <1>0, <1>14 DEF Told, Sent
<1>15. ASSUME NEW c \in Channels, Heard(c), UNCHANGED <<srv, backlog, cli, toC>>
       PROVE  srv[d] = 0 => toC'[d][1] = toC[d][1] /\ toS'[d][1] = toS[d][1]
  <2>1. PICK x : toS' = [toS EXCEPT ![c][srv[c]] = x]
    BY <1>15 DEF Heard
  <2>2. toS \in StreamsOf(Tokens)
    BY <1>0 DEF StreamsOf
  <2>3. \A e \in Channels : \A j \in Descriptors : e # c \/ j # srv[c] => toS'[e][j] = toS[e][j]
    BY <2>1, <2>2, OneStream
  <2>4. srv[d] = 0 => d # c \/ 1 # srv[c]
    OBVIOUS
  <2>5. 1 \in Descriptors
    BY <1>0
  <2> QED BY <1>15, <2>3, <2>4, <2>5
<1>16. CASE ForkedStep
  <2>1. CASE ControlTells \/ EngineTells
    BY <1>0, <1>3, <1>14, <2>1 DEF ControlTells, EngineTells, clientVars, socketVars
  <2>2. CASE ControlHears \/ EngineHears
    BY <1>0, <1>3, <1>15, <2>2 DEF ControlHears, EngineHears, clientVars, socketVars
  <2>3. CASE myServerExit \/ Exec \/ errorToStartEngine
    BY <1>3, <2>3 DEF myServerExit, Exec, errorToStartEngine, clientVars, socketVars
  <2> QED BY <1>16, <2>1, <2>2, <2>3 DEF ForkedStep
<1>17. CASE UNCHANGED vars
  BY <1>3, <1>17 DEF vars, clientVars, serverVars, socketVars
<1> QED BY <1>4, <1>9, <1>10, <1>12, <1>13, <1>16, <1>17 DEF Next

----------------------------------------------------------------------------
(***************************************************************************)
(* The connections that nobody has made yet.                               *)
(***************************************************************************)
LEMMA MadeGrows ==
  ASSUME Base, ~reverse, [Next]_vars, NEW d \in Channels
  PROVE  /\ Made(d) \in Int /\ Made(d)' \in Int /\ Made(d) <= Made(d)'
         /\ calls' = calls \/ (UNCHANGED <<backlog, srv, toC, toS>> /\ cli' = [c \in Channels |-> 0])
<1>0. calls \in Nat /\ alarm # "armed" /\ cpc \notin {"acceptControl", "acceptData"}
  BY Types DEF Base, StartTypeOK, Direction
<1>1. CASE Call
  <2>1. cpc = "idle" /\ cpc' = "connectControl" /\ calls' = calls + 1
    BY <1>1 DEF Call
  <2>2. Made(d) = calls /\ Made(d)' = calls' - 1
    BY <2>1 DEF Made
  <2> QED BY <1>0, <1>1, <2>1, <2>2 DEF Call, socketVars, serverVars
<1>2. CASE /\ calls' = calls
           /\ cpc' = "connectControl" => cpc = "connectControl"
           /\ cpc' = "connectData" => cpc \in {"connectControl", "connectData"}
  <2>1. CASE cpc' = "connectControl" \/ (d = "data" /\ cpc' = "connectData")
    <3>1. Made(d)' = calls - 1 /\ Made(d) = calls - 1
      BY <1>2, <2>1 DEF Made
    <3> QED BY <1>0, <1>2, <3>1
  <2>2. CASE ~(cpc' = "connectControl" \/ (d = "data" /\ cpc' = "connectData"))
    <3>1. Made(d)' = calls /\ Made(d) \in {calls, calls - 1}
      BY <1>2, <2>2 DEF Made
    <3> QED BY <1>0, <1>2, <3>1
  <2> QED BY <2>1, <2>2
<1>3. CASE ClientStep
  <2>1. CASE ConnectControl \/ ConnectData
    BY <1>2, <2>1 DEF ConnectControl, ConnectData, AfterSockets, ReturnsNull
  <2>2. ASSUME NEW c, NEW pc, NEW next, SendPass(c, pc, next) \/ ReadPass(c, pc, next) \/ oxSetByteOrder(c, pc, next),
               next \notin {"connectControl", "connectData"}
        PROVE  calls' = calls /\ cpc' \notin {"connectControl", "connectData"}
    BY <2>2 DEF SendPass, ReadPass, oxSetByteOrder, ReturnsNull
  <2> QED BY <1>0, <1>2, <1>3, <2>1, <2>2 DEF ClientStep, AcceptControl, AcceptData, errorKan1
<1>4. CASE cancelConnection \/ ClientExits
  BY <1>0, <1>2, <1>4 DEF cancelConnection, ClientExits
<1>5. CASE UNCHANGED <<cpc, calls>>
  BY <1>2, <1>5
<1> QED BY <1>1, <1>3, <1>4, <1>5, ByServer DEF Next, vars, clientVars

LEMMA ConnectionStep ==
  ASSUME Base, ~reverse, [Next]_vars, NEW d \in Channels
  PROVE  \/ cli'[d] \in {0, cli[d]} /\ backlog'[d] \in {<<>>, backlog[d]}
         \/ /\ cli'[d] = calls /\ backlog'[d] = Append(backlog[d], calls) /\ Made(d)' = calls
            /\ UNCHANGED <<srv, toC, toS>>
<1>0. /\ cli \in [Channels -> Descriptors] /\ backlog \in [Channels -> Seq(Conns)]
      /\ alarm # "armed" /\ cpc \notin {"acceptControl", "acceptData"}
  BY Types DEF Base, StartTypeOK, Direction
<1>1. CASE UNCHANGED cli /\ UNCHANGED backlog
  BY <1>1
<1>2. CASE Call
  BY <1>2 DEF Call, socketVars
<1>3. ASSUME NEW c \in Channels, ConnectTo(c), c = d => Made(d)' = calls, UNCHANGED <<srv, toC, toS>>
      PROVE  \/ cli'[d] \in {0, cli[d]} /\ backlog'[d] \in {<<>>, backlog[d]}
             \/ /\ cli'[d] = calls /\ backlog'[d] = Append(backlog[d], calls) /\ Made(d)' = calls
                /\ UNCHANGED <<srv, toC, toS>>
  <2>1. CASE c \in listening
    BY <1>0, <1>3, <2>1 DEF ConnectTo, Connect
  <2>2. CASE c \notin listening
    BY <1>3, <2>2 DEF ConnectTo, socketVars
  <2> QED BY <2>1, <2>2
<1>4. CASE ConnectControl
  <2>1. Made("control")' = calls
    BY <1>4 DEF ConnectControl, Made
  <2> QED BY <1>3, <1>4, <2>1 DEF ConnectControl, serverVars, Channels
<1>5. CASE ConnectData
  <2>1. Made("data")' = calls
    BY <1>5 DEF ConnectData, Made, AfterSockets, ReturnsNull
  <2> QED BY <1>3, <1>5, <2>1 DEF ConnectData, serverVars, Channels
<1>6. CASE ClientStep
  BY <1>0, <1>1, <1>4, <1>5, <1>6 DEF ClientStep, SendPass, ReadPass, oxSetByteOrder, errorKan1,
     socketVars, AcceptControl, AcceptData
<1>7. CASE cancelConnection \/ ClientExits
  BY <1>0, <1>7 DEF cancelConnection, ClientExits, socketVars
<1>8. CASE ServerStep \/ ServerGone \/ ForkedStep
  <2>1. UNCHANGED cli
    BY <1>8, ByServer
  <2>2. ASSUME NEW c \in Channels, AcceptFirst(c)
        PROVE  backlog'[d] \in {<<>>, backlog[d]}
    BY <1>0, <2>2 DEF AcceptFirst
  <2>3. CASE ServerGone
    BY <2>1, <2>3 DEF ServerGone, socketVars
  <2>4. CASE ForkedStep
    BY <2>1, <2>4 DEF ForkedStep, ControlTells, ControlHears, myServerExit, Exec, errorToStartEngine,
       EngineTells, EngineHears, socketVars
  <2>5. CASE ServerStep
    <3>1. ASSUME NEW c, NEW pc, NEW next, ServerConnects(c, pc, next), pc \in {"connectControl", "connectData"}
          PROVE  FALSE
      BY <3>1 DEF ServerConnects, Base, Direction
    <3>2. ASSUME NEW c, NEW pc, NEW next, socketOpen(c, pc, next) \/ ServerReadsPass(c, pc, next)
          PROVE  UNCHANGED backlog
      BY <3>2 DEF socketOpen, ServerReadsPass, socketVars
    <3>3. ASSUME NEW c \in Channels, NEW pc, NEW next, socketAccept(c, pc, next)
          PROVE  backlog'[d] \in {<<>>, backlog[d]}
      BY <2>2, <3>3 DEF socketAccept
    <3>4. CASE FindServer \/ Fork
      BY <2>1, <3>4 DEF FindServer, Fork, socketVars
    <3> QED BY <1>0, <2>1, <2>3, <2>5, <3>1, <3>2, <3>3, <3>4 DEF ServerStep, Refuse, Channels
  <2> QED BY <1>8, <2>3, <2>4, <2>5
<1> QED BY <1>1, <1>2, <1>6, <1>7, <1>8 DEF Next, vars, clientVars, socketVars

LEMMA ServerConnectionStep ==
  ASSUME Base, ~reverse, [Next]_vars, NEW d \in Channels
  PROVE  srv'[d] = srv[d] \/ (backlog[d] # <<>> /\ srv'[d] = Head(backlog[d]))
<1>0. srv \in [Channels -> Descriptors]
  BY Types
<1>1. CASE UNCHANGED srv
  BY <1>1
<1>2. CASE ServerGone \/ ForkedStep
  BY <1>2 DEF ServerGone, ForkedStep, ControlTells, ControlHears, myServerExit, Exec, errorToStartEngine,
     EngineTells, EngineHears
<1>3. CASE ServerStep
  <2>1. ASSUME NEW c, NEW pc, NEW next, ServerConnects(c, pc, next), pc \in {"connectControl", "connectData"}
        PROVE  FALSE
    BY <2>1 DEF ServerConnects, Base, Direction
  <2>2. ASSUME NEW c, NEW pc, NEW next, socketOpen(c, pc, next) \/ ServerReadsPass(c, pc, next)
        PROVE  UNCHANGED srv
    BY <2>2 DEF socketOpen, ServerReadsPass
  <2>3. ASSUME NEW c, NEW pc, NEW next, socketAccept(c, pc, next)
        PROVE  srv'[d] = srv[d] \/ (backlog[d] # <<>> /\ srv'[d] = Head(backlog[d]))
    BY <1>0, <2>3 DEF socketAccept
  <2>4. CASE FindServer \/ Fork
    BY <2>4 DEF FindServer, Fork
  <2> QED BY <1>2, <1>3, <2>1, <2>2, <2>3, <2>4 DEF ServerStep, Refuse
<1> QED BY <1>1, <1>2, <1>3, ByClient DEF Next, vars, serverVars

\* The streams of a connection that neither side has stay as they are.
LEMMA StreamsStep ==
  ASSUME Base, ~reverse, [Next]_vars, NEW d \in Channels, NEW k \in Descriptors, k # cli[d], k # srv[d]
  PROVE  toC'[d][k] = toC[d][k] /\ toS'[d][k] = toS[d][k]
<1>0. toC \in StreamsOf(Tokens) /\ toS \in StreamsOf(Tokens)
  BY Types DEF StreamsOf
<1>1. ASSUME NEW c, NEW j \in {cli[c], srv[c]}, NEW x, toC' = [toC EXCEPT ![c][j] = x]
      PROVE  toC'[d][k] = toC[d][k]
  BY <1>0, <1>1, OneStream
<1>2. ASSUME NEW c, NEW j \in {cli[c], srv[c]}, NEW x, toS' = [toS EXCEPT ![c][j] = x]
      PROVE  toS'[d][k] = toS[d][k]
  BY <1>0, <1>2, OneStream
<1>3. CASE UNCHANGED <<toC, toS>>
  BY <1>3
<1>4. ASSUME NEW c, NEW pc, NEW next, SendPass(c, pc, next)
      PROVE  toC'[d][k] = toC[d][k] /\ toS'[d][k] = toS[d][k]
  BY <1>2, <1>4 DEF SendPass, Sent
<1>5. ASSUME NEW c, NEW pc, NEW next, ReadPass(c, pc, next)
      PROVE  toC'[d][k] = toC[d][k] /\ toS'[d][k] = toS[d][k]
  BY <1>1, <1>5 DEF ReadPass
<1>6. ASSUME NEW c, NEW pc, NEW next, oxSetByteOrder(c, pc, next)
      PROVE  toC'[d][k] = toC[d][k] /\ toS'[d][k] = toS[d][k]
  BY <1>1, <1>2, <1>6 DEF oxSetByteOrder, Sent
<1>7. ASSUME NEW c, Told(c), UNCHANGED toS
      PROVE  toC'[d][k] = toC[d][k] /\ toS'[d][k] = toS[d][k]
  BY <1>1, <1>7 DEF Told, Sent
<1>8. ASSUME NEW c, Heard(c), UNCHANGED toC
      PROVE  toC'[d][k] = toC[d][k] /\ toS'[d][k] = toS[d][k]
  BY <1>2, <1>8 DEF Heard
<1>9. ASSUME NEW c, NEW pc, NEW next, ServerReadsPass(c, pc, next)
      PROVE  toC'[d][k] = toC[d][k] /\ toS'[d][k] = toS[d][k]
  BY <1>2, <1>9 DEF ServerReadsPass
<1>10. ASSUME NEW c, NEW pc, NEW next, ServerConnects(c, pc, next), pc \in {"connectControl", "connectData"}
       PROVE  FALSE
  BY <1>10 DEF ServerConnects, Base, Direction
<1>11. CASE Call \/ cancelConnection \/ ClientExits \/ ServerGone
  BY <1>3, <1>11 DEF Call, cancelConnection, ClientExits, ServerGone
<1>12. CASE ClientStep
  <2>1. CASE AcceptControl \/ AcceptData \/ ConnectControl \/ ConnectData
    BY <1>3, <2>1 DEF AcceptControl, AcceptData, ConnectControl, ConnectData
  <2>2. CASE errorKan1
    BY <1>3, <2>2 DEF errorKan1
  <2> QED BY <1>4, <1>5, <1>6, <1>12, <2>1, <2>2 DEF ClientStep
<1>13. CASE ServerStep
  <2>1. CASE FindServer \/ Fork
    BY <1>3, <2>1 DEF FindServer, Fork
  <2>2. ASSUME NEW c, NEW pc, NEW next, socketOpen(c, pc, next) \/ socketAccept(c, pc, next)
        PROVE  UNCHANGED <<toC, toS>>
    BY <2>2 DEF socketOpen, socketAccept
  <2> QED BY <1>3, <1>9, <1>10, <1>11, <1>13, <2>1, <2>2 DEF ServerStep, Refuse
<1>14. CASE ForkedStep
  <2>1. CASE myServerExit \/ Exec \/ errorToStartEngine
    BY <1>3, <2>1 DEF myServerExit, Exec, errorToStartEngine
  <2> QED BY <1>7, <1>8, <1>14, <2>1 DEF ForkedStep, ControlTells, EngineTells, ControlHears, EngineHears
<1> QED BY <1>3, <1>11, <1>12, <1>13, <1>14 DEF Next, vars

LEMMA Waits ==
  ASSUME NEW s \in Seq(Conns), NEW k
  PROVE  /\ s # <<>> => Contains(s, Head(s))
         /\ \A n : Contains(Append(s, n), k) => Contains(s, k) \/ k = n
         /\ ~Contains(<<>>, k)
  BY DEF Contains

LEMMA UnusedInductive ==
  ASSUME Base, Unused, [Next]_vars
  PROVE  Unused'
<1>1. UNCHANGED reverse
  BY ByClient, ByServer DEF Next, vars, options
<1> SUFFICES ASSUME ~reverse, NEW d \in Channels, NEW k \in Conns, k > Made(d)'
             PROVE  /\ srv'[d] # k /\ cli'[d] # k /\ ~Queued(d, k)'
                    /\ toC'[d][k] = <<>> /\ toS'[d][k] = <<>>
  BY <1>1 DEF Unused
<1>0. backlog \in [Channels -> Seq(Conns)] /\ k \in Nat /\ k # 0 /\ k \in Descriptors
  <2>1. k \in Nat /\ k # 0 /\ k \in Descriptors
    BY Constants DEF Conns
  <2> QED BY <2>1, Types
<1>2. /\ srv[d] # k /\ cli[d] # k /\ ~Contains(backlog[d], k)
      /\ toC[d][k] = <<>> /\ toS[d][k] = <<>>
  BY <1>0, MadeGrows DEF Unused, Queued
<1>3. toC'[d][k] = <<>> /\ toS'[d][k] = <<>>
  BY <1>0, <1>2, StreamsStep
<1>4. srv'[d] # k
  BY <1>0, <1>2, ServerConnectionStep, Waits
<1>5. cli'[d] # k /\ ~Contains(backlog'[d], k)
  <2>1. CASE cli'[d] \in {0, cli[d]} /\ backlog'[d] \in {<<>>, backlog[d]}
    BY <1>0, <1>2, <2>1, Waits
  <2>2. CASE cli'[d] = calls /\ backlog'[d] = Append(backlog[d], calls) /\ Made(d)' = calls
    <3>1. k # calls
      BY <1>0, <2>2, Types
    <3> QED BY <1>0, <1>2, <2>2, <3>1, Waits
  <2> QED BY <2>1, <2>2, ConnectionStep
<1> QED BY <1>3, <1>4, <1>5 DEF Queued

----------------------------------------------------------------------------
(***************************************************************************)
(* The one connection that gets to the data socket.                        *)
(***************************************************************************)
LEMMA StraddlingClient ==
  ASSUME Base, ClientEnd, QueuedListening, Straddling, Call \/ ClientStep \/ cancelConnection \/ ClientExits
  PROVE  Straddling'
<1>1. UNCHANGED <<reverse, spc, srv>>
  BY ByClient
<1> SUFFICES ASSUME ~reverse
             PROVE  /\ listening' \subseteq listening
                    /\ cpc' = "connectData" /\ cli'["control"] # 0 /\ spc # "gone" =>
                         spc \in {"acceptControl", "openData", "acceptData"} /\ backlog'["data"] = <<>>
                    /\ cpc' \in Late /\ spc # "gone" =>
                         \/ spc = "acceptData" /\ backlog'["data"] = <<cli'["data"]>>
                         \/ srv["data"] = cli'["data"]
  BY <1>1 DEF Straddling
<1>0. /\ cli \in [Channels -> Descriptors] /\ backlog \in [Channels -> Seq(Conns)]
      /\ Channels = {"control", "data"}
      /\ alarm # "armed" /\ cpc \notin {"acceptControl", "acceptData"}
  BY Types DEF Base, StartTypeOK, Direction
<1>2. CASE Call \/ ClientExits
  BY <1>2 DEF Call, ClientExits, Late, socketVars
<1>3. CASE ConnectControl
  <2>1. /\ cpc = "connectControl" /\ cpc' = "connectData" /\ ConnectTo("control") /\ cli["control"] = 0
    BY <1>3 DEF ConnectControl, ClientEnd
  <2>2. CASE "control" \in listening
    <3>1. spc = "acceptControl" /\ backlog["data"] = <<>>
      BY <1>0, <2>2 DEF Straddling, QueuedListening
    <3>2. listening' = listening /\ backlog'["data"] = backlog["data"]
      BY <1>0, <2>1, <2>2 DEF ConnectTo, Connect
    <3> QED BY <2>1, <3>1, <3>2 DEF Late
  <2>3. CASE "control" \notin listening
    BY <2>1, <2>3 DEF ConnectTo, Late, socketVars
  <2> QED BY <2>2, <2>3
<1>4. CASE ConnectData
  <2>1. /\ cpc = "connectData" /\ ConnectTo("data") /\ cli["data"] = 0 /\ AfterSockets("sendPassControl")
    BY <1>4 DEF ConnectData, ClientEnd
  <2>2. listening' = listening
    BY <2>1 DEF ConnectTo, Connect, socketVars
  <2>3. cpc' # "connectData" /\ (cpc' \in Late => cli'["control"] # 0 /\ cli'["data"] # 0)
    BY <2>1 DEF AfterSockets, ReturnsNull, Late
  <2>4. ASSUME cli'["control"] # 0, cli'["data"] # 0, spc # "gone"
        PROVE  spc = "acceptData" /\ backlog'["data"] = <<cli'["data"]>>
    <3>1. "data" \in listening
      BY <2>1, <2>4 DEF ConnectTo
    <3>2. cli' = [cli EXCEPT !["data"] = calls] /\ backlog' = [backlog EXCEPT !["data"] = Append(@, calls)]
      BY <2>1, <3>1 DEF ConnectTo, Connect
    <3>3. cli["control"] # 0
      BY <1>0, <2>4, <3>2
    <3>4. spc = "acceptData" /\ backlog["data"] = <<>>
      BY <2>1, <2>4, <3>1, <3>3 DEF Straddling
    <3>5. cli'["data"] = calls /\ backlog'["data"] = Append(<<>>, calls)
      BY <1>0, <3>2, <3>4
    <3> QED BY <3>4, <3>5
  <2> QED BY <2>2, <2>3, <2>4
<1>5. CASE UNCHANGED <<cli, socketVars>> /\ cpc' # "connectData" /\ (cpc' \in Late => cpc \in Late)
  BY <1>5 DEF Straddling, socketVars
<1>6. ASSUME NEW c, NEW pc \in Late, NEW next \in Late,
             SendPass(c, pc, next) \/ ReadPass(c, pc, next) \/ oxSetByteOrder(c, pc, next)
      PROVE  UNCHANGED <<cli, socketVars>> /\ cpc' # "connectData" /\ (cpc' \in Late => cpc \in Late)
  BY <1>6 DEF SendPass, ReadPass, oxSetByteOrder, ReturnsNull, Late
<1>7. CASE ClientStep
  BY <1>0, <1>3, <1>4, <1>5, <1>6, <1>7 DEF ClientStep, AcceptControl, AcceptData, errorKan1, Late
<1> QED BY <1>0, <1>2, <1>7 DEF cancelConnection

LEMMA StraddlingServer ==
  ASSUME Base, ClientEnd, ServerEnd, Straddling, ServerStep \/ ServerGone \/ ForkedStep
  PROVE  Straddling'
<1>1. UNCHANGED <<reverse, cpc, cli>>
  BY ByServer
<1> SUFFICES ASSUME ~reverse
             PROVE  /\ "control" \in listening' => spc' = "acceptControl"
                    /\ "data" \in listening' => spc' = "acceptData"
                    /\ cpc = "connectData" /\ cli["control"] # 0 /\ spc' # "gone" =>
                         spc' \in {"acceptControl", "openData", "acceptData"} /\ backlog'["data"] = <<>>
                    /\ cpc \in Late /\ spc' # "gone" =>
                         \/ spc' = "acceptData" /\ backlog'["data"] = <<cli["data"]>>
                         \/ srv'["data"] = cli["data"]
  BY <1>1 DEF Straddling
<1>0. /\ srv \in [Channels -> Descriptors] /\ backlog \in [Channels -> Seq(Conns)]
      /\ Channels = {"control", "data"} /\ listening \subseteq Channels
      /\ cpc \in Late => cli["data"] # 0
  BY Types DEF ClientEnd
<1>2. CASE ServerGone
  BY <1>2 DEF ServerGone
<1>3. CASE UNCHANGED <<srv, socketVars>> /\ spc \notin {"acceptControl", "openData", "acceptData"}
           /\ (spc = "gone" => spc' = "gone")
  BY <1>3 DEF Straddling, socketVars
<1>4. CASE socketOpen("control", "openControl", "acceptControl")
  BY <1>0, <1>4 DEF socketOpen, Straddling
<1>5. CASE socketOpen("data", "openData", "acceptData")
  BY <1>0, <1>5 DEF socketOpen, Straddling
<1>6. ASSUME socketAccept("control", "acceptControl", "openData")
      PROVE  Straddling'
  <2>1. /\ spc = "acceptControl" /\ spc' = "openData" /\ srv'["data"] = srv["data"]
        /\ backlog'["data"] = backlog["data"] /\ listening' = listening \ {"control"}
    BY <1>0, <1>6 DEF socketAccept, AcceptFirst
  <2> QED BY <1>0, <1>1, <2>1 DEF Straddling
<1>7. ASSUME NEW next, socketAccept("data", "acceptData", next)
      PROVE  Straddling'
  <2>1. /\ spc = "acceptData" /\ backlog["data"] # <<>> /\ srv'["data"] = Head(backlog["data"])
        /\ listening' = listening \ {"data"}
    BY <1>0, <1>7 DEF socketAccept, AcceptFirst
  <2>2. srv["data"] = 0
    BY <2>1 DEF ServerEnd
  <2>3. cpc \in Late => srv'["data"] = cli["data"]
    BY <1>0, <2>1, <2>2 DEF Straddling
  <2>4. "control" \notin listening' /\ "data" \notin listening'
    BY <2>1 DEF Straddling
  <2> QED BY <1>1, <2>1, <2>3, <2>4 DEF Straddling
<1>8. ASSUME NEW c, NEW pc, NEW next, ServerConnects(c, pc, next), pc \in {"connectControl", "connectData"}
      PROVE  FALSE
  BY <1>8 DEF ServerConnects, Base, Direction
<1>9. CASE ServerStep
  <2>1. CASE FindServer
    BY <1>0, <2>1 DEF FindServer, Straddling, socketVars, Late
  <2>2. CASE Fork
    BY <1>3, <2>2 DEF Fork
  <2>3. ASSUME NEW c, NEW pc \in {"readPassControl", "readPassData"}, NEW next, ServerReadsPass(c, pc, next)
        PROVE  UNCHANGED <<srv, socketVars>> /\ spc = pc
    BY <2>3 DEF ServerReadsPass
  <2>4. CASE \/ ServerReadsPass("control", "readPassControl", "readPassData")
             \/ ServerReadsPass("data", "readPassData", "fork")
    BY <1>3, <2>3, <2>4
  <2> QED BY <1>1, <1>2, <1>4, <1>5, <1>6, <1>7, <1>8, <1>9, <2>1, <2>2, <2>4 DEF ServerStep, Refuse, Straddling
<1>10. CASE ForkedStep
  <2>1. CASE ControlTells \/ ControlHears \/ myServerExit
    BY <1>3, <2>1 DEF ControlTells, ControlHears, myServerExit
  <2>2. CASE UNCHANGED <<spc, srv, socketVars>>
    BY <2>2 DEF Straddling, socketVars
  <2> QED BY <1>10, <2>1, <2>2 DEF ForkedStep, Exec, errorToStartEngine, EngineTells, EngineHears
<1> QED BY <1>2, <1>9, <1>10

LEMMA StraddlingInductive ==
  ASSUME Base, ClientEnd, ServerEnd, QueuedListening, Straddling, [Next]_vars
  PROVE  Straddling'
<1>1. CASE UNCHANGED vars
  BY <1>1 DEF vars, options, clientVars, serverVars, socketVars, Straddling
<1> QED BY <1>1, StraddlingClient, StraddlingServer DEF Next

----------------------------------------------------------------------------
(***************************************************************************)
(* One connection.  Whatever a step does, to a connection it is one of     *)
(* these: each side passes the password exchange, then gives and takes a   *)
(* byte order, in its own order of writing and reading.                    *)
(***************************************************************************)
ClientAdvances(cp, down, up, cpNext, downNext, upNext) ==
  \/ cpNext = cp /\ downNext = down /\ upNext = up
  \/ cp = 0 /\ cpNext = 1 /\ clientPass = "none" /\ downNext = down /\ upNext = up
  \/ cp = 0 /\ cpNext = 1 /\ ~reverse /\ clientPass # "none" /\ downNext = down /\ upNext = Append(up, clientPass)
  \/ cp = 0 /\ cpNext = 1 /\ reverse /\ clientPass # "none" /\ downNext = PassTaken(down, clientPass) /\ upNext = up
  \/ cp = 1 /\ cpNext = 2 /\ down # <<>> /\ downNext = ByteTaken(down) /\ upNext = Append(up, "order")

ServerAdvances(sp, down, up, spNext, downNext, upNext) ==
  \/ spNext = sp /\ downNext = down /\ upNext = up
  \/ sp = 0 /\ spNext = 1 /\ (reverse \/ serverPass = "none") /\ downNext = down /\ upNext = up
  \/ sp = 0 /\ spNext = 1 /\ ~reverse /\ up # <<>> /\ downNext = down /\ upNext = PassTaken(up, serverPass)
  \/ sp = 1 /\ spNext = 2 /\ downNext = Append(down, "order") /\ upNext = up
  \/ sp = 2 /\ spNext = 3 /\ up # <<>> /\ downNext = down /\ upNext = ByteTaken(up)

\* A password and a byte order, sent and taken.
LEMMA Exchanged ==
  ASSUME NEW pass
  PROVE  /\ PassTaken(<<pass>>, pass) = <<>> /\ PassTaken(<<pass, "order">>, pass) = <<"order">>
         /\ ByteTaken(<<"order">>) = <<>>
         /\ Append(<<>>, "order") = <<"order">> /\ Append(<<>>, pass) = <<pass>>
         /\ Append(<<pass>>, "order") = <<pass, "order">>
         /\ <<"order">> # <<>> /\ <<pass>> # <<>> /\ <<pass, "order">> # <<>>
<1>1. Tail(<<pass>>) = <<>> /\ Tail(<<"order">>) = <<>>
  OBVIOUS
<1>2. Tail(<<pass, "order">>) = <<"order">>
  OBVIOUS
<1>3. Append(<<>>, "order") = <<"order">> /\ Append(<<>>, pass) = <<pass>>
  OBVIOUS
<1>4. Append(<<pass>>, "order") = <<pass, "order">>
  <2>1. <<pass>> \in Seq({pass, "order"}) /\ <<pass, "order">> \in Seq({pass, "order"})
    OBVIOUS
  <2>2. Append(<<pass>>, "order") \in Seq({pass, "order"})
    BY <2>1
  <2>3. Len(Append(<<pass>>, "order")) = 2 /\ Len(<<pass, "order">>) = 2
    BY <2>1
  <2>4. \A i \in 1 .. 2 : Append(<<pass>>, "order")[i] = <<pass, "order">>[i]
    BY <2>1
  <2> QED BY <2>1, <2>2, <2>3, <2>4, SeqEqual
<1>5. <<"order">> # <<>> /\ <<pass>> # <<>> /\ <<pass, "order">> # <<>> /\ Head(<<"order">>) = "order"
  OBVIOUS
<1>6. Head(<<pass>>) = pass /\ Head(<<pass, "order">>) = pass
  OBVIOUS
<1> QED BY <1>1, <1>2, <1>3, <1>4, <1>5, <1>6 DEF PassTaken, Longer, TailOf, ByteTaken, Passwords

LEMMA ClientKeeps ==
  ASSUME serverPass \in Passwords, reverse \in BOOLEAN, Agreed \/ ~reverse,
         NEW cp \in 0 .. 2, NEW sp \in 0 .. 3, NEW down, NEW up, NEW cpNext, NEW downNext, NEW upNext,
         ToClientOK(cp, sp, down), Agreed => ToServerOK(cp, sp, up),
         ClientAdvances(cp, down, up, cpNext, downNext, upNext)
  PROVE  ToClientOK(cpNext, sp, downNext) /\ (Agreed => ToServerOK(cpNext, sp, upNext))
<1>0. cp \in {0, 1, 2} /\ sp \in {0, 1, 2, 3}
  OBVIOUS
<1>1. CASE cpNext = cp /\ downNext = down /\ upNext = up
  BY <1>0, <1>1, Exchanged DEF ToClientOK, ToServerOK, Fits, Agreed
<1>2. CASE cp = 0 /\ cpNext = 1 /\ clientPass = "none" /\ downNext = down /\ upNext = up
  BY <1>0, <1>2, Exchanged DEF ToClientOK, ToServerOK, Fits, Agreed
<1>3. CASE cp = 0 /\ cpNext = 1 /\ ~reverse /\ clientPass # "none" /\ downNext = down /\ upNext = Append(up, clientPass)
  <2>1. down = IF sp >= 2 THEN <<"order">> ELSE <<>>
    BY <1>0, <1>3 DEF ToClientOK, Fits
  <2>2. Agreed => up = <<>> /\ sp = 0 /\ clientPass = serverPass
    BY <1>0, <1>3 DEF ToServerOK, Fits, Agreed
  <2>3. Agreed => upNext = <<serverPass>>
    BY <1>3, <2>2, Exchanged
  <2> QED BY <1>0, <1>3, <2>1, <2>2, <2>3 DEF ToClientOK, ToServerOK, Fits
<1>4. CASE cp = 0 /\ cpNext = 1 /\ reverse /\ clientPass # "none" /\ downNext = PassTaken(down, clientPass) /\ upNext = up
  BY <1>0, <1>4, Exchanged DEF ToClientOK, ToServerOK, Fits, Agreed
<1>5. CASE cp = 1 /\ cpNext = 2 /\ down # <<>> /\ downNext = ByteTaken(down) /\ upNext = Append(up, "order")
  <2>1. sp >= 2 /\ down = <<"order">>
    BY <1>0, <1>5 DEF ToClientOK, Fits
  <2>2. Agreed => up = <<>> /\ sp = 2
    BY <1>0, <1>5, <2>1 DEF ToServerOK, Fits
  <2>3. downNext = <<>> /\ (Agreed => upNext = <<"order">>)
    BY <1>5, <2>1, <2>2, Exchanged
  <2> QED BY <1>0, <1>5, <2>1, <2>2, <2>3 DEF ToClientOK, ToServerOK, Fits
<1> QED BY <1>1, <1>2, <1>3, <1>4, <1>5 DEF ClientAdvances

LEMMA ServerKeeps ==
  ASSUME serverPass \in Passwords, reverse \in BOOLEAN, Agreed \/ ~reverse,
         NEW cp \in 0 .. 2, NEW sp \in 0 .. 3, NEW down, NEW up, NEW spNext, NEW downNext, NEW upNext,
         ToClientOK(cp, sp, down), Agreed => ToServerOK(cp, sp, up),
         ServerAdvances(sp, down, up, spNext, downNext, upNext)
  PROVE  ToClientOK(cp, spNext, downNext) /\ (Agreed => ToServerOK(cp, spNext, upNext))
<1>0. cp \in {0, 1, 2} /\ sp \in {0, 1, 2, 3}
  OBVIOUS
<1>1. CASE spNext = sp /\ downNext = down /\ upNext = up
  BY <1>0, <1>1, Exchanged DEF ToClientOK, ToServerOK, Fits, Agreed
<1>2. CASE sp = 0 /\ spNext = 1 /\ (reverse \/ serverPass = "none") /\ downNext = down /\ upNext = up
  BY <1>0, <1>2, Exchanged DEF ToClientOK, ToServerOK, Fits, Agreed
<1>3. CASE sp = 0 /\ spNext = 1 /\ ~reverse /\ up # <<>> /\ downNext = down /\ upNext = PassTaken(up, serverPass)
  <2>1. cp < 2 /\ down = <<>>
    BY <1>0, <1>3 DEF ToClientOK, Fits
  <2>2. Agreed => cp = 1 /\ serverPass # "none" /\ up = <<serverPass>>
    BY <1>0, <1>3, <2>1 DEF ToServerOK, Fits
  <2>3. Agreed => upNext = <<>>
    BY <1>3, <2>2, Exchanged
  <2> QED BY <1>0, <1>3, <2>1, <2>2, <2>3 DEF ToClientOK, ToServerOK, Fits
<1>4. CASE sp = 1 /\ spNext = 2 /\ downNext = Append(down, "order") /\ upNext = up
  BY <1>0, <1>4, Exchanged DEF ToClientOK, ToServerOK, Fits, Agreed
<1>5. CASE sp = 2 /\ spNext = 3 /\ up # <<>> /\ downNext = down /\ upNext = ByteTaken(up)
  BY <1>0, <1>5, Exchanged DEF ToClientOK, ToServerOK, Fits, Agreed
<1> QED BY <1>1, <1>2, <1>3, <1>4, <1>5 DEF ServerAdvances

----------------------------------------------------------------------------
(***************************************************************************)
(* How far a side is, at each point.                                       *)
(***************************************************************************)
LEMMA ClientPhaseIs ==
  ASSUME NEW c \in Channels, NEW k
  PROVE  /\ ClientPhase(c, k) \in 0 .. 2
         /\ cli[c] # k => ClientPhase(c, k) = 0
         /\ cli[c] = k /\ c = "control" =>
              /\ cpc \notin {"sendPassData", "readPassData", "orderControl", "orderData", "client"} => ClientPhase(c, k) = 0
              /\ cpc \in {"sendPassData", "readPassData", "orderControl"} => ClientPhase(c, k) = 1
              /\ cpc \in {"orderData", "client"} => ClientPhase(c, k) = 2
         /\ cli[c] = k /\ c = "data" =>
              /\ cpc \notin {"orderControl", "orderData", "client"} => ClientPhase(c, k) = 0
              /\ cpc \in {"orderControl", "orderData"} => ClientPhase(c, k) = 1
              /\ cpc = "client" => ClientPhase(c, k) = 2
  BY DEF ClientPhase, Channels

LEMMA ServerPhaseIs ==
  ASSUME NEW c \in Channels, NEW k
  PROVE  /\ ServerPhase(c, k) \in 0 .. 3
         /\ srv[c] # k => ServerPhase(c, k) = 0
         /\ srv[c] = k /\ c = "control" =>
              /\ spc \notin {"readPassData", "fork", "tell", "await", "serving"} => ServerPhase(c, k) = 0
              /\ spc \in {"readPassData", "fork", "tell"} => ServerPhase(c, k) = 1
              /\ spc = "await" => ServerPhase(c, k) = 2
              /\ spc = "serving" => ServerPhase(c, k) = 3
         /\ srv[c] = k /\ c = "data" =>
              /\ epc = "none" /\ spc # "fork" => ServerPhase(c, k) = 0
              /\ epc \in {"exec", "failed", "tell", "gone"} \/ (spc = "fork" /\ epc = "none") => ServerPhase(c, k) = 1
              /\ epc = "await" => ServerPhase(c, k) = 2
              /\ epc = "running" => ServerPhase(c, k) = 3
  BY DEF ServerPhase, Channels

----------------------------------------------------------------------------
(***************************************************************************)
(* What a step of the client does to a connection that is joined after it. *)
(***************************************************************************)
ClientMoves(c, k) ==
  ClientAdvances(ClientPhase(c, k), toC[c][k], toS[c][k], ClientPhase(c, k)', toC'[c][k], toS'[c][k])

MadeByClient(c, k) ==
  /\ ~reverse /\ ServerPhase(c, k) = 0 /\ toC'[c][k] = <<>> /\ toS'[c][k] = <<>>
  /\ ClientPhase(c, k)' = 0 \/ (ClientPhase(c, k)' = 1 /\ clientPass = "none")

LEMMA QueuedApart ==
  ASSUME Base, ReverseQueue, reverse, NEW c \in Channels, NEW k, Queued(c, k)
  PROVE  backlog[c] = <<1>> /\ k = 1 /\ srv[c] = 1 /\ cli[c] = 0 /\ cli[c] # k
<1>1. backlog[c] \in Seq(Conns)
  BY Types
<1>2. backlog[c] # <<>> /\ (\A h : backlog[c] = <<h>> => k = h)
  BY <1>1, QueuedAt DEF Queued
<1> QED BY <1>2 DEF ReverseQueue

LEMMA QueuedEarly ==
  ASSUME Base, ReverseQueue, ClientEnd, reverse, NEW c \in Channels, NEW k, Queued(c, k)
  PROVE  cpc \notin Late
  BY QueuedApart DEF ClientEnd

LEMMA QuietMoves ==
  ASSUME Base, Connected, Call \/ errorKan1 \/ cancelConnection \/ ClientExits,
         NEW c \in Channels, NEW k \in Conns, Joined(c, k)'
  PROVE  Joined(c, k) /\ ClientMoves(c, k)
<1>1. /\ UNCHANGED <<reverse, clientPass, spc, epc, srv, held, toC, toS>> /\ k # 0
      /\ Live \cap {"idle", "null", "lost", "gone"} = {}
  BY ByClient, Constants DEF ClientStep, Call, errorKan1, cancelConnection, ClientExits, Live, Connecting, Exchanging, Conns
<1>2. CASE ClientExits
  <2>1. cpc' = "gone" /\ (reverse => backlog' = [d \in Channels |-> <<>>])
    BY <1>2 DEF ClientExits
  <2>2. ~(reverse /\ Queued(c, k)')
    BY <2>1 DEF Queued, Contains
  <2> QED BY <1>1, <2>1, <2>2 DEF Joined
<1>3. CASE Call \/ errorKan1 \/ cancelConnection
  <2>1. /\ UNCHANGED backlog /\ (cli'[c] = 0 \/ cli'[c] = cli[c])
        /\ cpc' \notin Live \/ cli'[c] # k
    BY <1>1, <1>3 DEF Call, errorKan1, cancelConnection, socketVars
  <2>2. reverse /\ Queued(c, k)
    BY <1>1, <2>1 DEF Joined, Queued
  <2>3. cli[c] # k /\ cli'[c] # k
    BY <1>1, <2>1, <2>2, QueuedApart DEF Connected
  <2>4. ClientPhase(c, k) = 0 /\ ClientPhase(c, k)' = 0
    BY <2>3 DEF ClientPhase
  <2>5. Joined(c, k)
    BY <1>1, <2>1, <2>2 DEF Joined, ServerEnds, Queued
  <2> QED BY <1>1, <2>4, <2>5 DEF ClientMoves, ClientAdvances
<1> QED BY <1>2, <1>3

LEMMA AcceptMoves ==
  ASSUME Base, Connected, AcceptControl \/ AcceptData, NEW c \in Channels, NEW k \in Conns, Joined(c, k)'
  PROVE  Joined(c, k) /\ ClientMoves(c, k)
<1>0. /\ UNCHANGED <<reverse, clientPass, spc, epc, srv, held, toC, toS>> /\ reverse /\ k # 0
      /\ Channels = {"control", "data"} /\ cli \in [Channels -> Descriptors] /\ backlog \in [Channels -> Seq(Conns)]
  BY ByClient, Constants, Types DEF ClientStep, AcceptControl, AcceptData, Base, Direction, Conns
<1>1. cpc \in {"acceptControl", "acceptData"} /\ cpc' \in {"acceptData", "readPassControl", "orderControl", "null"}
  BY DEF AcceptControl, AcceptData, AfterSockets, ReturnsNull
<1>2. cpc' = "orderControl" => clientPass = "none"
  BY DEF AcceptControl, AcceptData, AfterSockets, ReturnsNull
<1>3. cpc \in Live
  BY <1>1 DEF Live, Connecting
<1>4. \/ cli'[c] = cli[c] /\ backlog'[c] = backlog[c]
      \/ backlog[c] # <<>> /\ cli'[c] = Head(backlog[c]) /\ backlog'[c] = <<>>
  <2>1. ASSUME NEW d \in Channels, Accept(d)
        PROVE  \/ cli'[c] = cli[c] /\ backlog'[c] = backlog[c]
               \/ backlog[c] # <<>> /\ cli'[c] = Head(backlog[c]) /\ backlog'[c] = <<>>
    BY <1>0, <2>1 DEF Accept, AcceptFirst, socketVars
  <2> QED BY <1>0, <2>1 DEF AcceptControl, AcceptData
<1>5. CASE cli'[c] = cli[c] /\ backlog'[c] = backlog[c]
  <2>1. Joined(c, k)
    BY <1>0, <1>3, <1>5 DEF Joined, ServerEnds, Queued
  <2>2. ClientPhase(c, k) = 0
    BY <1>1, ClientPhaseIs, <1>0
  <2>3. ClientPhase(c, k)' = 0 \/ (ClientPhase(c, k)' = 1 /\ clientPass = "none")
    BY <1>0, <1>1, <1>2 DEF ClientPhase
  <2> QED BY <1>0, <2>1, <2>2, <2>3 DEF ClientMoves, ClientAdvances
<1>6. CASE backlog[c] # <<>> /\ cli'[c] = Head(backlog[c]) /\ backlog'[c] = <<>>
  <2>1. backlog[c] = <<1>> /\ cli[c] = 0 /\ cli'[c] = 1
    BY <1>0, <1>6 DEF Connected, ReverseQueue
  <2>2. cli'[c] = k /\ cpc' \in Live
    BY <1>6 DEF Joined, Queued, Contains
  <2>3. Queued(c, k)
    BY <2>1, <2>2 DEF Queued, Contains
  <2>4. Joined(c, k)
    BY <1>0, <2>3 DEF Joined, ServerEnds
  <2>5. ClientPhase(c, k) = 0
    BY <1>0, <2>1 DEF ClientPhase
  <2>6. ClientPhase(c, k)' = 0 \/ (ClientPhase(c, k)' = 1 /\ clientPass = "none")
    BY <1>0, <1>1, <1>2 DEF ClientPhase
  <2> QED BY <1>0, <2>4, <2>5, <2>6 DEF ClientMoves, ClientAdvances
<1> QED BY <1>4, <1>5, <1>6

LEMMA ConnectMoves ==
  ASSUME Base, Connected, ConnectControl \/ ConnectData, NEW c \in Channels, NEW k \in Conns, Joined(c, k)'
  PROVE  (Joined(c, k) /\ ClientMoves(c, k)) \/ MadeByClient(c, k)
<1>0. /\ UNCHANGED <<reverse, clientPass, spc, epc, srv, held, toC, toS>> /\ ~reverse /\ calls \in Nat
      /\ Channels = {"control", "data"} /\ cli \in [Channels -> Descriptors] /\ backlog \in [Channels -> Seq(Conns)]
  BY ByClient, Types DEF ClientStep, ConnectControl, ConnectData, Base, Direction
<1>1. cli'[c] = k /\ cpc' \in Live
  BY <1>0 DEF Joined
<1>2. PICK e \in Channels : ConnectTo(e) /\ ((ConnectControl /\ e = "control") \/ (ConnectData /\ e = "data"))
  BY <1>0 DEF ConnectControl, ConnectData
<1>3. cpc' \in {"connectData", "sendPassControl", "orderControl"} /\ (cpc' = "orderControl" => clientPass = "none")
  BY <1>1 DEF ConnectControl, ConnectData, AfterSockets, ReturnsNull, Live, Connecting, Exchanging
<1>4. ClientPhase(c, k)' = 0 \/ (ClientPhase(c, k)' = 1 /\ clientPass = "none")
  BY <1>0, <1>3 DEF ClientPhase
<1>5. cpc \in {"connectControl", "connectData"}
  BY DEF ConnectControl, ConnectData
<1>6. CASE c = e /\ e \in listening
  <2>1. cli'[c] = calls
    BY <1>0, <1>2, <1>6 DEF ConnectTo
  <2>2. Made(c) = calls - 1
    BY <1>2, <1>6 DEF ConnectControl, ConnectData, Made
  <2>3. k > Made(c)
    BY <1>0, <1>1, <2>1, <2>2
  <2>4. srv[c] # k /\ toC[c][k] = <<>> /\ toS[c][k] = <<>>
    BY <1>0, <2>3 DEF Connected, Unused
  <2>5. ServerPhase(c, k) = 0
    BY <2>4 DEF ServerPhase
  <2> QED BY <1>0, <1>4, <2>4, <2>5 DEF MadeByClient
<1>7. CASE ~(c = e /\ e \in listening)
  <2>1. cli'[c] = cli[c] /\ backlog'[c] = backlog[c]
    BY <1>0, <1>2, <1>7 DEF ConnectTo, Connect, socketVars
  <2>2. Joined(c, k)
    BY <1>0, <1>1, <1>5, <2>1 DEF Joined, ServerEnds, Queued, Live, Connecting
  <2>3. ClientPhase(c, k) = 0
    BY <1>0, <1>5, ClientPhaseIs
  <2> QED BY <1>0, <1>4, <2>2, <2>3 DEF ClientMoves, ClientAdvances
<1> QED BY <1>6, <1>7

\* After the sockets: the connection is still the same.
LEMMA LateJoined ==
  ASSUME Base, Connected, cpc \in Late, UNCHANGED <<reverse, cli, backlog, spc, srv, held>>,
         NEW c \in Channels, NEW k \in Conns, Joined(c, k)'
  PROVE  cpc' \in Live /\ cli[c] = k /\ Joined(c, k)
<1>1. ~(reverse /\ Queued(c, k))
  BY QueuedEarly DEF Connected
<1>2. cpc' \in Live /\ cli[c] = k
  BY <1>1 DEF Joined, Queued
<1>3. cpc \in Live
  BY DEF Live, Late, Connecting, Exchanging
<1> QED BY <1>2, <1>3 DEF Joined, ServerEnds, Queued

LEMMA SendPassMoves ==
  ASSUME Base, Connected, NEW e \in Channels, NEW pc, NEW next, SendPass(e, pc, next),
         <<e, pc, next>> \in {<<"control", "sendPassControl", "sendPassData">>, <<"data", "sendPassData", "orderControl">>},
         NEW c \in Channels, NEW k \in Conns, Joined(c, k)'
  PROVE  Joined(c, k) /\ ClientMoves(c, k)
<1>0. /\ UNCHANGED <<reverse, clientPass, spc, epc, srv, held, cli, backlog, toC>> /\ cpc = pc /\ cpc' = next
      /\ Channels = {"control", "data"} /\ toS \in StreamsOf(Tokens) /\ k \in Descriptors /\ cpc \in Late
  BY Types, Constants DEF SendPass, options, serverVars, socketVars, StreamsOf, Late
<1>1. Joined(c, k) /\ cli[c] = k
  BY <1>0, LateJoined
<1>2. ~reverse /\ clientPass # "none"
  BY <1>0 DEF Base, Direction
<1>3. toS' = [toS EXCEPT ![e][cli[e]] = Append(toS[e][cli[e]], clientPass)]
  BY DEF SendPass, Sent
<1>4. CASE c = e
  <2>1. toS'[c][k] = Append(toS[c][k], clientPass)
    <3>1. PICK x : x = Append(toS[c][k], clientPass) /\ toS' = [toS EXCEPT ![c][k] = x]
      BY <1>1, <1>3, <1>4
    <3>3. toS \in StreamsOf(Tokens) /\ k \in Descriptors
      BY <1>0
    <3>2. toS' = [toS EXCEPT ![c][k] = x]
      BY <3>1
    <3>4. toS'[c][k] = x
      BY <3>2, <3>3, ThisStream
    <3> QED BY <3>1, <3>4
  <2>2. ClientPhase(c, k) = 0 /\ ClientPhase(c, k)' = 1
    BY <1>0, <1>1, <1>4 DEF ClientPhase
  <2> QED BY <1>0, <1>1, <1>2, <2>1, <2>2 DEF ClientMoves, ClientAdvances
<1>5. CASE c # e
  <2>1. toS'[c][k] = toS[c][k]
    BY <1>0, <1>3, <1>5, OneStream
  <2>2. ClientPhase(c, k) = ClientPhase(c, k)'
    BY <1>0, <1>1, <1>5 DEF ClientPhase
  <2> QED BY <1>0, <1>1, <2>1, <2>2 DEF ClientMoves, ClientAdvances
<1> QED BY <1>4, <1>5

LEMMA ReadPassMoves ==
  ASSUME Base, Connected, NEW e \in Channels, NEW pc, NEW next, ReadPass(e, pc, next),
         <<e, pc, next>> \in {<<"control", "readPassControl", "readPassData">>, <<"data", "readPassData", "orderControl">>},
         NEW c \in Channels, NEW k \in Conns, Joined(c, k)'
  PROVE  Joined(c, k) /\ ClientMoves(c, k)
<1>0. /\ UNCHANGED <<reverse, clientPass, spc, epc, srv, held, cli, backlog, toS>> /\ cpc = pc /\ cpc' \in {next, "null"}
      /\ Channels = {"control", "data"} /\ toC \in StreamsOf(Tokens) /\ k \in Descriptors /\ cpc \in Late
  BY Types, Constants DEF ReadPass, ReturnsNull, options, serverVars, socketVars, StreamsOf, Late
<1>1. Joined(c, k) /\ cli[c] = k /\ cpc' = next
  BY <1>0, LateJoined DEF Live, Connecting, Exchanging
<1>2. reverse /\ clientPass # "none"
  BY <1>0 DEF Base, Direction
<1>3. toC' = [toC EXCEPT ![e][cli[e]] = PassTaken(toC[e][cli[e]], clientPass)]
  BY DEF ReadPass
<1>4. CASE c = e
  <2>1. toC'[c][k] = PassTaken(toC[c][k], clientPass)
    <3>1. PICK x : x = PassTaken(toC[c][k], clientPass) /\ toC' = [toC EXCEPT ![c][k] = x]
      BY <1>1, <1>3, <1>4
    <3>3. toC \in StreamsOf(Tokens) /\ k \in Descriptors
      BY <1>0
    <3>4. toC'[c][k] = x
      BY <3>1, <3>3, ThisStream
    <3> QED BY <3>1, <3>4
  <2>2. ClientPhase(c, k) = 0 /\ ClientPhase(c, k)' = 1
    BY <1>0, <1>1, <1>4 DEF ClientPhase
  <2> QED BY <1>0, <1>1, <1>2, <2>1, <2>2 DEF ClientMoves, ClientAdvances
<1>5. CASE c # e
  <2>1. toC'[c][k] = toC[c][k]
    BY <1>0, <1>3, <1>5, OneStream
  <2>2. ClientPhase(c, k) = ClientPhase(c, k)'
    BY <1>0, <1>1, <1>5 DEF ClientPhase
  <2> QED BY <1>0, <1>1, <2>1, <2>2 DEF ClientMoves, ClientAdvances
<1> QED BY <1>4, <1>5

LEMMA OrderMoves ==
  ASSUME Base, Connected, NEW e \in Channels, NEW pc, NEW next, oxSetByteOrder(e, pc, next),
         <<e, pc, next>> \in {<<"control", "orderControl", "orderData">>, <<"data", "orderData", "client">>},
         NEW c \in Channels, NEW k \in Conns, Joined(c, k)'
  PROVE  Joined(c, k) /\ ClientMoves(c, k)
<1>0. /\ UNCHANGED <<reverse, clientPass, spc, epc, srv, held, cli, backlog>> /\ cpc = pc /\ cpc' = next
      /\ Channels = {"control", "data"} /\ k \in Descriptors /\ cpc \in Late
      /\ toC \in StreamsOf(Tokens) /\ toS \in StreamsOf(Tokens)
  BY Types, Constants DEF oxSetByteOrder, options, serverVars, socketVars, StreamsOf, Late
<1>1. Joined(c, k) /\ cli[c] = k
  BY <1>0, LateJoined
<1>2. toC' = [toC EXCEPT ![e][cli[e]] = ByteTaken(toC[e][cli[e]])]
      /\ toS' = [toS EXCEPT ![e][cli[e]] = Append(toS[e][cli[e]], "order")]
  BY DEF oxSetByteOrder, Sent
<1>3. CASE c = e
  <2>1. toC'[c][k] = ByteTaken(toC[c][k]) /\ toS'[c][k] = Append(toS[c][k], "order")
    <3>1. PICK x : x = ByteTaken(toC[c][k]) /\ toC' = [toC EXCEPT ![c][k] = x]
      BY <1>1, <1>2, <1>3
    <3>2. PICK y : y = Append(toS[c][k], "order") /\ toS' = [toS EXCEPT ![c][k] = y]
      BY <1>1, <1>2, <1>3
    <3>3. toC \in StreamsOf(Tokens) /\ toS \in StreamsOf(Tokens) /\ k \in Descriptors
      BY <1>0
    <3>4. toC'[c][k] = ByteTaken(toC[c][k])
      BY <3>1, <3>3, ThisStream
    <3>5. toS' = [toS EXCEPT ![c][k] = y]
      BY <3>2
    <3>6. toS'[c][k] = y
      BY <3>5, <3>3, ThisStream
    <3> QED BY <3>2, <3>4, <3>6
  <2>2. ClientPhase(c, k) = 1 /\ ClientPhase(c, k)' = 2
    BY <1>0, <1>1, <1>3 DEF ClientPhase
  <2>3. toC[c][k] # <<>>
    BY <1>1, <1>3 DEF oxSetByteOrder, ClientCanRead, Joined
  <2> QED BY <1>0, <1>1, <2>1, <2>2, <2>3 DEF ClientMoves, ClientAdvances
<1>4. CASE c # e
  <2>1. toC'[c][k] = toC[c][k] /\ toS'[c][k] = toS[c][k]
    BY <1>0, <1>2, <1>4, OneStream
  <2>2. ClientPhase(c, k) = ClientPhase(c, k)'
    BY <1>0, <1>1, <1>4 DEF ClientPhase
  <2> QED BY <1>0, <1>1, <2>1, <2>2 DEF ClientMoves, ClientAdvances
<1> QED BY <1>3, <1>4

LEMMA EveryClientMoves ==
  ASSUME Base, Connected, Call \/ ClientStep \/ cancelConnection \/ ClientExits,
         NEW c \in Channels, NEW k \in Conns, Joined(c, k)'
  PROVE  (Joined(c, k) /\ ClientMoves(c, k)) \/ MadeByClient(c, k)
<1>1. "control" \in Channels /\ "data" \in Channels
  BY DEF Channels
<1> QED BY <1>1, QuietMoves, AcceptMoves, ConnectMoves, SendPassMoves, ReadPassMoves, OrderMoves DEF ClientStep

----------------------------------------------------------------------------
(***************************************************************************)
(* What a step of the server does to a connection that is joined after it. *)
(***************************************************************************)
ServerMoves(c, k) ==
  ServerAdvances(ServerPhase(c, k), toC[c][k], toS[c][k], ServerPhase(c, k)', toC'[c][k], toS'[c][k])

MadeByServer(c, k) ==
  /\ reverse /\ ClientPhase(c, k) = 0 /\ ServerPhase(c, k)' \in {0, 1}
  /\ toC'[c][k] = Fits(TRUE, FALSE) /\ toS'[c][k] = <<>>

LEMMA ClientHasEnd ==
  ASSUME Connected, NEW c \in Channels, NEW k \in Conns, Joined(c, k)
  PROVE  ClientEnds(c, k)
<1>1. k # 0
  BY Constants DEF Conns
<1> QED BY <1>1 DEF Connected, ClientEnd, Joined, ClientEnds

LEMMA NobodyWaits ==
  ASSUME Base, Connected, ~reverse, spc \notin {"acceptControl", "acceptData"}, NEW c \in Channels
  PROVE  backlog[c] = <<>> /\ \A k : ~Queued(c, k)
<1>1. c \notin listening
  BY DEF Connected, Straddling, Channels
<1>2. backlog[c] = <<>>
  BY <1>1 DEF Connected, QueuedListening
<1> QED BY <1>2 DEF Queued, Contains

\* A step that does nothing to the sockets and the streams.
LEMMA NothingMoves ==
  ASSUME Base, Connected, UNCHANGED <<reverse, serverPass, cpc, cli, srv, held, backlog, toC, toS>>, spc # "refusing",
         NEW c \in Channels, NEW k \in Conns, Joined(c, k)',
         \/ ServerPhase(c, k)' = ServerPhase(c, k)
         \/ reverse /\ ServerPhase(c, k) = 0 /\ ServerPhase(c, k)' = 1
  PROVE  Joined(c, k) /\ ServerMoves(c, k)
<1>1. Joined(c, k)
  BY DEF Joined, ServerEnds, Queued
<1> QED BY <1>1 DEF ServerMoves, ServerAdvances

LEMMA OpenMoves ==
  ASSUME Base, Connected,
         \/ FindServer \/ socketOpen("control", "openControl", "acceptControl")
         \/ socketOpen("data", "openData", "acceptData") \/ Exec,
         NEW c \in Channels, NEW k \in Conns, Joined(c, k)'
  PROVE  Joined(c, k) /\ ServerMoves(c, k)
<1>1. UNCHANGED <<reverse, serverPass, cpc, cli, srv, held, backlog, toC, toS>>
  BY DEF FindServer, socketOpen, Exec, options, clientVars, socketVars
<1>2. CASE FindServer
  <2>1. spc = "find" /\ srv[c] = 0 /\ k # 0
    BY <1>2, Constants DEF FindServer, Connected, ServerEnd, Conns, Channels
  <2>2. ServerPhase(c, k)' = ServerPhase(c, k)
    BY <1>1, <2>1 DEF ServerPhase
  <2> QED BY <1>1, <2>1, <2>2, NothingMoves
<1>3. CASE socketOpen("control", "openControl", "acceptControl") \/ socketOpen("data", "openData", "acceptData")
  <2>1. /\ <<spc, spc'>> \in {<<"openControl", "acceptControl">>, <<"openData", "acceptData">>}
        /\ epc = "none" /\ epc' = "none"
    BY <1>3 DEF socketOpen, Base, Direction, SingleServer
  <2>2. ServerPhase(c, k)' = ServerPhase(c, k)
    BY <1>1, <2>1 DEF ServerPhase
  <2> QED BY <1>1, <2>1, <2>2, NothingMoves
<1>4. CASE Exec
  <2>1. UNCHANGED spc /\ epc = "exec" /\ epc' \in {"tell", "failed"} /\ spc # "refusing"
    BY <1>4 DEF Exec, Base, Direction, SingleServer
  <2>2. ServerPhase(c, k)' = ServerPhase(c, k)
    BY <1>1, <2>1 DEF ServerPhase
  <2> QED BY <1>1, <2>1, <2>2, NothingMoves
<1> QED BY <1>2, <1>3, <1>4

LEMMA ServerConnectMoves ==
  ASSUME Base, Connected, NEW e \in Channels, NEW pc, NEW next, ServerConnects(e, pc, next),
         <<e, pc, next>> \in {<<"control", "connectControl", "connectData">>, <<"data", "connectData", "fork">>},
         NEW c \in Channels, NEW k \in Conns, Joined(c, k)'
  PROVE  (Joined(c, k) /\ ServerMoves(c, k)) \/ MadeByServer(c, k)
<1>0. /\ UNCHANGED <<reverse, serverPass, cpc, cli, epc, toS>> /\ spc = pc /\ spc' = next /\ reverse /\ epc = "none"
      /\ Channels = {"control", "data"} /\ srv \in [Channels -> Descriptors] /\ held \in [Channels -> SUBSET {"ox", "child"}]
      /\ backlog \in [Channels -> Seq(Conns)] /\ toC \in StreamsOf(Tokens) /\ k # 0 /\ k \in Descriptors /\ 1 \in Descriptors
  <2>1. UNCHANGED <<reverse, serverPass, cpc, cli, epc, toS>> /\ spc = pc /\ spc' = next
    BY DEF ServerConnects, options, clientVars
  <2>2. reverse /\ epc = "none"
    BY <2>1 DEF Base, Direction, SingleServer
  <2>3. k # 0 /\ k \in Descriptors /\ 1 \in Descriptors
    BY Constants DEF Conns
  <2>4. toC \in StreamsOf(Tokens)
    BY Types DEF StreamsOf
  <2> QED BY <2>1, <2>2, <2>3, <2>4, Types
<1>1. srv[e] = 0 /\ (e = "control" => srv["data"] = 0)
  BY <1>0 DEF Connected, ServerEnd
<1>2. srv'[c] = k /\ held'[c] # {}
  BY <1>0 DEF Joined, ServerEnds
<1>3. ServerPhase(c, k)' \in {0, 1}
  BY <1>0 DEF ServerPhase
<1>4. CASE e \notin listening
  <2>1. UNCHANGED <<srv, held, backlog, toC>>
    BY <1>4 DEF ServerConnects, socketVars
  <2>2. ServerPhase(c, k) = 0
    BY <1>0, <1>1, <1>2, <2>1 DEF ServerPhase
  <2> QED BY <1>0, <1>3, <2>1, <2>2, NothingMoves
<1>5. CASE e \in listening /\ c # e
  <2>1. srv'[c] = srv[c] /\ held'[c] = held[c] /\ backlog'[c] = backlog[c] /\ toC'[c] = toC[c]
    BY <1>0, <1>5 DEF ServerConnects, Connect, Sent, StreamsOf
  <2>2. Joined(c, k)
    BY <1>0, <1>2, <2>1 DEF Joined, ServerEnds, Queued
  <2>3. ServerPhase(c, k) = 0
    BY <1>0, <1>1, <1>2, <2>1 DEF ServerPhase
  <2> QED BY <1>0, <1>3, <2>1, <2>2, <2>3 DEF ServerMoves, ServerAdvances
<1>6. CASE e \in listening /\ c = e
  <2>1. k = 1
    BY <1>0, <1>2, <1>6 DEF ServerConnects
  <2>2. cli[c] = 0 /\ toC[c][1] = <<>> /\ toS[c][1] = <<>>
    BY <1>0, <1>1, <1>6 DEF Connected, ReverseQueue
  <2>3. ClientPhase(c, k) = 0
    BY <1>0, <2>2 DEF ClientPhase
  <2>4. toC'[c][1] = Fits(TRUE, FALSE)
    <3>1. CASE serverPass = "none"
      BY <1>6, <2>2, <3>1 DEF ServerConnects, Fits
    <3>2. CASE serverPass # "none"
      <4>1. PICK x : x = Append(toC[c][1], serverPass) /\ toC' = [toC EXCEPT ![c][1] = x]
        BY <1>6, <3>2 DEF ServerConnects, Sent
      <4>2. toC' = [toC EXCEPT ![c][k] = x]
        BY <2>1, <4>1
      <4>3. toC \in StreamsOf(Tokens) /\ k \in Descriptors
        BY <1>0
      <4>4. toC'[c][k] = x
        BY <4>2, <4>3, ThisStream
      <4>5. x = <<serverPass>>
        BY <2>2, <4>1, Exchanged
      <4> QED BY <2>1, <3>2, <4>4, <4>5 DEF Fits
    <3> QED BY <3>1, <3>2
  <2> QED BY <1>0, <1>3, <2>1, <2>2, <2>3, <2>4 DEF MadeByServer
<1> QED BY <1>4, <1>5, <1>6

LEMMA ServerAcceptMoves ==
  ASSUME Base, Connected, NEW e \in Channels, NEW pc, NEW next, socketAccept(e, pc, next),
         \/ <<e, pc, next>> \in {<<"control", "acceptControl", "openData">>, <<"data", "acceptData", "readPassControl">>}
         \/ <<e, pc, next>> = <<"data", "acceptData", "fork">> /\ serverPass = "none",
         NEW c \in Channels, NEW k \in Conns, Joined(c, k)'
  PROVE  Joined(c, k) /\ ServerMoves(c, k)
<1>0. /\ UNCHANGED <<reverse, serverPass, cpc, cli, epc, toC, toS>> /\ spc = pc /\ spc' = next /\ ~reverse /\ epc = "none"
      /\ Channels = {"control", "data"} /\ srv \in [Channels -> Descriptors] /\ held \in [Channels -> SUBSET {"ox", "child"}]
      /\ backlog \in [Channels -> Seq(Conns)] /\ k # 0
  BY Types, Constants DEF socketAccept, options, clientVars, Base, Direction, SingleServer, Conns
<1>1. /\ srv' = [srv EXCEPT ![e] = Head(backlog[e])] /\ held' = [held EXCEPT ![e] = {"ox"}]
      /\ backlog' = [backlog EXCEPT ![e] = <<>>] /\ backlog[e] # <<>>
  BY DEF socketAccept, AcceptFirst
<1>2. Joined(c, k)
  <2>1. CASE c # e
    BY <1>0, <1>1, <2>1 DEF Joined, ServerEnds, Queued
  <2>2. CASE c = e
    <3>1. backlog'[c] = <<>> /\ srv'[c] = Head(backlog[c])
      BY <1>0, <1>1, <2>2
    <3>2. Head(backlog[c]) = k
      BY <1>0, <3>1 DEF Joined, ServerEnds, Queued, Contains
    <3>3. Queued(c, k)
      BY <1>0, <1>1, <2>2, <3>2, Waits DEF Queued
    <3> QED BY <1>0, <3>3 DEF Joined, ServerEnds
  <2> QED BY <2>1, <2>2
<1>3. ServerPhase(c, k) = 0
  BY <1>0 DEF ServerPhase
<1>4. ServerPhase(c, k)' = 0 \/ (ServerPhase(c, k)' = 1 /\ serverPass = "none")
  BY <1>0 DEF ServerPhase
<1> QED BY <1>0, <1>2, <1>3, <1>4 DEF ServerMoves, ServerAdvances

\* After the sockets: the server has what it does not wait for.
LEMMA ServedJoined ==
  ASSUME Base, Connected, UNCHANGED <<reverse, cpc, cli, srv, backlog>>,
         spc \notin {"acceptControl", "acceptData", "refusing"},
         \A d \in Channels : srv[d] # 0 /\ held'[d] # {} => held[d] # {},
         NEW c \in Channels, NEW k \in Conns, Joined(c, k)'
  PROVE  srv[c] = k /\ held'[c] # {} /\ Joined(c, k) /\ ClientEnds(c, k)
<1>1. k # 0
  BY Constants DEF Conns
<1>2. srv[c] = k /\ held'[c] # {}
  BY NobodyWaits DEF Joined, ServerEnds, Queued
<1>3. Joined(c, k)
  BY <1>1, <1>2 DEF Joined, ServerEnds, Queued
<1> QED BY <1>2, <1>3, ClientHasEnd

LEMMA ServerReadMoves ==
  ASSUME Base, Connected, NEW e \in Channels, NEW pc, NEW next, ServerReadsPass(e, pc, next),
         <<e, pc, next>> \in {<<"control", "readPassControl", "readPassData">>, <<"data", "readPassData", "fork">>},
         NEW c \in Channels, NEW k \in Conns, Joined(c, k)'
  PROVE  Joined(c, k) /\ ServerMoves(c, k)
<1>0. /\ UNCHANGED <<reverse, serverPass, cpc, cli, epc, srv, held, backlog, toC>> /\ spc = pc /\ spc' = next
      /\ toS' = [toS EXCEPT ![e][srv[e]] = PassTaken(toS[e][srv[e]], serverPass)] /\ ServerCanRead(e)
  BY DEF ServerReadsPass, Joined, options, clientVars, socketVars
<1>1. ~reverse /\ epc = "none" /\ toS \in StreamsOf(Tokens) /\ k \in Descriptors /\ Channels = {"control", "data"}
  BY <1>0, Types, Constants DEF Base, Direction, SingleServer, StreamsOf
<1>2. srv[c] = k /\ Joined(c, k) /\ ClientEnds(c, k)
  BY <1>0, ServedJoined
<1>3. CASE c = e
  <2>1. toS' = [toS EXCEPT ![c][k] = PassTaken(toS[c][k], serverPass)]
    BY <1>0, <1>2, <1>3
  <2>2. PICK x : x = PassTaken(toS[c][k], serverPass)
    OBVIOUS
  <2>3. toS' = [toS EXCEPT ![c][k] = x]
    BY <2>1, <2>2
  <2>4. toS'[c][k] = x
    BY <1>1, <2>3, ThisStream
  <2>5. toS[c][k] # <<>>
    BY <1>0, <1>2, <1>3 DEF ServerCanRead
  <2>6. ServerPhase(c, k) = 0 /\ ServerPhase(c, k)' = 1
    BY <1>0, <1>1, <1>2, <1>3 DEF ServerPhase
  <2> QED BY <1>0, <1>1, <1>2, <2>2, <2>4, <2>5, <2>6 DEF ServerMoves, ServerAdvances
<1>4. CASE c # e
  <2>1. PICK x : toS' = [toS EXCEPT ![e][srv[e]] = x]
    BY <1>0
  <2>2. toS'[c][k] = toS[c][k]
    BY <1>1, <1>4, <2>1, OneStream
  <2>3. ServerPhase(c, k)' = ServerPhase(c, k)
    BY <1>0, <1>1, <1>2, <1>4 DEF ServerPhase
  <2> QED BY <1>0, <1>2, <2>2, <2>3 DEF ServerMoves, ServerAdvances
<1> QED BY <1>3, <1>4

LEMMA ForkMoves ==
  ASSUME Base, Connected, Fork, NEW c \in Channels, NEW k \in Conns, Joined(c, k)'
  PROVE  Joined(c, k) /\ ServerMoves(c, k)
<1>0. /\ UNCHANGED <<reverse, serverPass, cpc, cli, srv, backlog, toC, toS>> /\ spc = "fork" /\ epc' = "exec"
      /\ epc = "none" /\ Channels = {"control", "data"}
  BY Types DEF Fork, options, clientVars, socketVars, Base, Direction, SingleServer
<1>1. \A d \in Channels : srv[d] # 0 /\ held'[d] # {} => held[d] # {}
  BY <1>0 DEF Connected, ServerEnd
<1>2. srv[c] = k /\ held'[c] # {} /\ Joined(c, k)
  BY <1>0, <1>1, ServedJoined
<1>3. c = "control" => spc' = "tell"
  BY <1>2 DEF Fork
<1>4. ServerPhase(c, k) = 1 /\ ServerPhase(c, k)' = 1
  BY <1>0, <1>2, <1>3 DEF ServerPhase
<1> QED BY <1>0, <1>2, <1>4 DEF ServerMoves, ServerAdvances

LEMMA TellMoves ==
  ASSUME Base, Connected, ControlTells \/ EngineTells, NEW c \in Channels, NEW k \in Conns, Joined(c, k)'
  PROVE  Joined(c, k) /\ ServerMoves(c, k)
<1>0. /\ UNCHANGED <<reverse, serverPass, cpc, cli, srv, held, backlog, toS>> /\ spc \notin SingleServer
      /\ Channels = {"control", "data"} /\ toC \in StreamsOf(Tokens) /\ k \in Descriptors /\ k # 0
  <2>1. UNCHANGED <<reverse, serverPass, cpc, cli, srv, held, backlog, toS>>
    BY DEF ControlTells, EngineTells, options, clientVars, socketVars
  <2>2. spc \notin SingleServer
    BY DEF ControlTells, EngineTells, Base, Direction, SingleServer
  <2>3. k \in Descriptors /\ k # 0
    BY Constants DEF Conns
  <2>4. toC \in StreamsOf(Tokens) /\ toS \in StreamsOf(Tokens)
    BY Types DEF StreamsOf
  <2> QED BY <2>1, <2>2, <2>3, <2>4, Types
<1>1. srv[c] = k /\ Joined(c, k)
  BY <1>0, ServedJoined DEF SingleServer
<1>2. PICK e \in Channels : Told(e) /\ ((ControlTells /\ e = "control") \/ (EngineTells /\ e = "data"))
  BY <1>0 DEF ControlTells, EngineTells
<1>3. CASE c = e
  <2>1. PICK x : x = Append(toC[c][k], "order") /\ toC' = [toC EXCEPT ![c][k] = x]
    BY <1>0, <1>1, <1>2, <1>3 DEF Told, Sent
  <2>2. toC' = [toC EXCEPT ![c][k] = x]
    BY <2>1
  <2>3. toC'[c][k] = x
    BY <1>0, <2>2, ThisStream
  <2>4. ServerPhase(c, k) = 1 /\ ServerPhase(c, k)' = 2
    BY <1>0, <1>1, <1>2, <1>3 DEF ServerPhase, ControlTells, EngineTells
  <2> QED BY <1>0, <1>1, <2>1, <2>3, <2>4 DEF ServerMoves, ServerAdvances
<1>4. CASE c # e
  <2>1. toC'[c][k] = toC[c][k]
    BY <1>0, <1>2, <1>4, OneStream DEF Told, Sent
  <2>2. ServerPhase(c, k)' = ServerPhase(c, k)
    <3>1. CASE ControlTells /\ e = "control"
      BY <1>0, <1>1, <1>4, <3>1 DEF ServerPhase, ControlTells, Base, Direction, ForkedServer
    <3>2. CASE EngineTells /\ e = "data"
      BY <1>0, <1>1, <1>4, <3>2 DEF ServerPhase, EngineTells
    <3> QED BY <1>2, <3>1, <3>2
  <2> QED BY <1>0, <1>1, <2>1, <2>2 DEF ServerMoves, ServerAdvances
<1> QED BY <1>3, <1>4

LEMMA HearMoves ==
  ASSUME Base, Connected, ControlHears \/ EngineHears, NEW c \in Channels, NEW k \in Conns, Joined(c, k)'
  PROVE  Joined(c, k) /\ ServerMoves(c, k)
<1>0. /\ UNCHANGED <<reverse, serverPass, cpc, cli, srv, held, backlog, toC>> /\ spc \notin SingleServer
      /\ Channels = {"control", "data"} /\ toS \in StreamsOf(Tokens) /\ k \in Descriptors /\ k # 0
  <2>1. UNCHANGED <<reverse, serverPass, cpc, cli, srv, held, backlog, toC>>
    BY DEF ControlHears, EngineHears, options, clientVars, socketVars
  <2>2. spc \notin SingleServer
    BY DEF ControlHears, EngineHears, Base, Direction, SingleServer
  <2>3. k \in Descriptors /\ k # 0
    BY Constants DEF Conns
  <2>4. toC \in StreamsOf(Tokens) /\ toS \in StreamsOf(Tokens)
    BY Types DEF StreamsOf
  <2> QED BY <2>1, <2>2, <2>3, <2>4, Types
<1>1. srv[c] = k /\ Joined(c, k) /\ ClientEnds(c, k)
  BY <1>0, ServedJoined DEF SingleServer
<1>2. PICK e \in Channels : Heard(e) /\ ((ControlHears /\ e = "control") \/ (EngineHears /\ e = "data"))
  BY <1>0 DEF ControlHears, EngineHears
<1>3. CASE c = e
  <2>1. PICK x : x = ByteTaken(toS[c][k]) /\ toS' = [toS EXCEPT ![c][k] = x]
    BY <1>1, <1>2, <1>3 DEF Heard
  <2>2. toS' = [toS EXCEPT ![c][k] = x]
    BY <2>1
  <2>3. toS'[c][k] = x
    BY <1>0, <2>2, ThisStream
  <2>4. ServerPhase(c, k) = 2 /\ ServerPhase(c, k)' = 3
    BY <1>0, <1>1, <1>2, <1>3 DEF ServerPhase, ControlHears, EngineHears
  <2>5. toS[c][k] # <<>>
    BY <1>1, <1>2, <1>3 DEF Heard, ServerCanRead
  <2> QED BY <1>0, <1>1, <2>1, <2>3, <2>4, <2>5 DEF ServerMoves, ServerAdvances
<1>4. CASE c # e
  <2>1. PICK x : toS' = [toS EXCEPT ![e][srv[e]] = x]
    BY <1>2 DEF Heard
  <2>2. toS'[c][k] = toS[c][k]
    BY <1>0, <1>4, <2>1, OneStream
  <2>3. ServerPhase(c, k)' = ServerPhase(c, k)
    <3>1. CASE ControlHears /\ e = "control"
      BY <1>0, <1>1, <1>4, <3>1 DEF ServerPhase, ControlHears, Base, Direction, ForkedServer
    <3>2. CASE EngineHears /\ e = "data"
      BY <1>0, <1>1, <1>4, <3>2 DEF ServerPhase, EngineHears
    <3> QED BY <1>2, <3>1, <3>2
  <2> QED BY <1>0, <1>1, <2>2, <2>3 DEF ServerMoves, ServerAdvances
<1> QED BY <1>3, <1>4

LEMMA EndMoves ==
  ASSUME Base, Connected, ServerGone \/ myServerExit \/ errorToStartEngine,
         NEW c \in Channels, NEW k \in Conns, Joined(c, k)'
  PROVE  Joined(c, k) /\ ServerMoves(c, k)
<1>1. CASE ServerGone
  <2>1. held'[c] = {} /\ (reverse' \/ backlog'[c] = <<>>)
    BY <1>1 DEF ServerGone, options
  <2> QED BY <2>1 DEF Joined, ServerEnds, Queued, Contains
<1>2. CASE myServerExit
  <2>1. held'[c] = {} /\ UNCHANGED <<reverse, backlog>> /\ spc = "serving"
    BY <1>2 DEF myServerExit, options, socketVars
  <2> QED BY <2>1, NobodyWaits DEF Joined, ServerEnds, Queued
<1>3. CASE errorToStartEngine
  <2>0. held \in [Channels -> SUBSET {"ox", "child"}]
    BY Types
  <2>1. /\ UNCHANGED <<reverse, serverPass, cpc, cli, spc, srv, backlog, toC, toS>> /\ epc = "failed" /\ epc' = "gone"
        /\ spc \notin SingleServer /\ held' = [held EXCEPT !["data"] = @ \ {"child"}]
    BY <1>3 DEF errorToStartEngine, options, clientVars, socketVars, Base, Direction, SingleServer
  <2>2. \A d \in Channels : srv[d] # 0 /\ held'[d] # {} => held[d] # {}
    BY <2>0, <2>1
  <2>3. Joined(c, k)
    BY <2>1, <2>2, ServedJoined DEF SingleServer
  <2>4. ServerPhase(c, k)' = ServerPhase(c, k)
    BY <2>1 DEF ServerPhase
  <2> QED BY <2>1, <2>3, <2>4 DEF ServerMoves, ServerAdvances
<1> QED BY <1>1, <1>2, <1>3

LEMMA EveryServerMoves ==
  ASSUME Base, Connected, ServerStep \/ ServerGone \/ ForkedStep, NEW c \in Channels, NEW k \in Conns, Joined(c, k)'
  PROVE  (Joined(c, k) /\ ServerMoves(c, k)) \/ MadeByServer(c, k)
<1>1. "control" \in Channels /\ "data" \in Channels
  BY DEF Channels
<1>2. CASE ServerStep
  <2>1. CASE socketAccept("data", "acceptData", IF serverPass = "none" THEN "fork" ELSE "readPassControl")
    <3>1. CASE serverPass = "none"
      BY <1>1, <2>1, <3>1, ServerAcceptMoves
    <3>2. CASE serverPass # "none"
      BY <1>1, <2>1, <3>2, ServerAcceptMoves
    <3> QED BY <3>1, <3>2
  <2> QED BY <1>1, <1>2, <2>1, OpenMoves, ServerConnectMoves, ServerAcceptMoves, ServerReadMoves, ForkMoves, EndMoves
          DEF ServerStep, Refuse
<1>3. CASE ForkedStep
  BY <1>3, OpenMoves, TellMoves, HearMoves, EndMoves DEF ForkedStep
<1> QED BY <1>2, <1>3, EndMoves

----------------------------------------------------------------------------
(***************************************************************************)
(* The two theorems.                                                       *)
(***************************************************************************)
LEMMA LinksInductive ==
  ASSUME Base, Connected, ToClient, ToServer, [Next]_vars
  PROVE  ToClient' /\ ToServer'
<1>0. /\ UNCHANGED <<reverse, serverPass, clientPass>> /\ serverPass \in Passwords /\ reverse \in BOOLEAN
      /\ Agreed' = Agreed
  BY Types, ByClient, ByServer DEF Next, vars, options, Agreed
<1> SUFFICES ASSUME Agreed \/ ~reverse, NEW c \in Channels, NEW k \in Conns, Joined(c, k)'
             PROVE  /\ ToClientOK(ClientPhase(c, k), ServerPhase(c, k), toC[c][k])'
                    /\ Agreed => ToServerOK(ClientPhase(c, k), ServerPhase(c, k), toS[c][k])'
  BY <1>0 DEF ToClient, ToServer
<1> DEFINE cp == ClientPhase(c, k)  sp == ServerPhase(c, k)
<1>1. cp \in 0 .. 2 /\ sp \in 0 .. 3
  BY ClientPhaseIs, ServerPhaseIs
<1>2. ASSUME Joined(c, k)
      PROVE  ToClientOK(cp, sp, toC[c][k]) /\ (Agreed => ToServerOK(cp, sp, toS[c][k]))
  BY <1>2 DEF ToClient, ToServer
<1>3. SUFFICES /\ ToClientOK(cp', sp', toC'[c][k])
               /\ Agreed => ToServerOK(cp', sp', toS'[c][k])
  BY <1>0 DEF ToClientOK, ToServerOK, Fits
<1>4. CASE Call \/ ClientStep \/ cancelConnection \/ ClientExits
  <2>1. sp' = sp
    BY <1>4, ByClient DEF ServerPhase
  <2>2. CASE Joined(c, k) /\ ClientMoves(c, k)
    BY <1>0, <1>1, <1>2, <2>1, <2>2, ClientKeeps DEF ClientMoves
  <2>3. CASE MadeByClient(c, k)
    BY <1>0, <2>1, <2>3 DEF MadeByClient, ToClientOK, ToServerOK, Fits, Agreed
  <2> QED BY <1>4, <2>2, <2>3, EveryClientMoves
<1>5. CASE ServerStep \/ ServerGone \/ ForkedStep
  <2>1. cp' = cp
    BY <1>5, ByServer DEF ClientPhase
  <2>2. CASE Joined(c, k) /\ ServerMoves(c, k)
    BY <1>0, <1>1, <1>2, <2>1, <2>2, ServerKeeps DEF ServerMoves
  <2>3. CASE MadeByServer(c, k)
    BY <1>0, <2>1, <2>3 DEF MadeByServer, ToClientOK, ToServerOK, Fits
  <2> QED BY <1>5, <2>2, <2>3, EveryServerMoves
<1>6. CASE UNCHANGED vars
  <2>1. UNCHANGED <<cp, sp, toC, toS>> /\ Joined(c, k)
    BY <1>6 DEF vars, options, clientVars, serverVars, socketVars, ClientPhase, ServerPhase, Joined, Queued, ServerEnds
  <2> QED BY <1>2, <2>1
<1> QED BY <1>4, <1>5, <1>6 DEF Next

LEMMA StreamsInductive ==
  ASSUME StreamsInvariant, [Next]_vars
  PROVE  StreamsInvariant'
<1>1. StartInvariant'
  BY BaseInductive, OwnPasswordsInductive, NumberedInductive, CheckedInductive DEF StreamsInvariant, StartInvariant
<1>2. Connected'
  BY ClientEndInductive, ServerEndInductive, QueuedListeningInductive, ReverseQueueInductive, UnusedInductive,
     StraddlingInductive DEF StreamsInvariant, StartInvariant, Connected
<1> QED BY <1>1, <1>2, LinksInductive DEF StreamsInvariant, StartInvariant

LEMMA ClientObject ==
  ASSUME StreamsInvariant, cpc = "client", NEW c \in Channels
  PROVE  /\ cli[c] \in Conns /\ ClientPhase(c, cli[c]) = 2
         /\ srv[c] = cli[c] /\ held[c] # {} /\ spc # "refusing" => Joined(c, cli[c])
<1>1. cli[c] # 0 /\ cli[c] \in Descriptors /\ cpc \in Live
  BY Types DEF StreamsInvariant, StartInvariant, Connected, ClientEnd, Late, Live
<1>2. cli[c] \in Conns
  BY <1>1, MaxCallsAssumption DEF Conns, Descriptors
<1>3. ClientPhase(c, cli[c]) = 2
  BY DEF ClientPhase
<1> QED BY <1>1, <1>2, <1>3 DEF Joined, ServerEnds

LEMMA NothingLeft == StreamsInvariant => NothingLeftOver
<1> SUFFICES ASSUME StreamsInvariant, Agreed, cpc = "client", cli = srv, epc = "running"
             PROVE  /\ toC["data"][cli["data"]] = <<>> /\ toS["data"][cli["data"]] = <<>>
                    /\ spc = "serving" =>
                         toC["control"][cli["control"]] = <<>> /\ toS["control"][cli["control"]] = <<>>
  BY DEF NothingLeftOver
<1>1. spc # "refusing" /\ "control" \in Channels /\ "data" \in Channels
  BY DEF StreamsInvariant, StartInvariant, Base, Direction, SingleServer, Channels
<1>2. ASSUME NEW c \in Channels, held[c] # {}, ServerPhase(c, cli[c]) = 3
      PROVE  toC[c][cli[c]] = <<>> /\ toS[c][cli[c]] = <<>>
  <2>1. cli[c] \in Conns /\ ClientPhase(c, cli[c]) = 2 /\ Joined(c, cli[c])
    BY <1>1, <1>2, ClientObject
  <2>2. ToClientOK(2, 3, toC[c][cli[c]]) /\ ToServerOK(2, 3, toS[c][cli[c]])
    BY <1>2, <2>1 DEF StreamsInvariant, ToClient, ToServer
  <2> QED BY <2>2 DEF ToClientOK, ToServerOK, Fits
<1>3. held["data"] # {} /\ ServerPhase("data", cli["data"]) = 3
  <2>1. srv["data"] # 0
    BY <1>1, ClientObject, Constants DEF Conns
  <2> QED BY <1>1, <2>1 DEF StreamsInvariant, Connected, ServerEnd, ServerPhase
<1>4. CASE spc = "serving"
  <2>1. srv["control"] # 0
    BY <1>1, ClientObject, Constants DEF Conns
  <2>2. held["control"] # {} /\ ServerPhase("control", cli["control"]) = 3
    BY <1>1, <1>4, <2>1 DEF StreamsInvariant, Connected, ServerEnd, ServerPhase
  <2> QED BY <1>1, <1>2, <1>3, <2>2
<1> QED BY <1>1, <1>2, <1>3, <1>4

LEMMA EngineExecuted == StreamsInvariant => ObjectHasEngine
<1> SUFFICES ASSUME StreamsInvariant, cpc = "client", spc \in ForkedServer,
                    reverse => /\ clientPass # "none" \/ serverPass = "none"
                               /\ ~Longer(serverPass, clientPass)
             PROVE  epc \in {"await", "running"}
  BY DEF ObjectHasEngine
<1> DEFINE k == cli["data"]
<1>1. /\ "data" \in Channels /\ spc # "refusing" /\ spc # "gone" /\ epc # "none" /\ spc # "acceptData"
      /\ reverse \in BOOLEAN /\ cpc \in Late
      /\ epc \in {"none", "exec", "failed", "tell", "await", "running", "gone"}
  BY DEF StreamsInvariant, StartInvariant, Base, StartTypeOK, Direction, ForkedServer, Channels, Late
<1>2. Agreed \/ ~reverse
  BY DEF StreamsInvariant, StartInvariant, Checked, Agreed, Begins
<1>3. k \in Conns /\ k # 0 /\ ClientPhase("data", k) = 2
  BY <1>1, ClientObject, Constants DEF Conns
<1>4. srv["data"] = k
  <2>1. CASE reverse
    BY <1>1, <1>3, <2>1 DEF StreamsInvariant, Connected, ReverseQueue
  <2>2. CASE ~reverse
    BY <1>1, <2>2 DEF StreamsInvariant, Connected, Straddling
  <2> QED BY <1>1, <2>1, <2>2
<1>5. held["data"] # {}
  BY <1>1, <1>3, <1>4 DEF StreamsInvariant, Connected, ServerEnd
<1>6. Joined("data", k)
  BY <1>1, <1>4, <1>5, ClientObject
<1>7. ServerPhase("data", k) >= 2
  BY <1>1, <1>2, <1>3, <1>6 DEF StreamsInvariant, ToClient, ToClientOK
<1>8. epc \in {"exec", "failed", "tell", "gone"} => ServerPhase("data", k) = 1
  BY <1>1, <1>4, ServerPhaseIs
<1> QED BY <1>1, <1>7, <1>8

\* When both sides have been given the same passwords and both channels are exchanged, no byte
\* of a password or of the byte order is left on the connections, for any number of calls of
\* the client: each of the three processes has taken just what was sent to it.
THEOREM StreamsAreClean == Spec => []NothingLeftOver
<1>1. Init => StreamsInvariant
  BY InitInvariant, InitStreams DEF StreamsInvariant
<1>2. StreamsInvariant /\ [Next]_vars => StreamsInvariant'
  BY StreamsInductive
<1> QED BY <1>1, <1>2, NothingLeft, PTL DEF Spec

\* While the control server lives, who has a client object has an engine that was executed
\* (but for a client that asks a server with -reverse for no password, or for one that is
\* shorter than what it sends): the
\* client takes for the byte order only what an engine has sent, since the control server holds
\* the data socket open and of the calls that reach a listening server one has both its sockets.
THEOREM ObjectMeansEngine == Spec => []ObjectHasEngine
<1>1. Init => StreamsInvariant
  BY InitInvariant, InitStreams DEF StreamsInvariant
<1>2. StreamsInvariant /\ [Next]_vars => StreamsInvariant'
  BY StreamsInductive
<1> QED BY <1>1, <1>2, EngineExecuted, PTL DEF Spec

=============================================================================
