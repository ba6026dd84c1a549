------------------------------ MODULE OxStart ------------------------------
(***************************************************************************)
(* How a session comes to exist: the two sockets, the passwords, the fork  *)
(* of the control server, the exec of the engine, and the byte each of     *)
(* them exchanges with the client before the first OX message.             *)
(*                                                                         *)
(* With -reverse the server process of kxx/oxmain.c connects to the        *)
(* sockets of a client that calls oxCreateClient2 under a 20 second alarm; *)
(* otherwise it listens and the client calls oxCreateClient (oxmisc.c).    *)
(* A client may call again when it has got NULL: a call that connects      *)
(* makes connection number calls, the server with -reverse makes number 1. *)
(*                                                                         *)
(* A token on a connection is a password with its final zero byte, "rest"  *)
(* (what is left of one when its first bytes have been taken) or "order",  *)
(* the byte order.  "px" is "p" with one more character.  Each side has    *)
(* one password for both channels, or none.  Left out: peers that are not  *)
(* local, calls that fail for lack of memory or descriptors except fork,   *)
(* and bytes lost to a reset.                                              *)
(***************************************************************************)
EXTENDS Naturals, Sequences, SequencesExt

CONSTANT MaxCalls    \* bound of the model: calls of the client

ASSUME MaxCallsAssumption == MaxCalls \in Nat \ {0}

Channels == {"control", "data"}
Conns == 1 .. MaxCalls
Descriptors == 0 .. MaxCalls     \* a connection, or 0 for -1
Passwords == {"none", "p", "px", "q"}
Tokens == (Passwords \ {"none"}) \cup {"rest", "order"}

VARIABLES
  reverse, serverPass, clientPass,   \* the options, which do not change
  cpc, calls,
  alarm,         \* SIGALRM in the client: "off", "armed" or "ignored"
  cli,           \* the connection that the call, or the client object, has; 0 for -1
  opened,        \* client's descriptors: <<channel, connection>>
  listening,     \* channels with a listening socket
  backlog,       \* connections that are not accepted yet
  spc,           \* the server process, after the fork the control server
  epc,           \* its child, the engine
  srv,           \* the connection that the server has; 0 for -1
  held,          \* the server's processes that have it open
  toC, toS       \* tokens under way

options == <<reverse, serverPass, clientPass>>
clientVars == <<cpc, calls, alarm, cli, opened>>
socketVars == <<listening, backlog>>
serverVars == <<spc, epc, srv, held>>
vars == <<options, clientVars, socketVars, serverVars, toC, toS>>

Connecting == {"connectControl", "connectData", "sendPassControl", "sendPassData",
               "acceptControl", "acceptData", "readPassControl", "readPassData"}
Exchanging == {"orderControl", "orderData"}
ForkedServer == {"tell", "await", "serving"}
SingleServer == {"find", "connectControl", "connectData", "openControl", "acceptControl",
                 "openData", "acceptData", "readPassControl", "readPassData", "refusing", "fork"}

\* Types; who holds a channel open has one, and only a client with -reverse sets the alarm.
StartTypeOK ==
  /\ reverse \in BOOLEAN /\ serverPass \in Passwords /\ clientPass \in Passwords
  /\ cpc \in Connecting \cup Exchanging \cup {"idle", "null", "client", "lost", "gone"}
  /\ calls \in 0 .. MaxCalls
  /\ alarm \in {"off", "armed", "ignored"}
  /\ cli \in [Channels -> Descriptors] /\ srv \in [Channels -> Descriptors]
  /\ opened \subseteq Channels \X Conns
  /\ listening \subseteq Channels
  /\ backlog \in [Channels -> Seq(Conns)]
  /\ spc \in SingleServer \cup ForkedServer \cup {"gone"}
  /\ epc \in {"none", "exec", "failed", "tell", "await", "running", "gone"}
  /\ held \in [Channels -> SUBSET {"ox", "child"}]
  /\ \A c \in Channels : srv[c] = 0 => held[c] = {}
  /\ alarm # "off" => reverse
  /\ toC \in [Channels -> [Descriptors -> Seq(Tokens)]]
  /\ toS \in [Channels -> [Descriptors -> Seq(Tokens)]]

\* KoxGetPort has made both sockets before the server is launched with -reverse.
Init ==
  /\ reverse \in BOOLEAN /\ serverPass \in Passwords \ {"q"} /\ clientPass \in Passwords
  /\ cpc = "idle" /\ calls = 0 /\ alarm = "off"
  /\ cli = [c \in Channels |-> 0] /\ srv = [c \in Channels |-> 0]
  /\ opened = {}
  /\ listening = IF reverse THEN Channels ELSE {}
  /\ backlog = [c \in Channels |-> <<>>]
  /\ spc = "find" /\ epc = "none"
  /\ held = [c \in Channels |-> {}]
  /\ toC = [c \in Channels |-> [k \in Descriptors |-> <<>>]]
  /\ toS = [c \in Channels |-> [k \in Descriptors |-> <<>>]]

----------------------------------------------------------------------------
(***************************************************************************)
(* Connections.  At the end of a stream, and on the descriptor -1, read(2) *)
(* returns at once without a byte, and its result is not looked at.        *)
(***************************************************************************)

Queued(c, k) == Contains(backlog[c], k)

ServerEnds(c, k) == (srv[c] = k /\ held[c] # {}) \/ (~reverse /\ Queued(c, k))
ClientEnds(c, k) == <<c, k>> \in opened \/ (reverse /\ Queued(c, k))

Connect(c, k) ==
  /\ backlog' = [backlog EXCEPT ![c] = Append(@, k)]
  /\ UNCHANGED listening

\* accept(2), then the listening socket is closed: who still waits there is refused.
AcceptFirst(c) ==
  /\ backlog' = [backlog EXCEPT ![c] = <<>>]
  /\ listening' = listening \ {c}

Sent(stream, c, k, token) == [stream EXCEPT ![c][k] = Append(@, token)]

\* The stream after a read(2) of one byte.
ByteTaken(s) == IF s = <<>> THEN <<>>
                ELSE IF Head(s) \in Passwords THEN <<"rest">> \o Tail(s)
                ELSE Tail(s)

TailOf(s) == IF s = <<>> THEN <<>> ELSE Tail(s)

(***************************************************************************)
(* A password is read in as many bytes as the one that is asked for has,   *)
(* with its zero.  Of a longer one something is left on the stream, and    *)
(* where what was read is cut to the length of the one asked for, it is    *)
(* taken for this when it begins with it.                                  *)
(***************************************************************************)
Longer(sent, asked) == sent = "px" /\ asked = "p"

Begins(sent, asked) == sent = asked \/ Longer(sent, asked)

Offers(s, asked) == s # <<>> /\ Begins(Head(s), asked)

PassTaken(s, asked) ==
  IF s # <<>> /\ Longer(Head(s), asked) THEN <<"rest">> \o Tail(s) ELSE TailOf(s)

----------------------------------------------------------------------------
(***************************************************************************)
(* The client.                                                             *)
(***************************************************************************)
ClientCanRead(c) == toC[c][cli[c]] # <<>> \/ ~ServerEnds(c, cli[c])

\* oxCreateClient2 sets the alarm.
Call ==
  /\ cpc = "idle" /\ calls < MaxCalls
  /\ calls' = calls + 1
  /\ cli' = [c \in Channels |-> 0]
  /\ IF reverse THEN cpc' = "acceptControl" /\ alarm' = "armed"
                ELSE cpc' = "connectControl" /\ UNCHANGED alarm
  /\ UNCHANGED <<options, opened, socketVars, serverVars, toC, toS>>

\* NULL is returned to KoxCreateClient2 or KoxCreateClient as it is: oxCreateClient2 does not
\* take its alarm back.
ReturnsNull == cpc' = "null" /\ UNCHANGED alarm

\* Mutant: the alarm is left armed.
errorKan1Only ==
  /\ cpc = "null"
  /\ cpc' = "idle"
  /\ UNCHANGED <<options, calls, alarm, cli, opened, socketVars, serverVars, toC, toS>>

\* The caller makes an error of NULL, and the error cancels any alarm (cancelAlarm).
errorKan1 ==
  /\ cpc = "null"
  /\ cpc' = "idle" /\ alarm' = "off"
  /\ UNCHANGED <<options, calls, cli, opened, socketVars, serverVars, toC, toS>>

\* What follows the last accept(2) or connect(2): NULL, the passwords, or the byte order.
AfterSockets(withPass) ==
  IF cli'["control"] = 0 \/ cli'["data"] = 0
    THEN ReturnsNull
  ELSE IF clientPass # "none" THEN cpc' = withPass /\ UNCHANGED alarm
  ELSE cpc' = "orderControl" /\ alarm' = IF reverse THEN "ignored" ELSE alarm

\* accept(2) waits for a connection, or fails where an earlier call has closed the socket.
Accept(c) ==
  \/ /\ backlog[c] # <<>>
     /\ cli' = [cli EXCEPT ![c] = Head(backlog[c])]
     /\ opened' = opened \cup {<<c, Head(backlog[c])>>}
     /\ AcceptFirst(c)
  \/ /\ c \notin listening
     /\ UNCHANGED <<cli, opened, socketVars>>

AcceptControl ==
  /\ cpc = "acceptControl" /\ Accept("control")
  /\ cpc' = "acceptData"
  /\ UNCHANGED <<options, calls, alarm, serverVars, toC, toS>>

AcceptData ==
  /\ cpc = "acceptData" /\ Accept("data")
  /\ AfterSockets("readPassControl")
  /\ UNCHANGED <<options, calls, serverVars, toC, toS>>

\* socketConnect is refused where nobody listens.
ConnectTo(c) ==
  IF c \in listening
    THEN /\ cli' = [cli EXCEPT ![c] = calls]
         /\ opened' = opened \cup {<<c, calls>>}
         /\ Connect(c, calls)
    ELSE UNCHANGED <<cli, opened, socketVars>>

ConnectControl ==
  /\ cpc = "connectControl" /\ ConnectTo("control")
  /\ cpc' = "connectData"
  /\ UNCHANGED <<options, calls, alarm, serverVars, toC, toS>>

ConnectData ==
  /\ cpc = "connectData" /\ ConnectTo("data")
  /\ AfterSockets("sendPassControl")
  /\ UNCHANGED <<options, calls, serverVars, toC, toS>>

SendPass(c, pc, next) ==
  /\ cpc = pc
  /\ toS' = Sent(toS, c, cli[c], clientPass)
  /\ cpc' = next
  /\ UNCHANGED <<options, calls, alarm, cli, opened, socketVars, serverVars, toC>>

\* Mutant: the password is not compared.
ReadPassUnchecked(c, pc, next) ==
  /\ cpc = pc /\ ClientCanRead(c)
  /\ toC' = [toC EXCEPT ![c][cli[c]] = PassTaken(@, clientPass)]
  /\ cpc' = next
  /\ alarm' = IF next = "orderControl" THEN "ignored" ELSE alarm
  /\ UNCHANGED <<options, calls, cli, opened, socketVars, serverVars, toS>>

\* The password of the server, cut to the length of the client's own; or NULL after closing
\* this channel.
ReadPass(c, pc, next) ==
  /\ cpc = pc /\ ClientCanRead(c)
  /\ toC' = [toC EXCEPT ![c][cli[c]] = PassTaken(@, clientPass)]
  /\ IF Offers(toC[c][cli[c]], clientPass)
       THEN /\ cpc' = next /\ UNCHANGED opened
            /\ alarm' = IF next = "orderControl" THEN "ignored" ELSE alarm
       ELSE ReturnsNull /\ opened' = opened \ {<<c, cli[c]>>}
  /\ UNCHANGED <<options, calls, cli, socketVars, serverVars, toS>>

\* Mutant: write and then read.
oxSetByteOrderFirst(c, pc, next) ==
  /\ cpc = pc
  /\ toC' = [toC EXCEPT ![c][cli[c]] = ByteTaken(@)]
  /\ toS' = Sent(toS, c, cli[c], "order")
  /\ cpc' = next
  /\ UNCHANGED <<options, calls, alarm, cli, opened, socketVars, serverVars>>

\* oxSetByteOrder: read and next write.
oxSetByteOrder(c, pc, next) ==
  /\ cpc = pc /\ ClientCanRead(c)
  /\ toC' = [toC EXCEPT ![c][cli[c]] = ByteTaken(@)]
  /\ toS' = Sent(toS, c, cli[c], "order")
  /\ cpc' = next
  /\ UNCHANGED <<options, calls, alarm, cli, opened, socketVars, serverVars>>

\* Mutant: a call that is waiting goes on.
cancelConnectionIdle ==
  /\ alarm = "armed"
  /\ alarm' = "ignored"
  /\ UNCHANGED <<options, cpc, calls, cli, opened, socketVars, serverVars, toC, toS>>

\* SIGALRM: the call returns NULL and leaves its sockets open.  If oxCreateClient2 has
\* returned, the jump goes to a stack frame that is no more.
cancelConnection ==
  /\ alarm = "armed"
  /\ alarm' = "off"
  /\ cpc' = IF cpc \in Connecting THEN "null" ELSE "lost"
  /\ UNCHANGED <<options, calls, cli, opened, socketVars, serverVars, toC, toS>>

ClientExits ==
  /\ cpc # "gone"
  /\ cpc' = "gone" /\ alarm' = "off" /\ opened' = {}
  /\ IF reverse THEN listening' = {} /\ backlog' = [c \in Channels |-> <<>>]
                ELSE UNCHANGED socketVars
  /\ UNCHANGED <<options, calls, cli, serverVars, toC, toS>>

ClientStep ==
  \/ AcceptControl \/ AcceptData \/ ConnectControl \/ ConnectData
  \/ SendPass("control", "sendPassControl", "sendPassData")
  \/ SendPass("data", "sendPassData", "orderControl")
  \/ ReadPass("control", "readPassControl", "readPassData")
  \/ ReadPass("data", "readPassData", "orderControl")
  \/ oxSetByteOrder("control", "orderControl", "orderData")
  \/ oxSetByteOrder("data", "orderData", "client")
  \/ errorKan1

----------------------------------------------------------------------------
(***************************************************************************)
(* The server process until it forks.                                      *)
(***************************************************************************)
ServerCanRead(c) == toS[c][srv[c]] # <<>> \/ ~ClientEnds(c, srv[c])

\* findOxServer, before any socket is opened.
FindServer ==
  /\ spc = "find"
  /\ spc' \in {IF reverse THEN "connectControl" ELSE "openControl", "gone"}
  /\ UNCHANGED <<options, clientVars, socketVars, epc, srv, held, toC, toS>>

\* socketConnectWithPass; a failure is noted in the descriptor only.
ServerConnects(c, pc, next) ==
  /\ spc = pc
  /\ spc' = next
  /\ IF c \in listening
       THEN /\ Connect(c, 1)
            /\ srv' = [srv EXCEPT ![c] = 1] /\ held' = [held EXCEPT ![c] = {"ox"}]
            /\ toC' = IF serverPass = "none" THEN toC ELSE Sent(toC, c, 1, serverPass)
       ELSE UNCHANGED <<socketVars, srv, held, toC>>
  /\ UNCHANGED <<options, clientVars, epc, toS>>

socketOpen(c, pc, next) ==
  /\ spc = pc
  /\ spc' = next
  /\ listening' = listening \cup {c}
  /\ UNCHANGED <<options, clientVars, backlog, epc, srv, held, toC, toS>>

socketAccept(c, pc, next) ==
  /\ spc = pc /\ backlog[c] # <<>>
  /\ spc' = next
  /\ srv' = [srv EXCEPT ![c] = Head(backlog[c])]
  /\ held' = [held EXCEPT ![c] = {"ox"}]
  /\ AcceptFirst(c)
  /\ UNCHANGED <<options, clientVars, epc, toC, toS>>

\* Mutant: the password is not compared.
ServerReadsPassUnchecked(c, pc, next) ==
  /\ spc = pc /\ ServerCanRead(c)
  /\ toS' = [toS EXCEPT ![c][srv[c]] = PassTaken(@, serverPass)]
  /\ spc' = next
  /\ UNCHANGED <<options, clientVars, socketVars, epc, srv, held, toC>>

\* The control server's reading is cut to the length of its password as the client's is, that
\* of the data channel is not: there another zero or character counts, and at the end of the
\* stream what is compared is a buffer that was not written.
Matches(c, s) ==
  IF c = "control" THEN Offers(s, serverPass) ELSE s # <<>> /\ Head(s) = serverPass

ServerReadsPass(c, pc, next) ==
  /\ spc = pc /\ ServerCanRead(c)
  /\ toS' = [toS EXCEPT ![c][srv[c]] = PassTaken(@, serverPass)]
  /\ \/ spc' = next /\ Matches(c, toS[c][srv[c]])
     \/ spc' = next /\ toS[c][srv[c]] = <<>> /\ c = "data"
     \/ spc' = "refusing" /\ ~Matches(c, toS[c][srv[c]])
  /\ UNCHANGED <<options, clientVars, socketVars, epc, srv, held, toC>>

\* The end of the process, after a refusal or at any moment before the fork.
ServerGone ==
  /\ spc \in SingleServer
  /\ spc' = "gone"
  /\ held' = [c \in Channels |-> {}]
  /\ IF reverse THEN UNCHANGED socketVars
                ELSE listening' = {} /\ backlog' = [c \in Channels |-> <<>>]
  /\ UNCHANGED <<options, clientVars, epc, srv, toC, toS>>

Refuse == spc = "refusing" /\ ServerGone

\* Mutant: the control server closes its copy of the data socket.
ForkClosing ==
  /\ spc = "fork"
  /\ epc' = "exec"
  /\ \/ /\ spc' = "tell"
        /\ held' = [held EXCEPT !["data"] = IF srv["data"] = 0 THEN {} ELSE {"child"}]
     \/ /\ spc' = "gone"
        /\ held' = [c \in Channels |-> IF c = "data" /\ srv[c] # 0 THEN {"child"} ELSE {}]
  /\ UNCHANGED <<options, clientVars, socketVars, srv, toC, toS>>

\* Mutant: the fork does not ask whether there is a data socket.
ForkHolding ==
  /\ spc = "fork"
  /\ epc' = "exec"
  /\ spc' = "tell" /\ held' = [held EXCEPT !["data"] = {"ox", "child"}]
  /\ UNCHANGED <<options, clientVars, socketVars, srv, toC, toS>>

\* fork(2), or its failure: then this process goes on as the engine.
Fork ==
  /\ spc = "fork"
  /\ epc' = "exec"
  /\ \/ /\ spc' = "tell"
        /\ held' = [held EXCEPT !["data"] = IF srv["data"] = 0 THEN {} ELSE {"ox", "child"}]
     \/ /\ spc' = "gone"
        /\ held' = [c \in Channels |-> IF c = "data" /\ srv[c] # 0 THEN {"child"} ELSE {}]
  /\ UNCHANGED <<options, clientVars, socketVars, srv, toC, toS>>

ServerStep ==
  \/ FindServer
  \/ ServerConnects("control", "connectControl", "connectData")
  \/ ServerConnects("data", "connectData", "fork")
  \/ socketOpen("control", "openControl", "acceptControl")
  \/ socketAccept("control", "acceptControl", "openData")
  \/ socketOpen("data", "openData", "acceptData")
  \/ socketAccept("data", "acceptData", IF serverPass = "none" THEN "fork" ELSE "readPassControl")
  \/ ServerReadsPass("control", "readPassControl", "readPassData")
  \/ ServerReadsPass("data", "readPassData", "fork")
  \/ Refuse \/ Fork

----------------------------------------------------------------------------
(***************************************************************************)
(* The control server and the engine.  oxTellMyByteOrder: write and next   *)
(* read.                                                                   *)
(***************************************************************************)
Told(c) == toC' = IF srv[c] = 0 THEN toC ELSE Sent(toC, c, srv[c], "order")

Heard(c) ==
  /\ ServerCanRead(c)
  /\ toS' = [toS EXCEPT ![c][srv[c]] = ByteTaken(@)]

ControlTells ==
  /\ spc = "tell" /\ Told("control")
  /\ spc' = "await"
  /\ UNCHANGED <<options, clientVars, socketVars, epc, srv, held, toS>>

ControlHears ==
  /\ spc = "await" /\ Heard("control")
  /\ spc' = "serving"
  /\ UNCHANGED <<options, clientVars, socketVars, epc, srv, held, toC>>

\* Mutant: the engine is left to itself.
myServerExitAlone ==
  /\ spc = "serving" /\ ServerCanRead("control")
  /\ spc' = "gone"
  /\ held' = [control |-> {}, data |-> held["data"] \ {"ox"}]
  /\ UNCHANGED <<options, clientVars, socketVars, epc, srv, toC, toS>>

\* What is not a request, the end of the stream included, ends control server and engine.
myServerExit ==
  /\ spc = "serving" /\ ServerCanRead("control")
  /\ spc' = "gone" /\ epc' = "gone"
  /\ held' = [c \in Channels |-> {}]
  /\ UNCHANGED <<options, clientVars, socketVars, srv, toC, toS>>

\* execle(2) of the engine, or its failure: nobody is told.
Exec ==
  /\ epc = "exec"
  /\ epc' \in {"tell", "failed"}
  /\ UNCHANGED <<options, clientVars, socketVars, spc, srv, held, toC, toS>>

errorToStartEngine ==
  /\ epc = "failed"
  /\ epc' = "gone"
  /\ held' = [held EXCEPT !["data"] = @ \ {"child"}]
  /\ UNCHANGED <<options, clientVars, socketVars, spc, srv, toC, toS>>

EngineTells ==
  /\ epc = "tell" /\ Told("data")
  /\ epc' = "await"
  /\ UNCHANGED <<options, clientVars, socketVars, spc, srv, held, toS>>

EngineHears ==
  /\ epc = "await" /\ Heard("data")
  /\ epc' = "running"
  /\ UNCHANGED <<options, clientVars, socketVars, spc, srv, held, toC>>

ForkedStep ==
  \/ ControlTells \/ ControlHears \/ myServerExit
  \/ Exec \/ errorToStartEngine \/ EngineTells \/ EngineHears

----------------------------------------------------------------------------
Next ==
  \/ Call \/ ClientStep \/ cancelConnection \/ ClientExits
  \/ ServerStep \/ ServerGone \/ ForkedStep

Spec == Init /\ [][Next]_vars

\* Three processes and the alarm clock.  A user need not call, and nothing dies by itself.
FairSpec ==
  /\ Spec
  /\ WF_vars(ClientStep) /\ WF_vars(cancelConnection) /\ WF_vars(ServerStep)
  /\ WF_vars(ControlTells \/ ControlHears \/ myServerExit)
  /\ WF_vars(Exec \/ errorToStartEngine \/ EngineTells \/ EngineHears)

----------------------------------------------------------------------------
(***************************************************************************)
(* Properties.                                                             *)
(***************************************************************************)

\* The two sides have been given the same password, or none.
Agreed == serverPass = clientPass

\* Safety: when both sides have been given the same passwords and both channels are
\* exchanged, nothing of a password or of the byte order is left under way: the first byte
\* that each side reads next is one of an OX message.  Three processes and two channels
\* send and receive these bytes with nothing but an agreed order of reads and writes.
NothingLeftOver ==
  Agreed /\ cpc = "client" /\ cli = srv /\ epc = "running" =>
    /\ toC["data"][cli["data"]] = <<>> /\ toS["data"][cli["data"]] = <<>>
    /\ spc = "serving" =>
         toC["control"][cli["control"]] = <<>> /\ toS["control"][cli["control"]] = <<>>

\* Safety: who asks for a password gets no session with a peer that has sent none or one that
\* does not begin with it; a listening server, which must also match on the data channel,
\* none with a peer that has sent another one.  A client that dies can make a listening
\* server compare a buffer that was never written, so that case says nothing of a living
\* client.
RefusesWrongPassword ==
  /\ reverse /\ cpc = "client" => clientPass = "none" \/ Begins(serverPass, clientPass)
  /\ ~reverse /\ epc = "running" /\ <<"data", srv["data"]>> \in opened =>
       serverPass \in {"none", clientPass}

\* Safety: while the control server lives, a client object has an engine that was executed.
\* (Not with -reverse and a server whose password is longer than the one asked for, or that
\* sends one to a client that asks for none: the client takes a byte of it for the byte order.)
\* The client would take the end of the data stream for the byte order; it is the copy of
\* the data socket in the control server that keeps it waiting when the exec has failed.
ObjectHasEngine ==
  cpc = "client" /\ spc \in ForkedServer
    /\ (reverse => /\ clientPass # "none" \/ serverPass = "none"
                   /\ ~Longer(serverPass, clientPass))
  => epc \in {"await", "running"}

\* The ways for a call to wait for ever: an engine that could not be executed (the control
\* server keeps the data channel open and tells nobody: errorToStartEngine), a server that
\* wants a password of a client that sends none, and one that wants it on the control
\* channel of an earlier call, which oxCreateClient has left open.
NobodyAnswers ==
  \/ epc = "gone" /\ "ox" \in held["data"]
  \/ ~reverse /\ clientPass = "none" /\ serverPass # "none"
  \/ spc = "readPassControl" /\ srv["control"] < cli["control"]

\* Liveness: a call ends, with an error or an object, in all but these cases and that of an
\* alarm between NULL and the error.
CallReturns ==
  cpc \in Connecting \cup Exchanging \cup {"null"} ~>
    cpc \in {"idle", "client", "gone", "lost"} \/ NobodyAnswers

\* Liveness: no server survives its client: control server and engine end when the client
\* has gone, at whatever point of the handshake.
NoOrphanServer ==
  cpc = "gone" /\ spc \in ForkedServer ~> spc = "gone" /\ epc = "gone"

\* Safety: who gets control back, with an error or an object, has no alarm of the call armed,
\* although oxCreateClient2 returns NULL in three places without taking it back: an error takes
\* it back for it.
AlarmIsTakenBack == cpc \in {"idle", "client"} \cup Exchanging => alarm # "armed"

=============================================================================
