------------------------------ MODULE OxToolkit ------------------------------
(***************************************************************************)
(* Sessions of the OX toolkit: a client over ox_toolkit/ox.c and oxf.c     *)
(* with a server that is written with the same library.                    *)
(*                                                                         *)
(* There are two ways to serve a reset.  ox_math notes the signal and      *)
(* exchanges the balls between two messages (ox_math/serv1.c).  ox_pari,   *)
(* ox_gsl and ox_python jump out of whatever they do, even half way        *)
(* through a message, send a ball and read on.  ox_python is as ox_gsl.    *)
(*                                                                         *)
(* The library reads and writes word by word.  A request or answer has the *)
(* words: tag, serial number, and the command, or the tag and value of a   *)
(* CMO.  A word that carries a request or an answer has its number.  Left  *)
(* out: serial numbers or values that equal a tag, partial words, and what *)
(* commands do (a computation ends with an object on the stack).           *)
(***************************************************************************)
EXTENDS Naturals, Sequences

CONSTANTS
  MaxRequests,   \* bound of the model: messages that the user sends
  MaxResets      \* bound of the model: calls of ox_reset

ASSUME ToolkitAssumption == MaxRequests \in Nat /\ MaxResets \in Nat

VARIABLES
  server,        \* the program: "ox_math", "ox_pari" or "ox_gsl"
  savesMask,     \* setjmp(3) of this system saves the signal mask
  buffered,      \* the client has called oxf_setbuffer
  cpc,           \* what the client reads next, "user" between two calls, or "gone"
  call,          \* the call it is in, "OX_get" or "ox_reset"
  ctag,          \* the OX tag that it has read
  nreq, nreset,  \* auxiliary: requests and resets so far
  givenUp,       \* auxiliary: requests before the last completed reset
  awaited,       \* pops since then that OX_get has not answered
  last,          \* the pop last answered
  wbuf, toServer, toClient,
  spc,           \* what the server does next, or "gone"
  stag,          \* the OX tag that it has read
  out,           \* words it still has to write
  discarding,    \* ox_math is in exchange_ox_sync_ball
  noted,         \* ox_math's flag RESERVE_INTERRUPTION
  sigPending, sigBlocked,
  torn           \* auxiliary: a jump has cut a message

options == <<server, savesMask, buffered>>
userVars == <<nreq, nreset, givenUp, awaited, last>>
clientVars == <<cpc, call, ctag, userVars, wbuf>>
serverVars == <<spc, stag, out, discarding, noted, sigBlocked, torn>>
vars == <<options, clientVars, toServer, toClient, serverVars, sigPending>>

Word(w) == [word |-> w, of |-> 0]
Of(w, n) == [word |-> w, of |-> n]
OxTags == {"OX_DATA", "OX_COMMAND", "OX_SYNC_BALL"}
Commands == {"SM_popCMO", "SM_execute"}
Words == [word : OxTags \cup Commands \cup {"serial", "CMO_INT32", "value"}, of : 0 .. MaxRequests]

SyncBall == <<Word("OX_SYNC_BALL"), Word("serial")>>
Data(n) == <<Word("OX_DATA"), Word("serial"), Word("CMO_INT32"), Of("value", n)>>
Command(code, n) == <<Word("OX_COMMAND"), Word("serial"), Of(code, n)>>

Init ==
  /\ server \in {"ox_math", "ox_pari", "ox_gsl"}
  /\ savesMask \in BOOLEAN /\ buffered \in BOOLEAN
  /\ cpc = "user" /\ call = "OX_get" /\ ctag = "OX_DATA"
  /\ nreq = 0 /\ nreset = 0 /\ givenUp = 0 /\ awaited = <<>> /\ last = 0
  /\ wbuf = <<>> /\ toServer = <<>> /\ toClient = <<>>
  /\ spc = IF server = "ox_math" THEN "unmask" ELSE "tag"
  /\ stag = "OX_DATA" /\ out = <<>> /\ discarding = FALSE /\ noted = FALSE
  /\ sigPending = FALSE /\ sigBlocked = FALSE /\ torn = FALSE

----------------------------------------------------------------------------
(***************************************************************************)
(* The client.  The user calls OX_get for an answer that is to come.       *)
(***************************************************************************)

\* Mutant: what the buffer holds is written last.
WriteAhead(words) ==
  /\ toServer' = toServer \o words \o wbuf
  /\ wbuf' = <<>>

\* oxf_write of a whole message, and oxf_flush.
WriteAndFlush(words) ==
  /\ toServer' = toServer \o wbuf \o words
  /\ wbuf' = <<>>

\* ox_reset does not flush.
WriteOnly(words) ==
  IF buffered THEN wbuf' = wbuf \o words /\ UNCHANGED toServer
              ELSE toServer' = toServer \o words /\ UNCHANGED wbuf

send_ox ==
  /\ cpc = "user" /\ nreq < MaxRequests
  /\ nreq' = nreq + 1
  /\ \/ WriteAndFlush(Data(nreq')) /\ UNCHANGED awaited
     \/ WriteAndFlush(Command("SM_execute", nreq')) /\ UNCHANGED awaited
     \/ WriteAndFlush(Command("SM_popCMO", nreq')) /\ awaited' = Append(awaited, nreq')
  /\ UNCHANGED <<options, cpc, call, ctag, nreset, givenUp, last, toClient, serverVars, sigPending>>

OX_get ==
  /\ cpc = "user" /\ awaited # <<>>
  /\ cpc' = "tag" /\ call' = "OX_get"
  /\ UNCHANGED <<options, ctag, userVars, wbuf, toServer, toClient, serverVars, sigPending>>

\* The control server passes the request on at once: kill(2) makes the signal pending.
ox_reset ==
  /\ cpc = "user" /\ nreset < MaxResets
  /\ nreset' = nreset + 1
  /\ cpc' = "tag" /\ call' = "ox_reset"
  /\ sigPending' = (spc # "gone")
  /\ UNCHANGED <<options, ctag, nreq, givenUp, awaited, last, wbuf, toServer, toClient, serverVars>>

ReadsWord(pc) == cpc = pc /\ toClient # <<>> /\ toClient' = Tail(toClient)

Returns ==
  IF call = "OX_get" THEN cpc' = "user" /\ awaited' = Tail(awaited)
                     ELSE cpc' = "tag" /\ UNCHANGED awaited

ClientReadsTag ==
  /\ ReadsWord("tag")
  /\ ctag' = Head(toClient).word /\ cpc' = "serial"
  /\ UNCHANGED <<options, call, userVars, wbuf, toServer, serverVars, sigPending>>

\* OX_get does not look at the tag.
ClientReadsSerial ==
  /\ ReadsWord("serial")
  /\ call = "ox_reset" => ctag # "OX_SYNC_BALL"
  /\ cpc' = "cmo"
  /\ UNCHANGED <<options, call, ctag, userVars, wbuf, toServer, serverVars, sigPending>>

\* Mutant: the reset ends with the answer to the last pop as well.
ClientReadsAnyBall ==
  /\ ReadsWord("serial")
  /\ call = "ox_reset"
  /\ WriteOnly(SyncBall)
  /\ cpc' = "user" /\ givenUp' = nreq /\ awaited' = <<>>
  /\ UNCHANGED <<options, call, ctag, nreq, nreset, last, serverVars, sigPending>>

ClientReadsBall ==
  /\ ReadsWord("serial")
  /\ call = "ox_reset" /\ ctag = "OX_SYNC_BALL"
  /\ WriteOnly(SyncBall)
  /\ cpc' = "user" /\ givenUp' = nreq /\ awaited' = <<>>
  /\ UNCHANGED <<options, call, ctag, nreq, nreset, last, serverVars, sigPending>>

\* receive_cmo: NULL for a tag that is none.
ClientReadsCmo ==
  /\ ReadsWord("cmo")
  /\ IF Head(toClient).word = "CMO_INT32"
       THEN cpc' = "value" /\ UNCHANGED awaited
       ELSE Returns
  /\ UNCHANGED <<options, call, ctag, nreq, nreset, givenUp, last, wbuf, toServer, serverVars, sigPending>>

ClientReadsValue ==
  /\ ReadsWord("value")
  /\ Returns
  /\ last' = IF call = "OX_get" THEN Head(toClient).of ELSE last
  /\ UNCHANGED <<options, call, ctag, nreq, nreset, givenUp, wbuf, toServer, serverVars, sigPending>>

ClientExits ==
  /\ cpc = "user" /\ cpc' = "gone"
  /\ wbuf' = <<>>
  /\ UNCHANGED <<options, call, ctag, userVars, toServer, toClient, serverVars, sigPending>>

ClientReads ==
  \/ ClientReadsTag \/ ClientReadsSerial \/ ClientReadsBall \/ ClientReadsCmo \/ ClientReadsValue

ClientNext == send_ox \/ OX_get \/ ox_reset \/ ClientReads \/ ClientExits

----------------------------------------------------------------------------
(***************************************************************************)
(* The server.  A signal that can be delivered is, before the next step.   *)
(***************************************************************************)
Runs(pc) == spc = pc /\ ~(sigPending /\ ~sigBlocked)

TakesWord(pc) == Runs(pc) /\ toServer # <<>> /\ toServer' = Tail(toServer)

\* The end of receive(), or of sm_receive_ox() and the reading of exchange_ox_sync_ball.
MessageDone == IF server = "ox_math" /\ ~discarding THEN "check" ELSE "tag"

ServerReadsTag ==
  /\ TakesWord("tag")
  /\ stag' = Head(toServer).word /\ spc' = "serial"
  /\ UNCHANGED <<options, clientVars, toClient, out, discarding, noted, sigPending, sigBlocked, torn>>

ServerReadsSerial ==
  /\ TakesWord("serial")
  /\ spc' = CASE stag = "OX_DATA" -> "cmo"
              [] stag = "OX_COMMAND" -> "code"
              [] stag = "OX_SYNC_BALL" /\ discarding -> "exchanged"
              [] OTHER -> MessageDone
  /\ UNCHANGED <<options, clientVars, toClient, stag, out, discarding, noted, sigPending, sigBlocked, torn>>

ServerReadsCmo ==
  /\ TakesWord("cmo")
  /\ spc' = IF Head(toServer).word = "CMO_INT32" THEN "value" ELSE MessageDone
  /\ UNCHANGED <<options, clientVars, toClient, stag, out, discarding, noted, sigPending, sigBlocked, torn>>

\* push
ServerReadsValue ==
  /\ TakesWord("value")
  /\ spc' = MessageDone
  /\ UNCHANGED <<options, clientVars, toClient, stag, out, discarding, noted, sigPending, sigBlocked, torn>>

\* While it computes ox_math lets the signal in.
ServerReadsCode ==
  /\ TakesWord("code")
  /\ IF Head(toServer).word \in Commands /\ ~discarding
       THEN IF Head(toServer).word = "SM_popCMO"
              THEN spc' = "write" /\ out' = Data(Head(toServer).of) /\ UNCHANGED sigBlocked
              ELSE /\ spc' = "execute" /\ UNCHANGED out
                   /\ sigBlocked' = (sigBlocked /\ server # "ox_math")
       ELSE spc' = MessageDone /\ UNCHANGED <<out, sigBlocked>>
  /\ UNCHANGED <<options, clientVars, toClient, stag, discarding, noted, sigPending, torn>>

ExecuteEnds ==
  /\ Runs("execute")
  /\ spc' = MessageDone
  /\ sigBlocked' = (sigBlocked \/ server = "ox_math")
  /\ UNCHANGED <<options, clientVars, toServer, toClient, stag, out, discarding, noted, sigPending, torn>>

ServerWrites ==
  /\ Runs("write")
  /\ toClient' = Append(toClient, Head(out)) /\ out' = Tail(out)
  /\ spc' = IF Len(out) > 1 THEN "write" ELSE MessageDone
  /\ UNCHANGED <<options, clientVars, toServer, stag, discarding, noted, sigPending, sigBlocked, torn>>

\* Mutant: oxf_read notes the error, and the server reads on.
ServerReadsOn ==
  /\ Runs(spc) /\ spc \in {"tag", "serial", "cmo", "value", "code"}
  /\ toServer = <<>> /\ cpc = "gone"
  /\ spc' = MessageDone
  /\ UNCHANGED <<options, clientVars, toServer, toClient, stag, out, discarding, noted, sigPending, sigBlocked, torn>>

\* oxf_read: the end of the stream ends the process.
ServerReadsEnd ==
  /\ Runs(spc) /\ spc \in {"tag", "serial", "cmo", "value", "code"}
  /\ toServer = <<>> /\ cpc = "gone"
  /\ spc' = "gone"
  /\ UNCHANGED <<options, clientVars, toServer, toClient, stag, out, discarding, noted, sigPending, sigBlocked, torn>>

ServerStep ==
  \/ ServerReadsTag \/ ServerReadsSerial \/ ServerReadsCmo \/ ServerReadsValue
  \/ ServerReadsCode \/ ServerWrites \/ ServerReadsEnd

----------------------------------------------------------------------------
(***************************************************************************)
(* ox_math.                                                                *)
(***************************************************************************)
sm_sigunmask ==
  /\ Runs("unmask")
  /\ spc' = "enter" /\ sigBlocked' = FALSE
  /\ UNCHANGED <<options, clientVars, toServer, toClient, stag, out, discarding, noted, sigPending, torn>>

\* Between the two system calls the signal is handled, but nobody looks at the flag.
EnterSelect ==
  /\ Runs("enter")
  /\ spc' = "select"
  /\ UNCHANGED <<options, clientVars, toServer, toClient, stag, out, discarding, noted, sigPending, sigBlocked, torn>>

SelectReturns ==
  /\ Runs("select") /\ (toServer # <<>> \/ cpc = "gone")
  /\ spc' = "tag" /\ sigBlocked' = TRUE
  /\ UNCHANGED <<options, clientVars, toServer, toClient, stag, out, discarding, noted, sigPending, torn>>

exchange_ox_sync_ball ==
  /\ Runs("check")
  /\ IF noted
       THEN spc' = "write" /\ out' = SyncBall /\ discarding' = TRUE
       ELSE spc' = "unmask" /\ UNCHANGED <<out, discarding>>
  /\ UNCHANGED <<options, clientVars, toServer, toClient, stag, noted, sigPending, sigBlocked, torn>>

Exchanged ==
  /\ Runs("exchanged")
  /\ spc' = "unmask"
  /\ discarding' = FALSE /\ noted' = FALSE
  /\ UNCHANGED <<options, clientVars, toServer, toClient, stag, out, sigPending, sigBlocked, torn>>

\* select(2) fails with EINTR.
sm_sighandler ==
  /\ server = "ox_math" /\ sigPending /\ ~sigBlocked /\ spc # "gone"
  /\ sigPending' = FALSE /\ noted' = TRUE
  /\ IF spc = "select" THEN spc' = "check" /\ sigBlocked' = TRUE
                       ELSE UNCHANGED <<spc, sigBlocked>>
  /\ UNCHANGED <<options, clientVars, toServer, toClient, stag, out, discarding, torn>>

MathStep == sm_sigunmask \/ EnterSelect \/ SelectReturns \/ exchange_ox_sync_ball \/ Exchanged

----------------------------------------------------------------------------
(***************************************************************************)
(* ox_pari, ox_gsl and ox_python.                                          *)
(***************************************************************************)
MidMessage == spc \in {"serial", "cmo", "value", "code", "write"}

\* Mutant: the jump takes place, nobody is told, and what it was writing is not given up.
usr1_handler_silent ==
  /\ server # "ox_math" /\ sigPending /\ ~sigBlocked /\ spc # "gone"
  /\ sigPending' = FALSE
  /\ sigBlocked' = (server = "ox_gsl" /\ ~savesMask)
  /\ torn' = (torn \/ MidMessage)
  /\ spc' = "tag"
  /\ UNCHANGED <<options, clientVars, toServer, toClient, stag, out, discarding, noted>>

\* The signal is blocked in its handler.  siglongjmp restores the mask; longjmp does only
\* where setjmp saves it, and no one else unblocks the signal.
usr1_handler ==
  /\ server # "ox_math" /\ sigPending /\ ~sigBlocked /\ spc # "gone"
  /\ sigPending' = FALSE
  /\ sigBlocked' = (server = "ox_gsl" /\ ~savesMask)
  /\ torn' = (torn \/ MidMessage)
  /\ spc' = "write" /\ out' = SyncBall
  /\ UNCHANGED <<options, clientVars, toServer, toClient, stag, discarding, noted>>

ServerNext == ServerStep \/ ExecuteEnds \/ MathStep \/ sm_sighandler \/ usr1_handler

Next == ClientNext \/ ServerNext

Spec == Init /\ [][Next]_vars

\* The server runs, its computations end, and a call of the client that reads goes on.
FairSpec == Spec /\ WF_vars(ServerNext) /\ WF_vars(ClientReads)

----------------------------------------------------------------------------
(***************************************************************************)
(* Properties.                                                             *)
(***************************************************************************)

\* Types; the server writes in the states that say so, and only there.
ToolkitTypeOK ==
  /\ server \in {"ox_math", "ox_pari", "ox_gsl"}
  /\ savesMask \in BOOLEAN /\ buffered \in BOOLEAN
  /\ cpc \in {"user", "tag", "serial", "cmo", "value", "gone"}
  /\ call \in {"OX_get", "ox_reset"}
  /\ nreq \in 0 .. MaxRequests /\ nreset \in 0 .. MaxResets
  /\ givenUp \in 0 .. nreq /\ last \in 0 .. nreq
  /\ awaited \in Seq(1 .. MaxRequests)
  /\ wbuf \in Seq(Words) /\ toServer \in Seq(Words) /\ toClient \in Seq(Words)
  /\ out \in Seq(Words) /\ (out # <<>> <=> spc = "write")
  /\ spc \in {"tag", "serial", "cmo", "value", "code", "execute", "write", "gone",
              "unmask", "enter", "select", "check", "exchanged"}
  /\ discarding \in BOOLEAN /\ noted \in BOOLEAN
  /\ sigPending \in BOOLEAN /\ sigBlocked \in BOOLEAN /\ torn \in BOOLEAN

Proper(pc) ==
  CASE pc = "tag" -> OxTags
    [] pc = "serial" -> {"serial"}
    [] pc = "cmo" -> {"CMO_INT32"}
    [] pc = "value" -> {"value"}
    [] pc = "code" -> Commands
    [] OTHER -> {}

\* Safety: unless a jump has cut a message, no word is taken for another: what either side
\* reads next is what it reads it for.
InStep ==
  ~torn =>
    /\ cpc \in {"tag", "serial", "cmo", "value"} /\ toClient # <<>> =>
         Head(toClient).word \in Proper(cpc)
    /\ spc \in {"tag", "serial", "cmo", "value", "code"} /\ toServer # <<>> =>
         Head(toServer).word \in Proper(spc)

Get == cpc = "value" /\ call = "OX_get" /\ cpc' = "user"

\* Action property: an answer that OX_get returns is that to the oldest pop since the last
\* reset that has none.
AnswerIsOldest == Get => last' = Head(awaited)

\* With ox_math that is always so.
MathAnswersCorrespond == [][server = "ox_math" => AnswerIsOldest]_vars

\* With the others it is not, though no message has been cut: "After reading it, it is assured
\* that each stream is empty and that the subsequent request from a client correctly
\* corresponds to the response from the engine." (control.tex)
AnswersCorrespond == [][~torn => AnswerIsOldest]_vars

\* Safety: a server that jumps answers, unless it has cut a message, in the order of the
\* pops: what comes after a reset is too old, and never too new.
JumpAnswersAscend == [][~torn /\ Get => last' > last /\ last' <= Head(awaited)]_vars

\* What the reset of the client then waits for: the next message, which a client in ox_reset
\* does not send; the ball of the reset before, which is still in the client's buffer; or
\* nothing, as the signal is blocked for good or a ball has been read as something else.
ResetIsLost ==
  \/ server = "ox_math" /\ spc = "select" /\ noted
  \/ server = "ox_math" /\ discarding /\ wbuf # <<>>
  \/ server = "ox_gsl" /\ ~savesMask /\ sigBlocked
  \/ torn

\* Liveness: apart from these cases ox_reset returns.
ResetReturns == cpc \notin {"user", "gone"} /\ call = "ox_reset" ~> cpc = "user" \/ ResetIsLost

\* Liveness: no server outlives its client.
ServerEnds == cpc = "gone" ~> spc = "gone"

=============================================================================
