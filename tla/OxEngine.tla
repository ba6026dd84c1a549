------------------------------ MODULE OxEngine ------------------------------
(***************************************************************************)
(* The engine of an OX server: nullserver, nullserverCommand and the       *)
(* signal handler controlResetHandler of kxx/oxserver00.c.                 *)
(*                                                                         *)
(* pc names the point of nullserver the engine stands at:                  *)
(*   boot               starting up, before nullserver                     *)
(*   aaa, armed, ign    label aaa: before each of the three mysignal calls *)
(*   loop               top of the while loop, at the test of the flag     *)
(*   throw, wait, synced, uncrit   the handshake of a reset                *)
(*   gap, select        between that test and OxCritical = 0; in fp2select *)
(*   read, body         before a header; between a header and its body     *)
(*   dispatch           nullserverCommand, the function id has been read   *)
(*   run, ran           inside, and just after, KSexecuteString            *)
(*   reply              between the header and the body of a reply         *)
(*   cjump, sjump       just after a longjmp to EnvOfChildServer, to       *)
(*                      EnvOfStackMachine                                  *)
(* A signal is delivered between any two steps, Deliver below.             *)
(***************************************************************************)
EXTENDS OxChannels

CONSTANTS
  Splits,        \* the skews that a partly arrived message leaves behind when the
                 \* read buffer is cleared
  FaultyCMO      \* TRUE: a body may be one that the CMO parser rejects

ASSUME SplitsAssumption == Splits \subseteq Skew /\ 0 \in Splits
ASSUME FaultyCMOAssumption == FaultyCMO \in BOOLEAN

VARIABLES
  pc,
  cmd,               \* the command dispatch works on
  OxCritical,
  OxInterruptFlag,
  skewE,             \* the engine has read this many bytes into Head(toEngine)
  nested             \* KSexecuteString was left by a longjmp, so its counter
                     \* "recursive" is positive and it sets no jump buffer

engineVars == <<pc, cmd, OxCritical, OxInterruptFlag, skewE, nested>>

NoCommand == Command("other", 0)

Points == {"boot", "aaa", "armed", "ign", "loop", "throw", "wait", "synced", "uncrit",
           "gap", "select", "read", "body", "dispatch", "run", "ran", "reply",
           "cjump", "sjump"}

EngineTypeOK ==
  /\ pc \in Points
  /\ cmd \in Message
  /\ OxCritical \in BOOLEAN
  /\ OxInterruptFlag \in BOOLEAN
  /\ skewE \in Skew
  /\ nested \in BOOLEAN

EngineInit ==
  /\ pc = "boot"
  /\ cmd = NoCommand
  /\ OxCritical = FALSE
  /\ OxInterruptFlag = FALSE
  /\ skewE = 0
  /\ nested = FALSE

\* The engine executes its own code at p: it lives and no signal is to be delivered.
Runs(p) == engineAlive /\ ~Deliverable /\ pc = p

Goto(p) == pc' = p

\* write(2) of one more message blocks while the stream is full.  What is written after the
\* client has closed its end is lost.
CanWrite == connected => HasRoom(toClient, 1)
Write(stream) == toClient' = IF connected THEN stream ELSE toClient

\* No input is to come any more.
EndOfInput == toEngine = <<>> /\ ~connected

----------------------------------------------------------------------------
(***************************************************************************)
(* Starting up and the label aaa.  The jump buffers are set without effect *)
(* on what is modelled: a jump to one of them is a step to cjump or sjump. *)
(***************************************************************************)
StartServer ==
  /\ Runs("boot")
  /\ Goto("aaa")
  /\ UNCHANGED <<channelVars, signalVars, engineAlive, cmd, OxCritical, OxInterruptFlag, skewE, nested>>

InstallAtChildEnv ==
  /\ Runs("aaa")
  /\ InstallHandler
  /\ Goto("armed")
  /\ UNCHANGED <<channelVars, engineAlive, cmd, OxCritical, OxInterruptFlag, skewE, nested>>

\* The test of the old action: a reset that was taken since the last step has left
\* the signal ignored, and it stays so.
IgnoreForTest ==
  /\ Runs("armed")
  /\ IgnoreSignal
  /\ Goto(IF sigAction = "SIG_IGN" THEN "loop" ELSE "ign")
  /\ UNCHANGED <<channelVars, engineAlive, cmd, OxCritical, OxInterruptFlag, skewE, nested>>

InstallAfterTest ==
  /\ Runs("ign")
  /\ InstallHandler
  /\ Goto("loop")
  /\ UNCHANGED <<channelVars, engineAlive, cmd, OxCritical, OxInterruptFlag, skewE, nested>>

\* Mutant: goto aaa without mysignal.
AfterJumpNoSignal ==
  /\ Runs("cjump") \/ Runs("sjump")
  /\ Goto("aaa")
  /\ UNCHANGED <<channelVars, signalVars, engineAlive, cmd, OxCritical, OxInterruptFlag, skewE, nested>>

\* Both setjmps return a second time: the hooks run, the handler is installed
\* (which unblocks the signal), goto aaa.
AfterJump ==
  /\ Runs("cjump") \/ Runs("sjump")
  /\ InstallHandler
  /\ Goto("aaa")
  /\ UNCHANGED <<channelVars, engineAlive, cmd, OxCritical, OxInterruptFlag, skewE, nested>>

----------------------------------------------------------------------------
(***************************************************************************)
(* The handshake of a reset.                                               *)
(***************************************************************************)

\* fp2clearReadBuf drops the buffer and what has arrived on the socket: the first
\* n messages, the last of them perhaps in part.
ClearReadBuf ==
  \E n \in 0 .. Len(toEngine) :
     /\ toEngine' = SubSeq(toEngine, n + 1, Len(toEngine))
     /\ IF n = 0 /\ skewE = 0 THEN skewE' = 0 ELSE skewE' \in Splits

BeginHandshake ==
  /\ Runs("loop")
  /\ OxInterruptFlag
  /\ OxCritical' = TRUE
  /\ ClearReadBuf
  /\ Goto("throw")
  /\ UNCHANGED <<toClient, control, connected, signalVars, engineAlive, cmd, OxInterruptFlag, nested>>

\* Mutant: the handshake is over when the ball has been thrown.
ThrowSyncBallOnly ==
  /\ Runs("throw")
  /\ Write(Append(toClient, SyncBall))
  /\ Goto("synced")
  /\ UNCHANGED <<toEngine, control, connected, signalVars, engineAlive, cmd, OxCritical,
                 OxInterruptFlag, skewE, nested>>

\* Mutant: the ball stays in the write buffer.
ThrowSyncBallUnflushed ==
  /\ Runs("throw")
  /\ Goto("wait")
  /\ UNCHANGED <<channelVars, signalVars, engineAlive, cmd, OxCritical, OxInterruptFlag, skewE, nested>>

ThrowSyncBall ==
  /\ Runs("throw") /\ CanWrite
  /\ Write(Append(toClient, SyncBall))
  /\ Goto("wait")
  /\ UNCHANGED <<toEngine, control, connected, signalVars, engineAlive, cmd, OxCritical,
                 OxInterruptFlag, skewE, nested>>

\* Mutant: the first message is taken for the ball.
WaitAnyMessage ==
  /\ Runs("wait")
  /\ \/ toEngine # <<>> /\ toEngine' = Tail(toEngine)
     \/ EndOfInput /\ UNCHANGED toEngine
  /\ Goto("synced")
  /\ UNCHANGED <<toClient, control, connected, signalVars, engineAlive, cmd, OxCritical,
                 OxInterruptFlag, skewE, nested>>

\* One message is read by oxWaitSyncBall, which also returns at the end of the input.
WaitSyncBall ==
  /\ Runs("wait")
  /\ \/ /\ toEngine # <<>>
        /\ toEngine' = Tail(toEngine)
        /\ IF FoundBall(skewE, Head(toEngine))
             THEN Goto("synced") /\ skewE' = 0
             ELSE Goto("wait") /\ skewE' = WaitSpill(skewE, Head(toEngine))
     \/ /\ EndOfInput
        /\ Goto("synced")
        /\ UNCHANGED <<toEngine, skewE>>
  /\ UNCHANGED <<toClient, control, connected, signalVars, engineAlive, cmd, OxCritical,
                 OxInterruptFlag, nested>>

ClearFlag ==
  /\ Runs("synced")
  /\ OxInterruptFlag' = FALSE
  /\ Goto("uncrit")
  /\ UNCHANGED <<channelVars, signalVars, engineAlive, cmd, OxCritical, skewE, nested>>

EndHandshake ==
  /\ Runs("uncrit")
  /\ OxCritical' = FALSE
  /\ Goto("aaa")
  /\ UNCHANGED <<channelVars, signalVars, engineAlive, cmd, OxInterruptFlag, skewE, nested>>

----------------------------------------------------------------------------
(***************************************************************************)
(* The main loop: one message.                                             *)
(***************************************************************************)
PassFlagTest ==
  /\ Runs("loop")
  /\ ~OxInterruptFlag
  /\ Goto("gap")
  /\ UNCHANGED <<channelVars, signalVars, engineAlive, cmd, OxCritical, OxInterruptFlag, skewE, nested>>

LeaveCritical ==
  /\ Runs("gap")
  /\ OxCritical' = FALSE
  /\ Goto("select")
  /\ UNCHANGED <<channelVars, signalVars, engineAlive, cmd, OxInterruptFlag, skewE, nested>>

\* Mutant: OxCritical is not set before the header is read.
SelectUncritical ==
  /\ Runs("select")
  /\ toEngine # <<>> \/ ~connected
  /\ Goto("read")
  /\ UNCHANGED <<channelVars, signalVars, engineAlive, cmd, OxCritical, OxInterruptFlag, skewE, nested>>

\* fp2select blocks until there is something to read, the end of the input included.
Select ==
  /\ Runs("select")
  /\ toEngine # <<>> \/ ~connected
  /\ OxCritical' = TRUE
  /\ Goto("read")
  /\ UNCHANGED <<channelVars, signalVars, engineAlive, cmd, OxInterruptFlag, skewE, nested>>

\* oxGetOXheader.  Out of step with the messages, or at the end of the input, the
\* header makes no sense ("Fatal error in server.") and the loop goes on.
ReadHeader ==
  /\ Runs("read")
  /\ \/ /\ EndOfInput
        /\ Goto("loop")
        /\ UNCHANGED <<toEngine, skewE>>
     \/ /\ toEngine # <<>> /\ skewE # 0
        /\ toEngine' = Tail(toEngine)
        /\ skewE' = Spill(skewE, Head(toEngine))
        /\ Goto("loop")
     \/ /\ toEngine # <<>> /\ skewE = 0 /\ Head(toEngine).t = "OX_SYNC_BALL"
        /\ toEngine' = Tail(toEngine)
        /\ Goto("loop")
        /\ UNCHANGED skewE
     \/ /\ toEngine # <<>> /\ skewE = 0 /\ Head(toEngine).t # "OX_SYNC_BALL"
        /\ Goto("body")
        /\ UNCHANGED <<toEngine, skewE>>
  /\ UNCHANGED <<toClient, control, connected, signalVars, engineAlive, cmd, OxCritical,
                 OxInterruptFlag, nested>>

\* Mutant: the command stays in the read buffer.
ReadBodyTwice ==
  /\ Runs("body")
  /\ toEngine # <<>>
  /\ IF Head(toEngine).t = "OX_COMMAND"
       THEN Goto("dispatch") /\ cmd' = Head(toEngine) /\ UNCHANGED toEngine
       ELSE Goto("loop") /\ toEngine' = Tail(toEngine) /\ UNCHANGED cmd
  /\ UNCHANGED <<toClient, control, connected, signalVars, engineAlive, OxCritical, OxInterruptFlag,
                 skewE, nested>>

\* Sm1_pushCMO or, in nullserverCommand, the function id.  A body that the CMO parser
\* rejects is left half read by a jump to EnvOfStackMachine; one with a tag it does not
\* know is a null object to it ("defaut:"), and its rest is left unread.
ReadBody ==
  /\ Runs("body")
  /\ toEngine # <<>>
  /\ toEngine' = Tail(toEngine)
  /\ \/ /\ Head(toEngine).t = "OX_COMMAND"
        /\ cmd' = Head(toEngine)
        /\ Goto("dispatch")
        /\ UNCHANGED skewE
     \/ /\ Head(toEngine).t = "OX_DATA"
        /\ Goto("loop")
        /\ UNCHANGED <<cmd, skewE>>
     \/ /\ FaultyCMO /\ Head(toEngine).t = "OX_DATA"
        /\ skewE' \in Skew
        /\ Goto("sjump") \/ Goto("loop")
        /\ UNCHANGED cmd
  /\ UNCHANGED <<toClient, control, connected, signalVars, engineAlive, OxCritical, OxInterruptFlag, nested>>

----------------------------------------------------------------------------
(***************************************************************************)
(* nullserverCommand.                                                      *)
(***************************************************************************)

\* SM_executeStringByLocalParser, SM_executeFunction(WithOptionalArgument).
Execute ==
  /\ Runs("dispatch")
  /\ cmd.f = "executeString"
  /\ OxCritical' = FALSE
  /\ Goto("run")
  /\ UNCHANGED <<channelVars, signalVars, engineAlive, cmd, OxInterruptFlag, skewE, nested>>

\* The computation ends, or fails and is caught by the jump buffer KSexecuteString set.
ExecuteReturns ==
  /\ Runs("run")
  /\ OxCritical' = TRUE
  /\ Goto("ran")
  /\ UNCHANGED <<channelVars, signalVars, engineAlive, cmd, OxInterruptFlag, skewE, nested>>

\* It fails and KSexecuteString has set no jump buffer: the one of nullserver is used.
ExecuteJumps ==
  /\ Runs("run")
  /\ nested
  /\ Goto("sjump")
  /\ UNCHANGED <<channelVars, signalVars, engineAlive, cmd, OxCritical, OxInterruptFlag, skewE, nested>>

InstallAfterExecute ==
  /\ Runs("ran")
  /\ InstallHandler
  /\ Goto("aaa")
  /\ UNCHANGED <<channelVars, engineAlive, cmd, OxCritical, OxInterruptFlag, skewE, nested>>

\* SM_popCMO, SM_popString: the header is flushed before the operand is encoded.
SendReplyHeader ==
  /\ Runs("dispatch")
  /\ cmd.f = "popCMO" /\ CanWrite
  /\ \E n \in BodyBytes :
        Write(Append(toClient, [Data(cmd.id, n) EXCEPT !.whole = FALSE]))
  /\ Goto("reply")
  /\ UNCHANGED <<toEngine, control, connected, signalVars, engineAlive, cmd, OxCritical,
                 OxInterruptFlag, skewE, nested>>

\* The message is still the last of the stream: nobody else writes to it.
SendReplyBody ==
  /\ Runs("reply")
  /\ Write([toClient EXCEPT ![Len(toClient)].whole = TRUE])
  /\ Goto("aaa")
  /\ UNCHANGED <<toEngine, control, connected, signalVars, engineAlive, cmd, OxCritical,
                 OxInterruptFlag, skewE, nested>>

Shutdown ==
  /\ Runs("dispatch")
  /\ cmd.f = "shutdown"
  /\ engineAlive' = FALSE
  /\ UNCHANGED <<channelVars, signalVars, engineVars>>

\* A command on the operand stack.  It may fail with a jump to EnvOfStackMachine.
OtherCommand ==
  /\ Runs("dispatch")
  /\ cmd.f = "other"
  /\ Goto("aaa") \/ Goto("sjump")
  /\ UNCHANGED <<channelVars, signalVars, engineAlive, cmd, OxCritical, OxInterruptFlag, skewE, nested>>

----------------------------------------------------------------------------
(***************************************************************************)
(* Delivery of SIGUSR1.  The default action ends the process; the handler  *)
(* returns when OxCritical is set, and otherwise jumps to EnvOfChildServer *)
(* with the signal still in the mask, as longjmp does not restore it.      *)
(***************************************************************************)
KilledBySignal ==
  /\ engineAlive /\ Deliverable
  /\ sigAction = "SIG_DFL"
  /\ engineAlive' = FALSE
  /\ UNCHANGED <<channelVars, signalVars, engineVars>>

controlResetHandler ==
  /\ engineAlive /\ Deliverable
  /\ sigAction = "controlResetHandler"
  /\ sigAction' = "SIG_IGN"
  /\ sigPending' = FALSE
  /\ OxInterruptFlag' = TRUE
  /\ IF OxCritical
       THEN UNCHANGED <<pc, sigBlocked, nested>>
       ELSE /\ Goto("cjump")
            /\ sigBlocked' = TRUE
            /\ nested' = (nested \/ pc \in {"run", "sjump"})
  /\ UNCHANGED <<channelVars, engineAlive, cmd, OxCritical, skewE>>

Deliver == KilledBySignal \/ controlResetHandler

Handshake == BeginHandshake \/ ThrowSyncBall \/ WaitSyncBall \/ ClearFlag \/ EndHandshake

Loop == PassFlagTest \/ LeaveCritical \/ Select \/ ReadHeader \/ ReadBody

Dispatch ==
  \/ Execute \/ SendReplyHeader \/ Shutdown \/ OtherCommand

\* What the engine does of its own accord, the end of a computation left aside.
EngineStep ==
  \/ StartServer \/ InstallAtChildEnv \/ IgnoreForTest \/ InstallAfterTest \/ AfterJump
  \/ Handshake \/ Loop \/ Dispatch
  \/ InstallAfterExecute \/ SendReplyBody

EngineNext == EngineStep \/ ExecuteReturns \/ ExecuteJumps \/ Deliver

=============================================================================
