--------------------------- MODULE OxControlServer ---------------------------
(***************************************************************************)
(* The control server of an OX server: parentServerMain and myServerExit   *)
(* of kxx/oxmain.c.  It reads requests from the control channel and turns  *)
(* them into signals to the engine.  It holds a copy of the data socket of *)
(* the engine and does not wait for it: the client sees the end of the     *)
(* data stream when both processes are gone.                               *)
(***************************************************************************)
EXTENDS OxChannels

VARIABLE cs      \* "up", "dying" (in the sleep of SM_control_kill), "dead"

ControlServerTypeOK == cs \in {"up", "dying", "dead"}

ControlServerInit == cs = "up"

\* SM_control_reset_connection: kill(MyServerPid, SIGUSR1).
ForwardReset ==
  /\ cs = "up"
  /\ control # <<>> /\ Head(control) = "SM_control_reset_connection"
  /\ control' = Tail(control)
  /\ RaiseSignal
  /\ UNCHANGED <<toEngine, toClient, connected, engineAlive, cs>>

\* SM_control_kill: sleep(2) before myServerExit.
ReadKill ==
  /\ cs = "up"
  /\ control # <<>> /\ Head(control) = "SM_control_kill"
  /\ control' = Tail(control)
  /\ cs' = "dying"
  /\ UNCHANGED <<toEngine, toClient, connected, engineAlive, signalVars>>

\* Mutant: the control server exits and leaves the engine alone.
ExitOnly ==
  /\ \/ cs = "dying"
     \/ cs = "up" /\ control = <<>> /\ ~connected
  /\ cs' = "dead"
  /\ UNCHANGED <<channelVars, signalVars, engineAlive>>

\* SIGKILL to the engine and exit, after the sleep or, through the default branch,
\* when the client has closed the control channel.
myServerExit ==
  /\ \/ cs = "dying"
     \/ cs = "up" /\ control = <<>> /\ ~connected
  /\ engineAlive' = FALSE
  /\ cs' = "dead"
  /\ UNCHANGED <<channelVars, signalVars>>

ControlServerNext == ForwardReset \/ ReadKill \/ myServerExit

=============================================================================
