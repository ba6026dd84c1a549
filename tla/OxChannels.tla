----------------------------- MODULE OxChannels -----------------------------
(***************************************************************************)
(* What the client, the control server and the engine of one OX session    *)
(* share: the data channel between client and engine (TCP, two FIFO        *)
(* streams), the control channel from client to control server, and the    *)
(* kernel's state of the engine process for the signal SIGUSR1.            *)
(***************************************************************************)
EXTENDS OxMessage

CONSTANTS
  Capacity       \* bound of the system: messages that one stream holds before write(2) blocks

ASSUME ChannelsAssumption == Capacity \in Nat

VARIABLES
  toEngine,      \* messages sent by the client and not yet read by the engine
  toClient,      \* messages sent by the engine and not yet read by the client
  control,       \* requests sent to the control server and not yet read by it
  connected,     \* FALSE once the client has closed its two sockets
  engineAlive,   \* FALSE once the engine process has ended
  sigAction,     \* what the engine process does with SIGUSR1
  sigBlocked,    \* SIGUSR1 is in the signal mask of the engine process
  sigPending     \* SIGUSR1 has been sent and not been delivered

channelVars == <<toEngine, toClient, control, connected>>
signalVars  == <<sigAction, sigBlocked, sigPending>>

ControlRequests == {"SM_control_reset_connection", "SM_control_kill"}

ChannelsTypeOK ==
  /\ toEngine \in Seq(Message)
  /\ toClient \in Seq(Message)
  /\ control \in Seq(ControlRequests)
  /\ connected \in BOOLEAN
  /\ engineAlive \in BOOLEAN
  /\ sigAction \in {"SIG_DFL", "SIG_IGN", "controlResetHandler"}
  /\ sigBlocked \in BOOLEAN
  /\ sigPending \in BOOLEAN

\* The engine is exec'ed with the default action for SIGUSR1.
ChannelsInit ==
  /\ toEngine = <<>>
  /\ toClient = <<>>
  /\ control = <<>>
  /\ connected = TRUE
  /\ engineAlive = TRUE
  /\ sigAction = "SIG_DFL"
  /\ sigBlocked = FALSE
  /\ sigPending = FALSE

\* A write of n messages does not block.
HasRoom(stream, n) == Len(stream) + n <= Capacity

\* A message has reached, or can still reach, the reader of a stream.
HasBall(stream) == \E i \in 1 .. Len(stream) : stream[i].t = "OX_SYNC_BALL"

----------------------------------------------------------------------------
(***************************************************************************)
(* mysignal(SIGUSR1, controlResetHandler): sigaction(2) and then an        *)
(* unblocking of the signal.  signal(SIGUSR1, SIG_IGN) also discards a     *)
(* pending SIGUSR1, and kill(2) discards it at once when it is ignored and *)
(* not blocked.                                                            *)
(***************************************************************************)
InstallHandler ==
  /\ sigAction' = "controlResetHandler"
  /\ sigBlocked' = FALSE
  /\ UNCHANGED sigPending

IgnoreSignal ==
  /\ sigAction' = "SIG_IGN"
  /\ sigPending' = FALSE
  /\ UNCHANGED sigBlocked

RaiseSignal ==
  /\ sigPending' = (sigPending \/ (engineAlive /\ ~(sigAction = "SIG_IGN" /\ ~sigBlocked)))
  /\ UNCHANGED <<sigAction, sigBlocked>>

\* The kernel runs the action of the signal before the process executes anything else.
Deliverable == sigPending /\ ~sigBlocked

=============================================================================
