---------------------------- MODULE OxSessionDocs ----------------------------
(***************************************************************************)
(* What the documents of OpenXM say of the reset of a session and a        *)
(* session does not do.  Each property below has a run that refutes it;    *)
(* the bounds of the run keep the other causes out.                        *)
(***************************************************************************)
EXTENDS OxSession

(***************************************************************************)
(* control.tex: after receiving SIGUSR1 the engine enters the resetting    *)
(* state and sends OX_SYNC_BALL; so the client of a reset that the engine  *)
(* has noted gets its ball, unless the engine ends.  When a message has    *)
(* been read before, OxCritical is still set between the test of           *)
(* OxInterruptFlag and OxCritical = 0: a signal taken there is noted in    *)
(* the flag only, and the engine blocks in fp2select while the client      *)
(* waits.  Nor does the client of a second reset get a ball whose signal   *)
(* comes while the engine ends the first: the flag is cleared with it, or  *)
(* the signal is ignored.                                                  *)
(***************************************************************************)
SignalLeadsToBall ==
  (OxInterruptFlag /\ dstate = "DSTATE_FIRST_SYNC")
    ~> (dstate = "DSTATE_ANY" \/ ~connected \/ ~engineAlive)

(***************************************************************************)
(* control.tex: after OX_SYNC_BALL the subsequent request corresponds to   *)
(* the response.  It does not when a ball that the user sent earlier is    *)
(* taken by the engine for the answer to its own.                          *)
(***************************************************************************)
FreshAfterUserBall == AnswersAreFresh

(***************************************************************************)
(* control.tex: the client discards all messages until it receives         *)
(* OX_SYNC_BALL, and returns to the usual state.  It misses the ball when  *)
(* a message before it has a body that is not a multiple of 8 bytes long.  *)
(***************************************************************************)
BallIsFound ==
  (dstate = "DSTATE_FIRST_SYNC" /\ HasBall(toClient))
    ~> (dstate = "DSTATE_ANY" \/ ~connected)

=============================================================================
