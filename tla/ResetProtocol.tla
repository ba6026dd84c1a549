---------------------------- MODULE ResetProtocol ----------------------------
(***************************************************************************)
(* What a session promises to the user of the client: the reset protocol   *)
(* of doc/OpenXM-specs/control.tex, reduced to requests and answers.       *)
(* Requests are numbered in the order they are made.  In the usual state   *)
(* an answer is to a request made after the last reset was completed, and  *)
(* answers come in the order of the requests; in the resetting state there *)
(* are no answers; completing a reset gives up every earlier request.      *)
(***************************************************************************)
EXTENDS Naturals

VARIABLES
  resetting,     \* the client is in the resetting state
  asked,         \* number of requests made
  givenUp,       \* requests up to this number are given up
  answered       \* the request last answered

promise == <<resetting, asked, givenUp, answered>>

Init ==
  /\ resetting = FALSE
  /\ asked = 0
  /\ givenUp = 0
  /\ answered = 0

Ask ==
  /\ asked' = asked + 1
  /\ UNCHANGED <<resetting, givenUp, answered>>

Answer ==
  /\ ~resetting
  /\ answered' > answered
  /\ answered' \in givenUp + 1 .. asked
  /\ UNCHANGED <<resetting, asked, givenUp>>

Reset ==
  /\ resetting' = TRUE
  /\ UNCHANGED <<asked, givenUp, answered>>

CompleteReset ==
  /\ resetting
  /\ resetting' = FALSE
  /\ givenUp' = asked
  /\ UNCHANGED <<asked, answered>>

\* The server is killed: a reset under way is not completed any more.
Kill ==
  /\ resetting' = FALSE
  /\ UNCHANGED <<asked, givenUp, answered>>

Next == Ask \/ Answer \/ Reset \/ CompleteReset \/ Kill

Spec == Init /\ [][Next]_promise

=============================================================================
