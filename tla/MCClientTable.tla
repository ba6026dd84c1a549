--------------------------- MODULE MCClientTable ---------------------------
(***************************************************************************)
(* ClientTable for TLC: the client objects are alike.                      *)
(***************************************************************************)
EXTENDS ClientTable, TLC

AnyClient == Permutations(Clients)

\* Bound of the model: what follows when a closed object has been used again and another
\* of the exceptions has come to pass.
ReuseAlone == ~(reused /\ (stale \/ shared))

=============================================================================
