------------------------------ MODULE MCPunch ------------------------------
(* A small instance of Punch. *)
EXTENDS Punch

CONSTANTS a, b

Pair == {a, b}

(* Answers get lost and paths come and go, but nobody restarts or reaches   *)
(* the other directly, and nobody is silent long enough to look offline.    *)
LossyNext ==
  \E x \in Agents :
    \/ ApplyReport(x)
    \/ \E candidates \in BOOLEAN : coordinatePunches(x, candidates)
    \/ buildPeerEntries(x)
    \/ maybeRetryDirect(x, TRUE)
    \/ GiveUp(x)
    \/ AnswerLost(x)
    \/ \E to \in {"down", "relay"} : PathMoves(x, to)

LossySpec == Init /\ [][LossyNext]_vars /\ Fairness
=============================================================================
