----------------------------- MODULE MCUdpRelay -----------------------------
(* Small instances of UdpRelay. *)
EXTENDS UdpRelay, TLC

(* Two pairs that compete for the ports, with one agent in both; the other  *)
(* peer of one of them roams.                                               *)
TwoPairs == {"p", "q"}
OneRoams ==
  [p \in TwoPairs |->
     IF p = "p" THEN [A |-> {1, 2}, B |-> {3}] ELSE [A |-> {4}, B |-> {3}]]
Roamer == <<"p", "A">>
=============================================================================
