------------------------------ MODULE UdpRelay ------------------------------
(***************************************************************************)
(* The UDP relay (internal/relay/relay.go) with the requests that allocate *)
(* its port pairs (cmd/server/relay.go, cmd/relay) and the agents that use *)
(* them (cmd/agent/relay.go, transport udp).  A pair of peers has a leg    *)
(* for each of the two, on a port of its own; the relay learns where a     *)
(* leg's peer is from the datagrams that arrive on its port.               *)
(*                                                                         *)
(* A leg is written by its own goroutine only and read once per datagram,  *)
(* so handling a datagram is one step; what a goroutine still does for a   *)
(* pair that was closed meanwhile has no effect.  Datagrams that are not   *)
(* shaped like WireGuard messages are dropped without a trace and are not  *)
(* modelled, nor are relays without a configured port range.               *)
(***************************************************************************)
EXTENDS Naturals, FiniteSets

CONSTANTS
  Pairs,             \* pair ids
  PortMin, PortMax,
  IdleLimit,         \* idleTimeout, in ticks
  Homes,             \* Homes[p][l]: the addresses the peer on leg l may have
  MaxNet,            \* bound on datagrams on their way from present addresses
  Watched            \* <<pair, leg>> of the peer whose progress is looked at

Legs == {"A", "B"}
Ports == PortMin..PortMax

ASSUME RelayAssumption ==
  /\ PortMin \in Nat \ {0} /\ PortMax \in Nat /\ IdleLimit \in Nat /\ MaxNet \in Nat
  /\ Homes \in [Pairs -> [Legs -> SUBSET (Nat \ {0}) \ {{}}]]
  /\ Watched \in Pairs \X Legs

NoPort == 0
Broken == PortMax + 1  \* relayBroken: the agent was told that there is no relay
NoAddr == 0

VARIABLES
  pairs,  \* Server.pairs, a partial function: ports, learned addresses, idle time
  side,   \* side[p][l]: the agent on that leg: its address, the port it uses
  net     \* datagrams on their way to the relay

vars == <<pairs, side, net>>

Addrs == UNION {Homes[p][l] : p \in Pairs, l \in Legs}
Put(f, x, v) == [y \in DOMAIN f \cup {x} |-> IF y = x THEN v ELSE f[y]]

-----------------------------------------------------------------------------
(* The relay *)

Bound == UNION {{pairs[p].port[l] : l \in Legs} : p \in DOMAIN pairs}

(* The lowest port of the range whose bind does not fail. *)
listenUDP(port, taken) ==
  /\ port \in Ports \ taken
  /\ \A q \in Ports : q < port => q \in taken

Touched(p) == [pairs EXCEPT ![p].idle = 0]

(* The ports of pair p, bound on first use. *)
Allocate(p, port) ==
  IF p \in DOMAIN pairs
    THEN port = pairs[p].port /\ pairs' = Touched(p)
    ELSE /\ listenUDP(port["A"], Bound)
         /\ listenUDP(port["B"], Bound \cup {port["A"]})
         /\ pairs' = Put(pairs, p, [port |-> port, src |-> [l \in Legs |-> NoAddr], idle |-> 0])

(* ErrPortsExhausted.  A single free port is bound and closed again. *)
Exhausted(p) == p \notin DOMAIN pairs /\ Cardinality(Ports \ Bound) < 2

(* Mutant: the first sender owns the leg for good. *)
MayTeachFirst(cur, d) == cur \in {NoAddr, d.from}

(* A leg adopts its first sender; after that only a handshake moves it. *)
MayTeach(cur, d) == cur \in {NoAddr, d.from} \/ d.kind = "handshake"

(* A datagram arrives on leg l of pair p. *)
forward(p, l, d) ==
  /\ pairs[p].port[l] = d.port
  /\ pairs' = IF MayTeach(pairs[p].src[l], d)
                THEN [pairs EXCEPT ![p].src[l] = d.from, ![p].idle = 0]
                ELSE pairs

(* The sessions of pairs ps are gone: their agents are not told. *)
Orphaned(ps) == [p \in Pairs |-> [l \in Legs |->
                   [side[p][l] EXCEPT !.current = @ /\ p \notin ps]]]

Idle(p) == pairs[p].idle > IdleLimit

cleanupLoop ==
  LET reaped == {p \in DOMAIN pairs : Idle(p)} IN
  /\ reaped # {}
  /\ pairs' = [p \in DOMAIN pairs \ reaped |-> pairs[p]]
  /\ side' = Orphaned(reaped)
  /\ UNCHANGED net

(* The relay's process ends and starts again. *)
RelayRestart ==
  /\ DOMAIN pairs # {}
  /\ pairs' = [p \in {} |-> NoPort]
  /\ side' = Orphaned(Pairs)
  /\ UNCHANGED net

-----------------------------------------------------------------------------
(* The agents *)

(* Mutant: whoever asks first for the session is given its first port. *)
LegPortByArrival(p, l, port) ==
  IF \E k \in Legs \ {l} : side[p][k].port # NoPort THEN port["B"] ELSE port["A"]

(* Port A serves the smaller key: the leg belongs to the key, not to the    *)
(* order of the requests.                                                   *)
LegPort(p, l, port) == port[l]

(* A peer without a relay asks for one.  Each side is given its own leg's   *)
(* port; the answer may be lost, and the allocation stays.  An answer that  *)
(* arrives does so at once: the idle timeout of a fresh session is far      *)
(* longer than the request's, so that only a restart of the relay in        *)
(* between would make a difference, after which the side is not current.    *)
handleRelayPair(p, l, answered) ==
  /\ side[p][l].port = NoPort
  /\ \/ \E port \in [Legs -> Ports] :
          /\ Allocate(p, port)
          /\ side' = IF answered
                       THEN [side EXCEPT ![p][l].port = LegPort(p, l, port),
                                         ![p][l].current = TRUE]
                       ELSE side
     \/ /\ Exhausted(p) /\ answered
        /\ side' = [side EXCEPT ![p][l].port = Broken]
        /\ UNCHANGED pairs
  /\ UNCHANGED net

(* Off the relay again: the direct path works, or the agent restarts. *)
Leave(p, l) ==
  /\ side[p][l].port # NoPort
  /\ side' = [side EXCEPT ![p][l].port = NoPort, ![p][l].current = FALSE]
  /\ UNCHANGED <<pairs, net>>

(* The peer's public address changes. *)
Roam(p, l, a) ==
  /\ side' = [side EXCEPT ![p][l].addr = a]
  /\ side[p][l].addr # a
  /\ UNCHANGED <<pairs, net>>

Present == {side[p][l].addr : p \in Pairs, l \in Legs}

(* WireGuard sends to the port the agent has set, valid or not. *)
Send(p, l, kind) ==
  /\ side[p][l].port \in Ports
  /\ Cardinality({d \in net : d.from \in Present}) < MaxNet
  /\ net' = net \cup {[port |-> side[p][l].port, from |-> side[p][l].addr, kind |-> kind]}
  /\ UNCHANGED <<pairs, side>>

(* The network delivers a datagram, now or later, once or more often. *)
Deliver(d, again) ==
  /\ \E p \in DOMAIN pairs, l \in Legs : forward(p, l, d)
  /\ net' = IF again THEN net ELSE net \ {d}
  /\ UNCHANGED side

(* It is lost, or nobody listens on its port. *)
Lose(d) ==
  /\ net' = net \ {d}
  /\ UNCHANGED <<pairs, side>>

Tick ==
  /\ \E p \in DOMAIN pairs : ~Idle(p)
  /\ pairs' = [p \in DOMAIN pairs |->
                 [pairs[p] EXCEPT !.idle = IF @ > IdleLimit THEN @ ELSE @ + 1]]
  /\ UNCHANGED <<side, net>>

Init ==
  /\ pairs = [p \in {} |-> NoPort]
  /\ net = {}
  /\ side \in [Pairs -> [Legs -> [addr : Addrs, port : {NoPort}, current : {FALSE}]]]
  /\ \A p \in Pairs, l \in Legs : side[p][l].addr \in Homes[p][l]

Next ==
  \/ cleanupLoop
  \/ RelayRestart
  \/ Tick
  \/ \E p \in Pairs, l \in Legs :
       \/ \E answered \in BOOLEAN : handleRelayPair(p, l, answered)
       \/ Leave(p, l)
       \/ \E a \in Homes[p][l] : Roam(p, l, a)
       \/ \E kind \in {"handshake", "data"} : Send(p, l, kind)
  \/ \E d \in net : Lose(d) \/ \E again \in BOOLEAN : Deliver(d, again)

Spec == Init /\ [][Next]_vars

(* No datagram is on its way for ever, and a peer that keeps re-handshaking *)
(* gets a handshake through again and again.  Nothing is assumed of the     *)
(* other peers.                                                             *)
Fairness(p, l) ==
  /\ WF_vars(\E d \in net : Lose(d))
  /\ SF_vars(Send(p, l, "handshake"))
  /\ SF_vars(\E d \in net : d.from = side[p][l].addr /\ d.kind = "handshake" /\ Deliver(d, FALSE))

FairSpec == Spec /\ Fairness(Watched[1], Watched[2])

-----------------------------------------------------------------------------
(* Properties *)

(* The two sides of a pair ask at different times, lose answers and ask     *)
(* again, leave the relay and come back; as long as the relay keeps the     *)
(* pair they are on opposite legs of one session ("each side calls this     *)
(* independently and receives its own port", handleRelayPair), and what     *)
(* arrives on a port belongs to one pair and one of its legs (listenUDP).   *)
SidesOfOneSession ==
  /\ \A p \in Pairs, l \in Legs :
       side[p][l].current => p \in DOMAIN pairs /\ side[p][l].port = pairs[p].port[l]
  /\ \A p, q \in DOMAIN pairs, l, k \in Legs :
       pairs[p].port[l] = pairs[q].port[k] => p = q /\ l = k

(* A relayed peer is found at its current address again, whatever delayed   *)
(* datagrams of its old address, and of agents that still use the port for  *)
(* a pair long reaped, arrive in between: "genuine address changes still    *)
(* converge" (package relay).                                               *)
RoamingConverges ==
  LET p == Watched[1]
      l == Watched[2]
  IN  side[p][l].current ~> (~side[p][l].current \/ pairs[p].src[l] = side[p][l].addr)

=============================================================================
