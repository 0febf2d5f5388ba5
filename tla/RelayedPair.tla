----------------------------- MODULE RelayedPair -----------------------------
(***************************************************************************)
(* Two agents that relay each other through the control plane: the server  *)
(* has one hub for QUIC and one for WebSocket sessions (cmd/server), each  *)
(* agent picks its transport by itself (cmd/agent/relay.go, switchToRelay  *)
(* with the automatic transport).  The agents' side of AgentPath, reduced  *)
(* to the session, composed with WSHub: the pair's entry in each hub is a  *)
(* pair id of its own.                                                     *)
(***************************************************************************)
EXTENDS WSHub

CONSTANT UdpBlocked  \* the members whose networks do not pass QUIC

Hubs == {"quic", "ws"}

ASSUME PairAssumption == Pairs = Hubs /\ Cardinality(Members) = 2 /\ UdpBlocked \subseteq Members

VARIABLES
  proxy,           \* proxy[x]: x's relay proxy: its transport and connection
  quicUnavailable  \* quicUnavailable[x], as in AgentPath

vars == <<pairs, conn, proxy, quicUnavailable>>

NoProxy == [via |-> "none", conn |-> NoConn]

(* The pumps of x's proxy are running. *)
alive(x) == proxy[x] # NoProxy /\ Here(proxy[x].conn) /\ conn[proxy[x].conn].open

(* x dials a hub.  The id must not be one a proxy still holds. *)
Dial(c, hub, x) ==
  /\ \A y \in Members : proxy[y].conn # c
  /\ Accept(c, hub, x)
  /\ proxy' = [proxy EXCEPT ![x] = [via |-> hub, conn |-> c]]

startQUICRelay(c, x) == x \notin UdpBlocked /\ Dial(c, "quic", x)
startWSRelay(c, x) == Dial(c, "ws", x)

(* checkHandshakes: a dead proxy is retired, after which QUIC is not tried  *)
(* again; if the peer is silent, a relay is dialed: QUIC unless it has      *)
(* failed before, WebSocket when it fails now.  Either attempt may fail.    *)
checkHandshakes(x) ==
  LET noQUIC == quicUnavailable[x] \/ proxy[x].via = "quic"
      remember(b) == quicUnavailable' = [quicUnavailable EXCEPT ![x] = b]
  IN
  /\ ~alive(x)
  /\ \/ /\ proxy # [proxy EXCEPT ![x] = NoProxy]
        /\ proxy' = [proxy EXCEPT ![x] = NoProxy]
        /\ \E failed \in BOOLEAN : remember(noQUIC \/ failed)
        /\ UNCHANGED hubVars
     \/ /\ ~noQUIC
        /\ \E c \in Conns : startQUICRelay(c, x)
        /\ remember(FALSE)
     \/ /\ \E c \in Conns : startWSRelay(c, x)
        /\ remember(TRUE)

(* A direct path was proved: the proxy is closed and its history dropped. *)
promoteDirect(x) ==
  /\ alive(x)
  /\ conn' = Closed(conn, proxy[x].conn)
  /\ proxy' = [proxy EXCEPT ![x] = NoProxy]
  /\ quicUnavailable' = [quicUnavailable EXCEPT ![x] = FALSE]
  /\ UNCHANGED pairs

RelayInit ==
  /\ Init
  /\ proxy = [x \in Members |-> NoProxy]
  /\ quicUnavailable = [x \in Members |-> FALSE]

RelayNext ==
  \/ \E x \in Members : checkHandshakes(x) \/ promoteDirect(x)
  \/ \E c \in Conns : (Handle(c) \/ Disconnect(c)) /\ UNCHANGED <<proxy, quicUnavailable>>

(* The handlers of the server run on. *)
Serves(c) == (join(c) \/ WriteFrame(c) \/ ReadFails(c) \/ leave(c)) /\ UNCHANGED <<proxy, quicUnavailable>>

RelaySpec ==
  /\ RelayInit /\ [][RelayNext]_vars
  /\ \A c \in Conns : WF_vars(Serves(c))
  /\ \A x \in Members : WF_vars(checkHandshakes(x))

-----------------------------------------------------------------------------
(* Properties *)

Relaying == \A x \in Members : alive(x)
Meeting == \E hub \in Hubs : \A x \in Members : Member(hub, x) = proxy[x].conn

(* Two proxies that stay up on the same transport meet in its hub, whatever *)
(* earlier connections of theirs are still being cleaned up (Serve).        *)
SameTransportMeets ==
  \A hub \in Hubs :
    (Relaying /\ \A x \in Members : proxy[x].via = hub) ~> (Meeting \/ ~Relaying)

(* Two agents that stay on relays reach each other through them: WebSocket  *)
(* is the fallback for networks that do not pass QUIC ("crosses             *)
(* UDP-blocking networks", DOCS.md).                                        *)
RelaysMeet == Relaying ~> (Meeting \/ ~Relaying)

=============================================================================
