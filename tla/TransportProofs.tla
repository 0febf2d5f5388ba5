-------------------------- MODULE TransportProofs ---------------------------
(*****************************************************************************)
(* What carries WireGuard packets between two agents: the UDP relay and the  *)
(* QUIC tunnel, for every set of pairs, ports and ids and any loss.          *)
(*****************************************************************************)
EXTENDS UdpRelay, QuicFragments, FiniteSetTheorems, TLAPS

-----------------------------------------------------------------------------
(*****************************************************************************)
(* UDP relay sessions                                                        *)
(*****************************************************************************)

Session == [port : [Legs -> Ports], src : [Legs -> Nat], idle : Nat]
Side == [addr : Nat, port : Nat, current : BOOLEAN]
Sides == [Pairs -> [Legs -> Side]]

(* Live sessions, on ports of their own. *)
Sessions(ps) ==
  /\ DOMAIN ps \subseteq Pairs
  /\ ps \in [DOMAIN ps -> Session]
  /\ \A p, q \in DOMAIN ps, l, k \in Legs :
       ps[p].port[l] = ps[q].port[k] => p = q /\ l = k

(* A side that counts on its session is on its leg of it. *)
OnTheirLegs(s, ps) ==
  \A p \in Pairs, l \in Legs :
    s[p][l].current => p \in DOMAIN ps /\ s[p][l].port = ps[p].port[l]

RelayInv ==
  /\ Sessions(pairs)
  /\ side \in Sides
  /\ OnTheirLegs(side, pairs)
  /\ \A d \in net : d.from \in Nat

LEMMA PortsAreNat == Ports \subseteq Nat /\ Broken \in Nat /\ NoPort \in Nat /\ NoAddr \in Nat
BY RelayAssumption DEF Ports, Broken, NoPort, NoAddr

LEMMA HomesAreNat == \A p \in Pairs, l \in Legs : Homes[p][l] \subseteq Nat
BY RelayAssumption

LEMMA SideUpdate ==
  ASSUME NEW s \in Sides, NEW p \in Pairs, NEW l \in Legs, NEW new \in Side
  PROVE  /\ [s EXCEPT ![p][l] = new] \in Sides
         /\ [s EXCEPT ![p][l] = new][p][l] = new
         /\ \A q \in Pairs, k \in Legs :
              q # p \/ k # l => [s EXCEPT ![p][l] = new][q][k] = s[q][k]
BY DEF Sides

(* The sessions keep their ports. *)
LEMMA SamePorts ==
  ASSUME NEW ps, Sessions(ps), NEW qs \in [DOMAIN ps -> Session],
         \A p \in DOMAIN ps : qs[p].port = ps[p].port
  PROVE  /\ Sessions(qs)
         /\ \A s : OnTheirLegs(s, ps) => OnTheirLegs(s, qs)
<1>1. DOMAIN qs = DOMAIN ps
  OBVIOUS
<1>2. Sessions(qs)
  BY <1>1 DEF Sessions
<1>3. \A s : OnTheirLegs(s, ps) => OnTheirLegs(s, qs)
  BY <1>1 DEF OnTheirLegs
<1>. QED  BY <1>2, <1>3

(* Sessions go, with the claims of their sides. *)
LEMMA OrphansKeep ==
  ASSUME RelayInv, NEW gone \in SUBSET Pairs,
         pairs' = [p \in DOMAIN pairs \ gone |-> pairs[p]],
         side' = Orphaned(gone), net' = net
  PROVE  RelayInv'
<1>1. ASSUME NEW p \in Pairs, NEW l \in Legs
      PROVE  /\ side'[p][l] \in Side
             /\ side'[p][l].port = side[p][l].port
             /\ side'[p][l].current => side[p][l].current /\ p \notin gone
  <2>1. side[p][l] \in Side
    BY DEF RelayInv, Sides
  <2>2. side'[p][l] = [side[p][l] EXCEPT !.current = side[p][l].current /\ p \notin gone]
    BY DEF Orphaned
  <2>3. side'[p][l] \in Side /\ side'[p][l].port = side[p][l].port
    BY <2>1, <2>2 DEF Side
  <2>4. side'[p][l].current = (side[p][l].current /\ p \notin gone)
    BY <2>1, <2>2, Zenon DEF Side
  <2>. QED  BY <2>3, <2>4
<1>2. side' \in Sides
  BY <1>1 DEF Orphaned, Sides
<1>3. DOMAIN pairs' = DOMAIN pairs \ gone /\ \A p \in DOMAIN pairs' : pairs'[p] = pairs[p]
  OBVIOUS
<1>4. Sessions(pairs')
  BY <1>3 DEF RelayInv, Sessions
<1>5. OnTheirLegs(side', pairs')
  BY <1>1, <1>3 DEF RelayInv, OnTheirLegs
<1>. QED  BY <1>2, <1>4, <1>5 DEF RelayInv

LEMMA AllocateKeeps ==
  ASSUME RelayInv, NEW p \in Pairs, NEW port \in [Legs -> Ports], Allocate(p, port)
  PROVE  /\ Sessions(pairs') /\ OnTheirLegs(side, pairs')
         /\ p \in DOMAIN pairs' /\ pairs'[p].port = port
<1>1. CASE p \in DOMAIN pairs
  <2>. DEFINE new == [pairs[p] EXCEPT !.idle = 0]
  <2>1. new \in Session /\ new.port = pairs[p].port
    BY <1>1, SMTT(30) DEF RelayInv, Sessions, Session
  <2>2. pairs' = [pairs EXCEPT ![p] = new] /\ port = pairs[p].port
    BY <1>1 DEF Allocate, Touched, RelayInv, Sessions
  <2>. HIDE DEF new
  <2>3. /\ pairs' \in [DOMAIN pairs -> Session]
        /\ \A q \in DOMAIN pairs : pairs'[q].port = pairs[q].port
    BY <1>1, <2>1, <2>2 DEF RelayInv, Sessions
  <2>. QED  BY <1>1, <2>2, <2>3, SamePorts DEF RelayInv
<1>2. CASE p \notin DOMAIN pairs
  <2>. DEFINE new == [port |-> port, src |-> [l \in Legs |-> NoAddr], idle |-> 0]
  <2>1. new \in Session /\ new.port = port
    BY PortsAreNat DEF Session
  <2>2. /\ port["A"] \in Ports \ Bound /\ port["B"] \in Ports \ (Bound \cup {port["A"]})
        /\ pairs' = Put(pairs, p, new)
    BY <1>2 DEF Allocate, listenUDP
  <2>. HIDE DEF new
  <2>3. /\ DOMAIN pairs' = DOMAIN pairs \cup {p} /\ pairs'[p] = new
        /\ \A q \in DOMAIN pairs : pairs'[q] = pairs[q]
        /\ pairs' \in [DOMAIN pairs' -> Session]
    BY <1>2, <2>1, <2>2 DEF Put, RelayInv, Sessions
  <2>4. \A q \in DOMAIN pairs, l, k \in Legs : pairs[q].port[k] # port[l]
    BY <2>2 DEF Bound, Legs
  <2>5. \A l, k \in Legs : port[l] = port[k] => l = k
    BY <2>2 DEF Legs
  <2>6. Sessions(pairs')
    BY <1>2, <2>1, <2>3, <2>4, <2>5 DEF RelayInv, Sessions
  <2>7. OnTheirLegs(side, pairs')
    BY <1>2, <2>3 DEF RelayInv, OnTheirLegs
  <2>. QED  BY <2>1, <2>3, <2>6, <2>7
<1>. QED  BY <1>1, <1>2

(* A side takes the port of its leg, or none. *)
LEMMA TakingKeeps ==
  ASSUME NEW ps, NEW s \in Sides, OnTheirLegs(s, ps), NEW p \in Pairs, NEW l \in Legs, NEW new \in Side,
         new.current => p \in DOMAIN ps /\ new.port = ps[p].port[l]
  PROVE  OnTheirLegs([s EXCEPT ![p][l] = new], ps) /\ [s EXCEPT ![p][l] = new] \in Sides
<1>. DEFINE t == [s EXCEPT ![p][l] = new]
<1>1. /\ t \in Sides /\ t[p][l] = new
      /\ \A q \in Pairs, k \in Legs : q # p \/ k # l => t[q][k] = s[q][k]
  BY SideUpdate
<1>. HIDE DEF t
<1>2. OnTheirLegs(t, ps)
  BY <1>1 DEF OnTheirLegs
<1>. QED  BY <1>1, <1>2 DEF t

LEMMA PairKeeps ==
  ASSUME RelayInv, NEW p \in Pairs, NEW l \in Legs, NEW answered \in BOOLEAN,
         handleRelayPair(p, l, answered)
  PROVE  RelayInv'
<1>1. side[p][l] \in Side /\ side \in Sides /\ net' = net
  BY DEF RelayInv, Sides, handleRelayPair
<1>2. ASSUME NEW port \in [Legs -> Ports], Allocate(p, port),
             side' = IF answered THEN [side EXCEPT ![p][l].port = LegPort(p, l, port), ![p][l].current = TRUE]
                     ELSE side
      PROVE  RelayInv'
  <2>. DEFINE new == [side[p][l] EXCEPT !.port = port[l], !.current = TRUE]
  <2>1. new \in Side /\ new.port = port[l]
    BY <1>1, PortsAreNat DEF Side
  <2>2. side' = side \/ side' = [side EXCEPT ![p][l] = new]
    BY <1>1, <1>2 DEF LegPort, Sides, Side
  <2>. HIDE DEF new
  <2>3. /\ Sessions(pairs') /\ OnTheirLegs(side, pairs')
        /\ p \in DOMAIN pairs' /\ pairs'[p].port = port
    BY <1>2, AllocateKeeps
  <2>4. OnTheirLegs(side', pairs') /\ side' \in Sides
    <3>1. CASE side' = side
      BY <3>1, <1>1, <2>3
    <3>2. CASE side' = [side EXCEPT ![p][l] = new]
      <4>1. new.port = pairs'[p].port[l]
        BY <2>1, <2>3
      <4>. QED  BY <3>2, <1>1, <2>1, <2>3, <4>1, TakingKeeps
    <3>. QED  BY <2>2, <3>1, <3>2
  <2>. QED  BY <1>1, <2>3, <2>4 DEF RelayInv
<1>3. ASSUME side' = [side EXCEPT ![p][l].port = Broken], pairs' = pairs, side[p][l].port = NoPort
      PROVE  RelayInv'
  <2>. DEFINE new == [side[p][l] EXCEPT !.port = Broken]
  <2>1. new \in Side
    BY <1>1, PortsAreNat DEF Side
  <2>2. side' = [side EXCEPT ![p][l] = new]
    BY <1>1, <1>3 DEF Sides
  <2>3. ~side[p][l].current
    <3>1. NoPort \notin Ports
      BY RelayAssumption DEF NoPort, Ports
    <3>2. p \in DOMAIN pairs => pairs[p].port[l] \in Ports
      BY DEF RelayInv, Sessions, Session
    <3>. QED  BY <1>3, <3>1, <3>2 DEF RelayInv, OnTheirLegs
  <2>4. ~new.current
    <3>1. new.current = side[p][l].current
      BY <1>1, Zenon DEF Side
    <3>. QED  BY <2>3, <3>1
  <2>. HIDE DEF new
  <2>5. OnTheirLegs(side', pairs) /\ side' \in Sides
    BY <1>1, <2>1, <2>2, <2>4, TakingKeeps DEF RelayInv
  <2>. QED  BY <1>1, <1>3, <2>5 DEF RelayInv
<1>. QED  BY <1>2, <1>3 DEF handleRelayPair

LEMMA LeaveKeeps ==
  ASSUME RelayInv, NEW p \in Pairs, NEW l \in Legs, Leave(p, l)
  PROVE  RelayInv'
<1>. DEFINE new == [side[p][l] EXCEPT !.port = NoPort, !.current = FALSE]
<1>1. side[p][l] \in Side /\ side \in Sides /\ pairs' = pairs /\ net' = net
  BY DEF RelayInv, Sides, Leave
<1>2. new \in Side
  BY <1>1, PortsAreNat DEF Side
<1>3. ~new.current
  BY <1>1, Zenon DEF Side
<1>4. side' = [side EXCEPT ![p][l] = new]
  BY <1>1 DEF Leave, Sides, Side
<1>. HIDE DEF new
<1>5. OnTheirLegs(side', pairs) /\ side' \in Sides
  BY <1>1, <1>2, <1>3, <1>4, TakingKeeps DEF RelayInv
<1>. QED  BY <1>1, <1>5 DEF RelayInv

LEMMA RoamKeeps ==
  ASSUME RelayInv, NEW p \in Pairs, NEW l \in Legs, NEW a \in Homes[p][l], Roam(p, l, a)
  PROVE  RelayInv'
<1>. DEFINE new == [side[p][l] EXCEPT !.addr = a]
<1>1. side[p][l] \in Side /\ side \in Sides /\ pairs' = pairs /\ net' = net
  BY DEF RelayInv, Sides, Roam
<1>2. new \in Side /\ new.port = side[p][l].port
  BY <1>1, HomesAreNat DEF Side
<1>3. new.current = side[p][l].current
  BY <1>1, Zenon DEF Side
<1>4. side' = [side EXCEPT ![p][l] = new]
  BY <1>1 DEF Roam, Sides, Side
<1>. HIDE DEF new
<1>5. new.current => p \in DOMAIN pairs /\ new.port = pairs[p].port[l]
  BY <1>2, <1>3 DEF RelayInv, OnTheirLegs
<1>6. OnTheirLegs(side', pairs) /\ side' \in Sides
  BY <1>1, <1>2, <1>4, <1>5, TakingKeeps DEF RelayInv
<1>. QED  BY <1>1, <1>6 DEF RelayInv

LEMMA DeliverKeeps ==
  ASSUME RelayInv, NEW d \in net, NEW twice \in BOOLEAN, Deliver(d, twice)
  PROVE  RelayInv'
<1>1. side' = side /\ \A e \in net' : e.from \in Nat
  BY DEF Deliver, RelayInv
<1>2. PICK p \in DOMAIN pairs, l \in Legs : forward(p, l, d)
  BY DEF Deliver
<1>3. pairs[p] \in Session /\ d.from \in Nat
  BY DEF RelayInv, Sessions
<1>. DEFINE src == [pairs[p].src EXCEPT ![l] = d.from]
            new == [pairs[p] EXCEPT !.src = src, !.idle = 0]
<1>4. src \in [Legs -> Nat]
  BY <1>3 DEF Session
<1>5. pairs' = pairs \/ pairs' = [pairs EXCEPT ![p] = new]
  BY <1>2, <1>3 DEF forward, Session, RelayInv, Sessions
<1>. HIDE DEF src
<1>6. new \in Session /\ new.port = pairs[p].port
  BY <1>3, <1>4 DEF Session
<1>. HIDE DEF new
<1>7. pairs' \in [DOMAIN pairs -> Session] /\ \A q \in DOMAIN pairs : pairs'[q].port = pairs[q].port
  BY <1>5, <1>6 DEF RelayInv, Sessions
<1>. QED  BY <1>1, <1>7, SamePorts DEF RelayInv

LEMMA TickKeeps ==
  ASSUME RelayInv, Tick
  PROVE  RelayInv'
<1>1. ASSUME NEW p \in DOMAIN pairs PROVE pairs'[p] \in Session /\ pairs'[p].port = pairs[p].port
  <2>. DEFINE older == IF pairs[p].idle > IdleLimit THEN pairs[p].idle ELSE pairs[p].idle + 1
  <2>1. pairs[p] \in Session
    BY DEF RelayInv, Sessions
  <2>2. older \in Nat
    BY <2>1 DEF Session
  <2>3. pairs'[p] = [pairs[p] EXCEPT !.idle = older]
    BY DEF Tick
  <2>. HIDE DEF older
  <2>. QED  BY <2>1, <2>2, <2>3 DEF Session
<1>2. pairs' \in [DOMAIN pairs -> Session]
  BY <1>1 DEF Tick
<1>3. side' = side /\ net' = net
  BY DEF Tick
<1>. QED  BY <1>1, <1>2, <1>3, SamePorts DEF RelayInv

(* The sides of a pair are on opposite legs of one session, and a port      *)
(* serves one leg, for any number of pairs and ports, however requests,     *)
(* lost answers, expiry and restarts of the relay interleave                *)
(* (handleRelayPair, Allocate, cleanupLoop).                                *)
THEOREM SidesMeet == Spec => []SidesOfOneSession
<1>1. Init => RelayInv
  <2>. SUFFICES ASSUME Init PROVE RelayInv
    OBVIOUS
  <2>1. ASSUME NEW p \in Pairs, NEW l \in Legs PROVE side[p][l] \in Side /\ ~side[p][l].current
    <3>1. side[p][l] \in [addr : Addrs, port : {NoPort}, current : {FALSE}] /\ side[p][l].addr \in Homes[p][l]
      BY DEF Init
    <3>2. side[p][l].current = FALSE
      BY <3>1, Zenon
    <3>. QED  BY <3>1, <3>2, PortsAreNat, HomesAreNat DEF Side
  <2>2. side \in Sides
    BY <2>1 DEF Init, Sides
  <2>3. DOMAIN pairs = {} /\ pairs \in [{} -> Session]
    BY DEF Init
  <2>. QED  BY <2>1, <2>2, <2>3 DEF Init, RelayInv, Sessions, OnTheirLegs
<1>2. RelayInv /\ [Next]_vars => RelayInv'
  <2>. SUFFICES ASSUME RelayInv, [Next]_vars PROVE RelayInv'
    OBVIOUS
  <2>1. CASE cleanupLoop
    <3>1. {p \in DOMAIN pairs : Idle(p)} \in SUBSET Pairs
      BY DEF RelayInv, Sessions
    <3>. QED  BY <2>1, <3>1, OrphansKeep DEF cleanupLoop
  <2>2. CASE RelayRestart
    <3>1. DOMAIN pairs \ Pairs = {}
      BY DEF RelayInv, Sessions
    <3>2. pairs' = [p \in DOMAIN pairs \ Pairs |-> pairs[p]]
      BY <2>2, <3>1 DEF RelayRestart
    <3>. QED  BY <2>2, <3>2, OrphansKeep DEF RelayRestart
  <2>3. ASSUME NEW p \in Pairs, NEW l \in Legs, NEW kind \in {"handshake", "data"}, Send(p, l, kind)
        PROVE  RelayInv'
    <3>1. side[p][l].addr \in Nat
      BY DEF RelayInv, Sides, Side
    <3>. QED  BY <2>3, <3>1 DEF Send, RelayInv
  <2>4. ASSUME NEW d \in net, Lose(d) PROVE RelayInv'
    BY <2>4 DEF Lose, RelayInv
  <2>5. CASE UNCHANGED vars
    BY <2>5 DEF vars, RelayInv
  <2>. QED  BY <2>1, <2>2, <2>3, <2>4, <2>5, PairKeeps, LeaveKeeps, RoamKeeps, DeliverKeeps,
               TickKeeps DEF Next
<1>3. RelayInv => SidesOfOneSession
  BY DEF RelayInv, Sessions, OnTheirLegs, SidesOfOneSession
<1>. QED  BY <1>1, <1>2, <1>3, PTL DEF Spec

-----------------------------------------------------------------------------
(*****************************************************************************)
(* Packets in QUIC datagrams                                                 *)
(*****************************************************************************)

(* Unless an id was used too early, what is about under an id, on its way   *)
(* or kept, is of one packet.                                               *)
OnePacketPerId ==
  /\ \A d, e \in datagrams : d.id = e.id => d.packet = e.packet
  /\ \A d \in datagrams : \A p \in assemblies[d.id].parts : p.packet = d.packet
  /\ \A id \in Ids : \A p, q \in assemblies[id].parts : p.packet = q.packet

QuicInv ==
  /\ packets \in Nat
  /\ nextId \in Ids
  /\ assemblies = [id \in Ids |-> assemblies[id]]
  /\ \A d \in datagrams : d.id \in Ids
  /\ ~again => OnePacketPerId
  /\ PacketsWhole

LEMMA SendKeeps ==
  ASSUME QuicInv, NEW count, udpToQUIC(count)
  PROVE  QuicInv'
<1>. DEFINE id == (nextId + 1) % IdSpace
            new == IF count = 0 \/ count > MaxFragments THEN {}
                   ELSE {[id |-> id, index |-> i, count |-> count, packet |-> packets + 1] : i \in 0..(count - 1)}
<1>1. id \in Ids
  BY IdAssumption DEF QuicInv, Ids
<1>2. \A d \in new : d.id = id /\ d.packet = packets + 1
  OBVIOUS
<1>3. /\ datagrams' = datagrams \cup new /\ packets' = packets + 1 /\ nextId' = id
      /\ assemblies' = assemblies /\ received' = received
      /\ ~again' => ~again /\ assemblies[id] = NoAssembly /\ \A d \in datagrams : d.id # id
  BY DEF udpToQUIC
<1>. HIDE DEF id, new
<1>4. ~again' => OnePacketPerId'
  <2>. SUFFICES ASSUME ~again' PROVE OnePacketPerId'
    OBVIOUS
  <2>1. OnePacketPerId /\ assemblies[id].parts = {}
    BY <1>3 DEF QuicInv, NoAssembly
  <2>. QED  BY <1>2, <1>3, <2>1 DEF OnePacketPerId
<1>. QED  BY <1>1, <1>2, <1>3, <1>4 DEF QuicInv, PacketsWhole

(* Making room for a fragment forgets, it does not mix. *)
LEMMA RoomsKeep ==
  ASSUME QuicInv, NEW id \in Ids, NEW room \in Rooms(id)
  PROVE  /\ room = [i \in Ids |-> room[i]]
         /\ \A i \in Ids : room[i].parts \subseteq assemblies[i].parts
<1>1. NoAssembly.parts = {}
  BY DEF NoAssembly
<1>2. CASE room = assemblies
  BY <1>2 DEF QuicInv
<1>3. ASSUME NEW old \in Kept, room = [assemblies EXCEPT ![old] = NoAssembly]
      PROVE  /\ room = [i \in Ids |-> room[i]]
             /\ \A i \in Ids : room[i].parts \subseteq assemblies[i].parts
  <2>1. \A i \in Ids : room[i] = IF i = old THEN NoAssembly ELSE assemblies[i]
    BY <1>3 DEF QuicInv
  <2>2. room = [i \in Ids |-> room[i]]
    BY <1>3 DEF QuicInv
  <2>. QED  BY <1>1, <2>1, <2>2
<1>. QED  BY <1>2, <1>3 DEF Rooms

LEMMA ReceiveKeeps ==
  ASSUME QuicInv, NEW d \in datagrams, quicToUDP(d)
  PROVE  QuicInv'
<1>1. PICK room \in Rooms(d.id) :
        LET kept == assemblyOf(room, d)
            fits == kept.count = d.count /\ \A p \in kept.parts : p.index # d.index
            parts == IF fits THEN kept.parts \cup {[index |-> d.index, packet |-> d.packet]}
                     ELSE kept.parts
            whole == fits /\ Cardinality(parts) = d.count
        IN  /\ assemblies' = [room EXCEPT ![d.id] =
                 IF whole THEN NoAssembly ELSE [count |-> kept.count, parts |-> parts]]
            /\ received' = IF whole THEN received \cup {{p.packet : p \in parts}} ELSE received
  BY DEF quicToUDP
<1>. DEFINE kept == assemblyOf(room, d)
            fits == kept.count = d.count /\ \A p \in kept.parts : p.index # d.index
            added == [index |-> d.index, packet |-> d.packet]
            parts == IF fits THEN kept.parts \cup {added} ELSE kept.parts
            whole == fits /\ Cardinality(parts) = d.count
            left == IF whole THEN NoAssembly ELSE [count |-> kept.count, parts |-> parts]
<1>2. /\ datagrams' = datagrams \ {d} /\ packets' = packets /\ nextId' = nextId /\ again' = again
      /\ assemblies' = [room EXCEPT ![d.id] = left]
      /\ received' = IF whole THEN received \cup {{p.packet : p \in parts}} ELSE received
  BY <1>1 DEF quicToUDP
<1>3. d.id \in Ids
  BY DEF QuicInv
<1>4. /\ room = [i \in Ids |-> room[i]]
      /\ \A i \in Ids : room[i].parts \subseteq assemblies[i].parts
  BY <1>3, RoomsKeep
<1>5. kept.parts \subseteq assemblies[d.id].parts
  BY <1>3, <1>4 DEF assemblyOf
<1>6. left.parts \subseteq parts /\ (whole => parts = kept.parts \cup {added}) /\ added.packet = d.packet
  BY DEF NoAssembly
<1>7. parts \subseteq assemblies[d.id].parts \cup {added}
  BY <1>5
<1>. HIDE DEF kept, fits, added, parts, whole, left
<1>8. assemblies' = [i \in Ids |-> IF i = d.id THEN left ELSE room[i]]
  BY <1>2, <1>3, <1>4
<1>9. ~again => \A p \in parts : p.packet = d.packet
  BY <1>6, <1>7 DEF QuicInv, OnePacketPerId
<1>10. ~again => OnePacketPerId'
  BY <1>2, <1>3, <1>4, <1>6, <1>8, <1>9 DEF QuicInv, OnePacketPerId
<1>11. ~again => PacketsWhole'
  <2>. SUFFICES ASSUME ~again, whole PROVE PacketsWhole'
    BY <1>2 DEF QuicInv, PacketsWhole
  <2>1. {p.packet : p \in parts} = {d.packet}
    BY <1>6, <1>9
  <2>2. Cardinality({d.packet}) = 1
    BY FS_Singleton
  <2>. QED  BY <1>2, <2>1, <2>2 DEF QuicInv, PacketsWhole
<1>. QED  BY <1>2, <1>8, <1>10, <1>11 DEF QuicInv, PacketsWhole

(* Fragments of two packets are never put together, for any number of       *)
(* packets, sizes, ids and assemblies, as long as no id is used again while *)
(* a fragment of its last use is about (udpToQUIC, quicToUDP).              *)
THEOREM PacketsStayWhole == QuicSpec => []PacketsWhole
<1>1. QuicInit => QuicInv
  <2>1. NoAssembly.parts = {} /\ 0 \in Ids
    BY IdAssumption DEF NoAssembly, Ids
  <2>. QED  BY <2>1 DEF QuicInit, QuicInv, OnePacketPerId, PacketsWhole
<1>2. QuicInv /\ [QuicNext]_quicVars => QuicInv'
  <2>. SUFFICES ASSUME QuicInv, [QuicNext]_quicVars PROVE QuicInv'
    OBVIOUS
  <2>1. CASE senderRestarts
    BY <2>1, IdAssumption DEF senderRestarts, QuicInv, OnePacketPerId, PacketsWhole, Ids
  <2>2. ASSUME NEW d \in datagrams, datagramLost(d) PROVE QuicInv'
    BY <2>2 DEF datagramLost, QuicInv, OnePacketPerId, PacketsWhole
  <2>3. CASE UNCHANGED quicVars
    BY <2>3 DEF quicVars, QuicInv, OnePacketPerId, PacketsWhole
  <2>. QED  BY <2>1, <2>2, <2>3, SendKeeps, ReceiveKeeps DEF QuicNext
<1>3. QuicInv => PacketsWhole
  BY DEF QuicInv
<1>. QED  BY <1>1, <1>2, <1>3, PTL DEF QuicSpec

=============================================================================
