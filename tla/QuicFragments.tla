---------------------------- MODULE QuicFragments ---------------------------
(***************************************************************************)
(* A packet on its way through the QUIC relay (cmd/agent/relayquic.go): the *)
(* sender cuts it into datagrams under an id, the relay passes each on or   *)
(* loses it, in any order, and the receiver puts them together again.       *)
(* Incomplete packets are kept until others need their room.                *)
(***************************************************************************)
EXTENDS Integers, FiniteSets

CONSTANTS
  Sizes,          \* in fragments: what a packet may need, 0 and too many included
  MaxFragments,   \* 255, the most a header can count
  MaxAssemblies,  \* 64
  IdSpace,        \* 2^32: ids wrap around
  MaxPackets      \* bound on packets

ASSUME IdAssumption == IdSpace \in Nat \ {0}

VARIABLES
  packets,     \* sizes of the packets sent so far, per packet number
  nextId,      \* p.seq of the sender
  datagrams,   \* on their way
  assemblies,  \* of the receiver: per id what it has, NoAssembly when nothing
  received,    \* what was handed to WireGuard: per delivery the packets its parts are from
  again        \* history: an id was used while fragments of its last use were about

quicVars == <<packets, nextId, datagrams, assemblies, received, again>>

Ids == 0..(IdSpace - 1)
NoAssembly == [count |-> 0, parts |-> {}]

QuicInit ==
  /\ packets = 0
  /\ nextId = 0
  /\ datagrams = {}
  /\ assemblies = [id \in Ids |-> NoAssembly]
  /\ received = {}
  /\ again = FALSE

(* WireGuard hands over a packet: one id, one datagram per fragment. *)
udpToQUIC(count) ==
  LET id == (nextId + 1) % IdSpace IN
  /\ packets < MaxPackets
  /\ packets' = packets + 1
  /\ nextId' = id
  /\ datagrams' = datagrams \cup
       IF count = 0 \/ count > MaxFragments THEN {}
       ELSE {[id |-> id, index |-> i, count |-> count, packet |-> packets + 1] : i \in 0..(count - 1)}
  /\ again' = (again \/ assemblies[id] # NoAssembly \/ \E d \in datagrams : d.id = id)
  /\ UNCHANGED <<assemblies, received>>

(* The sender's tunnel is set up anew and counts from the start. *)
senderRestarts ==
  /\ nextId # 0
  /\ nextId' = 0
  /\ UNCHANGED <<packets, datagrams, assemblies, received, again>>

datagramLost(d) ==
  /\ d \in datagrams
  /\ datagrams' = datagrams \ {d}
  /\ UNCHANGED <<packets, nextId, assemblies, received, again>>

Kept == {id \in Ids : assemblies[id] # NoAssembly}

(* Room for one more: any other may have to go. *)
Rooms(id) ==
  IF id \in Kept \/ Cardinality(Kept) < MaxAssemblies THEN {assemblies}
  ELSE {[assemblies EXCEPT ![old] = NoAssembly] : old \in Kept}

(* Mutant: whatever is incomplete is completed. *)
assemblyOfAny(room, d) ==
  IF \E id \in Ids : room[id].count = d.count
  THEN room[CHOOSE id \in Ids : room[id].count = d.count]
  ELSE [count |-> d.count, parts |-> {}]

assemblyOf(room, d) ==
  IF room[d.id] = NoAssembly THEN [count |-> d.count, parts |-> {}] ELSE room[d.id]

(* A datagram that does not fit what is kept under its id is dropped. *)
quicToUDP(d) ==
  /\ d \in datagrams
  /\ datagrams' = datagrams \ {d}
  /\ \E room \in Rooms(d.id) :
       LET kept == assemblyOf(room, d)
           fits == kept.count = d.count /\ \A p \in kept.parts : p.index # d.index
           parts == IF fits THEN kept.parts \cup {[index |-> d.index, packet |-> d.packet]}
                    ELSE kept.parts
           whole == fits /\ Cardinality(parts) = d.count
       IN  /\ assemblies' = [room EXCEPT ![d.id] =
                IF whole THEN NoAssembly ELSE [count |-> kept.count, parts |-> parts]]
           /\ received' = IF whole THEN received \cup {{p.packet : p \in parts}} ELSE received
  /\ UNCHANGED <<packets, nextId, again>>

QuicNext ==
  \/ \E count \in Sizes : udpToQUIC(count)
  \/ senderRestarts
  \/ \E d \in datagrams : datagramLost(d) \/ quicToUDP(d)

QuicSpec == QuicInit /\ [][QuicNext]_quicVars

-----------------------------------------------------------------------------
(* What WireGuard receives is a packet that was sent, whole: fragments of   *)
(* different packets are never put together, whatever is lost, reordered or *)
(* pushed out, as long as no id comes up again while a fragment of its last *)
(* use is about (quicToUDP keeps incomplete packets for ever).              *)
PacketsWhole == ~again => \A from \in received : Cardinality(from) = 1

=============================================================================
