----------------------------- MODULE Candidates -----------------------------
(***************************************************************************)
(* The endpoints two agents are told to try for each other: what an agent   *)
(* finds and reports (cmd/agent/candidates.go, telemetry.go), what the      *)
(* control plane keeps of it and how it ranks it for the other side         *)
(* (cmd/server/main.go, endpointCandidates and pairCandidates).             *)
(*                                                                         *)
(* An address is a number whose tens digit is its subnet.                   *)
(***************************************************************************)
EXTENDS Integers, Sequences, SequencesExt

CONSTANTS
  Hosts,                  \* the situations an agent may be in, see HostFacts
  maxHostCandidates, maxHost6Candidates,
  maxAgentCandidates,     \* what the control plane stores of one agent
  maxEndpointCandidates   \* what it hands on about one peer

Subnet(a) == a \div 10
Overlay == 3
CarrierNAT == 4
Global6 == 6
Private6 == 7
IsV4(a) == Subnet(a) < Global6

(* An agent's interface addresses; the address its NAT shows to the world   *)
(* and the one it shows to the control plane, 0 when not known; a global    *)
(* IPv6 address that answers STUN, or 0; a router mapping; an endpoint      *)
(* pinned by the operator, or 0; whether it manages its firewall.           *)
HostFacts == [ifaces : SUBSET Nat, wan : Nat, observed : Nat, v6 : Nat,
              mapped : BOOLEAN, pinned : Nat, managed : BOOLEAN]
ASSUME HostsAssumption == Hosts \subseteq HostFacts

WgPort == 1
StunPort == 2
MappedPort == 3
Endpoint(a, port) == [host |-> a, port |-> port]
Unknown == Endpoint(0, 0)

Capped(s, n) == IF Len(s) > n THEN SubSeq(s, 1, n) ELSE s
Ascending(S) == [i \in 1..Cardinality(S) |-> CHOOSE a \in S : Cardinality({b \in S : b < a}) = i - 1]
OfTypes(s, types) == SelectSeq(s, LAMBDA c : c.type \in types)

VARIABLES
  host,      \* per agent: its situation
  peerRow,   \* per agent: what the control plane has stored about it
  leg        \* per agent: its address as the UDP relay sees it, or Unknown
candidateVars == <<host, peerRow, leg>>

Ends == {1, 2}
OtherEnd(x) == 3 - x

-----------------------------------------------------------------------------
(* The agent *)

candidateAddr(a, overlays) ==
  Subnet(a) \notin overlays \cup {CarrierNAT, Private6}

(* Mutant: all addresses are reported. *)
gatherAllCandidates(h, overlays) ==
  LET usable == {a \in h.ifaces : candidateAddr(a, overlays)}
      found(s, type) == [i \in DOMAIN s |-> [endpoint |-> Endpoint(s[i], WgPort), type |-> type]]
  IN  found(Ascending({a \in usable : IsV4(a)}), "host")
      \o found(Ascending({a \in usable : ~IsV4(a) /\ h.managed}), "host6")

gatherLocalCandidates(h, overlays) ==
  LET usable == {a \in h.ifaces : candidateAddr(a, overlays)}
      first(S, n) == Capped(Ascending(S), n)
      found(s, type) == [i \in DOMAIN s |-> [endpoint |-> Endpoint(s[i], WgPort), type |-> type]]
  IN  found(first({a \in usable : IsV4(a)}, maxHostCandidates), "host")
      \o found(first({a \in usable : ~IsV4(a) /\ h.managed}, maxHost6Candidates), "host6")

One(given, endpoint, type) == IF given THEN <<[endpoint |-> endpoint, type |-> type]>> ELSE <<>>

(* No IPv6 discovery for an agent whose endpoint is pinned. *)
publicEndpoint6(h) == IF h.v6 # 0 /\ h.pinned = 0 THEN Endpoint(h.v6, WgPort) ELSE Unknown

publicEndpoint(h) ==
  IF h.pinned # 0 THEN Endpoint(h.pinned, WgPort) ELSE IF h.wan # 0 THEN Endpoint(h.wan, StunPort) ELSE Unknown

(* What an enrollment lists: the overlay is not known yet. *)
enrollCandidates(h) ==
  gatherLocalCandidates(h, {}) \o One(publicEndpoint6(h) # Unknown, publicEndpoint6(h), "stun6")

selfCandidates(h) ==
  gatherLocalCandidates(h, {Overlay})
  \o One(h.mapped, Endpoint(h.wan, MappedPort), "upnp")
  \o One(publicEndpoint6(h) # Unknown, publicEndpoint6(h), "stun6")
  \o One(h.pinned # 0, publicEndpoint(h), "pinned")

-----------------------------------------------------------------------------
(* The control plane *)

validAgentCandidates(cands) ==
  Capped(OfTypes(cands, {"host", "host6", "stun6", "upnp", "pinned"}), maxAgentCandidates)

lanEndpoint(p) == IF p.observed = 0 THEN Unknown ELSE Endpoint(p.observed, WgPort)

sameNAT(self, p) ==
  p.public # Unknown /\ self.public # Unknown /\ self.public.host = p.public.host

sameV4Subnet(selfCands, endpoint) ==
  /\ IsV4(endpoint.host)
  /\ \E i \in DOMAIN selfCands :
       /\ selfCands[i].type = "host" /\ IsV4(selfCands[i].endpoint.host)
       /\ Subnet(selfCands[i].endpoint.host) = Subnet(endpoint.host)

Together == [stun6 |-> 130, host |-> 110, lan |-> 105, host6 |-> 100, pinned |-> 95,
             stun |-> 85, upnp |-> 84, relay |-> 83]
Apart == [pinned |-> 140, stun6 |-> 130, upnp |-> 120, host |-> 110, relay |-> 95,
          stun |-> 90, host6 |-> 85, lan |-> 80]
Rank(self, p) == IF sameNAT(self, p) THEN Together ELSE Apart

(* The sources in the order they are added; an endpoint found before keeps  *)
(* the type it was first added with.                                        *)
CandidateSources(self, p) ==
  LET near == SelectSeq(p.candidates,
                LAMBDA c : c.type # "host" \/ sameV4Subnet(self.candidates, c.endpoint))
      lan == One(lanEndpoint(p) # Unknown, lanEndpoint(p), "lan")
      stun == One(p.public # Unknown, p.public, "stun")
  IN  IF sameNAT(self, p)
      THEN OfTypes(near, {"pinned", "host", "host6", "stun6"}) \o lan \o stun
           \o OfTypes(near, {"upnp"})
      ELSE OfTypes(near, {"pinned"}) \o OfTypes(near, {"stun6"}) \o OfTypes(near, {"upnp"})
           \o stun \o OfTypes(near, {"host6", "host"}) \o lan

AlreadyIn(s, endpoint) == \E i \in DOMAIN s : s[i].endpoint = endpoint
FirstOfEach(s) ==
  FoldLeft(LAMBDA out, c : IF AlreadyIn(out, c.endpoint) THEN out ELSE Append(out, c), <<>>, s)

Priorities == <<140, 130, 120, 110, 105, 100, 95, 90, 85, 84, 83, 80>>

(* Stable, then capped. *)
sortCandidates(s, rank) ==
  Capped(FlattenSeq([k \in DOMAIN Priorities |->
           SelectSeq(s, LAMBDA c : rank[c.type] = Priorities[k])]),
         maxEndpointCandidates)

endpointCandidates(self, p) == sortCandidates(FirstOfEach(CandidateSources(self, p)), Rank(self, p))

(* And the mapping the relay sees for the peer, unless it is listed. *)
pairCandidates(self, p, seenAt) ==
  LET out == endpointCandidates(self, p) IN
  IF seenAt = Unknown \/ AlreadyIn(out, seenAt) THEN out
  ELSE sortCandidates(Append(out, [endpoint |-> seenAt, type |-> "relay"]), Rank(self, p))

-----------------------------------------------------------------------------
NoRow == [candidates |-> <<>>, public |-> Unknown, observed |-> 0]

CandidatesInit ==
  /\ host \in [Ends -> Hosts]
  /\ peerRow = [x \in Ends |-> NoRow]
  /\ leg = [x \in Ends |-> Unknown]

(* An empty list is no update; neither is an unknown endpoint. *)
Stored(row, h, cands) ==
  [candidates |-> IF validAgentCandidates(cands) = <<>> THEN row.candidates
                  ELSE validAgentCandidates(cands),
   public |-> IF publicEndpoint(h) = Unknown THEN row.public ELSE publicEndpoint(h),
   observed |-> h.observed]

EnrollLists(x) ==
  /\ peerRow[x] = NoRow
  /\ peerRow' = [peerRow EXCEPT ![x] = Stored(@, host[x], enrollCandidates(host[x]))]
  /\ UNCHANGED <<host, leg>>

ReportLists(x) ==
  /\ peerRow[x] # NoRow
  /\ peerRow' = [peerRow EXCEPT ![x] = Stored(@, host[x], selfCandidates(host[x]))]
  /\ UNCHANGED <<host, leg>>

(* A packet of the agent arrives on its leg of the relay. *)
LegSeen(x) ==
  /\ \A y \in Ends : peerRow[y] # NoRow
  /\ host[x].wan # 0
  /\ leg' = [leg EXCEPT ![x] = Endpoint(host[x].wan, StunPort)]
  /\ UNCHANGED <<host, peerRow>>

CandidatesNext == \E x \in Ends : EnrollLists(x) \/ ReportLists(x) \/ LegSeen(x)

-----------------------------------------------------------------------------
(* Properties *)

Offered(x) == pairCandidates(peerRow[x], peerRow[OtherEnd(x)], leg[OtherEnd(x)])
OneNAT == peerRow[1].public # Unknown /\ peerRow[1].public.host = peerRow[2].public.host
Reported(x) == peerRow[x] = Stored(peerRow[x], host[x], selfCandidates(host[x]))

(* Once an agent with a pinned endpoint has reported, it is the first thing *)
(* agents behind other NATs are told to try: however many addresses the     *)
(* machine has, no cap of agent, store or payload cuts it off               *)
(* ("outranks every guessed path", endpointCandidates).  Behind a shared    *)
(* NAT the discovered, mapped and relayed public endpoints come after every *)
(* address of the local wire ("those sort last").                           *)
OffersRanked ==
  \A x \in Ends :
    LET y == OtherEnd(x)
        offered == Offered(x)
    IN  /\ host[y].pinned # 0 /\ peerRow[x] # NoRow /\ peerRow[y] # NoRow /\ Reported(y) /\ ~OneNAT
             => Len(offered) > 0 /\ offered[1].endpoint = publicEndpoint(host[y])
        /\ OneNAT =>
             \A i, j \in DOMAIN offered :
               offered[i].type \in {"stun", "upnp", "relay"}
                 /\ offered[j].type \in {"host", "host6", "lan"} => i > j

=============================================================================
