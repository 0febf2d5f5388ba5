---------------------------- MODULE SyncPayload ----------------------------
(***************************************************************************)
(* What the control plane tells an agent: which peers it may see           *)
(* (internal/store, listVisible) and the WireGuard peer list rendered from *)
(* them (cmd/server, buildPeerEntries and its neighbours).  The operators  *)
(* are functions of one snapshot of the registry.                          *)
(*                                                                         *)
(* An allowed address is a pair <<family, address>>; the default routes of *)
(* an exit node are not addresses of a host and are given by IsExitEntry.  *)
(***************************************************************************)
EXTENDS Registry

CONSTANT DefaultAllow  \* --default-policy allow

ASSUME PolicyAssumption == DefaultAllow \in BOOLEAN

-----------------------------------------------------------------------------
(* Visibility *)

(* Rules match in both directions; NULL is a wildcard. *)
RuleConnects(r, a, b) ==
  /\ rules[r].src \in {None, a, b}
  /\ rules[r].dst \in {None, a, b}

(* Mutant: the client of an exit node does not see it without a rule. *)
SeesWithoutExit(self, p) ==
  /\ Active(p)
  /\ p # self
  /\ \/ DefaultAllow
     \/ peers[p].gateway = self
     \/ peers[p].exit = self
     \/ \E r \in DOMAIN rules : RuleConnects(r, self, p)

(* A gateway always sees its mobiles and an exit pair sees each other, even *)
(* under default deny.                                                      *)
Sees(self, p) ==
  /\ Active(p)
  /\ p # self
  /\ \/ DefaultAllow
     \/ peers[p].gateway = self
     \/ peers[p].exit = self
     \/ p = peers[self].exit
     \/ \E r \in DOMAIN rules : RuleConnects(r, self, p)

listVisible(self) == {p \in DOMAIN peers : Sees(self, p)}

-----------------------------------------------------------------------------
(* The peer list *)

RoutedMobile(o) == peers[o].kind = "static" /\ peers[o].gateway # None

(* A routed mobile is a WireGuard peer of its own gateway only. *)
PeerEntries(self) ==
  {o \in listVisible(self) : RoutedMobile(o) => peers[o].gateway = self}

mobilesByGateway(self, g) ==
  {o \in listVisible(self) : RoutedMobile(o) /\ peers[o].gateway = g}

allowedIPsForPeer(p) ==
  {<<f, peers[p].addr[f]>> : f \in {g \in Families : peers[p].addr[g] # 0}}

(* Mutant: mobiles are not folded into their gateway's entry. *)
OwnIPsOnly(self, o) == allowedIPsForPeer(o)

(* Every other agent reaches a mobile through its gateway's entry. *)
AllowedIPs(self, o) ==
  allowedIPsForPeer(o) \cup
    (IF peers[o].kind = "static" THEN {}
     ELSE UNION {allowedIPsForPeer(m) : m \in mobilesByGateway(self, o)})

(* The entry that also carries 0.0.0.0/0 and ::/0. *)
IsExitEntry(self, o) ==
  /\ peers[o].kind = "agent"
  /\ peers[self].exit # None
  /\ o = peers[self].exit

(* The mobiles self forwards for, and whether self masquerades for anyone. *)
gatewayRoutesFor(self) ==
  {o \in listVisible(self) : peers[o].kind = "static" /\ peers[o].gateway = self}

exitNodeActiveFor(self) == \E o \in listVisible(self) : peers[o].exit = self

-----------------------------------------------------------------------------
(* Properties *)

Agents == {p \in DOMAIN peers : ActiveAgent(p)}

(* Two agents configure each other or neither does, and an agent sends its  *)
(* internet traffic only to an exit that is told to masquerade for it:      *)
(* "assignment implies mutual visibility" (exitNodeActiveFor).              *)
LinksMutual ==
  \A a, b \in Agents :
    /\ b \in PeerEntries(a) <=> a \in PeerEntries(b)
    /\ b \in PeerEntries(a) /\ IsExitEntry(a, b) => exitNodeActiveFor(b)

(* WireGuard moves an allowed address to the last peer that claims it, so   *)
(* the entries of one list never overlap and never claim the reader's own.  *)
AllowedIPsDisjoint ==
  \A a \in Agents :
    /\ \A o \in PeerEntries(a) : AllowedIPs(a, o) \cap allowedIPsForPeer(a) = {}
    /\ \A o, u \in PeerEntries(a) :
         o # u => AllowedIPs(a, o) \cap AllowedIPs(a, u) = {}

(* Whoever routes a mobile through a gateway, that gateway has the mobile   *)
(* as a WireGuard peer and was told to forward for it.                      *)
RoutedMobileIsForwarded ==
  \A a \in Agents : \A g \in PeerEntries(a) : \A m \in mobilesByGateway(a, g) :
    /\ g \in Agents
    /\ m \in PeerEntries(g)
    /\ m \in gatewayRoutesFor(g)

(* A mobile an agent may see, whose gateway is up, is reachable for it: its *)
(* address "is folded into its gateway agent's AllowedIPs, so mesh traffic  *)
(* to the mobile routes through the gateway" (buildPeerEntries).            *)
VisibleMobileRouted ==
  \A a \in Agents : \A m \in listVisible(a) :
    RoutedMobile(m) /\ Active(peers[m].gateway) =>
      \E o \in PeerEntries(a) : allowedIPsForPeer(m) \subseteq AllowedIPs(a, o)

(* Two peers that exist before and after a step start to see each other     *)
(* only because the step edited nothing but rules, or assigned one to exit  *)
(* through the other: enrolling, revoking and removing third parties, with  *)
(* the cascades of RemovePeer, never widens what default deny allows.       *)
VisibilityGrantedByPolicy ==
  [][\A a, b \in DOMAIN peers \cap DOMAIN peers' :
       Sees(a, b)' /\ ~Sees(a, b) =>
         \/ peers' = peers
         \/ peers'[a].exit = b /\ peers[a].exit # b
         \/ peers'[b].exit = a /\ peers[b].exit # a]_vars

=============================================================================
