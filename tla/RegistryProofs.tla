--------------------------- MODULE RegistryProofs ---------------------------
(***************************************************************************)
(* Theorems about the registry, for every set of keys, networks and        *)
(* requests and every bound, and about two views of it: the pool of         *)
(* addresses it implements, and the payloads that agents are sent from it.  *)
(***************************************************************************)
EXTENDS SyncPayload, FiniteSetTheorems, TLAPS

-----------------------------------------------------------------------------
(* Facts about the helpers *)

(* The id SQLite hands out is not in use. *)
LEMMA NextIdIsFresh ==
  ASSUME NEW used \in SUBSET Nat, NEW id \in Nat, IsNextId(id, used)
  PROVE  id \notin used
BY DEF IsNextId

(* An allocated address is held by no row, revoked rows included. *)
LEMMA AllocationIsFree ==
  ASSUME NEW f \in Families, NEW a, Allocates(f, a), a # 0
  PROVE  \A p \in DOMAIN peers : peers[p].addr[f] # a
BY DEF Allocates, IsAllocation, Used

(* Chosen networks are prefixes, and the unset one is none of them. *)
LEMMA NetworksAreFunctions ==
  /\ \A n \in Networks : n \in [Families -> Prefixes]
  /\ \A n \in Prefixes : n.lo \in Nat /\ n.hi \in Nat /\ n # NoNet
  /\ NoTarget \in [Families -> {NoNet}]
  /\ NoTarget \notin Networks
<1>1. \A n \in Networks : n \in [Families -> Prefix \ {NoNet}]
  BY NetworksAssumption
<1>2. \A n \in Networks : n \in [Families -> Prefixes]
  BY <1>1 DEF Prefixes
<1>3. \A n \in Prefixes : n.lo \in Nat /\ n.hi \in Nat /\ n # NoNet
  BY <1>1 DEF Prefixes, Prefix
<1>4. NoTarget \in [Families -> {NoNet}]
  BY DEF NoTarget
<1>5. NoTarget \notin Networks
  BY <1>1, <1>4, FamiliesAssumption
<1>. QED  BY <1>2, <1>3, <1>4, <1>5

(* Positions in id order are distinct and run from one to the number of rows. *)
LEMMA RankFacts ==
  ASSUME DOMAIN peers \subseteq PeerIds
  PROVE  /\ IsFiniteSet(DOMAIN peers)
         /\ Cardinality(DOMAIN peers) \in Nat
         /\ \A p \in DOMAIN peers : Rank(p) \in 1..Cardinality(DOMAIN peers)
         /\ \A p, q \in DOMAIN peers : p < q => Rank(p) < Rank(q)
<1>. DEFINE Upto(p) == {q \in DOMAIN peers : q <= p}
<1>1. IsFiniteSet(DOMAIN peers) /\ Cardinality(DOMAIN peers) \in Nat
  <2>1. IsFiniteSet(1..MaxPeers)
    BY FS_Interval, BoundsAssumption
  <2>. QED  BY <2>1, FS_Subset, FS_CardinalityType DEF PeerIds
<1>2. \A p \in DOMAIN peers : /\ IsFiniteSet(Upto(p))
                              /\ Cardinality(Upto(p)) \in Nat
                              /\ Cardinality(Upto(p)) <= Cardinality(DOMAIN peers)
  BY <1>1, FS_Subset, FS_CardinalityType
<1>3. \A p \in DOMAIN peers : Cardinality(Upto(p)) # 0
  <2>1. TAKE p \in DOMAIN peers
  <2>2. p \in Upto(p)
    BY DEF PeerIds
  <2>. QED  BY <1>2, <2>2, FS_EmptySet
<1>4. \A p, q \in DOMAIN peers : p < q => Cardinality(Upto(p)) < Cardinality(Upto(q))
  <2>1. TAKE p, q \in DOMAIN peers
  <2>2. HAVE p < q
  <2>3. Upto(p) \subseteq Upto(q) /\ Upto(p) # Upto(q)
    BY <2>2, BoundsAssumption DEF PeerIds
  <2>. HIDE DEF Upto
  <2>. QED  BY <1>2, <2>3, FS_Subset
<1>. QED  BY <1>1, <1>2, <1>3, <1>4 DEF Rank

(* The address a migration gives a row is a host of its target. *)
LEMMA RenumberedIsHost ==
  ASSUME DOMAIN peers \subseteq PeerIds, NEW n \in Prefixes, HasRoom(n),
         NEW p \in DOMAIN peers
  PROVE  Renumbered(p, n) \in Hosts(n) /\ Renumbered(p, n) \in HostAddrs
<1>1. Rank(p) \in 1..Cardinality(DOMAIN peers) /\ Cardinality(DOMAIN peers) \in Nat
  BY RankFacts
<1>2. n.lo \in Nat /\ n.hi \in Nat
  BY NetworksAreFunctions
<1>3. Renumbered(p, n) \in Hosts(n)
  BY <1>1, <1>2 DEF Renumbered, Hosts, HasRoom
<1>. QED  BY <1>3 DEF HostAddrs

-----------------------------------------------------------------------------
(* Type correctness *)

(* A row stays a row when one of its columns is assigned a value in range. *)
LEMMA PeerRowUpdates ==
  ASSUME NEW row \in PeerRow
  PROVE  /\ \A a \in [Families -> HostAddrs] : [row EXCEPT !.addr = a] \in PeerRow
         /\ [row EXCEPT !.revoked = TRUE] \in PeerRow
         /\ \A b \in BOOLEAN : [row EXCEPT !.advertise = b] \in PeerRow
         /\ \A e \in PeerIds \cup {None} : [row EXCEPT !.exit = e] \in PeerRow
         /\ \A p \in PeerIds : Detached(row, p) \in PeerRow
<1>1. ASSUME NEW a \in [Families -> HostAddrs]
      PROVE  [row EXCEPT !.addr = a] \in PeerRow
  BY DEF PeerRow
<1>2. [row EXCEPT !.revoked = TRUE] \in PeerRow
  BY DEF PeerRow
<1>3. ASSUME NEW b \in BOOLEAN PROVE [row EXCEPT !.advertise = b] \in PeerRow
  BY DEF PeerRow
<1>4. ASSUME NEW e \in PeerIds \cup {None} PROVE [row EXCEPT !.exit = e] \in PeerRow
  BY DEF PeerRow
<1>5. ASSUME NEW p \in PeerIds PROVE Detached(row, p) \in PeerRow
  <2>. DEFINE x == IF row.exit = p THEN None ELSE row.exit
              g == IF row.gateway = p THEN None ELSE row.gateway
  <2>1. x \in PeerIds \cup {None} /\ g \in PeerIds \cup {None}
    BY DEF PeerRow
  <2>2. Detached(row, p) = [row EXCEPT !.exit = x, !.gateway = g]
    BY DEF Detached
  <2>. HIDE DEF x, g
  <2>3. [row EXCEPT !.exit = x, !.gateway = g] \in PeerRow
    BY <2>1 DEF PeerRow
  <2>. QED  BY <2>2, <2>3
<1>. QED  BY <1>1, <1>2, <1>3, <1>4, <1>5

(* Revocation is a column of its own. *)
LEMMA RevokedUntouched ==
  ASSUME NEW row \in PeerRow, NEW v
  PROVE  /\ [row EXCEPT !.exit = v].revoked = row.revoked
         /\ [row EXCEPT !.advertise = v].revoked = row.revoked
         /\ [row EXCEPT !.addr = v].revoked = row.revoked
BY Zenon DEF PeerRow

(* Detaching a row from a removed peer clears the two references only. *)
LEMMA DetachedColumns ==
  ASSUME NEW row \in PeerRow, NEW p
  PROVE  /\ Detached(row, p).exit = IF row.exit = p THEN None ELSE row.exit
         /\ Detached(row, p).gateway = IF row.gateway = p THEN None ELSE row.gateway
         /\ Detached(row, p).addr = row.addr
         /\ Detached(row, p).key = row.key
         /\ Detached(row, p).kind = row.kind
         /\ Detached(row, p).revoked = row.revoked
<1>. DEFINE x == IF row.exit = p THEN None ELSE row.exit
            g == IF row.gateway = p THEN None ELSE row.gateway
<1>1. Detached(row, p) = [row EXCEPT !.exit = x, !.gateway = g]
  BY DEF Detached
<1>. HIDE DEF x, g
<1>2. LET d == [row EXCEPT !.exit = x, !.gateway = g]
      IN  /\ d.exit = x /\ d.gateway = g /\ d.addr = row.addr
          /\ d.key = row.key /\ d.kind = row.kind
  BY DEF PeerRow
<1>3. [row EXCEPT !.exit = x, !.gateway = g].revoked = row.revoked
  BY Zenon DEF PeerRow
<1>. QED  BY <1>1, <1>2, <1>3 DEF x, g

LEMMA KeyRowUpdates ==
  ASSUME NEW row \in KeyRow
  PROVE  /\ [row EXCEPT !.life = "expired"] \in KeyRow
         /\ [row EXCEPT !.revoked = TRUE] \in KeyRow
         /\ [row EXCEPT !.used = @ + 1] \in KeyRow
<1>1. [row EXCEPT !.life = "expired"] \in KeyRow
  BY DEF KeyRow
<1>2. [row EXCEPT !.revoked = TRUE] \in KeyRow
  BY DEF KeyRow
<1>3. [row EXCEPT !.used = @ + 1] \in KeyRow
  BY DEF KeyRow
<1>. QED  BY <1>1, <1>2, <1>3

LEMMA TypeInit == Init => TypeOK
<1>. SUFFICES ASSUME Init PROVE TypeOK
  OBVIOUS
<1>1. network \in [Families -> Prefixes \cup {NoNet}]
  BY NetworksAssumption, FamiliesAssumption, NetworksAreFunctions
     DEF Init, NoTarget
<1>2. NotEditing \in Edit
  BY DEF NotEditing, Edit, NoAddr, HostAddrs, None
<1>. QED  BY <1>1, <1>2 DEF Init, TypeOK

(* One step per action; the actions that touch a table are taken first. *)
LEMMA TypeNext == TypeOK /\ [Next]_vars => TypeOK'
<1>. SUFFICES ASSUME TypeOK, [Next]_vars PROVE TypeOK'
  OBVIOUS
<1>. USE BoundsAssumption
<1>1. ASSUME NEW max \in KeyLimits, NEW life \in KeyLives,
             CreateNamedSetupKey(max, life)
      PROVE  TypeOK'
  BY <1>1 DEF CreateNamedSetupKey, NewKey, Insert, KeyRow, TypeOK
<1>2. ASSUME NEW s \in DOMAIN keys, KeyExpires(s) PROVE TypeOK'
  BY <1>2, KeyRowUpdates DEF KeyExpires, TypeOK
<1>3. ASSUME NEW s \in DOMAIN keys, RevokeSetupKey(s) PROVE TypeOK'
  BY <1>3, KeyRowUpdates DEF RevokeSetupKey, TypeOK
<1>4. ASSUME NEW k \in PubKeys, NEW s \in DOMAIN keys, EnrollNew(k, s)
      PROVE  TypeOK'
  <2>1. keys' \in [DOMAIN keys -> KeyRow] /\ DOMAIN keys' = DOMAIN keys
    BY <1>4, KeyRowUpdates DEF EnrollNew, TypeOK
  <2>2. PICK id \in PeerIds, addr \in [Families -> HostAddrs] :
          peers' = Insert(peers, id,
                     [pub |-> k, kind |-> "agent", addr |-> addr, key |-> s,
                      revoked |-> FALSE, advertise |-> FALSE,
                      exit |-> None, gateway |-> None])
    BY <1>4 DEF EnrollNew, NewPeer
  <2>3. DOMAIN peers' \subseteq PeerIds /\ peers' \in [DOMAIN peers' -> PeerRow]
    BY <2>2 DEF Insert, PeerRow, TypeOK
  <2>. QED  BY <1>4, <2>1, <2>3 DEF EnrollNew, TypeOK
<1>5. ASSUME NEW p \in DOMAIN peers, NEW s \in DOMAIN keys, reEnroll(p, s)
      PROVE  TypeOK'
  <2>1. PICK addr \in [Families -> HostAddrs] :
          peers' = [peers EXCEPT ![p].addr = addr]
    BY <1>5 DEF reEnroll
  <2>2. DOMAIN peers' = DOMAIN peers /\ peers' \in [DOMAIN peers -> PeerRow]
    BY <2>1, PeerRowUpdates DEF TypeOK
  <2>. QED  BY <1>5, <2>2 DEF reEnroll, TypeOK
<1>6. ASSUME NEW k \in PubKeys, NEW g \in DOMAIN peers, CreateStaticPeer(k, g)
      PROVE  TypeOK'
  <2>1. PICK s \in KeyIds, id \in PeerIds, addr \in [Families -> HostAddrs] :
          /\ keys' = Insert(keys, s, [revoked |-> FALSE, life |-> "never",
                                      max |-> 1, used |-> 1])
          /\ peers' = Insert(peers, id,
                        [pub |-> k, kind |-> "static", addr |-> addr, key |-> s,
                         revoked |-> FALSE, advertise |-> FALSE,
                         exit |-> None, gateway |-> g])
    BY <1>6 DEF CreateStaticPeer, NewPeer, NewKey
  <2>2. DOMAIN peers' \subseteq PeerIds /\ peers' \in [DOMAIN peers' -> PeerRow]
    BY <2>1 DEF Insert, PeerRow, TypeOK
  <2>3. DOMAIN keys' \subseteq KeyIds /\ keys' \in [DOMAIN keys' -> KeyRow]
    BY <2>1 DEF Insert, KeyRow, TypeOK
  <2>. QED  BY <1>6, <2>2, <2>3 DEF CreateStaticPeer, TypeOK
<1>7. ASSUME NEW p \in DOMAIN peers, RevokePeer(p) PROVE TypeOK'
  BY <1>7, PeerRowUpdates DEF RevokePeer, TypeOK
<1>8. ASSUME NEW p \in DOMAIN peers, RemovePeer(p) PROVE TypeOK'
  <2>1. \A q \in DOMAIN peers : Detached(peers[q], p) \in PeerRow
    BY PeerRowUpdates DEF TypeOK
  <2>2. DOMAIN peers' \subseteq PeerIds /\ peers' \in [DOMAIN peers' -> PeerRow]
    BY <1>8, <2>1 DEF RemovePeer, TypeOK
  <2>3. DOMAIN rules' \subseteq RuleIds /\ rules' \in [DOMAIN rules' -> RuleRow]
    BY <1>8 DEF RemovePeer, Delete, TypeOK
  <2>. QED  BY <1>8, <2>2, <2>3 DEF RemovePeer, TypeOK
<1>9. ASSUME NEW p \in DOMAIN peers, NEW b \in BOOLEAN, SetAdvertiseExitNode(p, b)
      PROVE  TypeOK'
  BY <1>9, PeerRowUpdates DEF SetAdvertiseExitNode, TypeOK
<1>10. ASSUME NEW p \in DOMAIN peers, NEW e \in DOMAIN peers \cup {None},
              SetExitNode(p, e)
       PROVE  TypeOK'
  BY <1>10, PeerRowUpdates DEF SetExitNode, TypeOK
<1>11. ASSUME NEW n \in 0..MaxBatch, NEW replace \in BOOLEAN,
              NEW batch \in [1..n -> RuleRow], ImportACLRules(n, batch, replace)
       PROVE  TypeOK'
  <2>. DEFINE kept == IF replace THEN {} ELSE DOMAIN rules
  <2>1. PICK first \in 1..(MaxRules + 1) :
          LET added == first..(first + n - 1) IN
          /\ added \subseteq RuleIds
          /\ rules' = [i \in kept \cup added |->
                         IF i \in added THEN batch[i - first + 1] ELSE rules[i]]
    BY <1>11 DEF ImportACLRules
  <2>2. \A i \in first..(first + n - 1) : i - first + 1 \in 1..n
    OBVIOUS
  <2>3. DOMAIN rules' \subseteq RuleIds /\ rules' \in [DOMAIN rules' -> RuleRow]
    BY <2>1, <2>2 DEF TypeOK
  <2>. QED  BY <1>11, <2>3 DEF ImportACLRules, TypeOK
<1>12. ASSUME NEW r \in DOMAIN rules, DeleteACLRule(r) PROVE TypeOK'
  BY <1>12 DEF DeleteACLRule, Delete, TypeOK
<1>13. ASSUME NEW e \in Editors, NEW p \in PeerIds, NEW a \in HostAddrs,
              BeginAddressUpdate(e, p, a)
       PROVE  TypeOK'
  <2>1. [NoAddr EXCEPT ![4] = a] \in [Families -> HostAddrs]
    BY DEF NoAddr, HostAddrs
  <2>2. editing' \in [Editors -> Edit]
    BY <1>13, <2>1, FamiliesAssumption DEF BeginAddressUpdate, Edit, TypeOK
  <2>. QED  BY <1>13, <2>2 DEF BeginAddressUpdate, TypeOK
<1>14. ASSUME NEW e \in Editors, NEW a \in HostAddrs, CheckAddress6(e, a)
       PROVE  TypeOK'
  <2>1. editing' \in [Editors -> Edit]
    BY <1>14, SMTT(30) DEF CheckAddress6, Edit, TypeOK
  <2>. QED  BY <1>14, <2>1 DEF CheckAddress6, TypeOK
<1>15. ASSUME NEW e \in Editors, UpdatePeerAddress(e) PROVE TypeOK'
  <2>1. editing' \in [Editors -> Edit]
    BY <1>15 DEF UpdatePeerAddress, NotEditing, NoAddr, HostAddrs, Edit, None, TypeOK
  <2>2. DOMAIN peers' = DOMAIN peers /\ peers' \in [DOMAIN peers -> PeerRow]
    BY <1>15, PeerRowUpdates DEF UpdatePeerAddress, Edit, Active, TypeOK
  <2>. QED  BY <1>15, <2>1, <2>2 DEF UpdatePeerAddress, TypeOK
<1>16. ASSUME NEW m \in Migrators, NEW target \in Networks,
              ApplyNetworkMigration(m, target)
       PROVE  TypeOK'
  <2>1. \A p \in DOMAIN peers, f \in Families :
          Renumbered(p, target[f]) \in HostAddrs
    BY <1>16, RenumberedIsHost, NetworksAreFunctions
       DEF ApplyNetworkMigration, TypeOK
  <2>2. \A p \in DOMAIN peers :
          [peers[p] EXCEPT !.addr = [f \in Families |-> Renumbered(p, target[f])]]
            \in PeerRow
    BY <2>1, PeerRowUpdates DEF TypeOK
  <2>3. DOMAIN peers' = DOMAIN peers /\ peers' \in [DOMAIN peers -> PeerRow]
    BY <1>16, <2>2 DEF ApplyNetworkMigration
  <2>. QED  BY <1>16, <2>3 DEF ApplyNetworkMigration, TypeOK
<1>17. ASSUME NEW m \in Migrators, setNetworks(m) PROVE TypeOK'
  BY <1>17, NetworksAreFunctions DEF setNetworks, TypeOK
<1>18. CASE LoadOrInitNetworkConfig
  <2>1. settings' \in Networks
    <3>1. settings' = [f \in Families |->
                         IF settings[f] # NoNet THEN settings[f] ELSE Default[f]]
      BY <1>18 DEF LoadOrInitNetworkConfig, Enabled
    <3>2. Default \in Networks /\ Default \in [Families -> Prefixes]
      BY NetworksAssumption, NetworksAreFunctions
    <3>3. CASE settings \in Networks
      <4>1. settings \in [Families -> Prefixes] /\ \A f \in Families : settings[f] # NoNet
        BY <3>3, NetworksAreFunctions
      <4>2. settings' = settings
        BY <3>1, <4>1
      <4>. QED  BY <3>3, <4>2
    <3>4. CASE settings = NoTarget
      <4>1. settings' = [f \in Families |-> Default[f]]
        BY <3>1, <3>4 DEF NoTarget
      <4>. QED  BY <3>2, <4>1
    <3>. QED  BY <3>3, <3>4 DEF TypeOK
  <2>2. network' \in [Families -> Prefixes \cup {NoNet}]
    BY <1>18, <2>1, NetworksAreFunctions DEF LoadOrInitNetworkConfig
  <2>3. NotEditing \in Edit
    BY DEF NotEditing, Edit, NoAddr, HostAddrs, None
  <2>. QED  BY <1>18, <2>1, <2>2, <2>3 DEF LoadOrInitNetworkConfig, TypeOK
<1>19. CASE UNCHANGED vars
  BY <1>19 DEF vars, TypeOK
<1>20. CASE KeyNext
  BY <1>20, <1>1, <1>2, <1>3 DEF KeyNext
<1>21. CASE PeerNext
  BY <1>21, <1>4, <1>5, <1>6, <1>7, <1>8 DEF PeerNext, Enroll
<1>22. CASE PolicyNext
  BY <1>22, <1>9, <1>10, <1>11, <1>12 DEF PolicyNext
<1>23. CASE NetworkNext
  BY <1>23, <1>13, <1>14, <1>15, <1>16, <1>17, <1>18 DEF NetworkNext
<1>. QED  BY <1>19, <1>20, <1>21, <1>22, <1>23 DEF Next

(* Every table holds well-formed rows whose addresses are hosts of networks *)
(* the operator chose: the store's allocator, its edits and its migrations  *)
(* never write anything else.                                               *)
THEOREM TypeCorrect == Spec => []TypeOK
BY TypeInit, TypeNext, PTL DEF Spec

-----------------------------------------------------------------------------
(* Unique addresses *)

LEMMA UniqueNext == TypeOK /\ AddressesUnique /\ [Next]_vars => AddressesUnique'
<1>. SUFFICES ASSUME TypeOK, AddressesUnique, [Next]_vars PROVE AddressesUnique'
  OBVIOUS
<1>. USE BoundsAssumption
(* A row is added with addresses the allocator found free. *)
<1>1. ASSUME NEW id \in PeerIds, NEW row, NewPeer(id, row),
             \A f \in Families : Allocates(f, row.addr[f])
      PROVE  AddressesUnique'
  <2>1. \A p \in DOMAIN peers, f \in Families :
          row.addr[f] # 0 => peers[p].addr[f] # row.addr[f]
    BY <1>1, AllocationIsFree
  <2>2. id \notin DOMAIN peers
    BY <1>1, NextIdIsFresh DEF NewPeer, PeerIds, TypeOK
  <2>3. DOMAIN peers' = DOMAIN peers \cup {id}
    BY <1>1 DEF NewPeer, Insert
  <2>4. peers'[id] = row /\ \A p \in DOMAIN peers : peers'[p] = peers[p]
    BY <1>1, <2>2 DEF NewPeer, Insert
  <2>. QED  BY <2>1, <2>2, <2>3, <2>4 DEF AddressesUnique
<1>2. ASSUME NEW k \in PubKeys, NEW s \in DOMAIN keys, EnrollNew(k, s)
      PROVE  AddressesUnique'
  <2>1. PICK id \in PeerIds, addr \in [Families -> HostAddrs] :
          /\ \A f \in Families : Allocates(f, addr[f])
          /\ NewPeer(id, [pub |-> k, kind |-> "agent", addr |-> addr, key |-> s,
                          revoked |-> FALSE, advertise |-> FALSE,
                          exit |-> None, gateway |-> None])
    BY <1>2 DEF EnrollNew
  <2>. QED  BY <2>1, <1>1
<1>3. ASSUME NEW k \in PubKeys, NEW g \in DOMAIN peers, CreateStaticPeer(k, g)
      PROVE  AddressesUnique'
  <2>1. PICK s \in KeyIds, id \in PeerIds, addr \in [Families -> HostAddrs] :
          /\ \A f \in Families : Allocates(f, addr[f])
          /\ NewPeer(id, [pub |-> k, kind |-> "static", addr |-> addr, key |-> s,
                          revoked |-> FALSE, advertise |-> FALSE,
                          exit |-> None, gateway |-> g])
    BY <1>3 DEF CreateStaticPeer
  <2>. QED  BY <2>1, <1>1
(* One row's addresses are replaced, each by itself or by a free one. *)
<1>4. ASSUME NEW p \in DOMAIN peers, NEW addr \in [Families -> HostAddrs],
             peers' = [peers EXCEPT ![p].addr = addr],
             \A f \in Families : \A q \in DOMAIN peers \ {p} :
               addr[f] # 0 => peers[q].addr[f] # addr[f]
      PROVE  AddressesUnique'
  <2>1. DOMAIN peers' = DOMAIN peers /\ peers'[p].addr = addr
    BY <1>4, PeerRowUpdates DEF PeerRow, TypeOK
  <2>2. \A q \in DOMAIN peers \ {p} : peers'[q].addr = peers[q].addr
    BY <1>4
  <2>. QED  BY <1>4, <2>1, <2>2 DEF AddressesUnique
<1>5. ASSUME NEW p \in DOMAIN peers, NEW s \in DOMAIN keys, reEnroll(p, s)
      PROVE  AddressesUnique'
  <2>1. PICK addr \in [Families -> HostAddrs] :
          /\ \A f \in Families : IF f = 4 \/ peers[p].addr[f] # 0
                                   THEN addr[f] = peers[p].addr[f]
                                   ELSE Allocates(f, addr[f])
          /\ peers' = [peers EXCEPT ![p].addr = addr]
    BY <1>5 DEF reEnroll
  <2>2. ASSUME NEW f \in Families, NEW q \in DOMAIN peers \ {p}, addr[f] # 0
        PROVE  peers[q].addr[f] # addr[f]
    <3>1. CASE f = 4 \/ peers[p].addr[f] # 0
      BY <3>1, <2>1, <2>2 DEF AddressesUnique
    <3>2. CASE ~(f = 4 \/ peers[p].addr[f] # 0)
      BY <3>2, <2>1, <2>2, AllocationIsFree
    <3>. QED  BY <3>1, <3>2
  <2>. QED  BY <2>1, <2>2, <1>4
<1>6. ASSUME NEW e \in Editors, UpdatePeerAddress(e) PROVE AddressesUnique'
  <2>. DEFINE p == editing[e].id
              a == editing[e].addr
  <2>1. CASE Active(p) /\ \A f \in Families : AddressFree(p, f, a[f])
    <3>1. p \in DOMAIN peers /\ a \in [Families -> HostAddrs]
      BY <2>1 DEF Active, TypeOK, Edit
    <3>2. peers' = [peers EXCEPT ![p].addr = a]
      BY <1>6, <2>1 DEF UpdatePeerAddress
    <3>3. \A f \in Families : \A q \in DOMAIN peers \ {p} :
            a[f] # 0 => peers[q].addr[f] # a[f]
      BY <2>1 DEF AddressFree
    <3>. HIDE DEF p, a
    <3>. QED  BY <3>1, <3>2, <3>3, <1>4
  <2>2. CASE ~(Active(p) /\ \A f \in Families : AddressFree(p, f, a[f]))
    BY <1>6, <2>2 DEF UpdatePeerAddress, AddressesUnique
  <2>. QED  BY <2>1, <2>2
(* Rows are renumbered by their distinct positions. *)
<1>7. ASSUME NEW m \in Migrators, NEW target \in Networks,
             ApplyNetworkMigration(m, target)
      PROVE  AddressesUnique'
  <2>1. DOMAIN peers' = DOMAIN peers
    BY <1>7 DEF ApplyNetworkMigration
  <2>2. \A p \in DOMAIN peers, f \in Families :
          peers'[p].addr[f] = target[f].lo + Rank(p)
    <3>1. TAKE p \in DOMAIN peers, f \in Families
    <3>2. peers'[p] = [peers[p] EXCEPT !.addr =
                          [g \in Families |-> Renumbered(p, target[g])]]
      BY <1>7 DEF ApplyNetworkMigration
    <3>3. peers'[p].addr = [g \in Families |-> Renumbered(p, target[g])]
      BY <3>2 DEF TypeOK, PeerRow
    <3>. QED  BY <3>3 DEF Renumbered
  <2>3. \A p, q \in DOMAIN peers : p # q => Rank(p) # Rank(q)
    <3>1. TAKE p, q \in DOMAIN peers
    <3>2. p \in Nat /\ q \in Nat
      BY DEF TypeOK, PeerIds
    <3>. QED  BY <3>2, RankFacts DEF TypeOK
  <2>4. \A p \in DOMAIN peers : Rank(p) \in Nat
    BY RankFacts DEF TypeOK
  <2>5. \A f \in Families : target[f].lo \in Nat
    BY NetworksAreFunctions
  <2>. QED  BY <2>1, <2>2, <2>3, <2>4, <2>5 DEF AddressesUnique
(* No other action writes an address. *)
<1>8. ASSUME DOMAIN peers' \subseteq DOMAIN peers,
             \A p \in DOMAIN peers' : peers'[p].addr = peers[p].addr
      PROVE  AddressesUnique'
  BY <1>8 DEF AddressesUnique
<1>9. ASSUME NEW p \in DOMAIN peers,
             RevokePeer(p) \/ RemovePeer(p)
               \/ (\E b \in BOOLEAN : SetAdvertiseExitNode(p, b))
               \/ (\E e \in DOMAIN peers \cup {None} : SetExitNode(p, e))
      PROVE  AddressesUnique'
  <2>1. DOMAIN peers' \subseteq DOMAIN peers
    BY <1>9 DEF RevokePeer, RemovePeer, SetAdvertiseExitNode, SetExitNode
  <2>2. \A q \in DOMAIN peers' : peers'[q].addr = peers[q].addr
    <3>1. CASE RevokePeer(p)
      BY <3>1 DEF RevokePeer, TypeOK, PeerRow
    <3>2. CASE RemovePeer(p)
      BY <3>2, DetachedColumns DEF RemovePeer, TypeOK
    <3>3. CASE \E b \in BOOLEAN : SetAdvertiseExitNode(p, b)
      BY <3>3 DEF SetAdvertiseExitNode, TypeOK, PeerRow
    <3>4. CASE \E e \in DOMAIN peers \cup {None} : SetExitNode(p, e)
      BY <3>4 DEF SetExitNode, TypeOK, PeerRow
    <3>. QED  BY <1>9, <3>1, <3>2, <3>3, <3>4
  <2>. QED  BY <2>1, <2>2, <1>8
<1>10. CASE UNCHANGED peers
  BY <1>10 DEF AddressesUnique
<1>11. CASE PeerNext
  BY <1>11, <1>2, <1>3, <1>5, <1>9 DEF PeerNext, Enroll
<1>12. CASE PolicyNext
  BY <1>12, <1>9, <1>10 DEF PolicyNext, ImportACLRules, DeleteACLRule
<1>13. CASE NetworkNext
  BY <1>13, <1>6, <1>7, <1>10
     DEF NetworkNext, BeginAddressUpdate, CheckAddress6, setNetworks,
         LoadOrInitNetworkConfig
<1>14. CASE KeyNext
  BY <1>14, <1>10 DEF KeyNext, CreateNamedSetupKey, KeyExpires, RevokeSetupKey
<1>. QED  BY <1>10, <1>11, <1>12, <1>13, <1>14 DEF Next, vars

(* No address of a family is ever held by two rows: not when an edit that   *)
(* was validated before an enrollment or a migration commits after it, and  *)
(* not when a migration renumbers revoked rows along with active ones.      *)
THEOREM AddressesStayUnique == Spec => []AddressesUnique
<1>1. Init => AddressesUnique
  BY DEF Init, AddressesUnique
<1>. QED  BY <1>1, TypeInit, TypeNext, UniqueNext, PTL DEF Spec

-----------------------------------------------------------------------------
(* References and exit chains *)

(* The references of row p, the first half of ReferencesLive. *)
RowLive(p) ==
  /\ peers[p].key \in DOMAIN keys
  /\ peers[p].exit # None =>
       /\ peers[p].exit \in DOMAIN peers \ {p}
       /\ peers[p].kind = "agent"
       /\ peers[peers[p].exit].kind = "agent"
  /\ peers[p].gateway # None =>
       /\ peers[p].gateway \in DOMAIN peers
       /\ peers[p].kind = "static"
       /\ peers[peers[p].gateway].kind = "agent"

(* Removing a peer leaves no reference to it, and inserting one under a     *)
(* fresh id is referred to by nobody: so ids can be handed out again.       *)
LEMMA ReferencesNext ==
  TypeOK /\ ReferencesLive /\ [Next]_vars => ReferencesLive'
<1>. SUFFICES ASSUME TypeOK, ReferencesLive, [Next]_vars PROVE ReferencesLive'
  OBVIOUS
<1>. USE BoundsAssumption
(* Rows whose references do not change stay live while nothing is removed. *)
<1>1. ASSUME DOMAIN keys \subseteq DOMAIN keys', DOMAIN peers' = DOMAIN peers,
             rules' = rules,
             \A p \in DOMAIN peers : /\ peers'[p].key = peers[p].key
                                     /\ peers'[p].kind = peers[p].kind
                                     /\ peers'[p].exit = peers[p].exit
                                     /\ peers'[p].gateway = peers[p].gateway
      PROVE  ReferencesLive'
  BY <1>1, SMTT(30) DEF ReferencesLive
<1>2. ASSUME NEW p \in DOMAIN peers, NEW addr, peers' = [peers EXCEPT ![p].addr = addr],
             keys' = keys, rules' = rules
      PROVE  ReferencesLive'
  <2>1. \A q \in DOMAIN peers : /\ peers'[q].key = peers[q].key
                                /\ peers'[q].kind = peers[q].kind
                                /\ peers'[q].exit = peers[q].exit
                                /\ peers'[q].gateway = peers[q].gateway
    BY <1>2 DEF TypeOK, PeerRow
  <2>. QED  BY <1>1, <1>2, <2>1
<1>3. CASE KeyNext
  <2>1. UNCHANGED <<peers, rules>> /\ DOMAIN keys \subseteq DOMAIN keys'
    BY <1>3 DEF KeyNext, CreateNamedSetupKey, NewKey, Insert, KeyExpires, RevokeSetupKey
  <2>. QED  BY <1>1, <2>1
(* A new row refers to its key and, if static, to an active agent. *)
<1>4. ASSUME NEW id \in PeerIds, NEW row, NewPeer(id, row), rules' = rules,
             DOMAIN keys \subseteq DOMAIN keys', row.key \in DOMAIN keys',
             row.exit = None,
             row.gateway # None => /\ row.kind = "static"
                                   /\ row.gateway \in DOMAIN peers
                                   /\ peers[row.gateway].kind = "agent"
      PROVE  ReferencesLive'
  <2>1. id \notin DOMAIN peers
    BY <1>4, NextIdIsFresh DEF NewPeer, PeerIds, TypeOK
  <2>2. DOMAIN peers' = DOMAIN peers \cup {id}
    BY <1>4 DEF NewPeer, Insert
  <2>3. peers'[id] = row /\ \A p \in DOMAIN peers : peers'[p] = peers[p]
    BY <1>4, <2>1 DEF NewPeer, Insert
  <2>4. ASSUME NEW p \in DOMAIN peers
        PROVE  RowLive(p)'
    <3>1. RowLive(p) /\ peers'[p] = peers[p]
      BY <2>3 DEF ReferencesLive, RowLive
    <3>2. DOMAIN peers \subseteq DOMAIN peers' /\ DOMAIN keys \subseteq DOMAIN keys'
      BY <1>4, <2>2
    <3>. QED  BY <2>3, <3>1, <3>2 DEF RowLive
  <2>5. row.gateway # None => /\ row.gateway \in DOMAIN peers'
                              /\ peers'[row.gateway].kind = "agent"
    BY <1>4, <2>2, <2>3
  <2>6. \A r \in DOMAIN rules' :
          /\ {rules'[r].src, rules'[r].dst} \subseteq DOMAIN peers' \cup {None}
          /\ rules'[r].src = rules'[r].dst => rules'[r].src = None
    BY <1>4, <2>2 DEF ReferencesLive
  <2>7. ASSUME NEW p \in DOMAIN peers'
        PROVE  RowLive(p)'
    <3>1. CASE p = id
      BY <1>4, <2>3, <2>5, <3>1 DEF RowLive
    <3>. QED  BY <2>2, <2>4, <3>1
  <2>. QED  BY <2>6, <2>7 DEF ReferencesLive, RowLive
<1>5. ASSUME NEW k \in PubKeys, NEW s \in DOMAIN keys, EnrollNew(k, s)
      PROVE  ReferencesLive'
  <2>1. PICK id \in PeerIds, addr \in [Families -> HostAddrs] :
          NewPeer(id, [pub |-> k, kind |-> "agent", addr |-> addr, key |-> s,
                       revoked |-> FALSE, advertise |-> FALSE,
                       exit |-> None, gateway |-> None])
    BY <1>5 DEF EnrollNew
  <2>2. DOMAIN keys' = DOMAIN keys /\ rules' = rules
    BY <1>5 DEF EnrollNew
  <2>. QED  BY <2>1, <2>2, <1>4
<1>6. ASSUME NEW k \in PubKeys, NEW g \in DOMAIN peers, CreateStaticPeer(k, g)
      PROVE  ReferencesLive'
  <2>1. PICK s \in KeyIds, id \in PeerIds, addr \in [Families -> HostAddrs] :
          /\ NewKey(s, [revoked |-> FALSE, life |-> "never", max |-> 1, used |-> 1])
          /\ NewPeer(id, [pub |-> k, kind |-> "static", addr |-> addr, key |-> s,
                          revoked |-> FALSE, advertise |-> FALSE,
                          exit |-> None, gateway |-> g])
    BY <1>6 DEF CreateStaticPeer
  <2>2. DOMAIN keys' = DOMAIN keys \cup {s} /\ rules' = rules
    BY <1>6, <2>1 DEF CreateStaticPeer, NewKey, Insert
  <2>3. peers[g].kind = "agent"
    BY <1>6 DEF CreateStaticPeer, ActiveAgent
  <2>. QED  BY <2>1, <2>2, <2>3, <1>4
<1>7. ASSUME NEW p \in DOMAIN peers, RemovePeer(p) PROVE ReferencesLive'
  <2>1. /\ DOMAIN peers' = DOMAIN peers \ {p}
        /\ \A q \in DOMAIN peers \ {p} : peers'[q] = Detached(peers[q], p)
    BY <1>7 DEF RemovePeer
  <2>2. \A q \in DOMAIN peers \ {p} :
          /\ peers'[q].key = peers[q].key
          /\ peers'[q].kind = peers[q].kind
          /\ peers'[q].exit = IF peers[q].exit = p THEN None ELSE peers[q].exit
          /\ peers'[q].gateway = IF peers[q].gateway = p THEN None ELSE peers[q].gateway
    BY <2>1, DetachedColumns DEF TypeOK
  <2>3. /\ DOMAIN rules' = {r \in DOMAIN rules : ~NamesPeer(r, p)}
        /\ \A r \in DOMAIN rules' : rules'[r] = rules[r]
    BY <1>7 DEF RemovePeer, Delete
  <2>4. \A r \in DOMAIN rules' :
          /\ {rules'[r].src, rules'[r].dst} \subseteq DOMAIN peers' \cup {None}
          /\ rules'[r].src = rules'[r].dst => rules'[r].src = None
    BY <2>1, <2>3 DEF ReferencesLive, NamesPeer
  <2>5. keys' = keys
    BY <1>7 DEF RemovePeer
  <2>6. ASSUME NEW q \in DOMAIN peers'
        PROVE  RowLive(q)'
    <3>1. q \in DOMAIN peers \ {p}
      BY <2>1
    <3>2. peers'[q].key \in DOMAIN keys'
      BY <2>2, <2>5, <3>1 DEF ReferencesLive
    <3>3. ASSUME peers'[q].exit # None
          PROVE  /\ peers[q].exit \in DOMAIN peers \ {p, q}
                 /\ peers'[q].exit = peers[q].exit
                 /\ peers[q].kind = "agent"
                 /\ peers[peers[q].exit].kind = "agent"
      BY <2>2, <3>1, <3>3 DEF ReferencesLive
    <3>4. ASSUME peers'[q].gateway # None
          PROVE  /\ peers[q].gateway \in DOMAIN peers \ {p}
                 /\ peers'[q].gateway = peers[q].gateway
                 /\ peers[q].kind = "static"
                 /\ peers[peers[q].gateway].kind = "agent"
      BY <2>2, <3>1, <3>4 DEF ReferencesLive
    <3>5. ASSUME peers'[q].exit # None
          PROVE  /\ peers'[q].exit \in DOMAIN peers' \ {q}
                 /\ peers'[q].kind = "agent"
                 /\ peers'[peers'[q].exit].kind = "agent"
      BY <2>1, <2>2, <3>1, <3>3, <3>5
    <3>6. ASSUME peers'[q].gateway # None
          PROVE  /\ peers'[q].gateway \in DOMAIN peers'
                 /\ peers'[q].kind = "static"
                 /\ peers'[peers'[q].gateway].kind = "agent"
      BY <2>1, <2>2, <3>1, <3>4, <3>6
    <3>. QED  BY <3>2, <3>5, <3>6 DEF RowLive
  <2>. QED  BY <2>4, <2>6 DEF ReferencesLive, RowLive
<1>8. ASSUME NEW p \in DOMAIN peers,
             RevokePeer(p) \/ \E b \in BOOLEAN : SetAdvertiseExitNode(p, b)
      PROVE  ReferencesLive'
  <2>1. keys' = keys /\ rules' = rules /\ DOMAIN peers' = DOMAIN peers
    BY <1>8 DEF RevokePeer, SetAdvertiseExitNode
  <2>2. \A q \in DOMAIN peers : /\ peers'[q].key = peers[q].key
                                /\ peers'[q].kind = peers[q].kind
                                /\ peers'[q].exit = peers[q].exit
                                /\ peers'[q].gateway = peers[q].gateway
    <3>1. CASE RevokePeer(p)
      BY <3>1 DEF RevokePeer, TypeOK, PeerRow
    <3>2. CASE \E b \in BOOLEAN : SetAdvertiseExitNode(p, b)
      BY <3>2 DEF SetAdvertiseExitNode, TypeOK, PeerRow
    <3>. QED  BY <1>8, <3>1, <3>2
  <2>. QED  BY <1>1, <2>1, <2>2
<1>9. ASSUME NEW p \in DOMAIN peers, NEW e \in DOMAIN peers \cup {None},
             SetExitNode(p, e)
      PROVE  ReferencesLive'
  <2>1. keys' = keys /\ rules' = rules /\ DOMAIN peers' = DOMAIN peers
    BY <1>9 DEF SetExitNode
  <2>2. \A q \in DOMAIN peers :
          /\ peers'[q].key = peers[q].key
          /\ peers'[q].kind = peers[q].kind
          /\ peers'[q].exit = IF q = p THEN e ELSE peers[q].exit
          /\ peers'[q].gateway = peers[q].gateway
    BY <1>9 DEF SetExitNode, TypeOK, PeerRow
  <2>3. peers[p].kind = "agent" /\ (e # None => e # p /\ peers[e].kind = "agent")
    BY <1>9 DEF SetExitNode, MayExitThrough, ActiveAgent
  <2>4. ASSUME NEW q \in DOMAIN peers' PROVE RowLive(q)'
    <3>1. q \in DOMAIN peers /\ RowLive(q)
      BY <2>1 DEF ReferencesLive, RowLive
    <3>2. CASE q # p
      BY <2>1, <2>2, <3>1, <3>2 DEF RowLive
    <3>3. CASE q = p
      <4>1. /\ peers'[q].key = peers[q].key /\ peers'[q].kind = "agent"
            /\ peers'[q].exit = e /\ peers'[q].gateway = peers[q].gateway
        BY <2>2, <2>3, <3>3
      <4>2. peers[q].gateway = None
        BY <2>3, <3>1, <3>3 DEF RowLive
      <4>. QED  BY <2>1, <2>2, <2>3, <3>1, <3>3, <4>1, <4>2 DEF RowLive
    <3>. QED  BY <3>2, <3>3
  <2>5. \A r \in DOMAIN rules' :
          /\ {rules'[r].src, rules'[r].dst} \subseteq DOMAIN peers' \cup {None}
          /\ rules'[r].src = rules'[r].dst => rules'[r].src = None
    BY <2>1 DEF ReferencesLive
  <2>. QED  BY <2>4, <2>5 DEF ReferencesLive, RowLive
<1>10. ASSUME NEW n \in 0..MaxBatch, NEW replace \in BOOLEAN,
              NEW batch \in [1..n -> RuleRow], ImportACLRules(n, batch, replace)
       PROVE  ReferencesLive'
  <2>1. PICK first \in 1..(MaxRules + 1) :
          LET added == first..(first + n - 1) IN
          rules' = [i \in (IF replace THEN {} ELSE DOMAIN rules) \cup added |->
                      IF i \in added THEN batch[i - first + 1] ELSE rules[i]]
    BY <1>10 DEF ImportACLRules
  <2>2. \A i \in first..(first + n - 1) : i - first + 1 \in 1..n
    OBVIOUS
  <2>3. \A r \in DOMAIN rules' :
          \/ r \in DOMAIN rules /\ rules'[r] = rules[r]
          \/ \E i \in 1..n : rules'[r] = batch[i]
    BY <2>1, <2>2
  <2>4. \A i \in 1..n : ValidRule(batch[i])
    BY <1>10 DEF ImportACLRules
  <2>5. \A r \in DOMAIN rules' :
          /\ {rules'[r].src, rules'[r].dst} \subseteq DOMAIN peers \cup {None}
          /\ rules'[r].src = rules'[r].dst => rules'[r].src = None
    BY <2>3, <2>4 DEF ReferencesLive, ValidRule
  <2>6. keys' = keys /\ peers' = peers
    BY <1>10 DEF ImportACLRules
  <2>. QED  BY <2>5, <2>6 DEF ReferencesLive
<1>11. ASSUME NEW r \in DOMAIN rules, DeleteACLRule(r) PROVE ReferencesLive'
  BY <1>11 DEF DeleteACLRule, Delete, ReferencesLive
<1>12. ASSUME NEW m \in Migrators, NEW target \in Networks,
              ApplyNetworkMigration(m, target)
       PROVE  ReferencesLive'
  <2>1. keys' = keys /\ rules' = rules /\ DOMAIN peers' = DOMAIN peers
    BY <1>12 DEF ApplyNetworkMigration
  <2>2. \A q \in DOMAIN peers : /\ peers'[q].key = peers[q].key
                                /\ peers'[q].kind = peers[q].kind
                                /\ peers'[q].exit = peers[q].exit
                                /\ peers'[q].gateway = peers[q].gateway
    BY <1>12 DEF ApplyNetworkMigration, TypeOK, PeerRow
  <2>. QED  BY <1>1, <2>1, <2>2
<1>13. ASSUME NEW e \in Editors, UpdatePeerAddress(e) PROVE ReferencesLive'
  <2>1. keys' = keys /\ rules' = rules
    BY <1>13 DEF UpdatePeerAddress
  <2>2. \/ peers' = peers
        \/ \E p \in DOMAIN peers, addr \in [Families -> HostAddrs] :
             peers' = [peers EXCEPT ![p].addr = addr]
    BY <1>13 DEF UpdatePeerAddress, Active, TypeOK, Edit
  <2>. QED  BY <1>1, <1>2, <2>1, <2>2
<1>14. ASSUME NEW p \in DOMAIN peers, NEW s \in DOMAIN keys, reEnroll(p, s)
       PROVE  ReferencesLive'
  BY <1>14, <1>2 DEF reEnroll
<1>15. CASE UNCHANGED <<keys, peers, rules>>
  BY <1>1, <1>15
<1>16. CASE PeerNext
  BY <1>16, <1>5, <1>6, <1>7, <1>8, <1>14 DEF PeerNext, Enroll
<1>17. CASE PolicyNext
  BY <1>17, <1>8, <1>9, <1>10, <1>11 DEF PolicyNext
<1>18. CASE NetworkNext
  BY <1>18, <1>12, <1>13, <1>15
     DEF NetworkNext, BeginAddressUpdate, CheckAddress6, setNetworks,
         LoadOrInitNetworkConfig
<1>. QED  BY <1>3, <1>15, <1>16, <1>17, <1>18 DEF Next, vars

(* Every exit node, gateway, key and rule end a row names exists and is of  *)
(* the right kind, though ids are reused: the foreign keys of the schema    *)
(* and the checks of SetExitNode, CreateStaticPeer and ImportACLRules are   *)
(* enough.                                                                  *)
THEOREM ReferencesStayLive == Spec => []ReferencesLive
<1>1. Init => ReferencesLive
  BY DEF Init, ReferencesLive
<1>. QED  BY <1>1, TypeInit, TypeNext, ReferencesNext, PTL DEF Spec

(* Only SetExitNode makes a reference, and it looks both ways: the exit has *)
(* no exit, and its new client is nobody's exit.                            *)
LEMMA NoChainNext ==
  TypeOK /\ ReferencesLive /\ NoExitChain /\ [Next]_vars => NoExitChain'
<1>. SUFFICES ASSUME TypeOK, ReferencesLive, NoExitChain, [Next]_vars
              PROVE  NoExitChain'
  OBVIOUS
<1>. USE BoundsAssumption
(* Rows keep their exit, and none comes back from revocation. *)
<1>1. ASSUME DOMAIN peers' = DOMAIN peers,
             \A p \in DOMAIN peers : /\ peers'[p].exit = peers[p].exit
                                     /\ peers[p].revoked => peers'[p].revoked
      PROVE  NoExitChain'
  BY <1>1 DEF NoExitChain, ReferencesLive
<1>2. ASSUME NEW id \in PeerIds, NEW row, NewPeer(id, row), row.exit = None
      PROVE  NoExitChain'
  <2>1. id \notin DOMAIN peers
    BY <1>2, NextIdIsFresh DEF NewPeer, PeerIds, TypeOK
  <2>2. DOMAIN peers' = DOMAIN peers \cup {id}
    BY <1>2 DEF NewPeer, Insert
  <2>3. peers'[id] = row /\ \A p \in DOMAIN peers : peers'[p] = peers[p]
    BY <1>2, <2>1 DEF NewPeer, Insert
  <2>4. ASSUME NEW p \in DOMAIN peers', ~peers'[p].revoked, peers'[p].exit # None
        PROVE  peers'[peers'[p].exit].exit = None
    <3>1. p \in DOMAIN peers /\ peers'[p] = peers[p]
      BY <1>2, <2>2, <2>3, <2>4
    <3>2. peers[p].exit \in DOMAIN peers /\ peers[peers[p].exit].exit = None
      BY <2>4, <3>1 DEF ReferencesLive, NoExitChain
    <3>. QED  BY <2>3, <3>1, <3>2
  <2>. QED  BY <2>4 DEF NoExitChain
<1>3. ASSUME NEW k \in PubKeys, NEW s \in DOMAIN keys, EnrollNew(k, s)
      PROVE  NoExitChain'
  BY <1>3, <1>2 DEF EnrollNew
<1>4. ASSUME NEW k \in PubKeys, NEW g \in DOMAIN peers, CreateStaticPeer(k, g)
      PROVE  NoExitChain'
  BY <1>4, <1>2 DEF CreateStaticPeer
<1>5. ASSUME NEW p \in DOMAIN peers, RemovePeer(p) PROVE NoExitChain'
  <2>1. DOMAIN peers' = DOMAIN peers \ {p}
    BY <1>5 DEF RemovePeer
  <2>2. \A q \in DOMAIN peers \ {p} :
          /\ peers'[q].exit = IF peers[q].exit = p THEN None ELSE peers[q].exit
          /\ peers'[q].revoked = peers[q].revoked
    BY <1>5, DetachedColumns DEF RemovePeer, TypeOK
  <2>3. ASSUME NEW q \in DOMAIN peers', ~peers'[q].revoked, peers'[q].exit # None
        PROVE  peers'[peers'[q].exit].exit = None
    <3>1. q \in DOMAIN peers \ {p} /\ ~peers[q].revoked
      BY <2>1, <2>2, <2>3
    <3>2. peers'[q].exit = peers[q].exit /\ peers[q].exit # p /\ peers[q].exit # None
      BY <2>2, <2>3, <3>1
    <3>3. peers[q].exit \in DOMAIN peers \ {p} /\ peers[peers[q].exit].exit = None
      BY <3>1, <3>2 DEF ReferencesLive, NoExitChain
    <3>. QED  BY <2>2, <3>2, <3>3
  <2>. QED  BY <2>3 DEF NoExitChain
<1>6. ASSUME NEW p \in DOMAIN peers, NEW e \in DOMAIN peers \cup {None},
             SetExitNode(p, e)
      PROVE  NoExitChain'
  <2>1. DOMAIN peers' = DOMAIN peers
    BY <1>6 DEF SetExitNode
  <2>2. \A q \in DOMAIN peers : peers'[q].exit = IF q = p THEN e ELSE peers[q].exit
    BY <1>6 DEF SetExitNode, TypeOK, PeerRow
  <2>3. \A q \in DOMAIN peers : peers'[q].revoked = peers[q].revoked
    <3>1. \A q \in DOMAIN peers \ {p} : peers'[q] = peers[q]
      BY <1>6 DEF SetExitNode
    <3>2. peers'[p] = [peers[p] EXCEPT !.exit = e]
      BY <1>6 DEF SetExitNode, TypeOK
    <3>3. [peers[p] EXCEPT !.exit = e].revoked = peers[p].revoked
      BY RevokedUntouched DEF TypeOK
    <3>. QED  BY <3>1, <3>2, <3>3
  <2>4. CASE e = None
    <3>1. \A q \in DOMAIN peers : peers[q].exit = None => peers'[q].exit = None
      BY <2>2, <2>4
    <3>2. ASSUME NEW q \in DOMAIN peers', ~peers'[q].revoked, peers'[q].exit # None
          PROVE  peers'[peers'[q].exit].exit = None
      <4>1. q \in DOMAIN peers /\ ~peers[q].revoked /\ peers'[q].exit = peers[q].exit
        BY <2>1, <2>2, <2>3, <2>4, <3>2
      <4>2. peers[q].exit \in DOMAIN peers /\ peers[peers[q].exit].exit = None
        BY <3>2, <4>1 DEF ReferencesLive, NoExitChain
      <4>. QED  BY <3>1, <4>1, <4>2
    <3>. QED  BY <3>2 DEF NoExitChain
  <2>5. CASE e # None
    <3>1. p # e /\ peers[e].exit = None
      BY <1>6, <2>5 DEF SetExitNode, MayExitThrough
    <3>2. \A q \in DOMAIN peers : ~peers[q].revoked => peers[q].exit # p
      BY <1>6, <2>5 DEF SetExitNode, MayExitThrough, ExitClients
    <3>3. ASSUME NEW q \in DOMAIN peers', ~peers'[q].revoked, peers'[q].exit # None
          PROVE  peers'[peers'[q].exit].exit = None
      <4>1. q \in DOMAIN peers /\ ~peers[q].revoked
        BY <2>1, <2>3, <3>3
      <4>2. CASE q = p
        BY <2>2, <2>5, <3>1, <4>1, <4>2
      <4>3. CASE q # p
        <5>1. peers'[q].exit = peers[q].exit /\ peers[q].exit # p
          BY <2>2, <3>2, <4>1, <4>3
        <5>2. peers[q].exit \in DOMAIN peers /\ peers[peers[q].exit].exit = None
          BY <3>3, <4>1, <5>1 DEF ReferencesLive, NoExitChain
        <5>. QED  BY <2>2, <5>1, <5>2
      <4>. QED  BY <4>2, <4>3
    <3>. QED  BY <3>3 DEF NoExitChain
  <2>. QED  BY <2>4, <2>5
<1>7. ASSUME NEW p \in DOMAIN peers, RevokePeer(p) PROVE NoExitChain'
  <2>1. /\ DOMAIN peers' = DOMAIN peers
        /\ \A q \in DOMAIN peers : peers'[q].exit = peers[q].exit
    BY <1>7 DEF RevokePeer, TypeOK, PeerRow
  <2>2. \A q \in DOMAIN peers : peers[q].revoked => peers'[q].revoked
    <3>1. \A q \in DOMAIN peers \ {p} : peers'[q] = peers[q]
      BY <1>7 DEF RevokePeer
    <3>2. ~peers[p].revoked
      BY <1>7 DEF RevokePeer
    <3>. QED  BY <3>1, <3>2
  <2>. QED  BY <1>1, <2>1, <2>2
<1>8. ASSUME NEW p \in DOMAIN peers, NEW b \in BOOLEAN, SetAdvertiseExitNode(p, b)
      PROVE  NoExitChain'
  <2>1. /\ DOMAIN peers' = DOMAIN peers
        /\ \A q \in DOMAIN peers : peers'[q].exit = peers[q].exit
    BY <1>8 DEF SetAdvertiseExitNode, TypeOK, PeerRow
  <2>2. \A q \in DOMAIN peers : peers'[q].revoked = peers[q].revoked
    <3>1. \A q \in DOMAIN peers \ {p} : peers'[q] = peers[q]
      BY <1>8 DEF SetAdvertiseExitNode
    <3>2. peers'[p] = [peers[p] EXCEPT !.advertise = b]
      BY <1>8 DEF SetAdvertiseExitNode, TypeOK
    <3>3. [peers[p] EXCEPT !.advertise = b].revoked = peers[p].revoked
      BY RevokedUntouched DEF TypeOK
    <3>. QED  BY <3>1, <3>2, <3>3
  <2>. QED  BY <1>1, <2>1, <2>2
<1>9. ASSUME DOMAIN peers' = DOMAIN peers,
             \A q \in DOMAIN peers :
               \E addr : peers'[q] = [peers[q] EXCEPT !.addr = addr]
      PROVE  NoExitChain'
  <2>1. \A q \in DOMAIN peers : peers'[q].exit = peers[q].exit
    BY <1>9 DEF TypeOK, PeerRow
  <2>2. \A q \in DOMAIN peers : peers'[q].revoked = peers[q].revoked
    <3>1. TAKE q \in DOMAIN peers
    <3>2. PICK addr : peers'[q] = [peers[q] EXCEPT !.addr = addr]
      BY <1>9
    <3>3. [peers[q] EXCEPT !.addr = addr].revoked = peers[q].revoked
      BY RevokedUntouched DEF TypeOK
    <3>. QED  BY <3>2, <3>3
  <2>. QED  BY <1>1, <1>9, <2>1, <2>2
<1>10. ASSUME NEW p \in DOMAIN peers, NEW addr, peers' = [peers EXCEPT ![p].addr = addr]
       PROVE  NoExitChain'
  <2>1. \A q \in DOMAIN peers \ {p} : peers'[q] = [peers[q] EXCEPT !.addr = peers[q].addr]
    BY <1>10 DEF TypeOK, PeerRow
  <2>2. peers'[p] = [peers[p] EXCEPT !.addr = addr]
    BY <1>10 DEF TypeOK
  <2>. QED  BY <1>9, <1>10, <2>1, <2>2
<1>11. ASSUME NEW e \in Editors, UpdatePeerAddress(e) PROVE NoExitChain'
  <2>1. \/ peers' = peers
        \/ \E p \in DOMAIN peers, addr \in [Families -> HostAddrs] :
             peers' = [peers EXCEPT ![p].addr = addr]
    BY <1>11 DEF UpdatePeerAddress, Active, TypeOK, Edit
  <2>. QED  BY <1>1, <1>10, <2>1
<1>12. ASSUME NEW m \in Migrators, NEW target \in Networks,
              ApplyNetworkMigration(m, target)
       PROVE  NoExitChain'
  BY <1>12, <1>9 DEF ApplyNetworkMigration
<1>13. CASE UNCHANGED peers
  BY <1>1, <1>13
<1>14. CASE KeyNext
  BY <1>13, <1>14 DEF KeyNext, CreateNamedSetupKey, KeyExpires, RevokeSetupKey
<1>15. CASE PeerNext
  BY <1>15, <1>3, <1>4, <1>5, <1>7, <1>10 DEF PeerNext, Enroll, reEnroll
<1>16. CASE PolicyNext
  BY <1>16, <1>6, <1>8, <1>13 DEF PolicyNext, ImportACLRules, DeleteACLRule
<1>17. CASE NetworkNext
  BY <1>17, <1>11, <1>12, <1>13
     DEF NetworkNext, BeginAddressUpdate, CheckAddress6, setNetworks,
         LoadOrInitNetworkConfig
<1>. QED  BY <1>13, <1>14, <1>15, <1>16, <1>17 DEF Next, vars

(* Exit nodes never chain ("chained exits are rejected server-side"): an    *)
(* active client's exit has no exit of its own, whatever was assigned,      *)
(* revoked, removed or re-enrolled in between.                              *)
THEOREM ExitsNeverChain == Spec => []NoExitChain
<1>1. Init => TypeOK /\ ReferencesLive /\ NoExitChain
  BY TypeInit DEF Init, ReferencesLive, NoExitChain
<1>2. TypeOK /\ ReferencesLive /\ NoExitChain /\ [Next]_vars
        => (TypeOK /\ ReferencesLive /\ NoExitChain)'
  BY TypeNext, ReferencesNext, NoChainNext
<1>. QED  BY <1>1, <1>2, PTL DEF Spec

-----------------------------------------------------------------------------
(* Setup keys *)

(* What makes the limit hold in every step: it holds before it. *)
WithinLimit ==
  \A s \in DOMAIN keys : keys[s].max # 0 => keys[s].used <= keys[s].max

(* The peers a step adds that were enrolled with key s. *)
Born(s) == {p \in DOMAIN peers' \ DOMAIN peers : peers'[p].key = s}

(* What KeySpentWithPeer says of one step. *)
Spends ==
  \A s \in DOMAIN keys :
    /\ keys'[s].used = keys[s].used + Cardinality(Born(s))
    /\ Born(s) # {} => ~keys[s].revoked /\ keys[s].life # "expired"
    /\ keys'[s].max # 0 => keys'[s].used <= keys'[s].max

(* Spending a key, letting it expire and revoking it leave its limit alone, *)
(* and only spending changes its uses.                                      *)
LEMMA KeyColumns ==
  ASSUME NEW row \in KeyRow
  PROVE  /\ [row EXCEPT !.life = "expired"].used = row.used
         /\ [row EXCEPT !.life = "expired"].max = row.max
         /\ [row EXCEPT !.revoked = TRUE].used = row.used
         /\ [row EXCEPT !.revoked = TRUE].max = row.max
         /\ [row EXCEPT !.used = @ + 1].used = row.used + 1
         /\ [row EXCEPT !.used = @ + 1].max = row.max
         /\ row.used \in Nat /\ row.max \in Nat
<1>1. row.used \in Nat /\ row.max \in Nat
  BY BoundsAssumption DEF KeyRow
<1>2. /\ [row EXCEPT !.life = "expired"].used = row.used
      /\ [row EXCEPT !.life = "expired"].max = row.max
  BY DEF KeyRow
<1>3. /\ [row EXCEPT !.revoked = TRUE].used = row.used
      /\ [row EXCEPT !.revoked = TRUE].max = row.max
  BY DEF KeyRow
<1>4. /\ [row EXCEPT !.used = @ + 1].used = row.used + 1
      /\ [row EXCEPT !.used = @ + 1].max = row.max
  BY DEF KeyRow
<1>. QED  BY <1>1, <1>2, <1>3, <1>4

(* A step that adds no peer spends no key, provided it leaves the columns   *)
(* of every key alone.                                                      *)
LEMMA NothingSpent ==
  ASSUME TypeOK, WithinLimit, DOMAIN peers' \subseteq DOMAIN peers,
         \A s \in DOMAIN keys :
           keys'[s].used = keys[s].used /\ keys'[s].max = keys[s].max
  PROVE  Spends
<1>. SUFFICES ASSUME NEW s \in DOMAIN keys
              PROVE  /\ keys'[s].used = keys[s].used + Cardinality(Born(s))
                     /\ Born(s) = {}
                     /\ keys'[s].max # 0 => keys'[s].used <= keys'[s].max
  BY DEF Spends
<1>1. Born(s) = {}
  BY DEF Born
<1>2. Cardinality(Born(s)) = 0
  BY <1>1, FS_EmptySet
<1>3. keys[s].used \in Nat
  BY KeyColumns DEF TypeOK
<1>. QED  BY <1>1, <1>2, <1>3 DEF WithinLimit

LEMMA EnrollNewSpends ==
  ASSUME TypeOK, WithinLimit, NEW k \in PubKeys, NEW t \in DOMAIN keys, EnrollNew(k, t)
  PROVE  Spends
<1>1. PICK id \in PeerIds, addr \in [Families -> HostAddrs] :
        NewPeer(id, [pub |-> k, kind |-> "agent", addr |-> addr, key |-> t,
                     revoked |-> FALSE, advertise |-> FALSE,
                     exit |-> None, gateway |-> None])
  BY DEF EnrollNew
<1>2. DOMAIN peers' \ DOMAIN peers = {id}
  BY <1>1, NextIdIsFresh DEF NewPeer, Insert, TypeOK, PeerIds
<1>3. peers'[id].key = t
  BY <1>1 DEF NewPeer, Insert
<1>4. keys'[t] = [keys[t] EXCEPT !.used = @ + 1]
      /\ \A s \in DOMAIN keys \ {t} : keys'[s] = keys[s]
  BY DEF EnrollNew, TypeOK
<1>. SUFFICES ASSUME NEW s \in DOMAIN keys
              PROVE  /\ keys'[s].used = keys[s].used + Cardinality(Born(s))
                     /\ Born(s) # {} => ~keys[s].revoked /\ keys[s].life # "expired"
                     /\ keys'[s].max # 0 => keys'[s].used <= keys'[s].max
  BY DEF Spends
<1>5. keys[s] \in KeyRow /\ keys[s].used \in Nat /\ keys[s].max \in Nat
  BY KeyColumns DEF TypeOK
<1>6. CASE s = t
  <2>1. Born(s) = {id}
    BY <1>2, <1>3, <1>6 DEF Born
  <2>2. Cardinality(Born(s)) = 1
    BY <2>1, FS_Singleton
  <2>3. /\ keys[t].max = 0 \/ keys[t].used < keys[t].max
        /\ ~keys[t].revoked /\ keys[t].life # "expired"
    BY DEF EnrollNew, Consumable
  <2>4. keys'[t].used = keys[t].used + 1 /\ keys'[t].max = keys[t].max
    BY <1>4, <1>5, <1>6, KeyColumns
  <2>. QED  BY <1>5, <1>6, <2>2, <2>3, <2>4
<1>7. CASE s # t
  <2>1. Born(s) = {}
    BY <1>2, <1>3, <1>7 DEF Born
  <2>2. Cardinality(Born(s)) = 0
    BY <2>1, FS_EmptySet
  <2>. QED  BY <1>4, <1>5, <1>7, <2>1, <2>2 DEF WithinLimit
<1>. QED  BY <1>6, <1>7

(* The key of a static peer is made in the same step, so none that was      *)
(* there before is spent on it.                                             *)
LEMMA CreateStaticPeerSpends ==
  ASSUME TypeOK, WithinLimit, NEW k \in PubKeys, NEW g \in DOMAIN peers,
         CreateStaticPeer(k, g)
  PROVE  Spends /\ WithinLimit'
<1>1. PICK t \in KeyIds, id \in PeerIds, addr \in [Families -> HostAddrs] :
        /\ NewKey(t, [revoked |-> FALSE, life |-> "never", max |-> 1, used |-> 1])
        /\ NewPeer(id, [pub |-> k, kind |-> "static", addr |-> addr, key |-> t,
                        revoked |-> FALSE, advertise |-> FALSE,
                        exit |-> None, gateway |-> g])
  BY DEF CreateStaticPeer
<1>2. t \notin DOMAIN keys
  <2>1. IsNextId(t, DOMAIN keys)
    BY <1>1 DEF NewKey
  <2>2. t \in Nat /\ DOMAIN keys \in SUBSET Nat
    BY DEF TypeOK, KeyIds
  <2>. QED  BY <2>1, <2>2, NextIdIsFresh
<1>3. /\ DOMAIN keys' = DOMAIN keys \cup {t}
      /\ keys'[t].max = 1 /\ keys'[t].used = 1
      /\ \A s \in DOMAIN keys : keys'[s] = keys[s]
  BY <1>1, <1>2 DEF NewKey, Insert
<1>4. DOMAIN peers' \ DOMAIN peers \subseteq {id} /\ peers'[id].key = t
  BY <1>1 DEF NewPeer, Insert
<1>5. WithinLimit'
  <2>1. ASSUME NEW s \in DOMAIN keys', keys'[s].max # 0
        PROVE  keys'[s].used <= keys'[s].max
    <3>1. CASE s = t
      <4>1. keys'[s].used = 1 /\ keys'[s].max = 1
        BY <1>3, <3>1
      <4>. QED  BY <4>1
    <3>2. CASE s \in DOMAIN keys
      <4>1. keys'[s] = keys[s]
        BY <1>3, <3>2
      <4>. QED  BY <2>1, <3>2, <4>1 DEF WithinLimit
    <3>. QED  BY <1>3, <3>1, <3>2
  <2>. QED  BY <2>1 DEF WithinLimit
<1>6. ASSUME NEW s \in DOMAIN keys
      PROVE  /\ keys'[s].used = keys[s].used + Cardinality(Born(s))
             /\ Born(s) = {}
             /\ keys'[s].max # 0 => keys'[s].used <= keys'[s].max
  <2>1. Born(s) = {}
    BY <1>2, <1>4 DEF Born
  <2>2. Cardinality(Born(s)) = 0
    BY <2>1, FS_EmptySet
  <2>3. keys[s].used \in Nat
    BY KeyColumns DEF TypeOK
  <2>4. keys'[s] = keys[s]
    BY <1>3
  <2>. QED  BY <2>1, <2>2, <2>3, <2>4 DEF WithinLimit
<1>. QED  BY <1>5, <1>6 DEF Spends

LEMMA KeysStep == TypeOK /\ WithinLimit /\ [Next]_vars => Spends /\ WithinLimit'
<1>. SUFFICES ASSUME TypeOK, WithinLimit, [Next]_vars PROVE Spends /\ WithinLimit'
  OBVIOUS
<1>1. ASSUME Spends, DOMAIN keys' = DOMAIN keys PROVE WithinLimit'
  BY <1>1 DEF Spends, WithinLimit
<1>2. ASSUME keys' = keys, DOMAIN peers' \subseteq DOMAIN peers
      PROVE  Spends /\ WithinLimit'
  BY <1>1, <1>2, NothingSpent
<1>3. ASSUME NEW max \in KeyLimits, NEW life \in KeyLives,
             CreateNamedSetupKey(max, life)
      PROVE  Spends /\ WithinLimit'
  <2>1. PICK id \in KeyIds :
          NewKey(id, [revoked |-> FALSE, life |-> life, max |-> max, used |-> 0])
    BY <1>3 DEF CreateNamedSetupKey
  <2>2. id \notin DOMAIN keys
    BY <2>1, NextIdIsFresh DEF NewKey, TypeOK, KeyIds
  <2>3. /\ DOMAIN keys' = DOMAIN keys \cup {id}
        /\ keys'[id].max = max /\ keys'[id].used = 0
        /\ \A s \in DOMAIN keys : keys'[s] = keys[s]
    BY <2>1, <2>2 DEF NewKey, Insert
  <2>4. peers' = peers
    BY <1>3 DEF CreateNamedSetupKey
  <2>5. WithinLimit'
    BY <2>3, BoundsAssumption DEF WithinLimit
  <2>. QED  BY <2>3, <2>4, <2>5, NothingSpent
<1>4. ASSUME NEW t \in DOMAIN keys, KeyExpires(t) \/ RevokeSetupKey(t)
      PROVE  Spends /\ WithinLimit'
  <2>1. peers' = peers /\ DOMAIN keys' = DOMAIN keys
    BY <1>4 DEF KeyExpires, RevokeSetupKey
  <2>2. \A s \in DOMAIN keys :
          keys'[s].used = keys[s].used /\ keys'[s].max = keys[s].max
    <3>1. TAKE s \in DOMAIN keys
    <3>2. keys[s] \in KeyRow
      BY DEF TypeOK
    <3>3. CASE KeyExpires(t)
      <4>1. keys'[s] \in {keys[s], [keys[s] EXCEPT !.life = "expired"]}
        BY <3>3 DEF KeyExpires
      <4>. QED  BY <3>2, <4>1, KeyColumns
    <3>4. CASE RevokeSetupKey(t)
      <4>1. keys'[s] \in {keys[s], [keys[s] EXCEPT !.revoked = TRUE]}
        BY <3>4 DEF RevokeSetupKey
      <4>. QED  BY <3>2, <4>1, KeyColumns
    <3>. QED  BY <1>4, <3>3, <3>4
  <2>. QED  BY <1>1, <2>1, <2>2, NothingSpent
<1>5. ASSUME NEW k \in PubKeys, NEW t \in DOMAIN keys, EnrollNew(k, t)
      PROVE  Spends /\ WithinLimit'
  <2>1. DOMAIN keys' = DOMAIN keys
    BY <1>5 DEF EnrollNew
  <2>. QED  BY <1>1, <1>5, <2>1, EnrollNewSpends
<1>6. CASE KeyNext
  BY <1>3, <1>4, <1>6 DEF KeyNext
<1>7. ASSUME NEW p \in DOMAIN peers,
             (\E t \in DOMAIN keys : reEnroll(p, t)) \/ RevokePeer(p) \/ RemovePeer(p)
      PROVE  Spends /\ WithinLimit'
  BY <1>2, <1>7 DEF reEnroll, RevokePeer, RemovePeer
<1>8. CASE PeerNext
  BY <1>5, <1>7, <1>8, CreateStaticPeerSpends DEF PeerNext, Enroll
<1>9. CASE PolicyNext
  BY <1>2, <1>9
     DEF PolicyNext, SetAdvertiseExitNode, SetExitNode, ImportACLRules, DeleteACLRule
<1>10. CASE NetworkNext
  BY <1>2, <1>10
     DEF NetworkNext, BeginAddressUpdate, CheckAddress6, UpdatePeerAddress,
         ApplyNetworkMigration, setNetworks, LoadOrInitNetworkConfig
<1>11. CASE UNCHANGED vars
  BY <1>2, <1>11 DEF vars
<1>. QED  BY <1>6, <1>8, <1>9, <1>10, <1>11 DEF Next

(* A key is spent in the step that creates its peer, once, and in no other: *)
(* not by a retried enrollment, and never beyond its limit, its expiry or   *)
(* its revocation.                                                          *)
THEOREM KeysAreSpentWithPeers == Spec => KeySpentWithPeer
<1>1. Init => WithinLimit
  BY DEF Init, WithinLimit
<1>2. TypeOK /\ WithinLimit /\ [Next]_vars => WithinLimit'
  BY KeysStep
<1>3. TypeOK /\ WithinLimit /\ [Next]_vars
        => [\A s \in DOMAIN keys :
              LET born == {p \in DOMAIN peers' \ DOMAIN peers : peers'[p].key = s}
              IN  /\ keys'[s].used = keys[s].used + Cardinality(born)
                  /\ born # {} => ~keys[s].revoked /\ keys[s].life # "expired"
                  /\ keys'[s].max # 0 => keys'[s].used <= keys'[s].max]_vars
  BY KeysStep DEF Spends, Born
<1>. QED  BY <1>1, <1>2, <1>3, TypeCorrect, PTL DEF Spec, KeySpentWithPeer

-----------------------------------------------------------------------------
(* The networks in memory *)

(* No two migrations are between their commit and their publication. *)
OneMigration ==
  \A m, n \in Migrators : pending[m] # NoTarget /\ pending[n] # NoTarget => m = n

(* A migration that has committed is about to publish what the database     *)
(* names; when there is none, memory names it already.                      *)
MemoryInv ==
  /\ \A m \in Migrators : pending[m] # NoTarget => pending[m] = settings
  /\ MemoryFollowsSettings

LEMMA MemoryNext == TypeOK /\ MemoryInv /\ OneMigration' /\ [Next]_vars => MemoryInv'
<1>. SUFFICES ASSUME TypeOK, MemoryInv, OneMigration', [Next]_vars PROVE MemoryInv'
  OBVIOUS
<1>1. CASE UNCHANGED <<settings, network, pending>>
  BY <1>1 DEF MemoryInv, MemoryFollowsSettings
<1>2. ASSUME NEW m \in Migrators, NEW target \in Networks,
             ApplyNetworkMigration(m, target)
      PROVE  MemoryInv'
  <2>1. pending'[m] = target /\ settings' = target /\ target # NoTarget
    BY <1>2, NetworksAreFunctions DEF ApplyNetworkMigration, TypeOK
  <2>2. \A n \in Migrators : pending'[n] # NoTarget => n = m
    BY <2>1 DEF OneMigration
  <2>. QED  BY <2>1, <2>2 DEF MemoryInv, MemoryFollowsSettings
<1>3. ASSUME NEW m \in Migrators, setNetworks(m) PROVE MemoryInv'
  BY <1>3 DEF setNetworks, MemoryInv, MemoryFollowsSettings, TypeOK
<1>4. CASE LoadOrInitNetworkConfig
  BY <1>4 DEF LoadOrInitNetworkConfig, MemoryInv, MemoryFollowsSettings
<1>5. CASE KeyNext
  BY <1>1, <1>5 DEF KeyNext, CreateNamedSetupKey, KeyExpires, RevokeSetupKey
<1>6. CASE PeerNext
  BY <1>1, <1>6
     DEF PeerNext, Enroll, EnrollNew, reEnroll, CreateStaticPeer, RevokePeer, RemovePeer
<1>7. CASE PolicyNext
  BY <1>1, <1>7
     DEF PolicyNext, SetAdvertiseExitNode, SetExitNode, ImportACLRules, DeleteACLRule
<1>8. CASE NetworkNext
  BY <1>1, <1>2, <1>3, <1>4, <1>8
     DEF NetworkNext, BeginAddressUpdate, CheckAddress6, UpdatePeerAddress
<1>9. CASE UNCHANGED vars
  BY <1>1, <1>9 DEF vars
<1>. QED  BY <1>5, <1>6, <1>7, <1>8, <1>9 DEF Next

(* As long as no two migrations are between commit and publication at once, *)
(* memory and database agree whenever none is: neither a crash before the   *)
(* publication nor other flags at the next start leaves them apart.  Two    *)
(* migrations that publish in the other order than they committed do.       *)
THEOREM MemoryIsCurrent == Spec /\ []OneMigration => []MemoryFollowsSettings
<1>1. Init => MemoryInv
  BY DEF Init, MemoryInv, MemoryFollowsSettings
<1>2. MemoryInv => MemoryFollowsSettings
  BY DEF MemoryInv
<1>. QED  BY <1>1, <1>2, MemoryNext, TypeCorrect, PTL DEF Spec

-----------------------------------------------------------------------------
(*****************************************************************************)
(* The address pool                                                          *)
(*****************************************************************************)

(* The pool a state of the registry stands for, and the one its successor   *)
(* stands for.                                                              *)
LEMMA PoolFacts ==
  /\ DOMAIN Held = DOMAIN peers
  /\ \A p \in DOMAIN peers : Held[p] = peers[p].addr
  /\ DOMAIN Held' = DOMAIN peers'
  /\ \A p \in DOMAIN peers' : Held'[p] = peers'[p].addr
BY DEF Held

(* Rows with unique addresses are a table with one holder per address. *)
LEMMA UniqueIsOneHolder == AddressesUnique' => Pool!OneHolder(Held')
BY PoolFacts DEF AddressesUnique, Pool!OneHolder

(* A step that writes no address, no revocation and no request is none of   *)
(* the pool's.                                                              *)
LEMMA PoolStutters ==
  ASSUME DOMAIN peers' = DOMAIN peers,
         \A p \in DOMAIN peers : peers'[p].addr = peers[p].addr,
         \A p \in DOMAIN peers : peers'[p].revoked = peers[p].revoked,
         pending' = pending
  PROVE  UNCHANGED <<Held, Retired, Renumbering>>
<1>1. Held' = Held
  BY DEF Held
<1>2. Retired' = Retired
  BY Zenon DEF Retired
<1>3. Renumbering' = Renumbering
  BY DEF Renumbering
<1>. QED  BY <1>1, <1>2, <1>3

-----------------------------------------------------------------------------
(* One step per action *)

(* A row that is added joins the pool. *)
LEMMA NewPeerJoins ==
  ASSUME TypeOK, AddressesUnique', pending' = pending,
         NEW id \in PeerIds, NEW row, NewPeer(id, row), row.revoked = FALSE
  PROVE  Pool!Join(id)
<1>1. id \notin DOMAIN peers
  BY NextIdIsFresh DEF NewPeer, PeerIds, TypeOK
<1>2. DOMAIN peers' = DOMAIN peers \cup {id}
  BY DEF NewPeer, Insert
<1>3. peers'[id] = row /\ \A p \in DOMAIN peers : peers'[p] = peers[p]
  BY <1>1 DEF NewPeer, Insert
<1>4. Retired' = Retired
  BY <1>1, <1>2, <1>3, Zenon DEF Retired
<1>5. Renumbering' = Renumbering
  BY DEF Renumbering
<1>6. Pool!Others(id)
  BY <1>1, <1>2, <1>3, PoolFacts DEF Pool!Others
<1>. QED  BY <1>1, <1>2, <1>4, <1>5, <1>6, PoolFacts, UniqueIsOneHolder DEF Pool!Join

(* One row's addresses are replaced; nothing else about the rows changes. *)
LEMMA AddressReplaced ==
  ASSUME TypeOK, pending' = pending,
         NEW p \in DOMAIN peers, NEW a \in [Families -> HostAddrs],
         peers' = [peers EXCEPT ![p].addr = a]
  PROVE  /\ DOMAIN Held' = DOMAIN Held
         /\ Held'[p] = a
         /\ Pool!Others(p)
         /\ UNCHANGED <<Retired, Renumbering>>
<1>1. DOMAIN peers' = DOMAIN peers /\ peers'[p] = [peers[p] EXCEPT !.addr = a]
  OBVIOUS
<1>2. peers'[p].addr = a
  BY <1>1 DEF TypeOK, PeerRow
<1>3. \A q \in DOMAIN peers \ {p} : peers'[q] = peers[q]
  OBVIOUS
<1>4. peers'[p].revoked = peers[p].revoked
  BY <1>1, RevokedUntouched DEF TypeOK
<1>5. Retired' = Retired
  <2>1. \A q \in DOMAIN peers : peers'[q].revoked = peers[q].revoked
    BY <1>3, <1>4, Zenon
  <2>. QED  BY <1>1, <2>1, Zenon DEF Retired
<1>6. Renumbering' = Renumbering
  BY DEF Renumbering
<1>7. Pool!Others(p)
  BY <1>1, <1>3, PoolFacts DEF Pool!Others
<1>. QED  BY <1>1, <1>2, <1>5, <1>6, <1>7, PoolFacts

LEMMA reEnrollCompletes ==
  ASSUME TypeOK, AddressesUnique', NEW p \in DOMAIN peers, NEW s \in DOMAIN keys,
         reEnroll(p, s)
  PROVE  Pool!Complete(p)
<1>1. PICK addr \in [Families -> HostAddrs] :
        /\ \A f \in Families : IF f = 4 \/ peers[p].addr[f] # 0
                                 THEN addr[f] = peers[p].addr[f]
                                 ELSE Allocates(f, addr[f])
        /\ peers' = [peers EXCEPT ![p].addr = addr]
  BY DEF reEnroll
<1>2. pending' = pending
  BY DEF reEnroll
<1>3. /\ DOMAIN Held' = DOMAIN Held /\ Held'[p] = addr
      /\ Pool!Others(p) /\ UNCHANGED <<Retired, Renumbering>>
  BY <1>1, <1>2, AddressReplaced
<1>4. \A f \in Families : Held[p][f] # 0 => Held'[p][f] = Held[p][f]
  BY <1>1, <1>3, PoolFacts
<1>. QED  BY <1>3, <1>4, PoolFacts, UniqueIsOneHolder DEF Pool!Complete

LEMMA RevokePeerRetires ==
  ASSUME TypeOK, NEW p \in DOMAIN peers, RevokePeer(p)
  PROVE  Pool!Retire(p)
<1>1. DOMAIN peers' = DOMAIN peers /\ pending' = pending
  BY DEF RevokePeer
<1>2. peers'[p] = [peers[p] EXCEPT !.revoked = TRUE]
  BY DEF RevokePeer
<1>3. \A q \in DOMAIN peers \ {p} : peers'[q] = peers[q]
  BY DEF RevokePeer
<1>4. peers'[p].addr = peers[p].addr
  BY <1>2 DEF TypeOK, PeerRow
<1>5. peers'[p].revoked = TRUE
  BY <1>2, Zenon DEF TypeOK, PeerRow
<1>6. Held' = Held
  BY <1>1, <1>3, <1>4 DEF Held
<1>7. Retired' = Retired \cup {p}
  BY <1>1, <1>3, <1>5, Zenon DEF Retired
<1>8. p \notin Retired
  BY Zenon DEF Retired, RevokePeer
<1>9. Renumbering' = Renumbering
  BY <1>1 DEF Renumbering
<1>. QED  BY <1>6, <1>7, <1>8, <1>9, PoolFacts DEF Pool!Retire

LEMMA RemovePeerLeaves ==
  ASSUME TypeOK, NEW p \in DOMAIN peers, RemovePeer(p)
  PROVE  Pool!Leave(p)
<1>1. DOMAIN peers' = DOMAIN peers \ {p} /\ pending' = pending
  BY DEF RemovePeer
<1>2. \A q \in DOMAIN peers \ {p} : peers'[q] = Detached(peers[q], p)
  BY DEF RemovePeer
<1>3. \A q \in DOMAIN peers \ {p} : /\ peers'[q].addr = peers[q].addr
                                    /\ peers'[q].revoked = peers[q].revoked
  BY <1>2, DetachedColumns DEF TypeOK
<1>4. Retired' = Retired \ {p}
  BY <1>1, <1>3, Zenon DEF Retired
<1>5. p \in Retired
  BY Zenon DEF Retired, RemovePeer
<1>6. Renumbering' = Renumbering
  BY <1>1 DEF Renumbering
<1>7. Pool!Others(p)
  BY <1>1, <1>3, PoolFacts DEF Pool!Others
<1>. QED  BY <1>1, <1>4, <1>5, <1>6, <1>7, PoolFacts DEF Pool!Leave

LEMMA UpdatePeerAddressMoves ==
  ASSUME TypeOK, AddressesUnique', NEW e \in Editors, UpdatePeerAddress(e)
  PROVE  Pool!Move(editing[e].id) \/ UNCHANGED <<Held, Retired, Renumbering>>
<1>. DEFINE p == editing[e].id
            a == editing[e].addr
<1>1. pending' = pending
  BY DEF UpdatePeerAddress
<1>2. CASE Active(p) /\ \A f \in Families : AddressFree(p, f, a[f])
  <2>1. p \in DOMAIN peers /\ a \in [Families -> HostAddrs]
    BY <1>2 DEF Active, TypeOK, Edit
  <2>2. peers' = [peers EXCEPT ![p].addr = a]
    BY <1>2 DEF UpdatePeerAddress
  <2>3. p \notin Retired
    BY <1>2, Zenon DEF Active, Retired
  <2>. HIDE DEF p, a
  <2>4. DOMAIN Held' = DOMAIN Held /\ Pool!Others(p) /\ UNCHANGED <<Retired, Renumbering>>
    BY <1>1, <2>1, <2>2, AddressReplaced
  <2>5. Pool!Move(p)
    BY <2>1, <2>3, <2>4, PoolFacts, UniqueIsOneHolder DEF Pool!Move
  <2>. QED  BY <2>5 DEF p
<1>3. CASE ~(Active(p) /\ \A f \in Families : AddressFree(p, f, a[f]))
  <2>1. peers' = peers
    BY <1>3 DEF UpdatePeerAddress
  <2>. QED  BY <1>1, <2>1, PoolStutters
<1>. QED  BY <1>2, <1>3

LEMMA MigrationRenumbers ==
  ASSUME TypeOK, NEW m \in Migrators, NEW target \in Networks,
         ApplyNetworkMigration(m, target)
  PROVE  Pool!Renumber(m)
<1>1. DOMAIN peers' = DOMAIN peers
  BY DEF ApplyNetworkMigration
<1>2. \A p \in DOMAIN peers : peers'[p] = [peers[p] EXCEPT !.addr =
                                  [g \in Families |-> Renumbered(p, target[g])]]
  BY DEF ApplyNetworkMigration
<1>3. \A p \in DOMAIN peers, f \in Families : Held'[p][f] = target[f].lo + Rank(p)
  <2>1. TAKE p \in DOMAIN peers, f \in Families
  <2>2. peers'[p].addr = [g \in Families |-> Renumbered(p, target[g])]
    BY <1>2 DEF TypeOK, PeerRow
  <2>. QED  BY <1>1, <2>2, PoolFacts DEF Renumbered
<1>4. Retired' = Retired
  <2>1. \A p \in DOMAIN peers : peers'[p].revoked = peers[p].revoked
    <3>1. TAKE p \in DOMAIN peers
    <3>2. peers[p] \in PeerRow
      BY DEF TypeOK
    <3>3. \A v : [peers[p] EXCEPT !.addr = v].revoked = peers[p].revoked
      BY <3>2, RevokedUntouched
    <3>. QED  BY <1>2, <3>3, Zenon
  <2>. QED  BY <1>1, <2>1, Zenon DEF Retired
<1>5. /\ \A p \in DOMAIN peers : Rank(p) \in Nat /\ Rank(p) # 0
      /\ \A p, q \in DOMAIN peers : p < q => Rank(p) < Rank(q)
  BY RankFacts DEF TypeOK
<1>6. \A f \in Families : target[f].lo \in Nat
  BY NetworksAreFunctions
<1>7. \A p \in DOMAIN Held, f \in Families : Held'[p][f] # 0
  BY <1>3, <1>5, <1>6, PoolFacts
<1>8. \A p, q \in DOMAIN Held, f \in Families : p < q => Held'[p][f] < Held'[q][f]
  BY <1>3, <1>5, <1>6, PoolFacts
<1>9. m \notin Renumbering /\ Renumbering' = Renumbering \cup {m}
  <2>1. target # NoTarget /\ pending[m] = NoTarget
    BY NetworksAreFunctions DEF ApplyNetworkMigration
  <2>2. pending'[m] = target /\ \A q \in Migrators \ {m} : pending'[q] = pending[q]
    BY DEF ApplyNetworkMigration, TypeOK
  <2>. QED  BY <2>1, <2>2 DEF Renumbering
<1>. QED  BY <1>1, <1>4, <1>7, <1>8, <1>9, PoolFacts DEF Pool!Renumber

LEMMA PublicationSettles ==
  ASSUME TypeOK, peers' = peers,
         \A m \in Migrators : pending'[m] \in {pending[m], NoTarget}
  PROVE  Pool!Settle
<1>1. Held' = Held /\ Retired' = Retired
  BY DEF Held, Retired
<1>2. Renumbering' \subseteq Renumbering
  BY DEF Renumbering
<1>. QED  BY <1>1, <1>2 DEF Pool!Settle

-----------------------------------------------------------------------------
(* Every step of the registry is a step of the pool or leaves it alone. *)
LEMMA PoolStep ==
  TypeOK /\ AddressesUnique' /\ [Next]_vars
    => [Pool!Next]_<<Held, Retired, Renumbering>>
<1>. SUFFICES ASSUME TypeOK, AddressesUnique', [Next]_vars
              PROVE  Pool!Next \/ UNCHANGED <<Held, Retired, Renumbering>>
  OBVIOUS
<1>. DEFINE Stutter == UNCHANGED <<Held, Retired, Renumbering>>
<1>1. CASE peers' = peers /\ pending' = pending
  BY <1>1, PoolStutters
<1>2. ASSUME NEW k \in PubKeys, NEW s \in DOMAIN keys, EnrollNew(k, s)
      PROVE  Pool!Next
  <2>1. PICK id \in PeerIds, addr \in [Families -> HostAddrs] :
          NewPeer(id, [pub |-> k, kind |-> "agent", addr |-> addr, key |-> s,
                       revoked |-> FALSE, advertise |-> FALSE,
                       exit |-> None, gateway |-> None])
    BY <1>2 DEF EnrollNew
  <2>2. pending' = pending
    BY <1>2 DEF EnrollNew
  <2>3. Pool!Join(id)
    BY <2>1, <2>2, NewPeerJoins
  <2>. QED  BY <2>3 DEF Pool!Next
<1>3. ASSUME NEW k \in PubKeys, NEW g \in DOMAIN peers, CreateStaticPeer(k, g)
      PROVE  Pool!Next
  <2>1. PICK s \in KeyIds, id \in PeerIds, addr \in [Families -> HostAddrs] :
          NewPeer(id, [pub |-> k, kind |-> "static", addr |-> addr, key |-> s,
                       revoked |-> FALSE, advertise |-> FALSE,
                       exit |-> None, gateway |-> g])
    BY <1>3 DEF CreateStaticPeer
  <2>2. pending' = pending
    BY <1>3 DEF CreateStaticPeer
  <2>3. Pool!Join(id)
    BY <2>1, <2>2, NewPeerJoins
  <2>. QED  BY <2>3 DEF Pool!Next
<1>4. ASSUME NEW p \in DOMAIN peers, NEW s \in DOMAIN keys, reEnroll(p, s)
      PROVE  Pool!Next
  BY <1>4, reEnrollCompletes DEF Pool!Next, TypeOK
<1>5. ASSUME NEW p \in DOMAIN peers, RevokePeer(p) \/ RemovePeer(p)
      PROVE  Pool!Next
  BY <1>5, RevokePeerRetires, RemovePeerLeaves DEF Pool!Next, TypeOK
<1>6. ASSUME NEW p \in DOMAIN peers,
             (\E b \in BOOLEAN : SetAdvertiseExitNode(p, b))
               \/ (\E e \in DOMAIN peers \cup {None} : SetExitNode(p, e))
      PROVE  Stutter
  <2>1. DOMAIN peers' = DOMAIN peers /\ pending' = pending
    BY <1>6 DEF SetAdvertiseExitNode, SetExitNode
  <2>2. \A q \in DOMAIN peers : peers'[q].addr = peers[q].addr
    <3>1. CASE \E b \in BOOLEAN : SetAdvertiseExitNode(p, b)
      BY <3>1 DEF SetAdvertiseExitNode, TypeOK, PeerRow
    <3>2. CASE \E e \in DOMAIN peers \cup {None} : SetExitNode(p, e)
      BY <3>2 DEF SetExitNode, TypeOK, PeerRow
    <3>. QED  BY <1>6, <3>1, <3>2
  <2>3. \A q \in DOMAIN peers : peers'[q].revoked = peers[q].revoked
    <3>1. TAKE q \in DOMAIN peers
    <3>2. peers[q] \in PeerRow
      BY DEF TypeOK
    <3>3. PICK v : \/ peers'[q] = peers[q]
                   \/ peers'[q] = [peers[q] EXCEPT !.advertise = v]
                   \/ peers'[q] = [peers[q] EXCEPT !.exit = v]
      BY <1>6 DEF SetAdvertiseExitNode, SetExitNode
    <3>4. \A w : /\ [peers[q] EXCEPT !.advertise = w].revoked = peers[q].revoked
                 /\ [peers[q] EXCEPT !.exit = w].revoked = peers[q].revoked
      BY <3>2, RevokedUntouched
    <3>5. CASE peers'[q] = peers[q]
      BY <3>5
    <3>6. CASE peers'[q] = [peers[q] EXCEPT !.advertise = v]
      BY <3>4, <3>6, Zenon
    <3>7. CASE peers'[q] = [peers[q] EXCEPT !.exit = v]
      BY <3>4, <3>7, Zenon
    <3>. QED  BY <3>3, <3>5, <3>6, <3>7
  <2>. QED  BY <2>1, <2>2, <2>3, PoolStutters
<1>7. ASSUME NEW e \in Editors, UpdatePeerAddress(e)
      PROVE  Pool!Next \/ Stutter
  <2>1. CASE Pool!Move(editing[e].id)
    <3>1. editing[e].id \in DOMAIN peers
      BY <2>1, PoolFacts DEF Pool!Move
    <3>. QED  BY <2>1, <3>1 DEF Pool!Next, TypeOK
  <2>. QED  BY <1>7, <2>1, UpdatePeerAddressMoves
<1>8. ASSUME NEW m \in Migrators, NEW target \in Networks,
             ApplyNetworkMigration(m, target)
      PROVE  Pool!Next
  BY <1>8, MigrationRenumbers DEF Pool!Next
<1>9. ASSUME (\E m \in Migrators : setNetworks(m)) \/ LoadOrInitNetworkConfig
      PROVE  Pool!Next
  <2>1. peers' = peers /\ \A m \in Migrators : pending'[m] \in {pending[m], NoTarget}
    BY <1>9 DEF setNetworks, LoadOrInitNetworkConfig, TypeOK
  <2>. QED  BY <2>1, PublicationSettles DEF Pool!Next
<1>10. CASE KeyNext
  BY <1>10, <1>1 DEF KeyNext, CreateNamedSetupKey, KeyExpires, RevokeSetupKey
<1>11. CASE PeerNext
  BY <1>11, <1>2, <1>3, <1>4, <1>5 DEF PeerNext, Enroll
<1>12. CASE PolicyNext
  BY <1>12, <1>1, <1>6 DEF PolicyNext, ImportACLRules, DeleteACLRule
<1>13. CASE NetworkNext
  BY <1>13, <1>1, <1>7, <1>8, <1>9 DEF NetworkNext, BeginAddressUpdate, CheckAddress6
<1>14. CASE UNCHANGED vars
  BY <1>14, <1>1 DEF vars
<1>. QED  BY <1>10, <1>11, <1>12, <1>13, <1>14 DEF Next

(* The store implements the address pool: the peers table starts as an      *)
(* empty pool, and enrolling, re-enrolling, editing, revoking, removing,    *)
(* migrating and restarting each change it as the pool allows.              *)
THEOREM RegistryImplementsPool == Spec => ImplementsPool
<1>1. Init => Pool!Init
  BY DEF Init, Pool!Init, Held, Retired, Renumbering
<1>. QED  BY <1>1, TypeCorrect, AddressesStayUnique, PoolStep, PTL
          DEF Spec, ImplementsPool, Pool!Spec

(* Every step of the pool frees addresses in order. *)
LEMMA PoolReleases ==
  [Pool!Next]_<<Held, Retired, Renumbering>> => Pool!ReleasedInOrder
<1>. SUFFICES ASSUME [Pool!Next]_<<Held, Retired, Renumbering>>,
                     NEW h \in DOMAIN Held, NEW f \in Families, Held[h][f] # 0,
                     h \in DOMAIN Held' => Held'[h][f] # Held[h][f],
                     ~\E r \in Migrators : Pool!Renumber(r)
              PROVE  /\ Pool!Others(h)
                     /\ h \in Retired <=> h \notin DOMAIN Held'
  BY DEF Pool!ReleasedInOrder
<1>1. ASSUME NEW g, Pool!Join(g) PROVE FALSE
  BY <1>1 DEF Pool!Join, Pool!Others
<1>2. ASSUME NEW g, Pool!Complete(g) PROVE FALSE
  BY <1>2 DEF Pool!Complete, Pool!Others
<1>3. ASSUME NEW g, Pool!Retire(g) PROVE FALSE
  BY <1>3 DEF Pool!Retire
<1>4. Pool!Settle \/ UNCHANGED <<Held, Retired, Renumbering>> => FALSE
  BY DEF Pool!Settle
<1>5. ASSUME NEW g, Pool!Leave(g)
      PROVE  g = h /\ h \in Retired /\ h \notin DOMAIN Held' /\ Pool!Others(h)
  BY <1>5 DEF Pool!Leave, Pool!Others
<1>6. ASSUME NEW g, Pool!Move(g)
      PROVE  g = h /\ h \notin Retired /\ h \in DOMAIN Held' /\ Pool!Others(h)
  BY <1>6 DEF Pool!Move, Pool!Others
<1>. QED  BY <1>1, <1>2, <1>3, <1>4, <1>5, <1>6 DEF Pool!Next

(* An address leaves a row in three ways only: the row was revoked and is   *)
(* removed, the row is not revoked and its own address is edited, each      *)
(* leaving every other row alone, or a migration renumbers every row.       *)
THEOREM AddressesAreReleasedInOrder == Spec => AddressesReleased
<1>1. TypeOK /\ AddressesUnique' /\ [Next]_vars => [Pool!ReleasedInOrder]_vars
  BY PoolStep, PoolReleases
<1>. QED  BY <1>1, TypeCorrect, AddressesStayUnique, PTL
          DEF Spec, AddressesReleased

-----------------------------------------------------------------------------
(*****************************************************************************)
(* The payloads                                                              *)
(*****************************************************************************)

(* The facts about the registry that the payloads rest on. *)
Consistent == TypeOK /\ ReferencesLive /\ AddressesUnique

LEMMA ConsistentAlways == Spec => []Consistent
<1>1. Init => Consistent
  BY TypeInit DEF Init, Consistent, ReferencesLive, AddressesUnique
<1>2. Consistent /\ [Next]_vars => Consistent'
  BY TypeNext, ReferencesNext, UniqueNext DEF Consistent
<1>. QED  BY <1>1, <1>2, PTL DEF Spec

(* Rows have positive ids, so no row is mistaken for NULL. *)
LEMMA RowsAreNotNull == Consistent => None \notin DOMAIN peers
BY BoundsAssumption DEF Consistent, TypeOK, PeerIds, None

(* Between agents every clause of listVisible reads the same both ways: the *)
(* exit clauses are each other's mirror image and an agent has no gateway.  *)
LEMMA SeesIsSymmetric ==
  ASSUME Consistent, NEW a \in Agents, NEW b \in Agents, Sees(a, b)
  PROVE  Sees(b, a)
<1>1. a \in DOMAIN peers /\ b \in DOMAIN peers /\ Active(a) /\ Active(b) /\ a # b
  BY DEF Agents, ActiveAgent, Sees
<1>2. peers[a].kind = "agent" /\ peers[b].kind = "agent"
  BY DEF Agents, ActiveAgent
<1>3. peers[b].gateway # a
  BY <1>1, <1>2, RowsAreNotNull DEF Consistent, ReferencesLive
<1>4. CASE DefaultAllow
  BY <1>1, <1>4 DEF Sees
<1>5. CASE peers[b].exit = a \/ b = peers[a].exit
  BY <1>1, <1>5 DEF Sees
<1>6. CASE \E r \in DOMAIN rules : RuleConnects(r, a, b)
  BY <1>1, <1>6 DEF Sees, RuleConnects
<1>. QED  BY <1>3, <1>4, <1>5, <1>6 DEF Sees

(* Two agents configure each other or neither does, and whoever routes its  *)
(* internet traffic to an exit node finds that node told to masquerade.     *)
THEOREM LinksStayMutual == Spec => []LinksMutual
<1>1. Consistent => LinksMutual
  <2>. SUFFICES ASSUME Consistent, NEW a \in Agents, NEW b \in Agents
                PROVE  /\ b \in PeerEntries(a) => a \in PeerEntries(b)
                       /\ b \in PeerEntries(a) /\ IsExitEntry(a, b)
                            => exitNodeActiveFor(b)
    BY DEF LinksMutual
  <2>1. a \in DOMAIN peers /\ b \in DOMAIN peers
    BY DEF Agents
  <2>2. ~RoutedMobile(a)
    BY DEF RoutedMobile, Agents, ActiveAgent
  <2>3. ASSUME b \in PeerEntries(a) PROVE a \in listVisible(b)
    BY <2>1, <2>3, SeesIsSymmetric DEF PeerEntries, listVisible
  <2>4. ASSUME b \in PeerEntries(a), IsExitEntry(a, b) PROVE exitNodeActiveFor(b)
    BY <2>3, <2>4 DEF IsExitEntry, exitNodeActiveFor
  <2>. QED  BY <2>2, <2>3, <2>4 DEF PeerEntries
<1>. QED  BY <1>1, ConsistentAlways, PTL

(* An address an agent sends through a gateway is one the gateway accepts:  *)
(* the gateway has the mobile as a peer and forwards for it.                *)
THEOREM RoutedMobilesAreForwarded == Spec => []RoutedMobileIsForwarded
<1>1. Consistent => RoutedMobileIsForwarded
  <2>. SUFFICES ASSUME Consistent, NEW a \in Agents, NEW g \in PeerEntries(a),
                       NEW m \in mobilesByGateway(a, g)
                PROVE  g \in Agents /\ m \in PeerEntries(g) /\ m \in gatewayRoutesFor(g)
    BY DEF RoutedMobileIsForwarded
  <2>1. /\ m \in DOMAIN peers /\ Active(m) /\ g \in DOMAIN peers /\ Active(g)
        /\ peers[m].kind = "static" /\ peers[m].gateway = g /\ g # None
    BY DEF mobilesByGateway, RoutedMobile, PeerEntries, listVisible, Sees
  <2>2. peers[g].kind = "agent"
    BY <2>1 DEF Consistent, ReferencesLive
  <2>3. m # g
    BY <2>1, <2>2
  <2>4. m \in listVisible(g)
    BY <2>1, <2>3 DEF listVisible, Sees
  <2>. QED  BY <2>1, <2>2, <2>4
            DEF Agents, ActiveAgent, PeerEntries, gatewayRoutesFor
<1>. QED  BY <1>1, ConsistentAlways, PTL

-----------------------------------------------------------------------------
(* Disjoint allowed addresses *)

(* The peers whose addresses an entry carries: its own, and the mobiles     *)
(* folded into it.                                                          *)
Carried(self, o) ==
  {o} \cup (IF peers[o].kind = "static" THEN {} ELSE mobilesByGateway(self, o))

LEMMA AllowedIPsAreCarried ==
  ASSUME NEW self, NEW o
  PROVE  \A x \in AllowedIPs(self, o) :
           \E c \in Carried(self, o) : x \in allowedIPsForPeer(c)
BY DEF AllowedIPs, Carried

LEMMA SharedAddressSamePeer ==
  ASSUME Consistent, NEW c \in DOMAIN peers, NEW d \in DOMAIN peers, c # d
  PROVE  allowedIPsForPeer(c) \cap allowedIPsForPeer(d) = {}
BY DEF Consistent, AddressesUnique, allowedIPsForPeer

(* Each peer is carried by one entry: as its own peer or by its gateway.    *)
(* So no two entries of a peer list claim one address, which WireGuard      *)
(* would silently move to the entry configured last, and none claims the    *)
(* reader's own address.                                                    *)
THEOREM AllowedIPsStayDisjoint == Spec => []AllowedIPsDisjoint
<1>1. ASSUME Consistent, NEW a \in Agents, NEW o \in PeerEntries(a),
             NEW c \in Carried(a, o)
      PROVE  /\ c \in DOMAIN peers /\ c # a
             /\ c # o => RoutedMobile(c) /\ peers[c].gateway = o /\ peers[o].kind # "static"
  BY DEF Carried, PeerEntries, mobilesByGateway, listVisible, Sees
<1>2. ASSUME Consistent, NEW a \in Agents, NEW o \in PeerEntries(a),
             NEW u \in PeerEntries(a), o # u,
             NEW c \in Carried(a, o), c \in Carried(a, u)
      PROVE  FALSE
  <2>1. CASE c = o
    <3>1. RoutedMobile(o) /\ peers[o].gateway = u
      BY <1>1, <1>2, <2>1
    <3>2. u = a
      BY <3>1 DEF PeerEntries
    <3>. QED  BY <3>2 DEF PeerEntries, listVisible, Sees
  <2>2. CASE c = u
    <3>1. RoutedMobile(u) /\ peers[u].gateway = o
      BY <1>1, <1>2, <2>2
    <3>2. o = a
      BY <3>1 DEF PeerEntries
    <3>. QED  BY <3>2 DEF PeerEntries, listVisible, Sees
  <2>3. CASE c # o /\ c # u
    BY <1>1, <1>2, <2>3
  <2>. QED  BY <2>1, <2>2, <2>3
<1>3. Consistent => AllowedIPsDisjoint
  <2>. SUFFICES ASSUME Consistent, NEW a \in Agents, NEW o \in PeerEntries(a)
                PROVE  /\ AllowedIPs(a, o) \cap allowedIPsForPeer(a) = {}
                       /\ \A u \in PeerEntries(a) :
                            o # u => AllowedIPs(a, o) \cap AllowedIPs(a, u) = {}
    BY DEF AllowedIPsDisjoint
  <2>1. AllowedIPs(a, o) \cap allowedIPsForPeer(a) = {}
    <3>1. SUFFICES ASSUME NEW x \in AllowedIPs(a, o), x \in allowedIPsForPeer(a)
                   PROVE  FALSE
      OBVIOUS
    <3>2. PICK c \in Carried(a, o) : x \in allowedIPsForPeer(c)
      BY AllowedIPsAreCarried
    <3>3. c \in DOMAIN peers /\ c # a /\ a \in DOMAIN peers
      BY <1>1 DEF Agents
    <3>. QED  BY <3>1, <3>2, <3>3, SharedAddressSamePeer
  <2>2. ASSUME NEW u \in PeerEntries(a), o # u
        PROVE  AllowedIPs(a, o) \cap AllowedIPs(a, u) = {}
    <3>1. SUFFICES ASSUME NEW x \in AllowedIPs(a, o), x \in AllowedIPs(a, u)
                   PROVE  FALSE
      OBVIOUS
    <3>2. PICK c \in Carried(a, o) : x \in allowedIPsForPeer(c)
      BY AllowedIPsAreCarried
    <3>3. PICK d \in Carried(a, u) : x \in allowedIPsForPeer(d)
      BY <3>1, AllowedIPsAreCarried
    <3>4. c \in DOMAIN peers /\ d \in DOMAIN peers
      BY <1>1
    <3>5. c # d
      BY <1>2, <2>2
    <3>. QED  BY <3>2, <3>3, <3>4, <3>5, SharedAddressSamePeer
  <2>. QED  BY <2>1, <2>2
<1>. QED  BY <1>3, ConsistentAlways, PTL

-----------------------------------------------------------------------------
(* Mobiles *)

(* An agent that sees a mobile and its gateway, or is the gateway, has an   *)
(* entry that carries the mobile's addresses.                               *)
LEMMA MobileHasEntry ==
  ASSUME Consistent, NEW a \in Agents, NEW m \in listVisible(a), RoutedMobile(m),
         peers[m].gateway = a \/ peers[m].gateway \in listVisible(a)
  PROVE  \E o \in PeerEntries(a) : allowedIPsForPeer(m) \subseteq AllowedIPs(a, o)
<1>. DEFINE g == peers[m].gateway
<1>1. CASE g = a
  <2>1. m \in PeerEntries(a)
    BY <1>1 DEF PeerEntries
  <2>2. allowedIPsForPeer(m) \subseteq AllowedIPs(a, m)
    BY DEF AllowedIPs
  <2>. QED  BY <2>1, <2>2
<1>2. CASE g \in listVisible(a)
  <2>1. peers[g].kind = "agent"
    BY DEF Consistent, ReferencesLive, RoutedMobile, listVisible
  <2>2. g \in PeerEntries(a)
    BY <1>2, <2>1 DEF PeerEntries, RoutedMobile
  <2>3. m \in mobilesByGateway(a, g)
    BY DEF mobilesByGateway
  <2>4. allowedIPsForPeer(m) \subseteq AllowedIPs(a, g)
    BY <2>1, <2>3 DEF AllowedIPs
  <2>. QED  BY <2>2, <2>4
<1>. QED  BY <1>1, <1>2

(* Under the policy that allows by default, a mobile an agent may see is    *)
(* reachable for it as long as the mobile's gateway is not revoked.  (Under *)
(* default deny a rule may show the mobile and not the gateway; then        *)
(* MobileHasEntry is all there is.)                                         *)
THEOREM MobilesAreRouted == DefaultAllow => (Spec => []VisibleMobileRouted)
<1>1. ASSUME DefaultAllow PROVE Consistent => VisibleMobileRouted
  <2>. SUFFICES ASSUME Consistent, NEW a \in Agents, NEW m \in listVisible(a),
                       RoutedMobile(m), Active(peers[m].gateway)
                PROVE  \E o \in PeerEntries(a) :
                         allowedIPsForPeer(m) \subseteq AllowedIPs(a, o)
    BY DEF VisibleMobileRouted
  <2>1. peers[m].gateway = a \/ peers[m].gateway \in listVisible(a)
    BY <1>1 DEF listVisible, Sees, Active
  <2>. QED  BY <2>1, MobileHasEntry
<1>. SUFFICES ASSUME DefaultAllow PROVE Spec => []VisibleMobileRouted
  OBVIOUS
<1>2. Consistent => VisibleMobileRouted
  BY <1>1
<1>. QED  BY <1>2, ConsistentAlways, PTL

-----------------------------------------------------------------------------
(* Who comes to see whom *)

(* What a step may do to the rows that stay, unless it edits rules only:    *)
(* revoke them and clear their gateway.  The rules that stay are unchanged. *)
Narrows ==
  /\ \A p \in DOMAIN peers \cap DOMAIN peers' :
       /\ peers[p].revoked => peers'[p].revoked
       /\ peers'[p].gateway \in {peers[p].gateway, None}
  /\ DOMAIN rules' \subseteq DOMAIN rules
  /\ \A r \in DOMAIN rules' : rules'[r] = rules[r]

(* Each column that visibility reads is untouched by an update of another. *)
LEMMA VisibleColumns ==
  ASSUME NEW row \in PeerRow, NEW v
  PROVE  /\ [row EXCEPT !.exit = v].gateway = row.gateway
         /\ [row EXCEPT !.advertise = v].gateway = row.gateway
         /\ [row EXCEPT !.addr = v].gateway = row.gateway
         /\ [row EXCEPT !.revoked = v].gateway = row.gateway
         /\ [row EXCEPT !.revoked = v].revoked = v
BY Zenon DEF PeerRow

(* A step that rewrites rows in place, each in one of these columns. *)
LEMMA UpdatesNarrow ==
  ASSUME TypeOK, rules' = rules,
         \A p \in DOMAIN peers \cap DOMAIN peers' :
           \/ peers'[p] = peers[p]
           \/ \E v : \/ peers'[p] = [peers[p] EXCEPT !.addr = v]
                     \/ peers'[p] = [peers[p] EXCEPT !.advertise = v]
                     \/ peers'[p] = [peers[p] EXCEPT !.exit = v]
           \/ peers'[p] = [peers[p] EXCEPT !.revoked = TRUE]
  PROVE  Narrows
<1>1. ASSUME NEW p \in DOMAIN peers \cap DOMAIN peers'
      PROVE  /\ peers[p].revoked => peers'[p].revoked
             /\ peers'[p].gateway = peers[p].gateway
  <2>1. peers[p] \in PeerRow
    BY DEF TypeOK
  <2>2. CASE peers'[p] = peers[p]
    BY <2>2, Zenon
  <2>3. CASE \E v : \/ peers'[p] = [peers[p] EXCEPT !.addr = v]
                    \/ peers'[p] = [peers[p] EXCEPT !.advertise = v]
                    \/ peers'[p] = [peers[p] EXCEPT !.exit = v]
    <3>1. PICK v : \/ peers'[p] = [peers[p] EXCEPT !.addr = v]
                   \/ peers'[p] = [peers[p] EXCEPT !.advertise = v]
                   \/ peers'[p] = [peers[p] EXCEPT !.exit = v]
      BY <2>3
    <3>2. /\ [peers[p] EXCEPT !.exit = v].revoked = peers[p].revoked
          /\ [peers[p] EXCEPT !.advertise = v].revoked = peers[p].revoked
          /\ [peers[p] EXCEPT !.addr = v].revoked = peers[p].revoked
      BY <2>1, RevokedUntouched, Zenon
    <3>3. /\ [peers[p] EXCEPT !.exit = v].gateway = peers[p].gateway
          /\ [peers[p] EXCEPT !.advertise = v].gateway = peers[p].gateway
          /\ [peers[p] EXCEPT !.addr = v].gateway = peers[p].gateway
      BY <2>1, VisibleColumns, Zenon
    <3>. QED  BY <3>1, <3>2, <3>3, Zenon
  <2>4. CASE peers'[p] = [peers[p] EXCEPT !.revoked = TRUE]
    <3>1. /\ [peers[p] EXCEPT !.revoked = TRUE].gateway = peers[p].gateway
          /\ [peers[p] EXCEPT !.revoked = TRUE].revoked = TRUE
      BY <2>1, VisibleColumns, Zenon
    <3>. QED  BY <2>4, <3>1, Zenon
  <2>. QED  BY <2>2, <2>3, <2>4
<1>. QED  BY <1>1 DEF Narrows

(* Adding a peer leaves the rows there are alone. *)
LEMMA NewPeerNarrows ==
  ASSUME TypeOK, rules' = rules, NEW id, NEW row, NewPeer(id, row)
  PROVE  Narrows
<1>1. id \in PeerIds /\ id \notin DOMAIN peers
  BY NextIdIsFresh DEF NewPeer, TypeOK, PeerIds
<1>2. \A p \in DOMAIN peers \cap DOMAIN peers' : peers'[p] = peers[p]
  BY <1>1 DEF NewPeer, Insert
<1>. QED  BY <1>2, UpdatesNarrow

LEMMA RemovePeerNarrows ==
  ASSUME TypeOK, NEW q \in DOMAIN peers, RemovePeer(q)
  PROVE  Narrows
<1>1. /\ DOMAIN peers' \subseteq DOMAIN peers
      /\ \A p \in DOMAIN peers' : peers'[p] = Detached(peers[p], q)
  BY DEF RemovePeer
<1>2. \A p \in DOMAIN peers' : peers[p] \in PeerRow
  BY <1>1 DEF TypeOK
<1>3. \A p \in DOMAIN peers' : peers'[p].revoked = peers[p].revoked
  <2>1. TAKE p \in DOMAIN peers'
  <2>2. Detached(peers[p], q).revoked = peers[p].revoked
    BY <1>2, DetachedColumns, Zenon
  <2>. QED  BY <1>1, <2>2, Zenon
<1>4. \A p \in DOMAIN peers' : peers'[p].gateway \in {peers[p].gateway, None}
  BY <1>1, <1>2, DetachedColumns
<1>5. /\ DOMAIN rules' \subseteq DOMAIN rules
      /\ \A r \in DOMAIN rules' : rules'[r] = rules[r]
  BY DEF RemovePeer, Delete
<1>. QED  BY <1>3, <1>4, <1>5, Zenon DEF Narrows

LEMMA StepNarrows == TypeOK /\ [Next]_vars => peers' = peers \/ Narrows
<1>. SUFFICES ASSUME TypeOK, [Next]_vars PROVE peers' = peers \/ Narrows
  OBVIOUS
<1>1. ASSUME NEW k \in PubKeys, NEW s \in DOMAIN keys, EnrollNew(k, s) PROVE Narrows
  BY <1>1, NewPeerNarrows DEF EnrollNew
<1>2. ASSUME NEW k \in PubKeys, NEW g \in DOMAIN peers, CreateStaticPeer(k, g)
      PROVE  Narrows
  BY <1>2, NewPeerNarrows DEF CreateStaticPeer
<1>3. ASSUME NEW p \in DOMAIN peers, NEW s \in DOMAIN keys, reEnroll(p, s) PROVE Narrows
  <2>1. PICK addr \in [Families -> HostAddrs] : peers' = [peers EXCEPT ![p].addr = addr]
    BY <1>3 DEF reEnroll
  <2>2. rules' = rules
    BY <1>3 DEF reEnroll
  <2>. QED  BY <2>1, <2>2, UpdatesNarrow
<1>4. ASSUME NEW p \in DOMAIN peers, RevokePeer(p) PROVE Narrows
  BY <1>4, UpdatesNarrow DEF RevokePeer
<1>5. ASSUME NEW p \in DOMAIN peers, NEW b \in BOOLEAN, SetAdvertiseExitNode(p, b)
      PROVE  Narrows
  BY <1>5, UpdatesNarrow DEF SetAdvertiseExitNode
<1>6. ASSUME NEW p \in DOMAIN peers, NEW e \in DOMAIN peers \cup {None}, SetExitNode(p, e)
      PROVE  Narrows
  BY <1>6, UpdatesNarrow DEF SetExitNode
<1>7. ASSUME NEW e \in Editors, UpdatePeerAddress(e) PROVE Narrows
  BY <1>7, UpdatesNarrow DEF UpdatePeerAddress
<1>8. ASSUME NEW m \in Migrators, NEW target \in Networks,
             ApplyNetworkMigration(m, target)
      PROVE  Narrows
  BY <1>8, UpdatesNarrow DEF ApplyNetworkMigration
<1>9. CASE KeyNext
  BY <1>9 DEF KeyNext, CreateNamedSetupKey, KeyExpires, RevokeSetupKey
<1>10. CASE PeerNext
  BY <1>1, <1>2, <1>3, <1>4, <1>10, RemovePeerNarrows DEF PeerNext, Enroll
<1>11. CASE PolicyNext
  BY <1>5, <1>6, <1>11 DEF PolicyNext, ImportACLRules, DeleteACLRule
<1>12. CASE NetworkNext
  BY <1>7, <1>8, <1>12
     DEF NetworkNext, BeginAddressUpdate, CheckAddress6, setNetworks,
         LoadOrInitNetworkConfig
<1>13. CASE UNCHANGED vars
  BY <1>13 DEF vars
<1>. QED  BY <1>9, <1>10, <1>11, <1>12, <1>13 DEF Next

(* Two peers come to see each other only through an edit of the rules or an *)
(* exit assigned between the two: the foreign keys' cascades, a revocation, *)
(* an enrollment or a migration never widens what the policy allows.        *)
THEOREM VisibilityIsGranted == Spec => VisibilityGrantedByPolicy
<1>1. Consistent /\ [Next]_vars
        => [\A a, b \in DOMAIN peers \cap DOMAIN peers' :
              Sees(a, b)' /\ ~Sees(a, b) =>
                \/ peers' = peers
                \/ peers'[a].exit = b /\ peers[a].exit # b
                \/ peers'[b].exit = a /\ peers[b].exit # a]_vars
  <2>. SUFFICES ASSUME Consistent, Narrows,
                       NEW a \in DOMAIN peers \cap DOMAIN peers',
                       NEW b \in DOMAIN peers \cap DOMAIN peers',
                       Sees(a, b)', ~Sees(a, b)
                PROVE  \/ peers'[a].exit = b /\ peers[a].exit # b
                       \/ peers'[b].exit = a /\ peers[b].exit # a
    BY StepNarrows DEF Consistent
  <2>1. Active(b) /\ b # a
    BY DEF Sees, Active, Narrows
  <2>2. peers'[b].gateway # a
    BY <2>1, RowsAreNotNull DEF Narrows, Sees
  <2>3. ~DefaultAllow /\ ~(\E r \in DOMAIN rules' : RuleConnects(r, a, b)')
    BY <2>1 DEF Sees, Narrows, RuleConnects
  <2>4. peers'[b].exit = a \/ b = peers'[a].exit
    BY <2>2, <2>3 DEF Sees
  <2>. QED  BY <2>1, <2>4 DEF Sees
<1>. QED  BY <1>1, ConsistentAlways, PTL DEF Spec, VisibilityGrantedByPolicy

=============================================================================
