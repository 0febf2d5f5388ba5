------------------------------ MODULE Registry ------------------------------
(***************************************************************************)
(* The control plane's database and the store that guards it               *)
(* (internal/store): setup keys, peers, ACL rules, the overlay network     *)
(* settings, and the copy of those settings the store keeps in memory.     *)
(*                                                                         *)
(* Every write transaction is BEGIN IMMEDIATE, so a transaction is one     *)
(* step.  What is not one step is a request that reads the in-memory       *)
(* networks outside its transaction: an address edit validates before it   *)
(* opens its transaction, and a network migration publishes the new        *)
(* networks after it committed.  Those requests live in `editing' and      *)
(* `pending' between their steps.                                          *)
(*                                                                         *)
(* Abstractions.  A prefix is an interval of integers whose low end is the *)
(* network address.  Columns no property tells apart (hostname, endpoints, *)
(* candidates, token hash, timestamps, rule protocol and ports) are left   *)
(* out, so a re-enrollment that only refreshes them leaves the row as it   *)
(* is.  A request that is refused changes nothing and is not a step.       *)
(***************************************************************************)
EXTENDS Naturals, FiniteSets

CONSTANTS
  PubKeys,    \* WireGuard public keys that may be registered
  Families,   \* address families: {4}, or {4, 6} with the IPv6 overlay
  Networks,   \* overlay networks an operator may choose, [Families -> Prefix]
  Default,    \* the network of the server's flags, used when none is stored
  Migrators,  \* concurrent network-migration requests
  Editors,    \* concurrent address-edit requests
  KeyLimits,  \* max_uses values an operator may choose; 0 is unlimited
  KeyLives,   \* lifetimes an operator may choose
  MaxKeys, MaxPeers, MaxRules,  \* bounds on ids
  MaxUses,    \* bound on the uses of an unlimited key
  MaxBatch    \* bound on the rules of one ACL import

Prefix == [lo : Nat, hi : Nat]
NoNet == [lo |-> 0, hi |-> 0]

ASSUME FamiliesAssumption == 4 \in Families /\ Families \subseteq {4, 6}
ASSUME NetworksAssumption ==
  /\ Networks \subseteq [Families -> Prefix \ {NoNet}]
  /\ Default \in Networks
ASSUME BoundsAssumption ==
  /\ KeyLimits \subseteq Nat
  /\ KeyLives \subseteq {"never", "live"}
  /\ MaxKeys \in Nat /\ MaxPeers \in Nat /\ MaxRules \in Nat
  /\ MaxUses \in Nat /\ MaxBatch \in Nat

VARIABLES
  keys,      \* setup_keys rows by id
  peers,     \* peers rows by id
  rules,     \* acl_rules rows by id; 0 stands for NULL, "any peer"
  settings,  \* the overlay networks in the settings table
  network,   \* Store.network and Store.Network6
  pending,   \* per migrator: the target it committed and has not published
  editing    \* per editor: the address edit that has passed validation so far

vars == <<keys, peers, rules, settings, network, pending, editing>>

None == 0
NoTarget == [f \in Families |-> NoNet]
NoAddr == [f \in Families |-> 0]
NotEditing == [id |-> None, addr |-> NoAddr, checked |-> {}]

KeyIds == 1..MaxKeys
PeerIds == 1..MaxPeers
RuleIds == 1..MaxRules

(* Every address of a prefix but the network address, and 0 for NULL. *)
Hosts(n) == (n.lo + 1)..n.hi
Prefixes == {n[f] : n \in Networks, f \in Families}
HostAddrs == {0} \cup UNION {Hosts(n) : n \in Prefixes}

KeyRow == [revoked : BOOLEAN, life : {"never", "live", "expired"},
           max : Nat, used : Nat]
PeerRow == [pub : PubKeys, kind : {"agent", "static"}, addr : [Families -> HostAddrs],
            key : KeyIds, revoked : BOOLEAN, advertise : BOOLEAN,
            exit : PeerIds \cup {None}, gateway : PeerIds \cup {None}]
RuleRow == [src : PeerIds \cup {None}, dst : PeerIds \cup {None}]
Edit == [id : PeerIds \cup {None}, addr : [Families -> HostAddrs],
         checked : SUBSET Families]

-----------------------------------------------------------------------------
(* Tables *)

(* SQLite gives INTEGER PRIMARY KEY without AUTOINCREMENT the largest rowid *)
(* plus one, so the id of a removed newest row is handed out again.         *)
IsNextId(id, used) ==
  \/ id = 1 /\ used = {}
  \/ id - 1 \in used /\ \A u \in used : u < id

(* Table t with row r inserted under id, and with the rows in ids deleted. *)
Insert(t, id, r) == [i \in DOMAIN t \cup {id} |-> IF i = id THEN r ELSE t[i]]
Delete(t, ids) == [i \in DOMAIN t \ ids |-> t[i]]

Active(p) == p \in DOMAIN peers /\ ~peers[p].revoked
ActiveAgent(p) == Active(p) /\ peers[p].kind = "agent"

(* The admin interface is up: the network configuration has been loaded. *)
Serving == settings # NoTarget
Registered(k) == \E p \in DOMAIN peers : peers[p].pub = k

-----------------------------------------------------------------------------
(* Address allocation *)

Enabled(n) == n # NoNet

Used(f) == {peers[p].addr[f] : p \in DOMAIN peers} \ {0}

(* Lowest free host address of n; rows of revoked peers still hold theirs. *)
IsAllocation(f, n, a) ==
  IF Enabled(n)
    THEN /\ a \in Hosts(n) \ Used(f)
         /\ \A b \in Hosts(n) : b < a => b \in Used(f)
    ELSE a = 0

(* The network a transaction sees when it allocates in family f.  The IPv6  *)
(* network is read after the IPv4 address is allocated, and a migration     *)
(* that has committed may publish its target between the two reads.         *)
Readable(f) ==
  {network[f]} \cup
    {pending[m][f] : m \in {q \in Migrators : f # 4 /\ pending[q] # NoTarget}}

Allocates(f, a) == \E n \in Readable(f) : IsAllocation(f, n, a)

-----------------------------------------------------------------------------
(* Setup keys *)

NewKey(id, row) ==
  /\ id \in KeyIds
  /\ IsNextId(id, DOMAIN keys)
  /\ keys' = Insert(keys, id, row)

CreateNamedSetupKey(max, life) ==
  /\ \E id \in KeyIds :
       NewKey(id, [revoked |-> FALSE, life |-> life, max |-> max, used |-> 0])
  /\ UNCHANGED <<peers, rules, settings, network, pending, editing>>

(* Time passes expires_at. *)
KeyExpires(s) ==
  /\ keys[s].life = "live"
  /\ keys' = [keys EXCEPT ![s].life = "expired"]
  /\ UNCHANGED <<peers, rules, settings, network, pending, editing>>

RevokeSetupKey(s) ==
  /\ ~keys[s].revoked
  /\ keys' = [keys EXCEPT ![s].revoked = TRUE]
  /\ UNCHANGED <<peers, rules, settings, network, pending, editing>>

(* The WHERE clause of the consuming UPDATE. *)
Consumable(s) ==
  /\ ~keys[s].revoked
  /\ keys[s].life # "expired"
  /\ keys[s].max = 0 \/ keys[s].used < keys[s].max

-----------------------------------------------------------------------------
(* Enrollment *)

NewPeer(id, row) ==
  /\ id \in PeerIds
  /\ IsNextId(id, DOMAIN peers)
  /\ peers' = Insert(peers, id, row)

EnrollNew(k, s) ==
  /\ ~Registered(k)
  /\ Consumable(s)
  /\ keys[s].used < MaxUses
  /\ \E id \in PeerIds, addr \in [Families -> HostAddrs] :
       /\ \A f \in Families : Allocates(f, addr[f])
       /\ NewPeer(id, [pub |-> k, kind |-> "agent", addr |-> addr, key |-> s,
                       revoked |-> FALSE, advertise |-> FALSE,
                       exit |-> None, gateway |-> None])
  /\ keys' = [keys EXCEPT ![s].used = @ + 1]
  /\ UNCHANGED <<rules, settings, network, pending, editing>>

(* Mutant: re-enrolling spends the key again. *)
reEnrollSpending(p, s) ==
  /\ Consumable(s)
  /\ keys[s].used < MaxUses
  /\ peers[p].key = s
  /\ keys' = [keys EXCEPT ![s].used = @ + 1]
  /\ UNCHANGED <<peers, rules, settings, network, pending, editing>>

(* The key must be the one the row was created with and not be revoked;     *)
(* expiry, exhaustion and the row's own revocation are not looked at.  A    *)
(* row without an IPv6 address gets one once the IPv6 overlay exists.       *)
reEnroll(p, s) ==
  /\ ~keys[s].revoked
  /\ peers[p].key = s
  /\ \E addr \in [Families -> HostAddrs] :
       /\ \A f \in Families :
            IF f = 4 \/ peers[p].addr[f] # 0
              THEN addr[f] = peers[p].addr[f]
              ELSE Allocates(f, addr[f])
       /\ peers' = [peers EXCEPT ![p].addr = addr]
  /\ UNCHANGED <<keys, rules, settings, network, pending, editing>>

Enroll(k, s) ==
  \/ EnrollNew(k, s)
  \/ \E p \in DOMAIN peers : peers[p].pub = k /\ reEnroll(p, s)

(* A static peer spends a setup key of its own, created already used up. *)
CreateStaticPeer(k, g) ==
  /\ ActiveAgent(g)
  /\ ~Registered(k)
  /\ \E s \in KeyIds, id \in PeerIds, addr \in [Families -> HostAddrs] :
       /\ NewKey(s, [revoked |-> FALSE, life |-> "never", max |-> 1, used |-> 1])
       /\ \A f \in Families : Allocates(f, addr[f])
       /\ NewPeer(id, [pub |-> k, kind |-> "static", addr |-> addr, key |-> s,
                       revoked |-> FALSE, advertise |-> FALSE,
                       exit |-> None, gateway |-> g])
  /\ UNCHANGED <<rules, settings, network, pending, editing>>

-----------------------------------------------------------------------------
(* Revocation and removal *)

RevokePeer(p) ==
  /\ ~peers[p].revoked
  /\ peers' = [peers EXCEPT ![p].revoked = TRUE]
  /\ UNCHANGED <<keys, rules, settings, network, pending, editing>>

(* Mutant: the exit reference outlives the exit node. *)
DetachedGatewayOnly(row, p) == [row EXCEPT !.gateway = IF @ = p THEN None ELSE @]

(* Foreign keys: ON DELETE SET NULL for the exit node and the gateway,      *)
(* ON DELETE CASCADE for the rules.                                         *)
Detached(row, p) ==
  [row EXCEPT !.exit = IF @ = p THEN None ELSE @,
              !.gateway = IF @ = p THEN None ELSE @]

NamesPeer(r, p) == rules[r].src = p \/ rules[r].dst = p

(* Mutant: rules are SET NULL, which turns them into wildcards. *)
RemovePeerWidening(p) ==
  /\ peers[p].revoked
  /\ peers' = [q \in DOMAIN peers \ {p} |-> Detached(peers[q], p)]
  /\ rules' = [r \in DOMAIN rules |->
                 [src |-> IF rules[r].src = p THEN None ELSE rules[r].src,
                  dst |-> IF rules[r].dst = p THEN None ELSE rules[r].dst]]
  /\ UNCHANGED <<keys, settings, network, pending, editing>>

(* Mutant: a peer that was not revoked can be removed. *)
RemoveAnyPeer(p) ==
  /\ peers' = [q \in DOMAIN peers \ {p} |-> Detached(peers[q], p)]
  /\ rules' = Delete(rules, {r \in DOMAIN rules : NamesPeer(r, p)})
  /\ UNCHANGED <<keys, settings, network, pending, editing>>

RemovePeer(p) ==
  /\ peers[p].revoked
  /\ peers' = [q \in DOMAIN peers \ {p} |-> Detached(peers[q], p)]
  /\ rules' = Delete(rules, {r \in DOMAIN rules : NamesPeer(r, p)})
  /\ UNCHANGED <<keys, settings, network, pending, editing>>

-----------------------------------------------------------------------------
(* Exit nodes *)

(* The agent's offer, repeated on every report and on enrollment. *)
SetAdvertiseExitNode(p, b) ==
  /\ peers[p].kind = "agent"
  /\ peers[p].advertise # b
  /\ peers' = [peers EXCEPT ![p].advertise = b]
  /\ UNCHANGED <<keys, rules, settings, network, pending, editing>>

ExitClients(p) == {q \in DOMAIN peers : ~peers[q].revoked /\ peers[q].exit = p}

(* Mutant: only the chosen exit is checked for a chain, not its new client. *)
MayExitThroughUnchecked(p, e) ==
  p # e /\ ActiveAgent(e) /\ peers[e].advertise /\ peers[e].exit = None

MayExitThrough(p, e) ==
  /\ p # e
  /\ ActiveAgent(e)
  /\ peers[e].advertise
  /\ peers[e].exit = None
  /\ ExitClients(p) = {}

SetExitNode(p, e) ==
  /\ ActiveAgent(p)
  /\ e # None => MayExitThrough(p, e)
  /\ peers' = [peers EXCEPT ![p].exit = e]
  /\ UNCHANGED <<keys, rules, settings, network, pending, editing>>

-----------------------------------------------------------------------------
(* ACL rules *)

(* A rule may name any existing peer, or NULL; not the same peer twice. *)
ValidRule(r) ==
  /\ {r.src, r.dst} \subseteq DOMAIN peers \cup {None}
  /\ r.src = r.dst => r.src = None

(* One transaction: optionally clear the table, then insert the n rules of  *)
(* the batch in order, or nothing at all when one of them is refused.  A    *)
(* single rule created in the UI is a batch of one.                         *)
ImportACLRules(n, batch, replace) ==
  LET kept == IF replace THEN {} ELSE DOMAIN rules IN
  /\ \A i \in 1..n : ValidRule(batch[i])
  /\ \E first \in 1..(MaxRules + 1) :
       LET added == first..(first + n - 1) IN
       /\ IsNextId(first, kept)
       /\ added \subseteq RuleIds
       /\ rules' = [i \in kept \cup added |->
                      IF i \in added THEN batch[i - first + 1] ELSE rules[i]]
  /\ UNCHANGED <<keys, peers, settings, network, pending, editing>>

DeleteACLRule(r) ==
  /\ rules' = Delete(rules, {r})
  /\ UNCHANGED <<keys, peers, settings, network, pending, editing>>

-----------------------------------------------------------------------------
(* Address edits *)

Validated(f, a) == IF Enabled(network[f]) THEN a \in Hosts(network[f]) ELSE a = 0

(* A request arrives for peer p and its IPv4 address is checked against the *)
(* network in memory. *)
BeginAddressUpdate(e, p, a) ==
  /\ Serving
  /\ editing[e] = NotEditing
  /\ Validated(4, a)
  /\ editing' = [editing EXCEPT ![e] =
       [id |-> p, addr |-> [NoAddr EXCEPT ![4] = a], checked |-> {4}]]
  /\ UNCHANGED <<keys, peers, rules, settings, network, pending>>

(* Then its IPv6 address, in a second read of the networks. *)
CheckAddress6(e, a) ==
  /\ editing[e] # NotEditing
  /\ 6 \in Families \ editing[e].checked
  /\ Validated(6, a)
  /\ editing' = [editing EXCEPT ![e].addr[6] = a, ![e].checked = Families]
  /\ UNCHANGED <<keys, peers, rules, settings, network, pending>>

AddressFree(p, f, a) == \A q \in DOMAIN peers \ {p} : a # 0 => peers[q].addr[f] # a

(* The transaction: both addresses must be free and the peer unrevoked. *)
UpdatePeerAddress(e) ==
  LET p == editing[e].id
      a == editing[e].addr
  IN
  /\ editing[e] # NotEditing
  /\ editing[e].checked = Families
  /\ peers' = IF Active(p) /\ \A f \in Families : AddressFree(p, f, a[f])
                THEN [peers EXCEPT ![p].addr = a]
                ELSE peers
  /\ editing' = [editing EXCEPT ![e] = NotEditing]
  /\ UNCHANGED <<keys, rules, settings, network, pending>>

-----------------------------------------------------------------------------
(* Network migration *)

(* Position of row p in id order, and the address the plan gives it. *)
Rank(p) == Cardinality({q \in DOMAIN peers : q <= p})
Renumbered(p, n) == n.lo + Rank(p)
HasRoom(n) == n.lo + Cardinality(DOMAIN peers) <= n.hi

(* The transaction: every row, revoked ones included, gets the next host of *)
(* the target in id order, and the settings name the target.                *)
ApplyNetworkMigration(m, target) ==
  /\ Serving
  /\ pending[m] = NoTarget
  /\ \A f \in Families : DOMAIN peers # {} => HasRoom(target[f])
  /\ peers' = [p \in DOMAIN peers |->
                 [peers[p] EXCEPT !.addr = [f \in Families |-> Renumbered(p, target[f])]]]
  /\ settings' = target
  /\ pending' = [pending EXCEPT ![m] = target]
  /\ UNCHANGED <<keys, rules, network, editing>>

(* The same request after its commit: memory follows the database. *)
setNetworks(m) ==
  /\ pending[m] # NoTarget
  /\ network' = pending[m]
  /\ pending' = [pending EXCEPT ![m] = NoTarget]
  /\ UNCHANGED <<keys, peers, rules, settings, editing>>

(* Mutant: the flags win over the stored network. *)
LoadFlags ==
  /\ settings' = [f \in Families |->
                    IF Enabled(settings[f]) THEN settings[f] ELSE Default[f]]
  /\ network' = Default
  /\ pending' = [m \in Migrators |-> NoTarget]
  /\ editing' = [e \in Editors |-> NotEditing]
  /\ UNCHANGED <<keys, peers, rules>>

(* The server stops, losing every request in progress, and starts again:    *)
(* stored networks win over the flags, missing ones are stored from them.   *)
LoadOrInitNetworkConfig ==
  /\ settings' = [f \in Families |->
                    IF Enabled(settings[f]) THEN settings[f] ELSE Default[f]]
  /\ network' = settings'
  /\ pending' = [m \in Migrators |-> NoTarget]
  /\ editing' = [e \in Editors |-> NotEditing]
  /\ UNCHANGED <<keys, peers, rules>>

-----------------------------------------------------------------------------
(* An empty database, opened by Open: IPv4 only until the server loads its  *)
(* network configuration.  Rows enrolled before that step are the rows of a *)
(* release that had no IPv6 overlay.                                        *)
Init ==
  /\ keys = [i \in {} |-> None]
  /\ peers = [i \in {} |-> None]
  /\ rules = [i \in {} |-> None]
  /\ settings = NoTarget
  /\ network = [NoTarget EXCEPT ![4] = Default[4]]
  /\ pending = [m \in Migrators |-> NoTarget]
  /\ editing = [e \in Editors |-> NotEditing]

KeyNext ==
  \/ \E max \in KeyLimits, life \in KeyLives : CreateNamedSetupKey(max, life)
  \/ \E s \in DOMAIN keys : KeyExpires(s) \/ RevokeSetupKey(s)

PeerNext ==
  \/ \E k \in PubKeys, s \in DOMAIN keys : Enroll(k, s)
  \/ \E k \in PubKeys, g \in DOMAIN peers : CreateStaticPeer(k, g)
  \/ \E p \in DOMAIN peers : RevokePeer(p) \/ RemovePeer(p)

PolicyNext ==
  \/ \E p \in DOMAIN peers, b \in BOOLEAN : SetAdvertiseExitNode(p, b)
  \/ \E p \in DOMAIN peers, e \in DOMAIN peers \cup {None} : SetExitNode(p, e)
  \/ \E n \in 0..MaxBatch, replace \in BOOLEAN :
       \E batch \in [1..n -> RuleRow] : ImportACLRules(n, batch, replace)
  \/ \E r \in DOMAIN rules : DeleteACLRule(r)

NetworkNext ==
  \/ \E e \in Editors, p \in PeerIds, a \in HostAddrs : BeginAddressUpdate(e, p, a)
  \/ \E e \in Editors, a \in HostAddrs : CheckAddress6(e, a)
  \/ \E e \in Editors : UpdatePeerAddress(e)
  \/ \E m \in Migrators, target \in Networks : ApplyNetworkMigration(m, target)
  \/ \E m \in Migrators : setNetworks(m)
  \/ LoadOrInitNetworkConfig

Next == KeyNext \/ PeerNext \/ PolicyNext \/ NetworkNext

Spec == Init /\ [][Next]_vars

-----------------------------------------------------------------------------
(* Properties *)

(* Every variable holds rows of its table's type, under ids in bounds. *)
TypeOK ==
  /\ DOMAIN keys \subseteq KeyIds /\ keys \in [DOMAIN keys -> KeyRow]
  /\ DOMAIN peers \subseteq PeerIds /\ peers \in [DOMAIN peers -> PeerRow]
  /\ DOMAIN rules \subseteq RuleIds /\ rules \in [DOMAIN rules -> RuleRow]
  /\ settings \in Networks \cup {NoTarget}
  /\ network \in [Families -> Prefixes \cup {NoNet}]
  /\ pending \in [Migrators -> Networks \cup {NoTarget}]
  /\ editing \in [Editors -> Edit]

(* No two rows hold the same address of a family, revoked rows included,    *)
(* whatever enrollments, backfills, edits validated earlier and migrations  *)
(* interleave ("invariant: one IP per peer", schema.sql).                   *)
AddressesUnique ==
  \A p, q \in DOMAIN peers, f \in Families :
    p # q /\ peers[p].addr[f] # 0 => peers[p].addr[f] # peers[q].addr[f]

(* What a row refers to exists and is of the right kind.  Ids are handed    *)
(* out again, so a reference that outlived its row would be inherited by    *)
(* the next peer to enroll: its exit traffic, its mobiles, its ACL rules.   *)
ReferencesLive ==
  /\ \A p \in DOMAIN peers :
       /\ peers[p].key \in DOMAIN keys
       /\ peers[p].exit # None =>
            /\ peers[p].exit \in DOMAIN peers \ {p}
            /\ peers[p].kind = "agent"
            /\ peers[peers[p].exit].kind = "agent"
       /\ peers[p].gateway # None =>
            /\ peers[p].gateway \in DOMAIN peers
            /\ peers[p].kind = "static"
            /\ peers[peers[p].gateway].kind = "agent"
  /\ \A r \in DOMAIN rules :
       /\ {rules[r].src, rules[r].dst} \subseteq DOMAIN peers \cup {None}
       /\ rules[r].src = rules[r].dst => rules[r].src = None

(* SetExitNode rejects chains: the exit of an active peer has no exit of    *)
(* its own, through every order of assignments, withdrawn offers,           *)
(* revocations and removals.                                                *)
NoExitChain ==
  \A p \in DOMAIN peers :
    ~peers[p].revoked /\ peers[p].exit # None => peers[peers[p].exit].exit = None

(* A key is spent in the step that creates its peer and in no other, never  *)
(* beyond its limit, after its expiry or its revocation: "failure before    *)
(* COMMIT leaves the key unspent", and a retried enrollment spends nothing. *)
KeySpentWithPeer ==
  [][\A s \in DOMAIN keys :
       LET born == {p \in DOMAIN peers' \ DOMAIN peers : peers'[p].key = s}
       IN  /\ keys'[s].used = keys[s].used + Cardinality(born)
           /\ born # {} => ~keys[s].revoked /\ keys[s].life # "expired"
           /\ keys'[s].max # 0 => keys'[s].used <= keys'[s].max]_vars

(* Every address is a host address of the stored overlay, once no migration *)
(* is between its commit and its publication.  allocateIP "returns the      *)
(* lowest free IPv4 host address in the overlay".                           *)
InsideOverlay ==
  (\A m \in Migrators : pending[m] = NoTarget) =>
    \A p \in DOMAIN peers, f \in Families :
      peers[p].addr[f] # 0 /\ Enabled(settings[f]) =>
        peers[p].addr[f] \in Hosts(settings[f])

(* Between migrations the allocator works in the network the database names, *)
(* across restarts: neither a crash before the publication nor different     *)
(* flags on the next start leaves memory and database apart.                 *)
MemoryFollowsSettings ==
  (\A m \in Migrators : pending[m] = NoTarget) /\ settings # NoTarget =>
    network = settings

(* The rows as holders of addresses, the revoked ones as retired, and the   *)
(* migrations that have not published their target as renumberings.         *)
Held == [p \in DOMAIN peers |-> peers[p].addr]
Retired == {p \in DOMAIN peers : peers[p].revoked}
Renumbering == {m \in Migrators : pending[m] # NoTarget}

Pool == INSTANCE AddressPool WITH
          Holders <- PeerIds, Renumberers <- Migrators,
          held <- Held, retired <- Retired, renumbering <- Renumbering

(* Seen through its rows, the store is an address pool: whatever requests,  *)
(* migrations and restarts do, every step of the peers table is one of the  *)
(* pool's.  So an address that a row holds is given to no other one before  *)
(* the row gives it up, and a row gives it up in three ways only: it was    *)
(* revoked and is removed, it is not revoked and its own address is edited  *)
(* (UpdatePeerAddress), or a migration renumbers every row in order.        *)
ImplementsPool == Pool!Spec

(* Those three ways, as a property of the store's steps: no enrollment,     *)
(* edit or removal takes an address from a row it is not about, and a       *)
(* revoked row keeps its addresses until it is removed or renumbered.       *)
AddressesReleased == [][Pool!ReleasedInOrder]_vars

=============================================================================
