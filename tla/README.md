# wgmesh: a TLA+ verification project

wgmesh runs WireGuard meshes: a **control plane** (`cmd/server` on an SQLite store,
`internal/store`) enrolls **agents** (`cmd/agent`), hands each of them the list of
peers it may talk to, and helps pairs that cannot reach each other directly: it
coordinates hole punching and provides **relays** (`internal/relay`, `cmd/relay`,
and WebSocket and QUIC relays inside the server). This directory models the parts
whose correctness depends on the order in which things happen, checks them with TLC
on small instances, and proves the central invariants with TLAPS.

## The system and how its parts interact

* An operator creates **setup keys**. An agent **enrolls** with one: the store spends
  the key, allocates overlay addresses and inserts the peer, in one transaction.
  Phones and other plain WireGuard clients are **static peers** ("mobiles"), created
  by the operator and pinned to a **gateway** agent that forwards for them.
* **ACL rules** and the default policy decide who sees whom. An agent may offer to be
  an **exit node** and an operator may assign it to others. The operator can edit a
  peer's address and **migrate** the whole overlay to another network.
* Every 30 s an agent **reports** its counters and the state of its paths. The answer
  is the peer list of that moment, and the agent reconciles its WireGuard device with
  it. A **signal** socket makes an agent report early.
* An agent that has not heard from a peer for a while moves it to a **relay**, and
  from there **probes** candidate addresses for a direct path. The control plane
  gives pairs that are stuck on a relay a numbered **punch epoch**, which makes both
  sides probe at once.
* An agent also works on its **host**: it takes over the resolver, opens ports on the
  firewall and on the home router, and sets routes, NAT and filter rules. It must give
  all of this back, also after it was killed.
* Around this: telemetry, dashboard accounts, DNS settings, secrets and certificate.

`PROJECT.json` lists all parts under `components`, the ones not modelled included.

## Modules

| module | models | state |
|---|---|---|
| `Registry` | `internal/store`: setup keys, enrollment, static peers, revocation, removal, exit nodes, ACL rules, address edits, network migration, restart | the tables `keys`, `peers`, `rules`, `settings`; the networks in memory (`network`); requests between two steps (`pending`, `editing`) |
| `AddressPool` | nothing of the code: the abstract specification of what the store promises about addresses | who holds what (`held`), who only waits to leave (`retired`), renumberings that are not over |
| `SyncPayload` | `listVisible` and `buildPeerEntries`: what an agent is told, as operators over a registry state | none of its own; extends `Registry` |
| `AgentPath` | `relay.go`, `sync.go` and the reporter's loop, for one peer of one agent | the reporter's maps at that peer (`t`), the device's view (`dev`), the stage of `syncOnce` (`pc`) |
| `Punch` | report handlers of the server, their punch epochs, and the two agents of a pair | `pair`, `handler`, `age` on the server; `path`, `seen`, `waiting` on the agents |
| `UdpRelay` | the UDP forwarder of `internal/relay`, the requests for its port pairs, and the agents that send through it | `pairs` on the relay, `side` on the agents, `net` between them |
| `WSHub` | the hub of the WebSocket and QUIC relays and the handlers of its connections | `pairs`, and per connection where its handler is (`conn`) |
| `RelayedPair` | two agents with the automatic transport, composed with `WSHub` | adds `proxy` and `quicUnavailable` of each agent |
| `QuicFragments` | a packet cut into QUIC datagrams and put together again (`relayquic.go`) | sender's `nextId`, `datagrams` on their way, receiver's `assemblies` |
| `SignalHub` | the signal sessions of one agent, their handlers, broadcasts (`signal.go` of server and agent) | the hub's entry `client`, per session where its handler is, the agent's `conn` |
| `ConfigSync` | the way of a change from an admin handler to a running agent | the database and the server's copy of the network, by version; per report how far its answer is read; what the agent has `applied` |
| `Candidates` | what endpoints an agent finds and reports, what is kept and how it is ranked for the other side | `host`, the stored `peerRow`, the relay's view `leg` |
| `Telemetry` | collection of counters, path states and proxy lines, their delivery, and `ApplyReport` | the kernel's counters, the agent's deltas and queue, reports in `flight`, the tables |
| `Accounts` | `users.go` and the sessions of `ui.go` | `users`, and per browser its request and its `cookie` |
| `Schema` | `ensureSchema`, the base schema and the migrations up to version 18 | `objects` of the database, `user_version`, the statement that comes next |
| `DnsSettings` | `internal/store/dns.go` | the rows of the settings table |
| `RateLimiter` | `internal/httpx/ratelimit.go` | `buckets` |
| `SecretFiles` | how secrets and certificate get into their files and back | `disk`, where the start is (`at`), `mem` |
| `ResolvConf`, `HostFirewall`, `HostRules`, `PortMapper` | what the agent does to its host: the resolver, the firewall, routes and rules, the router | the files, rules and leases of the host |
| `AgentHost` | the agent process that uses those four, as two goroutines: runner and reporter | per goroutine the operation under way, its commands to come and what it believes to be installed |
| `Subsequence` | nothing of the code: what a sequence keeps when elements are left out, for `ResolvConf` and `SelfAddress` | none |
| `SelfAddress` | `applySelfAssignment` and `replaceIPAddress` | the interface's addresses, the reporter's own, the calls to come |
| `NatCheck` | the periodic NAT check and the refresh of the IPv6 endpoint | what surrounds the host, what the reporter holds, the check under way, answers in flight |
| `RegistryProofs` | theorems on the registry, the address pool and the payloads | |
| `WSHubProofs`, `TransportProofs` | theorems on the hub; on the UDP relay and on QUIC fragments | |
| `ControlPlaneProofs`, `TelemetryProofs` | theorems on rate limiter, secrets, signal hub, accounts, punch epochs; on traffic counters and event tables | |
| `AgentProofs` | theorems on paths, configuration, NAT checks, the agent's own address | |
| `HostProofs`, `AgentHostProofs` | lemmas on single operations and commands on the host; theorems on port mappings and host rules | |
| `MC...` | finite instances for TLC | |

Definitions keep the names of the functions they translate, and `map` in
`PROJECT.json` gives the lines of each. Operators with "Mutant" in their comment are
deliberately wrong variants of the one that follows; they show that a property notices.

**Registry.** Every write transaction of the store is `BEGIN IMMEDIATE`, hence one
step. What is not one step is modelled as several: `UpdatePeerAddress` validates
each family against the networks in memory (`BeginAddressUpdate`, `CheckAddress6`)
before its transaction, and `ApplyNetworkMigration` commits before `setNetworks`
publishes. Row ids are handed out again after the newest row is removed, as SQLite
does without AUTOINCREMENT; this makes stale references dangerous, and
`ReferencesLive` is about it. A prefix is an interval of integers. Columns that no
property tells apart are left out. A refused request is not a step.

**SyncPayload** is a pure function of one registry state. Its properties relate the
lists of *different* agents, which no single list can show.

**AgentPath.** Time is a tick; a timestamp is kept as its age and capped at the
largest value it is compared with. `syncOnce` is three steps (`collectLinkCounters`,
the exchange with the server, `checkHandshakes`), as packets arrive and proxies die
between them. Device errors, refused endpoints, lost answers and answers without
the peer are all there. The relay is seen only as a session that lives or dies.

**Punch** has the agent of `AgentPath` reduced to four path states, and the report
handler of the server as its three steps (store, coordinate, build the answer),
which interleave with the handler of the other side.

**UdpRelay.** Handling one datagram is one step: a leg's address is written by its own
goroutine only. Datagrams wait in `net` and are delivered late, more than once, or
never, also after the ports they were sent to have been given to another pair.
`current` marks an agent whose ports still belong to the session it was told of.

**WSHub.** The hub's mutex makes `join`, `leave` and `peer` one step each; reading and
writing a frame are steps between which everything else may happen. Among that is a
replaced handler that writes beside its successor, which gorilla/websocket answers
with a panic (`WritePanics`). `RelayedPair` runs a pair's entry in the QUIC hub and
the one in the WebSocket hub as two pair ids of one hub, as the two never interact.

**AgentHost.** An operation (an apply, a restore, a clean-up) reads the host when it
begins and becomes the sequence of commands it will run; each command is a step, fails
or succeeds, and the process can be killed before any. `cut` remembers the few
interruptions the code has no answer to; the properties name them as exceptions, and
the run stops following a host once it is damaged by one. The reporter is a second
goroutine, whose syncs go on while the runner stops.

**Telemetry, ConfigSync, Accounts, SignalHub.** A handler is as many steps as it has
reads and writes outside one transaction or one lock. A report the agent has given up
may still be stored, and answers are lost. In `ConfigSync` a piece of configuration is
the number of changes it has seen, so "older" is a comparison.

**NatCheck.** Only the periodic check is followed step by step; the discovery at the
start gives the initial values. The NAT is external: a cone NAT maps a socket to one
port for both STUN ports, a symmetric one to two.

**SelfAddress.** The kernel is external: it refuses to add what is there, and, unless
`promote_secondaries` is set, removes secondary addresses with their primary.

## What the runs check

| run | question | bounds |
|---|---|---|
| `policy_deny` | With default deny, do references stay live, exits unchained, links mutual between the lists of all agents, and is visibility never widened by a step that grants none? | 3 peers, 4 enrollments with one key and a mobile with its own, 1 rule, 1 network |
| `registry` | With default allow: are keys that are limited, expire and are revoked spent exactly with the peers they admit; is every visible mobile routed; do memory and database agree across migrations and crashes before the publication; and is every step one of the abstract pool's, in which an address has one holder, and is free for another only once a revoked holder is removed, a live one is moved, or all are renumbered? | 3 peers under policy, 2 peers and 2 keys of limits 0 and 1 for keys, 2 agents, both families, networks of 3, 2 and 1 hosts, 1 migration and 1 edit (of the first row) in flight for addresses |
| `path_safety` | Is a relay kept for each probe, is a hold-down respected, does the candidate rotation stay in bounds? | transport auto, lists of 0, 1 and 2 candidates, 1 epoch |
| `path_fair` | Is a silent peer relayed, does a probe end, is a relayed peer probed again? | transport websocket, 1 candidate |
| `punch_lossy` | Does an epoch reach both sides whatever answers are lost? | 2 epochs, cap 1 |
| `relayed_pair` | Is a connection that is being served the one its member is reached by, while agents reconnect faster than old handlers leave, and do proxies on one transport meet? | 2 agents, 3 connections at a time |
| `udp_relay` | Are the two sides of a pair on one session and no port in two, and is a roaming peer found again, while ports change hands? | 2 pairs for 2 ports, an agent in both, 1 fresh datagram beside old ones |
| `control_plane` | Questions about twelve parts that share no state; see below | see below |
| `agent_host` | Questions about one agent and its host, in four parts; see below | see below |

`control_plane` and `agent_host` hold several parts, one per behaviour: a variable fixed
at the start says which, and the others stand still. It is a union of state spaces, not
a product, and each part is explored in full.

| part of `control_plane` | question | bounds |
|---|---|---|
| punch | Is an issued epoch new to both sides and within the cap of attempts (`BumpIsNews`)? | 2 epochs, cap 1, no restart of the server before |
| hub | Is the session an agent listens on the one that is broadcast to (`NoDeafSession`)? | 3 sessions, 1 broadcaster |
| traffic, way, proxy | Is traffic counted once and not forgotten (`TrafficAccounted`), are connection events changes of path and proxy lines stored once and in order (`EventsFaithful`)? | 3 stimuli, 1 fault, 2 reports on their way |
| accounts | Does a password change end the sessions before it (`SessionsCurrent`)? | 2 names, 2 browsers, 3 accounts, 1 change each |
| schema | Does every released version upgrade, and is a half-migrated database never served (`UpgradeSafe`)? | all versions, kills anywhere |
| dns | Do stored settings survive restarts with other flags (`RestartKeepsSettings`)? | lists of up to 2, names of four and servers of three kinds |
| candidates | Is a pinned endpoint offered first whatever is cut off, and do hairpin paths come last (`OffersRanked`)? | hosts with 0, 4 and 8 interface addresses, the real caps |
| limit | Does dropping idle buckets give nothing away (`NoExtraTokens`)? | 2 sources, burst 4 |
| quic | Are packets never put together from parts of different ones (`PacketsWhole`)? | 3 packets, 3 ids, 2 assemblies |
| secrets | Is the control plane always up with the same secrets and certificate (`SecretsStable`)? | 6 secrets drawn |

| part of `agent_host` | question | bounds |
|---|---|---|
| host | Is what the host last wrote to its resolver file kept through takeovers, rewrites and kills, behind mesh DNS, and back at the next start (`OriginalKept`), are holes recorded and closed (`HolesAccounted`), endpoints advertised only while mapped (`ExternalIsMapped`), exit rules tracked and in order (`RulesTracked`), and gone at the next start (`StartsClean`)? | 8 kinds of agent, all 4 firewalls, 2 ports, 2 networks, 2 resolver files the host writes |
| config | Does no sync take the agent back (`NeverBackwards`), and does the last change arrive (`ChangesArrive`)? | 2 administrators, 2 changes, 1 restart |
| address | Does a moved agent always have an address (`NeverUnaddressed`), and in the end exactly the assigned ones (`AddressAdopted`)? | 3 changes among 9 assignments |
| nat | Is a symmetric NAT never called easy (`EasyIsCone`), and does the agent end up with what is around it (`EndpointFollows`)? | 3 surroundings, 2 moves, 1 loss |

Three runs show that the code does something else than a comment or document says;
their counterexamples are the `findings` of `PROJECT.json`:

* `migration_window`: an enrollment between the commit of a migration and the
  publication of its networks gets, and keeps, an address of the old network.
* `path_hint`: a relayed peer that never completed a handshake is moved off its
  relay by the next peer list.
* `relay_meet`: an agent that has fallen back to WebSocket and a partner that has not
  wait for each other in different hubs, with proxies that both look alive.

### Exceptions the properties name

Met on the way and not kept as runs. Where a property would fail because of one, it
names it as an exception.

* Registry: revoking a gateway does not detach its mobiles, only removing it does
  (`store.go:310`). Under default deny a rule between an agent and a mobile gives no
  route unless the gateway is visible too (`cmd/server/main.go:1214`);
  `VisibleMobileRouted` is therefore checked under default allow.
* Two migrations at once can publish in another order than they committed, and leave
  the server's copies behind the database until a restart (`crossed`).
* Punch: epochs start over after a restart of the server (`report.go:252`). The
  cool-downs are 4 and 8 minutes where the comment says "2m, 4m, 8m"
  (`report.go:236`). A side without any working path also reports "direct" and so
  re-arms the budget its relayed partner is spending (`report.go:134`).
* Paths: a probe can be promoted by the bytes of the handshake that confirmed it
  (`cmd/agent/relay.go:373`). An agent on the UDP relay is not told when its pair
  expires or the relay restarts and does not ask again (`cmd/agent/relay.go:208`), so
  `RoamingConverges` speaks of agents whose session still exists. Behind one NAT, a
  reported "lan" endpoint that equals the shared public address ranks above IPv6.
* QUIC: incomplete packets never expire, so a reused id can mix old and new fragments;
  WireGuard rejects the result (`again`).
* Telemetry: a report stored without the agent hearing of it is counted twice
  (`past.repeated`), as are the flows of an agent that restarts; a counter that was
  reset and has outgrown its old value is undercounted.
* Accounts: a cookie made by a sign-in that began before a password change stays valid
  (`late`); ids of deleted accounts are handed out again.
* DNS settings: a list an operator cleared is filled from the flags at the next start.
* Schema: a migration that was killed half-way is refused at every later start
  (`halfway`).
* Secrets: the files are written without a sync to disk; `SecretFiles` ends processes,
  not the power of the machine. A start that finds one of certificate and key refuses, where the comment
  of `LoadOrGenerateCert` speaks of generating "if either file is missing".
* Resolver: a write that is cut off leaves a file that the next takeover keeps as the
  original, and what the host writes between the agent's reading and its writing is
  lost; settings disabled before the first enabled ones are passed over; when
  systemd-resolved comes up later, the takeover stays until the agent stops; up to
  four nameservers are written when three are pushed.
* Firewall: a port opened and not yet recorded is forgotten by a kill, a failed
  removal clears the record, and a change of firewall leaves the holes of the old one.
* Host rules: the runner's gateway forwarding is not handed to the reporter, a partly
  failed set-up of gateway NAT or MSS clamp is not undone, and ACL chains stay at a
  stop. An agent whose reporter cannot be made goes on without one (`runner.go:549`)
  and keeps the exit roles of its start until the next one. A jump to the ACL chain that
  cannot be inserted is passed over (`acl_linux.go:115`). A sync still running at shutdown applies after the runner's restore; when the
  two are on resolv.conf at once, nothing is claimed of the file.
* Port mapping: a failed renewal forgets how to unmap; the lease then runs out. A router
  that grants a shorter lease than asked for is not noticed (`portmap.go:276`).
* Own address: after a failed removal of the old address every later sync ends where
  the new one is added again (`stuck`), before peers and DNS are applied. Without
  `promote_secondaries` a move within a subnet loses the new address (`swept`).
* NAT check: the IPv6 endpoint is neither refreshed nor withdrawn while the IPv4
  check fails, so `EndpointFollows` assumes that losses end.

**Why the bounds are enough.** Three peers are an agent, its exit or gateway, and a
third party or mobile, which is what a chain or a routed mobile takes; the theorems
cover any number. Ids
are reused within the bounds, so a removed and replaced peer occurs. The networks
include one that is exactly full and one that is too small. The times of `AgentPath`
keep the order of the real ones (fast dwell < dwell, probation < its timeout) and are
long enough that each wait can be interrupted. Three connections are an agent's old
and new one and its partner's. Two pairs on two ports make every allocation of one
depend on the expiry of the other. `SYMMETRY` is over public keys and
over the two agents of a pair, in runs without liveness properties.
`MCRegistry` explores policy, keys and addresses separately, as their actions touch
disjoint columns. Three signal sessions are an old one, its
successor and one that displaces it while the first still ends. The caps on candidates
are the code's. Six draws are more than the five files, so that files are generated
again after a refusal. Four ticks of `natCheckEvery` let a check outlast its period.
`CHECK_DEADLOCK FALSE` is used where a bounded part is used up (all ids handed out, all
changes made, nothing left to do).

**Fairness.** `AgentPath`: the tickers never stop (weak fairness of time and of the
failing report, which ends with its timeout); strong fairness says that a device, a
control plane and a relay that fail do not fail for ever. `Punch`: agents keep
reporting, handlers run to their end, and again and again one finishes before its
agent has given up. Nothing is assumed of the paths themselves. `RelayedPair`: the
handlers of the server run on, writes return, and `checkHandshakes` keeps running;
nothing is assumed of the connections. `UdpRelay`: WireGuard keeps re-handshaking, a
handshake from the present address arrives again and again, and no datagram is on its
way for ever; this for the one watched peer, and nothing of the others. `agent_host`: admin handlers and reports come to an end, and again and again a report
of the ticker succeeds (strong, as any one may fail); the reporter keeps syncing and a
call on the interface does not fail for ever; ticks and NAT checks go on, and answers
that are not lost arrive. Losses of STUN answers are bounded instead of excluded by
strong fairness: one lost answer may withdraw the IPv6 endpoint again, so nothing
settles while losses go on.

## What is proved

For every value of the constants (public keys, families, networks, requests in flight,
connections, sessions, administrators, rates, times, bounds), with the exceptions the
properties name:

| theorem | states |
|---|---|
| `TypeCorrect` | `TypeOK` of the registry |
| `AddressesStayUnique` | no two peers hold the same address |
| `ReferencesStayLive` | every reference names an existing row of the right kind |
| `ExitsNeverChain` | the exit of an active peer has no exit |
| `KeysAreSpentWithPeers` | the uses of a key grow by the peers a step adds with it, never past its limit, its expiry or its revocation |
| `MemoryIsCurrent` | memory and database name the same networks between migrations, if no two migrations are between commit and publication (`OneMigration`) |
| `RegistryImplementsPool` | the store implements `AddressPool` (`Spec => Pool!Spec`): one holder per address, through enrollments, edits, removals and migrations |
| `AddressesAreReleasedInOrder` | a row gives up an address only by being removed after it was revoked, by an edit of its own while it is not, or in a migration |
| `LinksStayMutual` | two agents configure each other or neither does; an exit in use masquerades |
| `RoutedMobilesAreForwarded` | a gateway has, and forwards for, every mobile routed through it |
| `AllowedIPsStayDisjoint` | the entries of a peer list never claim the same address |
| `MobilesAreRouted` | under default allow, whoever sees a mobile behind an active gateway has a route to it |
| `VisibilityIsGranted` | two peers start to see each other only by an edit of rules or an exit assignment between them |
| `ServedStaysReachable` | an open connection being served is the one its member is reached by |
| `ListedStaysServed` | an entry of the hub belongs to a handler that joined and has not left |
| `FramesAlwaysCross` | a frame only goes to the other member of its pair |
| `RelayedPairUsesHub` | two agents choosing their transports only take steps of the hub (`RelaySpec => Spec`), so the three above hold of them |
| `NoSessionIsDeaf` | an agent's open session is the one broadcast to, or about to be closed |
| `EvictionGivesNothing` | a source passes no more requests than one bucket kept for ever would allow |
| `SecretsStayStable` | the control plane is up with one set of secrets and certificate only |
| `PairsStayMatched` | a complete certificate is beside its own key |
| `AcceptedSessionsAreCurrent` | an accepted session was opened with the account's present password |
| `EpochsAreNews` | an issued punch epoch is newer than any an agent has seen, and attempts stay within the cap |
| `TrafficIsAccounted` | traffic is stored at most once and none is forgotten |
| `EventsAreFaithful` | no proxy line is stored twice; unless a late report was stored after a younger one, lines are in order and connection events are no more than changes of path |
| `SidesMeet` | the two sides of a relayed pair are on the two legs of one session, and no port is in two |
| `PacketsStayWhole` | a packet handed to WireGuard is made of the fragments of one packet |
| `ProbesKeepTheirRelay` | a probe has a relay to return to and an index inside its candidates |
| `HoldDownIsQuiet` | no probe is under way during a hold-down |
| `ConfigurationNeverGoesBack` | no sync replaces a piece of configuration by an older one |
| `OnlyConesAreEasy` | a NAT is called easy only if a cone was there during the check |
| `AlwaysAddressed` | an agent that changes its address is never without one, unless the kernel took the new one along with the old |
| `ExternalStaysMapped` | a router endpoint is advertised only while its lease lasts |
| `RulesAreTracked` | between syncs the reporter knows of all exit state on the host, the exit jump is first in FORWARD, and a jump to the ACL chain leads to a filled one |
| `StartIsClean` | a start that gets to the control plane has removed the exit rules of every earlier run |

Some of these invariants (`TypeOK` of the registry, `AddressesUnique`,
`RoutedMobileIsForwarded`, `AllowedIPsDisjoint`, `ListedIsServed`, `FramesCross`,
`PairMatches`, `AddressesReleased`) are not repeated in a run, as the theorem says more. The others are
checked by the runs as well.

The argument is an invariant in layers. `TypeOK` is inductive alone. `AddressesUnique`
is inductive given `TypeOK`: allocation takes an address outside `Used`, an edit
re-checks inside its transaction, and a migration numbers rows by `Rank`, which is
injective on ids (`RankFacts`, the one place that needs cardinalities).
`ReferencesLive` is inductive given `TypeOK`, as a fresh id (`NextIdIsFresh`) is never
one that is referred to and removal detaches what it removes. `NoExitChain` needs both:
an assignment is checked in both directions, and a revoked client that keeps its exit
is not revived. The payload theorems are not inductive arguments: they follow in each
state from `Consistent` (the three invariants together) and the symmetry of `Sees`
among agents. Assumptions: `FamiliesAssumption`, `NetworksAssumption` (a network is an
interval with a non-zero address) and `BoundsAssumption`, evaluated by TLC in every
registry run.

The hub's invariant is `HubInv`: `HubTypeOK` and the three properties together.
`ListedIsServed` carries the others: `join` closes the connection it replaces, so that
one must be a live one, and `peer` returns an entry, which must belong to the other
member for `FramesCross`. It is kept because a handler takes its own entry along when
it leaves. `ServedIsReachable` is kept because `join` closes what it replaces and
`leave` removes only its own entry (`StillOurs`). Steps that leave the table alone go through one lemma (`TableUnchanged`);
`join` and `leave` have one each. `RelayedPairUsesHub` needs only that a proxy's
connection is one of `Conns` (`ProxiesTyped`). Assumptions: `ConnAssumption` and, for
the two agents, `PairAssumption`, both evaluated in the `relayed_pair` run.

`RegistryImplementsPool` maps rows to holders (`Held`, `Retired`, `Renumbering`). Each
action that writes an address, a revocation or a request has a lemma that names the
pool step it is; all others stutter (`PoolStutters`). It rests on `AddressesUnique` in
the next state, which is why the pool may demand one holder per address, and on `Rank`
being increasing for the order of a renumbering. `AddressesAreReleasedInOrder` is then a
fact about the steps of the pool (`PoolReleases`): an address that an operator's edit
takes from a live row is free for any other row from the next step on.

The signal hub's invariant adds to `NoDeafSession` that a session never displaces
itself: it was not registered when it read the map. For the rate limiter, `Covered`
relates a bucket to one that is never dropped, which has at least its tokens and has
been refilled for as long as the bucket has been idle; `RefillAssumption` (an idle
bucket is full before it is dropped) makes a fresh one no gift. It holds of the default
flags (20 per second, burst 40, ten minutes) and is evaluated in `control_plane`. `SecretInv` says that behind the
start memory and disk agree, that what was ever used is what is on disk and complete,
and that no complete file is ever blamed, so that the operator is never told to delete
one. `SyncInv` says that at most one report is under way (`syncMu`) and that each piece
an answer has lies between what is applied and what the server has now (`Between`);
this survives changes, since they only make pieces newer.

`KeysAreSpentWithPeers` strengthens the property by `WithinLimit`. An enrollment adds
one peer under a fresh id and spends its key once; a static peer brings a key that
exists, already spent, from the same step on; no other step adds a peer or spends a
key (`NothingSpent`). `MemoryIsCurrent` says with `MemoryInv` that a migration which
has committed is about to publish what the database names. That is false once two
have committed and not published, so the theorem assumes `[]OneMigration` and says
nothing of two at once; the code really leaves memory behind there (see the
exceptions). `VisibilityIsGranted` is a fact about one step: a new peer is seen, but by
nobody from before it, and what a removal detaches only takes clauses of `Sees` away.
`MobilesAreRouted` holds in each `Consistent` state: under default allow who sees a
mobile sees its gateway, whose entry carries the mobile's address.

`AccountsInv`: password and session epoch change together, and a cookie that is not
late has the epoch that belongs to the password it was opened with. `PunchInv`: in the
first life of the server neither an agent nor an answer on its way is ahead of the
server's epoch. `TelemetryInv`: `Balance` (stored, held by the agent, and counted by
the kernel since the last collection) is compared with what passed, in both directions;
at most one report is awaited and it carries exactly what the agent holds, so that
storing it, losing it and giving it up move bytes without making any. `RelayInv`: live
sessions have ports of their own, and a side that counts on its session has the port of
its leg, although ports are handed out again. `QuicInv`: until an id is reused too
early, all that is about under an id, on its way or kept, is of one packet. `Kept`: a
peer is relayed exactly while it has a session, a hold-down begins with a relay and is
over before a probe begins. `NatInv`: behind a NAT that was symmetric throughout, an
answer tells the port that was asked, so an answer that comes twice is not mistaken for
the other port's. `MapInv`: the renewal comes before the lease is over. `AddrInv`: a
removal of an IPv4 address that is still to come follows right after the addition of
another one, or another one is there. Assumptions: `PathConstants`, `PairAssumption` of
`Punch`, `RelayAssumption`, `IdAssumption`, `AssignmentAssumption` (an agent is
always assigned an IPv4 address), `PortsAssumption`, `QueueAssumption` and
`LeaseAssumption` (a lease outlasts its renewal), all evaluated by TLC.

`EventsInv` has two halves. Lines: those in the queue, in each report on its way and in
the table are apart, and in this order, until a report is overtaken. Path events: a
time stamp can be given to every report on its way and to the last one stored
(`Stampable`), counted in changes of path, such that reports with one stamp tell one
path and stamps only grow. A stored report then adds an event only if its stamp is
larger than the last, so there are at most as many as stamps. The code keeps no such
stamps: the invariant says only that they exist.

`RulesInv` says of each goroutine what its commands to come and the host make together,
as the property itself holds only between operations. `RuleOrder`: in an operation,
each command that adds something comes before the flag that records it or the command
that completes it, which is the last. `ExitTracked`: what is installed is recorded in
the flags, or the flag is set at the end; and a flag is cleared only behind the commands
that remove everything it stands for. `JumpFirst`: a jump put into FORWARD is followed by
a look at the exit jump, in this operation or a later one of the same start or sync;
this is where the order of `run` and `applySync` counts. `DenyFilled`: the ACL chain
behind a jump is filled or will be. `Clearing`: the cleanup of a start has a
removal for whatever an earlier run left, and in `StartAt` the progress of the start
says which of these hold already. A kill empties the commands and leaves the rules: then
nothing is claimed until the next start has cleaned up, which is why `StartsClean` is
needed for `RulesTracked`. Each command has a lemma for each of these predicates
(`DoTracked`, `DoJump`, `DoDeny`, `DoClear`), each plan one that it is in order
(`PlanGood`), an error one that what is left of the plan changes no rule (`LightSwap`).

Only model-checked, and why:

* Every liveness property: fairness and `ENABLED` are out of the prover's reach.
* `OffersRanked`, `RestartKeepsSettings`: what a sort, a fold or a filter of a list
  computes for every list is an induction over data.
* `OriginalKept`, `HolesAccounted`: the plan of such an operation depends on what it reads
  (the resolver's file and its backup, the record of open ports), and two goroutines, or
  a kill and the next start, work on the same files. The invariant would have to say of
  each file what every rest of every plan makes of it, beside what `RulesInv` says.
* `UpgradeSafe`: one finite list of migrations, which TLC explores in full.
* `VisibleMobileRouted` under default deny and `InsideOverlay`: they do not hold (see
  the exceptions and `migration_window`).

## Not modelled

* Cryptography (derivation of pair keys, sealing, password hashes, signatures), token
  and cookie formats, TLS and ACME: primitives, or thin layers over libraries.
* Packet formats of STUN and WireGuard beyond what decides acceptance.
* Presentation: dashboard, desktop client, status output, generated configuration
  files of mobiles, read-only listings and their filters.
* Retention of telemetry and the append-only audit log: independent statements without
  an interleaving that matters.
* The Windows counterparts of the Linux files: the model follows the Linux build.
* Relays without a port range, the shared secret of a standalone relay, the agent's key
  file, flags and saved settings, and the retry loop of enrollment.
* `handleReport` composed with the registry, where an id could be handed out again
  between two of its reads: both exist, but their product is too large for TLC.
* Captures of flows: conntrack and packet capture appear as counters of one flow.
