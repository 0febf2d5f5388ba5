------------------------------ MODULE NatCheck ------------------------------
(***************************************************************************)
(* The periodic check of the NAT in front of an agent (maybeNATCheck and    *)
(* refreshV6Endpoint in cmd/agent/telemetry.go, checkNAT in stun.go) against *)
(* the mesh's pair of STUN ports (internal/relay/stun.go): one socket asks  *)
(* one port after the other and compares the two mappings it is told.       *)
(* Datagrams are lost, delayed and duplicated, and the host's surroundings  *)
(* change at any moment.                                                    *)
(***************************************************************************)
EXTENDS Integers

CONSTANTS
  Surroundings,   \* records [wan, kind, v6]: public address, "cone" or
                  \* "symmetric", global IPv6 address or NoHost
  natCheckEvery,  \* report ticks from one check to the next
  MaxMoves,       \* bound on changes of surroundings
  MaxLosses       \* bound on queries without an answer in time

VARIABLES
  nat,      \* what is around the host
  opts,     \* its flags: pinned (--advertise-endpoint), stun (--stun), noIPv6
  told,     \* the number of mesh STUN ports applySync has learned
  rep,      \* publicEndpoint and publicEndpoint6 (hosts of), natType, natTick;
            \* history: the kinds of NAT there were during the check that set natType
  check,    \* the goroutine of a check, at "idle" when natBusy is false;
            \* history: the kinds of NAT there have been since it began
  inflight, \* answers on their way to the check's socket
  moves,    \* history: changes of surroundings
  losses    \* history: queries without an answer in time

natVars == <<nat, opts, told, rep, check, inflight, moves, losses>>

NoHost == "none"
NotChecking == [at |-> "idle", ports |-> 0, first |-> NoHost, type |-> "", kinds |-> {}]

(* The mesh's ports, or --stun as the only one. *)
Servers == IF told > 0 THEN told ELSE IF opts.stun THEN 1 ELSE 0

(* What the NAT maps the socket to towards a port of the STUN server: the   *)
(* same for every one, or another for each.                                 *)
Mapping(port) == <<nat.wan, IF nat.kind = "cone" THEN 0 ELSE port>>

(* A tick of the reporter.  natTick only matters modulo natCheckEvery. *)
maybeNATCheck ==
  LET begins == rep.tick = 0 /\ check.at = "idle" /\ Servers > 0 IN
  /\ IF opts.pinned THEN UNCHANGED <<rep, check>>
     ELSE /\ rep' = [rep EXCEPT !.tick = (@ + 1) % natCheckEvery]
          /\ check' = IF begins
                        THEN [NotChecking EXCEPT !.at = "ask1", !.ports = Servers,
                                                 !.kinds = {nat.kind}]
                        ELSE check
  /\ UNCHANGED <<nat, opts, told, inflight, moves, losses>>

Asking == check.at \in {"ask1", "ask2"}
Awaiting == check.at \in {"await1", "await2"}
PortAsked == IF check.at \in {"ask1", "await1"} THEN 1 ELSE 2

(* stunQuery sends a request with a new transaction, known by its port;     *)
(* serveSTUN answers with the address that it came from.                    *)
stunQuery ==
  /\ Asking
  /\ check' = [check EXCEPT !.at = IF @ = "ask1" THEN "await1" ELSE "await2"]
  /\ inflight' = inflight \cup {[tx |-> PortAsked, mapped |-> Mapping(PortAsked)]}
  /\ UNCHANGED <<nat, opts, told, rep, moves, losses>>

(* The request or its answer is lost, or comes after the deadline. *)
answerLost(a) ==
  /\ Awaiting /\ a \in inflight
  /\ losses < MaxLosses /\ losses' = losses + 1
  /\ inflight' = inflight \ {a}
  /\ UNCHANGED <<nat, opts, told, rep, check, moves>>

(* Mutant: any answer will do. *)
acceptsAny(a) == TRUE

(* "A late answer to an earlier query" is not this one's. *)
accepts(a) == a.tx = PortAsked

Classified(second) == IF check.first = second THEN "easy" ELSE "hard"

(* An answer arrives, and may arrive again.  The socket is closed with the  *)
(* last answer.                                                             *)
received(a, again) ==
  /\ Awaiting /\ a \in inflight
  /\ check' = IF ~accepts(a) THEN check
              ELSE IF check.at = "await1"
              THEN [check EXCEPT !.first = a.mapped, !.at = IF check.ports < 2 THEN "apply" ELSE "ask2"]
              ELSE [check EXCEPT !.type = Classified(a.mapped), !.at = "apply"]
  /\ inflight' = IF check'.at = "apply" THEN {} ELSE IF again THEN inflight ELSE inflight \ {a}
  /\ UNCHANGED <<nat, opts, told, rep, moves, losses>>

NothingComes == Awaiting /\ \A a \in inflight : a.tx # PortAsked

(* Mutant: a check that failed stays busy. *)
timedOutBusy ==
  /\ NothingComes /\ check.at = "await2"
  /\ check' = [check EXCEPT !.at = "apply"]
  /\ inflight' = {}
  /\ UNCHANGED <<nat, opts, told, rep, moves, losses>>

(* Without a first answer the check has failed; without a second one there  *)
(* is an address but no type.                                               *)
timedOut ==
  /\ NothingComes
  /\ check' = IF check.at = "await1" THEN NotChecking ELSE [check EXCEPT !.at = "apply"]
  /\ inflight' = {}
  /\ UNCHANGED <<nat, opts, told, rep, moves, losses>>

(* refreshV6Endpoint: a probe that is not answered withdraws the endpoint. *)
refreshV6Endpoint(answered) ==
  IF opts.noIPv6 \/ ~opts.stun THEN rep.host6
  ELSE IF answered THEN nat.v6 ELSE NoHost

(* The check's results, under syncMu. *)
applyCheck(answered6) ==
  /\ check.at = "apply"
  /\ answered6 => nat.v6 # NoHost
  /\ losses' = IF answered6 \/ nat.v6 = NoHost THEN losses ELSE losses + 1
  /\ losses' <= MaxLosses
  /\ rep' = [rep EXCEPT !.type = IF check.type # "" THEN check.type ELSE @,
                        !.kinds = IF check.type # "" THEN check.kinds ELSE @,
                        !.host = check.first[1],
                        !.host6 = refreshV6Endpoint(answered6)]
  /\ check' = NotChecking
  /\ UNCHANGED <<nat, opts, told, inflight, moves>>

(* applySync: the mesh's STUN ports, kept once learned. *)
learnServers ==
  /\ told = 0 /\ told' = 2
  /\ UNCHANGED <<nat, opts, rep, check, inflight, moves, losses>>

(* Another network, another lease, a rebooted router. *)
surroundingsChange(n) ==
  /\ moves < MaxMoves /\ moves' = moves + 1
  /\ n # nat /\ nat' = n
  /\ check' = IF check = NotChecking THEN NotChecking ELSE [check EXCEPT !.kinds = @ \cup {n.kind}]
  /\ UNCHANGED <<opts, told, rep, inflight, losses>>

(* The runner's own discovery, from the port that WireGuard will have. *)
NatInit ==
  /\ nat \in Surroundings
  /\ opts \in [pinned : BOOLEAN, stun : BOOLEAN, noIPv6 : BOOLEAN]
  /\ told \in {0, 2}
  /\ \E seen, seen6 \in BOOLEAN :
       rep = [host |-> IF opts.pinned THEN "pin" ELSE IF opts.stun /\ seen THEN nat.wan ELSE NoHost,
              host6 |-> IF ~opts.pinned /\ opts.stun /\ ~opts.noIPv6 /\ seen6 THEN nat.v6 ELSE NoHost,
              type |-> IF opts.pinned THEN "static" ELSE "",
              kinds |-> {}, tick |-> 0]
  /\ check = NotChecking
  /\ inflight = {}
  /\ moves = 0
  /\ losses = 0

CheckSteps ==
  \/ stunQuery \/ timedOut
  \/ \E b \in BOOLEAN : applyCheck(b)

NatNext ==
  \/ maybeNATCheck \/ CheckSteps \/ learnServers
  \/ \E a \in inflight : answerLost(a) \/ \E again \in BOOLEAN : received(a, again)
  \/ \E n \in Surroundings : surroundingsChange(n)

NatSpec == NatInit /\ [][NatNext]_natVars

Heard(port) == \E a \in inflight : a.tx = port /\ accepts(a) /\ received(a, FALSE)

-----------------------------------------------------------------------------
(* Properties *)

(* A type is what the NAT was: behind a NAT that stayed symmetric for the   *)
(* whole of the check that classified it the type is never "easy", also     *)
(* when the first port's answer comes a second time while the other port's  *)
(* is awaited (checkNAT, stunQueryFamily).                                 *)
EasyIsCone == rep.type = "easy" => "cone" \in rep.kinds

(* The agent ends up with what is around it, however checks failed or       *)
(* overlapped a move: its public address, the type of its NAT where there   *)
(* are two ports to compare, and its global IPv6 address or none ("a v6     *)
(* path that stopped working must stop being advertised",                   *)
(* refreshV6Endpoint).                                                      *)
EndpointFollows ==
  <>[](\/ opts.pinned \/ Servers = 0
       \/ /\ rep.host = nat.wan
          /\ Servers = 2 => rep.type = IF nat.kind = "cone" THEN "easy" ELSE "hard"
          /\ rep.host6 = IF opts.stun /\ ~opts.noIPv6 THEN nat.v6 ELSE NoHost)

=============================================================================
