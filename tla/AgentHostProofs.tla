-------------------------- MODULE AgentHostProofs ---------------------------
(*****************************************************************************)
(* The agent's host, for any plan of networks, messages and bounds: the port *)
(* an agent says its router maps, and the rules it leaves on the host.       *)
(*****************************************************************************)
EXTENDS AgentHost, HostProofs

-----------------------------------------------------------------------------
(* The mapped port *)

MapperFields == {"on", "ext", "unmap", "wait", "retry"}

(* The timer fires before the lease is over. *)
MapInv ==
  /\ lease \in Nat
  /\ DOMAIN mapper = MapperFields
  /\ mapper.wait \in Nat /\ mapper.retry \in Nat
  /\ mapper.ext /\ "router" \notin cut => mapper.on /\ lease > mapper.wait

LEMMA MapperOffFacts ==
  /\ DOMAIN MapperOff = MapperFields /\ MapperOff.wait = 0
  /\ MapperOff.retry = portMapRetryMin /\ ~MapperOff.ext
  /\ DOMAIN newPortMapper = MapperFields /\ newPortMapper.wait = 0
  /\ newPortMapper.retry = portMapRetryMin /\ ~newPortMapper.ext
<1>1. /\ DOMAIN MapperOff = MapperFields /\ MapperOff.wait = 0
      /\ MapperOff.retry = portMapRetryMin
  BY DEF MapperOff, MapperFields
<1>2. ~MapperOff.ext
  BY Zenon DEF MapperOff
<1>3. /\ DOMAIN newPortMapper = MapperFields /\ newPortMapper.wait = 0
      /\ newPortMapper.retry = portMapRetryMin
  BY <1>1 DEF newPortMapper, MapperFields
<1>4. ~newPortMapper.ext
  BY <1>1, <1>2, Zenon DEF newPortMapper, MapperFields
<1>. QED  BY <1>1, <1>2, <1>3, <1>4

(* A step that leaves the router and the goroutine alone, or ends or        *)
(* restarts the goroutine; what was interrupted stays on record.            *)
LEMMA ElsewhereKeeps ==
  ASSUME MapInv, lease' = lease, cut \subseteq cut',
         mapper' = mapper \/ mapper' = MapperOff \/ mapper' = newPortMapper
  PROVE  MapInv'
<1>1. CASE mapper' = mapper
  BY <1>1 DEF MapInv
<1>2. CASE mapper' = MapperOff \/ mapper' = newPortMapper
  <2>1. /\ DOMAIN mapper' = MapperFields /\ mapper'.wait = 0
        /\ mapper'.retry = portMapRetryMin
    BY <1>2, MapperOffFacts
  <2>2. ~mapper'.ext
    BY <1>2, MapperOffFacts, Zenon
  <2>. QED  BY <2>1, <2>2, LeaseAssumption DEF MapInv
<1>. QED  BY <1>1, <1>2

LEMMA mapPortKeeps ==
  ASSUME MapInv, NEW attempt \in Attempts, mapPort(attempt), cut' = cut
  PROVE  MapInv'
<1>1. lease' \in Nat
  BY LeaseAssumption DEF MapInv, mapPort
<1>2. CASE attempt = "granted"
  <2>1. mapper' = [mapper EXCEPT !.ext = TRUE, !.unmap = TRUE, !.wait = portMapRenew,
                                 !.retry = portMapRetryMin]
        /\ lease' = portMapLease /\ DOMAIN mapper = MapperFields
    BY <1>2 DEF mapPort, MapInv
  <2>2. /\ DOMAIN mapper' = MapperFields
        /\ mapper'.wait = portMapRenew /\ mapper'.retry = portMapRetryMin
    BY <2>1 DEF MapperFields
  <2>3. mapper'.on = mapper.on
    BY <2>1, Zenon DEF MapperFields
  <2>4. mapper'.on
    BY <2>3, Zenon DEF mapPort
  <2>. QED  BY <1>1, <2>1, <2>2, <2>4, LeaseAssumption DEF MapInv
<1>3. CASE attempt # "granted"
  <2>. DEFINE next == Least2(2 * mapper.retry, portMapRetryMax)
  <2>1. mapper' = [mapper EXCEPT !.ext = FALSE, !.unmap = FALSE, !.wait = mapper.retry,
                                 !.retry = next]
        /\ DOMAIN mapper = MapperFields
    BY <1>3 DEF mapPort, unmapped, MapInv
  <2>2. next \in Nat
    BY LeaseAssumption DEF MapInv, Least2
  <2>. HIDE DEF next
  <2>3. /\ DOMAIN mapper' = MapperFields
        /\ mapper'.wait = mapper.retry /\ mapper'.retry = next
    BY <2>1 DEF MapperFields
  <2>4. ~mapper'.ext
    BY <2>1, Zenon DEF MapperFields
  <2>. QED  BY <1>1, <2>2, <2>3, <2>4 DEF MapInv
<1>. QED  BY <1>2, <1>3

LEMMA LeaseTickKeeps ==
  ASSUME MapInv, LeaseTick, cut' = cut
  PROVE  MapInv'
<1>1. CASE mapper.on
  <2>1. mapper' = [mapper EXCEPT !.wait = @ - 1] /\ mapper.wait > 0
        /\ DOMAIN mapper = MapperFields
    BY <1>1 DEF LeaseTick, MapInv
  <2>2. /\ DOMAIN mapper' = MapperFields
        /\ mapper'.wait = mapper.wait - 1 /\ mapper'.retry = mapper.retry
    BY <2>1 DEF MapperFields
  <2>3. mapper'.on = mapper.on /\ mapper'.ext = mapper.ext
    BY <2>1, Zenon DEF MapperFields
  <2>4. mapper'.on /\ (mapper'.ext => mapper.ext)
    BY <1>1, <2>3, Zenon
  <2>5. lease' = IF lease > 0 THEN lease - 1 ELSE 0
    BY DEF LeaseTick
  <2>. QED  BY <2>1, <2>2, <2>4, <2>5 DEF MapInv
<1>2. CASE ~mapper.on
  <2>1. mapper' = mapper /\ lease' = IF lease > 0 THEN lease - 1 ELSE 0
    BY <1>2 DEF LeaseTick
  <2>2. ~(mapper.ext /\ "router" \notin cut)
    BY <1>2 DEF MapInv
  <2>. QED  BY <2>1, <2>2 DEF MapInv
<1>. QED  BY <1>1, <1>2

LEMMA MapNext == MapInv /\ [Next]_vars => MapInv'
<1>. SUFFICES ASSUME MapInv, [Next]_vars PROVE MapInv'
  OBVIOUS
<1>1. ASSUME NEW p \in Procs, Begin(p) \/ Do(p) PROVE MapInv'
  <2>1. lease' = lease /\ mapper' = mapper /\ cut \subseteq cut'
    BY <1>1 DEF Begin, Do, hostVars, mapVars
  <2>. QED  BY <2>1, ElsewhereKeeps
<1>2. ASSUME NEW p \in Procs, Fail(p) PROVE MapInv'
  <2>1. lease' = lease /\ mapper' = mapper /\ cut \subseteq cut'
    BY <1>2 DEF Fail, hostVars, mapVars
  <2>. QED  BY <2>1, ElsewhereKeeps
<1>3. CASE \/ Start \/ startupFails \/ withoutReporter \/ waitForShutdown \/ reporterStops
           \/ (\E free \in SUBSET cfg.ports \ {{}} : resolvePort(free))
           \/ \E m \in Payloads : startupState(m) \/ \E readable \in BOOLEAN : applySync(m, readable)
  <2>1. lease' = lease /\ mapper' = mapper /\ cut' = cut
    BY <1>3 DEF Start, startupFails, withoutReporter, waitForShutdown, reporterStops,
                resolvePort, startupState, applySync, hostVars, mapVars
  <2>. QED  BY <2>1, ElsewhereKeeps
<1>4. CASE startReporter
  <2>1. lease' = lease /\ mapper' \in {mapper, newPortMapper} /\ cut' = cut
    BY <1>4 DEF startReporter
  <2>. QED  BY <2>1, ElsewhereKeeps
<1>5. CASE \E done \in BOOLEAN : closePortMapper(done)
  <2>1. lease' \in {0, lease} /\ mapper' = MapperOff
    BY <1>5 DEF closePortMapper, closeMapper
  <2>2. /\ DOMAIN mapper' = MapperFields /\ mapper'.wait = 0
        /\ mapper'.retry = portMapRetryMin
    BY <2>1, MapperOffFacts
  <2>3. ~mapper'.ext
    BY <2>1, MapperOffFacts, Zenon
  <2>. QED  BY <2>1, <2>2, <2>3, LeaseAssumption DEF MapInv
<1>6. CASE Exit \/ Crash
  <2>1. lease' = lease /\ mapper' = MapperOff /\ cut \subseteq cut'
    BY <1>6 DEF Exit, Crash, Gone, Killed
  <2>. QED  BY <2>1, ElsewhereKeeps
<1>7. CASE \/ Reboot \/ resolvedToggles
           \/ (\E f \in HostFiles : HostWrites(f)) \/ (\E b \in cfg.backends : backendChanges(b))
  <2>1. lease' = lease /\ mapper' = mapper /\ cut \subseteq cut'
    BY <1>7 DEF Reboot, resolvedToggles, HostWrites, backendChanges, mapVars
  <2>. QED  BY <2>1, ElsewhereKeeps
<1>8. ASSUME NEW attempt \in Attempts, mapperSteps(attempt) PROVE MapInv'
  BY <1>8, mapPortKeeps DEF mapperSteps
<1>9. CASE routerForgets
  <2>1. lease' = 0 /\ mapper' = mapper /\ "router" \in cut'
    BY <1>9 DEF routerForgets, RouterForgets
  <2>. QED  BY <2>1 DEF MapInv
<1>10. CASE Tick
  BY <1>10, LeaseTickKeeps DEF Tick
<1>11. CASE UNCHANGED vars
  BY <1>11 DEF vars, hostVars, mapVars, MapInv
<1>12. CASE ProcNext
  BY <1>1, <1>2, <1>3, <1>4, <1>5, <1>6, <1>12 DEF ProcNext
<1>13. CASE EnvNext
  BY <1>7, <1>8, <1>9, <1>13 DEF EnvNext
<1>. QED  BY <1>10, <1>11, <1>12, <1>13 DEF Next

(* A router endpoint is advertised only while the lease behind it lasts,    *)
(* for every lease, renewal and back-off of the right order, as long as the *)
(* router does not drop the mapping by itself.                              *)
THEOREM ExternalStaysMapped == Spec => []ExternalIsMapped
<1>1. Init => MapInv
  BY MapperOffFacts, LeaseAssumption DEF Init, MapInit, MapInv
<1>2. MapInv => ExternalIsMapped
  BY DEF MapInv, ExternalIsMapped
<1>. QED  BY <1>1, <1>2, MapNext, PTL DEF Spec

-----------------------------------------------------------------------------
(* The two goroutines and the rules of the host *)

SyncOps ==
  {"applyDNS", "applyOverlayACL", "refreshGatewayNAT", "applyGatewayRoutes", "applyExitRoutes",
   "applyExitNodeNAT", "closePortMapper"}

(* What is left of the start after its first k operations. *)
Rest(k) == From(startProgram, k)

Begun == 14 - Len(prog["runner"])

(* Where the two goroutines are: the reporter runs only while the daemon     *)
(* runs and has one, and what the runner has left to do is the rest of the start, or     *)
(* some of the deferred calls.                                               *)
Shape ==
  /\ stage \in {"stopped", "crashed"} \cup Up
  /\ DOMAIN prog = Procs /\ DOMAIN cmds = Procs /\ DOMAIN at = Procs /\ Flagged(flags, Procs)
  /\ IsSeq(stateFile) /\ IsSeq(manager)
  /\ prog["reporter"] \in Seq(SyncOps) /\ deferred \in Seq(DeferOps)
  /\ \A p \in Procs : Orderly(cmds[p])
  /\ stage \notin Up => Idle("runner") /\ Idle("reporter") /\ at["reporter"] = "none"
  /\ stage = "starting" => /\ \E k \in 0..14 : prog["runner"] = Rest(k)
                           /\ Idle("reporter") /\ at["reporter"] = "none"
  /\ stage = "running" => Idle("runner")
  /\ stage = "alone" => Idle("runner") /\ Idle("reporter") /\ at["reporter"] = "none"
  /\ stage = "stopping" => prog["runner"] \in Seq(DeferOps)

(* Rules *)

(* What holds of the host while a start has begun so many operations. *)
StartAt(k, s, g, f, P, M, F, A) ==
  /\ k = 2 => Clearing(s, P, M, F) /\ \A i \in DOMAIN s : s[i].do \notin Adding
  /\ k \in {3, 4} => /\ Clearing(<<>>, P, M, F)
                     /\ \A i \in DOMAIN s : s[i].on \in {"conf", "fw", "defer"}
  /\ k \in 5..14 => ExitTracked(s, f.exitRoutesOn, f.exitNATOn, P, M, F)
  /\ k \in 9..14 => DenyFilled(s, F, A)
  /\ JumpFirst(s, g, f.exitNATOn, F)

StartRules ==
  StartAt(Begun, cmds["runner"], prog["runner"], flags["runner"], policy, masq, forward, aclChain)

(* What holds of the host while a sync runs. *)
SyncRules ==
  LET s == cmds["reporter"]  f == flags["reporter"] IN
  /\ ExitTracked(s, f.exitRoutesOn, f.exitNATOn, policy, masq, forward)
  /\ JumpFirst(s, prog["reporter"], f.exitNATOn, forward)
  /\ DenyFilled(s, forward, aclChain)

(* The inductive invariant, of a host no command failed on. *)
RulesInv ==
  /\ Shape
  /\ \A p \in Procs : RuleOrder(cmds[p])
  /\ policy \subseteq RouteRules /\ Once(forward)
  /\ "rules" \notin cut => /\ stage = "starting" => StartRules
                           /\ stage = "running" => SyncRules

(* The start runs its operations in the order of run(). *)
LEMMA StartFacts ==
  /\ Rest(0) = startProgram /\ Rest(14) = <<>>
  /\ \A k \in 0..14 : IsSeq(Rest(k)) /\ Len(Rest(k)) = 14 - k
                       /\ \A i \in 1..(14 - k) : Rest(k)[i] = startProgram[k + i]
  /\ \A k \in 0..13 : Rest(k) # <<>> /\ Head(Rest(k)) = startProgram[k + 1] /\ Tail(Rest(k)) = Rest(k + 1)
<1>1. PICK s : s = startProgram
  OBVIOUS
<1>2. s \in Seq(Range(startProgram)) /\ Len(s) = 14
  BY <1>1 DEF startProgram, Range
<1>3. IsSeq(s) /\ 0..Len(s) = 0..14 /\ 0..(Len(s) - 1) = 0..13
  BY <1>2, SeqIsSeq
<1>4. /\ From(s, 0) = s /\ From(s, Len(s)) = <<>>
      /\ \A k \in 0..Len(s) : /\ IsSeq(From(s, k)) /\ Len(From(s, k)) = Len(s) - k
                               /\ \A i \in 1..(Len(s) - k) : From(s, k)[i] = s[k + i]
      /\ \A k \in 0..(Len(s) - 1) : /\ From(s, k) # <<>> /\ Head(From(s, k)) = s[k + 1]
                                     /\ Tail(From(s, k)) = From(s, k + 1)
  BY <1>3, FromFacts
<1>5. /\ From(s, 0) = s /\ From(s, 14) = <<>>
      /\ \A k \in 0..14 : /\ IsSeq(From(s, k)) /\ Len(From(s, k)) = 14 - k
                           /\ \A i \in 1..(14 - k) : From(s, k)[i] = s[k + i]
      /\ \A k \in 0..13 : /\ From(s, k) # <<>> /\ Head(From(s, k)) = s[k + 1]
                           /\ Tail(From(s, k)) = From(s, k + 1)
  BY <1>2, <1>3, <1>4
<1>. QED  BY <1>1, <1>5 DEF Rest

-----------------------------------------------------------------------------
(* What the operations do *)

(* The operations on resolv.conf and the firewall change no rule. *)
LEMMA QuietPlans ==
  ASSUME NEW m, NEW f, IsSeq(stateFile), IsSeq(manager)
  PROVE  /\ \A op \in {"restoreResolvConf", "openFirewall", "Close", "initialDNS", "applyDNS"} :
              GoodPlan(op, Plan(op, m, f))
         /\ All(Plan("restoreResolvConf", m, f), {"conf", "fw", "defer"})
         /\ All(Plan("openFirewall", m, f), {"conf", "fw", "defer"})
<1>1. All(<<>>, {"conf", "fw"}) /\ All(<<>>, {"conf", "fw", "defer"})
  BY AllNone
<1>2. /\ All(restoreResolvConf(cfg.mode), {"conf"}) /\ All(applyDNSConfig(cfg.mode, m.dns), {"conf"})
      /\ All(openFirewall(listenPort), {"fw"}) /\ All(Close, {"fw"})
  BY ConfPlans, FwPlans
<1>3. /\ All(restoreResolvConf(cfg.mode), {"conf", "fw"}) /\ All(applyDNSConfig(cfg.mode, m.dns), {"conf", "fw"})
      /\ All(openFirewall(listenPort), {"conf", "fw"}) /\ All(Close, {"conf", "fw"})
      /\ All(restoreResolvConf(cfg.mode), {"conf", "fw", "defer"})
      /\ All(openFirewall(listenPort), {"conf", "fw", "defer"})
  BY <1>2 DEF All
<1>4. Plan("restoreResolvConf", m, f) = restoreResolvConf(cfg.mode) /\ Plan("Close", m, f) = Close
  BY DEF Plan
<1>5. Plan("openFirewall", m, f) \in {openFirewall(listenPort) \o <<Defer("Close")>>, <<>>}
  BY DEF Plan
<1>6. Plan("initialDNS", m, f) \in {applyDNSConfig(cfg.mode, m.dns), <<>>}
  BY DEF Plan
<1>7. Plan("applyDNS", m, f) = applyDNS(m.dns, f)
  BY DEF Plan
<1>8. applyDNS(m.dns, f) \in {applyDNSConfig(cfg.mode, m.dns) \o <<Flag("dns", m.dns)>>, <<>>}
  BY DEF applyDNS
<1>9. GoodPlan("openFirewall", Plan("openFirewall", m, f))
  <2>. DEFINE later == Defer("Close")
  <2>1. later.on = "defer" /\ later.do = "Close" /\ "Close" \in DeferOps
    BY Commands, OtherCommands DEF DeferOps
  <2>2. Defer("Close") = later
    OBVIOUS
  <2>. HIDE DEF later
  <2>3. GoodPlan("openFirewall", openFirewall(listenPort) \o <<later>>)
    BY <1>3, <2>1, QuietEnded
  <2>. QED  BY <1>1, <1>5, <2>2, <2>3, QuietPlan
<1>10. All(Plan("openFirewall", m, f), {"conf", "fw", "defer"})
  <2>1. Defer("Close").on = "defer"
    BY Commands, OtherCommands
  <2>2. PICK c : c = Defer("Close")
    OBVIOUS
  <2>4. All(<<c>>, {"conf", "fw", "defer"})
    BY <2>1, <2>2, Single DEF All
  <2>. QED  BY <1>1, <1>3, <1>5, <2>2, <2>4, AllJoined
<1>11. GoodPlan("applyDNS", Plan("applyDNS", m, f))
  <2>. DEFINE set == Flag("dns", m.dns)
  <2>1. set.on = "flag" /\ set.do = "dns"
    BY Commands, OtherCommands
  <2>2. Flag("dns", m.dns) = set
    OBVIOUS
  <2>. HIDE DEF set
  <2>3. GoodPlan("applyDNS", applyDNSConfig(cfg.mode, m.dns) \o <<set>>)
    BY <1>3, <2>1, QuietEnded
  <2>. QED  BY <1>1, <1>7, <1>8, <2>2, <2>3, QuietPlan
<1>12. /\ GoodPlan("restoreResolvConf", Plan("restoreResolvConf", m, f))
       /\ GoodPlan("Close", Plan("Close", m, f)) /\ GoodPlan("initialDNS", Plan("initialDNS", m, f))
  BY <1>1, <1>3, <1>4, <1>6, QuietPlan
<1>. QED  BY <1>3, <1>4, <1>9, <1>10, <1>11, <1>12

(* The operations of the start that have commands. *)
StartOps ==
  {"deleteInterface", "cleanupExitState", "restoreResolvConf", "openFirewall", "setupInterface",
   "initialDNS", "enableMSSClamp", "initialACL", "enableGatewayNAT", "applyGatewayRoutes",
   "applyExitRoutes", "applyExitNodeNAT"}

(* Every operation of the start, of a sync and of the deferred calls is      *)
(* good.                                                                     *)
LEMMA PlanGood ==
  ASSUME NEW op \in StartOps \cup (SyncOps \ {"closePortMapper"}) \cup DeferOps, NEW m, NEW f,
         IsSeq(stateFile), IsSeq(manager)
  PROVE  GoodPlan(op, Plan(op, m, f))
<1>1. CASE op \in {"restoreResolvConf", "openFirewall", "Close", "initialDNS", "applyDNS"}
  BY <1>1, QuietPlans
<1>2. CASE op \in {"deleteInterface", "setupInterface", "removeMSSClamp"}
  <2>1. PICK a, b, c : a = RuleCmd("linkDel", 0) /\ b = RuleCmd("linkAdd", 0) /\ c = RuleCmd("mss", FALSE)
    OBVIOUS
  <2>2. Plan(op, m, f) \in {<<a>>, <<b>>, <<c>>}
    BY <1>2, <2>1 DEF Plan, removeMSSClamp
  <2>3. a.on = "rule" /\ a.do = "linkDel" /\ b.on = "rule" /\ b.do = "linkAdd"
    BY <2>1, Commands, OtherCommands
  <2>4. c.on = "rule" /\ c.do = "mss"
    BY <2>1 DEF RuleCmd
  <2>. QED  BY <2>2, <2>3, <2>4, OnePlan
<1>3. CASE op = "cleanupExitState"
  BY <1>3, CleanupPlan DEF Plan
<1>4. CASE op = "enableMSSClamp"
  BY <1>4, ClampPlan DEF Plan
<1>5. CASE op \in {"initialACL", "applyOverlayACL"}
  <2>1. Plan(op, m, f) = applyOverlayACL("deny" \in m.roles)
    BY <1>5 DEF Plan
  <2>. QED  BY <1>5, <2>1, AclPlans
<1>6. CASE op \in {"enableGatewayNAT", "refreshGatewayNAT"}
  <2>1. GoodPlan(op, <<>>)
    BY AllNone, QuietPlan
  <2>2. \/ Plan(op, m, f) \in {ensureGatewayNATRules, <<>>}
        \/ op = "enableGatewayNAT" /\ Plan(op, m, f) = ensureGatewayNATRules \o <<Defer("cleanupGatewayNAT")>>
    BY <1>6 DEF Plan
  <2>3. op \in ForwardOps
    BY <1>6 DEF ForwardOps
  <2>. QED  BY <2>1, <2>2, <2>3, GatewayPlans
<1>7. CASE op = "cleanupGatewayNAT"
  <2>1. Plan(op, m, f) = cleanupGatewayNAT
    BY <1>7 DEF Plan
  <2>. QED  BY <1>7, <2>1, GatewayPlans
<1>8. CASE op = "applyGatewayRoutes"
  <2>1. Plan(op, m, f) = applyGatewayRoutes("routes" \in m.roles, f.gatewayForwardOn)
    BY <1>8 DEF Plan
  <2>. QED  BY <1>8, <2>1, GatewayPlans
<1>9. CASE op = "applyExitRoutes"
  <2>1. Plan(op, m, f) = applyExitRoutes("client" \in m.roles, "v6" \in m.roles, f.exitRoutesOn)
    BY <1>9 DEF Plan
  <2>. QED  BY <1>9, <2>1, ExitRoutePlans
<1>10. CASE op = "applyExitNodeNAT"
  <2>1. Plan(op, m, f) = applyExitNodeNAT("exit" \in m.roles, m.net, f.exitNATOn)
    BY <1>10 DEF Plan
  <2>. QED  BY <1>10, <2>1, ExitNATPlans
<1>. QED  BY <1>1, <1>2, <1>3, <1>4, <1>5, <1>6, <1>7, <1>8, <1>9, <1>10
          DEF StartOps, SyncOps, DeferOps

(* What two operations do in particular. *)
LEMMA PlanDoes ==
  ASSUME NEW m, NEW f
  PROVE  /\ \/ Has(Plan("initialACL", m, f), RuleCmd("aclFill", 0))
            \/ Has(Plan("initialACL", m, f), RuleCmd("forwardDel", "acl"))
         /\ f.exitNATOn => \/ Has(Plan("applyExitNodeNAT", m, f), RuleCmd("forwardFirst", "exit"))
                           \/ Has(Plan("applyExitNodeNAT", m, f), NATOff)
         /\ \A P \in SUBSET RouteRules : \A M, F : Clearing(Plan("cleanupExitState", m, f), P, M, F)
<1>1. /\ Plan("initialACL", m, f) = applyOverlayACL("deny" \in m.roles)
      /\ Plan("applyExitNodeNAT", m, f) = applyExitNodeNAT("exit" \in m.roles, m.net, f.exitNATOn)
      /\ Plan("cleanupExitState", m, f) = cleanupExitState
  BY DEF Plan
<1>2. \/ Has(Plan("initialACL", m, f), RuleCmd("aclFill", 0))
      \/ Has(Plan("initialACL", m, f), RuleCmd("forwardDel", "acl"))
  BY <1>1, AclPlans
<1>3. f.exitNATOn => \/ Has(Plan("applyExitNodeNAT", m, f), RuleCmd("forwardFirst", "exit"))
                     \/ Has(Plan("applyExitNodeNAT", m, f), NATOff)
  BY <1>1, ExitNATPlans
<1>. QED  BY <1>1, <1>2, <1>3, CleanupPlan

-----------------------------------------------------------------------------
(* Steps of an operation *)

(* A command that succeeds preserves the invariant. *)
LEMMA DoInv ==
  ASSUME RulesInv, NEW p \in Procs, Do(p)
  PROVE  RulesInv'
<1>. DEFINE s == cmds[p]  c == Head(s)  t == Tail(s)
<1>1. /\ s # <<>> /\ Orderly(s) /\ RuleOrder(s) /\ IsSeq(s) /\ Shape
      /\ DOMAIN cmds = Procs /\ Flagged(flags, Procs)
      /\ Once(forward) /\ policy \subseteq RouteRules
  BY DEF Do, RulesInv, Shape, Orderly
<1>2. Behind(s, c, t)
  BY <1>1, HeadAndTail
<1>3. /\ cmds' = [cmds EXCEPT ![p] = t]
      /\ IF c.on = "fw" THEN FwDo(c) ELSE UNCHANGED fwVars
      /\ IF c.on = "rule" THEN RuleDo(c) ELSE UNCHANGED ruleVars
      /\ Sets(c, p, flags, flags')
      /\ deferred' = IF c.on = "defer" THEN <<c.do>> \o deferred ELSE deferred
      /\ UNCHANGED <<stage, prog, at, cut>>
  BY DEF Do, Sets
<1>. HIDE DEF c, t
<1>4. DOMAIN cmds' = Procs /\ cmds'[p] = t /\ \A q \in Procs \ {p} : cmds'[q] = cmds[q]
  BY <1>1, <1>3
<1>. HIDE DEF s
<1>5. /\ Orderly(t) /\ RuleOrder(t)
      /\ c.on = "defer" => c.do \in DeferOps
      /\ c.on = "flag" => c \in ExitFlags \/ c.do \in {"gatewayForwardOn", "dns"}
      /\ c.on = "rule" /\ c.do \in Adding => t # <<>> /\ Leads(c, t[Len(t)])
  BY <1>1, <1>2, OrderlyBehind
<1>6. /\ Applied(c, policy, masq, forward, aclChain, policy', masq', forward', aclChain')
      /\ Once(forward')
  BY <1>1, <1>3, DoApplied
<1>7. policy' \subseteq RouteRules
  <2>1. c.on = "rule" /\ c.do = "policyAdd" => c.arg \in RouteRules
    BY <1>5 DEF Leads, Adding
  <2>. QED  BY <1>1, <1>6, <2>1 DEF Applied
<1>8. /\ Noted(c, flags[p].exitRoutesOn, flags[p].exitNATOn,
               flags'[p].exitRoutesOn, flags'[p].exitNATOn)
      /\ Flagged(flags', Procs)
  BY <1>1, <1>3, <1>5, DoNoted
<1>9. Performs(s, c, t, policy, masq, forward, aclChain, policy', masq', forward', aclChain')
  BY <1>1, <1>2, <1>6 DEF Performs
<1>10. Makes(s, c, t, policy, masq, forward, aclChain, policy', masq', forward', aclChain', flags[p], flags'[p])
  BY <1>9, <1>8 DEF Makes
<1>11. \A q \in Procs : Orderly(cmds'[q]) /\ RuleOrder(cmds'[q])
  BY <1>4, <1>5 DEF RulesInv, Shape
<1>12. Shape'
  <2>1. IsSeq(stateFile') /\ IsSeq(manager')
    <3>1. IsSeq(stateFile) /\ IsSeq(manager) /\ IsSeq(<<>>) /\ IsSeq(NoFile)
      BY <1>1, Single DEF Shape, NoFile
    <3>2. IsSeq(Append(manager, c.arg))
      <4>1. Append(manager, c.arg) \in Seq(Range(manager) \cup {c.arg})
        BY <3>1 DEF IsSeq
      <4>. QED  BY <4>1, SeqIsSeq
    <3>. QED  BY <1>3, <3>1, <3>2 DEF FwDo, fwVars
  <2>2. deferred' \in Seq(DeferOps)
    <3>1. deferred \in Seq(DeferOps)
      BY <1>1 DEF Shape
    <3>2. c.on = "defer" => <<c.do>> \in Seq(DeferOps)
      BY <1>5
    <3>. QED  BY <1>3, <3>1, <3>2
  <2>3. stage \in Up /\ stage # "alone"
    BY <1>1 DEF Shape, Idle, s, Procs
  <2>4. stage = "starting" => p = "runner"
    BY <1>1 DEF Shape, Idle, s, Procs
  <2>5. stage = "running" => p = "reporter"
    BY <1>1 DEF Shape, Idle, s, Procs
  <2>6. stage = "starting" => Idle("reporter")'
    BY <1>1, <1>3, <1>4, <2>4 DEF Shape, Idle, Procs
  <2>7. stage = "running" => Idle("runner")'
    BY <1>1, <1>3, <1>4, <2>5 DEF Shape, Idle, Procs
  <2>. QED  BY <1>1, <1>3, <1>4, <1>8, <1>11, <2>1, <2>2, <2>3, <2>6, <2>7 DEF Shape, Rest
<1>13. ASSUME "rules" \notin cut, stage = "starting"
       PROVE  StartRules'
  <2>1. p = "runner" /\ StartRules
    BY <1>1, <1>13 DEF Shape, Idle, s, Procs, RulesInv
  <2>2. Begun' = Begun /\ prog' = prog
    BY <1>3 DEF Begun
  <2>3. ASSUME Begun = 2
        PROVE  /\ Clearing(t, policy', masq', forward')
               /\ \A i \in DOMAIN t : t[i].do \notin Adding
    <3>1. Clearing(s, policy, masq, forward) /\ \A i \in DOMAIN s : s[i].do \notin Adding
      BY <2>1, <2>3 DEF StartRules, StartAt, s
    <3>2. c.do \notin Adding /\ \A i \in DOMAIN t : t[i].do \notin Adding
      BY <1>2, <3>1 DEF Behind
    <3>. QED  BY <1>9, <3>1, <3>2, DoClear
  <2>4. ASSUME Begun \in {3, 4}
        PROVE  /\ Clearing(<<>>, policy', masq', forward')
               /\ \A i \in DOMAIN t : t[i].on \in {"conf", "fw", "defer"}
    <3>1. Clearing(<<>>, policy, masq, forward) /\ \A i \in DOMAIN s : s[i].on \in {"conf", "fw", "defer"}
      BY <2>1, <2>4 DEF StartRules, StartAt, s
    <3>2. c.on # "rule" /\ \A i \in DOMAIN t : t[i].on \in {"conf", "fw", "defer"}
      BY <1>2, <3>1 DEF Behind
    <3>. QED  BY <1>3, <3>1, <3>2 DEF ruleVars
  <2>5. ASSUME Begun \in 5..14
        PROVE  ExitTracked(t, flags'[p].exitRoutesOn, flags'[p].exitNATOn, policy', masq', forward')
    <3>1. ExitTracked(s, flags[p].exitRoutesOn, flags[p].exitNATOn, policy, masq, forward)
      BY <2>1, <2>5 DEF StartRules, StartAt, s
    <3>. QED  BY <1>10, <3>1, DoTracked
  <2>6. ASSUME Begun \in 9..14
        PROVE  DenyFilled(t, forward', aclChain')
    <3>1. DenyFilled(s, forward, aclChain)
      BY <2>1, <2>6 DEF StartRules, StartAt, s
    <3>. QED  BY <1>9, <3>1, DoDeny
  <2>7. JumpFirst(t, prog[p], flags'[p].exitNATOn, forward')
    <3>1. JumpFirst(s, prog[p], flags[p].exitNATOn, forward)
      BY <2>1 DEF StartRules, StartAt, s
    <3>. QED  BY <1>10, <3>1, DoJump
  <2>. QED  BY <1>4, <2>1, <2>2, <2>3, <2>4, <2>5, <2>6, <2>7 DEF StartRules, StartAt
<1>14. ASSUME "rules" \notin cut, stage = "running"
       PROVE  SyncRules'
  <2>1. p = "reporter" /\ SyncRules
    BY <1>1, <1>14 DEF Shape, Idle, s, Procs, RulesInv
  <2>3. ExitTracked(t, flags'[p].exitRoutesOn, flags'[p].exitNATOn, policy', masq', forward')
    <3>1. ExitTracked(s, flags[p].exitRoutesOn, flags[p].exitNATOn, policy, masq, forward)
      BY <2>1 DEF SyncRules, s
    <3>. QED  BY <1>10, <3>1, DoTracked
  <2>4. DenyFilled(t, forward', aclChain')
    <3>1. DenyFilled(s, forward, aclChain)
      BY <2>1 DEF SyncRules, s
    <3>. QED  BY <1>9, <3>1, DoDeny
  <2>5. JumpFirst(t, prog[p], flags'[p].exitNATOn, forward')
    <3>1. JumpFirst(s, prog[p], flags[p].exitNATOn, forward)
      BY <2>1 DEF SyncRules, s
    <3>. QED  BY <1>10, <3>1, DoJump
  <2>. QED  BY <1>3, <1>4, <2>1, <2>3, <2>4, <2>5 DEF SyncRules
<1>. QED  BY <1>3, <1>6, <1>7, <1>11, <1>12, <1>13, <1>14 DEF RulesInv

(* What an operation still does after an error is some of what it would have *)
(* done.                                                                     *)
LEMMA AfterErrorFacts ==
  ASSUME NEW p, cmds[p] # <<>>, Orderly(cmds[p])
  PROVE  Orderly(AfterError(p)) /\ RuleOrder(AfterError(p)) /\ Within(AfterError(p), cmds[p])
<1>. DEFINE s == cmds[p]  last == s[Len(s)]
<1>1. IsSeq(s) /\ Len(s) \in DOMAIN s
  <2>1. IsSeq(s) /\ s # <<>>
    BY DEF Orderly
  <2>2. Behind(s, Head(s), Tail(s))
    BY <2>1, HeadAndTail
  <2>. QED  BY <2>1, <2>2 DEF Behind
<1>2. last.on = "defer" => last.do \in DeferOps
  BY <1>1 DEF Orderly
<1>3. AfterError(p) = <<>> \/ (last.on = "defer" /\ AfterError(p) = <<last>>)
  BY DEF AfterError
<1>4. Has(s, last)
  BY <1>1 DEF Has
<1>. HIDE DEF s, last
<1>5. PICK u : u = <<last>>
  OBVIOUS
<1>6. IsSeq(u) /\ Len(u) = 1 /\ u[1] = last /\ DOMAIN u = {1} /\ IsSeq(<<>>) /\ DOMAIN <<>> = {}
  BY <1>5, Single
<1>7. last.on = "defer" => Orderly(u) /\ RuleOrder(u) /\ Within(u, s)
  BY <1>2, <1>4, <1>6 DEF Orderly, RuleOrder, Within, Has, Light, DeferOps
<1>8. Orderly(<<>>) /\ RuleOrder(<<>>) /\ Within(<<>>, s)
  BY <1>6 DEF Orderly, RuleOrder, Within
<1>. QED  BY <1>3, <1>5, <1>7, <1>8 DEF s

(* A command that fails preserves the invariant: one that matters to the     *)
(* rules is noted in cut, any other drops nothing that does.                 *)
LEMMA FailInv ==
  ASSUME RulesInv, NEW p \in Procs, Fail(p)
  PROVE  RulesInv'
<1>. DEFINE s == cmds[p]  c == Head(s)  t == Tail(s)
            returns == p = "runner" /\ at[p] \in {"setupInterface", "enableGatewayNAT"}
<1>1. /\ s # <<>> /\ Orderly(s) /\ RuleOrder(s) /\ IsSeq(s) /\ Shape
      /\ DOMAIN cmds = Procs /\ Flagged(flags, Procs)
      /\ Once(forward) /\ policy \subseteq RouteRules
  BY DEF Fail, RulesInv, Shape, Orderly
<1>2. Behind(s, c, t)
  BY <1>1, HeadAndTail
<1>3. PICK u : cmds' = [cmds EXCEPT ![p] = u] /\ u \in {t, AfterError(p)}
  BY DEF Fail
<1>4. /\ c.on \in {"conf", "rule"} \/ c.do \in FwMay
      /\ cut' = cut \cup Harm(c)
      /\ flags' \in {flags, [flags EXCEPT ![p].dnsApplied = FALSE, ![p].lastDNS = using[p].dns]}
      /\ IF returns THEN Return ELSE UNCHANGED <<prog, deferred, stage>>
      /\ UNCHANGED <<at, fwVars, ruleVars>>
  BY DEF Fail, hostVars
<1>5. policy' = policy /\ masq' = masq /\ forward' = forward /\ aclChain' = aclChain
      /\ stateFile' = stateFile /\ manager' = manager
  BY <1>4 DEF ruleVars, fwVars
<1>6. Orderly(AfterError(p)) /\ RuleOrder(AfterError(p)) /\ Within(AfterError(p), s)
  BY <1>1, AfterErrorFacts
<1>. HIDE DEF c, t, returns
<1>7. DOMAIN cmds' = Procs /\ cmds'[p] = u /\ \A q \in Procs \ {p} : cmds'[q] = cmds[q]
  BY <1>1, <1>3
<1>. HIDE DEF s
<1>8. /\ Orderly(t) /\ RuleOrder(t)
      /\ c.on \in {"conf", "fw", "rule", "flag", "defer"}
      /\ c.on = "defer" => c.do \in DeferOps
      /\ c.on = "flag" => c \in ExitFlags \/ c.do \in {"gatewayForwardOn", "dns"}
      /\ c.on \in {"conf", "fw"} \/ c.do \in {"refuse", "linkAdd"} => \A j \in DOMAIN s : Light(s[j])
  BY <1>1, <1>2, OrderlyBehind
<1>9. Within(t, s)
  BY <1>2 DEF Within, Behind
<1>10. Orderly(u) /\ RuleOrder(u) /\ Within(u, s)
  BY <1>3, <1>6, <1>8, <1>9
<1>11. \A q \in Procs : Orderly(cmds'[q]) /\ RuleOrder(cmds'[q])
  BY <1>7, <1>10 DEF RulesInv, Shape
<1>12. /\ Flagged(flags', Procs)
       /\ \A q \in Procs : /\ flags'[q].exitRoutesOn = flags[q].exitRoutesOn
                           /\ flags'[q].exitNATOn = flags[q].exitNATOn
  BY <1>1, <1>4 DEF Flagged, FlagNames
<1>13. /\ stage = "starting" => p = "runner"
       /\ stage = "running" => p = "reporter"
       /\ stage \in Up /\ stage # "alone"
  BY <1>1 DEF Shape, Idle, s, Procs
<1>14. Shape'
  <2>1. stage = "starting" /\ ~returns => Idle("reporter")'
    BY <1>1, <1>4, <1>7, <1>13 DEF Shape, Idle, Procs
  <2>2. stage = "running" => Idle("runner")' /\ ~returns
    BY <1>1, <1>4, <1>7, <1>13 DEF Shape, Idle, Procs, returns
  <2>3. CASE returns
    <3>1. /\ stage' = "stopping" /\ prog' = [prog EXCEPT !["runner"] = deferred] /\ deferred' = <<>>
          /\ at' = at
      BY <2>3, <1>4 DEF Return
    <3>2. /\ DOMAIN prog = Procs /\ DOMAIN at = Procs /\ IsSeq(stateFile) /\ IsSeq(manager)
          /\ prog["reporter"] \in Seq(SyncOps) /\ deferred \in Seq(DeferOps)
      BY <1>1 DEF Shape
    <3>3. DOMAIN prog' = Procs /\ prog'["runner"] = deferred /\ prog'["reporter"] = prog["reporter"]
      BY <3>1, <3>2 DEF Procs
    <3>4. deferred' \in Seq(DeferOps)
      BY <3>1
    <3>. QED  BY <1>5, <1>7, <1>11, <1>12, <3>1, <3>2, <3>3, <3>4 DEF Shape, Up
  <2>4. CASE ~returns
    <3>1. stage' = stage /\ prog' = prog /\ deferred' = deferred /\ at' = at
      BY <1>4, <2>4
    <3>2. /\ stage = "starting" => Idle("reporter")'
          /\ stage = "running" => Idle("runner")'
      BY <2>1, <2>2, <2>4
    <3>. QED  BY <1>1, <1>5, <1>7, <1>11, <1>12, <1>13, <3>1, <3>2 DEF Shape, Rest
  <2>. QED  BY <2>3, <2>4
<1>15. ASSUME "rules" \notin cut' PROVE "rules" \notin cut /\ AllLight(s) /\ AllLight(u)
  <2>1. ~(c.on = "rule" /\ c.do \notin {"refuse", "linkAdd"})
    BY <1>4, <1>15 DEF Harm
  <2>2. c.on \notin {"flag", "defer"} \/ c.do \in FwMay
    BY <1>4
  <2>3. c.on # "defer"
    BY <1>4, <1>8 DEF DeferOps, FwMay
  <2>4. c.on # "flag"
    <3>1. \A x \in ExitFlags : x.do \in {"exitRoutesOn", "exitNATOn"}
      BY Flags DEF ExitFlags
    <3>. QED  BY <1>4, <1>8, <3>1 DEF FwMay
  <2>5. AllLight(s)
    BY <1>8, <2>1, <2>3, <2>4 DEF AllLight
  <2>6. AllLight(u)
    BY <1>10, <2>5 DEF AllLight, Within
  <2>. QED  BY <1>4, <1>15, <2>5, <2>6
<1>16. stage' \in {"starting", "running"} => ~returns /\ stage' = stage /\ prog' = prog
  BY <1>4 DEF Return
<1>17. ASSUME "rules" \notin cut', stage' = "starting"
       PROVE  StartRules'
  <2>1. /\ p = "runner" /\ StartRules /\ prog' = prog
    BY <1>13, <1>15, <1>16, <1>17 DEF RulesInv
  <2>2. Begun' = Begun
    BY <2>1 DEF Begun
  <2>3. AllLight(s) /\ AllLight(u)
    BY <1>15, <1>17
  <2>4. ASSUME Begun = 2
        PROVE  /\ Clearing(u, policy, masq, forward)
               /\ \A i \in DOMAIN u : u[i].do \notin Adding
    <3>1. Clearing(s, policy, masq, forward) /\ \A i \in DOMAIN s : s[i].do \notin Adding
      BY <2>1, <2>4 DEF StartRules, StartAt, s
    <3>. QED  BY <1>10, <2>3, <3>1, LightSwap DEF Within
  <2>5. ASSUME Begun \in {3, 4}
        PROVE  /\ Clearing(<<>>, policy, masq, forward)
               /\ \A i \in DOMAIN u : u[i].on \in {"conf", "fw", "defer"}
    <3>1. Clearing(<<>>, policy, masq, forward) /\ \A i \in DOMAIN s : s[i].on \in {"conf", "fw", "defer"}
      BY <2>1, <2>5 DEF StartRules, StartAt, s
    <3>. QED  BY <1>10, <3>1 DEF Within
  <2>6. ASSUME Begun \in 5..14
        PROVE  ExitTracked(u, flags[p].exitRoutesOn, flags[p].exitNATOn, policy, masq, forward)
    <3>1. ExitTracked(s, flags[p].exitRoutesOn, flags[p].exitNATOn, policy, masq, forward)
      BY <2>1, <2>6 DEF StartRules, StartAt, s
    <3>. QED  BY <2>3, <3>1, LightSwap
  <2>7. ASSUME Begun \in 9..14
        PROVE  DenyFilled(u, forward, aclChain)
    <3>1. DenyFilled(s, forward, aclChain)
      BY <2>1, <2>7 DEF StartRules, StartAt, s
    <3>. QED  BY <2>3, <3>1, LightSwap
  <2>8. JumpFirst(u, prog[p], flags[p].exitNATOn, forward)
    <3>1. JumpFirst(s, prog[p], flags[p].exitNATOn, forward)
      BY <2>1 DEF StartRules, StartAt, s
    <3>. QED  BY <2>3, <3>1, LightSwap
  <2>9. "runner" \in Procs
    BY DEF Procs
  <2>. QED  BY <1>5, <1>7, <1>12, <2>1, <2>2, <2>4, <2>5, <2>6, <2>7, <2>8, <2>9 DEF StartRules, StartAt
<1>18. ASSUME "rules" \notin cut', stage' = "running"
       PROVE  SyncRules'
  <2>1. p = "reporter" /\ SyncRules /\ prog' = prog
    BY <1>13, <1>15, <1>16, <1>18 DEF RulesInv
  <2>2. AllLight(s) /\ AllLight(u)
    BY <1>15, <1>18
  <2>3. ExitTracked(u, flags[p].exitRoutesOn, flags[p].exitNATOn, policy, masq, forward)
    <3>1. ExitTracked(s, flags[p].exitRoutesOn, flags[p].exitNATOn, policy, masq, forward)
      BY <2>1 DEF SyncRules, s
    <3>. QED  BY <2>2, <3>1, LightSwap
  <2>4. DenyFilled(u, forward, aclChain)
    <3>1. DenyFilled(s, forward, aclChain)
      BY <2>1 DEF SyncRules, s
    <3>. QED  BY <2>2, <3>1, LightSwap
  <2>5. JumpFirst(u, prog[p], flags[p].exitNATOn, forward)
    <3>1. JumpFirst(s, prog[p], flags[p].exitNATOn, forward)
      BY <2>1 DEF SyncRules, s
    <3>. QED  BY <2>2, <3>1, LightSwap
  <2>6. "reporter" \in Procs
    BY DEF Procs
  <2>. QED  BY <1>5, <1>7, <1>12, <2>1, <2>3, <2>4, <2>5, <2>6 DEF SyncRules
<1>. QED  BY <1>1, <1>5, <1>11, <1>14, <1>17, <1>18 DEF RulesInv

(* The order of run(): the cleanup before anything that adds rules, the exit *)
(* NAT after every operation that puts a jump into FORWARD.                  *)
LEMMA StartOrder ==
  /\ startProgram[2] = "cleanupExitState" /\ startProgram[3] = "restoreResolvConf"
  /\ startProgram[4] = "openFirewall" /\ startProgram[5] = "startupState"
  /\ startProgram[9] = "initialACL" /\ startProgram[14] = "startReporter"
  /\ \A k \in 1..14 :
       /\ startProgram[k] \in StartOps \cup {"startupState", "startReporter"}
       /\ startProgram[k] = "startupState" => k = 5
       /\ startProgram[k] = "startReporter" => k = 14
       /\ startProgram[k] \in ForwardOps => k < 13
       /\ startProgram[k] = "applyExitNodeNAT" <=> k = 13
<1>1. \A k \in 1..14 : k \in {1, 2, 3, 4, 5, 6, 7, 8, 9, 10, 11, 12, 13, 14}
  OBVIOUS
<1>. QED  BY <1>1 DEF startProgram, StartOps, ForwardOps

(* Where the start stands. *)
LEMMA StartStands ==
  ASSUME Shape, stage = "starting"
  PROVE  /\ Begun \in 0..14 /\ prog["runner"] = Rest(Begun)
         /\ prog["runner"] # <<>> =>
              /\ Begun \in 0..13 /\ Head(prog["runner"]) = startProgram[Begun + 1]
              /\ Tail(prog["runner"]) = Rest(Begun + 1) /\ Len(Tail(prog["runner"])) = 13 - Begun
              /\ Behind(prog["runner"], Head(prog["runner"]), Tail(prog["runner"]))
<1>1. PICK k \in 0..14 : prog["runner"] = Rest(k)
  BY DEF Shape
<1>2. IsSeq(Rest(k)) /\ Len(Rest(k)) = 14 - k
  BY StartFacts
<1>3. Begun = k
  BY <1>1, <1>2 DEF Begun
<1>4. ASSUME prog["runner"] # <<>>
      PROVE  /\ k \in 0..13 /\ Head(prog["runner"]) = startProgram[k + 1]
             /\ Tail(prog["runner"]) = Rest(k + 1) /\ Len(Tail(prog["runner"])) = 13 - k
             /\ Behind(prog["runner"], Head(prog["runner"]), Tail(prog["runner"]))
  <2>1. k # 14
    BY <1>1, <1>4, StartFacts
  <2>2. k \in 0..13 /\ k + 1 \in 0..14
    BY <2>1
  <2>3. Head(Rest(k)) = startProgram[k + 1] /\ Tail(Rest(k)) = Rest(k + 1)
    BY <2>2, StartFacts
  <2>4. Len(Rest(k + 1)) = 14 - (k + 1)
    BY <2>2, StartFacts
  <2>5. 14 - (k + 1) = 13 - k
    BY <2>2
  <2>6. Behind(Rest(k), Head(Rest(k)), Tail(Rest(k)))
    BY <1>1, <1>2, <1>4, HeadAndTail
  <2>. QED  BY <1>1, <2>2, <2>3, <2>4, <2>5, <2>6
<1>. QED  BY <1>1, <1>3, <1>4

(* Beginning an operation preserves the invariant. *)
LEMMA BeginInv ==
  ASSUME RulesInv, NEW p \in Procs, Begin(p)
  PROVE  RulesInv'
<1>. DEFINE g == prog[p]  op == Head(g)  rest == Tail(g)  u == Plan(op, using[p], flags[p])
<1>1. /\ cmds[p] = <<>> /\ g # <<>> /\ op \notin {"startupState", "startReporter", "closePortMapper"}
      /\ cmds' = [cmds EXCEPT ![p] = u] /\ prog' = [prog EXCEPT ![p] = rest]
      /\ at' = IF p = "runner" THEN [at EXCEPT ![p] = op] ELSE at
      /\ cut' \in {cut, cut \cup {"conf"}}
      /\ UNCHANGED <<stage, flags, deferred, fwVars, ruleVars>>
  BY DEF Begin, hostVars
<1>2. /\ Shape /\ DOMAIN cmds = Procs /\ DOMAIN prog = Procs /\ DOMAIN at = Procs
      /\ IsSeq(stateFile) /\ IsSeq(manager)
      /\ Once(forward) /\ policy \subseteq RouteRules
  BY DEF RulesInv, Shape
<1>3. policy' = policy /\ masq' = masq /\ forward' = forward /\ aclChain' = aclChain
      /\ stateFile' = stateFile /\ manager' = manager /\ flags' = flags /\ stage' = stage
      /\ ("rules" \in cut' <=> "rules" \in cut)
  BY <1>1 DEF ruleVars, fwVars
<1>. HIDE DEF u
<1>4. /\ DOMAIN cmds' = Procs /\ cmds'[p] = u /\ \A q \in Procs \ {p} : cmds'[q] = cmds[q]
      /\ DOMAIN prog' = Procs /\ prog'[p] = rest /\ \A q \in Procs \ {p} : prog'[q] = prog[q]
      /\ DOMAIN at' = Procs /\ at'["reporter"] = at["reporter"]
  BY <1>1, <1>2 DEF Procs
<1>5. /\ stage \in Up /\ stage # "alone"
      /\ stage = "starting" => p = "runner"
      /\ stage = "running" => p = "reporter"
  BY <1>1, <1>2 DEF Shape, Idle, Procs
<1>6. stage = "starting" =>
        /\ Begun \in 0..13 /\ op = startProgram[Begun + 1] /\ rest = Rest(Begun + 1)
        /\ Len(rest) = 13 - Begun /\ Behind(g, op, rest)
  BY <1>1, <1>2, <1>5, StartStands
<1>7. stage # "starting" => g \in Seq(SyncOps) \/ g \in Seq(DeferOps)
  BY <1>1, <1>2, <1>5 DEF Shape, Procs, Up, Idle
<1>. HIDE DEF g, op, rest
<1>8. op \in StartOps \cup (SyncOps \ {"closePortMapper"}) \cup DeferOps
  <2>1. CASE stage = "starting"
    <3>1. Begun + 1 \in 1..14
      BY <1>6, <2>1
    <3>. QED  BY <1>1, <1>6, <2>1, <3>1, StartOrder
  <2>2. CASE stage # "starting"
    <3>1. op \in SyncOps \/ op \in DeferOps
      BY <1>1, <1>7, <2>2 DEF op
    <3>. QED  BY <1>1, <3>1
  <2>. QED  BY <2>1, <2>2
<1>9. GoodPlan(op, u)
  BY <1>2, <1>8, PlanGood DEF u
<1>10. Orderly(u) /\ RuleOrder(u)
  BY <1>9 DEF GoodPlan
<1>11. \A q \in Procs : Orderly(cmds'[q]) /\ RuleOrder(cmds'[q])
  BY <1>4, <1>10 DEF RulesInv, Shape
<1>12. Shape'
  <2>1. prog'["reporter"] \in Seq(SyncOps)
    <3>1. prog["reporter"] \in Seq(SyncOps)
      BY <1>2 DEF Shape
    <3>2. p = "reporter" => rest \in Seq(SyncOps)
      BY <1>1, <3>1 DEF rest, g
    <3>. QED  BY <1>4, <3>1, <3>2 DEF Procs
  <2>2. stage = "starting" => /\ \E k \in 0..14 : prog'["runner"] = Rest(k)
                              /\ Idle("reporter")' /\ at'["reporter"] = "none"
    <3>. SUFFICES ASSUME stage = "starting"
                  PROVE  /\ \E k \in 0..14 : prog'["runner"] = Rest(k)
                         /\ Idle("reporter")' /\ at'["reporter"] = "none"
      OBVIOUS
    <3>1. Begun \in 0..13 /\ rest = Rest(Begun + 1) /\ p = "runner"
      BY <1>5, <1>6
    <3>3. Begun + 1 \in 0..14 /\ prog'["runner"] = Rest(Begun + 1)
      BY <1>4, <3>1
    <3>2. Idle("reporter")' /\ at'["reporter"] = "none"
      BY <1>2, <1>4, <1>5 DEF Shape, Idle, Procs
    <3>. QED  BY <3>2, <3>3
  <2>3. stage = "running" => Idle("runner")'
    BY <1>2, <1>4, <1>5 DEF Shape, Idle, Procs
  <2>4. stage = "stopping" => prog'["runner"] \in Seq(DeferOps)
    <3>1. stage = "stopping" => prog["runner"] \in Seq(DeferOps)
      BY <1>2 DEF Shape
    <3>2. stage = "stopping" /\ p = "runner" => rest \in Seq(DeferOps)
      BY <1>1, <3>1 DEF rest, g
    <3>. QED  BY <1>4, <3>1, <3>2 DEF Procs
  <2>. QED  BY <1>1, <1>2, <1>3, <1>4, <1>5, <1>11, <2>1, <2>2, <2>3, <2>4 DEF Shape, Rest
<1>13. ASSUME "rules" \notin cut, stage = "starting"
       PROVE  StartRules'
  <2>1. p = "runner" /\ StartRules
    BY <1>5, <1>13 DEF RulesInv
  <2>0. /\ Begun \in 0..13 /\ op = startProgram[Begun + 1]
        /\ Behind(g, op, rest) /\ Len(rest) = 13 - Begun
    BY <1>6, <1>13
  <2>. DEFINE k == Begun
  <2>. HIDE DEF k
  <2>2. /\ k \in 0..13 /\ Begun = k /\ k + 1 \in 1..14 /\ op = startProgram[k + 1]
        /\ Behind(g, op, rest) /\ Len(rest) = 13 - k
    BY <2>0 DEF k
  <2>3. Begun' = k + 1
    <3>1. Begun' = 14 - Len(rest)
      BY <1>4, <2>1 DEF Begun
    <3>. QED  BY <2>2, <3>1
  <2>4. k + 1 = 2 => /\ Clearing(u, policy, masq, forward)
                     /\ \A i \in DOMAIN u : u[i].do \notin Adding
    <3>. SUFFICES ASSUME k + 1 = 2
                  PROVE  /\ Clearing(u, policy, masq, forward)
                         /\ \A i \in DOMAIN u : u[i].do \notin Adding
      OBVIOUS
    <3>1. op = "cleanupExitState"
      BY <2>2, StartOrder
    <3>2. u = cleanupExitState
      BY <3>1 DEF u, Plan
    <3>. QED  BY <1>2, <3>2, CleanupPlan DEF Adding
  <2>5. k + 1 \in {3, 4} => /\ Clearing(<<>>, policy, masq, forward)
                            /\ \A i \in DOMAIN u : u[i].on \in {"conf", "fw", "defer"}
    <3>. SUFFICES ASSUME k + 1 \in {3, 4}
                  PROVE  /\ Clearing(<<>>, policy, masq, forward)
                         /\ \A i \in DOMAIN u : u[i].on \in {"conf", "fw", "defer"}
      OBVIOUS
    <3>1. op \in {"restoreResolvConf", "openFirewall"} /\ k \in {2, 3}
      BY <2>2, StartOrder
    <3>2. Clearing(<<>>, policy, masq, forward)
      BY <1>1, <2>1, <2>2, <3>1 DEF StartRules, StartAt
    <3>3. All(u, {"conf", "fw", "defer"})
      BY <1>2, <3>1, QuietPlans DEF u
    <3>. QED  BY <3>2, <3>3 DEF All
  <2>6. k + 1 \in 5..14 => ExitTracked(u, flags[p].exitRoutesOn, flags[p].exitNATOn, policy, masq, forward)
    <3>. SUFFICES ASSUME k + 1 \in 5..14
                  PROVE  ExitTracked(u, flags[p].exitRoutesOn, flags[p].exitNATOn, policy, masq, forward)
      OBVIOUS
    <3>1. ASSUME k = 4 PROVE FALSE
      <4>1. k + 1 = 5
        BY <3>1
      <4>2. op = "startupState"
        BY <2>2, <4>1, StartOrder
      <4>. QED  BY <1>1, <4>2
    <3>2. k \in 5..14
      BY <2>2, <3>1
    <3>3. ExitTracked(<<>>, flags[p].exitRoutesOn, flags[p].exitNATOn, policy, masq, forward)
      BY <1>1, <2>1, <2>2, <3>2 DEF StartRules, StartAt
    <3>. QED  BY <1>2, <1>9, <3>3, BeginTracked
  <2>7. k + 1 \in 9..14 => DenyFilled(u, forward, aclChain)
    <3>. SUFFICES ASSUME k + 1 \in 9..14 PROVE DenyFilled(u, forward, aclChain)
      OBVIOUS
    <3>1. CASE k = 8
      <4>1. op = "initialACL"
        BY <2>2, <3>1, StartOrder
      <4>2. Has(u, RuleCmd("aclFill", 0)) \/ Has(u, RuleCmd("forwardDel", "acl"))
        BY <4>1, PlanDoes DEF u
      <4>. QED  BY <1>9, <4>2, BeginDeny
    <3>2. CASE k \in 9..14
      <4>1. DenyFilled(<<>>, forward, aclChain)
        BY <1>1, <2>1, <2>2, <3>2 DEF StartRules, StartAt
      <4>. QED  BY <1>9, <4>1, BeginDeny
    <3>. QED  BY <2>2, <3>1, <3>2
  <2>8. JumpFirst(u, rest, flags[p].exitNATOn, forward)
    <3>1. JumpFirst(<<>>, g, flags[p].exitNATOn, forward)
      BY <1>1, <2>1 DEF StartRules, StartAt, g
    <3>2. op # "cleanupGatewayNAT"
      BY <1>1, <2>2, StartOrder DEF StartOps
    <3>3. op = "applyExitNodeNAT" /\ flags[p].exitNATOn => Has(u, RuleCmd("forwardFirst", "exit")) \/ Has(u, NATOff)
      BY PlanDoes DEF u
    <3>. QED  BY <1>9, <2>2, <3>1, <3>2, <3>3, BeginJump
  <2>. QED  BY <1>3, <1>4, <2>1, <2>3, <2>4, <2>5, <2>6, <2>7, <2>8 DEF StartRules, StartAt
<1>14. ASSUME "rules" \notin cut, stage = "running"
       PROVE  SyncRules'
  <2>1. p = "reporter" /\ SyncRules
    BY <1>5, <1>14 DEF RulesInv
  <2>2. g \in Seq(SyncOps)
    BY <1>2, <2>1 DEF Shape, g
  <2>3. Behind(g, op, rest) /\ op # "cleanupGatewayNAT"
    <3>1. IsSeq(g)
      BY <2>2, SeqIsSeq
    <3>2. op \in SyncOps
      BY <1>1, <2>2 DEF op
    <3>. QED  BY <1>1, <3>1, <3>2, HeadAndTail DEF op, rest, SyncOps
  <2>4. ExitTracked(u, flags[p].exitRoutesOn, flags[p].exitNATOn, policy, masq, forward)
    <3>1. ExitTracked(<<>>, flags[p].exitRoutesOn, flags[p].exitNATOn, policy, masq, forward)
      BY <1>1, <2>1 DEF SyncRules
    <3>. QED  BY <1>2, <1>9, <3>1, BeginTracked
  <2>5. DenyFilled(u, forward, aclChain)
    <3>1. DenyFilled(<<>>, forward, aclChain)
      BY <1>1, <2>1 DEF SyncRules
    <3>. QED  BY <1>9, <3>1, BeginDeny
  <2>6. JumpFirst(u, rest, flags[p].exitNATOn, forward)
    <3>1. JumpFirst(<<>>, g, flags[p].exitNATOn, forward)
      BY <1>1, <2>1 DEF SyncRules, g
    <3>2. op = "applyExitNodeNAT" /\ flags[p].exitNATOn => Has(u, RuleCmd("forwardFirst", "exit")) \/ Has(u, NATOff)
      BY PlanDoes DEF u
    <3>. QED  BY <1>9, <2>3, <3>1, <3>2, BeginJump
  <2>. QED  BY <1>3, <1>4, <2>1, <2>4, <2>5, <2>6 DEF SyncRules
<1>. QED  BY <1>2, <1>3, <1>11, <1>12, <1>13, <1>14 DEF RulesInv

-----------------------------------------------------------------------------
(* Starts, stops and syncs *)

(* Steps that leave the goroutines and the rules alone. *)
LEMMA AsideInv ==
  ASSUME RulesInv, cut \subseteq cut',
         UNCHANGED <<stage, prog, at, cmds, flags, deferred, stateFile, manager, policy, masq, forward, aclChain>>
  PROVE  RulesInv'
BY DEF RulesInv, Shape, StartRules, SyncRules, Begun, Idle, Rest

(* run returning, with its deferred calls, preserves the invariant. *)
LEMMA ReturnInv ==
  ASSUME RulesInv, Return, UNCHANGED <<at, cmds, flags, stateFile, manager, policy, masq, forward, aclChain, cut>>
  PROVE  RulesInv'
<1>1. Shape
  BY DEF RulesInv
<1>2. /\ stage' = "stopping" /\ deferred' = <<>> /\ DOMAIN prog' = Procs
      /\ prog'["runner"] = deferred /\ prog'["reporter"] = prog["reporter"]
  BY <1>1 DEF Return, Shape, Procs
<1>3. deferred' \in Seq(DeferOps)
  BY <1>2
<1>4. Shape'
  BY <1>1, <1>2, <1>3 DEF Shape, Up
<1>. QED  BY <1>2, <1>4 DEF RulesInv

(* An idle goroutine has no commands. *)
LEMMA EmptyRules == Orderly(<<>>) /\ RuleOrder(<<>>) /\ IsSeq(<<>>) /\ Once(<<>>)
<1>1. IsSeq(<<>>) /\ DOMAIN <<>> = {}
  BY Tuples
<1>. QED  BY <1>1 DEF Orderly, RuleOrder, Once

(* An exit or a crash of the daemon preserves the invariant. *)
LEMMA GoneInv ==
  ASSUME RulesInv, NEW how \in {"stopped", "crashed"}, Gone(how)
  PROVE  RulesInv'
<1>1. Shape /\ IsSeq(stateFile)
  BY DEF RulesInv, Shape
<1>2. /\ stage' = how /\ manager' = <<>> /\ stateFile' = stateFile /\ deferred' = <<>>
      /\ prog' = [p \in Procs |-> <<>>] /\ cmds' = [p \in Procs |-> <<>>]
      /\ at' = [p \in Procs |-> "none"] /\ flags' = [p \in Procs |-> NoFlags]
      /\ policy' = policy /\ masq' = masq /\ forward' = forward /\ aclChain' = aclChain
  BY DEF Gone, ruleVars
<1>3. DOMAIN NoFlags = FlagNames
  BY DEF NoFlags, FlagNames
<1>4. <<>> \in Seq(SyncOps) /\ <<>> \in Seq(DeferOps)
  OBVIOUS
<1>5. Shape'
  BY <1>1, <1>2, <1>3, <1>4, EmptyRules DEF Shape, Idle, Procs, Up, Flagged
<1>. QED  BY <1>2, <1>5, EmptyRules DEF RulesInv

(* Where a start has nothing more to show than the order of its jumps, or    *)
(* than that and its flags.                                                  *)
LEMMA StartAtFirst ==
  ASSUME NEW s, NEW g, NEW f, NEW P, NEW M, NEW F, NEW A, JumpFirst(s, g, f.exitNATOn, F)
  PROVE  /\ StartAt(0, s, g, f, P, M, F, A)
         /\ ExitTracked(s, f.exitRoutesOn, f.exitNATOn, P, M, F) => StartAt(5, s, g, f, P, M, F, A)
<1>1. /\ 0 # 2 /\ 0 \notin {3, 4} /\ 0 \notin 5..14 /\ 0 \notin 9..14
      /\ 5 # 2 /\ 5 \notin {3, 4} /\ 5 \notin 9..14
  OBVIOUS
<1>. QED  BY <1>1, Zenon DEF StartAt

(* A start of the daemon preserves the invariant. *)
LEMMA StartInv ==
  ASSUME RulesInv, Start
  PROVE  RulesInv'
<1>1. Shape /\ stage \notin Up /\ cmds["runner"] = <<>>
  BY DEF RulesInv, Shape, Start, Idle
<1>2. /\ stage' = "starting" /\ prog' = [prog EXCEPT !["runner"] = startProgram]
      /\ UNCHANGED <<at, cmds, flags, deferred, stateFile, manager, policy, masq, forward, aclChain, cut>>
  BY DEF Start, hostVars, ruleVars, fwVars
<1>3. DOMAIN prog' = Procs /\ prog'["runner"] = Rest(0) /\ prog'["reporter"] = prog["reporter"]
  BY <1>1, <1>2, StartFacts DEF Shape, Procs
<1>4. 0 \in 0..14
  OBVIOUS
<1>5. Shape'
  BY <1>1, <1>2, <1>3, <1>4 DEF Shape, Idle, Up
<1>6. Begun' = 0
  <2>1. Len(Rest(0)) = 14 - 0
    BY <1>4, StartFacts
  <2>. QED  BY <1>3, <2>1 DEF Begun
<1>7. JumpFirst(<<>>, startProgram, flags["runner"].exitNATOn, forward)
  <2>1. DOMAIN startProgram = 1..14
    BY DEF startProgram
  <2>2. 13 \in 1..14 /\ startProgram[13] = "applyExitNodeNAT"
    BY StartOrder
  <2>3. ExitNATToCome(startProgram)
    BY <2>1, <2>2 DEF ExitNATToCome
  <2>4. \A i \in DOMAIN startProgram : startProgram[i] \in ForwardOps =>
           \E j \in DOMAIN startProgram : j > i /\ startProgram[j] = "applyExitNodeNAT"
    BY <2>1, <2>2, StartOrder
  <2>. QED  BY <2>3, <2>4, NothingToCome DEF JumpFirst
<1>8. StartRules'
  <2>1. prog'["runner"] = startProgram /\ cmds'["runner"] = <<>>
    BY <1>1, <1>2, <1>3, StartFacts
  <2>2. JumpFirst(cmds'["runner"], prog'["runner"], flags'["runner"].exitNATOn, forward')
    BY <1>2, <1>7, <2>1
  <2>3. StartAt(0, cmds'["runner"], prog'["runner"], flags'["runner"], policy', masq', forward', aclChain')
    BY <2>2, StartAtFirst
  <2>. QED  BY <1>6, <2>3 DEF StartRules
<1>. QED  BY <1>2, <1>5, <1>8 DEF RulesInv

(* The enrollment answer (startupState) preserves the invariant: the rules   *)
(* were just cleaned, so its fresh flags are true.                           *)
LEMMA EnrolledInv ==
  ASSUME RulesInv, NEW m, startupState(m)
  PROVE  RulesInv'
<1>. DEFINE g == prog["runner"]
<1>1. /\ g # <<>> /\ Head(g) = "startupState" /\ cmds["runner"] = <<>>
      /\ prog' = [prog EXCEPT !["runner"] = Tail(@)]
      /\ deferred' = <<"restoreResolvConf", "deleteInterface">> \o deferred
      /\ UNCHANGED <<stage, at, cmds, flags, stateFile, manager, policy, masq, forward, aclChain, cut>>
  BY DEF startupState, hostVars, ruleVars, fwVars
<1>2. Shape
  BY DEF RulesInv
<1>3. stage = "starting"
  <2>1. stage \in Up /\ stage \notin {"running", "alone"}
    BY <1>1, <1>2 DEF Shape, Idle
  <2>2. stage # "stopping"
    <3>1. g \in Seq(DeferOps) => Head(g) \in DeferOps
      BY <1>1
    <3>. QED  BY <1>1, <1>2, <3>1 DEF Shape, DeferOps
  <2>. QED  BY <2>1, <2>2 DEF Up
<1>4. /\ Begun \in 0..13 /\ Head(g) = startProgram[Begun + 1] /\ Tail(g) = Rest(Begun + 1)
      /\ Len(Tail(g)) = 13 - Begun /\ Behind(g, Head(g), Tail(g))
  BY <1>1, <1>2, <1>3, StartStands
<1>5. Begun = 4
  <2>1. Begun + 1 \in 1..14
    BY <1>4
  <2>2. Begun + 1 = 5
    BY <1>1, <1>4, <2>1, StartOrder
  <2>. QED  BY <1>4, <2>2
<1>6. DOMAIN prog' = Procs /\ prog'["runner"] = Tail(g) /\ prog'["reporter"] = prog["reporter"]
  BY <1>1, <1>2 DEF Shape, Procs
<1>7. Tail(g) = Rest(5) /\ Len(Tail(g)) = 9
  BY <1>4, <1>5
<1>8. deferred' \in Seq(DeferOps)
  <2>1. <<"restoreResolvConf", "deleteInterface">> \in Seq(DeferOps) /\ deferred \in Seq(DeferOps)
    BY <1>2 DEF DeferOps, Shape
  <2>. QED  BY <1>1, <2>1
<1>. HIDE DEF g
<1>9. Shape'
  <2>1. 5 \in 0..14
    OBVIOUS
  <2>. QED  BY <1>1, <1>2, <1>3, <1>6, <1>7, <1>8, <2>1 DEF Shape, Idle, Up
<1>10. Begun' = 5
  <2>1. Len(prog'["runner"]) = 9
    BY <1>6, <1>7
  <2>. QED  BY <2>1 DEF Begun
<1>11. "rules" \notin cut => StartRules'
  <2>. SUFFICES ASSUME "rules" \notin cut PROVE StartRules'
    OBVIOUS
  <2>1. StartRules
    BY <1>3 DEF RulesInv
  <2>2. Clearing(<<>>, policy, masq, forward)
    BY <1>5, <2>1 DEF StartRules, StartAt
  <2>3. ExitTracked(<<>>, flags["runner"].exitRoutesOn, flags["runner"].exitNATOn, policy, masq, forward)
    BY <2>2, NothingToCome DEF Clearing, ExitTracked
  <2>4. JumpFirst(<<>>, g, flags["runner"].exitNATOn, forward)
    BY <1>1, <2>1 DEF StartRules, StartAt, g
  <2>5. JumpFirst(<<>>, Tail(g), flags["runner"].exitNATOn, forward)
    BY <1>1, <1>4, <2>4, SkipJump
  <2>6. /\ JumpFirst(cmds'["runner"], prog'["runner"], flags'["runner"].exitNATOn, forward')
        /\ ExitTracked(cmds'["runner"], flags'["runner"].exitRoutesOn, flags'["runner"].exitNATOn,
                       policy', masq', forward')
    BY <1>1, <1>6, <2>3, <2>5
  <2>7. StartAt(5, cmds'["runner"], prog'["runner"], flags'["runner"], policy', masq', forward', aclChain')
    BY <2>6, StartAtFirst
  <2>. QED  BY <1>10, <2>7 DEF StartRules
<1>. QED  BY <1>1, <1>3, <1>9, <1>11 DEF RulesInv

(* Only a start that is nearly over has the reporter left to begin. *)
LEMMA LastOfStart ==
  ASSUME Shape, prog["runner"] = <<"startReporter">>
  PROVE  stage = "starting" /\ Len(prog["runner"]) = 1
<1>1. prog["runner"] # <<>> /\ Head(prog["runner"]) = "startReporter" /\ Len(prog["runner"]) = 1
  <2>1. PICK g : g = <<"startReporter">>
    OBVIOUS
  <2>2. g # <<>> /\ Head(g) = "startReporter" /\ Len(g) = 1
    BY <2>1
  <2>. QED  BY <2>1, <2>2
<1>2. stage \in Up /\ stage \notin {"running", "alone"}
  BY <1>1 DEF Shape, Idle
<1>3. stage # "stopping"
  <2>1. prog["runner"] \in Seq(DeferOps) => Head(prog["runner"]) \in DeferOps
    BY <1>1
  <2>. QED  BY <1>1, <2>1 DEF Shape, DeferOps
<1>. QED  BY <1>1, <1>2, <1>3 DEF Up

(* Starting the reporter preserves the invariant: it takes over the runner's *)
(* flags when the runner is done.                                            *)
LEMMA ReporterInv ==
  ASSUME RulesInv, startReporter
  PROVE  RulesInv'
<1>1. /\ prog["runner"] = <<"startReporter">> /\ cmds["runner"] = <<>>
      /\ stage' = "running" /\ prog' = [prog EXCEPT !["runner"] = <<>>]
      /\ flags' = [p \in Procs |-> IF p = "reporter" THEN seed(flags["runner"]) ELSE NoFlags]
      /\ at' = [at EXCEPT !["reporter"] = "run"]
      /\ UNCHANGED <<cmds, deferred, stateFile, manager, policy, masq, forward, aclChain, cut>>
  BY DEF startReporter, ruleVars, fwVars
<1>2. Shape
  BY DEF RulesInv
<1>3. Len(prog["runner"]) = 1
  BY <1>1, <1>2, LastOfStart
<1>4. stage = "starting"
  BY <1>1, <1>2, LastOfStart
<1>5. Idle("reporter")
  BY <1>2, <1>4 DEF Shape
<1>6. /\ DOMAIN prog' = Procs /\ prog'["runner"] = <<>> /\ prog'["reporter"] = <<>>
      /\ DOMAIN at' = Procs /\ cmds'["runner"] = <<>> /\ cmds'["reporter"] = <<>>
  BY <1>1, <1>2, <1>5 DEF Shape, Idle, Procs
<1>7. /\ Flagged(flags', Procs)
      /\ flags'["reporter"] = seed(flags["runner"])
  BY <1>1 DEF seed, NoFlags, Flagged, FlagNames, Procs
<1>8. /\ flags'["reporter"].exitRoutesOn = flags["runner"].exitRoutesOn
      /\ flags'["reporter"].exitNATOn = flags["runner"].exitNATOn
  BY <1>7 DEF seed, NoFlags
<1>9. Shape'
  <2>1. <<>> \in Seq(SyncOps)
    OBVIOUS
  <2>. QED  BY <1>1, <1>2, <1>6, <1>7, <2>1 DEF Shape, Idle, Up
<1>10. "rules" \notin cut => SyncRules'
  <2>. SUFFICES ASSUME "rules" \notin cut PROVE SyncRules'
    OBVIOUS
  <2>1. StartRules /\ Begun = 13
    BY <1>3, <1>4 DEF RulesInv, Begun
  <2>2. /\ ExitTracked(<<>>, flags["runner"].exitRoutesOn, flags["runner"].exitNATOn, policy, masq, forward)
        /\ DenyFilled(<<>>, forward, aclChain)
        /\ JumpFirst(<<>>, prog["runner"], flags["runner"].exitNATOn, forward)
    <3>1. StartAt(13, <<>>, prog["runner"], flags["runner"], policy, masq, forward, aclChain)
      BY <1>1, <2>1 DEF StartRules
    <3>. QED  BY <3>1 DEF StartAt
  <2>3. ~ExitNATToCome(prog["runner"])
    <3>1. PICK g : g = <<"startReporter">>
      OBVIOUS
    <3>2. DOMAIN g = {1} /\ g[1] = "startReporter"
      BY <3>1, Single
    <3>3. ~ExitNATToCome(g)
      BY <3>2 DEF ExitNATToCome
    <3>. QED  BY <1>1, <3>1, <3>3
  <2>4. JumpFirst(<<>>, <<>>, flags["runner"].exitNATOn, forward)
    BY <2>2, <2>3, NothingToCome DEF JumpFirst
  <2>5. /\ ExitTracked(cmds'["reporter"], flags'["reporter"].exitRoutesOn, flags'["reporter"].exitNATOn,
                       policy', masq', forward')
        /\ JumpFirst(cmds'["reporter"], prog'["reporter"], flags'["reporter"].exitNATOn, forward')
        /\ DenyFilled(cmds'["reporter"], forward', aclChain')
    BY <1>1, <1>6, <1>8, <2>2, <2>4
  <2>. QED  BY <2>5 DEF SyncRules
<1>. QED  BY <1>1, <1>9, <1>10 DEF RulesInv

(* Going on without a reporter preserves the invariant. *)
LEMMA AloneInv ==
  ASSUME RulesInv, withoutReporter
  PROVE  RulesInv'
<1>1. /\ prog["runner"] = <<"startReporter">> /\ cmds["runner"] = <<>>
      /\ stage' = "alone" /\ prog' = [prog EXCEPT !["runner"] = <<>>]
      /\ flags' = [p \in Procs |-> NoFlags]
      /\ UNCHANGED <<at, cmds, deferred, stateFile, manager, policy, masq, forward, aclChain, cut>>
  BY DEF withoutReporter, hostVars, ruleVars, fwVars
<1>2. Shape
  BY DEF RulesInv
<1>3. stage = "starting"
  BY <1>1, <1>2, LastOfStart
<1>4. Idle("reporter") /\ at["reporter"] = "none"
  BY <1>2, <1>3 DEF Shape
<1>5. /\ DOMAIN prog' = Procs /\ prog'["runner"] = <<>> /\ prog'["reporter"] = <<>>
      /\ cmds'["runner"] = <<>> /\ cmds'["reporter"] = <<>> /\ at'["reporter"] = "none"
  BY <1>1, <1>2, <1>4 DEF Shape, Idle, Procs
<1>6. Flagged(flags', Procs)
  BY <1>1 DEF NoFlags, Flagged, FlagNames, Procs
<1>7. Shape'
  <2>1. <<>> \in Seq(SyncOps)
    OBVIOUS
  <2>. QED  BY <1>1, <1>2, <1>5, <1>6, <2>1 DEF Shape, Idle, Up
<1>. QED  BY <1>1, <1>7 DEF RulesInv

(* An answer that the reporter applies preserves the invariant. *)
LEMMA SyncInv ==
  ASSUME RulesInv, NEW m, NEW readable, applySync(m, readable)
  PROVE  RulesInv'
<1>1. /\ at["reporter"] \notin {"none", "stopped"} /\ Idle("reporter")
      /\ prog' = [prog EXCEPT !["reporter"] = IF readable THEN syncProgram ELSE <<"applyDNS">>]
      /\ UNCHANGED <<stage, at, cmds, flags, deferred, stateFile, manager, policy, masq, forward, aclChain, cut>>
  BY DEF applySync, hostVars, ruleVars, fwVars
<1>2. Shape
  BY DEF RulesInv
<1>3. PICK g : g = IF readable THEN syncProgram ELSE <<"applyDNS">>
  OBVIOUS
<1>4. /\ syncProgram \in Seq(SyncOps) /\ <<"applyDNS">> \in Seq(SyncOps)
  BY DEF syncProgram, SyncOps
<1>5. /\ DOMAIN prog' = Procs /\ prog'["reporter"] = g /\ prog'["runner"] = prog["runner"]
      /\ g \in Seq(SyncOps)
  BY <1>1, <1>2, <1>3, <1>4 DEF Shape, Procs
<1>6. stage \in {"running", "stopping"}
  BY <1>1, <1>2 DEF Shape, Up
<1>7. Shape'
  BY <1>1, <1>2, <1>5, <1>6 DEF Shape, Idle, Up, Rest
<1>8. \A i \in DOMAIN g : g[i] \in ForwardOps => \E j \in DOMAIN g : j > i /\ g[j] = "applyExitNodeNAT"
  <2>1. DOMAIN syncProgram = 1..6 /\ syncProgram[6] = "applyExitNodeNAT" /\ 6 \in 1..6
        /\ \A i \in 1..6 : syncProgram[i] \in ForwardOps => 6 > i
    BY DEF syncProgram, ForwardOps
  <2>2. \A i \in DOMAIN <<"applyDNS">> : <<"applyDNS">>[i] \notin ForwardOps
    BY DEF ForwardOps
  <2>. QED  BY <1>3, <2>1, <2>2
<1>9. "rules" \notin cut /\ stage = "running" => SyncRules'
  <2>. SUFFICES ASSUME "rules" \notin cut, stage = "running" PROVE SyncRules'
    OBVIOUS
  <2>1. SyncRules /\ cmds["reporter"] = <<>> /\ prog["reporter"] = <<>>
    BY <1>1 DEF RulesInv, Idle
  <2>2. /\ ExitTracked(<<>>, flags["reporter"].exitRoutesOn, flags["reporter"].exitNATOn, policy, masq, forward)
        /\ DenyFilled(<<>>, forward, aclChain)
        /\ JumpFirst(<<>>, <<>>, flags["reporter"].exitNATOn, forward)
    BY <2>1 DEF SyncRules
  <2>3. JumpFirst(<<>>, g, flags["reporter"].exitNATOn, forward)
    BY <1>8, <2>2, NothingToCome DEF JumpFirst, ExitNATToCome
  <2>4. /\ ExitTracked(cmds'["reporter"], flags'["reporter"].exitRoutesOn, flags'["reporter"].exitNATOn,
                       policy', masq', forward')
        /\ JumpFirst(cmds'["reporter"], prog'["reporter"], flags'["reporter"].exitNATOn, forward')
        /\ DenyFilled(cmds'["reporter"], forward', aclChain')
    BY <1>1, <1>5, <2>1, <2>2, <2>3
  <2>. QED  BY <2>4 DEF SyncRules
<1>. QED  BY <1>1, <1>6, <1>7, <1>9 DEF RulesInv

(* The reporter stopping preserves the invariant. *)
LEMMA StopsInv ==
  ASSUME RulesInv, reporterStops
  PROVE  RulesInv'
<1>1. /\ stage = "stopping" /\ prog' = [prog EXCEPT !["reporter"] = stopProgram]
      /\ at' = [at EXCEPT !["reporter"] = "stopped"]
      /\ UNCHANGED <<stage, cmds, flags, deferred, stateFile, manager, policy, masq, forward, aclChain, cut>>
  BY DEF reporterStops, hostVars, ruleVars, fwVars
<1>2. Shape
  BY DEF RulesInv
<1>3. stopProgram \in Seq(SyncOps)
  BY DEF stopProgram, SyncOps
<1>4. /\ DOMAIN prog' = Procs /\ prog'["reporter"] \in Seq(SyncOps) /\ prog'["runner"] = prog["runner"]
      /\ DOMAIN at' = Procs
  BY <1>1, <1>2, <1>3 DEF Shape, Procs
<1>5. Shape'
  BY <1>1, <1>2, <1>4 DEF Shape, Up
<1>. QED  BY <1>1, <1>5 DEF RulesInv

(* The reporter closing its port mapping preserves the invariant. *)
LEMMA MapperClosedInv ==
  ASSUME RulesInv, NEW done, closePortMapper(done)
  PROVE  RulesInv'
<1>. DEFINE g == prog["reporter"]
<1>1. /\ g # <<>> /\ Head(g) = "closePortMapper" /\ prog' = [prog EXCEPT !["reporter"] = Tail(@)]
      /\ UNCHANGED <<stage, at, cmds, flags, deferred, stateFile, manager, policy, masq, forward, aclChain, cut>>
  BY DEF closePortMapper, ruleVars, fwVars
<1>2. Shape /\ g \in Seq(SyncOps)
  BY DEF RulesInv, Shape
<1>3. stage \in {"running", "stopping"}
  BY <1>1, <1>2 DEF Shape, Idle, Up
<1>4. Tail(g) \in Seq(SyncOps)
  BY <1>1, <1>2
<1>5. /\ DOMAIN prog' = Procs /\ prog'["reporter"] = Tail(g) /\ prog'["runner"] = prog["runner"]
  BY <1>1, <1>2 DEF Shape, Procs
<1>6. Behind(g, Head(g), Tail(g))
  BY <1>1, <1>2, SeqIsSeq, HeadAndTail
<1>. HIDE DEF g
<1>7. Shape'
  BY <1>1, <1>2, <1>3, <1>4, <1>5 DEF Shape, Idle, Up
<1>8. "rules" \notin cut /\ stage = "running" => SyncRules'
  <2>. SUFFICES ASSUME "rules" \notin cut, stage = "running" PROVE SyncRules'
    OBVIOUS
  <2>1. SyncRules
    BY DEF RulesInv
  <2>2. JumpFirst(cmds["reporter"], g, flags["reporter"].exitNATOn, forward)
    BY <2>1 DEF SyncRules, g
  <2>3. JumpFirst(cmds["reporter"], Tail(g), flags["reporter"].exitNATOn, forward)
    BY <1>1, <1>6, <2>2, SkipJump
  <2>4. JumpFirst(cmds'["reporter"], prog'["reporter"], flags'["reporter"].exitNATOn, forward')
    BY <1>1, <1>5, <2>3
  <2>. QED  BY <1>1, <2>1, <2>4 DEF SyncRules
<1>. QED  BY <1>1, <1>3, <1>7, <1>8 DEF RulesInv

-----------------------------------------------------------------------------
(* The rules on the host *)

(* A reboot, which clears the rules, preserves the invariant. *)
LEMMA RebootInv ==
  ASSUME RulesInv, Reboot
  PROVE  RulesInv'
<1>1. /\ stage \notin Up /\ policy' = {} /\ forward' = <<>>
      /\ UNCHANGED <<stage, prog, at, cmds, flags, deferred, stateFile, manager, cut>>
  BY DEF Reboot, procVars
<1>2. Shape'
  BY <1>1 DEF RulesInv, Shape, Idle, Rest
<1>. QED  BY <1>1, <1>2, EmptyRules DEF RulesInv, Up

(* The invariant holds at first. *)
LEMMA InitInv == Init => RulesInv
<1>. SUFFICES ASSUME Init PROVE RulesInv
  OBVIOUS
<1>1. /\ stage = "stopped" /\ manager = <<>> /\ stateFile = NoFile /\ deferred = <<>>
      /\ prog = [p \in Procs |-> <<>>] /\ cmds = [p \in Procs |-> <<>>]
      /\ at = [p \in Procs |-> "none"] /\ flags = [p \in Procs |-> NoFlags]
      /\ policy = {} /\ forward = <<>>
  BY DEF Init, RuleInit, FwInit
<1>2. DOMAIN NoFlags = FlagNames
  BY DEF NoFlags, FlagNames
<1>3. <<>> \in Seq(SyncOps) /\ <<>> \in Seq(DeferOps) /\ IsSeq(NoFile)
  BY Single DEF NoFile
<1>4. Shape
  BY <1>1, <1>2, <1>3, EmptyRules DEF Shape, Idle, Procs, Up, Flagged
<1>. QED  BY <1>1, <1>4, EmptyRules DEF RulesInv

(* Every step preserves the invariant. *)
LEMMA NextInv == RulesInv /\ [Next]_vars => RulesInv'
<1>. SUFFICES ASSUME RulesInv, [Next]_vars PROVE RulesInv'
  OBVIOUS
<1>. USE DEF hostVars, procVars, ruleVars, fwVars, confVars
<1>1. ASSUME NEW p \in Procs, Begin(p) \/ Do(p) \/ Fail(p) PROVE RulesInv'
  BY <1>1, BeginInv, DoInv, FailInv
<1>2. CASE Start
  BY <1>2, StartInv
<1>3. ASSUME NEW free, resolvePort(free) PROVE RulesInv'
  BY <1>3, AsideInv DEF resolvePort
<1>4. ASSUME NEW m, startupState(m) PROVE RulesInv'
  BY <1>4, EnrolledInv
<1>5. ASSUME NEW m, NEW readable, applySync(m, readable) PROVE RulesInv'
  BY <1>5, SyncInv
<1>6. CASE startupFails
  BY <1>6, ReturnInv DEF startupFails
<1>7. CASE startReporter
  BY <1>7, ReporterInv
<1>8. CASE waitForShutdown
  BY <1>8, ReturnInv DEF waitForShutdown
<1>9. CASE reporterStops
  BY <1>9, StopsInv
<1>10. ASSUME NEW done, closePortMapper(done) PROVE RulesInv'
  BY <1>10, MapperClosedInv
<1>11. CASE Exit
  BY <1>11, GoneInv DEF Exit
<1>12. CASE Crash
  BY <1>12, GoneInv DEF Crash
<1>13. CASE Reboot
  BY <1>13, RebootInv
<1>14. ASSUME NEW attempt, mapperSteps(attempt) PROVE RulesInv'
  BY <1>14, AsideInv DEF mapperSteps
<1>15. CASE routerForgets
  BY <1>15, AsideInv DEF routerForgets
<1>16. ASSUME NEW f, HostWrites(f) PROVE RulesInv'
  BY <1>16, AsideInv DEF HostWrites
<1>17. CASE resolvedToggles
  BY <1>17, AsideInv DEF resolvedToggles
<1>18. ASSUME NEW b, backendChanges(b) PROVE RulesInv'
  BY <1>18, AsideInv DEF backendChanges
<1>19. CASE Tick
  BY <1>19, AsideInv DEF Tick
<1>20. CASE UNCHANGED vars
  BY <1>20, AsideInv DEF vars
<1>21. CASE withoutReporter
  BY <1>21, AloneInv
<1>. QED
  BY <1>1, <1>2, <1>3, <1>4, <1>5, <1>6, <1>7, <1>8, <1>9, <1>10, <1>11, <1>12, <1>13, <1>14, <1>15,
     <1>16, <1>17, <1>18, <1>19, <1>20, <1>21 DEF Next, ProcNext, EnvNext

(* The invariant, between two syncs, is what the rules promise. *)
LEMMA Tracked == RulesInv => RulesTracked
<1>. SUFFICES ASSUME RulesInv, stage = "running", Idle("reporter"), "rules" \notin cut
              PROVE  /\ policy # {} => flags["reporter"].exitRoutesOn
                     /\ masq # {} \/ "exit" \in Range(forward) => flags["reporter"].exitNATOn
                     /\ flags["reporter"].exitNATOn => forward # <<>> /\ Head(forward) = "exit"
                     /\ "acl" \in Range(forward) => aclChain = "filled"
  BY DEF RulesTracked
<1>1. SyncRules /\ cmds["reporter"] = <<>> /\ prog["reporter"] = <<>>
  BY DEF RulesInv, Idle
<1>2. /\ ExitTracked(<<>>, flags["reporter"].exitRoutesOn, flags["reporter"].exitNATOn, policy, masq, forward)
      /\ DenyFilled(<<>>, forward, aclChain)
      /\ JumpFirst(<<>>, <<>>, flags["reporter"].exitNATOn, forward)
  BY <1>1 DEF SyncRules
<1>3. ~ExitNATToCome(<<>>)
  BY NothingToCome DEF ExitNATToCome
<1>. QED  BY <1>2, <1>3, NothingToCome DEF ExitTracked, DenyFilled, JumpFirst

(* The invariant, once the cleanup is done, is what the start promises. *)
LEMMA Clean == RulesInv => StartsClean
<1>. SUFFICES ASSUME RulesInv, stage = "starting", "rules" \notin cut, prog["runner"] # <<>>,
                     Head(prog["runner"]) = "startupState"
              PROVE  policy = {} /\ masq = {} /\ "exit" \notin Range(forward)
  BY DEF StartsClean
<1>1. Begun \in 0..13 /\ Head(prog["runner"]) = startProgram[Begun + 1]
  BY StartStands DEF RulesInv
<1>2. Begun = 4
  <2>1. Begun + 1 \in 1..14
    BY <1>1
  <2>2. Begun + 1 = 5
    BY <1>1, <2>1, StartOrder
  <2>. QED  BY <1>1, <2>2
<1>3. Clearing(<<>>, policy, masq, forward)
  BY <1>2 DEF RulesInv, StartRules, StartAt
<1>. QED  BY <1>3, NothingToCome DEF Clearing

(* Between syncs (applySync), unless a command failed half-way, the          *)
(* reporter's flags tell of whatever exit state the host has, the exit jump  *)
(* is the first in FORWARD, and a jump to the ACL chain leads to a full one. *)
THEOREM RulesAreTracked == Spec => []RulesTracked
<1>1. RulesInv /\ [Next]_vars => RulesInv'
  BY NextInv
<1>. QED  BY <1>1, InitInv, Tracked, PTL DEF Spec

(* The daemon enrolls only once its cleanup of an earlier run has taken every *)
(* exit rule away (run, cleanupExitState), or a command failed.               *)
THEOREM StartIsClean == Spec => []StartsClean
<1>1. RulesInv /\ [Next]_vars => RulesInv'
  BY NextInv
<1>. QED  BY <1>1, InitInv, Clean, PTL DEF Spec

=============================================================================
