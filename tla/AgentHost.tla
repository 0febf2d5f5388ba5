----------------------------- MODULE AgentHost ------------------------------
(***************************************************************************)
(* One agent process on its host (cmd/agent/runner.go and the reporter of   *)
(* telemetry.go): it starts, applies what the control plane says, stops or  *)
(* is killed, and starts again.  The runner and the reporter are two        *)
(* goroutines.  Each works through operations; an operation reads the host  *)
(* when it begins and then carries out its commands one by one.             *)
(***************************************************************************)
EXTENDS ResolvConf, HostFirewall, HostRules, PortMapper

CONSTANT
  Configs  \* agents and their hosts: command line, firewalls, ports, networks and roles

VARIABLES
  cfg,      \* the agent considered
  stage,    \* of the process
  prog,     \* operations to come, per goroutine
  at,       \* the runner's operation under way; whether the reporter runs
  cmds,     \* its commands to come
  using,    \* the answer of the control plane it works from
  flags,    \* what the goroutine believes to be installed
  deferred, \* the runner's deferred calls
  hostFile, \* history: what others last wrote to resolv.conf
  cut       \* history: interruptions the code has no answer to

procVars == <<cfg, stage, prog, at, cmds, using, flags, deferred>>
hostVars == <<confVars, fwVars, ruleVars, mapVars>>
vars == <<procVars, hostVars, hostFile, cut>>

Procs == {"runner", "reporter"}
Up == {"starting", "running", "alone", "stopping"}

(* What an answer can say: DNS settings, the roles in force, the network. *)
Payloads ==
  [dns : IF cfg.mode = "off" THEN {NoDNS} ELSE DNSConfigs, roles : SUBSET cfg.roles, net : cfg.nets]
NoPayload == [dns |-> NoDNS, roles |-> {}, net |-> CHOOSE n \in Nets : TRUE]

(* No settings applied and none at all (lastDNS "") are not told apart: the *)
(* first disabled settings are passed over either way.                      *)
NoFlags ==
  [exitRoutesOn |-> FALSE, exitNATOn |-> FALSE, gatewayForwardOn |-> FALSE,
   dnsApplied |-> FALSE, lastDNS |-> NoDNS]

-----------------------------------------------------------------------------
(* Operations *)

startProgram ==
  <<"deleteInterface", "cleanupExitState", "restoreResolvConf", "openFirewall", "startupState",
    "setupInterface", "initialDNS", "enableMSSClamp", "initialACL", "enableGatewayNAT",
    "applyGatewayRoutes", "applyExitRoutes", "applyExitNodeNAT", "startReporter">>

syncProgram ==
  <<"applyDNS", "applyOverlayACL", "refreshGatewayNAT", "applyGatewayRoutes",
    "applyExitRoutes", "applyExitNodeNAT">>

(* The reporter's last acts take no answer: every role is over. *)
stopProgram == <<"closePortMapper", "applyGatewayRoutes", "applyExitRoutes", "applyExitNodeNAT">>

(* Nothing to do before the first enabled settings, nor when they are the   *)
(* ones last applied.                                                       *)
applyDNS(dns, f) ==
  IF (~dns.enabled /\ ~f.dnsApplied) \/ dns = f.lastDNS THEN <<>>
  ELSE applyDNSConfig(cfg.mode, dns) \o <<Flag("dns", dns)>>

Plan(op, m, f) ==
  CASE op = "deleteInterface" -> <<RuleCmd("linkDel", 0)>>
    [] op = "cleanupExitState" -> cleanupExitState
    [] op = "restoreResolvConf" -> restoreResolvConf(cfg.mode)
    [] op = "openFirewall" -> IF cfg.backends # {} THEN openFirewall(listenPort) \o <<Defer("Close")>>
                              ELSE <<>>
    [] op = "Close" -> Close
    [] op = "setupInterface" -> <<RuleCmd("linkAdd", 0)>>
    [] op = "initialDNS" -> IF m.dns.enabled THEN applyDNSConfig(cfg.mode, m.dns) ELSE <<>>
    [] op = "applyDNS" -> applyDNS(m.dns, f)
    [] op = "enableMSSClamp" -> enableMSSClamp \o <<Defer("removeMSSClamp")>>
    [] op = "removeMSSClamp" -> removeMSSClamp
    [] op \in {"initialACL", "applyOverlayACL"} -> applyOverlayACL("deny" \in m.roles)
    [] op = "enableGatewayNAT" -> IF cfg.natCIDRs
                                  THEN ensureGatewayNATRules \o <<Defer("cleanupGatewayNAT")>>
                                  ELSE <<>>
    [] op = "refreshGatewayNAT" -> IF cfg.natCIDRs THEN ensureGatewayNATRules ELSE <<>>
    [] op = "cleanupGatewayNAT" -> cleanupGatewayNAT
    [] op = "applyGatewayRoutes" -> applyGatewayRoutes("routes" \in m.roles, f.gatewayForwardOn)
    [] op = "applyExitRoutes" ->
         applyExitRoutes("client" \in m.roles, "v6" \in m.roles, f.exitRoutesOn)
    [] op = "applyExitNodeNAT" -> applyExitNodeNAT("exit" \in m.roles, m.net, f.exitNATOn)

(* Mutant: the reporter starts without knowing what the runner installed. *)
seedNothing(f) == NoFlags

(* "Seed with what the runner already installed": both exit roles, and      *)
(* nothing of the gateway role or of DNS.                                   *)
seed(f) == [NoFlags EXCEPT !.exitRoutesOn = f.exitRoutesOn, !.exitNATOn = f.exitNATOn]

-----------------------------------------------------------------------------
(* Carrying them out *)

Idle(p) == prog[p] = <<>> /\ cmds[p] = <<>>

(* resolv.conf is gone or empty until the write that follows. *)
Torn(p) == cmds[p] # <<>> /\ Head(cmds[p]).do \in {"openConf", "writeConf"}

(* The rule is open and not on record yet. *)
Unrecorded(p) == cmds[p] # <<>> /\ Head(cmds[p]).do \in {"append", "persist"}

Killed ==
  cut \cup (IF \E p \in Procs : Torn(p) THEN {"conf"} ELSE {})
      \cup (IF \E p \in Procs : Unrecorded(p) THEN {"fw"} ELSE {})

(* A deletion of what is not there fails and changes nothing. *)
Matters(c) ==
  CASE c.do = "ruleDel" -> c.arg \in policy
    [] c.do = "routeDel" -> <<c.arg, "route">> \in policy
    [] c.do = "forwardDel" -> c.arg \in Range(forward)
    [] c.do = "masqDel" -> masq # {}
    [] c.do = "gatewayNATDel" -> gatewayNAT
    [] c.do = "aclDel" -> aclChain # "absent"
    [] c.do = "linkDel" -> link
    [] c.do = "dropBackup" -> backup # Missing
    [] OTHER -> TRUE

(* An operation works on resolv.conf or its backup; it has read resolv.conf *)
(* and will write it.                                                       *)
OnConf(s) == \E i \in DOMAIN s :
               s[i].on = "conf" /\ s[i].do \notin {"resolvectl", "revert"} \cup ConfRefusals
ConfPending(p) == \E i \in DOMAIN cmds[p] : cmds[p][i].do = "writeConf"

(* Bound: a host that an interruption has damaged for good is followed only *)
(* while the process stops.                                                 *)
Undamaged == cut \subseteq {"router"}

(* An operation that is a step of its own is not begun here. *)
Begin(p) ==
  /\ Undamaged \/ stage = "stopping"
  /\ cmds[p] = <<>> /\ prog[p] # <<>>
  /\ Head(prog[p]) \notin {"startupState", "startReporter", "closePortMapper"}
  /\ Head(prog[p]) = "openFirewall" => listenPort # 0
  /\ cmds' = [cmds EXCEPT ![p] = Plan(Head(prog[p]), using[p], flags[p])]
  /\ at' = IF p = "runner" THEN [at EXCEPT ![p] = Head(prog[p])] ELSE at
  /\ prog' = [prog EXCEPT ![p] = Tail(@)]
  /\ cut' = IF OnConf(cmds'[p]) /\ \E q \in Procs \ {p} : OnConf(cmds[q])
            THEN cut \cup {"conf"} ELSE cut
  /\ UNCHANGED <<cfg, stage, using, flags, deferred, hostVars, hostFile>>

Do(p) ==
  LET c == Head(cmds[p]) IN
  /\ cmds[p] # <<>>
  /\ c.do \notin ConfRefusals
  /\ cmds' = [cmds EXCEPT ![p] = Tail(@)]
  /\ IF c.on = "conf" THEN ConfDo(c) ELSE UNCHANGED confVars
  /\ IF c.on = "fw" THEN FwDo(c) ELSE UNCHANGED fwVars
  /\ IF c.on = "rule" THEN RuleDo(c) ELSE UNCHANGED ruleVars
  /\ flags' = CASE c.on = "flag" /\ c.do = "dns" ->
                     [flags EXCEPT ![p].dnsApplied = c.arg.enabled, ![p].lastDNS = c.arg]
                [] c.on = "flag" /\ c.do # "dns" -> [flags EXCEPT ![p][c.do] = c.arg]
                [] OTHER -> flags
  /\ deferred' = IF c.on = "defer" THEN <<c.do>> \o deferred ELSE deferred
  /\ UNCHANGED <<cfg, stage, prog, at, using, mapVars, hostFile, cut>>

(* The runner returns: its deferred calls, last first. *)
Return ==
  /\ prog' = [prog EXCEPT !["runner"] = deferred]
  /\ deferred' = <<>>
  /\ stage' = "stopping"

(* What a failing command leaves that nothing repairs. *)
Harm(c) ==
  CASE c.on = "conf" /\ c.do \in {"openConf", "writeConf"} -> {"conf"}
    [] c.on = "fw" /\ c.do \in {"remove", "teardown", "persist"} -> {"fw"}
    [] c.on = "rule" /\ c.do \notin {"refuse", "linkAdd"} -> {"rules"}
    [] OTHER -> {}

(* An operation ends with an error: of its caller only the deferred call is *)
(* left, if there is one and the caller goes on.                            *)
AfterError(p) ==
  LET last == cmds[p][Len(cmds[p])]
  IN  IF last.on = "defer" /\ at[p] # "enableGatewayNAT" THEN <<last>> ELSE <<>>

(* A command fails, or cannot succeed.  Failures after one that has done    *)
(* harm are not looked at.                                                  *)
Fail(p) ==
  LET c == Head(cmds[p]) IN
  /\ cmds[p] # <<>> /\ Matters(c)
  /\ c.on \in {"conf", "rule"} \/ c.do \in FwMay
  /\ c.do \in ConfRefusals \/ cut = {}
  /\ cut' = cut \cup Harm(c)
  /\ cmds' = [cmds EXCEPT ![p] =
       IF c.do \in ConfMust \cup FwMust \cup {"linkAdd"} \/ RuleEnds(c)
       THEN AfterError(p) ELSE Tail(@)]
  /\ flags' = IF c.do = "unsupported" /\ p = "reporter"
              THEN [flags EXCEPT ![p].dnsApplied = FALSE, ![p].lastDNS = using[p].dns] ELSE flags
  /\ IF p = "runner" /\ at[p] \in {"setupInterface", "enableGatewayNAT"} THEN Return
     ELSE UNCHANGED <<prog, deferred, stage>>
  /\ UNCHANGED <<cfg, at, using, hostVars, hostFile>>

-----------------------------------------------------------------------------
(* The life of the process *)

Start ==
  /\ stage \notin Up /\ Undamaged
  /\ stage' = "starting"
  /\ prog' = [prog EXCEPT !["runner"] = startProgram]
  /\ UNCHANGED <<cfg, at, cmds, using, flags, deferred, hostVars, hostFile, cut>>

resolvePort(free) ==
  /\ prog["runner"] # <<>> /\ Head(prog["runner"]) = "openFirewall" /\ cmds["runner"] = <<>>
  /\ listenPort = 0
  /\ listenPort' = resolveListenPort(free)
  /\ portFile' = savedPort(free)
  /\ UNCHANGED <<active, hole, stateFile, manager, procVars, confVars, ruleVars, mapVars, hostFile,
                 cut>>

(* Enrollment answers; a transient failure is tried again. *)
startupState(m) ==
  /\ prog["runner"] # <<>> /\ Head(prog["runner"]) = "startupState" /\ cmds["runner"] = <<>>
  /\ using' = [using EXCEPT !["runner"] = m]
  /\ prog' = [prog EXCEPT !["runner"] = Tail(@)]
  /\ deferred' = <<"restoreResolvConf", "deleteInterface">> \o deferred
  /\ UNCHANGED <<cfg, stage, at, cmds, flags, hostVars, hostFile, cut>>

(* A permanent refusal, or stopped while retrying (isPermanentStartupErr);  *)
(* the device cannot be opened or configured; the transport is not known.   *)
startupFails ==
  /\ stage = "starting" /\ cmds["runner"] = <<>>
  /\ prog["runner"] # <<>> /\ Head(prog["runner"]) \in {"startupState", "initialACL", "startReporter"}
  /\ Return
  /\ UNCHANGED <<cfg, at, cmds, using, flags, hostVars, hostFile, cut>>

startReporter ==
  /\ prog["runner"] = <<"startReporter">> /\ cmds["runner"] = <<>>
  /\ stage' = "running"
  /\ prog' = [prog EXCEPT !["runner"] = <<>>]
  /\ flags' = [p \in Procs |-> IF p = "reporter" THEN seed(flags["runner"]) ELSE NoFlags]
  /\ using' = [p \in Procs |-> NoPayload]
  /\ mapper' = IF cfg.portMapping THEN newPortMapper ELSE mapper
  /\ at' = [at EXCEPT !["reporter"] = "run"]
  /\ UNCHANGED <<cfg, cmds, deferred, confVars, fwVars, ruleVars, lease, hostFile, cut>>

(* No reporter can be made: "telemetry init failed", and the agent goes on  *)
(* without one.                                                             *)
withoutReporter ==
  /\ prog["runner"] = <<"startReporter">> /\ cmds["runner"] = <<>>
  /\ stage' = "alone"
  /\ prog' = [prog EXCEPT !["runner"] = <<>>]
  /\ flags' = [p \in Procs |-> NoFlags]
  /\ using' = [p \in Procs |-> NoPayload]
  /\ UNCHANGED <<cfg, at, cmds, deferred, hostVars, hostFile, cut>>

(* A report is answered.  The select may pick the ticker once more although *)
(* the stop channel is closed.  A peer that cannot be read ends it early.   *)
applySync(m, readable) ==
  /\ Undamaged
  /\ at["reporter"] \notin {"none", "stopped"} /\ Idle("reporter")
  /\ using' = [using EXCEPT !["reporter"] = m]
  /\ prog' = [prog EXCEPT !["reporter"] = IF readable THEN syncProgram ELSE <<"applyDNS">>]
  /\ UNCHANGED <<cfg, stage, at, cmds, flags, deferred, hostVars, hostFile, cut>>

waitForShutdown ==
  /\ stage \in {"running", "alone"} /\ Return
  /\ UNCHANGED <<cfg, at, cmds, using, flags, hostVars, hostFile, cut>>

reporterStops ==
  /\ stage = "stopping" /\ Idle("reporter") /\ at["reporter"] \notin {"none", "stopped"}
  /\ using' = [using EXCEPT !["reporter"] = [@ EXCEPT !.roles = {}]]
  /\ prog' = [prog EXCEPT !["reporter"] = stopProgram]
  /\ at' = [at EXCEPT !["reporter"] = "stopped"]
  /\ UNCHANGED <<cfg, stage, cmds, flags, deferred, hostVars, hostFile, cut>>

closePortMapper(done) ==
  /\ prog["reporter"] # <<>> /\ Head(prog["reporter"]) = "closePortMapper"
  /\ closeMapper(done)
  /\ prog' = [prog EXCEPT !["reporter"] = Tail(@)]
  /\ UNCHANGED <<cfg, stage, at, cmds, using, flags, deferred, confVars, fwVars, ruleVars,
                 hostFile, cut>>

(* The process is gone, with whatever was under way. *)
Gone(how) ==
  /\ stage' = how
  /\ prog' = [p \in Procs |-> <<>>]
  /\ cmds' = [p \in Procs |-> <<>>]
  /\ at' = [p \in Procs |-> "none"]
  /\ deferred' = <<>>
  /\ cut' = Killed
  /\ using' = [p \in Procs |-> NoPayload]
  /\ flags' = [p \in Procs |-> NoFlags]
  /\ mapper' = MapperOff
  /\ manager' = <<>> /\ listenPort' = 0
  /\ UNCHANGED <<cfg, confVars, active, hole, stateFile, portFile, ruleVars, lease, hostFile>>

(* run returns and main with it; nobody waits for the reporter. *)
Exit == stage = "stopping" /\ Idle("runner") /\ Gone("stopped")

Crash == stage \in Up /\ Gone("crashed")

(* The host restarts: what is not in a file is gone.  Of the firewalls, ufw  *)
(* keeps its rules in one.                                                  *)
Reboot ==
  /\ stage \notin Up
  /\ hole' = [b \in Backends |-> IF b = "ufw" THEN hole[b] ELSE [p \in Ports |-> 0]]
  /\ link' = FALSE /\ policy' = {} /\ forward' = <<>> /\ masq' = {}
  /\ gatewayNAT' = FALSE /\ aclChain' = "absent" /\ mss' = FALSE
  /\ UNCHANGED <<procVars, conf, backup, resolvedUp, active, stateFile, manager, portFile,
                 listenPort, mapVars, hostFile, cut>>

-----------------------------------------------------------------------------
(* Around the process *)

mapperSteps(attempt) ==
  /\ mapPort(attempt)
  /\ UNCHANGED <<procVars, confVars, fwVars, ruleVars, hostFile, cut>>

routerForgets ==
  /\ cfg.portMapping /\ RouterForgets
  /\ cut' = cut \cup {"router"}
  /\ UNCHANGED <<procVars, confVars, fwVars, ruleVars, hostFile>>

Tick ==
  /\ cfg.portMapping /\ LeaseTick
  /\ UNCHANGED <<procVars, confVars, fwVars, ruleVars, hostFile, cut>>

(* DHCP or an operator rewrites resolv.conf.  A write of the agent that is  *)
(* still to come, from what it read before, overwrites it.                  *)
HostWrites(f) ==
  /\ cfg.mode # "off" /\ conf # f
  /\ conf' = f /\ hostFile' = f
  /\ cut' = IF \E p \in Procs : ConfPending(p) THEN cut \cup {"conf"} ELSE cut
  /\ UNCHANGED <<procVars, backup, resolvedUp, fwVars, ruleVars, mapVars>>

resolvedToggles ==
  /\ cfg.mode = "auto"
  /\ resolvedUp' = ~resolvedUp
  /\ UNCHANGED <<procVars, conf, backup, fwVars, ruleVars, mapVars, hostFile, cut>>

(* Another firewall is installed or enabled.  Rules in the old one are not  *)
(* looked for again.                                                        *)
backendChanges(b) ==
  /\ stage \notin Up /\ b # active
  /\ active' = b
  /\ cut' = IF \E p \in Ports : hole[active][p] > 0 THEN cut \cup {"fw"} ELSE cut
  /\ UNCHANGED <<procVars, confVars, hole, stateFile, manager, portFile, listenPort, ruleVars,
                 mapVars, hostFile>>

Init ==
  /\ ConfInit /\ FwInit /\ RuleInit /\ MapInit
  /\ cfg \in Configs
  /\ active \in cfg.backends \/ (cfg.backends = {} /\ active = "iptables")
  /\ cfg.mode = "auto" \/ ~resolvedUp
  /\ stage = "stopped"
  /\ prog = [p \in Procs |-> <<>>]
  /\ at = [p \in Procs |-> "none"]
  /\ cmds = [p \in Procs |-> <<>>]
  /\ using = [p \in Procs |-> NoPayload]
  /\ flags = [p \in Procs |-> NoFlags]
  /\ deferred = <<>>
  /\ hostFile = conf
  /\ cut = {}

ProcNext ==
  \/ \E p \in Procs : Begin(p) \/ Do(p) \/ Fail(p)
  \/ Start
  \/ \E free \in SUBSET cfg.ports \ {{}} : resolvePort(free)
  \/ \E m \in Payloads : startupState(m) \/ \E readable \in BOOLEAN : applySync(m, readable)
  \/ startupFails \/ startReporter \/ withoutReporter \/ waitForShutdown \/ reporterStops
  \/ \E done \in BOOLEAN : closePortMapper(done)
  \/ Exit \/ Crash

EnvNext ==
  \/ Reboot
  \/ \E attempt \in Attempts : mapperSteps(attempt)
  \/ routerForgets
  \/ \E f \in HostFiles : HostWrites(f)
  \/ resolvedToggles
  \/ \E b \in cfg.backends : backendChanges(b)

Next == ProcNext \/ EnvNext \/ Tick

Spec == Init /\ [][Next]_vars

-----------------------------------------------------------------------------
(* Properties *)

(* What the host last wrote to its resolver file is in place or kept beside *)
(* the takeover: "the original file content is kept beside it"              *)
(* (dns_linux.go), whatever DHCP rewrote before, between and after          *)
(* takeovers, so that an older original never takes the place of a newer    *)
(* one, and wherever the process was killed.  A takeover names the pushed   *)
(* nameservers and behind them those of the original beside it, as many as  *)
(* the resolver looks at, and none of an earlier push: "so name resolution  *)
(* ... survives mesh DNS loss" (applyResolvConfDNS).  And a start that gets *)
(* to the control plane has put the host's file back ("on the next startup  *)
(* after a crash"), also if a late sync took over after the last stop.      *)
(* Three cases are excepted: a write of resolv.conf was cut off, the host   *)
(* rewrote the file between the agent's reading and its writing it, or      *)
(* runner and reporter worked on it at the same time.                       *)
OriginalKept ==
  "conf" \notin cut =>
    /\ \/ conf = hostFile
       \/ backup = hostFile /\ (conf.by = "agent" \/ \E p \in Procs : ConfPending(p))
    /\ conf.by = "agent" =>
         /\ \E l \in Pushes : Range(l) \subseteq Range(conf.ns)
                             /\ Range(conf.ns) \subseteq Range(l) \cup Range(backup.ns)
         /\ Len(conf.ns) >= resolvConfMaxNS \/ Range(backup.ns) \subseteq Range(conf.ns)
    /\ stage = "starting" /\ prog["runner"] # <<>> /\ Head(prog["runner"]) = "startupState"
         => conf = hostFile

(* A port that was opened is on record for the next start to close, and     *)
(* opened once only (OpenWithReconcile: "closes the leak where an           *)
(* ungraceful exit left ports open forever"); and after a stop in order     *)
(* nothing is open, whatever earlier runs left behind: "a wgmesh component  *)
(* that is not running should not leave holes".  Except when the process    *)
(* ends just before the rule is recorded, a removal fails, or another       *)
(* firewall takes over.                                                     *)
HolesAccounted ==
  "fw" \notin cut =>
    \A p \in Ports :
      /\ hole[active][p] <= IF p \in Range(stateFile) \/ Unrecorded("runner") THEN 1 ELSE 0
      /\ stage = "stopped" => hole[active][p] = 0

(* A router endpoint is advertised only while the lease behind it lasts:    *)
(* renewals come in time, and a failed one withdraws it (portMapper.run).   *)
(* Unless the router has dropped the mapping sooner than it was asked to,   *)
(* by a restart or a shorter lease, which the agent does not look at.       *)
ExternalIsMapped == mapper.ext /\ "router" \notin cut => lease > 0

(* Between syncs the reporter knows of whatever exit state the host has, so *)
(* that "an assignment removed before the first sync still gets torn down"  *)
(* (startReporter); the exit jump is "ahead of every other rule - in        *)
(* particular the default-deny overlay ACL chain" (ensureExitJumpFirst),    *)
(* whatever roles and policy came and went; and a deny policy is complete.  *)
(* Unless a command failed half-way.  An agent that runs without a reporter *)
(* keeps what its start installed, and nothing is said of it here.          *)
RulesTracked ==
  stage = "running" /\ Idle("reporter") /\ "rules" \notin cut
    => /\ policy # {} => flags["reporter"].exitRoutesOn
       /\ masq # {} \/ "exit" \in Range(forward) => flags["reporter"].exitNATOn
       /\ flags["reporter"].exitNATOn => forward # <<>> /\ Head(forward) = "exit"
       /\ "acl" \in Range(forward) => aclChain = "filled"

(* A run that reaches the control plane starts without exit rules of an     *)
(* earlier one, wherever that one was killed (cleanupExitState), and of     *)
(* whatever network and families it had them.                               *)
StartsClean ==
  stage = "starting" /\ "rules" \notin cut /\ prog["runner"] # <<>>
    /\ Head(prog["runner"]) = "startupState"
    => policy = {} /\ masq = {} /\ "exit" \notin Range(forward)

=============================================================================
