----------------------------- MODULE HostRules ------------------------------
(***************************************************************************)
(* The agent's policy routing, NAT, forwarding and ACL rules on the host    *)
(* (exitnode_linux.go, gateway_linux.go, acl_linux.go, mss_linux.go).  An   *)
(* operation is the sequence of netlink and iptables calls it makes; where  *)
(* IPv4 and IPv6 tables get the same calls in a row, one stands for both.   *)
(***************************************************************************)
EXTENDS Integers, Sequences, Functions

CONSTANT Nets  \* overlay networks a migration moves between

VARIABLES
  link,     \* the interface exists
  policy,   \* exit client: routes and policy rules, per family
  forward,  \* the jumps and accepts at the head of FORWARD, in order
  masq,     \* exit node: masquerading rules, by the network they name
  gatewayNAT, \* gateway: the masquerading rules of --gateway-nat-cidrs
  aclChain, \* the ACL chains: absent, flushed, or filled down to the DROP
  mss       \* the MSS clamp

ruleVars == <<link, policy, forward, masq, gatewayNAT, aclChain, mss>>

RuleCmd(d, x) == [on |-> "rule", do |-> d, arg |-> x]
Flag(name, value) == [on |-> "flag", do |-> name, arg |-> value]
Defer(op) == [on |-> "defer", do |-> op, arg |-> 0]

(* The jumps without the one to a chain.  None is inserted twice, so that a  *)
(* second iptables -D finds nothing (deleteTablesRule).                     *)
Absent(rule) ==
  LET n == Len(forward)
      i == CHOOSE k \in 1..n : forward[k] = rule
  IN  IF rule \in Range(forward)
      THEN [k \in 1..(n - 1) |-> IF k < i THEN forward[k] ELSE forward[k + 1]]
      ELSE forward
Ensured(rule) == IF rule \in Range(forward) THEN forward ELSE <<rule>> \o forward

-----------------------------------------------------------------------------
(* Exit node, client role *)

deleteExitFamily(f) ==
  <<RuleCmd("ruleDel", <<f, "fwmark">>), RuleCmd("ruleDel", <<f, "suppress">>),
    RuleCmd("routeDel", f)>>

teardownExitRoutes == deleteExitFamily(4) \o deleteExitFamily(6)

addExitFamily(f) ==
  <<RuleCmd("policyAdd", <<f, "route">>), RuleCmd("policyAdd", <<f, "suppress">>),
    RuleCmd("policyAdd", <<f, "fwmark">>)>>

applyExitRoutes(on, v6, enabled) ==
  IF ~on THEN IF enabled THEN teardownExitRoutes \o <<Flag("exitRoutesOn", FALSE)>> ELSE <<>>
  ELSE IF ~link THEN <<RuleCmd("refuse", 0)>>
  ELSE addExitFamily(4) \o (IF v6 THEN addExitFamily(6) ELSE <<>>) \o <<Flag("exitRoutesOn", TRUE)>>

-----------------------------------------------------------------------------
(* Exit node, exit role *)

(* The masquerading rules are found by their comment, whatever network they *)
(* were installed for.                                                      *)
teardownExitNAT == <<RuleCmd("forwardDel", "exit"), RuleCmd("masqDel", 0)>>

ensureExitJumpFirst == RuleCmd("forwardFirst", "exit")

applyExitNodeNAT(on, net, enabled) ==
  IF ~on THEN IF enabled THEN teardownExitNAT \o <<Flag("exitNATOn", FALSE)>> ELSE <<>>
  ELSE <<ensureExitJumpFirst, RuleCmd("masqAdd", net), Flag("exitNATOn", TRUE)>>

(* Mutant: a crash is taken to have left nothing but policy rules. *)
cleanupExitRoutes == teardownExitRoutes

cleanupExitState == teardownExitRoutes \o teardownExitNAT

-----------------------------------------------------------------------------
(* Gateway, ACL, MSS *)

ensureGatewayNATRules == <<RuleCmd("forwardEnsure", "gateway"), RuleCmd("gatewayNAT", TRUE)>>

cleanupGatewayNAT == <<RuleCmd("gatewayNATDel", FALSE), RuleCmd("forwardDel", "gateway")>>

applyGatewayRoutes(routed, enabled) ==
  IF routed THEN <<RuleCmd("forwardEnsure", "gateway"), Flag("gatewayForwardOn", TRUE)>>
  ELSE IF enabled THEN <<RuleCmd("forwardDel", "gateway"), Flag("gatewayForwardOn", FALSE)>>
  ELSE <<>>

(* Flushed first, hooked in, then filled; without a deny policy unhooked    *)
(* and deleted.                                                             *)
applyOverlayACL(deny) ==
  IF deny THEN <<RuleCmd("aclFlush", 0), RuleCmd("forwardEnsure", "acl"), RuleCmd("aclFill", 0)>>
  ELSE <<RuleCmd("forwardDel", "acl"), RuleCmd("aclDel", 0)>>

enableMSSClamp == <<RuleCmd("mss", TRUE)>>
removeMSSClamp == <<RuleCmd("mss", FALSE)>>

(* Calls whose error ends the operation; deletions go on, and the ACL chains *)
(* are filled although the jump to them is not there (ensureJump).          *)
RuleMust ==
  {"refuse", "policyAdd", "forwardFirst", "forwardEnsure", "masqAdd", "gatewayNAT", "aclFlush",
   "aclFill"}
RuleEnds(c) == c.do \in RuleMust /\ ~(c.do = "forwardEnsure" /\ c.arg = "acl")

RuleDo(c) ==
  /\ link' = CASE c.do = "linkAdd" -> TRUE [] c.do = "linkDel" -> FALSE [] OTHER -> link
  /\ policy' = CASE c.do = "policyAdd" -> policy \cup {c.arg}
                 [] c.do = "ruleDel" -> policy \ {c.arg}
                 [] c.do = "routeDel" -> policy \ {<<c.arg, "route">>}
                 [] c.do = "linkDel" -> {r \in policy : r[2] # "route"}
                 [] OTHER -> policy
  /\ forward' = CASE c.do = "forwardEnsure" -> Ensured(c.arg)
                  [] c.do = "forwardFirst" -> <<c.arg>> \o Absent(c.arg)
                  [] c.do = "forwardDel" -> Absent(c.arg)
                  [] OTHER -> forward
  /\ masq' = CASE c.do = "masqAdd" -> masq \cup {c.arg}
               [] c.do = "masqDel" -> {}
               [] OTHER -> masq
  /\ gatewayNAT' = IF c.do \in {"gatewayNAT", "gatewayNATDel"} THEN c.arg ELSE gatewayNAT
  /\ aclChain' = CASE c.do = "aclFlush" -> "flushed"
                   [] c.do = "aclFill" -> "filled"
                   [] c.do = "aclDel" -> "absent"
                   [] OTHER -> aclChain
  /\ mss' = IF c.do = "mss" THEN c.arg ELSE mss

RuleInit ==
  /\ link = FALSE
  /\ policy = {}
  /\ forward = <<>>
  /\ masq = {}
  /\ gatewayNAT = FALSE
  /\ aclChain = "absent"
  /\ mss = FALSE

=============================================================================
