---------------------------- MODULE MCAgentHost -----------------------------
(* A small host and one agent after the other on it, the way of a           *)
(* configuration change to a running agent, a running agent's change of     *)
(* address, and its checks of the NAT.  A behaviour is about one of these.  *)
EXTENDS AgentHost, ConfigSync, SelfAddress, NatCheck

(* Manages nothing, listens on port 1, in one network. *)
Plain == [mode |-> "off", backends |-> {}, ports |-> {1}, portMapping |-> FALSE,
          natCIDRs |-> FALSE, roles |-> {}, nets |-> {"n1"}]

(* Agents that differ in what they do to their host. *)
SomeConfigs ==
  {Plain,
   [Plain EXCEPT !.mode = "auto"],
   [Plain EXCEPT !.backends = Backends, !.ports = Ports],
   [Plain EXCEPT !.portMapping = TRUE],
   [Plain EXCEPT !.roles = {"client", "v6"}],
   [Plain EXCEPT !.roles = {"exit"}, !.nets = Nets],
   [Plain EXCEPT !.roles = {"exit", "deny", "routes"}],
   [Plain EXCEPT !.roles = {"exit", "deny"}, !.natCIDRs = TRUE]}

(* What the host uses, and what it is rewritten to. *)
HostNS == {<<"h2", "h1", "h2">>, <<"h3">>}
PushNS == {<<"m1">>, <<"m2", "h1">>}

(* Two subnets, one with two addresses; IPv6 comes and goes. *)
SomeAssignments ==
  {[f \in Families |-> IF f = 4 THEN a ELSE b] :
     a \in {<<1, 1>>, <<1, 2>>, <<2, 1>>}, b \in {NoAddress, <<1, 1>>, <<1, 2>>}}

SomeSurroundings ==
  {[wan |-> "w1", kind |-> "cone", v6 |-> "g1"],
   [wan |-> "w1", kind |-> "symmetric", v6 |-> NoHost],
   [wan |-> "w2", kind |-> "symmetric", v6 |-> "g1"]}

VARIABLE about
allVars == <<about, vars, syncVars, addrVars, natVars>>

AllInit ==
  /\ about \in {"host", "config", "address", "nat"}
  /\ Init /\ SyncInit /\ AddrInit /\ NatInit
  /\ about # "host" => cfg = Plain
  /\ cfg.mode = "off" => conf = CHOOSE f \in HostFiles : TRUE
  /\ about # "address" => promotes /\ assigned = CHOOSE m \in Assignments : TRUE
  /\ about # "nat" => opts.pinned /\ opts.stun /\ opts.noIPv6 /\ told = 2
                       /\ nat = CHOOSE n \in Surroundings : TRUE

AllNext ==
  \/ about = "host" /\ Next /\ UNCHANGED <<about, syncVars, addrVars, natVars>>
  \/ about = "config" /\ SyncNext /\ UNCHANGED <<about, vars, addrVars, natVars>>
  \/ about = "address" /\ AddrNext /\ UNCHANGED <<about, vars, syncVars, natVars>>
  \/ about = "nat" /\ NatNext /\ UNCHANGED <<about, vars, syncVars, addrVars>>

(* Admin handlers and reports come to an end, and again and again a report  *)
(* of the ticker succeeds.                                                  *)
ConfigFairness ==
  /\ WF_syncVars(about = "config" /\ Publish)
  /\ WF_syncVars(about = "config" /\ Proceed)
  /\ SF_syncVars(about = "config" /\ syncOnce("tick", {}))

(* The reporter syncs again and again, and a call does not fail for ever. *)
AddressFairness ==
  /\ WF_addrVars(about = "address" /\ applySelfAssignment)
  /\ SF_addrVars(about = "address" /\ callSucceeds)

(* Ticks and checks go on, and an answer that is not lost arrives. *)
NatFairness ==
  /\ WF_natVars(about = "nat" /\ maybeNATCheck)
  /\ WF_natVars(about = "nat" /\ (CheckSteps \/ Heard(1) \/ Heard(2)))

AllSpec ==
  AllInit /\ [][AllNext]_allVars /\ ConfigFairness /\ AddressFairness /\ NatFairness
=============================================================================
