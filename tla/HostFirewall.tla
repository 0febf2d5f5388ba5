---------------------------- MODULE HostFirewall ----------------------------
(***************************************************************************)
(* internal/firewall: the ports a component opens on the host's firewall,   *)
(* the file that records them, and what the next start does with it.        *)
(***************************************************************************)
EXTENDS Integers, Sequences, Functions

CONSTANTS
  Backends, \* the firewalls of this host, among firewalld, ufw, nftables, iptables
  Ports,    \* UDP ports the component may come to listen on
  Preferred \* the port asked for with --listen-port

ASSUME PortsAssumption == 0 \notin Ports

VARIABLES
  active,   \* the firewall detect finds
  hole,     \* how often a port is opened in a backend
  stateFile,\* the recorded rules, in order; NoFile when absent
  manager,  \* the rules of the running component, in order
  portFile, \* the port saved beside the key, 0 when none
  listenPort

fwVars == <<active, hole, stateFile, manager, portFile, listenPort>>

NoFile == <<0>>

FwCmd(d, x) == [on |-> "fw", do |-> d, arg |-> x]

(* The saved port, the preferred one, or any other, which is saved. *)
resolveListenPort(free) ==
  IF portFile \in free THEN portFile
  ELSE IF Preferred \in free THEN Preferred
  ELSE CHOOSE p \in free : TRUE

savedPort(free) ==
  IF {portFile, Preferred} \cap free # {} THEN portFile ELSE resolveListenPort(free)

(* firewalld and ufw know a port once; nft and iptables add another rule.   *)
Opened(n) == IF active \in {"firewalld", "ufw"} THEN 1 ELSE n + 1

(* Per rule, and for nftables the whole table. *)
removeCmds(rules) ==
  IF active = "nftables" THEN <<FwCmd("teardown", 0)>>
  ELSE [i \in DOMAIN rules |-> FwCmd("remove", rules[i])]

reconcile ==
  IF stateFile = NoFile THEN <<>>
  ELSE removeCmds(stateFile) \o <<FwCmd("forget", 0)>>

(* Mutant: the rule is opened but not recorded. *)
allowUnrecorded(p) == <<FwCmd("allow", p), FwCmd("append", p)>>

allow(p) == <<FwCmd("allow", p), FwCmd("append", p), FwCmd("persist", p)>>

openFirewall(p) == reconcile \o allow(p)

(* The last one first. *)
Close ==
  IF manager = <<>> THEN <<>>
  ELSE removeCmds([i \in DOMAIN manager |-> manager[Len(manager) + 1 - i]]) \o <<FwCmd("clearState", 0)>>

FwMust == {"allow"}
FwMay == {"allow", "remove", "teardown", "persist"}  \* calls that may fail

FwDo(c) ==
  /\ hole' = CASE c.do = "allow" -> [hole EXCEPT ![active][c.arg] = Opened(@)]
               [] c.do = "remove" -> [hole EXCEPT ![active][c.arg] = IF @ > 0 THEN @ - 1 ELSE 0]
               [] c.do = "teardown" -> [hole EXCEPT ![active] = [p \in Ports |-> 0]]
               [] OTHER -> hole
  /\ manager' = CASE c.do = "append" -> Append(manager, c.arg)
                  [] c.do = "clearState" -> <<>>
                  [] OTHER -> manager
  /\ stateFile' = CASE c.do = "persist" -> manager
                    [] c.do \in {"forget", "clearState"} -> NoFile
                    [] OTHER -> stateFile
  /\ UNCHANGED <<active, portFile, listenPort>>

FwInit ==
  /\ active \in Backends
  /\ hole = [b \in Backends |-> [p \in Ports |-> 0]]
  /\ stateFile = NoFile
  /\ manager = <<>>
  /\ portFile = 0
  /\ listenPort = 0

=============================================================================
