----------------------------- MODULE SelfAddress ----------------------------
(***************************************************************************)
(* A running agent takes over a new overlay address (applySelfAssignment in *)
(* cmd/agent/telemetry.go, replaceIPAddress in iface_linux.go): the new one *)
(* is added to the interface, the old one removed, and only then does the   *)
(* reporter take the new one for its own.  A call that fails ends the sync; *)
(* the next one tries again.                                                *)
(*                                                                         *)
(* An address is a subnet and a host in it.                                 *)
(***************************************************************************)
EXTENDS Integers, Sequences, Subsequence

CONSTANTS
  Assignments,    \* what a peer may be assigned: per family an address, or NoAddress
  MaxAssignments  \* bound on changes of it

VARIABLES
  assigned,   \* the assignment the control plane answers with
  iface,      \* per family: the interface's addresses, in the order they were added
  self,       \* t.selfAddr, t.selfAddr6
  todo,       \* the calls of the sync under way
  promotes,   \* net.ipv4.conf.*.promote_secondaries
  swept,      \* history: a removal took another address along
  stuck,      \* history: the removal after an addition failed
  assignments \* history: changes so far

addrVars == <<assigned, iface, self, todo, promotes, swept, stuck, assignments>>

Families == {4, 6}
NoAddress == <<0, 0>>

(* An overlay is an IPv4 network with or without an IPv6 one beside it. *)
ASSUME AssignmentAssumption ==
  \A m \in Assignments : DOMAIN m = Families /\ m[4] # NoAddress

Call(name, f, a) == [do |-> name, fam |-> f, addr |-> a]

(* An IPv4 address behind another of its subnet is a secondary one; it goes *)
(* with the first unless the kernel promotes it.                            *)
Swept(f, a) ==
  {b \in Range(iface[f]) \ {a} :
     /\ f = 4 /\ ~promotes /\ b[1] = a[1]
     /\ \E i \in DOMAIN iface[f] : iface[f][i] = a /\ \A j \in 1..(i - 1) : iface[f][j][1] # a[1]}

(* Mutant: the old address goes first. *)
replaceRemovingFirst(f, old, new) ==
  IF old = new THEN <<>>
  ELSE (IF old = NoAddress THEN <<>> ELSE <<Call("AddrDel", f, old)>>)
       \o (IF new = NoAddress THEN <<>> ELSE <<Call("AddrAdd", f, new)>>)

(* Mutant: the old address stays. *)
replaceKeepingOld(f, old, new) ==
  IF old = new \/ new = NoAddress THEN <<>> ELSE <<Call("AddrAdd", f, new)>>

replaceIPAddress(f, old, new) ==
  IF old = new THEN <<>>
  ELSE (IF new = NoAddress THEN <<>> ELSE <<Call("AddrAdd", f, new)>>)
       \o (IF old = NoAddress THEN <<>> ELSE <<Call("AddrDel", f, old)>>)

adoptAddress(f) ==
  IF self[f] = assigned[f] THEN <<>>
  ELSE replaceIPAddress(f, self[f], assigned[f]) \o <<Call("selfAddr", f, assigned[f])>>

applySelfAssignment ==
  /\ todo = <<>> /\ self # assigned
  /\ todo' = adoptAddress(4) \o adoptAddress(6)
  /\ UNCHANGED <<assigned, iface, self, promotes, swept, stuck, assignments>>

(* Adding what is there and removing what is not are errors. *)
Possible(c) ==
  CASE c.do = "AddrAdd" -> c.addr \notin Range(iface[c.fam])
    [] c.do = "AddrDel" -> c.addr \in Range(iface[c.fam])
    [] OTHER -> TRUE

callSucceeds ==
  LET c == Head(todo) IN
  /\ todo # <<>> /\ Possible(c)
  /\ todo' = Tail(todo)
  /\ iface' = CASE c.do = "AddrAdd" -> [iface EXCEPT ![c.fam] = Append(@, c.addr)]
                [] c.do = "AddrDel" -> [iface EXCEPT ![c.fam] =
                     Without(@, {c.addr} \cup Swept(c.fam, c.addr))]
                [] OTHER -> iface
  /\ swept' = (swept \/ (c.do = "AddrDel" /\ Swept(c.fam, c.addr) # {}))
  /\ self' = IF c.do = "selfAddr" THEN [self EXCEPT ![c.fam] = c.addr] ELSE self
  /\ UNCHANGED <<assigned, promotes, stuck, assignments>>

callFails ==
  /\ todo # <<>> /\ Head(todo).do # "selfAddr"
  /\ todo' = <<>>
  /\ stuck' = (stuck \/ (Head(todo).do = "AddrDel" /\ todo[2].addr # NoAddress))
  /\ UNCHANGED <<assigned, iface, self, promotes, swept, assignments>>

(* UpdatePeerAddress or a migration. *)
controlPlaneAssigns(m) ==
  /\ assignments < MaxAssignments /\ assignments' = assignments + 1
  /\ m # assigned /\ assigned' = m
  /\ UNCHANGED <<iface, self, todo, promotes, swept, stuck>>

Fresh(m) == [f \in Families |-> IF m[f] = NoAddress THEN <<>> ELSE <<m[f]>>]

(* The interface is deleted and set up with what enrollment answers. *)
agentRestarts ==
  /\ iface' = Fresh(assigned)
  /\ self' = assigned
  /\ todo' = <<>>
  /\ swept' = FALSE /\ stuck' = FALSE
  /\ UNCHANGED <<assigned, promotes, assignments>>

AddrInit ==
  /\ assigned \in Assignments
  /\ iface = Fresh(assigned)
  /\ self = assigned
  /\ todo = <<>>
  /\ promotes \in BOOLEAN
  /\ swept = FALSE /\ stuck = FALSE
  /\ assignments = 0

AddrNext ==
  \/ applySelfAssignment \/ callSucceeds \/ callFails \/ agentRestarts
  \/ \E m \in Assignments : controlPlaneAssigns(m)

AddrSpec == AddrInit /\ [][AddrNext]_addrVars

-----------------------------------------------------------------------------
(* Properties *)

(* An agent that is moved, also back and forth, with additions and removals *)
(* that fail and syncs that start over, is never without an IPv4 address    *)
(* (replaceIPAddress adds before it removes); except when the kernel took   *)
(* the new address away together with the old one.                          *)
NeverUnaddressed == ~swept => iface[4] # <<>>

(* "The control plane [can] re-IP the mesh and have running agents adopt    *)
(* their new address without a process restart" (applySync): in the end the *)
(* interface has the assigned addresses and no other, whatever additions    *)
(* failed on the way.  Two cases are excepted.  A failed removal of the old *)
(* one is not made up for: every later sync ends at adding the new one,     *)
(* which is there already.  And a new one that the kernel took away with    *)
(* the old is not added again, as the agent believes to have it.            *)
AddressAdopted == <>[](swept \/ stuck \/ (iface = Fresh(assigned) /\ self = assigned))

=============================================================================
