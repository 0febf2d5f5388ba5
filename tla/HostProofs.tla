---------------------------- MODULE HostProofs ------------------------------
(*****************************************************************************)
(* Lemmas about the commands by which the agent changes the rules of its     *)
(* host, whoever runs them.  They take the commands that are still to come,  *)
(* the flags and the rules as parameters, so that they apply before a step   *)
(* and after it.                                                             *)
(*****************************************************************************)
EXTENDS ResolvConf, HostFirewall, HostRules, TLAPS

-----------------------------------------------------------------------------
(* Sequences *)

(* A sequence, of whatever elements. *)
IsSeq(s) == s \in Seq(Range(s))

(* A sequence over any set is one. *)
LEMMA SeqIsSeq ==
  ASSUME NEW S, NEW s \in Seq(S)
  PROVE  IsSeq(s)
BY DEF IsSeq, Range

(* A sequence has a length, and its positions count up to it. *)
LEMMA IsSeqFacts ==
  ASSUME NEW s, IsSeq(s)
  PROVE  Len(s) \in Nat /\ DOMAIN s = 1..Len(s)
BY DEF IsSeq

(* Lists with the same elements at the same places are the same. *)
LEMMA SameSeq ==
  ASSUME NEW s, NEW t, IsSeq(s), IsSeq(t), Len(s) = Len(t), \A i \in 1..Len(s) : s[i] = t[i]
  PROVE  s = t
<1>1. s \in Seq(Range(s)) /\ t \in Seq(Range(t)) /\ Len(s) \in Nat
  BY DEF IsSeq
<1>2. s = [i \in 1..Len(s) |-> s[i]] /\ t = [i \in 1..Len(t) |-> t[i]]
  BY <1>1
<1>. QED  BY <1>2

(* A list is empty when it has no elements. *)
LEMMA EmptyRange ==
  ASSUME NEW s, IsSeq(s)
  PROVE  s = <<>> <=> Range(s) = {}
<1>1. s \in Seq(Range(s)) /\ Len(s) \in Nat /\ DOMAIN s = 1..Len(s)
  BY IsSeqFacts DEF IsSeq
<1>2. ASSUME Len(s) = 0 PROVE s = <<>>
  <2>1. <<>> \in Seq({}) /\ Len(<<>>) = 0
    OBVIOUS
  <2>2. IsSeq(<<>>)
    BY <2>1, SeqIsSeq
  <2>3. \A i \in 1..Len(s) : s[i] = <<>>[i]
    BY <1>2
  <2>. QED  BY <1>2, <2>1, <2>2, <2>3, SameSeq
<1>3. ASSUME Len(s) # 0 PROVE s # <<>> /\ Range(s) # {}
  <2>1. 1 \in DOMAIN s
    BY <1>1, <1>3
  <2>. QED  BY <2>1, <1>3 DEF Range
<1>4. ASSUME Len(s) = 0 PROVE Range(s) = {}
  <2>1. DOMAIN s = {}
    BY <1>1, <1>4
  <2>. QED  BY <2>1 DEF Range
<1>. QED  BY <1>2, <1>3, <1>4

(* What is left of a list of commands once its first is made. *)
LEMMA TailFacts ==
  ASSUME NEW s, IsSeq(s), s # <<>>
  PROVE  /\ IsSeq(Tail(s)) /\ Len(Tail(s)) = Len(s) - 1 /\ Len(s) >= 1
         /\ \A i \in 1..(Len(s) - 1) : Tail(s)[i] = s[i + 1]
         /\ Head(s) = s[1]
<1>1. s \in Seq(Range(s)) /\ Len(s) \in Nat /\ DOMAIN s = 1..Len(s)
  BY DEF IsSeq
<1>2. Len(s) >= 1
  BY <1>1, EmptyRange DEF Range
<1>3. /\ Tail(s) \in Seq(Range(s)) /\ Len(Tail(s)) = Len(s) - 1
      /\ \A i \in 1..(Len(s) - 1) : Tail(s)[i] = s[i + 1]
  BY <1>1, <1>2
<1>4. IsSeq(Tail(s))
  BY <1>3, SeqIsSeq
<1>. QED  BY <1>1, <1>2, <1>3, <1>4

(* r is s followed by t. *)
Joined(r, s, t) ==
  /\ IsSeq(r) /\ Len(r) = Len(s) + Len(t)
  /\ \A i \in 1..Len(s) : r[i] = s[i]
  /\ \A i \in 1..Len(t) : r[Len(s) + i] = t[i]
  /\ Range(r) = Range(s) \cup Range(t)

(* Two operations run one after the other make the commands of both. *)
LEMMA ConcatFacts ==
  ASSUME NEW s, NEW t, IsSeq(s), IsSeq(t)
  PROVE  Joined(s \o t, s, t)
<1>. DEFINE S == Range(s) \cup Range(t)
<1>1. s \in Seq(S) /\ t \in Seq(S)
  BY DEF IsSeq
<1>2. /\ s \o t \in Seq(S) /\ Len(s \o t) = Len(s) + Len(t)
      /\ \A i \in 1..Len(s) + Len(t) :
           (s \o t)[i] = IF i <= Len(s) THEN s[i] ELSE t[i - Len(s)]
  BY <1>1
<1>3. IsSeq(s \o t)
  BY <1>2, SeqIsSeq
<1>4. Len(s) \in Nat /\ Len(t) \in Nat /\ DOMAIN s = 1..Len(s) /\ DOMAIN t = 1..Len(t)
      /\ DOMAIN (s \o t) = 1..(Len(s) + Len(t))
  BY <1>1, <1>2
<1>5. /\ \A i \in 1..Len(s) : (s \o t)[i] = s[i]
      /\ \A i \in 1..Len(t) : (s \o t)[Len(s) + i] = t[i]
  BY <1>2, <1>4
<1>6. Range(s \o t) \subseteq Range(s) \cup Range(t)
  BY <1>2, <1>4 DEF Range
<1>7. Range(s) \subseteq Range(s \o t)
  BY <1>4, <1>5 DEF Range
<1>8. Range(t) \subseteq Range(s \o t)
  <2>. SUFFICES ASSUME NEW i \in 1..Len(t) PROVE t[i] \in Range(s \o t)
    BY <1>4 DEF Range
  <2>1. Len(s) + i \in DOMAIN (s \o t)
    BY <1>4
  <2>. QED  BY <2>1, <1>5 DEF Range
<1>9. Range(s \o t) = Range(s) \cup Range(t)
  BY <1>6, <1>7, <1>8
<1>. QED  BY <1>2, <1>3, <1>5, <1>9 DEF Joined

(* A list of one. *)
LEMMA Single ==
  ASSUME NEW x
  PROVE  IsSeq(<<>>) /\ IsSeq(<<x>>) /\ Len(<<x>>) = 1 /\ <<x>>[1] = x
<1>1. <<>> \in Seq({x}) /\ <<x>> \in Seq({x})
  OBVIOUS
<1>2. IsSeq(<<>>) /\ IsSeq(<<x>>)
  BY <1>1, SeqIsSeq
<1>. QED  BY <1>2

(* Lists written out are sequences of their length. *)
LEMMA Tuples ==
  ASSUME NEW x, NEW y, NEW z
  PROVE  /\ IsSeq(<<>>) /\ IsSeq(<<x>>) /\ IsSeq(<<x, y>>) /\ IsSeq(<<x, y, z>>)
         /\ Len(<<>>) = 0 /\ Len(<<x>>) = 1 /\ Len(<<x, y>>) = 2 /\ Len(<<x, y, z>>) = 3
         /\ DOMAIN <<>> = {}
<1>1. /\ <<>> \in Seq({x, y, z}) /\ <<x>> \in Seq({x, y, z})
      /\ <<x, y>> \in Seq({x, y, z}) /\ <<x, y, z>> \in Seq({x, y, z})
  OBVIOUS
<1>2. IsSeq(<<>>) /\ IsSeq(<<x>>) /\ IsSeq(<<x, y>>) /\ IsSeq(<<x, y, z>>)
  BY <1>1, SeqIsSeq
<1>. QED  BY <1>2

(* Short lists written out, joined. *)
LEMMA Joins ==
  ASSUME NEW x, NEW y, NEW z
  PROVE  /\ <<>> \o <<>> = <<>> /\ <<>> \o <<x>> = <<x>> /\ <<x>> \o <<>> = <<x>>
         /\ <<x>> \o <<y>> = <<x, y>> /\ <<x, y>> \o <<z>> = <<x, y, z>>
<1>1. <<>> \o <<>> = <<>> /\ <<>> \o <<x>> = <<x>> /\ <<x>> \o <<>> = <<x>>
  OBVIOUS
<1>2. <<x>> \o <<y>> = <<x, y>>
  <2>. DEFINE s == <<x>>  t == <<y>>  u == <<x, y>>
  <2>1. /\ IsSeq(s) /\ IsSeq(t) /\ IsSeq(u) /\ Len(s) = 1 /\ Len(t) = 1 /\ Len(u) = 2
        /\ s[1] = x /\ t[1] = y /\ u[1] = x /\ u[2] = y
    BY Tuples
  <2>. HIDE DEF s, t, u
  <2>2. IsSeq(s \o t) /\ Len(s \o t) = 2 /\ (s \o t)[1] = x /\ (s \o t)[2] = y
    BY <2>1, ConcatFacts DEF Joined
  <2>3. \A i \in 1..Len(s \o t) : (s \o t)[i] = u[i]
    BY <2>1, <2>2
  <2>4. s \o t = u
    BY <2>1, <2>2, <2>3, SameSeq
  <2>. QED  BY <2>4 DEF s, t, u
<1>3. <<x, y>> \o <<z>> = <<x, y, z>>
  <2>. DEFINE s == <<x, y>>  t == <<z>>  u == <<x, y, z>>
  <2>1. /\ IsSeq(s) /\ IsSeq(t) /\ IsSeq(u) /\ Len(s) = 2 /\ Len(t) = 1 /\ Len(u) = 3
        /\ s[1] = x /\ s[2] = y /\ t[1] = z /\ u[1] = x /\ u[2] = y /\ u[3] = z
    BY Tuples
  <2>. HIDE DEF s, t, u
  <2>2. /\ IsSeq(s \o t) /\ Len(s \o t) = 3
        /\ (s \o t)[1] = x /\ (s \o t)[2] = y /\ (s \o t)[2 + 1] = z
    <3>0. IsSeq(s) /\ IsSeq(t)
      BY <2>1
    <3>1. /\ IsSeq(s \o t) /\ Len(s \o t) = Len(s) + Len(t)
          /\ \A i \in 1..Len(s) : (s \o t)[i] = s[i]
          /\ \A i \in 1..Len(t) : (s \o t)[Len(s) + i] = t[i]
      BY <3>0, ConcatFacts DEF Joined
    <3>2. 1 \in 1..Len(s) /\ 2 \in 1..Len(s) /\ 1 \in 1..Len(t)
      BY <2>1
    <3>3. (s \o t)[1] = s[1] /\ (s \o t)[2] = s[2] /\ (s \o t)[Len(s) + 1] = t[1]
      BY <3>1, <3>2
    <3>. QED  BY <2>1, <3>1, <3>3
  <2>3. \A i \in 1..Len(s \o t) : (s \o t)[i] = u[i]
    BY <2>1, <2>2
  <2>4. s \o t = u
    BY <2>1, <2>2, <2>3, SameSeq
  <2>. QED  BY <2>4 DEF s, t, u
<1>. QED  BY <1>1, <1>2, <1>3

(* The rest of s behind its first k. *)
From(s, k) == [i \in 1..(Len(s) - k) |-> s[k + i]]

(* What is left of a program, one operation after the other. *)
LEMMA FromFacts ==
  ASSUME NEW s, IsSeq(s)
  PROVE  /\ From(s, 0) = s /\ From(s, Len(s)) = <<>>
         /\ \A k \in 0..Len(s) : /\ IsSeq(From(s, k)) /\ Len(From(s, k)) = Len(s) - k
                                 /\ \A i \in 1..(Len(s) - k) : From(s, k)[i] = s[k + i]
         /\ \A k \in 0..(Len(s) - 1) : /\ From(s, k) # <<>> /\ Head(From(s, k)) = s[k + 1]
                                       /\ Tail(From(s, k)) = From(s, k + 1)
<1>. DEFINE S == Range(s)  n == Len(s)
<1>1. s \in Seq(S) /\ n \in Nat /\ DOMAIN s = 1..n
  BY DEF IsSeq
<1>2. ASSUME NEW k \in 0..n
      PROVE  /\ From(s, k) \in Seq(S) /\ IsSeq(From(s, k)) /\ Len(From(s, k)) = n - k
             /\ \A i \in 1..(n - k) : From(s, k)[i] = s[k + i]
  <2>1. \A i \in 1..(n - k) : k + i \in 1..n
    BY <1>1
  <2>2. \A i \in 1..(n - k) : s[k + i] \in S
    BY <2>1, <1>1 DEF Range
  <2>3. n - k \in Nat
    BY <1>1
  <2>. HIDE DEF S
  <2>4. From(s, k) \in [1..(n - k) -> S]
    BY <2>2 DEF From
  <2>. HIDE DEF n
  <2>5. From(s, k) \in Seq(S) /\ Len(From(s, k)) = n - k
    BY <2>3, <2>4
  <2>6. IsSeq(From(s, k))
    BY <2>5, SeqIsSeq
  <2>. QED  BY <2>5, <2>6 DEF From, n
<1>. HIDE DEF S
<1>3. From(s, 0) = s
  <2>1. 0 \in 0..n /\ n - 0 = n
    BY <1>1
  <2>2. IsSeq(From(s, 0)) /\ Len(From(s, 0)) = n /\ \A i \in 1..n : From(s, 0)[i] = s[0 + i]
    BY <2>1, <1>2
  <2>3. \A i \in 1..n : s[0 + i] = s[i]
    OBVIOUS
  <2>. QED  BY <2>2, <2>3, SameSeq
<1>4. From(s, n) = <<>>
  <2>1. n \in 0..n /\ n - n = 0
    BY <1>1
  <2>2. IsSeq(From(s, n)) /\ Len(From(s, n)) = 0
    BY <2>1, <1>2
  <2>3. IsSeq(<<>>) /\ Len(<<>>) = 0
    BY Tuples
  <2>4. \A i \in 1..Len(From(s, n)) : From(s, n)[i] = <<>>[i]
    BY <2>2
  <2>. QED  BY <2>2, <2>3, <2>4, SameSeq
<1>5. ASSUME NEW k \in 0..(n - 1)
      PROVE  From(s, k) # <<>> /\ Head(From(s, k)) = s[k + 1] /\ Tail(From(s, k)) = From(s, k + 1)
  <2>1. k \in 0..n /\ k + 1 \in 0..n
    BY <1>1
  <2>2. PICK r : r = From(s, k)
    OBVIOUS
  <2>3. PICK u : u = From(s, k + 1)
    OBVIOUS
  <2>4. IsSeq(r) /\ Len(r) = n - k /\ \A i \in 1..(n - k) : r[i] = s[k + i]
    BY <2>1, <2>2, <1>2
  <2>5. IsSeq(u) /\ Len(u) = n - (k + 1) /\ \A i \in 1..(n - (k + 1)) : u[i] = s[(k + 1) + i]
    BY <2>1, <2>3, <1>2
  <2>6. Len(r) >= 1 /\ r # <<>>
    <3>1. Len(r) >= 1
      BY <2>4, <1>1
    <3>. QED  BY <3>1, Tuples
  <2>7. /\ IsSeq(Tail(r)) /\ Len(Tail(r)) = Len(r) - 1
        /\ \A i \in 1..(Len(r) - 1) : Tail(r)[i] = r[i + 1]
        /\ Head(r) = r[1]
    BY <2>4, <2>6, TailFacts
  <2>8. Len(Tail(r)) = Len(u)
    BY <2>4, <2>5, <2>7, <1>1
  <2>9. ASSUME NEW i \in 1..Len(u) PROVE Tail(r)[i] = u[i]
    <3>1. i \in 1..(Len(r) - 1) /\ i + 1 \in 1..(n - k) /\ k + (i + 1) = (k + 1) + i
      BY <2>4, <2>5, <1>1
    <3>2. Tail(r)[i] = s[k + (i + 1)]
      BY <3>1, <2>4, <2>7
    <3>. QED  BY <3>1, <3>2, <2>5
  <2>10. Tail(r) = u
    BY <2>5, <2>7, <2>8, <2>9, SameSeq
  <2>11. Head(r) = s[k + 1]
    <3>1. 1 \in 1..(n - k)
      BY <1>1
    <3>. QED  BY <3>1, <2>4, <2>7
  <2>. QED  BY <2>2, <2>3, <2>6, <2>10, <2>11
<1>. QED  BY <1>2, <1>3, <1>4, <1>5

-----------------------------------------------------------------------------
(* Commands, and what is to come of them *)

(* What run defers, and what a configuration sync runs. *)
DeferOps ==
  {"Close", "removeMSSClamp", "cleanupGatewayNAT", "restoreResolvConf", "deleteInterface"}

(* A command an error of its operation may drop without a trace. *)
Light(c) == c.on \in {"conf", "fw", "defer"} \/ c.do \in {"dns", "refuse", "linkAdd"}

(* What records that exit routes or exit NAT are up or down. *)
RoutesOn == Flag("exitRoutesOn", TRUE)

RoutesOff == Flag("exitRoutesOn", FALSE)

NATOn == Flag("exitNATOn", TRUE)

NATOff == Flag("exitNATOn", FALSE)

ExitFlags == {RoutesOn, RoutesOff, NATOn, NATOff}

(* A flag is set at the end of its operation. *)
Orderly(s) ==
  /\ IsSeq(s)
  /\ \A i \in DOMAIN s :
       /\ s[i].on \in {"conf", "fw", "rule", "flag", "defer"}
       /\ s[i].on = "defer" => s[i].do \in DeferOps
       /\ s[i].on = "flag" =>
            i = Len(s) /\ (s[i] \in ExitFlags \/ s[i].do \in {"gatewayForwardOn", "dns"})
       /\ s[i].on \in {"conf", "fw"} \/ s[i].do \in {"refuse", "linkAdd"} => \A j \in DOMAIN s : Light(s[j])

(* Command c is among s. *)
Has(s, c) == \E i \in DOMAIN s : s[i] = c

(* Command c deletes policy rule r of the exit client. *)
Deletes(c, r) ==
  /\ c.on = "rule"
  /\ (c.do = "ruleDel" /\ c.arg = r) \/ (c.do = "routeDel" /\ r = <<c.arg, "route">>)

(* The routes and rules of the exit client, per family. *)
RouteRules == {4, 6} \X {"route", "suppress", "fwmark"}

(* Rule a of an operation that ends with c. *)
Leads(a, c) ==
  /\ a.do = "policyAdd" => a.arg \in RouteRules /\ c = RoutesOn
  /\ a.do = "forwardFirst" => a.arg = "exit"
  /\ a.do \in {"masqAdd", "forwardFirst"} => c = NATOn
  /\ a.do = "forwardEnsure" => a.arg \in {"gateway", "acl"}
  /\ a.do = "aclFlush" \/ (a.do = "forwardEnsure" /\ a.arg = "acl") => c = RuleCmd("aclFill", 0)
  /\ a.do # "aclDel"

(* Commands that add a rule. *)
Adding == {"policyAdd", "forwardFirst", "masqAdd", "forwardEnsure", "aclFlush"}

(* A rule command an operation may end with. *)
Closes(c) == c.do \notin Adding /\ (c.do = "aclDel" => c = RuleCmd("aclDel", 0))

(* In an operation, each command that adds has the one that completes or     *)
(* records it at the end.                                                    *)
RuleOrder(s) ==
  \A i \in DOMAIN s : s[i].on = "rule" =>
    IF i = Len(s) THEN Closes(s[i]) ELSE Leads(s[i], s[Len(s)])

(* With commands s to come, policy rules P, masquerading M and jumps F: the *)
(* commands remove whatever exit state there is.                            *)
Clearing(s, P, M, F) ==
  /\ \A r \in P : \E i \in DOMAIN s : Deletes(s[i], r)
  /\ M # {} => Has(s, RuleCmd("masqDel", 0))
  /\ "exit" \in Range(F) => Has(s, RuleCmd("forwardDel", "exit"))

(* The flags routes and nat say so when there is exit state, or will.       *)
ExitTracked(s, routes, nat, P, M, F) ==
  /\ Has(s, RoutesOff) => \A r \in P : \E i \in DOMAIN s : Deletes(s[i], r)
  /\ P # {} => routes \/ Has(s, RoutesOn)
  /\ Has(s, NATOff) =>
       /\ M # {} => Has(s, RuleCmd("masqDel", 0))
       /\ "exit" \in Range(F) => Has(s, RuleCmd("forwardDel", "exit"))
  /\ M # {} \/ "exit" \in Range(F) => nat \/ Has(s, NATOn)

(* Operations that put a jump at the head of FORWARD, or take one away. *)
ForwardOps ==
  {"cleanupExitState", "initialACL", "applyOverlayACL", "enableGatewayNAT", "refreshGatewayNAT",
   "applyGatewayRoutes"}

(* The exit NAT is looked at later. *)
ExitNATToCome(g) == \E j \in DOMAIN g : g[j] = "applyExitNodeNAT"

(* With operations g to come: other jumps change only when the exit jump is *)
(* looked at later, and until then it is the first.                         *)
JumpFirst(s, g, nat, F) ==
  /\ \A i \in DOMAIN g : g[i] \in ForwardOps => \E j \in DOMAIN g : j > i /\ g[j] = "applyExitNodeNAT"
  /\ \A i \in DOMAIN s : s[i].on = "rule" /\ s[i].do \in {"forwardEnsure", "forwardDel"} =>
       ExitNATToCome(g) \/ s[Len(s)] = NATOff
  /\ nat \/ Has(s, NATOn) =>
       \/ F # <<>> /\ Head(F) = "exit"
       \/ ExitNATToCome(g)
       \/ Has(s, RuleCmd("forwardFirst", "exit"))
       \/ Has(s, NATOff)

(* The chain A that a jump leads to is filled, or will be. *)
DenyFilled(s, F, A) ==
  /\ "acl" \in Range(F) =>
       A = "filled" \/ Has(s, RuleCmd("aclFill", 0)) \/ Has(s, RuleCmd("forwardDel", "acl"))
  /\ Has(s, RuleCmd("aclDel", 0)) =>
       "acl" \notin Range(F) \/ Has(s, RuleCmd("forwardDel", "acl"))

(* Commands are records. *)
LEMMA Commands ==
  ASSUME NEW d, NEW x
  PROVE  /\ RuleCmd(d, x).on = "rule" /\ RuleCmd(d, x).do = d /\ RuleCmd(d, x).arg = x
         /\ Flag(d, x).on = "flag" /\ Flag(d, x).do = d
BY DEF RuleCmd, Flag

(* Commands of the other kinds are, too. *)
LEMMA OtherCommands ==
  ASSUME NEW d, NEW x
  PROVE  /\ FwCmd(d, x).on = "fw" /\ FwCmd(d, x).do = d /\ FwCmd(d, x).arg = x
         /\ ConfCmd(d, x).on = "conf" /\ ConfCmd(d, x).do = d /\ ConfCmd(d, x).arg = x
         /\ Defer(d).on = "defer" /\ Defer(d).do = d
BY DEF FwCmd, ConfCmd, Defer

(* The four records are different. *)
LEMMA Flags ==
  /\ RoutesOn.on = "flag" /\ RoutesOn.do = "exitRoutesOn"
  /\ RoutesOff.on = "flag" /\ RoutesOff.do = "exitRoutesOn"
  /\ NATOn.on = "flag" /\ NATOn.do = "exitNATOn"
  /\ NATOff.on = "flag" /\ NATOff.do = "exitNATOn"
  /\ RoutesOn # RoutesOff /\ NATOn # NATOff
  /\ RoutesOn.arg = TRUE /\ RoutesOff.arg = FALSE /\ NATOn.arg = TRUE /\ NATOff.arg = FALSE
<1>1. /\ RoutesOn.on = "flag" /\ RoutesOn.do = "exitRoutesOn"
      /\ RoutesOff.on = "flag" /\ RoutesOff.do = "exitRoutesOn"
      /\ NATOn.on = "flag" /\ NATOn.do = "exitNATOn"
      /\ NATOff.on = "flag" /\ NATOff.do = "exitNATOn"
  BY DEF RoutesOn, RoutesOff, NATOn, NATOff, Flag
<1>2. RoutesOn.arg = TRUE /\ RoutesOff.arg = FALSE /\ NATOn.arg = TRUE /\ NATOff.arg = FALSE
  BY Zenon DEF RoutesOn, RoutesOff, NATOn, NATOff, Flag
<1>3. RoutesOn # RoutesOff /\ NATOn # NATOff
  BY <1>2, Zenon
<1>. QED  BY <1>1, <1>2, <1>3, Zenon

-----------------------------------------------------------------------------
(* Lists of commands *)

(* The commands s are of the kinds K. *)
All(s, K) == IsSeq(s) /\ \A i \in DOMAIN s : s[i].on \in K

(* A written-out list of commands of some kinds. *)
LEMMA AllTuples ==
  ASSUME NEW K, NEW a, NEW b, NEW c, a.on \in K, b.on \in K, c.on \in K
  PROVE  All(<<>>, K) /\ All(<<a>>, K) /\ All(<<a, b>>, K) /\ All(<<a, b, c>>, K)
<1>1. IsSeq(<<>>) /\ IsSeq(<<a>>) /\ IsSeq(<<a, b>>) /\ IsSeq(<<a, b, c>>)
  BY Tuples
<1>. QED  BY <1>1 DEF All

(* No commands. *)
LEMMA AllNone == \A K : All(<<>>, K)
<1>1. <<>> \in Seq({})
  OBVIOUS
<1>2. IsSeq(<<>>)
  BY <1>1, SeqIsSeq
<1>. QED  BY <1>2 DEF All

(* Two lists of commands of some kinds, joined. *)
LEMMA AllJoined ==
  ASSUME NEW K, NEW s, NEW t, All(s, K), All(t, K)
  PROVE  All(s \o t, K)
<1>1. IsSeq(s) /\ IsSeq(t)
  BY DEF All
<1>2. IsSeq(s \o t) /\ Range(s \o t) = Range(s) \cup Range(t)
  BY <1>1, ConcatFacts DEF Joined
<1>3. \A x \in Range(s) \cup Range(t) : x.on \in K
  BY DEF All, Range
<1>4. \A i \in DOMAIN (s \o t) : (s \o t)[i].on \in K
  BY <1>2, <1>3 DEF Range
<1>. QED  BY <1>2, <1>4 DEF All

-----------------------------------------------------------------------------
(* Operations *)

(* What an operation's commands are like, whatever the host was like when   *)
(* it began.                                                                *)
GoodPlan(op, s) ==
  /\ Orderly(s) /\ RuleOrder(s)
  /\ Has(s, RoutesOff) => \A r \in RouteRules : \E i \in DOMAIN s : Deletes(s[i], r)
  /\ Has(s, NATOff) => Has(s, RuleCmd("masqDel", 0)) /\ Has(s, RuleCmd("forwardDel", "exit"))
  /\ \A i \in DOMAIN s : s[i].on = "rule" /\ s[i].do \in {"forwardEnsure", "forwardDel"} =>
       op \in ForwardOps \cup {"cleanupGatewayNAT"} \/ s[Len(s)] = NATOff
  /\ Has(s, NATOn) => Has(s, RuleCmd("forwardFirst", "exit"))
  /\ Has(s, RuleCmd("aclDel", 0)) => Has(s, RuleCmd("forwardDel", "acl"))

(* t is s and then c. *)
Longer(t, s, c) ==
  /\ IsSeq(t) /\ t[Len(t)] = c /\ Len(t) \in DOMAIN t
  /\ \A i \in DOMAIN s : t[i] = s[i] /\ i \in DOMAIN t
  /\ \A i \in DOMAIN t : i = Len(t) \/ i \in DOMAIN s

(* A list of commands with one more at the end. *)
LEMMA Ended ==
  ASSUME NEW s, IsSeq(s), NEW c
  PROVE  Longer(s \o <<c>>, s, c)
<1>1. PICK u : u = <<c>>
  OBVIOUS
<1>2. IsSeq(u) /\ Joined(s \o u, s, u)
  <2>1. u \in Seq({c})
    BY <1>1
  <2>2. IsSeq(u)
    BY <2>1, SeqIsSeq
  <2>. QED  BY <2>2, ConcatFacts
<1>3. IsSeq(u) /\ Len(u) = 1 /\ u[1] = c
  BY <1>1, <1>2
<1>4. /\ IsSeq(s \o u) /\ Len(s \o u) = Len(s) + 1
      /\ \A i \in 1..Len(s) : (s \o u)[i] = s[i]
      /\ \A i \in 1..1 : (s \o u)[Len(s) + i] = u[i]
  BY <1>2, <1>3 DEF Joined
<1>5. (s \o u)[Len(s) + 1] = c
  BY <1>3, <1>4
<1>6. Len(s) \in Nat /\ DOMAIN s = 1..Len(s) /\ DOMAIN (s \o u) = 1..(Len(s) + 1)
  BY <1>4, IsSeqFacts
<1>7. Longer(s \o u, s, c)
  BY <1>4, <1>5, <1>6 DEF Longer
<1>. QED  BY <1>1, <1>7

(* Of the resolver and the firewall only. *)
LEMMA QuietPlan ==
  ASSUME NEW op, NEW s, All(s, {"conf", "fw"})
  PROVE  GoodPlan(op, s)
<1>1. IsSeq(s) /\ \A i \in DOMAIN s : s[i].on \in {"conf", "fw"}
  BY DEF All
<1>2. Orderly(s) /\ RuleOrder(s)
  BY <1>1 DEF Orderly, RuleOrder, Light
<1>3. ~Has(s, RoutesOff) /\ ~Has(s, NATOff) /\ ~Has(s, NATOn) /\ ~Has(s, RuleCmd("aclDel", 0))
  BY <1>1, Flags, Commands DEF Has
<1>. QED  BY <1>1, <1>2, <1>3 DEF GoodPlan

(* An operation on resolv.conf or the firewall that ends by recording it. *)
LEMMA QuietEnded ==
  ASSUME NEW op, NEW s, All(s, {"conf", "fw"}), NEW c,
         (c.on = "defer" /\ c.do \in DeferOps) \/ (c.on = "flag" /\ c.do = "dns")
  PROVE  GoodPlan(op, s \o <<c>>)
<1>1. IsSeq(s) /\ \A i \in DOMAIN s : s[i].on \in {"conf", "fw"}
  BY DEF All
<1>2. PICK t : t = s \o <<c>> /\ Longer(t, s, c)
  BY <1>1, Ended
<1>3. IsSeq(t) /\ \A i \in DOMAIN t : t[i].on \in {"conf", "fw"} \/ (i = Len(t) /\ t[i] = c)
  BY <1>1, <1>2 DEF Longer
<1>4. Orderly(t) /\ RuleOrder(t)
  BY <1>3 DEF Orderly, RuleOrder, Light
<1>5. ~Has(t, RoutesOff) /\ ~Has(t, NATOff) /\ ~Has(t, NATOn) /\ ~Has(t, RuleCmd("aclDel", 0))
  BY <1>3, Flags, Commands DEF Has
<1>6. GoodPlan(op, t)
  BY <1>3, <1>4, <1>5 DEF GoodPlan
<1>. QED  BY <1>2, <1>6

(* Commands on rules that an error does not stop. *)
RulesOnly(s) == All(s, {"rule"}) /\ \A i \in DOMAIN s : s[i].do \notin {"refuse", "linkAdd"}

(* A command such an operation may end with. *)
Ending(c) ==
  \/ c.on = "rule" /\ c.do \notin {"refuse", "linkAdd"}
  \/ c.on = "defer" /\ c.do \in DeferOps
  \/ c.on = "flag" /\ (c \in ExitFlags \/ c.do = "gatewayForwardOn")

(* An operation that changes rules and then records it is orderly. *)
LEMMA RulesEnded ==
  ASSUME NEW s, RulesOnly(s), NEW c, Ending(c), NEW t, Longer(t, s, c)
  PROVE  Orderly(t)
<1>1. IsSeq(s) /\ \A i \in DOMAIN s : s[i].on = "rule" /\ s[i].do \notin {"refuse", "linkAdd"}
  BY DEF RulesOnly, All
<1>2. IsSeq(t) /\ \A i \in DOMAIN t : (i = Len(t) /\ t[i] = c) \/ (i \in DOMAIN s /\ t[i] = s[i])
  BY DEF Longer
<1>3. ASSUME NEW i \in DOMAIN t
      PROVE  \/ t[i].on = "rule" /\ t[i].do \notin {"refuse", "linkAdd"}
             \/ i = Len(t) /\ t[i].on = "defer" /\ t[i].do \in DeferOps
             \/ i = Len(t) /\ t[i].on = "flag"
                /\ (t[i] \in ExitFlags \/ t[i].do = "gatewayForwardOn")
  BY <1>1, <1>2, <1>3 DEF Ending
<1>4. \A x \in ExitFlags : x.do \in {"exitRoutesOn", "exitNATOn"}
  BY Flags DEF ExitFlags
<1>. QED  BY <1>2, <1>3, <1>4 DEF Orderly, DeferOps

(* An operation of one command on the interface. *)
LEMMA OnePlan ==
  ASSUME NEW op, NEW c, c.on = "rule", c.do \in {"linkDel", "linkAdd", "mss", "refuse"}
  PROVE  GoodPlan(op, <<c>>)
<1>1. PICK s : s = <<c>>
  OBVIOUS
<1>2. s \in Seq({c})
  BY <1>1
<1>3. IsSeq(s) /\ Len(s) = 1 /\ DOMAIN s = {1} /\ s[1] = c
  <2>1. IsSeq(s)
    BY <1>2, SeqIsSeq
  <2>. QED  BY <1>1, <2>1
<1>4. Orderly(s) /\ RuleOrder(s)
  BY <1>3 DEF Orderly, RuleOrder, Light, Adding, Closes
<1>5. ~Has(s, RoutesOff) /\ ~Has(s, NATOff) /\ ~Has(s, NATOn) /\ ~Has(s, RuleCmd("aclDel", 0))
  BY <1>3, Flags, Commands DEF Has
<1>6. GoodPlan(op, s)
  BY <1>3, <1>4, <1>5 DEF GoodPlan
<1>. QED  BY <1>1, <1>6

(* An operation that changes rules, each as its last command requires. *)
LEMMA RulesPlan ==
  ASSUME NEW s, RulesOnly(s), NEW c, Ending(c), NEW t, Longer(t, s, c),
         \A i \in DOMAIN s : Leads(s[i], c), c.on = "rule" => Closes(c)
  PROVE  Orderly(t) /\ RuleOrder(t)
<1>1. Orderly(t)
  BY RulesEnded
<1>2. \A i \in DOMAIN t : (i = Len(t) /\ t[i] = c) \/ (i \in DOMAIN s /\ t[i] = s[i])
  BY DEF Longer
<1>3. t[Len(t)] = c
  BY DEF Longer
<1>4. RuleOrder(t)
  BY <1>2, <1>3 DEF RuleOrder
<1>. QED  BY <1>1, <1>4

(* No rules but these. *)
LEMMA RuleTuples ==
  ASSUME NEW a, NEW b, a.on = "rule", b.on = "rule",
         a.do \notin {"refuse", "linkAdd"}, b.do \notin {"refuse", "linkAdd"}
  PROVE  /\ \E s : s = <<a>> /\ RulesOnly(s) /\ s[1] = a /\ DOMAIN s = {1}
         /\ \E s : s = <<a, b>> /\ RulesOnly(s) /\ s[1] = a /\ s[2] = b /\ DOMAIN s = {1, 2}
<1>1. PICK s, t : s = <<a>> /\ t = <<a, b>>
  OBVIOUS
<1>2. s \in Seq({a}) /\ t \in Seq({a, b})
  BY <1>1
<1>3. IsSeq(s) /\ IsSeq(t)
  BY <1>2, SeqIsSeq
<1>4. s[1] = a /\ DOMAIN s = {1} /\ t[1] = a /\ t[2] = b /\ DOMAIN t = {1, 2}
  BY <1>1
<1>5. RulesOnly(s) /\ RulesOnly(t)
  BY <1>3, <1>4 DEF RulesOnly, All
<1>. QED  BY <1>1, <1>4, <1>5

(* An operation t whose commands are M, the last one c. *)
Made(t, M, c) ==
  /\ Orderly(t) /\ RuleOrder(t) /\ t[Len(t)] = c
  /\ \A i \in DOMAIN t : t[i] \in M
  /\ \A x \in M : Has(t, x)

(* An operation that changes rules and ends with c. *)
LEMMA MadePlan ==
  ASSUME NEW s, RulesOnly(s), NEW c, Ending(c), c.on = "rule" => Closes(c),
         \A x \in Range(s) : Leads(x, c)
  PROVE  Made(s \o <<c>>, Range(s) \cup {c}, c)
<1>1. IsSeq(s)
  BY DEF RulesOnly, All
<1>2. PICK t : t = s \o <<c>> /\ Longer(t, s, c)
  BY <1>1, Ended
<1>3. \A i \in DOMAIN s : s[i] \in Range(s) /\ Leads(s[i], c)
  BY DEF Range
<1>4. Orderly(t) /\ RuleOrder(t)
  BY <1>2, <1>3, RulesPlan
<1>5. t[Len(t)] = c /\ \A i \in DOMAIN t : t[i] \in Range(s) \cup {c}
  BY <1>2, <1>3 DEF Longer
<1>6. \A x \in Range(s) \cup {c} : Has(t, x)
  BY <1>2 DEF Longer, Has, Range
<1>7. Made(t, Range(s) \cup {c}, c)
  BY <1>4, <1>5, <1>6 DEF Made
<1>. QED  BY <1>2, <1>7

(* The same, of two and of three commands. *)
LEMMA ShortPlans ==
  ASSUME NEW a, NEW b, NEW c, a.on = "rule", b.on = "rule",
         a.do \notin {"refuse", "linkAdd"}, b.do \notin {"refuse", "linkAdd"},
         Ending(c), c.on = "rule" => Closes(c), Leads(a, c), Leads(b, c)
  PROVE  Made(<<a, c>>, {a, c}, c) /\ Made(<<a, b, c>>, {a, b, c}, c)
<1>1. Made(<<a, c>>, {a, c}, c)
  <2>1. PICK s : s = <<a>> /\ RulesOnly(s) /\ s[1] = a /\ DOMAIN s = {1}
    BY RuleTuples
  <2>2. Range(s) = {a}
    BY <2>1 DEF Range
  <2>3. Made(s \o <<c>>, Range(s) \cup {c}, c)
    BY <2>1, <2>2, MadePlan
  <2>4. s \o <<c>> = <<a, c>>
    BY <2>1, Joins
  <2>5. Range(s) \cup {c} = {a, c}
    BY <2>2
  <2>. QED  BY <2>3, <2>4, <2>5
<1>2. Made(<<a, b, c>>, {a, b, c}, c)
  <2>1. PICK s : s = <<a, b>> /\ RulesOnly(s) /\ s[1] = a /\ s[2] = b /\ DOMAIN s = {1, 2}
    BY RuleTuples
  <2>2. Range(s) = {a, b}
    BY <2>1 DEF Range
  <2>3. Made(s \o <<c>>, Range(s) \cup {c}, c)
    BY <2>1, <2>2, MadePlan
  <2>4. <<a, b>> \o <<c>> = <<a, b, c>>
    BY Joins
  <2>5. Range(s) \cup {c} = {a, b, c} /\ s = <<a, b>>
    BY <2>1, <2>2
  <2>. QED  BY <2>3, <2>4, <2>5
<1>. QED  BY <1>1, <1>2

(* An operation is good when its set of commands is. *)
LEMMA GoodMade ==
  ASSUME NEW op, NEW t, NEW M, NEW c, Made(t, M, c),
         RoutesOff \in M => \A r \in RouteRules : \E x \in M : Deletes(x, r),
         NATOff \in M => RuleCmd("masqDel", 0) \in M /\ RuleCmd("forwardDel", "exit") \in M,
         \A x \in M : x.on = "rule" /\ x.do \in {"forwardEnsure", "forwardDel"} =>
           op \in ForwardOps \cup {"cleanupGatewayNAT"} \/ c = NATOff,
         NATOn \in M => RuleCmd("forwardFirst", "exit") \in M,
         RuleCmd("aclDel", 0) \in M => RuleCmd("forwardDel", "acl") \in M
  PROVE  GoodPlan(op, t)
<1>1. /\ \A x : Has(t, x) <=> x \in M
  BY DEF Made, Has
<1>2. Has(t, RoutesOff) => \A r \in RouteRules : \E i \in DOMAIN t : Deletes(t[i], r)
  BY <1>1 DEF Has
<1>. QED  BY <1>1, <1>2 DEF Made, GoodPlan

(* applyOverlayACL jumps to the chain before it fills it, and removes the    *)
(* jump before the chain.                                                    *)
LEMMA AclPlans ==
  ASSUME NEW op \in {"initialACL", "applyOverlayACL"}, NEW deny
  PROVE  /\ GoodPlan(op, applyOverlayACL(deny))
         /\ \/ Has(applyOverlayACL(deny), RuleCmd("aclFill", 0))
            \/ Has(applyOverlayACL(deny), RuleCmd("forwardDel", "acl"))
<1>. DEFINE flush == RuleCmd("aclFlush", 0)  hook == RuleCmd("forwardEnsure", "acl")
            fill == RuleCmd("aclFill", 0)  unhook == RuleCmd("forwardDel", "acl")
            del == RuleCmd("aclDel", 0)
<1>1. op \in ForwardOps
  BY DEF ForwardOps
<1>2. applyOverlayACL(deny) \in {<<flush, hook, fill>>, <<unhook, del>>}
  BY DEF applyOverlayACL
<1>3. /\ flush.on = "rule" /\ flush.do = "aclFlush" /\ hook.on = "rule" /\ hook.do = "forwardEnsure"
      /\ hook.arg = "acl" /\ fill.on = "rule" /\ fill.do = "aclFill"
      /\ unhook.on = "rule" /\ unhook.do = "forwardDel" /\ del.on = "rule" /\ del.do = "aclDel"
      /\ fill = RuleCmd("aclFill", 0) /\ unhook = RuleCmd("forwardDel", "acl")
      /\ del = RuleCmd("aclDel", 0)
  BY Commands
<1>. HIDE DEF flush, hook, fill, unhook, del
<1>4. /\ Ending(fill) /\ Leads(flush, fill) /\ Leads(hook, fill) /\ Closes(fill)
      /\ Ending(del) /\ Leads(unhook, del) /\ Closes(del)
  BY <1>3 DEF Ending, Leads, Adding, Closes
<1>5. Made(<<flush, hook, fill>>, {flush, hook, fill}, fill) /\ Made(<<unhook, del>>, {unhook, del}, del)
  BY <1>3, <1>4, ShortPlans
<1>6. GoodPlan(op, <<flush, hook, fill>>) /\ GoodPlan(op, <<unhook, del>>)
  BY <1>1, <1>3, <1>5, Flags, GoodMade
<1>. QED  BY <1>2, <1>3, <1>5, <1>6 DEF Made

(* Three commands on rules. *)
LEMMA TripleFacts ==
  ASSUME NEW a, NEW b, NEW c, a.on = "rule", b.on = "rule", c.on = "rule",
         a.do \notin {"refuse", "linkAdd"}, b.do \notin {"refuse", "linkAdd"},
         c.do \notin {"refuse", "linkAdd"}
  PROVE  RulesOnly(<<a, b, c>>) /\ Range(<<a, b, c>>) = {a, b, c}
<1>1. PICK s : s = <<a, b, c>>
  OBVIOUS
<1>2. s \in Seq({a, b, c})
  BY <1>1
<1>3. IsSeq(s)
  BY <1>2, SeqIsSeq
<1>4. s[1] = a /\ s[2] = b /\ s[3] = c /\ DOMAIN s = {1, 2, 3}
  BY <1>1
<1>5. RulesOnly(s)
  BY <1>3, <1>4 DEF RulesOnly, All
<1>6. Range(s) = {a, b, c}
  BY <1>4 DEF Range
<1>. QED  BY <1>1, <1>5, <1>6

(* Lists of commands on rules, joined. *)
LEMMA RulesJoined ==
  ASSUME NEW s, NEW t, RulesOnly(s), RulesOnly(t)
  PROVE  RulesOnly(s \o t) /\ Range(s \o t) = Range(s) \cup Range(t)
<1>1. IsSeq(s) /\ IsSeq(t)
  BY DEF RulesOnly, All
<1>2. IsSeq(s \o t) /\ Range(s \o t) = Range(s) \cup Range(t)
  BY <1>1, ConcatFacts DEF Joined
<1>3. \A x \in Range(s) \cup Range(t) : x.on = "rule" /\ x.do \notin {"refuse", "linkAdd"}
  BY DEF RulesOnly, All, Range
<1>4. \A i \in DOMAIN (s \o t) : (s \o t)[i] \in Range(s \o t)
  BY DEF Range
<1>. QED  BY <1>2, <1>3, <1>4 DEF RulesOnly, All

(* teardownExitRoutes deletes every route and rule of the exit client. *)
LEMMA TeardownFacts ==
  /\ RulesOnly(teardownExitRoutes)
  /\ \A x \in Range(teardownExitRoutes) : x.on = "rule" /\ x.do \in {"ruleDel", "routeDel"}
  /\ \A r \in RouteRules : \E x \in Range(teardownExitRoutes) : Deletes(x, r)
<1>1. ASSUME NEW f
      PROVE  /\ RulesOnly(deleteExitFamily(f))
             /\ \A x \in Range(deleteExitFamily(f)) : x.on = "rule" /\ x.do \in {"ruleDel", "routeDel"}
             /\ \A r \in {f} \X {"route", "suppress", "fwmark"} :
                  \E x \in Range(deleteExitFamily(f)) : Deletes(x, r)
  <2>. DEFINE a == RuleCmd("ruleDel", <<f, "fwmark">>)  b == RuleCmd("ruleDel", <<f, "suppress">>)
              c == RuleCmd("routeDel", f)
  <2>1. /\ a.on = "rule" /\ a.do = "ruleDel" /\ a.arg = <<f, "fwmark">>
        /\ b.on = "rule" /\ b.do = "ruleDel" /\ b.arg = <<f, "suppress">>
        /\ c.on = "rule" /\ c.do = "routeDel" /\ c.arg = f
    BY Commands
  <2>2. deleteExitFamily(f) = <<a, b, c>>
    BY DEF deleteExitFamily
  <2>. HIDE DEF a, b, c
  <2>3. RulesOnly(deleteExitFamily(f)) /\ Range(deleteExitFamily(f)) = {a, b, c}
    BY <2>1, <2>2, TripleFacts
  <2>4. Deletes(a, <<f, "fwmark">>) /\ Deletes(b, <<f, "suppress">>) /\ Deletes(c, <<f, "route">>)
    BY <2>1 DEF Deletes
  <2>5. \A r \in {f} \X {"route", "suppress", "fwmark"} :
          r = <<f, "fwmark">> \/ r = <<f, "suppress">> \/ r = <<f, "route">>
    OBVIOUS
  <2>. QED  BY <2>1, <2>3, <2>4, <2>5
<1>2. /\ RulesOnly(teardownExitRoutes)
      /\ Range(teardownExitRoutes) = Range(deleteExitFamily(4)) \cup Range(deleteExitFamily(6))
  BY <1>1, RulesJoined DEF teardownExitRoutes
<1>3. \A r \in RouteRules : \/ r \in {4} \X {"route", "suppress", "fwmark"}
                            \/ r \in {6} \X {"route", "suppress", "fwmark"}
  BY DEF RouteRules
<1>. QED  BY <1>1, <1>2, <1>3

(* applyExitRoutes records routes after adding them, and their removal after *)
(* deleting all.                                                             *)
LEMMA ExitRoutePlans ==
  ASSUME NEW on, NEW v6, NEW enabled
  PROVE  GoodPlan("applyExitRoutes", applyExitRoutes(on, v6, enabled))
<1>1. GoodPlan("applyExitRoutes", teardownExitRoutes \o <<RoutesOff>>)
  <2>1. Ending(RoutesOff) /\ \A x \in Range(teardownExitRoutes) : Leads(x, RoutesOff)
    BY TeardownFacts, Flags DEF Ending, Leads, ExitFlags
  <2>2. Made(teardownExitRoutes \o <<RoutesOff>>, Range(teardownExitRoutes) \cup {RoutesOff}, RoutesOff)
    BY <2>1, TeardownFacts, Flags, MadePlan
  <2>3. \A x \in Range(teardownExitRoutes) \cup {RoutesOff} :
          /\ ~(x.on = "rule" /\ x.do \in {"forwardEnsure", "forwardDel"})
          /\ x # NATOff /\ x # NATOn /\ x # RuleCmd("aclDel", 0)
    BY TeardownFacts, Flags, Commands
  <2>. QED  BY <2>2, <2>3, TeardownFacts, GoodMade
<1>2. ASSUME NEW f \in {4, 6}
      PROVE  /\ RulesOnly(addExitFamily(f))
             /\ \A x \in Range(addExitFamily(f)) :
                  x.on = "rule" /\ x.do = "policyAdd" /\ x.arg \in RouteRules
  <2>. DEFINE a == RuleCmd("policyAdd", <<f, "route">>)  b == RuleCmd("policyAdd", <<f, "suppress">>)
              c == RuleCmd("policyAdd", <<f, "fwmark">>)
  <2>1. /\ a.on = "rule" /\ a.do = "policyAdd" /\ a.arg = <<f, "route">>
        /\ b.on = "rule" /\ b.do = "policyAdd" /\ b.arg = <<f, "suppress">>
        /\ c.on = "rule" /\ c.do = "policyAdd" /\ c.arg = <<f, "fwmark">>
    BY Commands
  <2>2. addExitFamily(f) = <<a, b, c>>
    BY DEF addExitFamily
  <2>. HIDE DEF a, b, c
  <2>3. RulesOnly(addExitFamily(f)) /\ Range(addExitFamily(f)) = {a, b, c}
    BY <2>1, <2>2, TripleFacts
  <2>4. a.arg \in RouteRules /\ b.arg \in RouteRules /\ c.arg \in RouteRules
    BY <2>1 DEF RouteRules
  <2>. QED  BY <2>1, <2>3, <2>4
<1>3. PICK s : s = IF v6 THEN addExitFamily(6) ELSE <<>>
  OBVIOUS
<1>4. RulesOnly(s) /\ \A x \in Range(s) : x.on = "rule" /\ x.do = "policyAdd" /\ x.arg \in RouteRules
  <2>1. RulesOnly(<<>>) /\ Range(<<>>) = {}
    BY AllNone DEF RulesOnly, Range
  <2>. QED  BY <2>1, <1>2, <1>3
<1>5. GoodPlan("applyExitRoutes", (addExitFamily(4) \o s) \o <<RoutesOn>>)
  <2>. DEFINE t == addExitFamily(4) \o s
  <2>1. RulesOnly(t) /\ \A x \in Range(t) : x.on = "rule" /\ x.do = "policyAdd" /\ x.arg \in RouteRules
    BY <1>2, <1>4, RulesJoined
  <2>. HIDE DEF t
  <2>2. Ending(RoutesOn) /\ \A x \in Range(t) : Leads(x, RoutesOn)
    BY <2>1, Flags DEF Ending, Leads, ExitFlags
  <2>3. Made(t \o <<RoutesOn>>, Range(t) \cup {RoutesOn}, RoutesOn)
    BY <2>1, <2>2, Flags, MadePlan
  <2>4. \A x \in Range(t) \cup {RoutesOn} :
          /\ ~(x.on = "rule" /\ x.do \in {"forwardEnsure", "forwardDel"})
          /\ x # RoutesOff /\ x # NATOff /\ x # NATOn /\ x # RuleCmd("aclDel", 0)
    BY <2>1, Flags, Commands
  <2>5. GoodPlan("applyExitRoutes", t \o <<RoutesOn>>)
    BY <2>3, <2>4, GoodMade
  <2>. QED  BY <2>5 DEF t
<1>6. GoodPlan("applyExitRoutes", <<>>)
  BY AllNone, QuietPlan
<1>7. GoodPlan("applyExitRoutes", <<RuleCmd("refuse", 0)>>)
  <2>. DEFINE c == RuleCmd("refuse", 0)
  <2>1. c.on = "rule" /\ c.do = "refuse"
    BY Commands
  <2>. HIDE DEF c
  <2>2. GoodPlan("applyExitRoutes", <<c>>)
    BY <2>1, OnePlan
  <2>. QED  BY <2>2 DEF c
<1>8. applyExitRoutes(on, v6, enabled) \in
        {<<>>, <<RuleCmd("refuse", 0)>>, teardownExitRoutes \o <<RoutesOff>>,
         (addExitFamily(4) \o s) \o <<RoutesOn>>}
  BY <1>3 DEF applyExitRoutes, RoutesOn, RoutesOff
<1>. QED  BY <1>1, <1>5, <1>6, <1>7, <1>8

(* applyExitNodeNAT records NAT after setting it up, with the jump in front; *)
(* a node that is one already puts it in front again, or removes it.         *)
LEMMA ExitNATPlans ==
  ASSUME NEW on, NEW net, NEW enabled
  PROVE  /\ GoodPlan("applyExitNodeNAT", applyExitNodeNAT(on, net, enabled))
         /\ enabled => \/ Has(applyExitNodeNAT(on, net, enabled), RuleCmd("forwardFirst", "exit"))
                       \/ Has(applyExitNodeNAT(on, net, enabled), NATOff)
<1>. DEFINE unhook == RuleCmd("forwardDel", "exit")  del == RuleCmd("masqDel", 0)
            first == RuleCmd("forwardFirst", "exit")  add == RuleCmd("masqAdd", net)
<1>1. /\ teardownExitNAT \o <<NATOff>> = <<unhook, del, NATOff>>
      /\ teardownExitNAT = <<unhook, del>>
  BY Joins DEF teardownExitNAT
<1>2. /\ applyExitNodeNAT(on, net, enabled) \in {<<>>, teardownExitNAT \o <<NATOff>>, <<first, add, NATOn>>}
      /\ enabled => applyExitNodeNAT(on, net, enabled) # <<>>
      /\ applyExitNodeNAT(on, net, enabled) = <<>> => ~enabled
  BY DEF applyExitNodeNAT, ensureExitJumpFirst, NATOn, NATOff
<1>3. /\ unhook.on = "rule" /\ unhook.do = "forwardDel" /\ del.on = "rule" /\ del.do = "masqDel"
      /\ first.on = "rule" /\ first.do = "forwardFirst" /\ first.arg = "exit"
      /\ add.on = "rule" /\ add.do = "masqAdd"
      /\ unhook = RuleCmd("forwardDel", "exit") /\ del = RuleCmd("masqDel", 0)
      /\ first = RuleCmd("forwardFirst", "exit")
  BY Commands
<1>. HIDE DEF unhook, del, first, add
<1>4. /\ Ending(NATOff) /\ Ending(NATOn) /\ Leads(unhook, NATOff) /\ Leads(del, NATOff)
      /\ Leads(first, NATOn) /\ Leads(add, NATOn)
  BY <1>3, Flags DEF Ending, Leads, ExitFlags
<1>5. /\ Made(<<unhook, del, NATOff>>, {unhook, del, NATOff}, NATOff)
      /\ Made(<<first, add, NATOn>>, {first, add, NATOn}, NATOn)
  BY <1>3, <1>4, Flags, ShortPlans
<1>6. RuleCmd("aclDel", 0).do = "aclDel"
  BY DEF RuleCmd
<1>7. /\ RoutesOff \notin {unhook, del, NATOff} /\ NATOn \notin {unhook, del, NATOff}
       /\ RuleCmd("aclDel", 0) \notin {unhook, del, NATOff}
       /\ RoutesOff \notin {first, add, NATOn} /\ NATOff \notin {first, add, NATOn}
       /\ RuleCmd("aclDel", 0) \notin {first, add, NATOn}
  BY <1>3, <1>6, Flags
<1>8. GoodPlan("applyExitNodeNAT", <<unhook, del, NATOff>>)
  BY <1>3, <1>5, <1>7, GoodMade
<1>9. NATOn.on = "flag"
  BY Flags
<1>10. GoodPlan("applyExitNodeNAT", <<first, add, NATOn>>)
  BY <1>3, <1>5, <1>7, <1>9, GoodMade
<1>11. GoodPlan("applyExitNodeNAT", <<>>)
  BY AllNone, QuietPlan
<1>. QED  BY <1>1, <1>2, <1>3, <1>5, <1>8, <1>10, <1>11 DEF Made

(* cleanupExitState deletes all exit state, whatever there is of it, and     *)
(* adds none.                                                                *)
LEMMA CleanupPlan ==
  /\ GoodPlan("cleanupExitState", cleanupExitState)
  /\ \A i \in DOMAIN cleanupExitState :
       /\ cleanupExitState[i].on = "rule"
       /\ cleanupExitState[i].do \in {"ruleDel", "routeDel", "masqDel", "forwardDel"}
  /\ \A P \in SUBSET RouteRules : \A M, F : Clearing(cleanupExitState, P, M, F)
<1>. DEFINE unhook == RuleCmd("forwardDel", "exit")  del == RuleCmd("masqDel", 0)
            s == cleanupExitState
<1>1. /\ unhook.on = "rule" /\ unhook.do = "forwardDel" /\ del.on = "rule" /\ del.do = "masqDel"
  BY Commands
<1>2. teardownExitNAT = <<unhook, del>>
  BY DEF teardownExitNAT
<1>3. RulesOnly(teardownExitNAT) /\ Range(teardownExitNAT) = {unhook, del}
  <2>. HIDE DEF unhook, del
  <2>1. PICK t : t = <<unhook, del>> /\ RulesOnly(t) /\ t[1] = unhook /\ t[2] = del /\ DOMAIN t = {1, 2}
    BY <1>1, RuleTuples
  <2>2. Range(t) = {unhook, del}
    BY <2>1 DEF Range
  <2>. QED  BY <2>1, <2>2, <1>2
<1>4. RulesOnly(s) /\ Range(s) = Range(teardownExitRoutes) \cup {unhook, del}
  BY <1>3, TeardownFacts, RulesJoined DEF cleanupExitState
<1>5. \A x \in Range(s) : x.on = "rule" /\ x.do \in {"ruleDel", "routeDel", "masqDel", "forwardDel"}
  BY <1>1, <1>4, TeardownFacts
<1>6. \A i \in DOMAIN s : s[i] \in Range(s)
  BY DEF Range
<1>7. \A x \in Range(s) : Has(s, x)
  BY DEF Range, Has
<1>. HIDE DEF s
<1>8. Orderly(s)
  BY <1>4, <1>5, <1>6 DEF RulesOnly, All, Orderly
<1>9. RuleOrder(s)
  BY <1>5, <1>6 DEF RuleOrder, Leads, Adding, Closes
<1>10. ~Has(s, RoutesOff) /\ ~Has(s, NATOff) /\ ~Has(s, NATOn) /\ ~Has(s, RuleCmd("aclDel", 0))
  BY <1>5, <1>6, Flags, Commands DEF Has
<1>11. GoodPlan("cleanupExitState", s)
  BY <1>8, <1>9, <1>10 DEF GoodPlan, ForwardOps
<1>12. Has(s, RuleCmd("masqDel", 0)) /\ Has(s, RuleCmd("forwardDel", "exit"))
  BY <1>4, <1>7
<1>13. \A r \in RouteRules : \E i \in DOMAIN s : Deletes(s[i], r)
  BY <1>4, <1>7, TeardownFacts DEF Has
<1>14. \A P \in SUBSET RouteRules : \A M, F : Clearing(s, P, M, F)
  BY <1>12, <1>13 DEF Clearing
<1>. QED  BY <1>5, <1>6, <1>11, <1>14 DEF s

(* applyDNSConfig and restoreResolvConf touch resolv.conf only. *)
LEMMA ConfPlans ==
  ASSUME NEW mode, NEW d
  PROVE  /\ All(restoreResolvConf(mode), {"conf"})
         /\ All(applyDNSConfig(mode, d), {"conf"})
<1>. DEFINE K == {"conf"}
<1>1. ASSUME NEW content PROVE All(writeResolvConf(content), K)
  <2>. DEFINE a == ConfCmd("removeConf", Blank)  b == ConfCmd("openConf", Blank)
              c == ConfCmd("writeConf", content)
  <2>1. a.on \in K /\ b.on \in K /\ c.on \in K
    BY Commands, OtherCommands
  <2>. HIDE DEF a, b, c, K
  <2>2. All(<<a, b, c>>, K)
    BY <2>1, AllTuples
  <2>. QED  BY <2>2 DEF writeResolvConf, a, b, c
<1>2. ASSUME NEW x, NEW y PROVE All(<<>>, K) /\ All(<<ConfCmd(x, y)>>, K)
  <2>. DEFINE a == ConfCmd(x, y)
  <2>1. a.on \in K
    BY Commands, OtherCommands
  <2>. HIDE DEF a, K
  <2>2. All(<<>>, K) /\ All(<<a>>, K)
    BY <2>1, AllTuples
  <2>. QED  BY <2>2 DEF a
<1>3. All(backUp, K)
  <2>. DEFINE a == ConfCmd("truncBackup", Blank)  b == ConfCmd("writeBackup", conf)
  <2>1. a.on \in K /\ b.on \in K
    BY Commands, OtherCommands
  <2>2. backUp \in {<<>>, <<a, b>>}
    BY DEF backUp
  <2>. HIDE DEF a, b, K
  <2>3. All(<<>>, K) /\ All(<<a, b>>, K)
    BY <2>1, AllTuples
  <2>. QED  BY <2>2, <2>3
<1>. HIDE DEF K
<1>4. All(restoreResolvConf(mode), K)
  <2>1. All(writeResolvConf(backup) \o <<ConfCmd("removeBackup", Blank)>>, K)
    BY <1>1, <1>2, AllJoined
  <2>. QED  BY <2>1, <1>2 DEF restoreResolvConf
<1>5. All(applyResolvedDNS(d), K)
  BY <1>2 DEF applyResolvedDNS
<1>6. All(applyResolvConfDNS(d), K)
  <2>1. ASSUME NEW content PROVE All(backUp \o writeResolvConf(content), K)
    BY <1>1, <1>3, AllJoined
  <2>. QED  BY <2>1, <1>2 DEF applyResolvConfDNS
<1>7. All(applyDNSConfig(mode, d), K)
  BY <1>2, <1>4, <1>5, <1>6 DEF applyDNSConfig
<1>. QED  BY <1>4, <1>7 DEF K

(* openFirewall and the firewall manager's Close touch the firewall only. *)
LEMMA FwPlans ==
  ASSUME IsSeq(stateFile), IsSeq(manager), NEW p
  PROVE  /\ All(openFirewall(p), {"fw"}) /\ All(Close, {"fw"})
<1>. DEFINE K == {"fw"}
<1>1. ASSUME NEW x, NEW y PROVE FwCmd(x, y).on \in K
  BY Commands, OtherCommands
<1>2. ASSUME NEW x, NEW y PROVE All(<<>>, K) /\ All(<<FwCmd(x, y)>>, K)
  <2>. DEFINE a == FwCmd(x, y)
  <2>1. a.on \in K
    BY Commands, OtherCommands
  <2>. HIDE DEF a, K
  <2>2. All(<<>>, K) /\ All(<<a>>, K)
    BY <2>1, AllTuples
  <2>. QED  BY <2>2 DEF a
<1>. HIDE DEF K
<1>3. ASSUME NEW rules, NEW n \in Nat, DOMAIN rules = 1..n PROVE All(removeCmds(rules), K)
  <2>1. CASE active = "nftables"
    BY <2>1, <1>2 DEF removeCmds
  <2>2. CASE active # "nftables"
    <3>. DEFINE t == removeCmds(rules)  S == {FwCmd("remove", rules[i]) : i \in 1..n}
    <3>1. t = [i \in 1..n |-> FwCmd("remove", rules[i])]
      BY <2>2, <1>3 DEF removeCmds
    <3>2. t \in [1..n -> S]
      BY <3>1
    <3>3. t \in Seq(S)
      <4>. HIDE DEF t, S
      <4>. QED  BY <3>2
    <3>4. IsSeq(t)
      <4>. HIDE DEF t, S
      <4>. QED  BY <3>3, SeqIsSeq
    <3>. QED  BY <3>1, <3>4, <1>1 DEF All
  <2>. QED  BY <2>1, <2>2
<1>4. ASSUME NEW rules, IsSeq(rules) PROVE Len(rules) \in Nat /\ DOMAIN rules = 1..Len(rules)
  BY <1>4, IsSeqFacts
<1>5. All(reconcile, K)
  <2>1. All(removeCmds(stateFile) \o <<FwCmd("forget", 0)>>, K)
    BY <1>2, <1>3, <1>4, AllJoined
  <2>. QED  BY <2>1, <1>2 DEF reconcile
<1>6. All(allow(p), K)
  <2>. DEFINE a == FwCmd("allow", p)  b == FwCmd("append", p)  c == FwCmd("persist", p)
  <2>1. a.on \in K /\ b.on \in K /\ c.on \in K
    BY <1>1
  <2>. HIDE DEF a, b, c
  <2>2. All(<<a, b, c>>, K)
    BY <2>1, AllTuples
  <2>. QED  BY <2>2 DEF allow, a, b, c
<1>7. All(openFirewall(p), K)
  BY <1>5, <1>6, AllJoined DEF openFirewall
<1>8. All(Close, K)
  <2>. DEFINE rules == [i \in DOMAIN manager |-> manager[Len(manager) + 1 - i]]
  <2>1. Len(manager) \in Nat /\ DOMAIN rules = 1..Len(manager)
    BY <1>4
  <2>. HIDE DEF rules
  <2>2. All(removeCmds(rules) \o <<FwCmd("clearState", 0)>>, K)
    BY <2>1, <1>2, <1>3, AllJoined
  <2>. QED  BY <2>2, <1>2 DEF Close, rules
<1>. QED  BY <1>7, <1>8 DEF K

(* The operations of gateway_linux.go keep the order. *)
LEMMA GatewayPlans ==
  ASSUME NEW routed, NEW enabled
  PROVE  /\ \A op \in ForwardOps : GoodPlan(op, ensureGatewayNATRules)
         /\ GoodPlan("enableGatewayNAT", ensureGatewayNATRules \o <<Defer("cleanupGatewayNAT")>>)
         /\ GoodPlan("cleanupGatewayNAT", cleanupGatewayNAT)
         /\ GoodPlan("applyGatewayRoutes", applyGatewayRoutes(routed, enabled))
<1>. DEFINE hook == RuleCmd("forwardEnsure", "gateway")  unhook == RuleCmd("forwardDel", "gateway")
            nat == RuleCmd("gatewayNAT", TRUE)  del == RuleCmd("gatewayNATDel", FALSE)
            later == Defer("cleanupGatewayNAT")
            set == Flag("gatewayForwardOn", TRUE)  reset == Flag("gatewayForwardOn", FALSE)
<1>1. /\ ensureGatewayNATRules = <<hook, nat>> /\ cleanupGatewayNAT = <<del, unhook>>
      /\ applyGatewayRoutes(routed, enabled) \in {<<hook, set>>, <<unhook, reset>>, <<>>}
  BY DEF ensureGatewayNATRules, cleanupGatewayNAT, applyGatewayRoutes
<1>2. /\ hook.on = "rule" /\ hook.do = "forwardEnsure" /\ hook.arg = "gateway"
      /\ unhook.on = "rule" /\ unhook.do = "forwardDel"
      /\ later.on = "defer" /\ later.do = "cleanupGatewayNAT"
  BY Commands, OtherCommands
<1>3. /\ nat.on = "rule" /\ nat.do = "gatewayNAT" /\ del.on = "rule" /\ del.do = "gatewayNATDel"
      /\ set.on = "flag" /\ set.do = "gatewayForwardOn"
      /\ reset.on = "flag" /\ reset.do = "gatewayForwardOn"
  BY DEF RuleCmd, Flag
<1>4. Defer("cleanupGatewayNAT") = later
  OBVIOUS
<1>. HIDE DEF hook, unhook, nat, del, later, set, reset
<1>5. /\ Ending(nat) /\ Ending(unhook) /\ Ending(later) /\ Ending(set) /\ Ending(reset)
      /\ Leads(hook, nat) /\ Leads(hook, later) /\ Leads(nat, later) /\ Leads(hook, set)
      /\ Leads(unhook, reset) /\ Leads(del, unhook)
      /\ Closes(nat) /\ Closes(unhook)
  BY <1>2, <1>3 DEF Ending, Leads, Adding, Closes, DeferOps
<1>6. /\ Made(<<hook, nat>>, {hook, nat}, nat) /\ Made(<<del, unhook>>, {del, unhook}, unhook)
      /\ Made(<<hook, set>>, {hook, set}, set) /\ Made(<<unhook, reset>>, {unhook, reset}, reset)
      /\ Made(<<hook, nat, later>>, {hook, nat, later}, later)
  BY <1>2, <1>3, <1>5, ShortPlans
<1>7. /\ \A x \in {hook, unhook, nat, del, later, set, reset} :
           /\ x # RoutesOff /\ x # NATOff /\ x # NATOn /\ x # RuleCmd("aclDel", 0)
  BY <1>2, <1>3, Flags, Commands, OtherCommands
<1>8. /\ \A op \in ForwardOps : GoodPlan(op, <<hook, nat>>)
      /\ GoodPlan("enableGatewayNAT", <<hook, nat, later>>)
      /\ GoodPlan("cleanupGatewayNAT", <<del, unhook>>)
  BY <1>6, <1>7, GoodMade DEF ForwardOps, DeferOps
<1>9. GoodPlan("applyGatewayRoutes", <<hook, set>>) /\ GoodPlan("applyGatewayRoutes", <<unhook, reset>>)
  BY <1>6, <1>7, GoodMade DEF ForwardOps
<1>10. GoodPlan("applyGatewayRoutes", <<>>)
  BY AllNone, QuietPlan
<1>11. <<hook, nat>> \o <<later>> = <<hook, nat, later>>
  BY Joins
<1>. QED  BY <1>1, <1>4, <1>8, <1>9, <1>10, <1>11

(* enableMSSClamp keeps the order. *)
LEMMA ClampPlan == GoodPlan("enableMSSClamp", enableMSSClamp \o <<Defer("removeMSSClamp")>>)
<1>. DEFINE clamp == RuleCmd("mss", TRUE)  later == Defer("removeMSSClamp")
<1>1. enableMSSClamp = <<clamp>>
  BY DEF enableMSSClamp
<1>2. later.on = "defer" /\ later.do = "removeMSSClamp"
  BY Commands, OtherCommands
<1>3. clamp.on = "rule" /\ clamp.do = "mss"
  BY DEF RuleCmd
<1>. HIDE DEF clamp, later
<1>4. Ending(later) /\ Leads(clamp, later)
  BY <1>2, <1>3 DEF Ending, Leads, DeferOps
<1>5. Made(<<clamp, later>>, {clamp, later}, later)
  BY <1>2, <1>3, <1>4, ShortPlans
<1>6. RuleCmd("aclDel", 0).do = "aclDel"
  BY DEF RuleCmd
<1>7. /\ RoutesOff \notin {clamp, later} /\ NATOff \notin {clamp, later} /\ NATOn \notin {clamp, later}
      /\ RuleCmd("aclDel", 0) \notin {clamp, later}
  BY <1>2, <1>3, <1>6, Flags
<1>8. GoodPlan("enableMSSClamp", <<clamp, later>>)
  BY <1>2, <1>3, <1>5, <1>7, GoodMade
<1>9. <<clamp>> \o <<later>> = <<clamp, later>>
  BY Joins
<1>. QED  BY <1>1, <1>8, <1>9 DEF later

-----------------------------------------------------------------------------
(* The FORWARD list *)

(* F lists nothing twice. *)
Once(F) == IsSeq(F) /\ \A i, j \in DOMAIN F : F[i] = F[j] => i = j

(* iptables -D leaves every other jump. *)
LEMMA AbsentFacts ==
  ASSUME Once(forward), NEW x
  PROVE  Once(Absent(x)) /\ Range(Absent(x)) = Range(forward) \ {x}
<1>. DEFINE n == Len(forward)  S == Range(forward)
<1>1. forward \in Seq(S) /\ n \in Nat /\ DOMAIN forward = 1..n
  BY DEF Once, IsSeq
<1>2. CASE x \notin S
  BY <1>2 DEF Absent
<1>3. CASE x \in S
  <2>1. PICK i \in 1..n : i = CHOOSE k \in 1..n : forward[k] = x
    BY <1>1, <1>3 DEF Range
  <2>2. forward[i] = x /\ \A k \in 1..n : forward[k] = x => k = i
    BY <1>1, <1>3, <2>1 DEF Range, Once
  <2>. DEFINE t == Absent(x)
  <2>3. t = [k \in 1..(n - 1) |-> IF k < i THEN forward[k] ELSE forward[k + 1]]
    BY <1>3, <2>1 DEF Absent
  <2>. HIDE DEF t
  <2>4. DOMAIN t = 1..(n - 1) /\ \A k \in 1..(n - 1) : t[k] = forward[IF k < i THEN k ELSE k + 1]
    BY <2>3
  <2>5. PICK p : p = [k \in 1..(n - 1) |-> IF k < i THEN k ELSE k + 1]
    OBVIOUS
  <2>6. \A k \in 1..(n - 1) : p[k] \in 1..n /\ p[k] # i /\ t[k] = forward[p[k]]
    <3>1. \A k \in 1..(n - 1) : p[k] = IF k < i THEN k ELSE k + 1
      BY <2>5
    <3>2. \A k \in 1..(n - 1) : p[k] \in 1..n /\ p[k] # i
      BY <3>1, <1>1
    <3>3. \A k \in 1..(n - 1) : t[k] = forward[p[k]]
      BY <3>1, <2>4
    <3>. QED  BY <3>2, <3>3
  <2>7. \A k, m \in 1..(n - 1) : p[k] = p[m] => k = m
    BY <2>5, <1>1
  <2>8. ASSUME NEW m \in 1..n, m # i PROVE \E k \in 1..(n - 1) : t[k] = forward[m]
    <3>1. CASE m < i
      BY <3>1, <1>1, <2>4
    <3>2. CASE m > i
      <4>1. m - 1 \in 1..(n - 1) /\ ~(m - 1 < i) /\ (m - 1) + 1 = m
        BY <3>2, <1>1
      <4>2. t[m - 1] = forward[m]
        BY <4>1, <2>4
      <4>. QED  BY <4>1, <4>2
    <3>. QED  BY <2>8, <3>1, <3>2, <1>1
  <2>. HIDE DEF n, S
  <2>9. \A k \in 1..(n - 1) : t[k] \in S \ {x}
    BY <2>2, <2>6, <1>1 DEF S, Range
  <2>10. Range(t) = S \ {x}
    <3>1. \A y \in S \ {x} : \E k \in 1..(n - 1) : t[k] = y
      BY <2>2, <2>8, <1>1 DEF S, Range
    <3>. QED  BY <3>1, <2>4, <2>9 DEF Range
  <2>11. n - 1 \in Nat
    BY <1>1, <2>1
  <2>12. t \in [1..(n - 1) -> S]
    BY <2>3, <2>4, <2>9
  <2>13. IsSeq(t)
    <3>1. t \in Seq(S)
      BY <2>11, <2>12
    <3>. QED  BY <3>1, SeqIsSeq
  <2>14. \A k, m \in DOMAIN t : t[k] = t[m] => k = m
    BY <2>4, <2>6, <2>7, <1>1 DEF Once
  <2>. QED  BY <2>10, <2>13, <2>14 DEF Once, t, S
<1>. QED  BY <1>2, <1>3

(* iptables -I puts a new jump in front. *)
LEMMA InFront ==
  ASSUME NEW F, Once(F), NEW x, x \notin Range(F)
  PROVE  /\ Once(<<x>> \o F) /\ Range(<<x>> \o F) = Range(F) \cup {x}
         /\ <<x>> \o F # <<>> /\ Head(<<x>> \o F) = x
<1>1. PICK u : u = <<x>>
  OBVIOUS
<1>2. IsSeq(u) /\ Len(u) = 1 /\ u[1] = x
  BY <1>1, Single
<1>3. Range(u) = {x}
  BY <1>2, IsSeqFacts DEF Range
<1>4. PICK t : t = u \o F
  OBVIOUS
<1>5. IsSeq(F) /\ Len(F) \in Nat /\ DOMAIN F = 1..Len(F)
  BY IsSeqFacts DEF Once
<1>6. /\ IsSeq(t) /\ Len(t) = 1 + Len(F) /\ Range(t) = {x} \cup Range(F)
      /\ t[1] = x /\ \A i \in 1..Len(F) : t[1 + i] = F[i]
  <2>1. Joined(t, u, F)
    BY <1>2, <1>4, <1>5, ConcatFacts
  <2>. QED  BY <2>1, <1>2, <1>3 DEF Joined
<1>7. DOMAIN t = 1..(1 + Len(F))
  BY <1>5, <1>6, IsSeqFacts
<1>8. \A i \in DOMAIN t : i # 1 => i - 1 \in DOMAIN F /\ t[i] = F[i - 1]
  <2>. SUFFICES ASSUME NEW i \in DOMAIN t, i # 1 PROVE i - 1 \in DOMAIN F /\ t[i] = F[i - 1]
    OBVIOUS
  <2>1. i - 1 \in 1..Len(F) /\ 1 + (i - 1) = i
    BY <1>5, <1>7
  <2>. QED  BY <2>1, <1>5, <1>6
<1>9. \A i, j \in DOMAIN t : t[i] = t[j] => i = j
  <2>. SUFFICES ASSUME NEW i \in DOMAIN t, NEW j \in DOMAIN t, t[i] = t[j] PROVE i = j
    OBVIOUS
  <2>1. i \in Int /\ j \in Int
    BY <1>5, <1>7
  <2>2. CASE i = 1 \/ j = 1
    BY <2>2, <1>6, <1>8 DEF Range
  <2>3. CASE i # 1 /\ j # 1
    <3>1. i - 1 = j - 1
      BY <2>3, <1>8 DEF Once
    <3>. QED  BY <3>1, <2>1
  <2>. QED  BY <2>2, <2>3
<1>10. t # <<>>
  BY <1>6, EmptyRange
<1>11. Head(t) = x
  BY <1>6, <1>10, TailFacts
<1>. QED  BY <1>1, <1>4, <1>6, <1>9, <1>10, <1>11 DEF Once

(* What a deletion and an insertion make of the FORWARD list. *)
LEMMA JumpFacts ==
  ASSUME Once(forward), NEW x
  PROVE  /\ Once(Absent(x)) /\ Range(Absent(x)) = Range(forward) \ {x}
         /\ Once(Ensured(x)) /\ Range(Ensured(x)) = Range(forward) \cup {x}
         /\ Once(<<x>> \o Absent(x)) /\ Range(<<x>> \o Absent(x)) = Range(forward) \cup {x}
         /\ <<x>> \o Absent(x) # <<>> /\ Head(<<x>> \o Absent(x)) = x
<1>1. Once(Absent(x)) /\ Range(Absent(x)) = Range(forward) \ {x}
  BY AbsentFacts
<1>2. Once(Ensured(x)) /\ Range(Ensured(x)) = Range(forward) \cup {x}
  BY InFront DEF Ensured
<1>3. /\ Once(<<x>> \o Absent(x)) /\ Range(<<x>> \o Absent(x)) = Range(Absent(x)) \cup {x}
      /\ <<x>> \o Absent(x) # <<>> /\ Head(<<x>> \o Absent(x)) = x
  BY <1>1, InFront
<1>. QED  BY <1>1, <1>2, <1>3

-----------------------------------------------------------------------------
(* One command more, and one operation more *)

(* An operation with no commands left has none. *)
LEMMA NothingToCome == DOMAIN <<>> = {} /\ \A x : ~Has(<<>>, x)
<1>1. DOMAIN <<>> = {}
  OBVIOUS
<1>. QED  BY <1>1 DEF Has

(* s is c with t behind it. *)
Behind(s, c, t) ==
  /\ IsSeq(s) /\ IsSeq(t) /\ Len(s) = Len(t) + 1
  /\ 1 \in DOMAIN s /\ s[1] = c /\ Len(s) \in DOMAIN s
  /\ \A i \in DOMAIN t : i + 1 \in DOMAIN s /\ t[i] = s[i + 1]
  /\ \A i \in DOMAIN s : i = 1 \/ (i - 1 \in DOMAIN t /\ s[i] = t[i - 1])
  /\ t # <<>> => Len(t) \in DOMAIN t /\ t[Len(t)] = s[Len(s)] /\ Len(s) # 1
  /\ t = <<>> => Len(s) = 1 /\ DOMAIN t = {}

(* The commands of an operation are the first one and those behind it. *)
LEMMA HeadAndTail ==
  ASSUME NEW s, IsSeq(s), s # <<>>
  PROVE  Behind(s, Head(s), Tail(s))
<1>1. /\ IsSeq(Tail(s)) /\ Len(Tail(s)) = Len(s) - 1 /\ Len(s) >= 1
      /\ \A i \in 1..(Len(s) - 1) : Tail(s)[i] = s[i + 1]
      /\ Head(s) = s[1]
  BY TailFacts
<1>2. Len(s) \in Nat /\ DOMAIN s = 1..Len(s) /\ Len(Tail(s)) \in Nat /\ DOMAIN Tail(s) = 1..Len(Tail(s))
  BY <1>1, IsSeqFacts
<1>3. PICK t : t = Tail(s)
  OBVIOUS
<1>4. PICK n : n = Len(s)
  OBVIOUS
<1>5. n \in Nat /\ n >= 1 /\ DOMAIN s = 1..n /\ Len(t) = n - 1 /\ DOMAIN t = 1..(n - 1)
      /\ \A i \in 1..(n - 1) : t[i] = s[i + 1]
  BY <1>1, <1>2, <1>3, <1>4
<1>6. \A i \in DOMAIN t : i + 1 \in DOMAIN s /\ t[i] = s[i + 1]
  BY <1>5
<1>7. ASSUME NEW i \in DOMAIN s, i # 1 PROVE i - 1 \in DOMAIN t /\ s[i] = t[i - 1]
  <2>1. i \in 2..n /\ i - 1 \in 1..(n - 1) /\ (i - 1) + 1 = i
    BY <1>5, <1>7
  <2>. QED  BY <1>5, <2>1
<1>8. t = <<>> <=> n = 1
  <2>1. t = <<>> <=> Range(t) = {}
    BY <1>1, <1>3, EmptyRange
  <2>2. n = 1 => Range(t) = {}
    BY <1>5 DEF Range
  <2>3. n # 1 => 1 \in DOMAIN t
    BY <1>5
  <2>4. n # 1 => t[1] \in Range(t)
    BY <2>3 DEF Range
  <2>. QED  BY <2>1, <2>2, <2>4
<1>9. n # 1 => n - 1 \in 1..(n - 1) /\ (n - 1) + 1 = n
  BY <1>5
<1>10. 1 \in DOMAIN s /\ Len(s) \in DOMAIN s /\ Len(s) = Len(t) + 1
  BY <1>4, <1>5
<1>11. t # <<>> => Len(t) \in DOMAIN t /\ t[Len(t)] = s[Len(s)] /\ Len(s) # 1
  BY <1>4, <1>5, <1>8, <1>9
<1>12. t = <<>> => Len(s) = 1 /\ DOMAIN t = {}
  BY <1>4, <1>5, <1>8, Tuples
<1>13. Behind(s, s[1], t)
  BY <1>1, <1>3, <1>6, <1>7, <1>10, <1>11, <1>12 DEF Behind
<1>. QED  BY <1>1, <1>3, <1>13

(* A command to be made is the first one or behind it. *)
LEMMA HasBehind ==
  ASSUME NEW s, NEW c, NEW t, Behind(s, c, t), NEW x
  PROVE  Has(s, x) <=> x = c \/ Has(t, x)
<1>1. Has(s, x) => x = c \/ Has(t, x)
  BY DEF Behind, Has
<1>2. x = c \/ Has(t, x) => Has(s, x)
  BY DEF Behind, Has
<1>. QED  BY <1>1, <1>2

(* What is left of an operation is in order, and what may stand first in it. *)
LEMMA OrderlyBehind ==
  ASSUME NEW s, NEW c, NEW t, Behind(s, c, t), Orderly(s), RuleOrder(s)
  PROVE  /\ Orderly(t) /\ RuleOrder(t)
         /\ c.on \in {"conf", "fw", "rule", "flag", "defer"}
         /\ c.on = "defer" => c.do \in DeferOps
         /\ c.on = "flag" => t = <<>> /\ (c \in ExitFlags \/ c.do \in {"gatewayForwardOn", "dns"})
         /\ c.on = "rule" /\ c.do \in Adding => t # <<>> /\ Leads(c, t[Len(t)])
         /\ c.on = "rule" /\ c.do = "aclDel" => t = <<>> /\ c = RuleCmd("aclDel", 0)
         /\ c.on \in {"conf", "fw"} \/ c.do \in {"refuse", "linkAdd"} => \A j \in DOMAIN s : Light(s[j])
<1>1. \A i \in DOMAIN t : i + 1 \in DOMAIN s /\ t[i] = s[i + 1]
  BY DEF Behind
<1>2. \A i \in DOMAIN t : i + 1 = Len(s) <=> i = Len(t)
  <2>1. Len(s) = Len(t) + 1 /\ IsSeq(t)
    BY DEF Behind
  <2>2. Len(t) \in Nat /\ DOMAIN t = 1..Len(t)
    BY <2>1, IsSeqFacts
  <2>. QED  BY <2>1, <2>2
<1>3. IsSeq(t) /\ \A i \in DOMAIN t : t[Len(t)] = s[Len(s)]
  BY DEF Behind
<1>4. Orderly(t)
  <2>. SUFFICES ASSUME NEW i \in DOMAIN t
                PROVE  /\ t[i].on \in {"conf", "fw", "rule", "flag", "defer"}
                       /\ t[i].on = "defer" => t[i].do \in DeferOps
                       /\ t[i].on = "flag" => i = Len(t) /\ (t[i] \in ExitFlags \/ t[i].do \in {"gatewayForwardOn", "dns"})
                       /\ t[i].on \in {"conf", "fw"} \/ t[i].do \in {"refuse", "linkAdd"}
                            => \A j \in DOMAIN t : Light(t[j])
    BY <1>3 DEF Orderly
  <2>1. PICK k \in DOMAIN s : k = i + 1 /\ t[i] = s[k] /\ (k = Len(s) <=> i = Len(t))
    BY <1>1, <1>2
  <2>. QED  BY <1>1, <2>1 DEF Orderly
<1>5. RuleOrder(t)
  <2>. SUFFICES ASSUME NEW i \in DOMAIN t, t[i].on = "rule"
                PROVE  IF i = Len(t) THEN Closes(t[i]) ELSE Leads(t[i], t[Len(t)])
    BY DEF RuleOrder
  <2>1. PICK k \in DOMAIN s : k = i + 1 /\ t[i] = s[k] /\ (k = Len(s) <=> i = Len(t))
    BY <1>1, <1>2
  <2>. QED  BY <1>3, <2>1 DEF RuleOrder
<1>6. 1 \in DOMAIN s /\ s[1] = c /\ (t = <<>> <=> Len(s) = 1) /\ (t # <<>> => t[Len(t)] = s[Len(s)])
  BY DEF Behind
<1>7. /\ c.on \in {"conf", "fw", "rule", "flag", "defer"}
      /\ c.on = "defer" => c.do \in DeferOps
      /\ c.on = "flag" => t = <<>> /\ (c \in ExitFlags \/ c.do \in {"gatewayForwardOn", "dns"})
      /\ c.on \in {"conf", "fw"} \/ c.do \in {"refuse", "linkAdd"} => \A j \in DOMAIN s : Light(s[j])
  BY <1>6 DEF Orderly
<1>8. c.on = "rule" => IF t = <<>> THEN Closes(c) ELSE Leads(c, t[Len(t)])
  BY <1>6 DEF RuleOrder
<1>9. c.on = "rule" /\ c.do = "aclDel" => t = <<>> /\ c = RuleCmd("aclDel", 0)
  BY <1>8 DEF Leads, Closes
<1>. QED  BY <1>4, <1>5, <1>7, <1>8, <1>9 DEF Closes

(* What a command may do to the rules: policy rules, masquerading, jumps    *)
(* and the ACL chain before it and after it.                                *)
Applied(c, P, M, F, A, P2, M2, F2, A2) ==
  /\ \A r \in P2 : \/ r \in P /\ ~Deletes(c, r)
                   \/ c.on = "rule" /\ c.do = "policyAdd" /\ r = c.arg
  /\ M2 # {} => \/ M # {} /\ c # RuleCmd("masqDel", 0)
                \/ c.on = "rule" /\ c.do = "masqAdd"
  /\ \A x \in Range(F2) : \/ x \in Range(F) /\ c # RuleCmd("forwardDel", x)
                          \/ c.on = "rule" /\ c.do \in {"forwardEnsure", "forwardFirst"} /\ x = c.arg
  /\ \/ F2 = F /\ ~(c.on = "rule" /\ c.do = "forwardFirst")
     \/ c.on = "rule" /\ c.do \in {"forwardEnsure", "forwardDel"}
     \/ c.on = "rule" /\ c.do = "forwardFirst" /\ F2 # <<>> /\ Head(F2) = c.arg
  /\ \/ A2 = A /\ c # RuleCmd("aclFill", 0)
     \/ c.on = "rule" /\ c.do \in {"aclFlush", "aclDel"}
     \/ A2 = "filled"

(* And to the flags of its goroutine. *)
Noted(c, routes, nat, routes2, nat2) ==
  /\ c = RoutesOn \/ (routes /\ c # RoutesOff) => routes2
  /\ c = NATOn \/ (nat /\ c # NATOff) => nat2
  /\ nat2 => (nat /\ c # NATOff) \/ c = NATOn

(* Of the commands s, c is made and t is left. *)
Performs(s, c, t, P, M, F, A, P2, M2, F2, A2) ==
  /\ Behind(s, c, t) /\ Orderly(s) /\ RuleOrder(s)
  /\ Applied(c, P, M, F, A, P2, M2, F2, A2)

(* And the flags f become f2. *)
Makes(s, c, t, P, M, F, A, P2, M2, F2, A2, f, f2) ==
  /\ Performs(s, c, t, P, M, F, A, P2, M2, F2, A2)
  /\ Noted(c, f.exitRoutesOn, f.exitNATOn, f2.exitRoutesOn, f2.exitNATOn)

(* A flag that is to be set is the last command. *)
LEMMA Ends ==
  ASSUME NEW t, Orderly(t), NEW x, x.on = "flag", Has(t, x)
  PROVE  t # <<>> /\ t[Len(t)] = x
<1>1. PICK i \in DOMAIN t : t[i] = x
  BY DEF Has
<1>2. i = Len(t)
  BY <1>1 DEF Orderly
<1>3. t # <<>>
  BY <1>1
<1>. QED  BY <1>1, <1>2, <1>3

(* The last command is one of those behind the first. *)
LEMMA LastIsThere ==
  ASSUME NEW s, NEW c, NEW t, Behind(s, c, t), t # <<>>
  PROVE  Has(t, t[Len(t)])
BY DEF Behind, Has

(* A command leaves the exit state tracked: what it adds is recorded by a    *)
(* command to come, and the record that something is gone comes after its    *)
(* deletion.                                                                 *)
LEMMA DoTracked ==
  ASSUME NEW s, NEW c, NEW t, NEW P, NEW M, NEW F, NEW A, NEW P2, NEW M2, NEW F2, NEW A2,
         NEW f, NEW f2, Makes(s, c, t, P, M, F, A, P2, M2, F2, A2, f, f2),
         ExitTracked(s, f.exitRoutesOn, f.exitNATOn, P, M, F)
  PROVE  ExitTracked(t, f2.exitRoutesOn, f2.exitNATOn, P2, M2, F2)
<1>. DEFINE routes == f.exitRoutesOn  nat == f.exitNATOn  routes2 == f2.exitRoutesOn  nat2 == f2.exitNATOn
<1>. Noted(c, routes, nat, routes2, nat2) /\ ExitTracked(s, routes, nat, P, M, F)
  BY DEF Makes
<1>. Behind(s, c, t) /\ Orderly(s) /\ RuleOrder(s) /\ Applied(c, P, M, F, A, P2, M2, F2, A2)
  BY DEF Makes, Performs
<1>. SUFFICES ExitTracked(t, routes2, nat2, P2, M2, F2)
  OBVIOUS
<1>. HIDE DEF routes, nat, routes2, nat2
<1>1. /\ Orderly(t)
      /\ c.on = "flag" => t = <<>> /\ (c \in ExitFlags \/ c.do \in {"gatewayForwardOn", "dns"})
      /\ c.on = "rule" /\ c.do \in Adding => t # <<>> /\ Leads(c, t[Len(t)])
  BY OrderlyBehind
<1>2. \A x : Has(s, x) <=> x = c \/ Has(t, x)
  BY HasBehind
<1>3. t # <<>> => Has(t, t[Len(t)])
  BY LastIsThere
<1>4. \A r : (\E i \in DOMAIN s : Deletes(s[i], r)) <=> Deletes(c, r) \/ \E i \in DOMAIN t : Deletes(t[i], r)
  BY DEF Behind
<1>5. \A x \in ExitFlags : Has(t, x) => t # <<>> /\ t[Len(t)] = x
  BY <1>1, Ends, Flags DEF ExitFlags
<1>6. Has(t, RoutesOff) => \A r \in P2 : \E i \in DOMAIN t : Deletes(t[i], r)
  <2>. SUFFICES ASSUME Has(t, RoutesOff), NEW r \in P2 PROVE \E i \in DOMAIN t : Deletes(t[i], r)
    OBVIOUS
  <2>1. ~(c.on = "rule" /\ c.do = "policyAdd")
    BY <1>1, <1>5, Flags DEF ExitFlags, Leads, Adding
  <2>2. r \in P /\ ~Deletes(c, r)
    BY <2>1 DEF Applied
  <2>. QED  BY <1>2, <1>4, <2>2 DEF ExitTracked
<1>7. P2 # {} => routes2 \/ Has(t, RoutesOn)
  <2>. SUFFICES ASSUME NEW r \in P2 PROVE routes2 \/ Has(t, RoutesOn)
    OBVIOUS
  <2>1. CASE c.on = "rule" /\ c.do = "policyAdd"
    BY <2>1, <1>1, <1>3 DEF Leads, Adding
  <2>2. CASE ~(c.on = "rule" /\ c.do = "policyAdd")
    <3>1. r \in P /\ ~Deletes(c, r)
      BY <2>2 DEF Applied
    <3>2. routes \/ Has(s, RoutesOn)
      BY <3>1 DEF ExitTracked
    <3>3. c # RoutesOff
      <4>. SUFFICES ASSUME c = RoutesOff PROVE FALSE
        OBVIOUS
      <4>1. Has(s, RoutesOff) /\ c.on = "flag"
        BY <1>2, Flags
      <4>2. t = <<>> /\ DOMAIN t = {}
        BY <4>1, <1>1 DEF Behind
      <4>3. \E i \in DOMAIN s : Deletes(s[i], r)
        BY <3>1, <4>1 DEF ExitTracked
      <4>. QED  BY <1>4, <3>1, <4>2, <4>3
    <3>. QED  BY <1>2, <3>2, <3>3 DEF Noted
  <2>. QED  BY <2>1, <2>2
<1>8. Has(t, NATOff) =>
       /\ M2 # {} => Has(t, RuleCmd("masqDel", 0))
       /\ "exit" \in Range(F2) => Has(t, RuleCmd("forwardDel", "exit"))
  <2>. SUFFICES ASSUME Has(t, NATOff)
                PROVE  /\ M2 # {} => Has(t, RuleCmd("masqDel", 0))
                       /\ "exit" \in Range(F2) => Has(t, RuleCmd("forwardDel", "exit"))
    OBVIOUS
  <2>1. t # <<>> /\ t[Len(t)] = NATOff
    BY <1>5 DEF ExitFlags
  <2>2. ~(c.on = "rule" /\ c.do \in {"masqAdd", "forwardFirst"})
    BY <1>1, <2>1, Flags DEF Leads, Adding
  <2>3. c.on = "rule" /\ c.do = "forwardEnsure" => c.arg \in {"gateway", "acl"}
    BY <1>1 DEF Leads, Adding
  <2>4. M2 # {} => M # {} /\ c # RuleCmd("masqDel", 0)
    BY <2>2 DEF Applied
  <2>5. "exit" \in Range(F2) => "exit" \in Range(F) /\ c # RuleCmd("forwardDel", "exit")
    BY <2>2, <2>3 DEF Applied
  <2>. QED  BY <1>2, <2>4, <2>5 DEF ExitTracked
<1>9. M2 # {} \/ "exit" \in Range(F2) => nat2 \/ Has(t, NATOn)
  <2>. SUFFICES ASSUME M2 # {} \/ "exit" \in Range(F2) PROVE nat2 \/ Has(t, NATOn)
    OBVIOUS
  <2>1. CASE c.on = "rule" /\ c.do \in {"masqAdd", "forwardFirst"}
    BY <2>1, <1>1, <1>3 DEF Leads, Adding
  <2>2. CASE ~(c.on = "rule" /\ c.do \in {"masqAdd", "forwardFirst"})
    <3>1. c.on = "rule" /\ c.do = "forwardEnsure" => c.arg \in {"gateway", "acl"}
      BY <1>1 DEF Leads, Adding
    <3>2. (M # {} /\ c # RuleCmd("masqDel", 0)) \/ ("exit" \in Range(F) /\ c # RuleCmd("forwardDel", "exit"))
      BY <2>2, <3>1 DEF Applied
    <3>3. nat \/ Has(s, NATOn)
      BY <3>2 DEF ExitTracked
    <3>4. c # NATOff
      <4>. SUFFICES ASSUME c = NATOff PROVE FALSE
        OBVIOUS
      <4>1. Has(s, NATOff) /\ c.on = "flag"
        BY <1>2, Flags
      <4>2. t = <<>> /\ DOMAIN t = {}
        BY <4>1, <1>1 DEF Behind
      <4>3. Has(s, RuleCmd("masqDel", 0)) \/ Has(s, RuleCmd("forwardDel", "exit"))
        BY <3>2, <4>1 DEF ExitTracked
      <4>4. RuleCmd("masqDel", 0).on = "rule" /\ RuleCmd("forwardDel", "exit").on = "rule"
        BY DEF RuleCmd
      <4>5. c # RuleCmd("masqDel", 0) /\ c # RuleCmd("forwardDel", "exit")
        BY <4>1, <4>4
      <4>. QED  BY <1>2, <4>2, <4>3, <4>5 DEF Has
    <3>. QED  BY <1>2, <3>3, <3>4 DEF Noted
  <2>. QED  BY <2>1, <2>2
<1>. QED  BY <1>6, <1>7, <1>8, <1>9 DEF ExitTracked

(* A command leaves the exit jump first, or a later operation to put it      *)
(* there.                                                                    *)
LEMMA DoJump ==
  ASSUME NEW s, NEW c, NEW t, NEW P, NEW M, NEW F, NEW A, NEW P2, NEW M2, NEW F2, NEW A2,
         NEW f, NEW f2, Makes(s, c, t, P, M, F, A, P2, M2, F2, A2, f, f2),
         NEW g, JumpFirst(s, g, f.exitNATOn, F)
  PROVE  JumpFirst(t, g, f2.exitNATOn, F2)
<1>. DEFINE routes == f.exitRoutesOn  nat == f.exitNATOn  routes2 == f2.exitRoutesOn  nat2 == f2.exitNATOn
<1>. Noted(c, routes, nat, routes2, nat2) /\ JumpFirst(s, g, nat, F)
  BY DEF Makes
<1>. Behind(s, c, t) /\ Orderly(s) /\ RuleOrder(s) /\ Applied(c, P, M, F, A, P2, M2, F2, A2)
  BY DEF Makes, Performs
<1>. SUFFICES JumpFirst(t, g, nat2, F2)
  OBVIOUS
<1>. HIDE DEF routes, nat, routes2, nat2
<1>1. /\ c.on = "flag" => t = <<>>
      /\ c.on = "rule" /\ c.do \in Adding => t # <<>> /\ Leads(c, t[Len(t)])
  BY OrderlyBehind
<1>2. \A x : Has(s, x) <=> x = c \/ Has(t, x)
  BY HasBehind
<1>3. t # <<>> => Has(t, t[Len(t)]) /\ t[Len(t)] = s[Len(s)]
  BY LastIsThere DEF Behind
<1>4. t = <<>> => s[Len(s)] = c
  BY DEF Behind
<1>5. \A i \in DOMAIN t : t[i].on = "rule" /\ t[i].do \in {"forwardEnsure", "forwardDel"} =>
       ExitNATToCome(g) \/ t[Len(t)] = NATOff
  <2>. SUFFICES ASSUME NEW i \in DOMAIN t, t[i].on = "rule", t[i].do \in {"forwardEnsure", "forwardDel"}
                PROVE  ExitNATToCome(g) \/ t[Len(t)] = NATOff
    OBVIOUS
  <2>1. PICK k \in DOMAIN s : s[k] = t[i]
    BY DEF Behind
  <2>2. ExitNATToCome(g) \/ s[Len(s)] = NATOff
    BY <2>1 DEF JumpFirst
  <2>3. t # <<>>
    BY NothingToCome
  <2>. QED  BY <1>3, <2>2, <2>3
<1>6. ASSUME nat2 \/ Has(t, NATOn)
      PROVE  \/ F2 # <<>> /\ Head(F2) = "exit"
             \/ ExitNATToCome(g)
             \/ Has(t, RuleCmd("forwardFirst", "exit"))
             \/ Has(t, NATOff)
  <2>1. nat \/ Has(s, NATOn)
    BY <1>2, <1>6 DEF Noted
  <2>2. CASE c.on = "rule" /\ c.do \in {"forwardEnsure", "forwardDel"}
    <3>1. ExitNATToCome(g) \/ s[Len(s)] = NATOff
      BY <2>2 DEF JumpFirst, Behind
    <3>2. c # NATOff
      BY <2>2, Flags
    <3>. QED  BY <1>3, <1>4, <3>1, <3>2
  <2>3. CASE c.on = "rule" /\ c.do = "forwardFirst"
    BY <1>1, <2>3 DEF Leads, Adding, Applied
  <2>4. CASE F2 = F /\ ~(c.on = "rule" /\ c.do = "forwardFirst")
    <3>0. c # RuleCmd("forwardFirst", "exit")
      BY <2>4, Commands
    <3>1. \/ F # <<>> /\ Head(F) = "exit"
          \/ ExitNATToCome(g)
          \/ Has(s, RuleCmd("forwardFirst", "exit"))
          \/ Has(s, NATOff)
      BY <2>1 DEF JumpFirst
    <3>2. CASE c = NATOff
      <4>1. t = <<>> /\ DOMAIN t = {} /\ ~Has(t, NATOn) /\ NATOff # NATOn
        BY <3>2, <1>1, Flags DEF Behind, Has
      <4>2. nat2
        BY <1>6, <4>1
      <4>. QED  BY <1>2, <2>4, <3>2, <4>1, <4>2 DEF Noted
    <3>. QED  BY <1>2, <2>4, <3>0, <3>1, <3>2
  <2>. QED  BY <2>2, <2>3, <2>4 DEF Applied
<1>7. \A i \in DOMAIN g : g[i] \in ForwardOps => \E j \in DOMAIN g : j > i /\ g[j] = "applyExitNodeNAT"
  BY DEF JumpFirst
<1>. QED  BY <1>5, <1>6, <1>7 DEF JumpFirst

(* A command leaves no jump to a chain that nothing fills. *)
LEMMA DoDeny ==
  ASSUME NEW s, NEW c, NEW t, NEW P, NEW M, NEW F, NEW A, NEW P2, NEW M2, NEW F2, NEW A2,
         Performs(s, c, t, P, M, F, A, P2, M2, F2, A2), DenyFilled(s, F, A)
  PROVE  DenyFilled(t, F2, A2)
<1>. Behind(s, c, t) /\ Orderly(s) /\ RuleOrder(s) /\ Applied(c, P, M, F, A, P2, M2, F2, A2)
  BY DEF Performs
<1>1. /\ c.on = "rule" /\ c.do \in Adding => t # <<>> /\ Leads(c, t[Len(t)])
      /\ c.on = "rule" /\ c.do = "aclDel" => t = <<>> /\ c = RuleCmd("aclDel", 0)
      /\ RuleOrder(t)
  BY OrderlyBehind
<1>2. \A x : Has(s, x) <=> x = c \/ Has(t, x)
  BY HasBehind
<1>3. t # <<>> => Has(t, t[Len(t)])
  BY LastIsThere
<1>4. t = <<>> => DOMAIN t = {}
  BY DEF Behind
<1>5. Has(t, RuleCmd("aclDel", 0)) => t[Len(t)] = RuleCmd("aclDel", 0)
  <2>1. RuleCmd("aclDel", 0).on = "rule" /\ RuleCmd("aclDel", 0).do = "aclDel"
    BY Commands
  <2>. QED  BY <1>1, <2>1 DEF Has, RuleOrder, Leads
<1>6. RuleCmd("aclDel", 0) # RuleCmd("aclFill", 0) /\ RuleCmd("aclFill", 0).do = "aclFill"
      /\ RuleCmd("forwardDel", "acl").do = "forwardDel" /\ RuleCmd("forwardDel", "acl").on = "rule"
      /\ RuleCmd("aclDel", 0).do = "aclDel"
  BY DEF RuleCmd
<1>7. c.on = "rule" /\ (c.do = "aclFlush" \/ (c.do = "forwardEnsure" /\ c.arg = "acl"))
        => t[Len(t)] = RuleCmd("aclFill", 0) /\ Has(t, RuleCmd("aclFill", 0))
  BY <1>1, <1>3 DEF Leads, Adding
<1>8. c.on = "rule" /\ c.do = "forwardFirst" => c.arg = "exit"
  BY <1>1 DEF Leads, Adding
<1>9. "acl" \in Range(F2) => \/ "acl" \in Range(F) /\ c # RuleCmd("forwardDel", "acl")
                             \/ c.on = "rule" /\ c.do = "forwardEnsure" /\ c.arg = "acl"
  BY <1>8 DEF Applied
<1>10. ASSUME "acl" \in Range(F2), Has(t, RuleCmd("aclDel", 0))
       PROVE  Has(t, RuleCmd("forwardDel", "acl"))
  <2>1. "acl" \in Range(F) /\ c # RuleCmd("forwardDel", "acl")
    BY <1>5, <1>6, <1>7, <1>9, <1>10
  <2>. QED  BY <1>2, <1>10, <2>1 DEF DenyFilled
<1>11. ASSUME "acl" \in Range(F2)
       PROVE  A2 = "filled" \/ Has(t, RuleCmd("aclFill", 0)) \/ Has(t, RuleCmd("forwardDel", "acl"))
  <2>1. CASE c.on = "rule" /\ (c.do = "aclFlush" \/ (c.do = "forwardEnsure" /\ c.arg = "acl"))
    BY <2>1, <1>7
  <2>2. CASE "acl" \in Range(F) /\ c # RuleCmd("forwardDel", "acl") /\ ~(c.on = "rule" /\ c.do = "aclFlush")
    <3>1. A = "filled" \/ Has(s, RuleCmd("aclFill", 0)) \/ Has(t, RuleCmd("forwardDel", "acl"))
      BY <1>2, <2>2 DEF DenyFilled
    <3>2. CASE c.on = "rule" /\ c.do = "aclDel"
      BY <1>1, <1>2, <1>4, <1>6, <2>2, <3>2 DEF DenyFilled, Has
    <3>3. CASE ~(c.on = "rule" /\ c.do = "aclDel")
      BY <1>2, <2>2, <3>1, <3>3 DEF Applied
    <3>. QED  BY <3>2, <3>3
  <2>. QED  BY <1>9, <1>11, <2>1, <2>2
<1>. QED  BY <1>10, <1>11 DEF DenyFilled

(* A command of the cleanup leaves the rest of it enough to delete what      *)
(* there is.                                                                 *)
LEMMA DoClear ==
  ASSUME NEW s, NEW c, NEW t, NEW P, NEW M, NEW F, NEW A, NEW P2, NEW M2, NEW F2, NEW A2,
         Performs(s, c, t, P, M, F, A, P2, M2, F2, A2), Clearing(s, P, M, F),
         c.do \notin Adding
  PROVE  Clearing(t, P2, M2, F2)
<1>. Behind(s, c, t) /\ Orderly(s) /\ RuleOrder(s) /\ Applied(c, P, M, F, A, P2, M2, F2, A2)
  BY DEF Performs
<1>1. \A x : Has(s, x) <=> x = c \/ Has(t, x)
  BY HasBehind
<1>2. \A r : (\E i \in DOMAIN s : Deletes(s[i], r)) => Deletes(c, r) \/ \E i \in DOMAIN t : Deletes(t[i], r)
  BY DEF Behind
<1>3. \A r \in P2 : r \in P /\ ~Deletes(c, r)
  BY DEF Applied, Adding
<1>4. M2 # {} => M # {} /\ c # RuleCmd("masqDel", 0)
  BY DEF Applied, Adding
<1>5. "exit" \in Range(F2) => "exit" \in Range(F) /\ c # RuleCmd("forwardDel", "exit")
  BY DEF Applied, Adding
<1>. QED  BY <1>1, <1>2, <1>3, <1>4, <1>5 DEF Clearing

(* An operation begins with the exit state tracked. *)
LEMMA BeginTracked ==
  ASSUME NEW op, NEW s, GoodPlan(op, s), NEW routes, NEW nat, NEW P, P \subseteq RouteRules, NEW M, NEW F,
         ExitTracked(<<>>, routes, nat, P, M, F)
  PROVE  ExitTracked(s, routes, nat, P, M, F)
<1>1. (P # {} => routes) /\ (M # {} \/ "exit" \in Range(F) => nat)
  BY NothingToCome DEF ExitTracked
<1>2. Has(s, RoutesOff) => \A r \in P : \E i \in DOMAIN s : Deletes(s[i], r)
  BY DEF GoodPlan
<1>3. Has(s, NATOff) => Has(s, RuleCmd("masqDel", 0)) /\ Has(s, RuleCmd("forwardDel", "exit"))
  BY DEF GoodPlan
<1>. QED  BY <1>1, <1>2, <1>3 DEF ExitTracked

(* An operation begins with the chain filled, or it fills it, or removes the *)
(* jump.                                                                     *)
LEMMA BeginDeny ==
  ASSUME NEW op, NEW s, GoodPlan(op, s), NEW F, NEW A,
         \/ DenyFilled(<<>>, F, A)
         \/ Has(s, RuleCmd("aclFill", 0)) \/ Has(s, RuleCmd("forwardDel", "acl"))
  PROVE  DenyFilled(s, F, A)
BY NothingToCome DEF GoodPlan, DenyFilled

(* An operation that is not the exit NAT's, skipped, leaves that to come. *)
LEMMA SkipJump ==
  ASSUME NEW g, NEW op, NEW rest, Behind(g, op, rest), op # "applyExitNodeNAT",
         NEW s, NEW nat, NEW F, JumpFirst(s, g, nat, F)
  PROVE  JumpFirst(s, rest, nat, F)
<1>1. ExitNATToCome(g) => ExitNATToCome(rest)
  BY DEF Behind, ExitNATToCome
<1>2. ASSUME NEW i \in DOMAIN rest, rest[i] \in ForwardOps
      PROVE  \E j \in DOMAIN rest : j > i /\ rest[j] = "applyExitNodeNAT"
  <2>1. i + 1 \in DOMAIN g /\ g[i + 1] = rest[i] /\ DOMAIN rest = 1..Len(rest) /\ DOMAIN g = 1..Len(g)
    BY IsSeqFacts DEF Behind
  <2>2. PICK j \in DOMAIN g : j > i + 1 /\ g[j] = "applyExitNodeNAT"
    BY <1>2, <2>1 DEF JumpFirst
  <2>3. i \in Nat /\ i >= 1 /\ j \in Nat /\ j # 1 /\ j - 1 > i
    BY <2>1, <2>2
  <2>4. j - 1 \in DOMAIN rest /\ rest[j - 1] = g[j]
    BY <2>2, <2>3 DEF Behind
  <2>. QED  BY <2>2, <2>3, <2>4
<1>. QED  BY <1>1, <1>2 DEF JumpFirst

(* An operation begins with the exit jump first or to be put there. *)
LEMMA BeginJump ==
  ASSUME NEW g, NEW op, NEW rest, Behind(g, op, rest), NEW s, GoodPlan(op, s), op # "cleanupGatewayNAT",
         NEW nat, NEW F, JumpFirst(<<>>, g, nat, F),
         op = "applyExitNodeNAT" /\ nat => Has(s, RuleCmd("forwardFirst", "exit")) \/ Has(s, NATOff)
  PROVE  JumpFirst(s, rest, nat, F)
<1>1. ASSUME NEW i \in DOMAIN rest, rest[i] \in ForwardOps
      PROVE  \E j \in DOMAIN rest : j > i /\ rest[j] = "applyExitNodeNAT"
  <2>1. i + 1 \in DOMAIN g /\ g[i + 1] = rest[i] /\ DOMAIN rest = 1..Len(rest) /\ DOMAIN g = 1..Len(g)
    BY IsSeqFacts DEF Behind
  <2>2. PICK j \in DOMAIN g : j > i + 1 /\ g[j] = "applyExitNodeNAT"
    BY <1>1, <2>1 DEF JumpFirst
  <2>3. i \in Nat /\ i >= 1 /\ j \in Nat /\ j # 1 /\ j - 1 > i
    BY <2>1, <2>2
  <2>4. j - 1 \in DOMAIN rest /\ rest[j - 1] = g[j]
    BY <2>2, <2>3 DEF Behind
  <2>. QED  BY <2>2, <2>3, <2>4
<1>2. op \in ForwardOps => ExitNATToCome(rest)
  <2>. SUFFICES ASSUME op \in ForwardOps PROVE ExitNATToCome(rest)
    OBVIOUS
  <2>1. 1 \in DOMAIN g /\ g[1] = op
    BY DEF Behind
  <2>2. PICK j \in DOMAIN g : j > 1 /\ g[j] = "applyExitNodeNAT"
    BY <2>1 DEF JumpFirst
  <2>3. j # 1
    BY <2>2, IsSeqFacts DEF Behind
  <2>4. j - 1 \in DOMAIN rest /\ rest[j - 1] = g[j]
    BY <2>3 DEF Behind
  <2>. QED  BY <2>2, <2>4 DEF ExitNATToCome
<1>3. \A i \in DOMAIN s : s[i].on = "rule" /\ s[i].do \in {"forwardEnsure", "forwardDel"} =>
        ExitNATToCome(rest) \/ s[Len(s)] = NATOff
  BY <1>2 DEF GoodPlan
<1>4. ExitNATToCome(g) => op = "applyExitNodeNAT" \/ ExitNATToCome(rest)
  BY DEF Behind, ExitNATToCome
<1>5. Has(s, NATOn) => Has(s, RuleCmd("forwardFirst", "exit"))
  BY DEF GoodPlan
<1>6. nat => \/ F # <<>> /\ Head(F) = "exit"
             \/ ExitNATToCome(rest)
             \/ Has(s, RuleCmd("forwardFirst", "exit"))
             \/ Has(s, NATOff)
  BY <1>4, NothingToCome DEF JumpFirst
<1>. QED  BY <1>1, <1>3, <1>5, <1>6 DEF JumpFirst

(* A command on rules (netlink, iptables) does what Applied says. *)
LEMMA DoApplied ==
  ASSUME Once(forward), NEW c, IF c.on = "rule" THEN RuleDo(c) ELSE UNCHANGED ruleVars
  PROVE  /\ Applied(c, policy, masq, forward, aclChain, policy', masq', forward', aclChain')
         /\ Once(forward')
<1>1. CASE c.on # "rule"
  <2>1. policy' = policy /\ masq' = masq /\ forward' = forward /\ aclChain' = aclChain
    BY <1>1 DEF ruleVars
  <2>2. /\ \A x : c # RuleCmd("forwardDel", x)
        /\ c # RuleCmd("masqDel", 0) /\ c # RuleCmd("aclFill", 0)
    BY <1>1, Commands
  <2>. QED  BY <1>1, <2>1, <2>2 DEF Applied, Deletes
<1>2. CASE c.on = "rule"
  <2>. USE <1>2
  <2>1. RuleDo(c)
    OBVIOUS
  <2>2. \A r \in policy' : \/ r \in policy /\ ~Deletes(c, r)
                           \/ c.do = "policyAdd" /\ r = c.arg
    BY <2>1 DEF RuleDo, Deletes
  <2>3. masq' # {} => \/ masq # {} /\ c # RuleCmd("masqDel", 0)
                      \/ c.do = "masqAdd"
    <3>1. RuleCmd("masqDel", 0).do = "masqDel"
      BY Commands
    <3>. QED  BY <2>1, <3>1 DEF RuleDo
  <2>4. Once(forward') /\ \A x \in Range(forward') :
           \/ x \in Range(forward) /\ c # RuleCmd("forwardDel", x)
           \/ c.do \in {"forwardEnsure", "forwardFirst"} /\ x = c.arg
    <3>1. \A x : RuleCmd("forwardDel", x).do = "forwardDel" /\ RuleCmd("forwardDel", x).arg = x
      BY Commands
    <3>2. forward' = CASE c.do = "forwardEnsure" -> Ensured(c.arg)
                       [] c.do = "forwardFirst" -> <<c.arg>> \o Absent(c.arg)
                       [] c.do = "forwardDel" -> Absent(c.arg)
                       [] OTHER -> forward
      BY <2>1 DEF RuleDo
    <3>. QED  BY <3>1, <3>2, JumpFacts
  <2>5. \/ forward' = forward /\ c.do # "forwardFirst"
        \/ c.do \in {"forwardEnsure", "forwardDel"}
        \/ c.do = "forwardFirst" /\ forward' # <<>> /\ Head(forward') = c.arg
    <3>2. forward' = CASE c.do = "forwardEnsure" -> Ensured(c.arg)
                       [] c.do = "forwardFirst" -> <<c.arg>> \o Absent(c.arg)
                       [] c.do = "forwardDel" -> Absent(c.arg)
                       [] OTHER -> forward
      BY <2>1 DEF RuleDo
    <3>. QED  BY <3>2, JumpFacts
  <2>6. \/ aclChain' = aclChain /\ c # RuleCmd("aclFill", 0)
        \/ c.do \in {"aclFlush", "aclDel"}
        \/ aclChain' = "filled"
    <3>1. RuleCmd("aclFill", 0).do = "aclFill"
      BY Commands
    <3>. QED  BY <2>1, <3>1 DEF RuleDo
  <2>. QED  BY <2>2, <2>3, <2>4, <2>5, <2>6 DEF Applied
<1>. QED  BY <1>1, <1>2

(* What a goroutine knows of what it has set up. *)
FlagNames == {"exitRoutesOn", "exitNATOn", "gatewayForwardOn", "dnsApplied", "lastDNS"}

Flagged(f, Q) == DOMAIN f = Q /\ \A q \in Q : DOMAIN f[q] = FlagNames

(* Command c of goroutine p makes the flags f into f2. *)
Sets(c, p, f, f2) ==
  f2 = CASE c.on = "flag" /\ c.do = "dns" ->
             [f EXCEPT ![p].dnsApplied = c.arg.enabled, ![p].lastDNS = c.arg]
         [] c.on = "flag" /\ c.do # "dns" -> [f EXCEPT ![p][c.do] = c.arg]
         [] OTHER -> f

(* A command that sets a flag does what Noted says. *)
LEMMA DoNoted ==
  ASSUME NEW Q, NEW p \in Q, NEW f, Flagged(f, Q), NEW c, NEW f2, Sets(c, p, f, f2),
         c.on = "flag" => c \in ExitFlags \/ c.do \in {"gatewayForwardOn", "dns"}
  PROVE  /\ Noted(c, f[p].exitRoutesOn, f[p].exitNATOn, f2[p].exitRoutesOn, f2[p].exitNATOn)
         /\ Flagged(f2, Q)
<1>. DOMAIN f = Q /\ \A q \in Q : DOMAIN f[q] = FlagNames
  BY DEF Flagged
<1>. f2 = CASE c.on = "flag" /\ c.do = "dns" ->
                [f EXCEPT ![p].dnsApplied = c.arg.enabled, ![p].lastDNS = c.arg]
           [] c.on = "flag" /\ c.do # "dns" -> [f EXCEPT ![p][c.do] = c.arg]
           [] OTHER -> f
  BY DEF Sets
<1>1. CASE c.on # "flag"
  <2>1. f2 = f
    BY <1>1
  <2>2. c # RoutesOn /\ c # RoutesOff /\ c # NATOn /\ c # NATOff
    BY <1>1, Flags
  <2>. QED  BY <2>1, <2>2 DEF Noted
<1>2. CASE c.on = "flag" /\ c.do = "dns"
  <2>1. f2 = [f EXCEPT ![p].dnsApplied = c.arg.enabled, ![p].lastDNS = c.arg]
    BY <1>2
  <2>2. f2[p].exitRoutesOn = f[p].exitRoutesOn /\ f2[p].exitNATOn = f[p].exitNATOn
    BY <2>1 DEF FlagNames
  <2>3. Flagged(f2, Q)
    BY <2>1 DEF Flagged
  <2>4. c # RoutesOn /\ c # RoutesOff /\ c # NATOn /\ c # NATOff
    BY <1>2, Flags
  <2>. QED  BY <2>2, <2>3, <2>4 DEF Noted
<1>3. CASE c.on = "flag" /\ c.do # "dns"
  <2>1. f2 = [f EXCEPT ![p][c.do] = c.arg]
    BY <1>3
  <2>2. Flagged(f2, Q)
    BY <2>1 DEF Flagged
  <2>3. f2[p] = [f[p] EXCEPT ![c.do] = c.arg]
    BY <2>1
  <2>4. c.do # "exitRoutesOn" => f2[p].exitRoutesOn = f[p].exitRoutesOn
    BY <2>3 DEF FlagNames
  <2>5. c.do # "exitNATOn" => f2[p].exitNATOn = f[p].exitNATOn
    BY <2>3 DEF FlagNames
  <2>6. c.do = "exitRoutesOn" => f2[p].exitRoutesOn = c.arg
    BY <2>3 DEF FlagNames
  <2>7. c.do = "exitNATOn" => f2[p].exitNATOn = c.arg
    BY <2>3 DEF FlagNames
  <2>8. c = RoutesOn => f2[p].exitRoutesOn /\ f2[p].exitNATOn = f[p].exitNATOn
                        /\ c # RoutesOff /\ c # NATOn /\ c # NATOff
    <3>1. "exitRoutesOn" # "exitNATOn"
      OBVIOUS
    <3>. QED  BY <2>5, <2>6, <3>1, Flags, Zenon
  <2>9. c = RoutesOff => f2[p].exitNATOn = f[p].exitNATOn
                        /\ c # RoutesOn /\ c # NATOn /\ c # NATOff
    <3>1. "exitRoutesOn" # "exitNATOn"
      OBVIOUS
    <3>. QED  BY <2>5, <2>6, <3>1, Flags, Zenon
  <2>10. c = NATOn => f2[p].exitNATOn /\ f2[p].exitRoutesOn = f[p].exitRoutesOn
                        /\ c # RoutesOff /\ c # NATOff /\ c # RoutesOn
    <3>1. "exitRoutesOn" # "exitNATOn"
      OBVIOUS
    <3>. QED  BY <2>4, <2>7, <3>1, Flags, Zenon
  <2>11. c = NATOff => ~f2[p].exitNATOn /\ f2[p].exitRoutesOn = f[p].exitRoutesOn
                        /\ c # RoutesOff /\ c # NATOn /\ c # RoutesOn
    <3>1. "exitRoutesOn" # "exitNATOn"
      OBVIOUS
    <3>. QED  BY <2>4, <2>7, <3>1, Flags, Zenon
  <2>12. c.do = "gatewayForwardOn" => c \notin ExitFlags /\ f2[p].exitRoutesOn = f[p].exitRoutesOn
                        /\ f2[p].exitNATOn = f[p].exitNATOn
    BY <2>4, <2>5, Flags DEF ExitFlags
  <2>13. Noted(c, f[p].exitRoutesOn, f[p].exitNATOn,
               f2[p].exitRoutesOn, f2[p].exitNATOn)
    BY <1>3, <2>8, <2>9, <2>10, <2>11, <2>12, Zenon DEF Noted, ExitFlags
  <2>. QED  BY <2>2, <2>13
<1>. QED  BY <1>1, <1>2, <1>3

-----------------------------------------------------------------------------
(* Errors *)

(* u has only commands of s. *)
Within(u, s) == \A i \in DOMAIN u : \E j \in DOMAIN s : u[i] = s[j]

(* An error drops all of s without a trace. *)
AllLight(s) == \A i \in DOMAIN s : Light(s[i])

(* Such commands change no rule and set no exit flag. *)
LEMMA LightCommands ==
  ASSUME NEW s, AllLight(s)
  PROVE  /\ \A x \in ExitFlags : ~Has(s, x)
         /\ \A d \in {"masqDel", "forwardDel", "forwardFirst", "aclFill", "aclDel"} :
              \A x : ~Has(s, RuleCmd(d, x))
         /\ \A i \in DOMAIN s : \A r : ~Deletes(s[i], r)
         /\ \A i \in DOMAIN s : ~(s[i].on = "rule" /\ s[i].do \in {"forwardEnsure", "forwardDel"})
<1>1. \A i \in DOMAIN s : s[i].on \in {"conf", "fw", "defer"} \/ s[i].do \in {"dns", "refuse", "linkAdd"}
  BY DEF AllLight, Light
<1>2. \A x \in ExitFlags : x.on = "flag" /\ x.do \in {"exitRoutesOn", "exitNATOn"}
  BY Flags DEF ExitFlags
<1>3. \A d, x : RuleCmd(d, x).on = "rule" /\ RuleCmd(d, x).do = d
  BY DEF RuleCmd
<1>4. \A x \in ExitFlags : ~Has(s, x)
  BY <1>1, <1>2 DEF Has
<1>5. \A d \in {"masqDel", "forwardDel", "forwardFirst", "aclFill", "aclDel"} :
        \A x : ~Has(s, RuleCmd(d, x))
  BY <1>1, <1>3 DEF Has
<1>6. \A i \in DOMAIN s : \A r : ~Deletes(s[i], r)
  BY <1>1 DEF Deletes
<1>. QED  BY <1>1, <1>4, <1>5, <1>6

(* Such commands may be exchanged for others. *)
LEMMA LightSwap ==
  ASSUME NEW s, NEW u, AllLight(s), AllLight(u), NEW routes, NEW nat, NEW P, NEW M, NEW F, NEW A, NEW g
  PROVE  /\ Clearing(s, P, M, F) => Clearing(u, P, M, F)
         /\ ExitTracked(s, routes, nat, P, M, F) => ExitTracked(u, routes, nat, P, M, F)
         /\ JumpFirst(s, g, nat, F) => JumpFirst(u, g, nat, F)
         /\ DenyFilled(s, F, A) => DenyFilled(u, F, A)
<1>1. /\ ~Has(s, RoutesOn) /\ ~Has(s, RoutesOff) /\ ~Has(s, NATOn) /\ ~Has(s, NATOff)
      /\ ~Has(s, RuleCmd("masqDel", 0)) /\ ~Has(s, RuleCmd("forwardDel", "exit"))
      /\ ~Has(s, RuleCmd("forwardDel", "acl")) /\ ~Has(s, RuleCmd("aclFill", 0))
      /\ ~Has(s, RuleCmd("aclDel", 0)) /\ ~Has(s, RuleCmd("forwardFirst", "exit"))
      /\ \A i \in DOMAIN s : \A r : ~Deletes(s[i], r)
  BY LightCommands DEF ExitFlags
<1>2. /\ ~Has(u, RoutesOn) /\ ~Has(u, RoutesOff) /\ ~Has(u, NATOn) /\ ~Has(u, NATOff)
      /\ ~Has(u, RuleCmd("masqDel", 0)) /\ ~Has(u, RuleCmd("forwardDel", "exit"))
      /\ ~Has(u, RuleCmd("forwardDel", "acl")) /\ ~Has(u, RuleCmd("aclFill", 0))
      /\ ~Has(u, RuleCmd("aclDel", 0)) /\ ~Has(u, RuleCmd("forwardFirst", "exit"))
      /\ \A i \in DOMAIN u : ~(u[i].on = "rule" /\ u[i].do \in {"forwardEnsure", "forwardDel"})
  BY LightCommands DEF ExitFlags
<1>3. Clearing(s, P, M, F) => Clearing(u, P, M, F)
  BY <1>1 DEF Clearing
<1>4. ExitTracked(s, routes, nat, P, M, F) => ExitTracked(u, routes, nat, P, M, F)
  BY <1>1, <1>2 DEF ExitTracked
<1>5. JumpFirst(s, g, nat, F) => JumpFirst(u, g, nat, F)
  BY <1>1, <1>2 DEF JumpFirst
<1>6. DenyFilled(s, F, A) => DenyFilled(u, F, A)
  BY <1>1, <1>2 DEF DenyFilled
<1>. QED  BY <1>3, <1>4, <1>5, <1>6

=============================================================================
