----------------------------- MODULE MCRegistry -----------------------------
(***************************************************************************)
(* Finite instances of the registry.  Policy, setup keys and addressing    *)
(* are explored separately: their actions touch disjoint columns of a row. *)
(***************************************************************************)
EXTENDS SyncPayload, TLC

OneFamily == {4}
BothFamilies == {4, 6}

(* Two disjoint networks of three and two hosts, and one that has room for *)
(* a single host.                                                          *)
Wide == [lo |-> 10, hi |-> 13]
Narrow == [lo |-> 20, hi |-> 22]
Tiny == [lo |-> 30, hi |-> 31]

Wide4 == [f \in {4} |-> Wide]
Wide46 == [f \in {4, 6} |-> Wide]
OnlyWide4 == {Wide4}
WideNarrow4 == {Wide4, [f \in {4} |-> Narrow]}
Three46 == {Wide46, [f \in {4, 6} |-> Narrow], [f \in {4, 6} |-> Tiny]}

Unlimited == {0}
SomeLimits == {0, 1}
NeverExpires == {"never"}
MayExpire == {"never", "live"}

(* Two of the public keys, interchangeable everywhere. *)
CONSTANT Pair

PeerSymmetry == Permutations(PubKeys)
PairSymmetry == Permutations(Pair)

(* What a behaviour is about, fixed at its start. *)
VARIABLE scenario

About(x) == scenario = x /\ UNCHANGED scenario

(* Membership, exit nodes and ACL rules, with one key for all agents that   *)
(* stays valid, and the network as it is.                                   *)
AdmittedNext ==
  \/ keys = [i \in {} |-> None] /\ CreateNamedSetupKey(0, "never")
  \/ PeerNext
  \/ PolicyNext

(* Setup keys and the peers of Pair that spend them. *)
MemberNext ==
  \/ KeyNext
  \/ PeerNext /\ \A p \in DOMAIN peers' : peers'[p].pub \in Pair

(* Membership and addresses: one key for two enrollments, the agents of     *)
(* Pair, edits of the row with the first id, no exit nodes, no rules.       *)
AddressNext ==
  \/ keys = [i \in {} |-> None] /\ CreateNamedSetupKey(0, "never")
  \/ \E k \in Pair, s \in DOMAIN keys : Enroll(k, s) /\ keys'[s].used < 3
  \/ \E p \in DOMAIN peers : RevokePeer(p) \/ RemovePeer(p)
  \/ NetworkNext /\ \A e \in Editors : editing'[e].id < 2

PolicyInit == Init /\ scenario = "policy"
PolicyOnly == About("policy") /\ AdmittedNext
PolicySpec == PolicyInit /\ [][PolicyOnly]_<<vars, scenario>>

AddressInit == Init /\ scenario = "addresses"
AddressOnly == About("addresses") /\ AddressNext
AddressSpec == AddressInit /\ [][AddressOnly]_<<vars, scenario>>

RegistryInit == Init /\ scenario \in {"policy", "members", "addresses"}
EachNext ==
  \/ About("policy") /\ AdmittedNext
  \/ About("members") /\ MemberNext
  \/ About("addresses") /\ AddressNext
RegistrySpec == RegistryInit /\ [][EachNext]_<<vars, scenario>>

=============================================================================
