----------------------------- MODULE ConfigSync -----------------------------
(***************************************************************************)
(* How a change made in the control plane reaches a running agent: admin    *)
(* handlers commit it (cmd/server/admin.go, acl.go, mobile.go, main.go);    *)
(* the agent reports on every tick and when it is told to over the signal   *)
(* session (SignalHub), and the answer carries the whole configuration,     *)
(* read piece by piece (cmd/server/report.go, cmd/agent/telemetry.go).  A   *)
(* piece stands for the number of changes it has seen.                      *)
(***************************************************************************)
EXTENDS Integers

CONSTANTS
  Admins,     \* admin requests that may be in progress at the same time
  MaxCommits, \* bound on changes
  MaxBoots    \* bound on restarts of the control plane

Pieces == {"peers", "network", "dns", "acl"}

(* What a report may fail to bring: nothing; the DNS settings, the peers or *)
(* the rules cannot be applied; a peer cannot be read, and what comes after *)
(* is left too; or everything, when the report or its answer is lost, the   *)
(* handler fails or the interface does not take the new address.            *)
Failures == {{}, {"dns"}, {"peers"}, {"acl"}, {"peers", "acl"}, Pieces}

(* The agent's goroutines that call syncOnce: the ticker and readSignal. *)
Callers == {"tick", "signal"}

VARIABLES
  committed,  \* the database, per piece
  netCopy,    \* server.networkCIDR, the server's own copy of the network
  admin,      \* per migration request: the network it is to publish, or 0
  report,     \* per caller: where its report is, the answer so far, what will fail
  applied,    \* the configuration the agent has applied
  crossed,    \* history: migrations published in another order than committed
  boots       \* history: restarts so far

syncVars == <<committed, netCopy, admin, report, applied, crossed, boots>>

Nothing == [c \in Pieces |-> 0]
NoReport == [at |-> "none", answer |-> Nothing, failing |-> {}]

SyncInit ==
  /\ committed = Nothing
  /\ netCopy = 0
  /\ admin = [a \in Admins |-> 0]
  /\ report = [g \in Callers |-> NoReport]
  /\ applied = Nothing
  /\ crossed = FALSE
  /\ boots = 0

(* Every change adds one to a piece other than the network. *)
Commits == committed["peers"] + committed["dns"] + committed["acl"]

(* handleRevoke, handleRemovePeer, handleUpdatePeerAddress,                 *)
(* handleSetExitNode, handleCreateMobilePeer and handleEnroll change the    *)
(* peers, handleUpdateDNS the DNS settings, the ACL handlers the rules.     *)
handleChange(c) ==
  /\ Commits < MaxCommits
  /\ committed' = [committed EXCEPT ![c] = @ + 1]
  /\ UNCHANGED <<netCopy, admin, report, applied, crossed, boots>>

(* A migration renumbers the peers too, and then sets the server's copy. *)
handleApplyNetworkMigration(a) ==
  /\ admin[a] = 0 /\ Commits < MaxCommits
  /\ committed' = [committed EXCEPT !["network"] = @ + 1, !["peers"] = @ + 1]
  /\ admin' = [admin EXCEPT ![a] = committed["network"] + 1]
  /\ UNCHANGED <<netCopy, report, applied, crossed, boots>>

(* Mutant: the copy keeps the network the server started with. *)
setNetworkConfigNot(a) ==
  /\ admin[a] # 0
  /\ admin' = [admin EXCEPT ![a] = 0]
  /\ UNCHANGED <<committed, netCopy, report, applied, crossed, boots>>

setNetworkConfig(a) ==
  /\ admin[a] # 0
  /\ netCopy' = admin[a]
  /\ crossed' = (crossed \/ admin[a] < netCopy)
  /\ admin' = [admin EXCEPT ![a] = 0]
  /\ UNCHANGED <<committed, report, applied, boots>>

-----------------------------------------------------------------------------
(* Mutant: the two callers do not wait for each other. *)
syncOnceUnlocked(g, failing) ==
  /\ report[g].at = "none"
  /\ report' = [report EXCEPT ![g] = [NoReport EXCEPT !.at = "peers", !.failing = failing]]
  /\ UNCHANGED <<committed, netCopy, admin, applied, crossed, boots>>

(* syncMu admits one report at a time. *)
syncOnce(g, failing) ==
  /\ \A h \in Callers : report[h].at = "none"
  /\ report' = [report EXCEPT ![g] = [NoReport EXCEPT !.at = "peers", !.failing = failing]]
  /\ UNCHANGED <<committed, netCopy, admin, applied, crossed, boots>>

Following == [peers |-> "network", network |-> "dns", dns |-> "acl", acl |-> "answered"]

currentPiece(c) == IF c = "network" THEN netCopy ELSE committed[c]

(* The handler reads one piece after the other, each in a transaction of    *)
(* its own and the network from the server's copy: PeersForID,              *)
(* currentNetworkConfig, CurrentDNSConfig, buildACLPolicy.                  *)
handleReport(g) ==
  LET c == report[g].at IN
  /\ c \in Pieces
  /\ report' = [report EXCEPT ![g] =
                  [at |-> Following[c], failing |-> report[g].failing,
                   answer |-> [report[g].answer EXCEPT ![c] = currentPiece(c)]]]
  /\ UNCHANGED <<committed, netCopy, admin, applied, crossed, boots>>

applyAnswer(g) ==
  /\ report[g].at = "answered" /\ report[g].failing # Pieces
  /\ applied' = [c \in Pieces |-> IF c \in report[g].failing THEN applied[c] ELSE report[g].answer[c]]
  /\ report' = [report EXCEPT ![g] = NoReport]
  /\ UNCHANGED <<committed, netCopy, admin, crossed, boots>>

reportFails(g) ==
  /\ report[g].at # "none" /\ report[g].failing = Pieces
  /\ report' = [report EXCEPT ![g] = NoReport]
  /\ UNCHANGED <<committed, netCopy, admin, applied, crossed, boots>>

(* Requests in progress are gone; the copy is loaded from the database. *)
controlPlaneRestarts ==
  /\ boots < MaxBoots /\ boots' = boots + 1
  /\ netCopy' = committed["network"]
  /\ admin' = [a \in Admins |-> 0]
  /\ report' = [g \in Callers |-> IF report[g].at = "answered" THEN report[g] ELSE NoReport]
  /\ UNCHANGED <<committed, applied, crossed>>

Publish == \E a \in Admins : setNetworkConfig(a)
Proceed == \E g \in Callers : handleReport(g) \/ applyAnswer(g) \/ reportFails(g)

SyncNext ==
  \/ \E c \in Pieces \ {"network"} : handleChange(c)
  \/ \E a \in Admins : handleApplyNetworkMigration(a)
  \/ \E g \in Callers, f \in Failures : syncOnce(g, f)
  \/ Publish \/ Proceed \/ controlPlaneRestarts

SyncSpec == SyncInit /\ [][SyncNext]_syncVars

-----------------------------------------------------------------------------
(* Properties *)

(* The agent never goes back to an older configuration, however ticks,      *)
(* sync-nows, failures and restarts interleave: syncMu keeps a second       *)
(* answer from being read before the first is applied.  The network goes    *)
(* back only when migrations crossed between store and copy.                *)
NeverBackwards ==
  [][\A c \in Pieces : applied'[c] >= applied[c] \/ (c = "network" /\ crossed)]_syncVars

(* Once the admins are done, the agent's configuration becomes the one in   *)
(* the database and stays it, whatever signals, reports and answers were    *)
(* lost on the way and in however many pieces an answer was read            *)
(* (handleReport); the same exception.                                      *)
ChangesArrive ==
  <>[](\A c \in Pieces : applied[c] = committed[c] \/ (c = "network" /\ crossed))

=============================================================================
