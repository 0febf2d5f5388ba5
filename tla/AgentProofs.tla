---------------------------- MODULE AgentProofs -----------------------------
(*****************************************************************************)
(* The agent: its path to a peer, the configuration it applies, the kind of  *)
(* NAT it reports and its own overlay address.                               *)
(*****************************************************************************)
EXTENDS AgentPath, ConfigSync, NatCheck, SelfAddress, FiniteSetTheorems, TLAPS

-----------------------------------------------------------------------------
(*****************************************************************************)
(* An agent's path to a peer, for every transport, candidate list, timing    *)
(* constant and order of events.                                             *)
(*****************************************************************************)

Maps == {"silent", "relayed", "relayedAt", "session", "alive", "probe", "epoch", "failures",
         "digest", "since", "flaps", "hold", "quicUnavailable", "relayBroken"}
ProbeFields == {"age", "shook", "confirmed", "proved", "cands", "index", "interval", "left"}

Probing(p) ==
  /\ DOMAIN p = ProbeFields
  /\ p.cands \in Seq(Range(p.cands))
  /\ p.index \in 1..Len(p.cands)

(* RelayKept and HoldDownHolds of a value s of the reporter's maps: a       *)
(* hold-down is set when the peer is given a relay, and is over before a    *)
(* probe begins.                                                            *)
Kept(s) ==
  /\ DOMAIN s = Maps
  /\ s.relayed \in BOOLEAN
  /\ s.relayed <=> s.session # "none"
  /\ s.probe # NoProbe => s.relayed /\ Probing(s.probe)
  /\ s.hold > 0 => s.probe = NoProbe

LEMMA StintKeeps ==
  ASSUME NEW s, Kept(s), s.probe = NoProbe
  PROVE  Kept(noteDirectStintEnded(s))
BY DEF Kept, noteDirectStintEnded, Maps

LEMMA NewProbeProbes ==
  ASSUME NEW m \in Payload, m.cands # <<>>, NEW fast
  PROVE  Probing(NewProbe(m, fast))
<1>1. m.cands \in Seq(Range(m.cands))
  BY PathConstants DEF Payload
<1>2. 1 \in 1..Len(m.cands)
  BY <1>1
<1>. QED  BY <1>1, <1>2 DEF Probing, NewProbe, ProbeFields

(* A probe begins, or gives way to another one. *)
LEMMA ProbeKeeps ==
  ASSUME NEW s, Kept(s), s.relayed, ~(s.hold > 0), NEW p, Probing(p)
  PROVE  Kept([s EXCEPT !.probe = p])
BY DEF Kept, Maps

LEMMA RetryKeeps ==
  ASSUME NEW s, Kept(s), NEW ep, NEW m \in Payload, NEW ok \in BOOLEAN
  PROVE  Kept(maybeRetryDirect(s, ep, m, ok).s)
<1>. DEFINE digest == Range(m.cands)
            fast == m.epoch > s.epoch
            s1 == [s EXCEPT !.digest = digest,
                            !.failures = IF digest # s.digest THEN 0 ELSE @,
                            !.epoch = IF fast THEN m.epoch ELSE @]
            s2 == [s1 EXCEPT !.probe = NewProbe(m, fast)]
<1>1. Kept(s1) /\ s1.relayed = s.relayed /\ s1.hold = s.hold
  BY DEF Kept, Maps
<1>2. ASSUME m.cands # <<>>, s.relayed, MayProbe(s1, fast) PROVE Kept(s2)
  <2>1. Probing(NewProbe(m, fast))
    BY <1>2, NewProbeProbes
  <2>2. ~(s1.hold > 0)
    BY <1>2 DEF MayProbe
  <2>3. s1.relayed
    BY <1>1, <1>2
  <2>. HIDE DEF s1, fast
  <2>. QED  BY <1>1, <2>1, <2>2, <2>3, ProbeKeeps
<1>3. maybeRetryDirect(s, ep, m, ok).s \in {s, s1, s2}
  BY DEF maybeRetryDirect
<1>4. maybeRetryDirect(s, ep, m, ok).s = s2 /\ s2 # s1 /\ s2 # s
      => m.cands # <<>> /\ s.relayed /\ MayProbe(s1, fast)
  BY DEF maybeRetryDirect
<1>. HIDE DEF s1, s2, fast
<1>. QED  BY <1>1, <1>2, <1>3, <1>4

LEMMA PromoteKeeps ==
  ASSUME NEW s, Kept(s)
  PROVE  Kept(promoteDirect(s))
BY DEF Kept, promoteDirect, Maps

LEMMA RestoreKeeps ==
  ASSUME NEW s, Kept(s)
  PROVE  Kept(restoreRelayAfterProbe(s))
BY DEF Kept, restoreRelayAfterProbe, Maps

LEMMA RetireKeeps ==
  ASSUME NEW s, Kept(s)
  PROVE  Kept(retireDeadProxy(s))
BY DEF Kept, retireDeadProxy, Maps

LEMMA SwitchKeeps ==
  ASSUME NEW s, Kept(s), ~s.relayed, NEW quic \in BOOLEAN, NEW answer \in Answers
  PROVE  Kept(switchToRelay(s, quic, answer))
<1>. DEFINE session == relaySession(s, quic, answer)
            tried == [s EXCEPT !.quicUnavailable = @ \/ (Transport = "auto" /\ ~quic)]
            on == [tried EXCEPT !.session = session, !.alive = TRUE, !.relayed = TRUE, !.relayedAt = 0]
<1>1. session \in {"quic", "ws", "udp", "failed", "absent"}
  BY PathConstants DEF relaySession, Answers
<1>2. Kept(tried) /\ tried.probe = NoProbe /\ ~tried.relayed
  BY DEF Kept, Maps
<1>. HIDE DEF session, tried
<1>3. Kept([tried EXCEPT !.relayBroken = TRUE])
  BY <1>2 DEF Kept, Maps
<1>4. session # "none" => Kept(on) /\ on.probe = NoProbe
  BY <1>2 DEF Kept, Maps
<1>5. switchToRelay(s, quic, answer) =
        CASE session = "failed" -> tried
          [] session = "absent" -> [tried EXCEPT !.relayBroken = TRUE]
          [] OTHER -> noteDirectStintEnded(on)
  BY DEF switchToRelay, session, tried
<1>. HIDE DEF on
<1>. QED  BY <1>1, <1>2, <1>3, <1>4, <1>5, StintKeeps

LEMMA NextIndexInside ==
  ASSUME NEW p, Probing(p)
  PROVE  NextIndex(p) \in 1..Len(p.cands)
<1>1. Len(p.cands) \in Nat /\ p.index \in 1..Len(p.cands)
  BY DEF Probing
<1>. QED  BY <1>1 DEF NextIndex

LEMMA CheckKeeps ==
  ASSUME NEW s, Kept(s), NEW ep, NEW ok \in BOOLEAN
  PROVE  Kept(checkDirectProbe(s, ep, ok).s)
<1>. DEFINE p == s.probe
            confirmed == [s EXCEPT !.probe.confirmed = 0]
            rotated == [s EXCEPT !.probe.index = NextIndex(p), !.probe.age = 0, !.probe.shook = FALSE]
<1>1. CASE p = NoProbe
  BY <1>1 DEF checkDirectProbe
<1>2. CASE p # NoProbe
  <2>1. s.relayed /\ Probing(p) /\ ~(s.hold > 0) /\ DOMAIN s = Maps
    BY <1>2 DEF Kept
  <2>2. Kept(confirmed)
    <3>1. Probing([p EXCEPT !.confirmed = 0])
      BY <2>1 DEF Probing, ProbeFields
    <3>2. confirmed = [s EXCEPT !.probe = [p EXCEPT !.confirmed = 0]]
      BY <2>1 DEF Maps
    <3>. QED  BY <2>1, <3>1, <3>2, ProbeKeeps
  <2>3. Kept(rotated)
    <3>. DEFINE i == NextIndex(p)
                q == [p EXCEPT !.index = i, !.age = 0, !.shook = FALSE]
    <3>1. i \in 1..Len(p.cands)
      BY <2>1, NextIndexInside
    <3>. HIDE DEF i
    <3>2. Probing(q)
      BY <2>1, <3>1 DEF Probing, ProbeFields
    <3>3. rotated = [s EXCEPT !.probe = q]
      BY <2>1 DEF Maps, Probing, ProbeFields, i
    <3>. HIDE DEF q, rotated
    <3>. QED  BY <2>1, <3>2, <3>3, ProbeKeeps
  <2>4. checkDirectProbe(s, ep, ok).s
          \in {s, confirmed, rotated, promoteDirect(s), restoreRelayAfterProbe(s)}
    BY DEF checkDirectProbe
  <2>. HIDE DEF confirmed, rotated
  <2>. QED  BY <2>2, <2>3, <2>4, PromoteKeeps, RestoreKeeps
<1>. QED  BY <1>1, <1>2

-----------------------------------------------------------------------------

PathInv == Kept(t)

LEMMA KeptInitially == Init => PathInv
BY DEF Init, PathInv, Kept, Maps

LEMMA CollectKeeps ==
  ASSUME Kept(t), collectLinkCounters
  PROVE  Kept(t')
<1>. DEFINE new == IF t.probe = NoProbe \/ t.probe.confirmed = Never THEN t.probe ELSE Proved(t.probe)
<1>1. CASE ~dev.grew
  BY <1>1 DEF collectLinkCounters
<1>2. CASE dev.grew
  <2>1. t.probe # NoProbe => Probing(new)
    BY DEF Kept, Probing, ProbeFields, Proved
  <2>2. t.probe = NoProbe => new = NoProbe
    OBVIOUS
  <2>3. \E x : t' = [t EXCEPT !.silent = x, !.probe = new]
    BY <1>2 DEF collectLinkCounters
  <2>. HIDE DEF new
  <2>. QED  BY <2>1, <2>2, <2>3 DEF Kept, Maps
<1>. QED  BY <1>1, <1>2

LEMMA HandshakesKeep ==
  ASSUME Kept(t), NEW quic \in BOOLEAN, NEW answer \in Answers, NEW ok \in BOOLEAN,
         checkHandshakes(quic, answer, ok)
  PROVE  Kept(t')
<1>. DEFINE s0 == retireDeadProxy(t)
            r == IF dev.here THEN checkDirectProbe(s0, dev.ep, ok) ELSE [s |-> s0, ep |-> dev.ep]
            s1 == [r.s EXCEPT !.silent = IF dev.here /\ @ = Never THEN 0 ELSE @]
            s2 == IF dev.here /\ GoneSilent(s1) THEN switchToRelay(s1, quic, answer) ELSE s1
<1>1. t' = s2
  BY DEF checkHandshakes
<1>2. Kept(s0)
  BY RetireKeeps
<1>. HIDE DEF s0
<1>3. Kept(r.s)
  BY <1>2, CheckKeeps
<1>. HIDE DEF r
<1>4. Kept(s1)
  BY <1>3 DEF Kept, Maps
<1>. HIDE DEF s1
<1>5. GoneSilent(s1) => ~s1.relayed
  BY DEF GoneSilent
<1>. QED  BY <1>1, <1>4, <1>5, SwitchKeeps

LEMMA ReceiveKeeps ==
  ASSUME Kept(t), NEW from, NEW handshake \in BOOLEAN, Receive(from, handshake)
  PROVE  Kept(t')
<1>. DEFINE new == IF t.probe = NoProbe THEN NoProbe ELSE Shaken(t.probe, handshake)
<1>1. t.probe # NoProbe => Probing(new)
  BY DEF Kept, Probing, ProbeFields, Shaken
<1>2. t' = [t EXCEPT !.probe = new]
  BY DEF Receive
<1>3. t.probe = NoProbe => new = NoProbe
  OBVIOUS
<1>. HIDE DEF new
<1>. QED  BY <1>1, <1>2, <1>3 DEF Kept, Maps

LEMMA TickKeeps ==
  ASSUME Kept(t), Tick
  PROVE  Kept(t')
<1>. DEFINE new == IF t.probe = NoProbe THEN NoProbe ELSE OlderProbe(t.probe)
            left == IF t.hold > 0 THEN t.hold - 1 ELSE 0
<1>1. t.probe # NoProbe => Probing(new)
  BY DEF Kept, Probing, ProbeFields, OlderProbe
<1>2. \E x, y, z : t' = [t EXCEPT !.silent = x, !.relayedAt = y, !.since = z, !.hold = left, !.probe = new]
  BY DEF Tick
<1>3. t.probe = NoProbe => new = NoProbe
  OBVIOUS
<1>4. left > 0 => t.hold > 0
  OBVIOUS
<1>. HIDE DEF new, left
<1>. QED  BY <1>1, <1>2, <1>3, <1>4 DEF Kept, Maps

LEMMA StepKeeps == PathInv /\ [Next]_vars => PathInv'
<1>. SUFFICES ASSUME Kept(t), [Next]_vars PROVE Kept(t')
  BY DEF PathInv
<1>1. ASSUME NEW m \in Payload, NEW probes \in BOOLEAN, NEW ready \in BOOLEAN,
             applySync(m, probes, ready)
      PROVE  Kept(t')
  BY <1>1, RetryKeeps DEF applySync
<1>2. ASSUME NEW ok \in BOOLEAN, checkProbes(ok) PROVE Kept(t')
  BY <1>2, CheckKeeps DEF checkProbes
<1>3. CASE ProxyDies
  BY <1>3 DEF ProxyDies, Kept, Maps
<1>4. CASE DeviceUnread \/ applySyncRemoving \/ ReportFails \/ UNCHANGED vars
  BY <1>4 DEF DeviceUnread, applySyncRemoving, ReportFails, vars
<1>. QED  BY <1>1, <1>2, <1>3, <1>4, CollectKeeps, HandshakesKeep, ReceiveKeeps, TickKeeps DEF Next

(* A probe has a relay to return to and its index a candidate, whatever     *)
(* answers, refusals, roaming and lost sessions come between (relay.go).    *)
THEOREM ProbesKeepTheirRelay == Spec => []RelayKept
<1>1. PathInv => RelayKept
  BY DEF PathInv, Kept, Probing, RelayKept
<1>. QED  BY <1>1, KeptInitially, StepKeeps, PTL DEF Spec

(* No probe runs during a hold-down, however it was entered and whatever    *)
(* epochs the control plane sends (flapHoldDownBase).                       *)
THEOREM HoldDownIsQuiet == Spec => []HoldDownHolds
<1>1. PathInv => HoldDownHolds
  BY DEF PathInv, Kept, HoldDownHolds
<1>. QED  BY <1>1, KeptInitially, StepKeeps, PTL DEF Spec

-----------------------------------------------------------------------------
(*****************************************************************************)
(* An agent never goes back to an older configuration, for any number of     *)
(* administrators, changes, reports and restarts of the control plane.       *)
(*****************************************************************************)

Report == [at : Pieces \cup {"none", "answered"}, answer : [Pieces -> Nat], failing : SUBSET Pieces]

SyncTypeOK ==
  /\ committed \in [Pieces -> Nat]
  /\ applied \in [Pieces -> Nat]
  /\ netCopy \in Nat
  /\ admin \in [Admins -> Nat]
  /\ report \in [Callers -> Report]

(* The pieces an answer already has when its handler is at a piece. *)
ReadAt(c) ==
  CASE c = "network" -> {"peers"}
    [] c = "dns" -> {"peers", "network"}
    [] c = "acl" -> {"peers", "network", "dns"}
    [] c = "answered" -> Pieces
    [] OTHER -> {}

(* What a piece is compared with is at least as new as what is applied, and *)
(* an answer lies between the two; of the network unless migrations crossed. *)
Excepted(c) == crossed /\ c = "network"
Between(g) ==
  \A c \in ReadAt(report[g].at) :
    Excepted(c) \/ (applied[c] <= report[g].answer[c] /\ report[g].answer[c] <= currentPiece(c))

SyncInv ==
  /\ SyncTypeOK
  /\ \A g, h \in Callers : g # h /\ report[g].at # "none" => report[h].at = "none"
  /\ netCopy <= committed["network"]
  /\ \A a \in Admins : admin[a] <= committed["network"]
  /\ \A c \in Pieces : Excepted(c) \/ applied[c] <= currentPiece(c)
  /\ \A g \in Callers : Between(g)

LEMMA ReadAtPieces ==
  ASSUME NEW c PROVE ReadAt(c) \in SUBSET Pieces
BY DEF ReadAt, Pieces

(* A step that only makes the control plane's pieces newer, and keeps the   *)
(* reports or drops them.                                                   *)
LEMMA NewerKeeps ==
  ASSUME SyncInv, SyncTypeOK', applied' = applied, crossed => crossed',
         \A g \in Callers : report'[g] = report[g] \/ report'[g] = NoReport,
         \A c \in Pieces : (crossed' /\ c = "network") \/ currentPiece(c) <= currentPiece(c)',
         netCopy' <= committed'["network"],
         \A a \in Admins : admin'[a] <= committed'["network"]
  PROVE  SyncInv'
<1>1. \A c \in Pieces : currentPiece(c) \in Nat /\ currentPiece(c)' \in Nat /\ applied[c] \in Nat
  BY DEF SyncInv, SyncTypeOK, currentPiece
<1>2. \A c \in Pieces : Excepted(c)' \/ applied'[c] <= currentPiece(c)'
  BY <1>1 DEF SyncInv, Excepted
<1>3. ASSUME NEW g \in Callers PROVE Between(g)'
  <2>1. CASE report'[g] = NoReport
    BY <2>1 DEF Between, NoReport, ReadAt
  <2>2. CASE report'[g] = report[g]
    <3>1. report[g].answer \in [Pieces -> Nat]
      BY DEF SyncInv, SyncTypeOK, Report
    <3>2. Between(g)
      BY DEF SyncInv
    <3>. QED  BY <1>1, <2>2, <3>1, <3>2, ReadAtPieces DEF Between, Excepted
  <2>. QED  BY <2>1, <2>2
<1>4. \A g, h \in Callers : g # h /\ report'[g].at # "none" => report'[h].at = "none"
  BY DEF SyncInv, NoReport
<1>. QED  BY <1>2, <1>3, <1>4 DEF SyncInv

LEMMA ChangeKeeps ==
  ASSUME SyncInv, NEW c \in Pieces \ {"network"}, handleChange(c)
  PROVE  SyncInv'
<1>1. /\ committed' = [committed EXCEPT ![c] = @ + 1]
      /\ UNCHANGED <<netCopy, admin, report, applied, crossed>>
  BY DEF handleChange
<1>2. committed' \in [Pieces -> Nat] /\ \A d \in Pieces : committed[d] <= committed'[d]
  BY <1>1 DEF SyncInv, SyncTypeOK
<1>3. SyncTypeOK'
  BY <1>1, <1>2 DEF SyncInv, SyncTypeOK
<1>4. \A d \in Pieces : currentPiece(d) <= currentPiece(d)'
  BY <1>1, <1>2 DEF currentPiece, SyncInv, SyncTypeOK
<1>5. committed'["network"] = committed["network"]
  BY <1>1 DEF SyncInv, SyncTypeOK, Pieces
<1>. QED  BY <1>1, <1>3, <1>4, <1>5, NewerKeeps DEF SyncInv

LEMMA MigrationKeeps ==
  ASSUME SyncInv, NEW a \in Admins, handleApplyNetworkMigration(a)
  PROVE  SyncInv'
<1>1. /\ committed' = [committed EXCEPT !["network"] = @ + 1, !["peers"] = @ + 1]
      /\ admin' = [admin EXCEPT ![a] = committed["network"] + 1]
      /\ UNCHANGED <<netCopy, report, applied, crossed>>
  BY DEF handleApplyNetworkMigration
<1>2. /\ committed' \in [Pieces -> Nat] /\ \A d \in Pieces : committed[d] <= committed'[d]
      /\ committed'["network"] = committed["network"] + 1 /\ committed["network"] \in Nat
  BY <1>1 DEF SyncInv, SyncTypeOK, Pieces
<1>3. SyncTypeOK' /\ \A b \in Admins : admin'[b] <= committed'["network"]
  BY <1>1, <1>2 DEF SyncInv, SyncTypeOK
<1>4. \A d \in Pieces : currentPiece(d) <= currentPiece(d)'
  BY <1>1, <1>2 DEF currentPiece, SyncInv, SyncTypeOK
<1>5. netCopy' <= committed'["network"]
  BY <1>1, <1>2 DEF SyncInv, SyncTypeOK
<1>. QED  BY <1>1, <1>3, <1>4, <1>5, NewerKeeps

LEMMA PublishKeeps ==
  ASSUME SyncInv, NEW a \in Admins, setNetworkConfig(a)
  PROVE  SyncInv'
<1>1. /\ netCopy' = admin[a] /\ admin' = [admin EXCEPT ![a] = 0]
      /\ crossed => crossed'
      /\ admin[a] < netCopy => crossed'
      /\ UNCHANGED <<committed, report, applied>>
  BY DEF setNetworkConfig
<1>2. admin[a] \in Nat /\ netCopy \in Nat /\ committed["network"] \in Nat
  BY DEF SyncInv, SyncTypeOK, Pieces
<1>3. SyncTypeOK' /\ \A b \in Admins : admin'[b] <= committed'["network"]
  BY <1>1, <1>2 DEF SyncInv, SyncTypeOK
<1>4. \A d \in Pieces : (crossed' /\ d = "network") \/ currentPiece(d) <= currentPiece(d)'
  BY <1>1, <1>2 DEF currentPiece, SyncInv, SyncTypeOK
<1>5. netCopy' <= committed'["network"]
  BY <1>1 DEF SyncInv
<1>. QED  BY <1>1, <1>3, <1>4, <1>5, NewerKeeps

LEMMA RestartKeeps ==
  ASSUME SyncInv, controlPlaneRestarts
  PROVE  SyncInv'
<1>1. /\ netCopy' = committed["network"] /\ admin' = [a \in Admins |-> 0]
      /\ report' = [g \in Callers |-> IF report[g].at = "answered" THEN report[g] ELSE NoReport]
      /\ UNCHANGED <<committed, applied, crossed>>
  BY DEF controlPlaneRestarts
<1>2. committed["network"] \in Nat /\ netCopy \in Nat /\ NoReport \in Report
  BY DEF SyncInv, SyncTypeOK, Pieces, NoReport, Report, Nothing
<1>3. SyncTypeOK' /\ \A b \in Admins : admin'[b] <= committed'["network"]
  BY <1>1, <1>2 DEF SyncInv, SyncTypeOK
<1>4. \A d \in Pieces : currentPiece(d) <= currentPiece(d)'
  BY <1>1, <1>2 DEF currentPiece, SyncInv, SyncTypeOK
<1>. QED  BY <1>1, <1>2, <1>3, <1>4, NewerKeeps

(* The report that ends leaves none behind. *)
LEMMA FailureKeeps ==
  ASSUME SyncInv, NEW g \in Callers, reportFails(g)
  PROVE  SyncInv'
<1>1. report' = [report EXCEPT ![g] = NoReport] /\ UNCHANGED <<committed, netCopy, admin, applied, crossed>>
  BY DEF reportFails
<1>2. NoReport \in Report
  BY DEF Pieces, NoReport, Report, Nothing
<1>3. SyncTypeOK' /\ \A h \in Callers : report'[h] = report[h] \/ report'[h] = NoReport
  BY <1>1, <1>2 DEF SyncInv, SyncTypeOK
<1>4. \A d \in Pieces : currentPiece(d) <= currentPiece(d)'
  BY <1>1 DEF currentPiece, SyncInv, SyncTypeOK
<1>. QED  BY <1>1, <1>3, <1>4, NewerKeeps DEF SyncInv

LEMMA BeginKeeps ==
  ASSUME SyncInv, NEW g \in Callers, NEW f \in Failures, syncOnce(g, f)
  PROVE  SyncInv'
<1>1. /\ \A h \in Callers : report[h].at = "none"
      /\ report' = [report EXCEPT ![g] = [NoReport EXCEPT !.at = "peers", !.failing = f]]
      /\ UNCHANGED <<committed, netCopy, admin, applied, crossed>>
  BY DEF syncOnce
<1>2. f \in SUBSET Pieces
  BY DEF Failures, Pieces
<1>3. [NoReport EXCEPT !.at = "peers", !.failing = f] \in Report
  BY <1>2 DEF Report, NoReport, Nothing, Pieces
<1>4. SyncTypeOK'
  BY <1>1, <1>3 DEF SyncInv, SyncTypeOK
<1>5. \A h \in Callers : report'[h].at \in {"none", "peers"} /\ (h # g => report'[h].at = "none")
  BY <1>1 DEF SyncInv, SyncTypeOK, NoReport
<1>6. \A h \in Callers : Between(h)'
  BY <1>5 DEF Between, ReadAt
<1>7. \A c \in Pieces : Excepted(c)' \/ applied'[c] <= currentPiece(c)'
  BY <1>1 DEF SyncInv, Excepted, currentPiece
<1>. QED  BY <1>1, <1>4, <1>5, <1>6, <1>7 DEF SyncInv

(* The piece that is read is as new as can be. *)
LEMMA HandlerKeeps ==
  ASSUME SyncInv, NEW g \in Callers, handleReport(g)
  PROVE  SyncInv'
<1>. DEFINE c == report[g].at
            new == [at |-> Following[c], failing |-> report[g].failing,
                    answer |-> [report[g].answer EXCEPT ![c] = currentPiece(c)]]
<1>1. /\ c \in Pieces /\ report' = [report EXCEPT ![g] = new]
      /\ UNCHANGED <<committed, netCopy, admin, applied, crossed>>
  BY DEF handleReport, SyncInv, SyncTypeOK
<1>2. report[g] \in Report /\ currentPiece(c) \in Nat
  BY <1>1 DEF SyncInv, SyncTypeOK, currentPiece
<1>3. /\ new.at = Following[c] /\ new.failing = report[g].failing
      /\ new.answer = [report[g].answer EXCEPT ![c] = currentPiece(c)]
      /\ new \in Report
  <2>1. Following[c] \in Pieces \cup {"none", "answered"}
    BY <1>1 DEF Following, Pieces
  <2>2. [report[g].answer EXCEPT ![c] = currentPiece(c)] \in [Pieces -> Nat]
    BY <1>1, <1>2 DEF Report
  <2>. QED  BY <1>2, <2>1, <2>2 DEF Report
<1>4. ReadAt(new.at) = ReadAt(c) \cup {c}
  BY <1>1, <1>3 DEF ReadAt, Following, Pieces
<1>5. c # "none"
  BY <1>1 DEF Pieces
<1>. HIDE DEF c, new
<1>6. report'[g] = new /\ \A h \in Callers : h # g => report'[h] = report[h]
  BY <1>1 DEF SyncInv, SyncTypeOK
<1>7. \A d \in Pieces : currentPiece(d)' = currentPiece(d) /\ (Excepted(d)' <=> Excepted(d))
  BY <1>1 DEF currentPiece, Excepted
<1>8. Between(g)'
  <2>. SUFFICES ASSUME NEW d \in ReadAt(c) \cup {c}
                PROVE  Excepted(d) \/ (applied[d] <= new.answer[d] /\ new.answer[d] <= currentPiece(d))
    BY <1>1, <1>4, <1>6, <1>7, ReadAtPieces DEF Between
  <2>1. d \in Pieces /\ report[g].answer \in [Pieces -> Nat]
    BY <1>1, <1>2, ReadAtPieces DEF Report
  <2>2. CASE d = c
    BY <1>2, <1>3, <2>1, <2>2 DEF SyncInv, SyncTypeOK
  <2>3. CASE d # c
    BY <1>3, <2>1, <2>3 DEF SyncInv, Between, c
  <2>. QED  BY <2>2, <2>3
<1>9. \A h \in Callers : h # g => Between(h)'
  BY <1>1, <1>6, <1>7, ReadAtPieces DEF SyncInv, Between
<1>10. \A h \in Callers : h # g => report[h].at = "none"
  BY <1>5 DEF SyncInv, c
<1>11. SyncTypeOK'
  BY <1>1, <1>3 DEF SyncInv, SyncTypeOK
<1>12. \A d \in Pieces : Excepted(d)' \/ applied'[d] <= currentPiece(d)'
  BY <1>1, <1>7 DEF SyncInv
<1>. QED  BY <1>1, <1>6, <1>8, <1>9, <1>10, <1>11, <1>12 DEF SyncInv

(* What is applied is an answer that lies behind nothing applied before. *)
LEMMA ApplyAdvances ==
  ASSUME SyncInv, NEW g \in Callers, applyAnswer(g)
  PROVE  /\ SyncInv'
         /\ \A c \in Pieces : Excepted(c) \/ applied'[c] >= applied[c]
<1>1. /\ report[g].at = "answered" /\ report' = [report EXCEPT ![g] = NoReport]
      /\ applied' = [c \in Pieces |-> IF c \in report[g].failing THEN applied[c] ELSE report[g].answer[c]]
      /\ UNCHANGED <<committed, netCopy, admin, crossed>>
  BY DEF applyAnswer
<1>2. /\ applied \in [Pieces -> Nat] /\ report[g].answer \in [Pieces -> Nat]
      /\ \A c \in Pieces : currentPiece(c) \in Nat
  BY DEF SyncInv, SyncTypeOK, Report, currentPiece
<1>3. \A c \in Pieces :
        Excepted(c) \/ (applied[c] <= report[g].answer[c] /\ report[g].answer[c] <= currentPiece(c))
  BY <1>1 DEF SyncInv, Between, ReadAt
<1>4. \A c \in Pieces : Excepted(c) \/ (applied'[c] >= applied[c] /\ applied'[c] <= currentPiece(c))
  BY <1>1, <1>2, <1>3 DEF SyncInv
<1>5. NoReport \in Report
  BY DEF Pieces, NoReport, Report, Nothing
<1>6. SyncTypeOK'
  BY <1>1, <1>2, <1>5 DEF SyncInv, SyncTypeOK
<1>7. \A h \in Callers : report'[h].at = "none"
  BY <1>1 DEF SyncInv, SyncTypeOK, NoReport
<1>8. \A h \in Callers : Between(h)'
  BY <1>7 DEF Between, ReadAt
<1>9. \A c \in Pieces : Excepted(c)' \/ applied'[c] <= currentPiece(c)'
  BY <1>1, <1>4 DEF Excepted, currentPiece
<1>10. SyncInv'
  BY <1>1, <1>6, <1>7, <1>8, <1>9 DEF SyncInv
<1>. QED  BY <1>4, <1>10

(* The invariant is inductive. *)
THEOREM SyncInvariant == SyncSpec => []SyncInv
<1>1. SyncInit => SyncInv
  <2>. SUFFICES ASSUME SyncInit PROVE SyncInv
    OBVIOUS
  <2>1. SyncTypeOK
    BY DEF SyncInit, SyncTypeOK, Report, NoReport, Nothing
  <2>2. \A g \in Callers : report[g].at = "none"
    BY DEF SyncInit, NoReport
  <2>3. \A g \in Callers : Between(g)
    BY <2>2 DEF Between, ReadAt
  <2>4. \A c \in Pieces : applied[c] = 0 /\ currentPiece(c) = 0 /\ committed[c] = 0
    BY DEF SyncInit, currentPiece, Nothing
  <2>. QED  BY <2>1, <2>2, <2>3, <2>4 DEF SyncInit, SyncInv, Pieces
<1>2. SyncInv /\ [SyncNext]_syncVars => SyncInv'
  <2>. SUFFICES ASSUME SyncInv, [SyncNext]_syncVars PROVE SyncInv'
    OBVIOUS
  <2>1. CASE UNCHANGED syncVars
    BY <2>1 DEF syncVars, SyncInv, SyncTypeOK, Between, Excepted, currentPiece
  <2>2. CASE Publish
    BY <2>2, PublishKeeps DEF Publish
  <2>3. CASE Proceed
    BY <2>3, HandlerKeeps, ApplyAdvances, FailureKeeps DEF Proceed
  <2>. QED  BY <2>1, <2>2, <2>3, ChangeKeeps, MigrationKeeps, BeginKeeps, RestartKeeps DEF SyncNext
<1>. QED  BY <1>1, <1>2, PTL DEF SyncSpec

(* However ticks, sync-nows, failures and restarts of the control plane     *)
(* interleave, no step of the agent replaces a piece of its configuration   *)
(* by an older one (syncOnce, applySync).                                   *)
THEOREM ConfigurationNeverGoesBack == SyncSpec => NeverBackwards
<1>. DEFINE Advances == \A c \in Pieces : applied'[c] >= applied[c] \/ (c = "network" /\ crossed)
<1>1. SyncInv /\ [SyncNext]_syncVars => [Advances]_syncVars
  <2>. SUFFICES ASSUME SyncInv, SyncNext PROVE Advances
    OBVIOUS
  <2>1. ASSUME NEW g \in Callers, applyAnswer(g) PROVE Advances
    BY <2>1, ApplyAdvances DEF Excepted
  <2>2. CASE applied' = applied
    BY <2>2 DEF SyncInv, SyncTypeOK
  <2>. QED
    BY <2>1, <2>2 DEF SyncNext, Publish, Proceed, handleChange, handleApplyNetworkMigration,
       setNetworkConfig, syncOnce, handleReport, reportFails, controlPlaneRestarts
<1>. QED  BY <1>1, SyncInvariant, PTL DEF SyncSpec, NeverBackwards

-----------------------------------------------------------------------------
(*****************************************************************************)
(* The NAT an agent reports, for any moves between NATs and any lost answer. *)
(*****************************************************************************)

CheckFields == {"at", "ports", "first", "type", "kinds"}
RepFields == {"host", "host6", "type", "kinds", "tick"}

(* While a check runs its history has the NAT there is; unless that was a   *)
(* cone at some moment, an answer tells the port that was asked, and the    *)
(* first one told port 1.                                                   *)
NatInv ==
  /\ DOMAIN check = CheckFields
  /\ DOMAIN rep = RepFields
  /\ check.at \in {"idle", "ask1", "await1", "ask2", "await2", "apply"}
  /\ check.at = "idle" => check = NotChecking
  /\ check.at # "idle" => nat.kind \in check.kinds
  /\ check.at \in {"idle", "ask1", "apply"} => inflight = {}
  /\ \A a \in inflight : "cone" \in check.kinds \/ a.mapped[2] = a.tx
  /\ check.at \in {"ask2", "await2"} => "cone" \in check.kinds \/ check.first[2] = 1
  /\ check.type = "easy" => "cone" \in check.kinds
  /\ EasyIsCone

LEMMA NatInitially == NatInit => NatInv
<1>. SUFFICES ASSUME NatInit PROVE NatInv
  OBVIOUS
<1>1. check = NotChecking /\ inflight = {}
  BY DEF NatInit
<1>2. PICK h, h6 : rep = [host |-> h, host6 |-> h6, type |-> IF opts.pinned THEN "static" ELSE "",
                        kinds |-> {}, tick |-> 0]
  BY DEF NatInit
<1>3. DOMAIN rep = RepFields /\ rep.type # "easy"
  BY <1>2 DEF RepFields
<1>. QED  BY <1>1, <1>3 DEF NatInv, NotChecking, CheckFields, EasyIsCone

LEMMA CheckBeginKeeps ==
  ASSUME NatInv, maybeNATCheck
  PROVE  NatInv'
<1>1. /\ DOMAIN rep' = RepFields /\ rep'.type = rep.type /\ rep'.kinds = rep.kinds
      /\ inflight' = inflight /\ nat' = nat
  BY DEF NatInv, maybeNATCheck, RepFields
<1>2. CASE check' = check
  BY <1>1, <1>2 DEF NatInv, EasyIsCone
<1>3. CASE check' # check
  <2>1. /\ check.at = "idle"
        /\ check' = [NotChecking EXCEPT !.at = "ask1", !.ports = Servers, !.kinds = {nat.kind}]
    BY <1>3 DEF maybeNATCheck
  <2>2. /\ DOMAIN check' = CheckFields /\ check'.at = "ask1" /\ check'.kinds = {nat.kind}
        /\ check'.type = ""
    BY <2>1 DEF NotChecking, CheckFields
  <2>. QED  BY <1>1, <2>1, <2>2 DEF NatInv, EasyIsCone
<1>. QED  BY <1>2, <1>3

LEMMA QueryKeeps ==
  ASSUME NatInv, stunQuery
  PROVE  NatInv'
<1>. DEFINE a == [tx |-> PortAsked, mapped |-> Mapping(PortAsked)]
<1>1. "cone" \in check.kinds \/ a.mapped[2] = a.tx
  BY DEF NatInv, stunQuery, Asking, Mapping
<1>2. inflight' = inflight \cup {a} /\ rep' = rep /\ nat' = nat
  BY DEF stunQuery
<1>3. /\ DOMAIN check' = CheckFields /\ check'.kinds = check.kinds /\ check'.type = check.type
      /\ check'.first = check.first
      /\ \/ check.at = "ask1" /\ check'.at = "await1"
         \/ check.at = "ask2" /\ check'.at = "await2"
  BY DEF NatInv, stunQuery, Asking, CheckFields
<1>. HIDE DEF a
<1>. QED  BY <1>1, <1>2, <1>3 DEF NatInv, EasyIsCone

LEMMA ReceivedKeeps ==
  ASSUME NatInv, NEW a \in inflight, NEW again \in BOOLEAN, received(a, again)
  PROVE  NatInv'
<1>1. /\ rep' = rep /\ nat' = nat /\ check.at \in {"await1", "await2"}
      /\ inflight' \subseteq inflight /\ (check'.at = "apply" => inflight' = {})
  BY DEF received, Awaiting
<1>2. CASE ~accepts(a)
  BY <1>1, <1>2 DEF NatInv, received, EasyIsCone
<1>3. CASE accepts(a) /\ check.at = "await1"
  <2>1. "cone" \in check.kinds \/ a.mapped[2] = 1
    BY <1>3 DEF NatInv, accepts, PortAsked
  <2>2. /\ DOMAIN check' = CheckFields /\ check'.kinds = check.kinds /\ check'.type = check.type
        /\ check'.first = a.mapped /\ check'.at \in {"apply", "ask2"}
    BY <1>3 DEF NatInv, received, CheckFields
  <2>. QED  BY <1>1, <1>3, <2>1, <2>2 DEF NatInv, EasyIsCone
<1>4. CASE accepts(a) /\ check.at = "await2"
  <2>1. "cone" \in check.kinds \/ (a.mapped[2] = 2 /\ check.first[2] = 1)
    BY <1>4 DEF NatInv, accepts, PortAsked
  <2>2. Classified(a.mapped) = "easy" => "cone" \in check.kinds
    BY <2>1 DEF Classified
  <2>3. /\ DOMAIN check' = CheckFields /\ check'.kinds = check.kinds
        /\ check'.type = Classified(a.mapped) /\ check'.at = "apply"
    BY <1>4 DEF NatInv, received, CheckFields
  <2>. QED  BY <1>1, <1>4, <2>2, <2>3 DEF NatInv, EasyIsCone
<1>. QED  BY <1>1, <1>2, <1>3, <1>4

LEMMA TimedOutKeeps ==
  ASSUME NatInv, timedOut
  PROVE  NatInv'
BY DEF NatInv, timedOut, NothingComes, Awaiting, NotChecking, CheckFields, RepFields, EasyIsCone

LEMMA ApplyKeeps ==
  ASSUME NatInv, NEW answered \in BOOLEAN, applyCheck(answered)
  PROVE  NatInv'
BY DEF NatInv, applyCheck, NotChecking, CheckFields, RepFields, EasyIsCone

LEMMA SurroundingsKeep ==
  ASSUME NatInv, NEW n \in Surroundings, surroundingsChange(n)
  PROVE  NatInv'
BY DEF NatInv, surroundingsChange, NotChecking, CheckFields, RepFields, EasyIsCone

(* A NAT that stayed symmetric during a check is never classified "easy",   *)
(* whatever answers are lost, delayed or repeated (checkNAT).               *)
THEOREM OnlyConesAreEasy == NatSpec => []EasyIsCone
<1>1. NatInv /\ [NatNext]_natVars => NatInv'
  <2>. SUFFICES ASSUME NatInv, [NatNext]_natVars PROVE NatInv'
    OBVIOUS
  <2>1. ASSUME NEW a \in inflight, answerLost(a) PROVE NatInv'
    BY <2>1 DEF NatInv, answerLost, EasyIsCone
  <2>2. CASE learnServers
    BY <2>2 DEF NatInv, learnServers, EasyIsCone
  <2>3. CASE UNCHANGED natVars
    BY <2>3 DEF NatInv, natVars, EasyIsCone
  <2>. QED  BY <2>1, <2>2, <2>3, CheckBeginKeeps, QueryKeeps, ReceivedKeeps, TimedOutKeeps, ApplyKeeps,
               SurroundingsKeep DEF NatNext, CheckSteps
<1>2. NatInv => EasyIsCone
  BY DEF NatInv
<1>. QED  BY <1>1, <1>2, NatInitially, PTL DEF NatSpec

-----------------------------------------------------------------------------
(* The overlay address *)

(* A sequence, of whatever elements. *)
IsSeq(s) == s \in Seq(Range(s))

(* A sequence over any set is one. *)
LEMMA SeqIsSeq ==
  ASSUME NEW S, NEW s \in Seq(S)
  PROVE  IsSeq(s)
BY DEF IsSeq, Range

(* A sequence has a length, and its positions count up to it. *)
LEMMA IsSeqFacts ==
  ASSUME NEW s, IsSeq(s)
  PROVE  Len(s) \in Nat /\ DOMAIN s = 1..Len(s)
BY DEF IsSeq

(* Lists with the same elements at the same places are the same. *)
LEMMA SameSeq ==
  ASSUME NEW s, NEW w, IsSeq(s), IsSeq(w), Len(s) = Len(w), \A i \in 1..Len(s) : s[i] = w[i]
  PROVE  s = w
<1>1. s \in Seq(Range(s)) /\ w \in Seq(Range(w)) /\ Len(s) \in Nat
  BY DEF IsSeq
<1>2. s = [i \in 1..Len(s) |-> s[i]] /\ w = [i \in 1..Len(w) |-> w[i]]
  BY <1>1
<1>. QED  BY <1>2

(* A list is empty when it has no elements. *)
LEMMA EmptyRange ==
  ASSUME NEW s, IsSeq(s)
  PROVE  s = <<>> <=> Range(s) = {}
<1>1. s \in Seq(Range(s)) /\ Len(s) \in Nat /\ DOMAIN s = 1..Len(s)
  BY IsSeqFacts DEF IsSeq
<1>2. ASSUME Len(s) = 0 PROVE s = <<>>
  <2>1. <<>> \in Seq({}) /\ Len(<<>>) = 0
    OBVIOUS
  <2>2. IsSeq(<<>>)
    BY <2>1, SeqIsSeq
  <2>3. \A i \in 1..Len(s) : s[i] = <<>>[i]
    BY <1>2
  <2>. QED  BY <1>2, <2>1, <2>2, <2>3, SameSeq
<1>3. ASSUME Len(s) # 0 PROVE s # <<>> /\ Range(s) # {}
  <2>1. 1 \in DOMAIN s
    BY <1>1, <1>3
  <2>. QED  BY <2>1, <1>3 DEF Range
<1>4. ASSUME Len(s) = 0 PROVE Range(s) = {}
  <2>1. DOMAIN s = {}
    BY <1>1, <1>4
  <2>. QED  BY <2>1 DEF Range
<1>. QED  BY <1>2, <1>3, <1>4

(* What is left of a list of commands once its first is made. *)
LEMMA TailFacts ==
  ASSUME NEW s, IsSeq(s), s # <<>>
  PROVE  /\ IsSeq(Tail(s)) /\ Len(Tail(s)) = Len(s) - 1 /\ Len(s) >= 1
         /\ \A i \in 1..(Len(s) - 1) : Tail(s)[i] = s[i + 1]
         /\ Head(s) = s[1]
<1>1. s \in Seq(Range(s)) /\ Len(s) \in Nat /\ DOMAIN s = 1..Len(s)
  BY DEF IsSeq
<1>2. Len(s) >= 1
  BY <1>1, EmptyRange DEF Range
<1>3. /\ Tail(s) \in Seq(Range(s)) /\ Len(Tail(s)) = Len(s) - 1
      /\ \A i \in 1..(Len(s) - 1) : Tail(s)[i] = s[i + 1]
  BY <1>1, <1>2
<1>4. IsSeq(Tail(s))
  BY <1>3, SeqIsSeq
<1>. QED  BY <1>1, <1>2, <1>3, <1>4

(* r is s followed by w. *)
Joined(r, s, w) ==
  /\ IsSeq(r) /\ Len(r) = Len(s) + Len(w)
  /\ \A i \in 1..Len(s) : r[i] = s[i]
  /\ \A i \in 1..Len(w) : r[Len(s) + i] = w[i]
  /\ Range(r) = Range(s) \cup Range(w)

(* Two operations run one after the other make the commands of both. *)
LEMMA ConcatFacts ==
  ASSUME NEW s, NEW w, IsSeq(s), IsSeq(w)
  PROVE  Joined(s \o w, s, w)
<1>. DEFINE S == Range(s) \cup Range(w)
<1>1. s \in Seq(S) /\ w \in Seq(S)
  BY DEF IsSeq
<1>2. /\ s \o w \in Seq(S) /\ Len(s \o w) = Len(s) + Len(w)
      /\ \A i \in 1..Len(s) + Len(w) :
           (s \o w)[i] = IF i <= Len(s) THEN s[i] ELSE w[i - Len(s)]
  BY <1>1
<1>3. IsSeq(s \o w)
  BY <1>2, SeqIsSeq
<1>4. Len(s) \in Nat /\ Len(w) \in Nat /\ DOMAIN s = 1..Len(s) /\ DOMAIN w = 1..Len(w)
      /\ DOMAIN (s \o w) = 1..(Len(s) + Len(w))
  BY <1>1, <1>2
<1>5. /\ \A i \in 1..Len(s) : (s \o w)[i] = s[i]
      /\ \A i \in 1..Len(w) : (s \o w)[Len(s) + i] = w[i]
  BY <1>2, <1>4
<1>6. Range(s \o w) \subseteq Range(s) \cup Range(w)
  BY <1>2, <1>4 DEF Range
<1>7. Range(s) \subseteq Range(s \o w)
  BY <1>4, <1>5 DEF Range
<1>8. Range(w) \subseteq Range(s \o w)
  <2>. SUFFICES ASSUME NEW i \in 1..Len(w) PROVE w[i] \in Range(s \o w)
    BY <1>4 DEF Range
  <2>1. Len(s) + i \in DOMAIN (s \o w)
    BY <1>4
  <2>. QED  BY <2>1, <1>5 DEF Range
<1>9. Range(s \o w) = Range(s) \cup Range(w)
  BY <1>6, <1>7, <1>8
<1>. QED  BY <1>2, <1>3, <1>5, <1>9 DEF Joined

(* What is selected from a sequence is a sequence of just those elements.   *)
LEMMA SelectedFacts ==
  ASSUME NEW s, IsSeq(s), NEW I \in SUBSET DOMAIN s
  PROVE  /\ IsSeq(Selected(s, I))
         /\ Range(Selected(s, I)) = {s[i] : i \in I}
<1>. DEFINE n == Cardinality(I)
            upTo(i) == {j \in I : j <= i}
            rank == [i \in I |-> Cardinality(upTo(i))]
            pick(k) == CHOOSE i \in I : Cardinality(upTo(i)) = k
<1>1. IsFiniteSet(I) /\ I \subseteq Nat
  <2>1. Len(s) \in Nat /\ I \in SUBSET (1..Len(s))
    BY IsSeqFacts
  <2>2. IsFiniteSet(1..Len(s)) /\ 1..Len(s) \subseteq Nat
    BY <2>1, FS_Interval
  <2>. QED  BY <2>1, <2>2, FS_Subset
<1>2. n \in Nat
  BY <1>1, FS_CardinalityType
<1>3. ASSUME NEW i \in I PROVE IsFiniteSet(upTo(i)) /\ Cardinality(upTo(i)) \in 1..n
  <2>1. upTo(i) \in SUBSET I /\ i \in upTo(i)
    BY <1>1
  <2>2. IsFiniteSet(upTo(i)) /\ Cardinality(upTo(i)) <= n
    BY <2>1, <1>1, FS_Subset
  <2>3. Cardinality(upTo(i)) \in Nat
    BY <2>2, FS_CardinalityType
  <2>4. Cardinality(upTo(i)) # 0
    BY <2>1, <2>2, FS_EmptySet
  <2>. QED  BY <2>2, <2>3, <2>4, <1>2
<1>4. ASSUME NEW i \in I, NEW j \in I, i < j PROVE Cardinality(upTo(i)) # Cardinality(upTo(j))
  <2>1. upTo(i) \in SUBSET upTo(j) /\ j \in upTo(j) /\ j \notin upTo(i)
    BY <1>1, <1>4
  <2>. QED  BY <2>1, <1>3, FS_Subset
<1>5. rank \in Injection(I, 1..n)
  <2>1. rank \in [I -> 1..n]
    BY <1>3
  <2>2. ASSUME NEW i \in I, NEW j \in I, rank[i] = rank[j] PROVE i = j
    BY <1>1, <1>4, <2>2
  <2>. QED  BY <2>1, <2>2 DEF Injection, IsInjective
<1>6. IsFiniteSet(1..n) /\ Cardinality(1..n) = n
  BY <1>2, FS_Interval
<1>7. rank \in Surjection(I, 1..n)
  <2>. HIDE DEF rank
  <2>. QED  BY <1>5, <1>6, FS_Injection
<1>8. ASSUME NEW k \in 1..n PROVE pick(k) \in I /\ Cardinality(upTo(pick(k))) = k
  <2>1. \E i \in I : Cardinality(upTo(i)) = k
    BY <1>7 DEF Surjection
  <2>. QED  BY <2>1
<1>9. Selected(s, I) = [k \in 1..n |-> s[pick(k)]]
  BY DEF Selected
<1>10. Selected(s, I) \in Seq({s[i] : i \in I})
  <2>. DEFINE S == {s[i] : i \in I}
  <2>1. \A k \in 1..n : s[pick(k)] \in S
    BY <1>8
  <2>2. Selected(s, I) \in [1..n -> S]
    BY <2>1, <1>9
  <2>. HIDE DEF S, n
  <2>3. Selected(s, I) \in Seq(S)
    BY <2>2, <1>2
  <2>. QED  BY <2>3 DEF S
<1>11. {s[i] : i \in I} \subseteq Range(Selected(s, I))
  <2>. SUFFICES ASSUME NEW i \in I PROVE s[i] \in Range(Selected(s, I))
    OBVIOUS
  <2>1. PICK k \in 1..n : k = Cardinality(upTo(i))
    BY <1>3
  <2>2. pick(k) = i
    BY <2>1, <1>8, <1>4, <1>1
  <2>3. k \in DOMAIN Selected(s, I) /\ Selected(s, I)[k] = s[i]
    BY <2>2, <1>9
  <2>. QED  BY <2>3 DEF Range
<1>12. Range(Selected(s, I)) \subseteq {s[i] : i \in I}
  BY <1>10 DEF Range
<1>. QED  BY <1>10, <1>11, <1>12, SeqIsSeq

(* A list of rules loses exactly those that are deleted. *)
LEMMA WithoutFacts ==
  ASSUME NEW s, IsSeq(s), NEW gone
  PROVE  IsSeq(Without(s, gone)) /\ Range(Without(s, gone)) = Range(s) \ gone
<1>. DEFINE I == {i \in DOMAIN s : s[i] \notin gone}
<1>1. I \in SUBSET DOMAIN s /\ {s[i] : i \in I} = Range(s) \ gone
  BY DEF Range
<1>2. Without(s, gone) = Selected(s, I)
  BY DEF Without
<1>. HIDE DEF I
<1>. QED  BY <1>1, <1>2, SelectedFacts

(* Lists written out are sequences of their length. *)
LEMMA Tuples ==
  ASSUME NEW x, NEW y, NEW z
  PROVE  /\ IsSeq(<<>>) /\ IsSeq(<<x>>) /\ IsSeq(<<x, y>>) /\ IsSeq(<<x, y, z>>)
         /\ Len(<<>>) = 0 /\ Len(<<x>>) = 1 /\ Len(<<x, y>>) = 2 /\ Len(<<x, y, z>>) = 3
         /\ DOMAIN <<>> = {}
<1>1. /\ <<>> \in Seq({x, y, z}) /\ <<x>> \in Seq({x, y, z})
      /\ <<x, y>> \in Seq({x, y, z}) /\ <<x, y, z>> \in Seq({x, y, z})
  OBVIOUS
<1>2. IsSeq(<<>>) /\ IsSeq(<<x>>) /\ IsSeq(<<x, y>>) /\ IsSeq(<<x, y, z>>)
  BY <1>1, SeqIsSeq
<1>. QED  BY <1>2

(* Short lists written out, joined. *)
LEMMA Joins ==
  ASSUME NEW x, NEW y, NEW z
  PROVE  /\ <<>> \o <<>> = <<>> /\ <<>> \o <<x>> = <<x>> /\ <<x>> \o <<>> = <<x>>
         /\ <<x>> \o <<y>> = <<x, y>> /\ <<x, y>> \o <<z>> = <<x, y, z>>
<1>1. <<>> \o <<>> = <<>> /\ <<>> \o <<x>> = <<x>> /\ <<x>> \o <<>> = <<x>>
  <2>1. <<>> \o <<>> = <<>>
    OBVIOUS
  <2>2. <<>> \o <<x>> = <<x>>
    OBVIOUS
  <2>3. <<x>> \o <<>> = <<x>>
    <3>. DEFINE s == <<x>>  w == <<>>
    <3>1. IsSeq(s) /\ IsSeq(w) /\ Len(s) = 1 /\ Len(w) = 0
      BY Tuples
    <3>. HIDE DEF s, w
    <3>2. IsSeq(s \o w) /\ Len(s \o w) = Len(s) /\ \A i \in 1..Len(s) : (s \o w)[i] = s[i]
      BY <3>1, ConcatFacts DEF Joined
    <3>3. s \o w = s
      BY <3>1, <3>2, SameSeq
    <3>. QED  BY <3>3 DEF s, w
  <2>. QED  BY <2>1, <2>2, <2>3
<1>2. <<x>> \o <<y>> = <<x, y>>
  <2>. DEFINE s == <<x>>  w == <<y>>  u == <<x, y>>
  <2>1. /\ IsSeq(s) /\ IsSeq(w) /\ IsSeq(u) /\ Len(s) = 1 /\ Len(w) = 1 /\ Len(u) = 2
        /\ s[1] = x /\ w[1] = y /\ u[1] = x /\ u[2] = y
    BY Tuples
  <2>. HIDE DEF s, w, u
  <2>2. IsSeq(s \o w) /\ Len(s \o w) = 2 /\ (s \o w)[1] = x /\ (s \o w)[2] = y
    <3>1. Joined(s \o w, s, w)
      BY <2>1, ConcatFacts
    <3>2. 1 \in 1..Len(s) /\ 1 \in 1..Len(w) /\ Len(s) + 1 = 2 /\ Len(s) + Len(w) = 2
      BY <2>1
    <3>. QED  BY <2>1, <3>1, <3>2 DEF Joined
  <2>3. \A i \in 1..Len(s \o w) : (s \o w)[i] = u[i]
    BY <2>1, <2>2
  <2>4. s \o w = u
    BY <2>1, <2>2, <2>3, SameSeq
  <2>. QED  BY <2>4 DEF s, w, u
<1>3. <<x, y>> \o <<z>> = <<x, y, z>>
  <2>. DEFINE s == <<x, y>>  w == <<z>>  u == <<x, y, z>>
  <2>1. /\ IsSeq(s) /\ IsSeq(w) /\ IsSeq(u) /\ Len(s) = 2 /\ Len(w) = 1 /\ Len(u) = 3
        /\ s[1] = x /\ s[2] = y /\ w[1] = z /\ u[1] = x /\ u[2] = y /\ u[3] = z
    BY Tuples
  <2>. HIDE DEF s, w, u
  <2>2. /\ IsSeq(s \o w) /\ Len(s \o w) = 3
        /\ (s \o w)[1] = x /\ (s \o w)[2] = y /\ (s \o w)[2 + 1] = z
    <3>0. IsSeq(s) /\ IsSeq(w)
      BY <2>1
    <3>1. /\ IsSeq(s \o w) /\ Len(s \o w) = Len(s) + Len(w)
          /\ \A i \in 1..Len(s) : (s \o w)[i] = s[i]
          /\ \A i \in 1..Len(w) : (s \o w)[Len(s) + i] = w[i]
      BY <3>0, ConcatFacts DEF Joined
    <3>2. 1 \in 1..Len(s) /\ 2 \in 1..Len(s) /\ 1 \in 1..Len(w)
      BY <2>1
    <3>3. (s \o w)[1] = s[1] /\ (s \o w)[2] = s[2] /\ (s \o w)[Len(s) + 1] = w[1]
      BY <3>1, <3>2
    <3>. QED  BY <2>1, <3>1, <3>3
  <2>3. \A i \in 1..Len(s \o w) : (s \o w)[i] = u[i]
    BY <2>1, <2>2
  <2>4. s \o w = u
    BY <2>1, <2>2, <2>3, SameSeq
  <2>. QED  BY <2>4 DEF s, w, u
<1>. QED  BY <1>1, <1>2, <1>3

(* A removal of an IPv4 address comes right after the addition of another,  *)
(* or another is there.                                                     *)
RemovalsCovered ==
  \A k \in DOMAIN todo :
    /\ todo[k].fam \in Families
    /\ todo[k].do = "AddrDel" /\ todo[k].fam = 4 =>
         IF k = 1 THEN ~swept => \E b \in Range(iface[4]) : b # todo[k].addr
         ELSE /\ todo[k - 1].do = "AddrAdd" /\ todo[k - 1].fam = 4
              /\ todo[k - 1].addr # todo[k].addr

AddrInv ==
  /\ assigned \in Assignments
  /\ DOMAIN iface = Families /\ \A f \in Families : IsSeq(iface[f])
  /\ IsSeq(todo)
  /\ RemovalsCovered
  /\ NeverUnaddressed

(* The interface set up at the start has the IPv4 address (setupInterface). *)
LEMMA FreshFacts ==
  ASSUME NEW m \in Assignments
  PROVE  /\ DOMAIN Fresh(m) = Families /\ \A f \in Families : IsSeq(Fresh(m)[f])
         /\ Fresh(m)[4] # <<>>
<1>1. m[4] # NoAddress
  BY AssignmentAssumption
<1>2. ASSUME NEW f \in Families PROVE IsSeq(Fresh(m)[f])
  <2>1. Fresh(m)[f] \in {<<>>, <<m[f]>>}
    BY <1>2 DEF Fresh
  <2>2. <<>> \in Seq({m[f]}) /\ <<m[f]>> \in Seq({m[f]})
    OBVIOUS
  <2>. QED  BY <2>1, <2>2, SeqIsSeq
<1>3. Fresh(m)[4] = <<m[4]>>
  BY <1>1 DEF Fresh, Families
<1>. QED  BY <1>2, <1>3 DEF Fresh

(* One family's calls, taken by themselves. *)
LEMMA AdoptFacts ==
  ASSUME NEW f \in Families, AddrInv
  PROVE  LET s == adoptAddress(f) IN
         /\ IsSeq(s)
         /\ \A k \in DOMAIN s : s[k].fam = f
         /\ f = 4 => \A k \in DOMAIN s : s[k].do = "AddrDel" =>
              k > 1 /\ s[k - 1].do = "AddrAdd" /\ s[k - 1].addr # s[k].addr
<1>. DEFINE old == self[f]  new == assigned[f]
            add == Call("AddrAdd", f, new)  del == Call("AddrDel", f, old)
            own == Call("selfAddr", f, new)
<1>1. /\ add.do = "AddrAdd" /\ del.do = "AddrDel" /\ own.do = "selfAddr"
      /\ add.fam = f /\ del.fam = f /\ own.fam = f
      /\ add.addr = new /\ del.addr = old
  BY DEF Call
<1>2. f = 4 => new # NoAddress
  BY AssignmentAssumption DEF AddrInv
<1>3. \/ adoptAddress(f) = <<>>
      \/ old # new /\ \/ adoptAddress(f) = <<own>> /\ new = NoAddress
                      \/ adoptAddress(f) = <<add, own>>
                      \/ adoptAddress(f) = <<del, own>> /\ new = NoAddress
                      \/ adoptAddress(f) = <<add, del, own>>
  <2>1. CASE old = new
    BY <2>1 DEF adoptAddress
  <2>2. CASE old # new
    <3>1. adoptAddress(f) = ((IF new = NoAddress THEN <<>> ELSE <<add>>)
                             \o (IF old = NoAddress THEN <<>> ELSE <<del>>)) \o <<own>>
      BY <2>2 DEF adoptAddress, replaceIPAddress
    <3>. HIDE DEF add, del, own, old, new
    <3>. QED  BY <3>1, <2>2, Joins
  <2>. QED  BY <2>1, <2>2
<1>. HIDE DEF add, del, own
<1>4. /\ <<>> \in Seq({add, del, own}) /\ <<own>> \in Seq({add, del, own})
      /\ <<add, own>> \in Seq({add, del, own})
      /\ <<del, own>> \in Seq({add, del, own}) /\ <<add, del, own>> \in Seq({add, del, own})
  OBVIOUS
<1>5. adoptAddress(f) \in Seq({add, del, own})
  BY <1>3, <1>4
<1>6. IsSeq(adoptAddress(f))
  BY <1>5, SeqIsSeq
<1>7. \A k \in DOMAIN adoptAddress(f) : adoptAddress(f)[k] \in {add, del, own}
  BY <1>5
<1>8. ASSUME f = 4, NEW k \in DOMAIN adoptAddress(f), adoptAddress(f)[k].do = "AddrDel"
      PROVE  /\ k > 1 /\ adoptAddress(f)[k - 1].do = "AddrAdd"
             /\ adoptAddress(f)[k - 1].addr # adoptAddress(f)[k].addr
  <2>1. new # NoAddress /\ adoptAddress(f)[k] # add /\ adoptAddress(f)[k] # own
    BY <1>1, <1>2, <1>8
  <2>. HIDE DEF new, old
  <2>2. adoptAddress(f) \in {<<>>, <<add, own>>, <<add, del, own>>} /\ (adoptAddress(f) # <<>> => old # new)
    BY <1>3, <2>1
  <2>3. adoptAddress(f) = <<add, del, own>> /\ k = 2 /\ old # new
    BY <1>8, <2>1, <2>2
  <2>. QED  BY <2>3, <1>1
<1>. QED  BY <1>1, <1>6, <1>7, <1>8

(* Planning a change of address (applySelfAssignment) preserves the          *)
(* invariant: of each family the new address is to be added before the old   *)
(* one goes.                                                                 *)
LEMMA adoptKeeps ==
  ASSUME AddrInv, applySelfAssignment
  PROVE  AddrInv'
<1>. DEFINE s == adoptAddress(4)  w == adoptAddress(6)
<1>1. todo' = s \o w /\ UNCHANGED <<assigned, iface, self, swept>>
  BY DEF applySelfAssignment
<1>2. /\ IsSeq(s) /\ \A k \in DOMAIN s : s[k].fam = 4
      /\ \A k \in DOMAIN s : s[k].do = "AddrDel" =>
           k > 1 /\ s[k - 1].do = "AddrAdd" /\ s[k - 1].addr # s[k].addr
  BY AdoptFacts DEF Families
<1>3. IsSeq(w) /\ \A k \in DOMAIN w : w[k].fam = 6
  BY AdoptFacts DEF Families
<1>. HIDE DEF s, w
<1>4. /\ IsSeq(todo') /\ DOMAIN todo' = 1..(Len(s) + Len(w))
      /\ Len(s) \in Nat /\ DOMAIN s = 1..Len(s) /\ Len(w) \in Nat /\ DOMAIN w = 1..Len(w)
      /\ \A i \in 1..Len(s) : todo'[i] = s[i]
      /\ \A i \in 1..Len(w) : todo'[Len(s) + i] = w[i]
  <2>1. IsSeq(s) /\ IsSeq(w)
    BY <1>2, <1>3
  <2>2. Joined(todo', s, w)
    BY <2>1, <1>1, ConcatFacts
  <2>3. IsSeq(todo')
    BY <2>2 DEF Joined
  <2>4. /\ Len(s) \in Nat /\ DOMAIN s = 1..Len(s) /\ Len(w) \in Nat /\ DOMAIN w = 1..Len(w)
        /\ DOMAIN todo' = 1..Len(todo')
    BY <2>1, <2>3, IsSeqFacts
  <2>. QED  BY <2>2, <2>4 DEF Joined
<1>5. RemovalsCovered'
  <2>. SUFFICES ASSUME NEW k \in DOMAIN todo'
                PROVE  /\ todo'[k].fam \in Families
                       /\ todo'[k].do = "AddrDel" /\ todo'[k].fam = 4 =>
                            /\ k # 1
                            /\ todo'[k - 1].do = "AddrAdd" /\ todo'[k - 1].fam = 4
                            /\ todo'[k - 1].addr # todo'[k].addr
    BY DEF RemovalsCovered
  <2>1. CASE k \in 1..Len(s)
    <3>1. todo'[k] = s[k] /\ k \in DOMAIN s
      BY <2>1, <1>4
    <3>2. k > 1 => k - 1 \in DOMAIN s /\ todo'[k - 1] = s[k - 1]
      BY <2>1, <1>4
    <3>3. s[k].fam = 4 /\ (s[k].do = "AddrDel" =>
             k > 1 /\ s[k - 1].do = "AddrAdd" /\ s[k - 1].addr # s[k].addr)
      BY <3>1, <1>2
    <3>4. k > 1 => s[k - 1].fam = 4
      <4>1. \A i \in DOMAIN s : s[i].fam = 4
        BY <1>2
      <4>. QED  BY <4>1, <3>2
    <3>5. k > 1 => k # 1
      BY <2>1, <1>4
    <3>. QED  BY <3>1, <3>2, <3>3, <3>4, <3>5 DEF Families
  <2>2. CASE k \notin 1..Len(s)
    <3>1. k - Len(s) \in 1..Len(w) /\ k = Len(s) + (k - Len(s))
      BY <2>2, <1>4
    <3>2. todo'[k] = w[k - Len(s)]
      BY <3>1, <1>4
    <3>3. w[k - Len(s)].fam = 6
      BY <3>1, <1>3, <1>4
    <3>. QED  BY <3>2, <3>3 DEF Families
  <2>. QED  BY <2>1, <2>2
<1>. QED  BY <1>1, <1>4, <1>5 DEF AddrInv, NeverUnaddressed

(* A successful netlink call of replaceIPAddress preserves the invariant. *)
LEMMA callKeeps ==
  ASSUME AddrInv, callSucceeds
  PROVE  AddrInv'
<1>. DEFINE c == todo[1]
<1>1. /\ todo # <<>> /\ IsSeq(todo) /\ todo' = Tail(todo) /\ Head(todo) = c
      /\ IsSeq(todo') /\ Len(todo) \in Nat /\ Len(todo) >= 1
      /\ DOMAIN todo = 1..Len(todo) /\ DOMAIN todo' = 1..(Len(todo) - 1)
      /\ \A i \in 1..(Len(todo) - 1) : todo'[i] = todo[i + 1]
  BY TailFacts, IsSeqFacts DEF AddrInv, callSucceeds
<1>2. /\ Possible(c)
      /\ iface' = CASE c.do = "AddrAdd" -> [iface EXCEPT ![c.fam] = Append(@, c.addr)]
                    [] c.do = "AddrDel" -> [iface EXCEPT ![c.fam] =
                         Without(@, {c.addr} \cup Swept(c.fam, c.addr))]
                    [] OTHER -> iface
      /\ swept' = (swept \/ (c.do = "AddrDel" /\ Swept(c.fam, c.addr) # {}))
      /\ assigned' = assigned
  BY <1>1 DEF callSucceeds
<1>3. c.fam \in Families /\ DOMAIN iface = Families /\ \A f \in Families : IsSeq(iface[f])
  <2>1. 1 \in DOMAIN todo
    BY <1>1
  <2>. QED  BY <2>1 DEF AddrInv, RemovalsCovered
<1>4. ASSUME NEW f \in Families
      PROVE  IsSeq(Append(iface[f], c.addr)) /\ Range(iface[f]) \cup {c.addr} = Range(Append(iface[f], c.addr))
  <2>. DEFINE s == iface[f]  w == <<c.addr>>
  <2>0. IsSeq(s) /\ s \in Seq(Range(s) \cup {c.addr})
    BY <1>3, <1>4 DEF IsSeq
  <2>1. IsSeq(s) /\ Append(s, c.addr) = s \o w
    BY <2>0
  <2>2. IsSeq(w) /\ Range(w) = {c.addr}
    <3>1. IsSeq(w)
      BY Tuples
    <3>. QED  BY <3>1 DEF Range
  <2>. HIDE DEF s, w
  <2>3. IsSeq(s \o w) /\ Range(s \o w) = Range(s) \cup {c.addr}
    BY <2>1, <2>2, ConcatFacts DEF Joined
  <2>. QED  BY <2>1, <2>3 DEF s
<1>5. DOMAIN iface' = Families /\ \A f \in Families : IsSeq(iface'[f])
  <2>1. IsSeq(Without(iface[c.fam], {c.addr} \cup Swept(c.fam, c.addr)))
    BY <1>3, WithoutFacts
  <2>. QED  BY <2>1, <1>2, <1>3, <1>4
<1>6. CASE c.fam = 4 /\ c.do = "AddrDel"
  <2>1. iface'[4] = Without(iface[4], {c.addr} \cup Swept(4, c.addr))
    BY <1>2, <1>3, <1>6
  <2>2. ~swept' => \E b \in Range(iface'[4]) : b # c.addr
    <3>. SUFFICES ASSUME ~swept' PROVE \E b \in Range(iface'[4]) : b # c.addr
      OBVIOUS
    <3>1. ~swept /\ Swept(4, c.addr) = {}
      BY <1>2, <1>6
    <3>0. 1 \in DOMAIN todo
      BY <1>1
    <3>2. PICK b \in Range(iface[4]) : b # c.addr
      BY <3>0, <3>1, <1>6 DEF AddrInv, RemovalsCovered
    <3>3. Range(iface'[4]) = Range(iface[4]) \ {c.addr}
      <4>1. IsSeq(iface[4]) /\ {c.addr} \cup Swept(4, c.addr) = {c.addr}
        BY <3>1, <1>3 DEF Families
      <4>. QED  BY <4>1, <2>1, WithoutFacts
    <3>. QED  BY <3>2, <3>3
  <2>3. NeverUnaddressed'
    BY <2>2, <1>5, EmptyRange DEF NeverUnaddressed, Families
  <2>4. RemovalsCovered'
    <3>. SUFFICES ASSUME NEW k \in DOMAIN todo'
                  PROVE  /\ todo'[k].fam \in Families
                         /\ todo'[k].do = "AddrDel" /\ todo'[k].fam = 4 =>
                              /\ k # 1
                              /\ todo'[k - 1].do = "AddrAdd" /\ todo'[k - 1].fam = 4
                              /\ todo'[k - 1].addr # todo'[k].addr
      BY DEF RemovalsCovered
    <3>1. /\ k + 1 \in DOMAIN todo /\ k + 1 # 1 /\ todo'[k] = todo[k + 1]
          /\ k # 1 => todo'[k - 1] = todo[(k + 1) - 1]
          /\ (k = 1 => todo[(k + 1) - 1] = c)
      BY <1>1
    <3>2. /\ todo[k + 1].fam \in Families
          /\ todo[k + 1].do = "AddrDel" /\ todo[k + 1].fam = 4 =>
               /\ todo[(k + 1) - 1].do = "AddrAdd" /\ todo[(k + 1) - 1].fam = 4
               /\ todo[(k + 1) - 1].addr # todo[k + 1].addr
      BY <3>1 DEF AddrInv, RemovalsCovered
    <3>. QED  BY <3>1, <3>2, <1>6
  <2>. QED  BY <2>3, <2>4, <1>1, <1>2, <1>5 DEF AddrInv
<1>7. CASE ~(c.fam = 4 /\ c.do = "AddrDel")
  <2>1. /\ Range(iface[4]) \subseteq Range(iface'[4])
        /\ c.do = "AddrAdd" /\ c.fam = 4 => c.addr \in Range(iface'[4])
    BY <1>2, <1>3, <1>4, <1>7 DEF Families
  <2>2. ~swept' => ~swept
    BY <1>2
  <2>3. NeverUnaddressed'
    BY <2>1, <2>2, <1>3, <1>5, EmptyRange DEF AddrInv, NeverUnaddressed, Families
  <2>4. RemovalsCovered'
    <3>. SUFFICES ASSUME NEW k \in DOMAIN todo'
                  PROVE  /\ todo'[k].fam \in Families
                         /\ todo'[k].do = "AddrDel" /\ todo'[k].fam = 4 =>
                              IF k = 1 THEN \E b \in Range(iface'[4]) : b # todo'[k].addr
                              ELSE /\ todo'[k - 1].do = "AddrAdd" /\ todo'[k - 1].fam = 4
                                   /\ todo'[k - 1].addr # todo'[k].addr
      BY DEF RemovalsCovered
    <3>1. /\ k + 1 \in DOMAIN todo /\ k + 1 # 1 /\ todo'[k] = todo[k + 1]
          /\ k # 1 => todo'[k - 1] = todo[(k + 1) - 1]
          /\ (k = 1 => todo[(k + 1) - 1] = c)
      BY <1>1
    <3>2. /\ todo[k + 1].fam \in Families
          /\ todo[k + 1].do = "AddrDel" /\ todo[k + 1].fam = 4 =>
               /\ todo[(k + 1) - 1].do = "AddrAdd" /\ todo[(k + 1) - 1].fam = 4
               /\ todo[(k + 1) - 1].addr # todo[k + 1].addr
      BY <3>1 DEF AddrInv, RemovalsCovered
    <3>. QED  BY <3>1, <3>2, <2>1
  <2>. QED  BY <2>3, <2>4, <1>1, <1>2, <1>5 DEF AddrInv
<1>. QED  BY <1>6, <1>7

(* Every step preserves the invariant of the overlay address. *)
LEMMA AddrNextKeeps == AddrInv /\ [AddrNext]_addrVars => AddrInv'
<1>. SUFFICES ASSUME AddrInv, [AddrNext]_addrVars PROVE AddrInv'
  OBVIOUS
<1>1. CASE applySelfAssignment
  BY <1>1, adoptKeeps
<1>2. CASE callSucceeds
  BY <1>2, callKeeps
<1>3. CASE callFails
  <2>1. /\ todo' = <<>> /\ UNCHANGED <<assigned, iface>>
        /\ ~swept' => ~swept
    BY <1>3 DEF callFails
  <2>. QED  BY <2>1, Tuples DEF AddrInv, RemovalsCovered, NeverUnaddressed
<1>4. CASE agentRestarts
  BY <1>4, Tuples, FreshFacts DEF agentRestarts, AddrInv, RemovalsCovered, NeverUnaddressed
<1>5. ASSUME NEW m \in Assignments, controlPlaneAssigns(m) PROVE AddrInv'
  BY <1>5 DEF controlPlaneAssigns, AddrInv, RemovalsCovered, NeverUnaddressed
<1>6. CASE UNCHANGED addrVars
  BY <1>6 DEF addrVars, AddrInv, RemovalsCovered, NeverUnaddressed
<1>. QED  BY <1>1, <1>2, <1>3, <1>4, <1>5, <1>6 DEF AddrNext

(* An agent that is moved is never without an IPv4 address unless the       *)
(* kernel swept the new one away or a removal failed, whatever assignments  *)
(* there are and however often they change.                                 *)
THEOREM AlwaysAddressed == AddrSpec => []NeverUnaddressed
<1>1. AddrInit => AddrInv
  BY Tuples, FreshFacts DEF AddrInit, AddrInv, RemovalsCovered, NeverUnaddressed
<1>2. AddrInv => NeverUnaddressed
  BY DEF AddrInv
<1>. QED  BY <1>1, <1>2, AddrNextKeeps, PTL DEF AddrSpec

=============================================================================
