------------------------------ MODULE AgentPath ------------------------------
(***************************************************************************)
(* How an agent reaches one peer (cmd/agent: relay.go, sync.go and the     *)
(* parts of telemetry.go that drive them): the direct path, the fallback   *)
(* to a relay when it falls silent, the probes that look for a way back,   *)
(* and the damping of paths that keep failing.  The reporter keeps a map   *)
(* per quantity keyed by peer; this is the column of one peer.             *)
(*                                                                         *)
(* The reporter's loop and its signal goroutine take syncMu, so a sync and *)
(* a probe check do not overlap; WireGuard receives packets at any time    *)
(* and moves the endpoint to wherever they came from.                      *)
(*                                                                         *)
(* Time is a number of ticks.  A timestamp is kept as its age, an age that *)
(* has reached the largest value it is compared with stays there.          *)
(***************************************************************************)
EXTENDS Integers, Sequences, Functions

CONSTANTS
  Transport,          \* --relay-transport: "auto", "websocket" or "udp"
  DirectProbe,        \* --direct-probe
  CandLists,          \* candidate lists the control plane may send
  MaxEpoch,           \* bound on the punch epochs it sends
  StaleAfter,         \* directStaleAfter
  Dwell, FastDwell,   \* directProbeInterval, coordinatedProbeInterval
  Window,             \* coordinatedProbeWindow
  ProbationMin, ProbationTimeout,
  RetryAfter, MaxRetryAfter,      \* directRetryAfter and the cap of its back-off
  StableTenure,                   \* directStableTenure
  HoldDownBase, MaxHoldShift      \* flapHoldDownBase and the cap of its shift

ASSUME PathConstants ==
  /\ Transport \in {"auto", "websocket", "udp"}
  /\ DirectProbe \in BOOLEAN
  /\ \A l \in CandLists : l \in Seq(Range(l))
  /\ MaxEpoch \in Nat /\ StaleAfter \in Nat /\ Dwell \in Nat /\ FastDwell \in Nat
  /\ Window \in Nat \ {0} /\ ProbationMin \in Nat /\ ProbationTimeout \in Nat
  /\ RetryAfter \in Nat /\ MaxRetryAfter \in Nat /\ StableTenure \in Nat
  /\ HoldDownBase \in Nat \ {0} /\ MaxHoldShift \in Nat

VARIABLES
  t,    \* the reporter's maps at this peer
  dev,  \* the WireGuard device's view of the peer
  pc    \* how far syncOnce is: "idle", "send" or "check"

vars == <<t, dev, pc>>

Never == -1               \* a timestamp that is not set
NoProbe == [index |-> 0]

Cands == UNION {Range(l) : l \in CandLists}
Least(a, b) == IF a < b THEN a ELSE b

(* An endpoint is a candidate, the relay's, or unset. *)
Direct(ep) == ep \in Cands

Shift(n, k) == n * 2^k
directRetryInterval(failures) == Least(Shift(RetryAfter, Least(failures, 3)), MaxRetryAfter)
flapHoldDown(flaps) == IF flaps < 1 THEN 0 ELSE Shift(HoldDownBase, Least(flaps - 1, MaxHoldShift))

(* What the control plane says of a listed peer: candidates in order of     *)
(* preference, the first being the endpoint hint, and the punch epoch.      *)
Payload == [cands : CandLists, epoch : 0..MaxEpoch]
hint(m) == IF m.cands = <<>> THEN "none" ELSE m.cands[1]

-----------------------------------------------------------------------------
(* Flap damping *)

noteDirectStintEnded(s) ==
  IF s.since = Never THEN s
  ELSE IF s.since >= StableTenure THEN [s EXCEPT !.since = Never, !.flaps = 0]
  ELSE LET n == Least(s.flaps + 1, MaxHoldShift + 1)
       IN  [s EXCEPT !.since = Never, !.flaps = n, !.hold = flapHoldDown(n)]

-----------------------------------------------------------------------------
(* Direct probes *)

NewProbe(m, fast) ==
  [age |-> 0, shook |-> FALSE, confirmed |-> Never, proved |-> FALSE,
   cands |-> m.cands, index |-> 1, interval |-> IF fast THEN FastDwell ELSE Dwell,
   left |-> IF fast THEN Window ELSE Never]

Due(s) == s.relayedAt >= directRetryInterval(s.failures)

(* Mutant: a coordinated punch ignores the hold-down. *)
MayProbeInHoldDown(s, fast) == fast \/ (s.hold = 0 /\ s.probe = NoProbe /\ Due(s))

(* Mutant: without the control plane's epochs a relayed peer stays put. *)
MayProbeCoordinated(s, fast) == s.hold = 0 /\ fast

(* Hold-down outranks everything; a coordinated punch outranks a running    *)
(* probe and the back-off.                                                  *)
MayProbe(s, fast) == s.hold = 0 /\ (fast \/ (s.probe = NoProbe /\ Due(s)))

(* The state and endpoint after the payload's candidates were looked at;    *)
(* ok is whether the device accepts the endpoint.  A probe without a relay  *)
(* to return to is not started.                                             *)
maybeRetryDirect(s, ep, m, ok) ==
  LET digest == Range(m.cands)
      fast == m.epoch > s.epoch
      s1 == [s EXCEPT !.digest = digest,
                      !.failures = IF digest # s.digest THEN 0 ELSE @,
                      !.epoch = IF fast THEN m.epoch ELSE @]
      starts == MayProbe(s1, fast) /\ s1.session # "none" /\ ok
  IN  IF ~DirectProbe \/ m.cands = <<>> \/ ~s.relayed THEN [s |-> s, ep |-> ep]
      ELSE IF starts THEN [s |-> [s1 EXCEPT !.probe = NewProbe(m, fast)], ep |-> m.cands[1]]
      ELSE [s |-> s1, ep |-> ep]

promoteDirect(s) ==
  [s EXCEPT !.probe = NoProbe, !.relayed = FALSE, !.relayedAt = 0, !.session = "none",
            !.alive = FALSE, !.failures = 0, !.digest = {}, !.quicUnavailable = FALSE,
            !.silent = 0, !.since = 0, !.hold = 0]

restoreRelayAfterProbe(s) ==
  [s EXCEPT !.probe = NoProbe, !.relayedAt = 0, !.failures = Least(@ + 1, 3)]

(* Mutant: a coordinated probe forgets its deadline. *)
canRotateForever(p) == p.left # Never \/ p.index < Len(p.cands)

canRotate(p) ==
  IF p.left = Never THEN p.index < Len(p.cands) ELSE p.left > 0

NextIndex(p) == IF p.index < Len(p.cands) THEN p.index + 1 ELSE 1

(* One look at the probe.  What the device refuses leaves the probe as it   *)
(* was, to be tried again at the next look.                                 *)
checkDirectProbe(s, ep, ok) ==
  LET p == s.probe
      nothing == [s |-> s, ep |-> ep]
      restored == IF ok THEN [s |-> restoreRelayAfterProbe(s), ep |-> "relay"] ELSE nothing
  IN
  IF p = NoProbe THEN nothing
  ELSE IF p.confirmed = Never /\ p.shook /\ Direct(ep)
    THEN [s |-> [s EXCEPT !.probe.confirmed = 0], ep |-> ep]
  ELSE IF p.confirmed # Never
    THEN IF Direct(ep) /\ p.proved THEN [s |-> promoteDirect(s), ep |-> ep]
         ELSE IF p.confirmed < ProbationTimeout THEN nothing ELSE restored
  ELSE IF p.age < p.interval THEN nothing
  ELSE IF ~canRotate(p) THEN restored
  ELSE IF ~ok THEN nothing
  ELSE [s |-> [s EXCEPT !.probe.index = NextIndex(p), !.probe.age = 0, !.probe.shook = FALSE],
        ep |-> p.cands[NextIndex(p)]]

-----------------------------------------------------------------------------
(* Falling back *)

(* Mutant: a probe survives the relay it would return to. *)
retireKeepingProbe(s) ==
  IF s.session \in {"quic", "ws"} /\ ~s.alive
    THEN [s EXCEPT !.relayed = FALSE, !.relayedAt = 0, !.session = "none",
                   !.quicUnavailable = @ \/ s.session = "quic"]
    ELSE s

(* Proxies whose pumps have stopped are retired, and with them everything   *)
(* that stood on their session.                                             *)
retireDeadProxy(s) ==
  IF s.session \in {"quic", "ws"} /\ ~s.alive
    THEN [s EXCEPT !.relayed = FALSE, !.relayedAt = 0, !.session = "none", !.probe = NoProbe,
                   !.quicUnavailable = @ \/ s.session = "quic"]
    ELSE s

(* The session switchToRelay opens, given that a QUIC relay is reachable or *)
(* not and how the transport below it answers: "ok", "failed" (try again at *)
(* the next check) or "absent" (the control plane has none).                *)
relaySession(s, quic, answer) ==
  CASE Transport = "auto" /\ ~s.quicUnavailable /\ quic -> "quic"
    [] Transport \in {"auto", "websocket"} /\ answer = "ok" -> "ws"
    [] Transport = "udp" /\ answer = "ok" -> "udp"
    [] OTHER -> answer

switchToRelay(s, quic, answer) ==
  LET session == relaySession(s, quic, answer)
      tried == [s EXCEPT !.quicUnavailable = @ \/ (Transport = "auto" /\ ~quic)]
  IN  CASE session = "failed" -> tried
        [] session = "absent" -> [tried EXCEPT !.relayBroken = TRUE]
        [] OTHER -> noteDirectStintEnded([tried EXCEPT !.session = session, !.alive = TRUE,
                                                       !.relayed = TRUE, !.relayedAt = 0])

-----------------------------------------------------------------------------
(* The reporter *)

Proved(p) == [p EXCEPT !.proved = @ \/ p.confirmed > ProbationMin]

(* Received bytes counted since the last look prove a confirmed probe when  *)
(* the look comes late enough after the confirmation.                       *)
collectLinkCounters ==
  /\ pc = "idle"
  /\ t' = IF ~dev.grew THEN t
          ELSE [t EXCEPT !.silent = IF @ = Never THEN @ ELSE 0,
                         !.probe = IF @ = NoProbe \/ @.confirmed = Never THEN @
                                   ELSE Proved(t.probe)]
  /\ dev' = [dev EXCEPT !.grew = FALSE]
  /\ pc' = "send"

(* The device cannot be read: the counters, or the path checks, are left    *)
(* for the next round.                                                      *)
DeviceUnread ==
  /\ pc \in {"idle", "check"}
  /\ pc' = IF pc = "idle" THEN "send" ELSE "idle"
  /\ UNCHANGED <<t, dev>>

Absent == [here |-> FALSE, ep |-> "none", shaken |-> Never, grew |-> FALSE]

(* A peer that is not on the device is added; one that has never completed  *)
(* a handshake gets the hint again when its endpoint differs.               *)
syncPeers(d, m) ==
  IF ~d.here THEN [Absent EXCEPT !.here = TRUE, !.ep = hint(m)]
  ELSE [d EXCEPT !.ep = IF d.shaken = Never /\ hint(m) # "none" THEN hint(m) ELSE @]

(* The answer lists the peer.  probes and applied: whether the device takes *)
(* the probe's endpoint and the peer list.                                  *)
applySync(m, probes, applied) ==
  LET r == maybeRetryDirect(t, dev.ep, m, probes)
      d == [dev EXCEPT !.ep = IF dev.here THEN r.ep ELSE @]
  IN
  /\ pc = "send"
  /\ t' = r.s
  /\ dev' = IF applied THEN syncPeers(d, m) ELSE d
  /\ pc' = "check"

(* The answer does not list it: the device forgets it, the reporter's maps  *)
(* do not.                                                                  *)
applySyncRemoving ==
  /\ pc = "send"
  /\ dev' = Absent
  /\ pc' = "check"
  /\ UNCHANGED t

(* No answer, or one that cannot be applied. *)
ReportFails ==
  /\ pc = "send"
  /\ pc' = "check"
  /\ UNCHANGED <<t, dev>>

(* Since the peer was first seen or last heard, or its last handshake. *)
directSilentFor(s) == IF dev.shaken = Never THEN s.silent ELSE Least(s.silent, dev.shaken)

(* Mutant: only a path that once worked is given up. *)
GoneSilentOnceUp(s) ==
  dev.shaken # Never /\ ~s.relayed /\ ~s.relayBroken /\ directSilentFor(s) >= StaleAfter

GoneSilent(s) == ~s.relayed /\ ~s.relayBroken /\ directSilentFor(s) >= StaleAfter

(* The end of syncOnce: retire, look at the probe, fall back. *)
checkHandshakes(quic, answer, ok) ==
  LET s0 == retireDeadProxy(t)
      r == IF dev.here THEN checkDirectProbe(s0, dev.ep, ok) ELSE [s |-> s0, ep |-> dev.ep]
      s1 == [r.s EXCEPT !.silent = IF dev.here /\ @ = Never THEN 0 ELSE @]
      s2 == IF dev.here /\ GoneSilent(s1) THEN switchToRelay(s1, quic, answer) ELSE s1
  IN
  /\ pc = "check"
  /\ t' = s2
  /\ dev' = [dev EXCEPT !.ep = IF s2.relayed /\ ~s1.relayed THEN "relay" ELSE r.ep]
  /\ pc' = "idle"

(* The status tick between reports. *)
checkProbes(ok) ==
  LET r == checkDirectProbe(t, dev.ep, ok) IN
  /\ pc = "idle"
  /\ dev.here /\ t.probe # NoProbe
  /\ t' = r.s
  /\ dev' = [dev EXCEPT !.ep = r.ep]
  /\ UNCHANGED pc

-----------------------------------------------------------------------------
(* Around the reporter *)

Shaken(p, handshake) == [p EXCEPT !.shook = @ \/ handshake]

(* WireGuard accepts a packet: from a candidate address, or through the     *)
(* relay session.  It answers to where the packet came from from now on.    *)
Receive(from, handshake) ==
  /\ dev.here
  /\ from = "relay" => t.session = "udp" \/ (t.session # "none" /\ t.alive)
  /\ handshake \/ dev.shaken # Never
  /\ dev' = [dev EXCEPT !.ep = from, !.grew = TRUE, !.shaken = IF handshake THEN 0 ELSE @]
  /\ t' = [t EXCEPT !.probe = IF @ = NoProbe THEN @ ELSE Shaken(@, handshake)]
  /\ UNCHANGED pc

(* The relay drops a proxied session. *)
ProxyDies ==
  /\ t.session \in {"quic", "ws"} /\ t.alive
  /\ t' = [t EXCEPT !.alive = FALSE]
  /\ UNCHANGED <<dev, pc>>

Older(age, limit) == IF age = Never THEN Never ELSE Least(age + 1, limit)

OlderProbe(p) ==
  [p EXCEPT !.age = Older(@, p.interval), !.confirmed = Older(@, ProbationTimeout),
            !.left = IF @ \in {Never, 0} THEN @ ELSE @ - 1]

Tick ==
  /\ t' = [t EXCEPT
       !.silent = Older(@, StaleAfter),
       !.relayedAt = IF t.relayed THEN Older(@, MaxRetryAfter) ELSE @,
       !.since = Older(@, StableTenure),
       !.hold = IF @ > 0 THEN @ - 1 ELSE 0,
       !.probe = IF @ = NoProbe THEN @ ELSE OlderProbe(@)]
  /\ dev' = [dev EXCEPT !.shaken = Older(@, StaleAfter)]
  /\ UNCHANGED pc

Init ==
  /\ t = [silent |-> Never, relayed |-> FALSE, relayedAt |-> 0, session |-> "none",
          alive |-> FALSE, probe |-> NoProbe, epoch |-> 0, failures |-> 0, digest |-> {},
          since |-> Never, flaps |-> 0, hold |-> 0, quicUnavailable |-> FALSE,
          relayBroken |-> FALSE]
  /\ dev = Absent
  /\ pc = "idle"

Answers == {"ok", "failed", "absent"}

Next ==
  \/ collectLinkCounters
  \/ DeviceUnread
  \/ \E m \in Payload, probes, applied \in BOOLEAN : applySync(m, probes, applied)
  \/ applySyncRemoving
  \/ ReportFails
  \/ \E quic, ok \in BOOLEAN, answer \in Answers : checkHandshakes(quic, answer, ok)
  \/ \E ok \in BOOLEAN : checkProbes(ok)
  \/ \E from \in Cands \cup {"relay"}, handshake \in BOOLEAN : Receive(from, handshake)
  \/ ProxyDies
  \/ Tick

Spec == Init /\ [][Next]_vars

(* The report ticker and the status ticker never stop; a device that cannot *)
(* be read or refuses an endpoint, a control plane or a relay that does not *)
(* answer do not stay away for ever.                                        *)
Fairness ==
  /\ WF_vars(Tick)
  /\ SF_vars(collectLinkCounters)
  /\ WF_vars(ReportFails)
  /\ SF_vars(\E m \in Payload : applySync(m, TRUE, TRUE))
  /\ SF_vars(\E quic \in BOOLEAN : checkHandshakes(quic, "ok", TRUE))
  /\ SF_vars(checkProbes(TRUE))

FairSpec == Spec /\ Fairness

-----------------------------------------------------------------------------
(* Properties *)

(* A probe always has a relay to go back to: "keep the relay session        *)
(* available" (directProbationMin).  A peer counts as relayed exactly while *)
(* it has a session, and only then; and a probe's index stays inside its    *)
(* candidate list however often the rotation wraps (checkDirectProbe).      *)
RelayKept ==
  /\ t.relayed <=> t.session # "none"
  /\ t.probe # NoProbe => t.relayed /\ t.probe.index <= Len(t.probe.cands)

(* "During hold-down no direct probe runs at all" (flapHoldDownBase).       *)
HoldDownHolds == t.hold > 0 => t.probe = NoProbe

(* Applying a peer list never moves a relayed peer off its relay unless it  *)
(* starts a probe: "existing peers' endpoints are NEVER touched" and        *)
(* "without a handshake, roaming cannot have moved the endpoint, so the     *)
(* kernel's value IS the last applied hint" (syncPeers).                    *)
SyncLeavesRelay ==
  [][pc = "send" /\ dev.here /\ dev'.here /\ dev.ep = "relay" /\ t'.probe = NoProbe
       => dev'.ep = "relay"]_vars

(* A direct peer that has gone silent gets a relay, unless it is heard      *)
(* again, removed, or the control plane has no relay.                       *)
SilentPeerRelayed ==
  (dev.here /\ ~t.relayed /\ directSilentFor(t) = StaleAfter)
    ~> (t.relayed \/ t.relayBroken \/ ~dev.here \/ directSilentFor(t) # StaleAfter)

(* A probe ends, on the direct path or back on the relay. *)
ProbeEnds == (t.probe # NoProbe) ~> (t.probe = NoProbe \/ ~dev.here)

(* A relayed peer whose session stays up is probed again and again, however *)
(* often it flapped and its probes failed.  (A session that keeps dying is  *)
(* replaced in the same check, which restarts the retry clock.)             *)
RelayedPeerRetried == (t.relayed /\ t.alive) ~> (t.probe # NoProbe \/ ~t.relayed \/ ~t.alive)

=============================================================================
