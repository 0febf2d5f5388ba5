-------------------------------- MODULE Punch --------------------------------
(***************************************************************************)
(* Coordinated hole punching of one pair of agents: the control plane      *)
(* counts punch epochs per pair (cmd/server/report.go) and hands them out  *)
(* in its answers to the reports of both sides; an agent on a relay that   *)
(* meets a new epoch starts a fast probe (cmd/agent/relay.go,              *)
(* maybeRetryDirect).  AgentPath has the agent in detail; here it is       *)
(*   "down"     no relay, and the direct path carries nothing,             *)
(*   "up"       no relay, and the direct path works,                       *)
(*   "relay", "probing",                                                   *)
(* of which the first two are both reported as "direct" (pathState).       *)
(*                                                                         *)
(* A handler runs to its end even when the agent has stopped waiting, and  *)
(* the handlers of the two sides interleave.  The sync-now signal only     *)
(* makes the other side report early, which it may do here at any time.    *)
(***************************************************************************)
EXTENDS Integers, FiniteSets

CONSTANTS
  Agents,          \* the pair
  HardNAT,         \* those behind an endpoint-dependent NAT
  maxPunchAttempts,
  punchCooldown,
  OnlineFor,       \* how long after its last report a peer counts as online
  ServerRestarts,  \* bound on restarts of the control plane
  MaxEpoch         \* bound on the epochs issued between two of them

ASSUME PairAssumption ==
  /\ Cardinality(Agents) = 2 /\ HardNAT \subseteq Agents
  /\ maxPunchAttempts \in Nat \ {0} /\ punchCooldown \in Nat /\ OnlineFor \in Nat
  /\ ServerRestarts \in Nat /\ MaxEpoch \in Nat

VARIABLES
  pair,      \* the server's punchEpoch of the pair
  age,       \* age[x]: since x's last report was stored, or Never
  handler,   \* handler[x]: x's report as the server works on it
  path,      \* path[x]
  seen,      \* seen[x]: x's lastPunchEpoch
  waiting,   \* waiting[x]: x is inside send, holding syncMu
  restarts   \* restarts of the server so far

vars == <<pair, age, handler, path, seen, waiting, restarts>>

Never == -1
NoEpochs == [epoch |-> 0, attempts |-> 0, since |-> Never]
Idle == [at |-> "idle", state |-> "direct", epoch |-> 0]

Remote(x) == CHOOSE y \in Agents : y # x
Least(a, b) == IF a < b THEN a ELSE b
MaxCooldown == punchCooldown * 4

pathState(x) == IF path[x] \in {"up", "down"} THEN "direct" ELSE path[x]

-----------------------------------------------------------------------------
(* The control plane *)

shouldBumpPunchEpoch(x, candidates) ==
  /\ handler[x].state = "relay"
  /\ Agents # HardNAT
  /\ age[Remote(x)] \in 0..OnlineFor
  /\ candidates

Cooldown(attempts) == punchCooldown * 2^Least(attempts, 2)

MayBump ==
  /\ pair.attempts < maxPunchAttempts
  /\ pair.since = Never \/ pair.since >= Cooldown(pair.attempts)

bumpPunchEpoch ==
  pair' = [epoch |-> pair.epoch + 1, attempts |-> pair.attempts + 1, since |-> 0]

(* Mutant: a pair that is direct is forgotten, epoch and all. *)
resetForgettingEpoch == pair' = NoEpochs

resetPunchAttempts ==
  pair' = IF pair.attempts = 0 THEN pair ELSE [pair EXCEPT !.attempts = 0, !.since = Never]

(* handleReport, first part: the report is stored (ApplyReport). *)
ApplyReport(x) ==
  /\ ~waiting[x] /\ handler[x].at = "idle"
  /\ waiting' = [waiting EXCEPT ![x] = TRUE]
  /\ handler' = [handler EXCEPT ![x] = [at |-> "coordinate", state |-> pathState(x), epoch |-> 0]]
  /\ age' = [age EXCEPT ![x] = 0]
  /\ UNCHANGED <<pair, path, seen, restarts>>

(* Second part, in which the pair's epoch may move.  candidates: whether    *)
(* both sides have some.                                                    *)
coordinatePunches(x, candidates) ==
  /\ handler[x].at = "coordinate"
  /\ \/ /\ handler[x].state = "direct"
        /\ resetPunchAttempts
     \/ /\ shouldBumpPunchEpoch(x, candidates) /\ MayBump
        /\ pair.epoch < MaxEpoch
        /\ bumpPunchEpoch
     \/ /\ handler[x].state # "direct"
        /\ ~(shouldBumpPunchEpoch(x, candidates) /\ MayBump)
        /\ UNCHANGED pair
  /\ handler' = [handler EXCEPT ![x].at = "build"]
  /\ UNCHANGED <<age, path, seen, waiting, restarts>>

(* Third part: the answer carries the epoch of this moment. *)
buildPeerEntries(x) ==
  /\ handler[x].at = "build"
  /\ handler' = [handler EXCEPT ![x].at = "answered", ![x].epoch = pair.epoch]
  /\ UNCHANGED <<pair, age, path, seen, waiting, restarts>>

(* The process restarts: the epochs were only in memory, and every request  *)
(* it worked on is lost.                                                    *)
ServerRestart ==
  /\ restarts < ServerRestarts
  /\ restarts' = restarts + 1
  /\ pair' = NoEpochs
  /\ handler' = [x \in Agents |-> Idle]
  /\ UNCHANGED <<age, path, seen, waiting>>

-----------------------------------------------------------------------------
(* The agents *)

(* Mutant: an agent that missed an epoch waits for the one after its own.   *)
ConsecutiveEpoch(x, epoch) == epoch = seen[x] + 1

NewEpoch(x, epoch) == epoch > seen[x]

(* The answer arrives in time.  A relayed agent takes note of a new epoch   *)
(* and probes, unless it is held down (probes = FALSE).                     *)
maybeRetryDirect(x, probes) ==
  LET fast == path[x] \in {"relay", "probing"} /\ NewEpoch(x, handler[x].epoch) IN
  /\ waiting[x] /\ handler[x].at = "answered"
  /\ waiting' = [waiting EXCEPT ![x] = FALSE]
  /\ handler' = [handler EXCEPT ![x] = Idle]
  /\ seen' = [seen EXCEPT ![x] = IF fast THEN handler[x].epoch ELSE @]
  /\ path' = [path EXCEPT ![x] = IF fast /\ probes THEN "probing" ELSE @]
  /\ UNCHANGED <<pair, age, restarts>>

(* The agent stops waiting (a timeout, a lost connection), or the answer    *)
(* finds nobody waiting for it.                                             *)
GiveUp(x) ==
  /\ waiting[x]
  /\ waiting' = [waiting EXCEPT ![x] = FALSE]
  /\ UNCHANGED <<pair, age, handler, path, seen, restarts>>

AnswerLost(x) ==
  /\ ~waiting[x] /\ handler[x].at = "answered"
  /\ handler' = [handler EXCEPT ![x] = Idle]
  /\ UNCHANGED <<pair, age, path, seen, waiting, restarts>>

(* What the path checks do between two reports: fall back, retry on their   *)
(* own, promote or restore, lose the relay session; and what the network    *)
(* does to a path without a relay.                                          *)
PathSteps ==
  {<<"down", "relay">>, <<"down", "up">>, <<"up", "down">>, <<"relay", "probing">>,
   <<"probing", "relay">>, <<"probing", "up">>, <<"relay", "down">>, <<"probing", "down">>}

PathMoves(x, to) ==
  /\ ~waiting[x]
  /\ <<path[x], to>> \in PathSteps
  /\ path' = [path EXCEPT ![x] = to]
  /\ UNCHANGED <<pair, age, handler, seen, waiting, restarts>>

AgentRestart(x) ==
  /\ path' = [path EXCEPT ![x] = "down"]
  /\ seen' = [seen EXCEPT ![x] = 0]
  /\ waiting' = [waiting EXCEPT ![x] = FALSE]
  /\ UNCHANGED <<pair, age, handler, restarts>>

Older(a, limit) == IF a = Never THEN Never ELSE Least(a + 1, limit)

Tick ==
  /\ pair' = [pair EXCEPT !.since = Older(@, MaxCooldown)]
  /\ age' = [x \in Agents |-> Older(age[x], OnlineFor + 1)]
  /\ UNCHANGED <<handler, path, seen, waiting, restarts>>

Init ==
  /\ pair = NoEpochs
  /\ age = [x \in Agents |-> Never]
  /\ handler = [x \in Agents |-> Idle]
  /\ path = [x \in Agents |-> "down"]
  /\ seen = [x \in Agents |-> 0]
  /\ waiting = [x \in Agents |-> FALSE]
  /\ restarts = 0

AgentNext(x) ==
  \/ ApplyReport(x)
  \/ \E candidates \in BOOLEAN : coordinatePunches(x, candidates)
  \/ buildPeerEntries(x)
  \/ \E probes \in BOOLEAN : maybeRetryDirect(x, probes)
  \/ GiveUp(x)
  \/ AnswerLost(x)
  \/ \E to \in {"up", "down", "relay", "probing"} : PathMoves(x, to)
  \/ AgentRestart(x)

Next == ServerRestart \/ Tick \/ \E x \in Agents : AgentNext(x)

Spec == Init /\ [][Next]_vars

(* Agents keep reporting, handlers finish, and again and again one of them  *)
(* finishes before its agent has given up.  Nothing is assumed of the       *)
(* paths.                                                                   *)
Fairness ==
  \A x \in Agents :
    /\ SF_vars(ApplyReport(x))
    /\ WF_vars(\E candidates \in BOOLEAN : coordinatePunches(x, candidates))
    /\ SF_vars(waiting[x] /\ \E candidates \in BOOLEAN : coordinatePunches(x, candidates))
    /\ WF_vars(buildPeerEntries(x))
    /\ SF_vars(waiting[x] /\ buildPeerEntries(x))
    /\ SF_vars(maybeRetryDirect(x, TRUE))
    /\ WF_vars(AnswerLost(x))

FairSpec == Spec /\ Fairness

-----------------------------------------------------------------------------
(* Properties *)

(* An epoch the control plane has issued reaches every side that stays on   *)
(* its relay, whatever answers were lost in between.                        *)
EpochReachesBoth ==
  \A x \in Agents :
    (pair.epoch > seen[x]) ~> (pair.epoch <= seen[x] \/ path[x] \in {"up", "down"})

(* Until the control plane restarts, an epoch it issues is news to both     *)
(* sides, whatever resets and late answers came before: "the epoch counter  *)
(* stays monotonic (agents compare it against a high-water mark)"           *)
(* (resetPunchAttempts).  And however the handlers and resets interleave,   *)
(* no more attempts are counted than the cap (bumpPunchEpoch).              *)
BumpIsNews ==
  [][pair'.epoch > pair.epoch =>
       /\ restarts = 0 => \A x \in Agents : pair'.epoch > seen[x]
       /\ pair'.attempts <= maxPunchAttempts]_vars

=============================================================================
