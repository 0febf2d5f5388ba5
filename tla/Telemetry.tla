----------------------------- MODULE Telemetry ------------------------------
(***************************************************************************)
(* What an agent measures and how it gets into the database: traffic        *)
(* counters of a link and of a flow, the state of a path and the lines of a *)
(* reverse proxy's log, sent in one report per tick (cmd/agent/telemetry.go,*)
(* proxytail.go) and stored in one transaction (store.ApplyReport).  One    *)
(* remote peer, one flow to it.  A report that the agent has given up may   *)
(* still be stored later.                                                   *)
(***************************************************************************)
EXTENDS Integers, Sequences

CONSTANTS
  MaxStimuli,         \* bound on bytes, path changes and proxy requests
  MaxFaults,          \* bound on resets, rotations, removals, restarts and
                      \* reports that are stored without the agent knowing
  MaxFlight,          \* bound on reports on their way
  proxyTailMaxQueue,  \* proxy events held for the next report
  proxyDrainPerTick   \* and sent with one

ASSUME QueueAssumption == proxyTailMaxQueue \in Nat /\ proxyDrainPerTick \in Nat

Meters == {"link", "flow"}
Gone == -1
PathKinds == {"direct", "probing", "ws-relay", "udp-relay"}
NoPath == "none"

VARIABLES
  kernel,    \* per meter: the kernel's counter, Gone when it has no entry
  prev,      \* prevLink, prevFlow: the counter at the last collect, or Gone
  pending,   \* pendingCounters, pendingFlows
  file,      \* the proxy's log: the number before its first line, and its length
  offset,    \* of the tailer, Gone when not positioned
  queue,     \* proxyTailer.queue
  way,       \* the path as the agent sees it
  flight,    \* reports on their way, in the order they were sent
  awaiting,  \* what the agent waits for: nothing, its last report, its answer
  totals,    \* link_stats and flows: per meter, the sum
  row,       \* the remote peer has a row in peers
  lastPath,  \* peer_paths, NoPath when there is no row
  events,    \* number of connection_events
  proxyLog,  \* proxy_events
  past       \* history: see HistoryInit

agentSide == <<prev, pending, offset, queue, awaiting>>
world == <<kernel, file, way>>
database == <<totals, row, lastPath, events, proxyLog>>
reportVars == <<agentSide, world, flight, database, past>>

(* Bytes sent per meter, path changes and proxy requests so far; faults so  *)
(* far; whether a counter lost bytes before they were collected; whether    *)
(* bytes may have been stored twice; whether a report was stored after a    *)
(* younger one.                                                             *)
HistoryInit ==
  [bytes |-> [m \in Meters |-> 0], moves |-> 0, requests |-> 0, faults |-> 0,
   dropped |-> FALSE, repeated |-> FALSE, overtaken |-> FALSE]

ReportingInit ==
  /\ kernel = [link |-> 0, flow |-> Gone]
  /\ prev = [m \in Meters |-> Gone]
  /\ pending = [m \in Meters |-> 0]
  /\ file = [first |-> 0, length |-> 0]
  /\ offset = Gone
  /\ queue = <<>>
  /\ way = "direct"
  /\ flight = <<>>
  /\ awaiting = "nothing"
  /\ totals = [m \in Meters |-> 0]
  /\ row = TRUE
  /\ lastPath = NoPath
  /\ events = 0
  /\ proxyLog = <<>>
  /\ past = HistoryInit

-----------------------------------------------------------------------------
(* The world *)

Stimuli == past.bytes["link"] + past.bytes["flow"] + past.moves + past.requests

Traffic(m) ==
  /\ Stimuli < MaxStimuli
  /\ kernel' = [kernel EXCEPT ![m] = IF @ = Gone THEN 1 ELSE @ + 1]
  /\ past' = [past EXCEPT !.bytes[m] = @ + 1]
  /\ UNCHANGED <<agentSide, file, way, flight, database>>

WayChanges(to) ==
  /\ Stimuli < MaxStimuli /\ to # way
  /\ way' = to
  /\ past' = [past EXCEPT !.moves = @ + 1]
  /\ UNCHANGED <<agentSide, kernel, file, flight, database>>

(* A line in the proxy's log, numbered. *)
ProxyRequest ==
  /\ Stimuli < MaxStimuli
  /\ file' = [file EXCEPT !.length = @ + 1]
  /\ past' = [past EXCEPT !.requests = @ + 1]
  /\ UNCHANGED <<agentSide, kernel, way, flight, database>>

Fault == past.faults < MaxFaults

(* The peer is set up anew, or the tuple recycled; a flow may also end. *)
CounterResets(m, to) ==
  /\ Fault /\ kernel[m] > 0
  /\ to = 0 \/ (to = Gone /\ m = "flow")
  /\ kernel' = [kernel EXCEPT ![m] = to]
  /\ past' = [past EXCEPT !.faults = @ + 1, !.dropped = TRUE]
  /\ UNCHANGED <<agentSide, file, way, flight, database>>

(* The log is truncated in place. *)
LogRotates ==
  /\ Fault /\ file.length > 0
  /\ file' = [first |-> past.requests, length |-> 0]
  /\ past' = [past EXCEPT !.faults = @ + 1]
  /\ UNCHANGED <<agentSide, kernel, way, flight, database>>

(* RemovePeer and the rows that go with it; the same key may enroll again. *)
RemoteRemoved ==
  /\ Fault /\ row
  /\ row' = FALSE
  /\ totals' = [totals EXCEPT !["link"] = 0] /\ lastPath' = NoPath /\ events' = 0
  /\ past' = [past EXCEPT !.faults = @ + 1, !.dropped = TRUE]
  /\ UNCHANGED <<agentSide, world, flight, proxyLog>>

RemoteEnrolls ==
  /\ ~row /\ row' = TRUE
  /\ UNCHANGED <<agentSide, world, flight, totals, lastPath, events, proxyLog, past>>

GivenUp == [i \in DOMAIN flight |-> [flight[i] EXCEPT !.awaited = FALSE]]

(* The interface is created anew; conntrack still has its entries. *)
ReporterRestarts ==
  /\ Fault
  /\ prev' = [m \in Meters |-> Gone] /\ pending' = [m \in Meters |-> 0]
  /\ offset' = Gone /\ queue' = <<>> /\ awaiting' = "nothing"
  /\ kernel' = [kernel EXCEPT !["link"] = 0]
  /\ flight' = GivenUp
  /\ past' = [past EXCEPT !.faults = @ + 1, !.dropped = TRUE, !.repeated = TRUE]
  /\ UNCHANGED <<file, way, database>>

-----------------------------------------------------------------------------
(* The agent *)

(* A counter that is new or went down counts in full. *)
counterDelta(cur, was) ==
  IF cur = Gone THEN 0 ELSE IF was = Gone \/ cur < was THEN cur ELSE cur - was

(* The snapshot of a flow that is gone is dropped. *)
collect(m) == pending[m] + counterDelta(kernel[m], prev[m])

(* The tailer polls: it starts at the end, starts over when the log is      *)
(* shorter than it was, and reads the lines after its offset; the queue     *)
(* drops its oldest.                                                        *)
ingest(q, lines) ==
  LET all == q \o lines IN
  IF Len(all) > proxyTailMaxQueue THEN SubSeq(all, Len(all) - proxyTailMaxQueue + 1, Len(all)) ELSE all

tailProxyLog ==
  LET from == IF file.length < offset THEN 0 ELSE offset IN
  /\ offset # file.length
  /\ offset' = file.length
  /\ queue' = IF offset = Gone THEN queue
              ELSE ingest(queue, [i \in 1..(file.length - from) |-> file.first + from + i])
  /\ UNCHANGED <<prev, pending, awaiting, world, flight, database, past>>

Drained == IF Len(queue) < proxyDrainPerTick THEN Len(queue) ELSE proxyDrainPerTick

drain == SubSeq(queue, Drained + 1, Len(queue))

(* One report at a time (syncMu): collect, then send. *)
sendReport ==
  /\ awaiting = "nothing" /\ Len(flight) < MaxFlight
  /\ pending' = [m \in Meters |-> collect(m)]
  /\ prev' = kernel
  /\ queue' = drain
  /\ flight' = Append(flight, [counted |-> pending', path |-> way, late |-> FALSE,
                               awaited |-> TRUE, proxy |-> SubSeq(queue, 1, Drained)])
  /\ awaiting' = "report"
  /\ UNCHANGED <<offset, world, database, past>>

(* No answer, or one that is an error: the counters are kept. *)
postFailed ==
  /\ awaiting = "report"
  /\ awaiting' = "nothing"
  /\ flight' = GivenUp
  /\ UNCHANGED <<prev, pending, offset, queue, world, database, past>>

(* The same, but the report has been stored: only its answer is lost, or a  *)
(* later step of the handler failed.                                        *)
answerFailed ==
  /\ Fault /\ awaiting = "answer"
  /\ awaiting' = "nothing"
  /\ past' = [past EXCEPT !.faults = @ + 1, !.repeated = TRUE]
  /\ UNCHANGED <<prev, pending, offset, queue, world, flight, database>>

(* Mutant: pending counters are sent again. *)
postedKept ==
  /\ awaiting = "answer"
  /\ awaiting' = "nothing"
  /\ UNCHANGED <<prev, pending, offset, queue, world, flight, database, past>>

posted ==
  /\ awaiting = "answer"
  /\ awaiting' = "nothing"
  /\ pending' = [m \in Meters |-> 0]
  /\ UNCHANGED <<prev, offset, queue, world, flight, database, past>>

-----------------------------------------------------------------------------
(* The control plane *)

Relays == {"ws-relay", "udp-relay"}

(* Mutant: every reported state is an event. *)
connectionEventAlways(was, next) == next \in {"direct"} \cup Relays

connectionEventKind(was, next) ==
  /\ was # next
  /\ next = "direct" \/ (next \in Relays /\ was \notin Relays)

(* A report is on its way no more; if it was stored, those sent before it   *)
(* are late.                                                                *)
Leaves(i, stored) ==
  flight' = [j \in 1..(Len(flight) - 1) |->
               IF j >= i THEN flight[j + 1]
               ELSE IF stored THEN [flight[j] EXCEPT !.late = TRUE] ELSE flight[j]]

(* store.ApplyReport, one transaction; counters and path of a peer that is  *)
(* gone are skipped.  A report the agent has given up is stored unnoticed.  *)
storeReport(i) ==
  LET r == flight[i] IN
  /\ r.awaited \/ Fault
  /\ Leaves(i, TRUE)
  /\ totals' = [totals EXCEPT !["link"] = IF row THEN @ + r.counted["link"] ELSE @,
                              !["flow"] = @ + r.counted["flow"]]
  /\ events' = IF row /\ connectionEventKind(lastPath, r.path) THEN events + 1 ELSE events
  /\ lastPath' = IF row THEN r.path ELSE lastPath
  /\ proxyLog' = proxyLog \o r.proxy
  /\ awaiting' = IF r.awaited THEN "answer" ELSE awaiting
  /\ past' = [past EXCEPT !.faults = IF r.awaited THEN @ ELSE @ + 1,
                          !.repeated = @ \/ ~r.awaited,
                          !.dropped = @ \/ (~row /\ r.counted["link"] > 0),
                          !.overtaken = @ \/ r.late]
  /\ UNCHANGED <<prev, pending, offset, queue, world, row>>

(* Lost on the way, or rolled back. *)
reportLost(i) ==
  /\ Leaves(i, FALSE)
  /\ UNCHANGED <<agentSide, world, database, past>>

ReportingNext ==
  \/ \E m \in Meters : Traffic(m) \/ \E to \in {0, Gone} : CounterResets(m, to)
  \/ \E to \in PathKinds : WayChanges(to)
  \/ ProxyRequest \/ LogRotates \/ RemoteRemoved \/ RemoteEnrolls \/ ReporterRestarts
  \/ tailProxyLog \/ sendReport \/ posted \/ postFailed \/ answerFailed
  \/ \E i \in DOMAIN flight : storeReport(i) \/ reportLost(i)

ReportingSpec == ReportingInit /\ [][ReportingNext]_reportVars

-----------------------------------------------------------------------------
(* Properties *)

(* What the agent holds and the database does not have yet. *)
Held(m) == IF awaiting = "answer" THEN 0 ELSE pending[m]

(* Traffic is not counted twice, whatever counters are reset, reports lost  *)
(* and rows removed, as long as no report was stored without the agent      *)
(* hearing of it and the agent was not restarted (collect, post); and none  *)
(* is forgotten, as long as no counter was reset and the remote kept its    *)
(* row: "a failed report is fully retriable" (ApplyReport).                 *)
TrafficAccounted ==
  \A m \in Meters :
    /\ ~past.repeated => totals[m] + Held(m) <= past.bytes[m]
    /\ ~past.dropped =>
         totals[m] + Held(m) + counterDelta(kernel[m], prev[m]) >= past.bytes[m]

(* The event tables tell what happened, once: no line of the proxy's log is *)
(* stored twice, whatever is rotated, lost or restarted (readNew, drain);   *)
(* and unless a late report was stored after a younger one, lines are in    *)
(* order and there are no more connection events than changes of the path,  *)
(* and one for the first state (connectionEventKind).                       *)
EventsFaithful ==
  /\ \A i, j \in 1..Len(proxyLog) :
       i < j => /\ proxyLog[i] # proxyLog[j]
                /\ ~past.overtaken => proxyLog[i] < proxyLog[j]
  /\ ~past.overtaken => events <= past.moves + 1

=============================================================================
